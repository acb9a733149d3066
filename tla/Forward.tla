------------------------------- MODULE Forward ------------------------------
(***************************************************************************)
(* Captain::commit(string) at a node that is not the master: the value is  *)
(* sent to the master in a COMMIT, and the application's thread waits on   *)
(* commit_ok_cond_ until the event loop has handled the answer.  The       *)
(* thread and the event loop of a node interleave; the slots themselves    *)
(* are in module Captain.                                                  *)
(***************************************************************************)
EXTENDS View

VARIABLES
  app,         \* what the application's thread of each node is doing
  commit_ok,   \* commit_ok_
  interests,   \* COMMIT Interests not yet answered: [from, to]
  datas,       \* the Data that answer them
  handed       \* the nodes whose value reached commit(PropValue) of a master

vars == <<app, commit_ok, interests, datas, handed>>

Init ==
  /\ app = [n \in Nodes |-> "idle"]
  /\ commit_ok = [n \in Nodes |-> FALSE]
  /\ interests = {}
  /\ datas = {}
  /\ handed = {}

\* A master hands its value over at once.
CommitAtMaster(n) ==
  /\ app[n] = "idle"
  /\ if_master(n)
  /\ app' = [app EXCEPT ![n] = "returned"]
  /\ handed' = handed \cup {n}
  /\ UNCHANGED <<commit_ok, interests, datas>>

\* send_one_msg(COMMIT): the Interest is named after the host of the master.
SendCommit(n) ==
  /\ app[n] = "idle"
  /\ ~ if_master(n)
  /\ app' = [app EXCEPT ![n] = "sent"]
  /\ interests' = interests \cup {[from |-> n, to |-> MasterOf[n]]}
  /\ UNCHANGED <<commit_ok, datas, handed>>

\* The flag is cleared, and wait gives commit_ok_mutex_ back, in one locked part
\* that begins after the Interest was sent.
StartWaiting(n) ==
  /\ app[n] = "sent"
  /\ commit_ok' = [commit_ok EXCEPT ![n] = FALSE]
  /\ app' = [app EXCEPT ![n] = "waiting"]
  /\ UNCHANGED <<interests, datas, handed>>

\* case COMMIT at a node that is not the master: taken for an answer.
ReplyArrived(n) ==
  /\ commit_ok' = [commit_ok EXCEPT ![n] = TRUE]
  /\ UNCHANGED <<app, handed>>

\* case COMMIT for an Interest.  Only a node that listens on its host name gets it,
\* and a master does not: its branch of the handler is never reached.
RecvInterest(i) ==
  /\ i.to \in Listeners
  /\ interests' = interests \ {i}
  /\ \/ /\ if_master(i.to)
        /\ datas' = datas \cup {i}
        /\ handed' = handed \cup {i.from}
        /\ UNCHANGED <<app, commit_ok>>
     \/ /\ ~ if_master(i.to)
        /\ ReplyArrived(i.to)
        /\ UNCHANGED datas

\* case COMMIT for the Data of the own Interest
RecvData(i) ==
  /\ i \in datas
  /\ datas' = datas \ {i}
  /\ ReplyArrived(i.from)
  /\ UNCHANGED interests

\* onTimeout and onNack do nothing.
Expire(i) ==
  /\ interests' = interests \ {i}
  /\ UNCHANGED <<app, commit_ok, datas, handed>>

\* The thread wakes up and finds the flag set.
Return(n) ==
  /\ app[n] = "waiting"
  /\ commit_ok[n]
  /\ app' = [app EXCEPT ![n] = "returned"]
  /\ UNCHANGED <<commit_ok, interests, datas, handed>>

App(n) == CommitAtMaster(n) \/ SendCommit(n) \/ StartWaiting(n) \/ Return(n)

Next ==
  \/ \E n \in Nodes : App(n)
  \/ \E i \in interests : RecvInterest(i) \/ Expire(i)
  \/ \E i \in datas : RecvData(i)

Spec == Init /\ [][Next]_vars

\* Every thread goes on when it can, and every Interest that somebody listens to
\* is answered or expires.
LiveSpec ==
  /\ Spec
  /\ \A n \in Nodes : WF_vars(App(n))
  /\ WF_vars(\E i \in interests : RecvInterest(i) \/ Expire(i))
  /\ WF_vars(\E i \in datas : RecvData(i))

\* What the comment in commit says: "blocking style receive reply or timeout".
\* A thread that waits for the answer to its COMMIT returns, with the answer or
\* after the time-out of the Interest.
WaitEnds == \A n \in Nodes : app[n] = "waiting" ~> app[n] = "returned"
=============================================================================
