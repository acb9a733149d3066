------------------------- MODULE CaptainInvariants --------------------------
(***************************************************************************)
(* The inductive invariant of Captain.  Where a value is: it waits at the  *)
(* node it was committed at, or that node has one slot open for it, or it  *)
(* was decided; and no slot that is still undecided holds a value that its *)
(* node has given up there.                                                *)
(***************************************************************************)
EXTENDS CaptainRefinement

Commits(n, v) == \E i \in DOMAIN committed[n] : committed[n][i] = v

ValueAt(n, s) == proposers[n][s].init_value

CommittedOnce ==
  \A n, m \in Nodes : \A i \in DOMAIN committed[n], j \in DOMAIN committed[m] :
    committed[n][i] = committed[m][j] => n = m /\ i = j

\* Only its own node proposes a value, in slots that it has passed.
ProposedByCommitter ==
  \A s \in Slots : \A v \in proposed[s] :
    \E n \in Nodes : Commits(n, v) /\ s <= max_slot[n]

\* What an undecided slot may still be decided on is what it is open for.
UndecidedIsOpen ==
  \A s \in Slots : decided[s] = NULL =>
    \A v \in proposed[s] : \E n \in Nodes : s \in Open(n) /\ ValueAt(n, s) = v

DecidedWasProposed ==
  \A s \in Slots : decided[s] # NULL => decided[s] \in proposed[s]

\* A value with an open slot is nowhere else.
OpenOnce ==
  \A n \in Nodes : \A s \in Open(n) :
    /\ Commits(n, ValueAt(n, s))
    /\ ~ IsWaiting(n, ValueAt(n, s))
    /\ \A t \in Open(n) : ValueAt(n, t) = ValueAt(n, s) => t = s
    /\ \A t \in Slots : decided[t] = ValueAt(n, s) => t = s

WaitingUndecided ==
  \A n \in Nodes : \A i \in DOMAIN tocommit_values[n] :
    \A t \in Slots : decided[t] # tocommit_values[n][i]

\* A slot started under a client's name holds that client's value, for the
\* first time.
ClientNames ==
  \A n \in Nodes : \A s \in Open(n) :
    LET p == proposers[n][s] IN
    p.client_name \in Clients => p.client_name = p.init_value /\ p.try_time = 1

RecordedIsDecided ==
  \A n \in Nodes, s \in Slots : chosen_values[n][s] \in {NULL, decided[s]}

MessagesTrue ==
  \A msg \in net : msg.type \in {"DECIDE", "TEACH"} =>
    msg.value # NULL /\ msg.value = decided[msg.slot]

ChoosingRecorded ==
  \A n \in Nodes : \A s \in choosing[n] :
    decided[s] # NULL /\ chosen_values[n][s] = decided[s]

InformedTrue ==
  \A a \in informed : a.client \in Clients =>
    decided[a.slot] = a.client /\ a.try_time = 1

Placed ==
  \A n \in Nodes : \A i \in DOMAIN committed[n] :
    LET v == committed[n][i] IN
    \/ IsWaiting(n, v)
    \/ \E s \in Open(n) : ValueAt(n, s) = v
    \/ \E s \in Slots : chosen_values[n][s] = v

QueueInv == TypeOK /\ WindowRespected /\ QueueInOrder

ValueInv ==
  /\ CommittedOnce /\ ProposedByCommitter /\ UndecidedIsOpen
  /\ DecidedWasProposed /\ OpenOnce /\ WaitingUndecided /\ ChosenOnce

RecordInv ==
  /\ RecordedIsDecided /\ MessagesTrue /\ ChoosingRecorded /\ CallbacksInOrder

CaptainInv ==
  /\ QueueInv /\ ValueInv /\ RecordInv
  /\ ClientNames /\ InformedTrue /\ Placed
=============================================================================
