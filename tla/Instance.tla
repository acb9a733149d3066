------------------------------ MODULE Instance ------------------------------
(***************************************************************************)
(* One Paxos instance - one slot - of NDNPaxos, over all nodes: the parts  *)
(* of Captain (captain.cpp) that concern a single slot_id, composed with   *)
(* its acceptors, its proposers and the messages of Commo (commo.cpp).     *)
(*                                                                         *)
(* Every handler runs to completion on the event loop of its node, so an   *)
(* action is a whole handler, with the copy of a broadcast that a node     *)
(* sends to itself handled inside the broadcast, as broadcast_msg does.    *)
(*                                                                         *)
(* PREPARE, ACCEPT, DECIDE and a TEACH are NDN Interests; PROMISE,         *)
(* ACCEPTED and LEARN are the Data that answer an Interest.  Each is       *)
(* delivered at most once, in any order.  Nothing is ever sent again       *)
(* (onTimeout and onNack are empty), so a message that is lost is one that *)
(* stays in net for ever.                                                  *)
(***************************************************************************)
EXTENDS Acceptor, Proposer

CONSTANTS
  MaxRound,   \* bound: prepare rounds one proposer can start in this slot
  MaxCrash,   \* bound: nodes that stop working
  Preset      \* multi mode: this slot is one of the view_->length() slots whose
              \* acceptors the Captain constructor creates

ASSUME InstanceAssumption ==
  MaxRound \in Nat \ {0} /\ MaxCrash \in Nat /\ Preset \in BOOLEAN

VARIABLES
  work,           \* work[n]: work_ of Captain n
  acceptor,       \* acceptor[n]: acceptors_[slot] of node n
  proposer,       \* proposer[n]: proposers_[slot] of node n; "EMPTY" is the slot
                  \* before n has used it, "CHOSEN" the slot n has erased
  chosen_value,   \* chosen_value[n]: chosen_values_[slot] of node n
  net,            \* the messages in flight
  votes,          \* history: every acceptance of a value by an acceptor
  proposals       \* history: every value an ACCEPT round was started for

vars == <<work, acceptor, proposer, chosen_value, net, votes, proposals>>

----------------------------------------------------------------------------
Prepare(n, m, b) == [type |-> "PREPARE", from |-> n, to |-> m, ballot |-> b]

Promise(n, m, b, ack) ==
  [ type  |-> "PROMISE", from |-> n, to |-> m, ballot |-> b,
    reply |-> ack.reply, max_ballot |-> ack.max_ballot,
    max_value |-> ack.max_value ]

AcceptMsg(n, m, b, v) ==
  [type |-> "ACCEPT", from |-> n, to |-> m, ballot |-> b, value |-> v]

AcceptedMsg(n, m, b, reply) ==
  [type |-> "ACCEPTED", from |-> n, to |-> m, ballot |-> b, reply |-> reply]

msg_decide(n, m, v) == [type |-> "DECIDE", from |-> n, to |-> m, value |-> v]
msg_learn(n, m)     == [type |-> "LEARN", from |-> n, to |-> m]
msg_teach(n, m, v)  == [type |-> "TEACH", from |-> n, to |-> m, value |-> v]

Vote(n, b, v)  == [node |-> n, ballot |-> b, value |-> v]
Proposal(b, v) == [ballot |-> b, value |-> v]

\* Message msg has been received, the messages of out are sent.
Deliver(msg, out) == net' = (net \ {msg}) \cup out

\* Message handlers do nothing at a node that was crashed.
Works(n) == work[n]

----------------------------------------------------------------------------
Init ==
  /\ work = [n \in Nodes |-> TRUE]
  /\ acceptor = [n \in Nodes |->
                   IF MODE_TYPE = 2 /\ Preset
                   THEN update_max_proposed(NewAcceptor, BallotStep + MasterOf[n])
                   ELSE NewAcceptor]
  /\ proposer = [n \in Nodes |-> NoProposer]
  /\ chosen_value = [n \in Nodes |-> NULL]
  /\ net = {}
  /\ votes = {}
  /\ proposals = {}

\* broadcast_msg(PREPARE) for proposer record p of node n.  When n addresses
\* itself too, its acceptor answers and its proposer records the answer before
\* the call returns; with a quorum of two or more that answer is NOT_ENOUGH.
BroadcastPrepare(n, p, received) ==
  LET b      == p.curr_ballot
      inline == Works(n) /\ n \in Targets("PREPARE")
      q      == [p EXCEPT !.status = "INIT"]
  IN
  /\ net' = (net \ received)
              \cup {Prepare(n, m, b) : m \in Reach(n, "PREPARE")}
  /\ \/ /\ ~ inline
        /\ proposer' = [proposer EXCEPT ![n] = q]
        /\ UNCHANGED acceptor
     \/ /\ inline
        /\ acceptor' = [acceptor EXCEPT ![n] = handle_msg_prepare(acceptor[n], b)]
        /\ proposer' = [proposer EXCEPT ![n] =
              StorePromise([q EXCEPT !.status = "PHASEI"], n,
                           AckPrepare(acceptor[n], b))]
  /\ UNCHANGED <<work, chosen_value, votes, proposals>>

\* broadcast_msg(ACCEPT) for proposer record p of node n, which carries the
\* ballot and the value; the copy to itself as above.
BroadcastAccept(n, p, received) ==
  LET b      == p.curr_ballot
      v      == p.curr_value
      inline == Works(n) /\ n \in Targets("ACCEPT")
      q      == [p EXCEPT !.status = "PHASEII"]
  IN
  /\ net' = (net \ received)
              \cup {AcceptMsg(n, m, b, v) : m \in Reach(n, "ACCEPT")}
  /\ proposals' = proposals \cup {Proposal(b, v)}
  /\ \/ /\ ~ inline
        /\ proposer' = [proposer EXCEPT ![n] = q]
        /\ UNCHANGED <<acceptor, votes>>
     \/ /\ inline
        /\ acceptor' = [acceptor EXCEPT ![n] = handle_msg_accept(acceptor[n], b, v)]
        /\ proposer' = [proposer EXCEPT ![n] =
              StoreAccepted(q, n, AckAccept(acceptor[n], b))]
        /\ votes' = IF Accepts(acceptor[n], b) THEN votes \cup {Vote(n, b, v)}
                                               ELSE votes
  /\ UNCHANGED <<work, chosen_value>>

----------------------------------------------------------------------------
\* Captain::commit at a master starts this slot for value v.  Value ids contain
\* the id of the node that made them, so no two nodes commit the same one.
Commit(n, v) ==
  /\ if_master(n)
  /\ proposer[n].status = "EMPTY"
  /\ \A m \in Nodes : proposer[m].init_value # v
  /\ LET p == gen_next_ballot(NewProposer(v), n) IN
     \/ MODE_TYPE = 2 /\ BroadcastAccept(n, init_curr_value(p), {})
     \/ MODE_TYPE # 2 /\ BroadcastPrepare(n, p, {})

\* case PREPARE of handle_msg
RecvPrepare(msg) ==
  LET n == msg.to IN
  /\ msg.type = "PREPARE"
  /\ Works(n)
  /\ acceptor' = [acceptor EXCEPT ![n] = handle_msg_prepare(acceptor[n], msg.ballot)]
  /\ Deliver(msg, {Promise(n, msg.from, msg.ballot,
                           AckPrepare(acceptor[n], msg.ballot))})
  /\ UNCHANGED <<work, proposer, chosen_value, votes, proposals>>

\* case PROMISE of handle_msg, by what handle_msg_promise returns.  The status
\* moves from INIT to PHASEI whatever it returns.
PromiseReceived(msg) ==
  /\ msg.type = "PROMISE"
  /\ Works(msg.to)

WaitsForPromise(p) == p.status \in {"INIT", "PHASEI"}

\* The proposer of msg after it stored the ack and scanned the map.
AfterPromise(msg) ==
  LET p   == [proposer[msg.to] EXCEPT !.status = "PHASEI"]
      ack == [ reply |-> msg.reply, max_ballot |-> msg.max_ballot,
               max_value |-> msg.max_value ]
  IN  StorePromise(p, msg.from, ack)

\* No such proposer, or one past phase 1.
PromiseIgnored(msg) ==
  /\ PromiseReceived(msg)
  /\ ~ WaitsForPromise(proposer[msg.to])
  /\ Deliver(msg, {})
  /\ UNCHANGED <<work, acceptor, proposer, chosen_value, votes, proposals>>

PromiseDrop(msg) ==
  LET n == msg.to IN
  /\ PromiseReceived(msg)
  /\ WaitsForPromise(proposer[n])
  /\ PromiseDropped(proposer[n], msg.ballot)
  /\ proposer' = [proposer EXCEPT ![n].status = "PHASEI"]
  /\ Deliver(msg, {})
  /\ UNCHANGED <<work, acceptor, chosen_value, votes, proposals>>

PromiseStored(msg) ==
  /\ PromiseReceived(msg)
  /\ WaitsForPromise(proposer[msg.to])
  /\ ~ PromiseDropped(proposer[msg.to], msg.ballot)

\* Mutant: one answer more than a quorum is waited for.
BugPromiseNotEnough(msg) ==
  LET p == AfterPromise(msg) IN
  /\ PromiseStored(msg)
  /\ Cardinality(PrepareAcks(p)) <= qr
  /\ proposer' = [proposer EXCEPT ![msg.to] = p]
  /\ Deliver(msg, {})
  /\ UNCHANGED <<work, acceptor, chosen_value, votes, proposals>>

PromiseNotEnough(msg) ==
  LET p == AfterPromise(msg) IN
  /\ PromiseStored(msg)
  /\ Cardinality(PrepareAcks(p)) < qr
  /\ proposer' = [proposer EXCEPT ![msg.to] = p]
  /\ Deliver(msg, {})
  /\ UNCHANGED <<work, acceptor, chosen_value, votes, proposals>>

PromiseContinue(msg) ==
  LET p == AfterPromise(msg) IN
  /\ PromiseStored(msg)
  /\ Cardinality(PrepareAcks(p)) >= qr
  /\ Cardinality(Promised(p)) >= qr
  /\ \E q \in ScanPromises(p) :
       /\ CanAdopt(q)
       /\ BroadcastAccept(msg.to, AdoptValue(q), {msg})

PromiseRestart(msg) ==
  LET p == AfterPromise(msg) IN
  /\ PromiseStored(msg)
  /\ Cardinality(PrepareAcks(p)) >= qr
  /\ p.curr_ballot < MaxRound * BallotStep
  /\ \E q \in ScanPromises(p) :
       /\ Cardinality(Promised(p)) < qr \/ ~ CanAdopt(q)
       /\ BroadcastPrepare(msg.to, restart_msg_prepare(q, msg.to), {msg})

RecvPromise(msg) ==
  \/ PromiseIgnored(msg)
  \/ PromiseDrop(msg)
  \/ PromiseNotEnough(msg)
  \/ PromiseContinue(msg)
  \/ PromiseRestart(msg)

\* Mutant: an ACCEPT that is refused is not answered.
BugRecvAccept(msg) ==
  LET n == msg.to IN
  /\ msg.type = "ACCEPT"
  /\ Works(n)
  /\ acceptor' = [acceptor EXCEPT ![n] = handle_msg_accept(@, msg.ballot, msg.value)]
  /\ votes' = IF Accepts(acceptor[n], msg.ballot)
              THEN votes \cup {Vote(n, msg.ballot, msg.value)} ELSE votes
  /\ Deliver(msg, IF Accepts(acceptor[n], msg.ballot)
                  THEN {AcceptedMsg(n, msg.from, msg.ballot, "yes")} ELSE {})
  /\ UNCHANGED <<work, proposer, chosen_value, proposals>>

\* case ACCEPT of handle_msg
RecvAccept(msg) ==
  LET n == msg.to
      b == msg.ballot
      v == msg.value
  IN
  /\ msg.type = "ACCEPT"
  /\ Works(n)
  /\ acceptor' = [acceptor EXCEPT ![n] = handle_msg_accept(acceptor[n], b, v)]
  /\ votes' = IF Accepts(acceptor[n], b) THEN votes \cup {Vote(n, b, v)} ELSE votes
  /\ Deliver(msg, {AcceptedMsg(n, msg.from, b, AckAccept(acceptor[n], b))})
  /\ UNCHANGED <<work, proposer, chosen_value, proposals>>

----------------------------------------------------------------------------
\* case ACCEPTED of handle_msg, by what handle_msg_accepted returns
AcceptedReceived(msg) ==
  /\ msg.type = "ACCEPTED"
  /\ Works(msg.to)

AfterAccepted(msg) == StoreAccepted(proposer[msg.to], msg.from, msg.reply)

\* No such proposer, or one not in phase 2, or DROP.
AcceptedIgnored(msg) ==
  LET p == proposer[msg.to] IN
  /\ AcceptedReceived(msg)
  /\ p.status # "PHASEII" \/ AcceptedDropped(p, msg.ballot)
  /\ Deliver(msg, {})
  /\ UNCHANGED <<work, acceptor, proposer, chosen_value, votes, proposals>>

AcceptedStored(msg) ==
  /\ AcceptedReceived(msg)
  /\ proposer[msg.to].status = "PHASEII"
  /\ ~ AcceptedDropped(proposer[msg.to], msg.ballot)

AcceptedNotEnough(msg) ==
  LET p == AfterAccepted(msg) IN
  /\ AcceptedStored(msg)
  /\ Cardinality(AcceptAcks(p)) < qr
  /\ proposer' = [proposer EXCEPT ![msg.to] = p]
  /\ Deliver(msg, {})
  /\ UNCHANGED <<work, acceptor, chosen_value, votes, proposals>>

\* add_chosen_value: the first value recorded for the slot stays.
add_chosen_value(n, v) ==
  chosen_value' = [chosen_value EXCEPT ![n] = IF @ = NULL THEN v ELSE @]

\* Mutants: one node is not told (off by one); the rest is taught in the multi build only.
BugAnnounce(n, v, w) ==
  {msg_decide(n, m, v) : m \in Reach(n, "DECIDE") \ {quorum_size - 1}}
BugAnnounceMulti(n, v, w) ==
  {msg_decide(n, m, v) : m \in Reach(n, "DECIDE")}
  \cup IF MODE_TYPE = 2 THEN {msg_teach(n, m, w) : m \in Reach(n, "TEACH")}
                        ELSE {}

\* What the node broadcasts once it has chosen v, w being the value it recorded.
Announce(n, v, w) ==
  {msg_decide(n, m, v) : m \in Reach(n, "DECIDE")}
  \cup IF MODE_TYPE >= 2 THEN {msg_teach(n, m, w) : m \in Reach(n, "TEACH")}
                         ELSE {}

AcceptedChoose(msg) ==
  LET n == msg.to
      p == AfterAccepted(msg)
  IN
  /\ AcceptedStored(msg)
  /\ Cardinality(AcceptAcks(p)) >= qr
  /\ Cardinality(Accepted(p)) >= qr
  /\ proposer' = [proposer EXCEPT ![n] = [p EXCEPT !.status = "CHOSEN"]]
  /\ add_chosen_value(n, p.curr_value)
  /\ Deliver(msg, Announce(n, p.curr_value, chosen_value'[n]))
  /\ UNCHANGED <<work, acceptor, votes, proposals>>

AcceptedRestart(msg) ==
  LET n == msg.to
      p == AfterAccepted(msg)
  IN
  /\ AcceptedStored(msg)
  /\ Cardinality(AcceptAcks(p)) >= qr
  /\ Cardinality(Accepted(p)) < qr
  /\ p.curr_ballot < MaxRound * BallotStep
  /\ BroadcastPrepare(n, restart_msg_prepare(p, n), {msg})

RecvAccepted(msg) ==
  \/ AcceptedIgnored(msg)
  \/ AcceptedNotEnough(msg)
  \/ AcceptedChoose(msg)
  \/ AcceptedRestart(msg)

----------------------------------------------------------------------------
\* case DECIDE of handle_msg: the value is taken from the node's own acceptor if
\* that holds the decided one, and asked for otherwise.
RecvDecide(msg) ==
  LET n == msg.to IN
  /\ msg.type = "DECIDE"
  /\ Works(n)
  /\ \/ /\ chosen_value[n] # NULL
        /\ Deliver(msg, {})
        /\ UNCHANGED chosen_value
     \/ /\ chosen_value[n] = NULL
        /\ acceptor[n].max_value = msg.value
        /\ add_chosen_value(n, acceptor[n].max_value)
        /\ Deliver(msg, {})
     \/ /\ chosen_value[n] = NULL
        /\ acceptor[n].max_value # msg.value
        /\ Deliver(msg, {msg_learn(n, msg.from)})
        /\ UNCHANGED chosen_value
  /\ UNCHANGED <<work, acceptor, proposer, votes, proposals>>

\* Mutant: the request is not answered.
BugRecvLearn(msg) ==
  /\ msg.type = "LEARN"
  /\ Works(msg.to)
  /\ Deliver(msg, {})
  /\ UNCHANGED <<work, acceptor, proposer, chosen_value, votes, proposals>>

\* case LEARN of handle_msg
RecvLearn(msg) ==
  LET n == msg.to IN
  /\ msg.type = "LEARN"
  /\ Works(n)
  /\ Deliver(msg, {msg_teach(n, msg.from, v) : v \in {chosen_value[n]} \ {NULL}})
  /\ UNCHANGED <<work, acceptor, proposer, chosen_value, votes, proposals>>

\* case TEACH of handle_msg
RecvTeach(msg) ==
  /\ msg.type = "TEACH"
  /\ Works(msg.to)
  /\ add_chosen_value(msg.to, msg.value)
  /\ Deliver(msg, {})
  /\ UNCHANGED <<work, acceptor, proposer, votes, proposals>>

\* Captain::crash
Crash(n) ==
  /\ Works(n)
  /\ Cardinality({m \in Nodes : ~ Works(m)}) < MaxCrash
  /\ work' = [work EXCEPT ![n] = FALSE]
  /\ UNCHANGED <<acceptor, proposer, chosen_value, net, votes, proposals>>

Recv(msg) ==
  \/ RecvPrepare(msg)
  \/ RecvPromise(msg)
  \/ RecvAccept(msg)
  \/ RecvAccepted(msg)
  \/ RecvDecide(msg)
  \/ RecvLearn(msg)
  \/ RecvTeach(msg)

Next ==
  \/ \E n \in Nodes, v \in Values : Commit(n, v)
  \/ \E msg \in net : Recv(msg)
  \/ \E n \in Nodes : Crash(n)

Spec == Init /\ [][Next]_vars

\* The event loop of every node keeps running, and the network loses nothing.
LiveSpec == Spec /\ WF_vars(\E msg \in net : Recv(msg))

----------------------------------------------------------------------------
\* Properties

Ballots == UNION {BallotsOf(n, MaxRound) : n \in Masters}

Quorums == {Q \in SUBSET Nodes : Cardinality(Q) >= qr}

Voted(n, b, v) == Vote(n, b, v) \in votes

ChosenAt(b, v) == \E Q \in Quorums : \A n \in Q : Voted(n, b, v)

\* The instance has chosen v: a quorum accepted it in one ballot.
IsChosen(v) == \E b \in Ballots : ChosenAt(b, v)

ValuesOrNull == Values \cup {NULL}

BallotsOrZero == Ballots \cup {0}

AcceptorState ==
  [ max_proposed_ballot : Nat, max_accepted_ballot : BallotsOrZero,
    max_value : ValuesOrNull ]

PrepareAck ==
  [reply : Replies, max_ballot : BallotsOrZero, max_value : ValuesOrNull]

ProposerState ==
  [ status      : {"EMPTY", "INIT", "PHASEI", "PHASEII", "CHOSEN"},
    init_value  : ValuesOrNull,  curr_ballot : BallotsOrZero,
    curr_value  : ValuesOrNull,  max_ballot  : BallotsOrZero,
    max_value   : ValuesOrNull,
    ack_prepare : [Nodes -> PrepareAck], ack_accept : [Nodes -> Replies] ]

Message ==
  [type : {"PREPARE"}, from : Nodes, to : Nodes, ballot : Ballots]
  \cup [ type : {"PROMISE"}, from : Nodes, to : Nodes, ballot : Ballots,
         reply : {"no", "yes"}, max_ballot : BallotsOrZero,
         max_value : ValuesOrNull ]
  \cup [ type : {"ACCEPT"}, from : Nodes, to : Nodes, ballot : Ballots,
         value : Values ]
  \cup [ type : {"ACCEPTED"}, from : Nodes, to : Nodes, ballot : Ballots,
         reply : {"no", "yes"} ]
  \cup [type : {"DECIDE", "TEACH"}, from : Nodes, to : Nodes, value : Values]
  \cup [type : {"LEARN"}, from : Nodes, to : Nodes]

\* Every variable holds what the code can put there.
TypeOK ==
  /\ work \in [Nodes -> BOOLEAN]
  /\ acceptor \in [Nodes -> AcceptorState]
  /\ proposer \in [Nodes -> ProposerState]
  /\ chosen_value \in [Nodes -> ValuesOrNull]
  /\ net \in SUBSET Message
  /\ votes \in SUBSET [node : Nodes, ballot : Ballots, value : Values]
  /\ proposals \in SUBSET [ballot : Ballots, value : Values]

\* No two nodes ever record different values for the slot, whatever the order
\* in which rival masters' rounds, refusals and restarts interleave.
Agreement ==
  \A n, m \in Nodes :
    chosen_value[n] # NULL /\ chosen_value[m] # NULL
      => chosen_value[n] = chosen_value[m]

\* A node records only a value that a quorum of acceptors has accepted in one
\* ballot: a master's CHOOSE, a DECIDE matched with the own acceptor and a TEACH
\* all hand over the chosen value.
LearnedIsChosen ==
  \A n \in Nodes : chosen_value[n] # NULL => IsChosen(chosen_value[n])

\* The number of acceptors a value is read from: in the Reed-Solomon build each of
\* them has one block.
BlocksNeeded == IF MODE_TYPE = 1 THEN rs_x(NodesSize) ELSE 1

\* A chosen value is never lost from the acceptors, although later rounds
\* overwrite max_value: every quorum keeps as many acceptors whose max_value it
\* is as it takes to put the value together.
ChosenHeld ==
  \A v \in Values : IsChosen(v) =>
    \A Q \in Quorums :
      Cardinality({n \in Q : acceptor[n].max_value = v}) >= BlocksNeeded

\* A proposer that reaches phase 2 in a ballot at or above one in which a value
\* was chosen works for that value, even if it has restarted with max_ballot and
\* max_value kept from earlier ballots.
PhaseTwoRespectsChosen ==
  \A n \in Nodes, b \in Ballots, v \in Values :
    /\ proposer[n].status = "PHASEII"
    /\ b <= proposer[n].curr_ballot
    /\ ChosenAt(b, v)
    => proposer[n].curr_value = v

\* When every message has been delivered nobody is left waiting: each started
\* proposer has finished the slot.
QuiescentDone ==
  net = {} => \A n \in Nodes : proposer[n].status \in {"EMPTY", "CHOSEN"}

\* When every message has been delivered and a master has chosen, every node
\* that Interests can reach knows the value.
QuiescentLearned ==
  net = {} /\ (\E n \in Nodes : proposer[n].status = "CHOSEN")
    => \A n \in Listeners : chosen_value[n] # NULL

\* Once a master has started the slot, and as long as it works, it and every
\* other working node that Interests can reach come to know the slot's value.
EventuallyLearned ==
  \A n \in Nodes :
    proposer[n].status # "EMPTY"
      ~> \/ ~ Works(n)
         \/ \A m \in Listeners \cup {n} : ~ Works(m) \/ chosen_value[m] # NULL

\* In the Reed-Solomon build a proposer works for its own value only, also after
\* restarts: no Interest of a rival reaches the acceptor of a master, whose answer
\* is always among the first qr, and all of these must hold the reported value.
AdoptsOwnOnly ==
  MODE_TYPE = 1 =>
    \A n \in Nodes : proposer[n].status = "PHASEII"
                      => proposer[n].curr_value = proposer[n].init_value

\* What the comment above handle_msg_promise and handle_msg_accepted says of a
\* restart: a majority of the answers was "no".  refusals counts the answers
\* recorded before the one that is being handled.
RestartsOnMajorityNo ==
  [][ \A n \in Nodes :
        LET p        == proposer[n]
            refusals == IF p.status = "PHASEII"
                        THEN {m \in Nodes : p.ack_accept[m] = "no"}
                        ELSE {m \in Nodes : p.ack_prepare[m].reply = "no"}
        IN  p.curr_ballot # 0 /\ proposer'[n].curr_ballot > p.curr_ballot
              => Cardinality(refusals) + 1 >= qr ]_vars
=============================================================================
