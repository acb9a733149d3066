------------------------------ MODULE Proposer ------------------------------
(***************************************************************************)
(* One Paxos proposer (proposer.cpp) with its ProposerStatus: a record of  *)
(* the members of class Proposer.  The two ack maps are total functions on *)
(* Nodes; a node that is not a key of the map has the reply "none".        *)
(***************************************************************************)
EXTENDS View

Replies == {"none", "no", "yes"}

NoAck == [reply |-> "none", max_ballot |-> 0, max_value |-> NULL]

EmptyPrepareMap == [m \in Nodes |-> NoAck]
EmptyAcceptMap  == [m \in Nodes |-> "none"]

NoProposer ==
  [ status      |-> "EMPTY",  init_value |-> NULL,
    curr_ballot |-> 0,        curr_value |-> NULL,
    max_ballot  |-> 0,        max_value  |-> NULL,
    ack_prepare |-> EmptyPrepareMap, ack_accept |-> EmptyAcceptMap ]

NewProposer(v) == [NoProposer EXCEPT !.init_value = v]

\* Mutant: the node id is added again in every round.
BugNextBallot(p, n) == [p EXCEPT !.curr_ballot = @ + BallotStep + n]

\* Node n raises the ballot of p.
gen_next_ballot(p, n) ==
  [p EXCEPT !.curr_ballot = IF @ = 0 THEN BallotStep + n ELSE @ + BallotStep]

\* Mutant: the answers to the refused ballot stay in the map.
BugRestart(p, n) ==
  gen_next_ballot([p EXCEPT !.curr_value = NULL, !.ack_accept = EmptyAcceptMap], n)

\* restart_msg_prepare keeps max_ballot and max_value from earlier ballots.
restart_msg_prepare(p, n) ==
  gen_next_ballot([p EXCEPT !.curr_value  = NULL,
                            !.ack_prepare = EmptyPrepareMap,
                            !.ack_accept  = EmptyAcceptMap], n)

----------------------------------------------------------------------------
\* handle_msg_promise

\* Mutant: a PROMISE of an earlier ballot is counted.
BugPromiseDropped(p, b) == p.curr_value # NULL

PromiseDropped(p, b) == b < p.curr_ballot \/ p.curr_value # NULL

StorePromise(p, m, ack) == [p EXCEPT !.ack_prepare[m] = ack]

PrepareAcks(p) == {m \in Nodes : p.ack_prepare[m].reply # "none"}
Promised(p)    == {m \in Nodes : p.ack_prepare[m].reply = "yes"}

\* The acks that leave their mark on max_ballot when the map is scanned in the
\* order of node ids: the first one with the largest max_ballot, if it is
\* larger than what the proposer remembers.
Highest(p) ==
  {m \in Promised(p) :
     /\ p.ack_prepare[m].max_ballot > p.max_ballot
     /\ \A k \in Promised(p) :
          /\ p.ack_prepare[k].max_ballot <= p.ack_prepare[m].max_ballot
          /\ p.ack_prepare[k].max_ballot = p.ack_prepare[m].max_ballot => m <= k}

\* The state after the scan: a set with one element.
ScanPromises(p) ==
  {[p EXCEPT !.max_ballot = p.ack_prepare[m].max_ballot,
             !.max_value  = p.ack_prepare[m].max_value] : m \in Highest(p)}
  \cup {q \in {p} : \A m \in Promised(p) :
                      p.ack_prepare[m].max_ballot <= p.max_ballot}

\* Mutant: the proposer insists on its own value.
BugAdoptValue(p) == [p EXCEPT !.curr_value = p.init_value]

\* The value phase 2 of p must use.
AdoptValue(p) ==
  [p EXCEPT !.curr_value = IF p.max_value # NULL THEN p.max_value
                                                 ELSE p.init_value]

\* Reed-Solomon build: the acceptors that reported a block of max_value.
Holders(p) == {m \in Promised(p) : p.ack_prepare[m].max_value = p.max_value}

\* Mutant: as many blocks as make a value are enough to go on.
BugEnoughBlocks(p) == Cardinality(Holders(p)) >= rs_x(NodesSize)

\* lost_num is at most rs_f.
EnoughBlocks(p) == NodesSize - Cardinality(Holders(p)) <= rs_f(NodesSize)

\* Phase 2 can start once qr nodes have promised: except in the Reed-Solomon
\* build, where a reported value must be put together from its blocks.
CanAdopt(p) == MODE_TYPE = 1 /\ p.max_value # NULL => EnoughBlocks(p)

init_curr_value(p) == [p EXCEPT !.curr_value = p.init_value]

----------------------------------------------------------------------------
\* handle_msg_accepted

AcceptedDropped(p, b) == b < p.curr_ballot \/ p.curr_value = NULL

StoreAccepted(p, m, reply) == [p EXCEPT !.ack_accept[m] = reply]

AcceptAcks(p) == {m \in Nodes : p.ack_accept[m] # "none"}
BugAccepted(p) == AcceptAcks(p)   \* mutant: counts a "no" as well
Accepted(p)   == {m \in Nodes : p.ack_accept[m] = "yes"}
=============================================================================
