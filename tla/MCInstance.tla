----------------------------- MODULE MCInstance -----------------------------
(***************************************************************************)
(* The configurations of one slot that TLC checks.                         *)
(***************************************************************************)
EXTENDS InstanceRefinement, InstanceInvariants, TLC

\* Every node was given the same master: the first, or the last.
MasterIs0    == [n \in Nodes |-> 0]
MasterIsLast == [n \in Nodes |-> NodesSize - 1]

\* Nodes 0 and 1 were each told that they are the master.
TwoMasters == [n \in Nodes |-> IF n = 1 THEN 1 ELSE 0]

(***************************************************************************)
(* Bounds for a duel of nodes 0 and 1 among five nodes, where a master has *)
(* one acceptor more than it needs and so meets answers to old ballots:    *)
(* six messages in flight, one round for master 1, and nothing explored    *)
(* past the first record.  The acceptors 2, 3 and 4 are interchangeable,   *)
(* so the first round of master 0 may reach them in this order.            *)
(***************************************************************************)
StaleBounds ==
  /\ Cardinality(net) <= 6
  /\ proposer[1].curr_ballot <= BallotStep + 1
  /\ \A n \in Nodes : chosen_value[n] = NULL
  /\ \A m, k \in 2 .. 4 :
       m < k /\ Prepare(0, m, BallotStep) \in net
         => Prepare(0, k, BallotStep) \in net

ValueSymmetry == Permutations(Values)
=============================================================================
