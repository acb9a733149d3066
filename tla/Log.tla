-------------------------------- MODULE Log ---------------------------------
(***************************************************************************)
(* What NDNPaxos promises over all slots: every slot of the log is given   *)
(* one submitted value, no value is in two slots, and each node hands the  *)
(* log to its application in order, without a gap.                         *)
(***************************************************************************)
EXTENDS Naturals, Sequences

CONSTANTS Nodes, Values, NULL, Slots

VARIABLES
  submitted,   \* the values handed to Captain::commit
  log,         \* log[s]: the value of slot s, NULL until there is one
  delivered    \* delivered[n]: the values node n gave its application

lvars == <<submitted, log, delivered>>

LInit ==
  /\ submitted = {}
  /\ log = [s \in Slots |-> NULL]
  /\ delivered = [n \in Nodes |-> <<>>]

Submit(v) ==
  /\ v \notin submitted
  /\ submitted' = submitted \cup {v}
  /\ UNCHANGED <<log, delivered>>

Fill(s, v) ==
  /\ log[s] = NULL
  /\ v \in submitted
  /\ \A t \in Slots : log[t] # v
  /\ log' = [log EXCEPT ![s] = v]
  /\ UNCHANGED <<submitted, delivered>>

\* Node n hands over the slots up to k that it has not handed over yet.
Deliver(n, k) ==
  /\ k > Len(delivered[n])
  /\ \A s \in 1 .. k : log[s] # NULL
  /\ delivered' = [delivered EXCEPT ![n] = [s \in 1 .. k |-> log[s]]]
  /\ UNCHANGED <<submitted, log>>

LNext ==
  \/ \E v \in Values : Submit(v)
  \/ \E s \in Slots, v \in Values : Fill(s, v)
  \/ \E n \in Nodes, k \in Slots : Deliver(n, k)

LSpec == LInit /\ [][LNext]_lvars
=============================================================================
