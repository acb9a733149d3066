----------------------------- MODULE Consensus ------------------------------
(***************************************************************************)
(* What one slot of NDNPaxos promises the application: among the values    *)
(* that were committed at most one is decided, once, and every node that   *)
(* records a value for the slot records that one, and keeps it.            *)
(***************************************************************************)
CONSTANTS Nodes, Values, NULL

VARIABLES
  committed,   \* the values handed to Captain::commit for this slot
  decided,     \* the value of the slot, NULL until there is one
  learned      \* learned[n]: the value node n has recorded

cvars == <<committed, decided, learned>>

CInit ==
  /\ committed = {}
  /\ decided = NULL
  /\ learned = [n \in Nodes |-> NULL]

CommitValue(v) ==
  /\ v \notin committed
  /\ committed' = committed \cup {v}
  /\ UNCHANGED <<decided, learned>>

Decide(v) ==
  /\ decided = NULL
  /\ v \in committed
  /\ decided' = v
  /\ UNCHANGED <<committed, learned>>

Learn(n) ==
  /\ decided # NULL
  /\ learned[n] = NULL
  /\ learned' = [learned EXCEPT ![n] = decided]
  /\ UNCHANGED <<committed, decided>>

CNext ==
  \/ \E v \in Values : CommitValue(v) \/ Decide(v)
  \/ \E n \in Nodes : Learn(n)

CSpec == CInit /\ [][CNext]_cvars
=============================================================================
