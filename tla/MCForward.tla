----------------------------- MODULE MCForward ------------------------------
(***************************************************************************)
(* The configuration of Forward that TLC checks.                           *)
(***************************************************************************)
EXTENDS Forward

\* Every node was given node 0 as the master.
MasterIs0 == [n \in Nodes |-> 0]
=============================================================================
