----------------------------- MODULE MCCaptain ------------------------------
(***************************************************************************)
(* The configuration of Captain that TLC checks.                           *)
(***************************************************************************)
EXTENDS CaptainRefinement

\* Nodes 0 and 1 were each told that they are the master, node 2 was not.
TwoMasters == [n \in Nodes |-> IF n = 1 THEN 1 ELSE 0]

\* Node 0 has one slot open at a time, node 1 has two.
Windows == [n \in Nodes |-> IF n = 1 THEN 2 ELSE 1]
=============================================================================
