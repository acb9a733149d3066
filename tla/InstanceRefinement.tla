------------------------- MODULE InstanceRefinement -------------------------
(***************************************************************************)
(* Instance implements Consensus.  The decided value is not stored         *)
(* anywhere in the code: it is the value a quorum of acceptors has         *)
(* accepted in one ballot.                                                 *)
(***************************************************************************)
EXTENDS Instance

\* The values some node has committed in this slot.
Committed == {v \in Values : \E n \in Nodes : proposer[n].init_value = v}

Decided ==
  IF \E v \in Values : IsChosen(v) THEN CHOOSE v \in Values : IsChosen(v)
                                   ELSE NULL

C == INSTANCE Consensus WITH
       committed <- Committed, decided <- Decided, learned <- chosen_value

\* Every step of the protocol, whichever message it handles, is a commit, the
\* one decision, the recording of the decided value by one node, or invisible.
ImplementsConsensus == C!CSpec
=============================================================================
