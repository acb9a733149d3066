------------------------- MODULE CaptainRefinement --------------------------
(***************************************************************************)
(* Captain uses every slot as module Consensus allows, and makes of them   *)
(* the log of module Log.                                                  *)
(***************************************************************************)
EXTENDS Captain

Submitted == {v \in Values : \E n \in Nodes : \E i \in DOMAIN committed[n] :
                               committed[n][i] = v}

L == INSTANCE Log WITH submitted <- Submitted, log <- decided, delivered <- called

\* The slots together are a log: a slot gets one value, no value gets two slots,
\* and every node hands over prefixes of one and the same sequence.
ImplementsLog == L!LSpec

\* The steps of Captain that concern slot s.
S(s) == INSTANCE Consensus WITH
          committed <- proposed[s], decided <- decided[s],
          learned <- [n \in Nodes |-> chosen_values[n][s]]

\* In every slot Captain does what Consensus allows its users: a slot is started
\* at most once for a value, and a node records only the value of the slot.
SlotsAreConsensus ==
  /\ \A s \in Slots : S(s)!CInit
  /\ [][\A s \in Slots : [S(s)!CNext]_(S(s)!cvars)]_vars
=============================================================================
