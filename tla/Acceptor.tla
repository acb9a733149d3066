------------------------------ MODULE Acceptor ------------------------------
(***************************************************************************)
(* One Paxos acceptor (acceptor.cpp): a record of the members of class     *)
(* Acceptor, and one operator per handler for the state it leaves behind   *)
(* and one for the reply it returns.                                       *)
(***************************************************************************)
EXTENDS View

NewAcceptor ==
  [max_proposed_ballot |-> 0, max_accepted_ballot |-> 0, max_value |-> NULL]

update_max_proposed(a, b) == [a EXCEPT !.max_proposed_ballot = b]

\* Mutant: the promise is given but not recorded.
BugPrepare(a, b) == a

\* The state after a PREPARE for ballot b.
handle_msg_prepare(a, b) ==
  IF b > a.max_proposed_ballot THEN [a EXCEPT !.max_proposed_ballot = b] ELSE a

\* The MsgAckPrepare for ballot b: a refusal still reports the accepted ballot,
\* but never the accepted value.
AckPrepare(a, b) ==
  LET yes == b > a.max_proposed_ballot
  IN  [ reply      |-> IF yes THEN "yes" ELSE "no",
        max_ballot |-> a.max_accepted_ballot,
        max_value  |-> IF yes THEN a.max_value ELSE NULL ]

\* Mutant: an ACCEPT of an old ballot is not refused.
BugAccepts(a, b) == TRUE

Accepts(a, b) == b >= a.max_proposed_ballot

\* Mutant: max_accepted_ballot is not updated with the value.
BugAccept(a, b, v) ==
  IF Accepts(a, b) THEN [a EXCEPT !.max_proposed_ballot = b, !.max_value = v] ELSE a

\* The state after an ACCEPT for ballot b and value v.
handle_msg_accept(a, b, v) ==
  IF Accepts(a, b)
  THEN [max_proposed_ballot |-> b, max_accepted_ballot |-> b, max_value |-> v]
  ELSE a

AckAccept(a, b) == IF Accepts(a, b) THEN "yes" ELSE "no"
=============================================================================
