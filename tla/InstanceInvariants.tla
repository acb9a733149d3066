------------------------- MODULE InstanceInvariants -------------------------
(***************************************************************************)
(* The inductive invariant of Instance, as a conjunction of named parts.   *)
(***************************************************************************)
EXTENDS Instance

OwnBallots(n) == BallotsOf(n, MaxRound)

\* Acceptor a can no longer accept anything in ballot c, and has not.
WontVote(a, c) ==
  /\ acceptor[a].max_proposed_ballot > c
  /\ \A x \in votes : ~ (x.node = a /\ x.ballot = c)

\* No value but v was or will be chosen in a ballot below b.
SafeAt(b, v) ==
  \A c \in Ballots :
    c < b => \E Q \in Quorums : \A a \in Q : Voted(a, c, v) \/ WontVote(a, c)

\* What the answer ack of acceptor a to a PREPARE of ballot b is worth.
PromiseFact(a, b, ack) ==
  ack.reply = "yes" =>
    /\ acceptor[a].max_proposed_ballot >= b
    /\ ack.max_ballot < b
    /\ ack.max_ballot = 0 <=> ack.max_value = NULL
    /\ ack.max_ballot # 0 => Voted(a, ack.max_ballot, ack.max_value)
    /\ \A x \in votes : x.node = a /\ x.ballot < b => x.ballot <= ack.max_ballot

\* A proposer exists only at a master, for a value, and counts its own ballots;
\* a slot the node has not used is blank.
ProposerShape ==
  \A n \in Nodes :
    LET p == proposer[n] IN
    /\ p.status = "EMPTY" => p = NoProposer
    /\ p.status # "EMPTY" => /\ p.curr_ballot \in OwnBallots(n)
                             /\ p.init_value \in Values
                             /\ n \in Masters
    /\ p.status = "PHASEII" => p.curr_value \in Values

TypeInv == TypeOK /\ ProposerShape

\* An acceptor's members describe its last vote.
AcceptorInv ==
  \A a \in Nodes :
    LET s == acceptor[a] IN
    /\ s.max_accepted_ballot <= s.max_proposed_ballot
    /\ s.max_accepted_ballot = 0 <=> s.max_value = NULL
    /\ s.max_accepted_ballot # 0 => Voted(a, s.max_accepted_ballot, s.max_value)
    /\ \A x \in votes : x.node = a => x.ballot <= s.max_accepted_ballot

VoteInv == \A x \in votes : Proposal(x.ballot, x.value) \in proposals

OneValuePerBallot ==
  \A x, y \in proposals : x.ballot = y.ballot => x.value = y.value

ProposalsSafe == \A x \in proposals : SafeAt(x.ballot, x.value)

ProposalsCommitted ==
  \A x \in proposals : \E n \in Nodes : proposer[n].init_value = x.value

\* What a proposer remembers of the votes reported to it, over all its ballots.
Retained(p) ==
  /\ p.max_ballot = 0 <=> p.max_value = NULL
  /\ p.max_ballot # 0 =>
       /\ p.max_ballot < p.curr_ballot
       /\ \E a \in Nodes : Voted(a, p.max_ballot, p.max_value)

\* Proposer p of node n has not used its ballot for an ACCEPT round yet.
Fresh(n, p) ==
  \A x \in proposals : x.ballot \in OwnBallots(n) => x.ballot < p.curr_ballot

PhaseOne(n, p) ==
  /\ p.curr_value = NULL
  /\ p.ack_accept = EmptyAcceptMap
  /\ Fresh(n, p)
  /\ \A a \in Nodes : PromiseFact(a, p.curr_ballot, p.ack_prepare[a])

PhaseTwo(n, p) ==
  /\ Proposal(p.curr_ballot, p.curr_value) \in proposals
  /\ \A x \in proposals : x.ballot \in OwnBallots(n) => x.ballot <= p.curr_ballot
  /\ \A a \in Nodes :
       p.ack_accept[a] = "yes" => Voted(a, p.curr_ballot, p.curr_value)

ProposerOK(n, p) ==
  /\ Retained(p)
  /\ p.status = "EMPTY" => \A x \in proposals : x.ballot \notin OwnBallots(n)
  /\ p.status \in {"INIT", "PHASEI"} => PhaseOne(n, p)
  /\ p.status = "PHASEII" => PhaseTwo(n, p)

ProposerInv == \A n \in Nodes : ProposerOK(n, proposer[n])

MessageOK(m) ==
  /\ m.type = "PROMISE" => /\ m.ballot <= proposer[m.to].curr_ballot
                           /\ PromiseFact(m.from, m.ballot, m)
  /\ m.type = "PREPARE" => m.ballot <= proposer[m.from].curr_ballot
  /\ m.type = "ACCEPT" => /\ m.ballot <= proposer[m.from].curr_ballot
                          /\ Proposal(m.ballot, m.value) \in proposals
  /\ m.type = "ACCEPTED" => /\ m.ballot <= proposer[m.to].curr_ballot
                            /\ m.reply = "yes" =>
                                 \E v \in Values : Voted(m.from, m.ballot, v)
  /\ m.type \in {"DECIDE", "TEACH"} => IsChosen(m.value)

MessageInv == \A m \in net : MessageOK(m)

\* The inductive invariant: every proposal that was ever sent out is safe, and
\* the state of acceptors, proposers and messages says enough to keep it so.
IInv ==
  /\ TypeInv
  /\ AcceptorInv
  /\ VoteInv
  /\ OneValuePerBallot
  /\ ProposalsSafe
  /\ ProposalsCommitted
  /\ ProposerInv
  /\ MessageInv
  /\ LearnedIsChosen

(***************************************************************************)
(* Why nobody is left waiting: whoever a proposer waits for has a message  *)
(* of the round on its way, and so has every node that is to be told.      *)
(***************************************************************************)

PendingPromise(n, m, b) ==
  \E x \in net :
    \/ x.type = "PREPARE" /\ x.from = n /\ x.to = m /\ x.ballot = b
    \/ x.type = "PROMISE" /\ x.from = m /\ x.to = n /\ x.ballot = b

PendingAccepted(n, m, b) ==
  \E x \in net :
    \/ x.type = "ACCEPT"   /\ x.from = n /\ x.to = m /\ x.ballot = b
    \/ x.type = "ACCEPTED" /\ x.from = m /\ x.to = n /\ x.ballot = b

\* A node that is among its own targets has its own answer, unless it had been
\* crashed before the broadcast: then it has none at all.
OwnAnswer(n, acks) ==
  n \in Targets("PREPARE") => n \in acks \/ (~ Works(n) /\ acks = {})

AwaitsPromises(n, p) ==
  /\ Cardinality(PrepareAcks(p)) < qr
  /\ OwnAnswer(n, PrepareAcks(p))
  /\ \A m \in Reach(n, "PREPARE") \ PrepareAcks(p) :
       PendingPromise(n, m, p.curr_ballot)

AwaitsAccepted(n, p) ==
  /\ Cardinality(AcceptAcks(p)) < qr
  /\ OwnAnswer(n, AcceptAcks(p))
  /\ \A m \in Reach(n, "ACCEPT") \ AcceptAcks(p) :
       PendingAccepted(n, m, p.curr_ballot)

Awaits(n, p) ==
  /\ p.status \in {"INIT", "PHASEI"} => AwaitsPromises(n, p)
  /\ p.status = "PHASEII" => AwaitsAccepted(n, p)

WaitInv == \A n \in Nodes : Awaits(n, proposer[n])

PendingRecord(m) ==
  \E x \in net : \/ x.type \in {"DECIDE", "TEACH"} /\ x.to = m
                 \/ x.type = "LEARN" /\ x.from = m

LearnInv ==
  /\ \A n \in Nodes : proposer[n].status = "CHOSEN" =>
       \A m \in Listeners : chosen_value[m] # NULL \/ PendingRecord(m)
  /\ \A x \in net : /\ x.type = "DECIDE" => chosen_value[x.from] # NULL
                    /\ x.type = "LEARN"  => chosen_value[x.to] # NULL

ProgressInv == WaitInv /\ LearnInv

\* No PREPARE is sent to fewer nodes than a quorum, counting the sender only if
\* it addresses itself.
QuorumInReach ==
  \A n \in Masters :
    Cardinality(Reach(n, "PREPARE") \cup ({n} \cap Targets("PREPARE"))) >= qr

(***************************************************************************)
(* Why a proposer of the Reed-Solomon build never takes over the value of  *)
(* a rival: its own acceptor, which is always among those it hears, has    *)
(* never accepted one.                                                     *)
(***************************************************************************)

\* PREPARE and ACCEPT Interests and the answers to PREPARE are those of Listeners.
OnlyListenersServe ==
  \A m \in net : /\ m.type \in {"PREPARE", "ACCEPT"} => m.to \in Listeners
                 /\ m.type = "PROMISE" => m.from \in Listeners

OwnValue(n) ==
  LET p == proposer[n] IN
  /\ acceptor[n].max_value \in {NULL, p.init_value}
  /\ p.status \in {"INIT", "PHASEI"} =>
       p.ack_prepare[n].max_value \in {NULL, p.init_value}
  /\ p.status = "PHASEII" => p.curr_value = p.init_value

OwnValueInv ==
  /\ OnlyListenersServe
  /\ MODE_TYPE = 1 => \A n \in Masters : OwnValue(n)
=============================================================================
