--------------------------- MODULE InstanceProofs ---------------------------
(***************************************************************************)
(* Agreement of one slot, for any number of nodes, masters, values and     *)
(* rounds.  IInv of InstanceInvariants is inductive: every value that an   *)
(* ACCEPT round is started for is safe at its ballot, in the sense that a  *)
(* quorum of acceptors has ruled every other value out below it.           *)
(***************************************************************************)
EXTENDS InstanceTypeProofs

(***************************************************************************)
(* What no step takes back.                                                *)
(***************************************************************************)

\* Acceptors only move forward: votes are added, at or above the promise.
AcceptorStep ==
  /\ votes \subseteq votes'
  /\ \A a \in Nodes :
       acceptor'[a].max_proposed_ballot >= acceptor[a].max_proposed_ballot
  /\ \A x \in votes' \ votes :
       x.ballot >= acceptor[x.node].max_proposed_ballot

\* Besides, ballots grow, proposers keep their value, proposals are added.
Progress ==
  /\ AcceptorStep
  /\ proposals \subseteq proposals'
  /\ \A n \in Nodes :
       /\ proposer'[n].curr_ballot >= proposer[n].curr_ballot
       /\ proposer[n].init_value # NULL =>
            proposer'[n].init_value = proposer[n].init_value

LEMMA WontVoteStable ==
  ASSUME TypeOK, TypeOK', AcceptorStep, NEW a \in Nodes, NEW c \in Ballots,
         WontVote(a, c)
  PROVE  WontVote(a, c)'
PROOF
<1>1. /\ c \in Nat
      /\ acceptor[a].max_proposed_ballot \in Nat
      /\ acceptor'[a].max_proposed_ballot \in Nat
  BY BallotFacts DEF TypeOK, AcceptorState
<1>2. acceptor'[a].max_proposed_ballot > c
  BY <1>1 DEF AcceptorStep, WontVote
<1>3. ASSUME NEW x \in votes', x.node = a, x.ballot = c PROVE FALSE
  BY <1>1, <1>3 DEF AcceptorStep, WontVote
<1> QED  BY <1>2, <1>3 DEF WontVote

LEMMA SafeAtStable ==
  ASSUME TypeOK, TypeOK', AcceptorStep, NEW b \in Ballots, NEW v, SafeAt(b, v)
  PROVE  SafeAt(b, v)'
PROOF
<1> SUFFICES ASSUME NEW c \in Ballots, c < b
             PROVE  \E Q \in Quorums : \A a \in Q : Voted(a, c, v)' \/ WontVote(a, c)'
  BY DEF SafeAt
<1>1. PICK Q \in Quorums : \A a \in Q : Voted(a, c, v) \/ WontVote(a, c)
  BY DEF SafeAt
<1>2. ASSUME NEW a \in Q PROVE Voted(a, c, v)' \/ WontVote(a, c)'
  <2>1. a \in Nodes
    BY DEF Quorums
  <2> QED  BY <1>1, <2>1, WontVoteStable DEF Voted, AcceptorStep
<1> QED  BY <1>2

LEMMA PromiseFactStable ==
  ASSUME TypeOK, TypeOK', AcceptorStep, NEW a \in Nodes, NEW b \in BallotsOrZero,
         NEW ack, PromiseFact(a, b, ack)
  PROVE  PromiseFact(a, b, ack)'
PROOF
<1> SUFFICES ASSUME ack.reply = "yes" PROVE PromiseFact(a, b, ack)'
  BY DEF PromiseFact
<1>1. /\ b \in Nat
      /\ acceptor[a].max_proposed_ballot \in Nat
      /\ acceptor'[a].max_proposed_ballot \in Nat
  BY BallotFacts DEF TypeOK, AcceptorState, BallotsOrZero
<1>2. acceptor'[a].max_proposed_ballot >= b
  BY <1>1 DEF AcceptorStep, PromiseFact
<1>3. ack.max_ballot # 0 => Voted(a, ack.max_ballot, ack.max_value)'
  BY DEF AcceptorStep, PromiseFact, Voted
<1>4. ASSUME NEW x \in votes', x.node = a, x.ballot < b
      PROVE  x.ballot <= ack.max_ballot
  <2>1. x \in votes \/ x.ballot >= acceptor[a].max_proposed_ballot
    BY <1>4 DEF AcceptorStep
  <2>2. x.ballot \in Nat
    BY BallotFacts DEF TypeOK
  <2> QED  BY <1>1, <1>4, <2>1, <2>2 DEF PromiseFact
<1> QED  BY <1>2, <1>3, <1>4 DEF PromiseFact

LEMMA ChosenStable ==
  ASSUME AcceptorStep, NEW v, IsChosen(v)
  PROVE  IsChosen(v)'
PROOF
  BY DEF AcceptorStep, IsChosen, ChosenAt, Voted

LEMMA MessageStable ==
  ASSUME TypeOK, TypeOK', Progress, NEW m \in Message, MessageOK(m)
  PROVE  MessageOK(m)'
PROOF
<1>1. \A n \in Nodes :
        /\ proposer[n].curr_ballot \in Nat /\ proposer'[n].curr_ballot \in Nat
        /\ proposer'[n].curr_ballot >= proposer[n].curr_ballot
  BY ProposerNats DEF TypeOK, Progress
<1>2. CASE m.type = "PROMISE"
  <2>1. m.ballot \in BallotsOrZero /\ m.ballot \in Nat /\ m.from \in Nodes /\ m.to \in Nodes
    BY <1>2, MessageFields, BallotFacts DEF BallotsOrZero
  <2>2. PromiseFact(m.from, m.ballot, m)'
    BY <1>2, <2>1, PromiseFactStable DEF MessageOK, Progress
  <2> QED  BY <1>1, <1>2, <2>1, <2>2 DEF MessageOK
<1>3. CASE m.type = "PREPARE"
  <2>1. m.ballot \in Nat /\ m.from \in Nodes
    BY <1>3, MessageFields, BallotFacts
  <2> QED  BY <1>1, <1>3, <2>1 DEF MessageOK
<1>4. CASE m.type = "ACCEPT"
  <2>1. m.ballot \in Nat /\ m.from \in Nodes
    BY <1>4, MessageFields, BallotFacts
  <2>2. Proposal(m.ballot, m.value) \in proposals'
    BY <1>4 DEF MessageOK, Progress
  <2> QED  BY <1>1, <1>4, <2>1, <2>2 DEF MessageOK
<1>5. CASE m.type = "ACCEPTED"
  <2>1. m.ballot \in Nat /\ m.to \in Nodes
    BY <1>5, MessageFields, BallotFacts
  <2>2. m.reply = "yes" => \E v \in Values : Voted(m.from, m.ballot, v)'
    BY <1>5 DEF MessageOK, Progress, AcceptorStep, Voted
  <2> QED  BY <1>1, <1>5, <2>1, <2>2 DEF MessageOK
<1>6. CASE m.type \in {"DECIDE", "TEACH"}
  BY <1>6, ChosenStable DEF MessageOK, Progress
<1>7. CASE m.type = "LEARN"
  BY <1>7 DEF MessageOK
<1> QED  BY <1>2, <1>3, <1>4, <1>5, <1>6, <1>7 DEF Message

\* What is true of a proposer record stays true while other nodes move on.
LEMMA ProposerStable ==
  ASSUME TypeOK, TypeOK', Progress, NEW n \in Nodes, NEW p \in ProposerState,
         ProposerOK(n, p),
         \A x \in proposals' \ proposals : x.ballot \notin OwnBallots(n)
  PROVE  ProposerOK(n, p)'
PROOF
<1>1. p.curr_ballot \in BallotsOrZero
  BY ProposerNats
<1>2. Retained(p)'
  BY DEF ProposerOK, Retained, Progress, AcceptorStep, Voted
<1>3. p.status = "EMPTY" => \A x \in proposals' : x.ballot \notin OwnBallots(n)
  BY DEF ProposerOK
<1>4. ASSUME p.status \in {"INIT", "PHASEI"} PROVE PhaseOne(n, p)'
  <2>1. \A a \in Nodes : PromiseFact(a, p.curr_ballot, p.ack_prepare[a])'
    BY <1>1, <1>4, PromiseFactStable DEF ProposerOK, PhaseOne, Progress
  <2> QED  BY <1>4, <2>1 DEF ProposerOK, PhaseOne, Fresh, OwnBallots
<1>5. ASSUME p.status = "PHASEII" PROVE PhaseTwo(n, p)'
  BY <1>5 DEF ProposerOK, PhaseTwo, Progress, AcceptorStep, Voted, OwnBallots
<1> QED  BY <1>2, <1>3, <1>4, <1>5 DEF ProposerOK, OwnBallots

(***************************************************************************)
(* The steps of one acceptor: handle_msg_prepare and handle_msg_accept.    *)
(***************************************************************************)

PrepareAt(a, b) ==
  /\ acceptor' = [acceptor EXCEPT ![a] = handle_msg_prepare(acceptor[a], b)]
  /\ votes' = votes

AcceptAt(a, b, v) ==
  /\ acceptor' = [acceptor EXCEPT ![a] = handle_msg_accept(acceptor[a], b, v)]
  /\ votes' = IF Accepts(acceptor[a], b) THEN votes \cup {Vote(a, b, v)} ELSE votes

LEMMA AcceptorNats ==
  ASSUME NEW s \in AcceptorState
  PROVE  s.max_proposed_ballot \in Nat /\ s.max_accepted_ballot \in Nat
PROOF
<1>1. s.max_proposed_ballot \in Nat /\ s.max_accepted_ballot \in BallotsOrZero
  BY DEF AcceptorState
<1>2. BallotsOrZero \subseteq Nat
  BY BallotFacts DEF BallotsOrZero
<1> QED  BY <1>1, <1>2

LEMMA AcceptorUnchanged ==
  ASSUME TypeOK, AcceptorInv, acceptor' = acceptor, votes' = votes
  PROVE  AcceptorStep /\ AcceptorInv'
PROOF
<1>1. \A a \in Nodes : acceptor[a].max_proposed_ballot \in Nat
  BY AcceptorNats DEF TypeOK
<1> QED  BY <1>1 DEF AcceptorStep, AcceptorInv, Voted

\* An acceptor that answers "yes" to a PREPARE vouches for its report; one that
\* answers "no" vouches for nothing.
LEMMA PrepareStep ==
  ASSUME TypeOK, AcceptorInv, NEW a \in Nodes, NEW b \in Ballots, PrepareAt(a, b)
  PROVE  /\ AcceptorStep
         /\ AcceptorInv'
         /\ \A ack : ack = AckPrepare(acceptor[a], b) => PromiseFact(a, b, ack)'
PROOF
<1> DEFINE s == acceptor[a]
           t == handle_msg_prepare(s, b)
<1> HIDE DEF s, t
<1>1. b \in Nat
  BY BallotFacts
<1>2. s \in AcceptorState /\ s.max_proposed_ballot \in Nat /\ s.max_accepted_ballot \in Nat
  BY AcceptorNats DEF TypeOK, s
<1>3. /\ t.max_proposed_ballot = IF b > s.max_proposed_ballot THEN b
                                 ELSE s.max_proposed_ballot
      /\ t.max_accepted_ballot = s.max_accepted_ballot
      /\ t.max_value = s.max_value
  BY <1>2 DEF t, handle_msg_prepare, AcceptorState
<1>4. /\ acceptor'[a] = t
      /\ \A c \in Nodes \ {a} : acceptor'[c] = acceptor[c]
      /\ votes' = votes
  BY DEF PrepareAt, TypeOK, s, t
<1>5. \A c \in Nodes : acceptor[c].max_proposed_ballot \in Nat
  BY AcceptorNats DEF TypeOK
<1>6. AcceptorStep
  <2>1. \A c \in Nodes :
          acceptor'[c].max_proposed_ballot >= acceptor[c].max_proposed_ballot
    BY <1>1, <1>2, <1>3, <1>4, <1>5 DEF s
  <2> QED  BY <1>4, <2>1 DEF AcceptorStep
<1>7. AcceptorInv'
  BY <1>1, <1>2, <1>3, <1>4 DEF AcceptorInv, Voted, s
<1>8. ASSUME NEW ack, ack = AckPrepare(s, b) PROVE PromiseFact(a, b, ack)'
  <2> SUFFICES ASSUME ack.reply = "yes" PROVE PromiseFact(a, b, ack)'
    BY DEF PromiseFact
  <2>1. /\ b > s.max_proposed_ballot
        /\ ack.max_ballot = s.max_accepted_ballot
        /\ ack.max_value = s.max_value
    BY <1>8 DEF AckPrepare
  <2>2. /\ s.max_accepted_ballot <= s.max_proposed_ballot
        /\ s.max_accepted_ballot = 0 <=> s.max_value = NULL
        /\ s.max_accepted_ballot # 0 => Voted(a, s.max_accepted_ballot, s.max_value)
        /\ \A x \in votes : x.node = a => x.ballot <= s.max_accepted_ballot
    BY DEF AcceptorInv, s
  <2> QED  BY <1>1, <1>2, <1>3, <1>4, <2>1, <2>2 DEF PromiseFact, Voted
<1> QED  BY <1>6, <1>7, <1>8 DEF s

\* An acceptor that accepts remembers exactly that vote.
LEMMA AcceptStep ==
  ASSUME TypeOK, AcceptorInv, NEW a \in Nodes, NEW b \in Ballots, NEW v \in Values,
         AcceptAt(a, b, v)
  PROVE  /\ AcceptorStep
         /\ AcceptorInv'
         /\ votes' \subseteq votes \cup {Vote(a, b, v)}
         /\ AckAccept(acceptor[a], b) = "yes" => Voted(a, b, v)'
PROOF
<1> DEFINE s == acceptor[a]
<1> HIDE DEF s
<1>1. b \in Nat /\ b # 0 /\ v # NULL
  BY BallotFacts, ViewAssumption
<1>2. s \in AcceptorState /\ s.max_proposed_ballot \in Nat /\ s.max_accepted_ballot \in Nat
  BY AcceptorNats DEF TypeOK, s
<1>3. \A c \in Nodes : acceptor[c].max_proposed_ballot \in Nat
  BY AcceptorNats DEF TypeOK
<1>4. CASE b >= s.max_proposed_ballot
  <2>1. /\ acceptor'[a].max_proposed_ballot = b
        /\ acceptor'[a].max_accepted_ballot = b
        /\ acceptor'[a].max_value = v
        /\ \A c \in Nodes \ {a} : acceptor'[c] = acceptor[c]
        /\ votes' = votes \cup {Vote(a, b, v)}
    BY <1>4 DEF AcceptAt, handle_msg_accept, Accepts, TypeOK, s
  <2>2. Vote(a, b, v).node = a /\ Vote(a, b, v).ballot = b
    BY DEF Vote
  <2>3. AcceptorStep
    BY <1>1, <1>2, <1>3, <1>4, <2>1, <2>2 DEF AcceptorStep, s
  <2>4. AcceptorInv'
    <3>1. \A x \in votes : x.node = a => x.ballot <= b
      <4>1. \A x \in votes : x.ballot \in Nat
        BY BallotFacts DEF TypeOK
      <4>2. /\ s.max_accepted_ballot <= s.max_proposed_ballot
            /\ \A x \in votes : x.node = a => x.ballot <= s.max_accepted_ballot
        BY DEF AcceptorInv, s
      <4> QED  BY <1>1, <1>2, <1>4, <4>1, <4>2
    <3>2. Voted(a, b, v)'
      BY <2>1 DEF Voted
    <3>3. \A c \in Nodes \ {a} : \A x \in votes' :
             x.node = c => x \in votes
      BY <2>1, <2>2
    <3> QED  BY <1>1, <2>1, <2>2, <3>1, <3>2, <3>3 DEF AcceptorInv, Voted
  <2> QED  BY <2>1, <2>3, <2>4 DEF Voted
<1>5. CASE ~ (b >= s.max_proposed_ballot)
  <2>1. acceptor' = acceptor /\ votes' = votes
    BY <1>5 DEF AcceptAt, handle_msg_accept, Accepts, TypeOK, s
  <2> QED  BY <1>5, <2>1, AcceptorUnchanged DEF AckAccept, Accepts, s
<1> QED  BY <1>4, <1>5

(***************************************************************************)
(* What a proposer learns in phase 1.                                      *)
(***************************************************************************)

\* The scan keeps what is remembered a real vote below the ballot.
LEMMA ScanRetained ==
  ASSUME TypeOK, NEW p \in ProposerState, Retained(p),
         \A a \in Nodes : PromiseFact(a, p.curr_ballot, p.ack_prepare[a]),
         NEW q \in ScanPromises(p)
  PROVE  /\ Retained(q)
         /\ q.curr_ballot = p.curr_ballot
         /\ \A m \in Promised(p) : p.ack_prepare[m].max_ballot <= q.max_ballot
PROOF
<1>1. /\ q \in ProposerState
      /\ q = [p EXCEPT !.max_ballot = q.max_ballot, !.max_value = q.max_value]
  BY ScanFields
<1>2. q.curr_ballot = p.curr_ballot
  BY <1>1 DEF ProposerState
<1>3. CASE q = p /\ \A m \in Promised(p) : p.ack_prepare[m].max_ballot <= p.max_ballot
  BY <1>2, <1>3
<1>4. CASE \E m \in Promised(p) :
             /\ q.max_ballot = p.ack_prepare[m].max_ballot
             /\ q.max_value = p.ack_prepare[m].max_value
             /\ q.max_ballot > p.max_ballot
             /\ \A k \in Promised(p) : p.ack_prepare[k].max_ballot <= q.max_ballot
  <2>1. PICK m \in Promised(p) :
             /\ q.max_ballot = p.ack_prepare[m].max_ballot
             /\ q.max_value = p.ack_prepare[m].max_value
             /\ q.max_ballot > p.max_ballot
             /\ \A k \in Promised(p) : p.ack_prepare[k].max_ballot <= q.max_ballot
    BY <1>4
  <2>2. m \in Nodes /\ p.ack_prepare[m].reply = "yes"
    BY DEF Promised
  <2>3. /\ q.max_ballot < p.curr_ballot
        /\ q.max_ballot = 0 <=> q.max_value = NULL
        /\ q.max_ballot # 0 => Voted(m, q.max_ballot, q.max_value)
    BY <2>1, <2>2 DEF PromiseFact
  <2> QED  BY <1>2, <2>1, <2>2, <2>3 DEF Retained
<1> QED  BY <1>1, <1>2, <1>3, <1>4, ScanFields

\* The heart of the matter: with a quorum of "yes", the value AdoptValue settles
\* on - the value of the highest vote ever reported to this proposer, or its own
\* value if there is none - is safe at the proposer's ballot.
LEMMA PromiseSafe ==
  ASSUME IInv, NEW p \in ProposerState, p.curr_ballot \in Ballots,
         Retained(p),
         \A a \in Nodes : PromiseFact(a, p.curr_ballot, p.ack_prepare[a]),
         Cardinality(Promised(p)) >= qr,
         NEW q \in ScanPromises(p),
         NEW v, v = IF q.max_value # NULL THEN q.max_value ELSE q.init_value
  PROVE  SafeAt(p.curr_ballot, v)
PROOF
<1> DEFINE b == p.curr_ballot
           S == Promised(p)
           mb == q.max_ballot
<1> HIDE DEF b, S, mb
<1> TypeOK
  BY DEF IInv, TypeInv
<1>1. /\ Retained(q)
      /\ q.curr_ballot = b
      /\ \A m \in S : p.ack_prepare[m].max_ballot <= mb
  BY ScanRetained DEF S, mb, b
<1>2. q \in ProposerState /\ mb \in BallotsOrZero /\ mb \in Nat
  BY ScanFields, ProposerNats DEF mb
<1>3. S \in Quorums /\ S \subseteq Nodes
  BY DEF Quorums, S, Promised
<1>4. b \in Ballots /\ b \in Nat
  BY BallotFacts DEF b
<1>5. \A a \in S :
        /\ p.ack_prepare[a].max_ballot \in Nat
        /\ acceptor[a].max_proposed_ballot \in Nat
        /\ acceptor[a].max_proposed_ballot >= b
        /\ \A x \in votes :
             x.node = a /\ x.ballot < b => x.ballot <= p.ack_prepare[a].max_ballot
  <2> TAKE a \in S
  <2>1. a \in Nodes /\ p.ack_prepare[a].reply = "yes"
    BY DEF S, Promised
  <2>2. p.ack_prepare[a].max_ballot \in Nat
    BY <2>1, ProposerNats
  <2>3. acceptor[a].max_proposed_ballot \in Nat
    BY <2>1, AcceptorNats DEF TypeOK
  <2> QED  BY <2>1, <2>2, <2>3 DEF PromiseFact, b
<1>6. \A x \in votes : x.ballot \in Nat
  BY BallotFacts DEF TypeOK
\* Below b and above the highest reported vote the quorum stays silent.
<1>7. ASSUME NEW c \in Ballots, c < b, c > mb, NEW a \in S
      PROVE  WontVote(a, c)
  <2>1. c \in Nat
    BY BallotFacts
  <2>2. acceptor[a].max_proposed_ballot > c
    BY <1>4, <1>5, <1>7, <2>1
  <2>3. ASSUME NEW x \in votes, x.node = a, x.ballot = c PROVE FALSE
    <3>1. c <= p.ack_prepare[a].max_ballot
      BY <1>5, <1>7, <2>3
    <3>2. p.ack_prepare[a].max_ballot <= mb
      BY <1>1, <1>7
    <3> QED  BY <1>2, <1>5, <1>7, <2>1, <3>1, <3>2
  <2> QED  BY <2>2, <2>3 DEF WontVote
<1>8. CASE mb = 0
  <2>1. \A c \in Ballots : c > mb
    BY <1>8, BallotFacts
  <2> QED  BY <1>3, <1>7, <2>1 DEF SafeAt, b
<1>9. CASE mb # 0
  <2>1. PICK a0 \in Nodes : Voted(a0, mb, q.max_value)
    BY <1>1, <1>9 DEF Retained, mb
  <2>2. v = q.max_value
    BY <1>1, <1>9 DEF Retained, mb
  <2>3. Proposal(mb, v) \in proposals
    BY <2>1, <2>2 DEF IInv, VoteInv, Voted, Vote
  <2>4. SafeAt(mb, v)
    BY <2>3 DEF IInv, ProposalsSafe, Proposal
  <2>5. mb < b /\ mb \in Ballots
    BY <1>1, <1>2, <1>9 DEF Retained, mb, BallotsOrZero
  <2> SUFFICES ASSUME NEW c \in Ballots, c < b
               PROVE  \E Q \in Quorums : \A a \in Q : Voted(a, c, v) \/ WontVote(a, c)
    BY DEF SafeAt, b
  <2>6. c \in Nat
    BY BallotFacts
  <2>7. CASE c < mb
    BY <2>4, <2>7 DEF SafeAt
  <2>8. CASE c > mb
    BY <1>3, <1>7, <2>8
  <2>9. CASE c = mb
    <3>1. ASSUME NEW a \in S, ~ Voted(a, c, v) PROVE WontVote(a, c)
      <4>1. ASSUME NEW x \in votes, x.node = a, x.ballot = c PROVE FALSE
        <5>1. Proposal(c, x.value) \in proposals
          BY <4>1 DEF IInv, VoteInv
        <5>2. x.value = v
          BY <2>3, <2>9, <5>1 DEF IInv, OneValuePerBallot, Proposal
        <5>3. x = Vote(a, c, v)
          BY <4>1, <5>2 DEF Vote, TypeOK
        <5> QED  BY <3>1, <5>3 DEF Voted
      <4>2. acceptor[a].max_proposed_ballot > c
        BY <1>4, <1>5, <2>6, <3>1
      <4> QED  BY <4>1, <4>2 DEF WontVote
    <3> QED  BY <1>3, <3>1
  <2> QED  BY <1>2, <2>6, <2>7, <2>8, <2>9
<1> QED  BY <1>8, <1>9

(***************************************************************************)
(* Steps.                                                                  *)
(***************************************************************************)

\* What has to be shown of a step: what it adds.  The rest is stable.
LEMMA InvariantStep ==
  ASSUME IInv, TypeInv', Progress, AcceptorInv', VoteInv', OneValuePerBallot',
         \A x \in proposals' \ proposals :
           /\ SafeAt(x.ballot, x.value)'
           /\ \E n \in Nodes : proposer'[n].init_value = x.value,
         \A n \in Nodes :
           \/ /\ proposer'[n] = proposer[n]
              /\ \A x \in proposals' \ proposals : x.ballot \notin OwnBallots(n)
           \/ ProposerOK(n, proposer[n])',
         \A m \in net' \ net : MessageOK(m)',
         \A n \in Nodes :
           \/ chosen_value'[n] = chosen_value[n]
           \/ chosen_value'[n] # NULL => IsChosen(chosen_value[n])'
  PROVE  IInv'
PROOF
<1>1. TypeOK /\ TypeOK'
  BY DEF IInv, TypeInv
<1>2. ProposalsSafe'
  <2>1. \A x \in proposals : x.ballot \in Ballots
    BY <1>1 DEF TypeOK
  <2>2. \A x \in proposals : SafeAt(x.ballot, x.value)'
    BY <1>1, <2>1, SafeAtStable DEF IInv, ProposalsSafe, Progress
  <2> QED  BY <2>2 DEF ProposalsSafe
<1>3. ProposalsCommitted'
  <2>1. ASSUME NEW x \in proposals
        PROVE  \E n \in Nodes : proposer'[n].init_value = x.value
    <3>1. PICK n \in Nodes : proposer[n].init_value = x.value
      BY DEF IInv, ProposalsCommitted
    <3>2. x.value # NULL
      BY <1>1, ViewAssumption DEF TypeOK
    <3> QED  BY <3>1, <3>2 DEF Progress
  <2> QED  BY <2>1 DEF ProposalsCommitted
<1>4. ProposerInv'
  <2>1. ASSUME NEW n \in Nodes, proposer'[n] = proposer[n],
               \A x \in proposals' \ proposals : x.ballot \notin OwnBallots(n)
        PROVE  ProposerOK(n, proposer[n])'
    <3>1. proposer[n] \in ProposerState /\ ProposerOK(n, proposer[n])
      BY <1>1 DEF TypeOK, IInv, ProposerInv
    <3> DEFINE p == proposer[n]
    <3>2. PICK q : q = p
      OBVIOUS
    <3>3. ProposerOK(n, q)'
      BY <1>1, <2>1, <3>1, <3>2, ProposerStable
    <3> QED  BY <2>1, <3>2, <3>3 DEF ProposerOK, Retained, PhaseOne, PhaseTwo, Fresh
  <2> QED  BY <2>1 DEF ProposerInv
<1>5. MessageInv'
  <2>1. \A m \in net : m \in Message /\ MessageOK(m)
    BY <1>1 DEF TypeOK, IInv, MessageInv
  <2>2. \A m \in net : MessageOK(m)'
    BY <1>1, <2>1, MessageStable
  <2> QED  BY <2>2 DEF MessageInv
<1>6. LearnedIsChosen'
  <2>1. ASSUME NEW n \in Nodes, chosen_value'[n] = chosen_value[n],
               chosen_value'[n] # NULL
        PROVE  IsChosen(chosen_value[n])'
    <3>1. PICK v : v = chosen_value[n]
      OBVIOUS
    <3>2. IsChosen(v)
      BY <2>1, <3>1 DEF IInv, LearnedIsChosen
    <3>3. IsChosen(v)'
      BY <3>2, ChosenStable DEF Progress
    <3> QED  BY <2>1, <3>1, <3>3 DEF IsChosen, ChosenAt, Voted
  <2> QED  BY <2>1 DEF LearnedIsChosen
<1> QED
  BY <1>2, <1>3, <1>4, <1>5, <1>6 DEF IInv

\* A PREPARE round of a new ballot of its node, whatever the record remembers.
LEMMA BroadcastPrepareInv ==
  ASSUME IInv, TypeInv', NEW n \in Masters, NEW p \in ProposerState, NEW received,
         p.curr_ballot \in OwnBallots(n), p.curr_ballot >= proposer[n].curr_ballot,
         proposer[n].init_value # NULL => p.init_value = proposer[n].init_value,
         p.curr_value = NULL, p.ack_prepare = EmptyPrepareMap,
         p.ack_accept = EmptyAcceptMap, Retained(p), Fresh(n, p),
         BroadcastPrepare(n, p, received)
  PROVE  IInv'
PROOF
<1> DEFINE b == p.curr_ballot
           q == [p EXCEPT !.status = "INIT"]
           q2 == [q EXCEPT !.status = "PHASEI"]
           inline == Works(n) /\ n \in Targets("PREPARE")
<1>0. PICK ack : ack = AckPrepare(acceptor[n], b)
  OBVIOUS
<1> DEFINE r == StorePromise(q2, n, ack)
<1> HIDE DEF b, q, q2, r, inline
<1> n \in Nodes
  BY DEF Masters
<1>1. TypeOK /\ TypeOK' /\ AcceptorInv
  BY DEF IInv, TypeInv
<1>2. b \in Ballots /\ b \in Nat
  BY BallotFacts DEF b
<1>3. proposals' = proposals /\ chosen_value' = chosen_value
  BY DEF BroadcastPrepare
<1>5. /\ AcceptorStep /\ AcceptorInv' /\ votes' = votes
      /\ \/ proposer' = [proposer EXCEPT ![n] = q]
         \/ proposer' = [proposer EXCEPT ![n] = r] /\ PromiseFact(n, b, ack)'
  <2>1. CASE ~ inline
    <3>1. /\ acceptor' = acceptor /\ votes' = votes
          /\ proposer' = [proposer EXCEPT ![n] = q]
      BY <2>1 DEF BroadcastPrepare, inline, q
    <3> QED  BY <1>1, <3>1, AcceptorUnchanged
  <2>2. CASE inline
    <3>1. PrepareAt(n, b) /\ proposer' = [proposer EXCEPT ![n] = r]
      BY <1>0, <2>2 DEF BroadcastPrepare, inline, r, q2, q, b, PrepareAt
    <3>3. AcceptorStep /\ AcceptorInv' /\ PromiseFact(n, b, ack)'
      BY <1>0, <1>1, <1>2, <3>1, PrepareStep
    <3> QED  BY <3>1, <3>3 DEF PrepareAt
  <2> QED  BY <2>1, <2>2
<1>6. /\ q \in ProposerState /\ q.status = "INIT"
      /\ q.init_value = p.init_value /\ q.curr_ballot = b
      /\ q.curr_value = NULL /\ q.max_ballot = p.max_ballot
      /\ q.max_value = p.max_value
      /\ q.ack_prepare = EmptyPrepareMap /\ q.ack_accept = EmptyAcceptMap
  BY StatusFields DEF q, b
<1>7. /\ r \in ProposerState /\ r.status = "PHASEI"
      /\ r.init_value = p.init_value /\ r.curr_ballot = b
      /\ r.curr_value = NULL /\ r.max_ballot = p.max_ballot
      /\ r.max_value = p.max_value
      /\ r.ack_prepare = [EmptyPrepareMap EXCEPT ![n] = ack]
      /\ r.ack_accept = EmptyAcceptMap
  <2>1. /\ q2 \in ProposerState /\ q2.status = "PHASEI"
        /\ q2.init_value = p.init_value /\ q2.curr_ballot = b
        /\ q2.curr_value = NULL /\ q2.max_ballot = p.max_ballot
        /\ q2.max_value = p.max_value
        /\ q2.ack_prepare = EmptyPrepareMap /\ q2.ack_accept = EmptyAcceptMap
    BY <1>6, StatusFields DEF q2
  <2>2. ack \in PrepareAck
    BY <1>0, <1>1, <1>2, AcceptorTypes DEF TypeOK
  <2>3. /\ r \in ProposerState
        /\ r = [q2 EXCEPT !.ack_prepare = [q2.ack_prepare EXCEPT ![n] = ack]]
    BY <2>1, <2>2, StoreFields DEF r
  <2> QED  BY <2>1, <2>3 DEF ProposerState
<1>8. Progress
  <2>1. p.curr_ballot \in Nat /\ \A m \in Nodes : proposer[m].curr_ballot \in Nat
    BY <1>1, ProposerNats DEF TypeOK
  <2>2. \A m \in Nodes :
          /\ proposer'[m].curr_ballot >= proposer[m].curr_ballot
          /\ proposer[m].init_value # NULL =>
               proposer'[m].init_value = proposer[m].init_value
    BY <1>1, <1>5, <1>6, <1>7, <2>1 DEF TypeOK, b
  <2> QED  BY <1>3, <1>5, <2>2 DEF Progress
<1>9. \A a \in Nodes : PromiseFact(a, b, EmptyPrepareMap[a])'
  BY DEF PromiseFact, EmptyPrepareMap, NoAck
<1>10. ASSUME NEW s, s \in {q, r}, proposer' = [proposer EXCEPT ![n] = s],
              s = r => PromiseFact(n, b, ack)'
       PROVE  ProposerOK(n, s)'
  <2>1. /\ s.status \in {"INIT", "PHASEI"} /\ s.curr_ballot = b /\ s.curr_value = NULL
        /\ s.max_ballot = p.max_ballot /\ s.max_value = p.max_value
        /\ s.ack_accept = EmptyAcceptMap
    BY <1>6, <1>7, <1>10
  <2>2. Retained(s)'
    BY <1>5, <2>1 DEF Retained, Voted, b
  <2>3. Fresh(n, s)'
    BY <1>3, <2>1 DEF Fresh, b, OwnBallots
  <2>4. \A a \in Nodes : PromiseFact(a, s.curr_ballot, s.ack_prepare[a])'
    <3>1. CASE s = q
      BY <1>6, <1>9, <2>1, <3>1
    <3>2. CASE s = r
      <4>1. r.ack_prepare[n] = ack /\ \A a \in Nodes \ {n} :
              r.ack_prepare[a] = EmptyPrepareMap[a]
        BY <1>7 DEF EmptyPrepareMap
      <4> QED  BY <1>9, <1>10, <2>1, <3>2, <4>1
    <3> QED  BY <1>10, <3>1, <3>2
  <2> QED  BY <2>1, <2>2, <2>3, <2>4 DEF ProposerOK, PhaseOne
<1>11. \A m \in Nodes :
         \/ proposer'[m] = proposer[m]
         \/ ProposerOK(m, proposer[m])'
  <2>1. PICK s \in {q, r} :
           proposer' = [proposer EXCEPT ![n] = s] /\ (s = r => PromiseFact(n, b, ack)')
    <3>1. q.status # r.status
      BY <1>6, <1>7
    <3> QED  BY <1>5, <3>1
  <2>2. proposer'[n] = s /\ \A m \in Nodes \ {n} : proposer'[m] = proposer[m]
    BY <1>1, <2>1 DEF TypeOK
  <2>3. ProposerOK(n, s)'
    BY <1>10, <2>1
  <2>4. ProposerOK(n, proposer[n])'
    BY <2>2, <2>3 DEF ProposerOK, Retained, PhaseOne, PhaseTwo, Fresh
  <2> QED  BY <2>2, <2>4
<1>12. \A m \in net' \ net : MessageOK(m)'
  <2> TAKE m \in net' \ net
  <2>1. PICK t \in Reach(n, "PREPARE") : m = Prepare(n, t, b)
    BY DEF BroadcastPrepare, b
  <2>2. proposer'[n].curr_ballot = b
    BY <1>1, <1>5, <1>6, <1>7 DEF TypeOK
  <2>3. m.type = "PREPARE" /\ m.ballot = b /\ m.from = n
    BY <2>1 DEF Prepare
  <2> QED  BY <1>2, <2>2, <2>3 DEF MessageOK
<1>13. VoteInv' /\ OneValuePerBallot'
  BY <1>3, <1>5 DEF IInv, VoteInv, OneValuePerBallot
<1> QED  BY <1>3, <1>5, <1>8, <1>11, <1>12, <1>13, InvariantStep

\* An ACCEPT round for a value that is safe at a ballot not used before.
LEMMA BroadcastAcceptInv ==
  ASSUME IInv, TypeInv', NEW n \in Masters, NEW p \in ProposerState, NEW received,
         p.curr_ballot \in OwnBallots(n), p.curr_ballot >= proposer[n].curr_ballot,
         proposer[n].init_value # NULL => p.init_value = proposer[n].init_value,
         p.curr_value \in Values, p.ack_accept = EmptyAcceptMap,
         Retained(p), Fresh(n, p), SafeAt(p.curr_ballot, p.curr_value),
         \/ p.curr_value = p.init_value
         \/ \E m \in Nodes : proposer[m].init_value = p.curr_value,
         BroadcastAccept(n, p, received)
  PROVE  IInv'
PROOF
<1> DEFINE b == p.curr_ballot
           v == p.curr_value
           q == [p EXCEPT !.status = "PHASEII"]
           inline == Works(n) /\ n \in Targets("ACCEPT")
<1>0. PICK ack : ack = AckAccept(acceptor[n], b)
  OBVIOUS
<1> DEFINE r == StoreAccepted(q, n, ack)
<1> HIDE DEF b, v, q, r, inline
<1> n \in Nodes
  BY DEF Masters
<1>1. TypeOK /\ TypeOK' /\ AcceptorInv
  BY DEF IInv, TypeInv
<1>2. b \in Ballots /\ b \in Nat /\ b \in OwnBallots(n) /\ v \in Values /\ v # NULL
  BY BallotFacts, ViewAssumption DEF b, v
<1>3. proposals' = proposals \cup {Proposal(b, v)} /\ chosen_value' = chosen_value
  BY DEF BroadcastAccept, b, v
<1>4. \A x \in proposals : x.ballot \in OwnBallots(n) => x.ballot < b
  BY DEF Fresh, b
<1>5. /\ AcceptorStep /\ AcceptorInv' /\ votes' \subseteq votes \cup {Vote(n, b, v)}
      /\ \/ proposer' = [proposer EXCEPT ![n] = q]
         \/ /\ proposer' = [proposer EXCEPT ![n] = r]
            /\ ack = "yes" => Voted(n, b, v)'
  <2>1. CASE ~ inline
    <3>1. /\ acceptor' = acceptor /\ votes' = votes
          /\ proposer' = [proposer EXCEPT ![n] = q]
      BY <2>1 DEF BroadcastAccept, inline, q
    <3> QED  BY <1>1, <3>1, AcceptorUnchanged
  <2>2. CASE inline
    <3>1. AcceptAt(n, b, v) /\ proposer' = [proposer EXCEPT ![n] = r]
      BY <1>0, <2>2 DEF BroadcastAccept, inline, r, q, b, v, AcceptAt
    <3>2. /\ AcceptorStep /\ AcceptorInv'
          /\ votes' \subseteq votes \cup {Vote(n, b, v)}
          /\ ack = "yes" => Voted(n, b, v)'
      BY <1>0, <1>1, <1>2, <3>1, AcceptStep
    <3> QED  BY <3>1, <3>2
  <2> QED  BY <2>1, <2>2
<1>6. /\ q \in ProposerState /\ q.status = "PHASEII"
      /\ q.init_value = p.init_value /\ q.curr_ballot = b
      /\ q.curr_value = v /\ q.max_ballot = p.max_ballot
      /\ q.max_value = p.max_value /\ q.ack_accept = EmptyAcceptMap
  BY StatusFields DEF q, b, v
<1>7. /\ r \in ProposerState /\ r.status = "PHASEII"
      /\ r.init_value = p.init_value /\ r.curr_ballot = b
      /\ r.curr_value = v /\ r.max_ballot = p.max_ballot
      /\ r.max_value = p.max_value
      /\ r.ack_accept = [EmptyAcceptMap EXCEPT ![n] = ack]
  <2>1. ack \in Replies
    BY <1>0, <1>1, <1>2, AcceptorTypes DEF TypeOK, Replies
  <2>2. /\ r \in ProposerState
        /\ r = [q EXCEPT !.ack_accept = [q.ack_accept EXCEPT ![n] = ack]]
    BY <1>6, <2>1, StoreFields DEF r
  <2> QED  BY <1>6, <2>2 DEF ProposerState
<1>8. PICK s \in {q, r} :
         /\ proposer' = [proposer EXCEPT ![n] = s]
         /\ \A a \in Nodes : s.ack_accept[a] = "yes" => a = n /\ Voted(n, b, v)'
  <2>1. \A a \in Nodes : q.ack_accept[a] # "yes"
    BY <1>6 DEF EmptyAcceptMap
  <2>2. r.ack_accept[n] = ack /\ \A a \in Nodes \ {n} : r.ack_accept[a] # "yes"
    BY <1>7 DEF EmptyAcceptMap
  <2> QED  BY <1>5, <2>1, <2>2
<1>9. /\ s \in ProposerState /\ s.status = "PHASEII"
      /\ s.init_value = p.init_value /\ s.curr_ballot = b /\ s.curr_value = v
      /\ s.max_ballot = p.max_ballot /\ s.max_value = p.max_value
  BY <1>6, <1>7, <1>8
<1>10. proposer'[n] = s /\ \A m \in Nodes \ {n} : proposer'[m] = proposer[m]
  BY <1>1, <1>8 DEF TypeOK
<1>11. Progress
  <2>1. p.curr_ballot \in Nat /\ \A m \in Nodes : proposer[m].curr_ballot \in Nat
    BY <1>1, ProposerNats DEF TypeOK
  <2>2. \A m \in Nodes :
          /\ proposer'[m].curr_ballot >= proposer[m].curr_ballot
          /\ proposer[m].init_value # NULL =>
               proposer'[m].init_value = proposer[m].init_value
    BY <1>9, <1>10, <2>1 DEF b
  <2> QED  BY <1>3, <1>5, <2>2 DEF Progress
<1>12. ProposerOK(n, s)'
  <2>1. Retained(s)'
    BY <1>5, <1>9 DEF Retained, Voted, AcceptorStep, b
  <2>2. Proposal(s.curr_ballot, s.curr_value) \in proposals'
    BY <1>3, <1>9
  <2>3. \A x \in proposals' : x.ballot \in OwnBallots(n) => x.ballot <= s.curr_ballot
    <3>1. \A x \in proposals : x.ballot \in Nat
      BY <1>1, BallotFacts DEF TypeOK
    <3> QED  BY <1>2, <1>3, <1>4, <1>9, <3>1 DEF Proposal
  <2>4. \A a \in Nodes : s.ack_accept[a] = "yes" => Voted(a, s.curr_ballot, s.curr_value)'
    BY <1>8, <1>9
  <2> QED  BY <1>9, <2>1, <2>2, <2>3, <2>4 DEF ProposerOK, PhaseTwo, OwnBallots
<1>13. \A m \in Nodes :
         \/ /\ proposer'[m] = proposer[m]
            /\ \A x \in proposals' \ proposals : x.ballot \notin OwnBallots(m)
         \/ ProposerOK(m, proposer[m])'
  <2>1. ProposerOK(n, proposer[n])'
    BY <1>10, <1>12 DEF ProposerOK, Retained, PhaseOne, PhaseTwo, Fresh
  <2>2. ASSUME NEW m \in Nodes \ {n}, NEW x \in proposals' \ proposals
        PROVE  x.ballot \notin OwnBallots(m)
    BY <1>2, <1>3, BallotFacts DEF Proposal
  <2> QED  BY <1>10, <2>1, <2>2
<1>14. \A m \in net' \ net : MessageOK(m)'
  <2> TAKE m \in net' \ net
  <2>1. PICK t \in Reach(n, "ACCEPT") : m = AcceptMsg(n, t, b, v)
    BY DEF BroadcastAccept, b, v
  <2>2. m.type = "ACCEPT" /\ m.ballot = b /\ m.from = n /\ m.value = v
    BY <2>1 DEF AcceptMsg
  <2> QED  BY <1>2, <1>3, <1>9, <1>10, <2>2 DEF MessageOK
<1>15. OneValuePerBallot'
  <2>1. \A x \in proposals : x.ballot # b
    BY <1>2, <1>4
  <2> QED  BY <1>3, <2>1 DEF IInv, OneValuePerBallot, Proposal
<1>16. VoteInv'
  <2> SUFFICES ASSUME NEW x \in votes'
               PROVE  Proposal(x.ballot, x.value) \in proposals'
    BY DEF VoteInv
  <2>1. CASE x \in votes
    BY <1>3, <2>1 DEF IInv, VoteInv
  <2>2. CASE x = Vote(n, b, v)
    BY <1>3, <2>2 DEF Vote
  <2> QED  BY <1>5, <2>1, <2>2
<1>17. \A x \in proposals' \ proposals :
         /\ SafeAt(x.ballot, x.value)'
         /\ \E m \in Nodes : proposer'[m].init_value = x.value
  <2>1. SafeAt(b, v)'
    BY <1>1, <1>2, <1>5, SafeAtStable DEF b, v
  <2>2. \E m \in Nodes : proposer'[m].init_value = v
    BY <1>2, <1>9, <1>10, <1>11 DEF Progress, v
  <2> QED  BY <1>3, <2>1, <2>2 DEF Proposal
<1> QED
  BY <1>3, <1>5, <1>11, <1>13, <1>14, <1>15, <1>16, <1>17, InvariantStep

\* In the multi mode the master's first ballot needs no phase 1: with a single
\* master there is no smaller ballot.
LEMMA FirstBallotSafe ==
  ASSUME MODE_TYPE = 2, NEW n \in Masters, NEW v
  PROVE  SafeAt(BallotStep + n, v)
PROOF
<1>1. \A m \in Masters : m = n
  BY ViewAssumption DEF Masters, if_master
<1>2. Ballots = OwnBallots(n)
  BY <1>1 DEF Ballots, OwnBallots
<1>3. \A c \in Ballots : ~ (c < BallotStep + n)
  <2> TAKE c \in Ballots
  <2>1. c \in Nat /\ BallotStep + n \in Nat /\ BallotStep + n <= c
    BY <1>2, BallotFacts DEF Masters
  <2> QED  BY <2>1
<1> QED  BY <1>3 DEF SafeAt

LEMMA InvCommit ==
  ASSUME IInv, TypeInv', NEW n \in Nodes, NEW v \in Values, Commit(n, v)
  PROVE  IInv'
PROOF
<1> DEFINE p == gen_next_ballot(NewProposer(v), n)
           q == init_curr_value(p)
<1> HIDE DEF p, q
<1>1. n \in Masters /\ proposer[n].status = "EMPTY"
  BY DEF Commit, Masters
<1>2. proposer[n] = NoProposer /\ proposer[n].init_value = NULL
      /\ proposer[n].curr_ballot = 0
  BY <1>1 DEF IInv, TypeInv, ProposerShape, NoProposer
<1>3. /\ p \in ProposerState
      /\ p = [NoProposer EXCEPT !.init_value = v, !.curr_ballot = BallotStep + n]
      /\ p.curr_ballot = BallotStep + n
      /\ p.curr_ballot \in OwnBallots(n)
  BY <1>1, NewProposerFields DEF p
<1>4. /\ p.init_value = v /\ p.curr_value = NULL
      /\ p.max_ballot = 0 /\ p.max_value = NULL
      /\ p.ack_prepare = EmptyPrepareMap /\ p.ack_accept = EmptyAcceptMap
  BY <1>3 DEF NoProposer
<1>5. /\ q \in ProposerState /\ q.curr_ballot = p.curr_ballot
      /\ q.init_value = v /\ q.curr_value = v
      /\ q.max_ballot = 0 /\ q.max_value = NULL /\ q.ack_accept = EmptyAcceptMap
  BY <1>3, <1>4 DEF q, init_curr_value, ProposerState
<1>6. p.curr_ballot >= proposer[n].curr_ballot
  <2>1. p.curr_ballot \in Nat
    BY <1>3, ProposerNats
  <2> QED  BY <1>2, <2>1
<1>7. \A x \in proposals : x.ballot \notin OwnBallots(n)
  BY <1>1 DEF IInv, ProposerInv, ProposerOK
<1>8. Retained(p) /\ Fresh(n, p) /\ Retained(q) /\ Fresh(n, q)
  BY <1>4, <1>5, <1>7 DEF Retained, Fresh
<1>9. CASE MODE_TYPE = 2 /\ BroadcastAccept(n, q, {})
  <2>1. SafeAt(q.curr_ballot, q.curr_value)
    BY <1>1, <1>3, <1>5, <1>9, FirstBallotSafe
  <2> QED
    BY <1>1, <1>2, <1>3, <1>5, <1>6, <1>8, <1>9, <2>1, BroadcastAcceptInv
<1>10. CASE BroadcastPrepare(n, p, {})
  BY <1>1, <1>2, <1>3, <1>4, <1>6, <1>8, <1>10, BroadcastPrepareInv
<1> QED  BY <1>9, <1>10 DEF Commit, p, q

\* The ballot of a PROMISE or an ACCEPTED that is not dropped is the current one.
LEMMA AfterPromiseOK ==
  ASSUME IInv, NEW msg \in net, PromiseStored(msg)
  PROVE  LET p == AfterPromise(msg) IN
         /\ p.curr_ballot = proposer[msg.to].curr_ballot
         /\ p.init_value = proposer[msg.to].init_value
         /\ p.curr_value = NULL
         /\ p.ack_accept = EmptyAcceptMap
         /\ Retained(p)
         /\ Fresh(msg.to, p)
         /\ \A a \in Nodes : PromiseFact(a, p.curr_ballot, p.ack_prepare[a])
         /\ ProposerOK(msg.to, p)
PROOF
<1> DEFINE p == AfterPromise(msg)
           q == proposer[msg.to]
           ack == [ reply |-> msg.reply, max_ballot |-> msg.max_ballot,
                    max_value |-> msg.max_value ]
<1> HIDE DEF p, q, ack
<1> TypeInv
  BY DEF IInv
<1>1. /\ msg.to \in Nodes /\ msg.from \in Nodes /\ msg \in Message
      /\ msg.type = "PROMISE"
      /\ q \in ProposerState /\ q.status \in {"INIT", "PHASEI"}
      /\ p \in ProposerState
      /\ p = [q EXCEPT !.status = "PHASEI",
                       !.ack_prepare = [q.ack_prepare EXCEPT ![msg.from] = ack]]
  BY AfterPromiseFields DEF p, q, ack, Masters
<1>2. ProposerOK(msg.to, q)
  BY <1>1 DEF IInv, ProposerInv, q
<1>3. Retained(q) /\ PhaseOne(msg.to, q)
  BY <1>1, <1>2 DEF ProposerOK
<1>4. msg.ballot = q.curr_ballot
  <2>1. msg.ballot \in Nat /\ q.curr_ballot \in Nat
    BY <1>1, MessageFields, BallotFacts, ProposerNats
  <2>2. msg.ballot <= q.curr_ballot
    BY <1>1 DEF IInv, MessageInv, MessageOK, q
  <2>3. ~ (msg.ballot < q.curr_ballot)
    BY DEF PromiseStored, PromiseDropped, q
  <2> QED  BY <2>1, <2>2, <2>3
<1>5. /\ p.curr_ballot = q.curr_ballot /\ p.init_value = q.init_value
      /\ p.curr_value = q.curr_value /\ p.max_ballot = q.max_ballot
      /\ p.max_value = q.max_value /\ p.ack_accept = q.ack_accept
      /\ p.ack_prepare = [q.ack_prepare EXCEPT ![msg.from] = ack]
      /\ p.status = "PHASEI"
  BY <1>1 DEF ProposerState
<1>6. PromiseFact(msg.from, p.curr_ballot, ack)
  <2>1. PromiseFact(msg.from, msg.ballot, msg)
    BY <1>1 DEF IInv, MessageInv, MessageOK
  <2> QED  BY <1>4, <1>5, <2>1 DEF PromiseFact, ack
<1>7. \A a \in Nodes : PromiseFact(a, p.curr_ballot, p.ack_prepare[a])
  <2>1. \A a \in Nodes \ {msg.from} : p.ack_prepare[a] = q.ack_prepare[a]
    BY <1>1, <1>5 DEF ProposerState
  <2>2. p.ack_prepare[msg.from] = ack
    BY <1>1, <1>5 DEF ProposerState
  <2> QED  BY <1>3, <1>5, <1>6, <2>1, <2>2 DEF PhaseOne
<1>8. Retained(p) /\ Fresh(msg.to, p)
  BY <1>3, <1>5 DEF Retained, Fresh, PhaseOne
<1>9. ProposerOK(msg.to, p)
  BY <1>3, <1>5, <1>7, <1>8 DEF ProposerOK, PhaseOne
<1> QED  BY <1>3, <1>5, <1>7, <1>8, <1>9 DEF PhaseOne, p, q

\* A step that leaves acceptors and proposals alone, and changes at most the
\* record of one proposer, in phase and answers only.
LEMMA LocalStep ==
  ASSUME IInv, TypeInv', acceptor' = acceptor, votes' = votes,
         proposals' = proposals,
         NEW n \in Nodes, NEW p \in ProposerState,
         proposer' = [proposer EXCEPT ![n] = p],
         ProposerOK(n, p),
         p.curr_ballot = proposer[n].curr_ballot,
         p.init_value = proposer[n].init_value,
         \A m \in net' \ net : MessageOK(m)',
         \A k \in Nodes :
           \/ chosen_value'[k] = chosen_value[k]
           \/ chosen_value'[k] # NULL => IsChosen(chosen_value[k])'
  PROVE  IInv'
PROOF
<1>1. TypeOK /\ TypeOK' /\ AcceptorInv
  BY DEF IInv, TypeInv
<1>2. AcceptorStep /\ AcceptorInv'
  BY <1>1, AcceptorUnchanged
<1>3. proposer'[n] = p /\ \A m \in Nodes \ {n} : proposer'[m] = proposer[m]
  BY <1>1 DEF TypeOK
<1>4. Progress
  <2>1. \A m \in Nodes : proposer[m].curr_ballot \in Nat
    BY <1>1, ProposerNats DEF TypeOK
  <2>2. \A m \in Nodes :
          /\ proposer'[m].curr_ballot >= proposer[m].curr_ballot
          /\ proposer[m].init_value # NULL =>
               proposer'[m].init_value = proposer[m].init_value
    BY <1>3, <2>1
  <2> QED  BY <1>2, <2>2 DEF Progress
<1>5. ProposerOK(n, proposer[n])'
  <2>1. ProposerOK(n, p)'
    BY <1>1, <1>4, ProposerStable
  <2> QED  BY <1>3, <2>1 DEF ProposerOK, Retained, PhaseOne, PhaseTwo, Fresh
<1>6. \A m \in Nodes :
        \/ /\ proposer'[m] = proposer[m]
           /\ \A x \in proposals' \ proposals : x.ballot \notin OwnBallots(m)
        \/ ProposerOK(m, proposer[m])'
  BY <1>3, <1>5
<1>7. VoteInv' /\ OneValuePerBallot'
  BY DEF IInv, VoteInv, OneValuePerBallot
<1> QED  BY <1>2, <1>4, <1>6, <1>7, InvariantStep

\* A step that touches no proposer either.
LEMMA QuietStep ==
  ASSUME IInv, TypeInv', acceptor' = acceptor, votes' = votes,
         proposals' = proposals, proposer' = proposer,
         \A m \in net' \ net : MessageOK(m)',
         \A k \in Nodes :
           \/ chosen_value'[k] = chosen_value[k]
           \/ chosen_value'[k] # NULL => IsChosen(chosen_value[k])'
  PROVE  IInv'
PROOF
<1>1. TypeOK /\ TypeOK' /\ AcceptorInv
  BY DEF IInv, TypeInv
<1>2. AcceptorStep /\ AcceptorInv'
  BY <1>1, AcceptorUnchanged
<1>3. Progress
  <2>1. \A m \in Nodes : proposer[m].curr_ballot \in Nat
    BY <1>1, ProposerNats DEF TypeOK
  <2> QED  BY <1>2, <2>1 DEF Progress
<1>4. VoteInv' /\ OneValuePerBallot'
  BY DEF IInv, VoteInv, OneValuePerBallot
<1> QED  BY <1>2, <1>3, <1>4, InvariantStep

\* An acceptor answers a message: no proposer and no proposal changes.
LEMMA AcceptorAnswer ==
  ASSUME IInv, TypeInv', AcceptorStep, AcceptorInv', VoteInv',
         proposals' = proposals, proposer' = proposer,
         chosen_value' = chosen_value,
         \A m \in net' \ net : MessageOK(m)'
  PROVE  IInv'
PROOF
<1>1. TypeOK
  BY DEF IInv, TypeInv
<1>2. Progress
  <2>1. \A m \in Nodes : proposer[m].curr_ballot \in Nat
    BY <1>1, ProposerNats DEF TypeOK
  <2> QED  BY <2>1 DEF Progress
<1>3. OneValuePerBallot'
  BY DEF IInv, OneValuePerBallot
<1> QED  BY <1>2, <1>3, InvariantStep

LEMMA InvRecvPrepare ==
  ASSUME IInv, TypeInv', NEW msg \in net, RecvPrepare(msg)
  PROVE  IInv'
PROOF
<1> DEFINE n == msg.to
           b == msg.ballot
<1>0. PICK ack : ack = AckPrepare(acceptor[n], b)
  OBVIOUS
<1> HIDE DEF n, b
<1>1. TypeOK /\ TypeOK' /\ AcceptorInv
  BY DEF IInv, TypeInv
<1>2. msg \in Message /\ msg.type = "PREPARE" /\ n \in Nodes /\ b \in Ballots
      /\ msg.from \in Nodes
  BY <1>1, MessageFields DEF TypeOK, RecvPrepare, n, b
<1>3. PrepareAt(n, b)
  BY DEF RecvPrepare, PrepareAt, n, b
<1>4. AcceptorStep /\ AcceptorInv' /\ PromiseFact(n, b, ack)'
  BY <1>0, <1>1, <1>2, <1>3, PrepareStep
<1>5. VoteInv'
  BY DEF RecvPrepare, IInv, VoteInv
<1>6. proposals' = proposals /\ proposer' = proposer /\ chosen_value' = chosen_value
  BY DEF RecvPrepare
<1>7. ASSUME NEW m \in net' \ net PROVE MessageOK(m)'
  <2>1. m = Promise(n, msg.from, b, ack)
    BY <1>0 DEF RecvPrepare, Deliver, n, b
  <2>2. /\ m.type = "PROMISE" /\ m.ballot = b /\ m.to = msg.from /\ m.from = n
        /\ m.reply = ack.reply /\ m.max_ballot = ack.max_ballot
        /\ m.max_value = ack.max_value
    BY <2>1 DEF Promise
  <2>3. b <= proposer[msg.from].curr_ballot
    BY <1>2 DEF IInv, MessageInv, MessageOK, b
  <2>4. PromiseFact(m.from, m.ballot, m)'
    BY <1>4, <2>2 DEF PromiseFact
  <2> QED  BY <1>6, <2>2, <2>3, <2>4 DEF MessageOK
<1> QED  BY <1>4, <1>5, <1>6, <1>7, AcceptorAnswer

LEMMA InvRecvAccept ==
  ASSUME IInv, TypeInv', NEW msg \in net, RecvAccept(msg)
  PROVE  IInv'
PROOF
<1> DEFINE n == msg.to
           b == msg.ballot
           v == msg.value
<1>0. PICK reply : reply = AckAccept(acceptor[n], b)
  OBVIOUS
<1> HIDE DEF n, b, v
<1>1. TypeOK /\ TypeOK' /\ AcceptorInv
  BY DEF IInv, TypeInv
<1>2. msg \in Message /\ msg.type = "ACCEPT" /\ n \in Nodes /\ b \in Ballots
      /\ v \in Values /\ msg.from \in Nodes
  BY <1>1, MessageFields DEF TypeOK, RecvAccept, n, b, v
<1>3. AcceptAt(n, b, v)
  BY DEF RecvAccept, AcceptAt, n, b, v
<1>4. /\ AcceptorStep /\ AcceptorInv'
      /\ votes' \subseteq votes \cup {Vote(n, b, v)}
      /\ reply = "yes" => Voted(n, b, v)'
  BY <1>0, <1>1, <1>2, <1>3, AcceptStep
<1>5. proposals' = proposals /\ proposer' = proposer /\ chosen_value' = chosen_value
  BY DEF RecvAccept
<1>6. /\ Proposal(b, v) \in proposals
      /\ b <= proposer[msg.from].curr_ballot
  BY <1>2 DEF IInv, MessageInv, MessageOK, b, v
<1>7. VoteInv'
  <2> SUFFICES ASSUME NEW x \in votes'
               PROVE  Proposal(x.ballot, x.value) \in proposals'
    BY DEF VoteInv
  <2>1. CASE x \in votes
    BY <1>5, <2>1 DEF IInv, VoteInv
  <2>2. CASE x = Vote(n, b, v)
    BY <1>5, <1>6, <2>2 DEF Vote
  <2> QED  BY <1>4, <2>1, <2>2
<1>8. ASSUME NEW m \in net' \ net PROVE MessageOK(m)'
  <2>1. m = AcceptedMsg(n, msg.from, b, reply)
    BY <1>0 DEF RecvAccept, Deliver, n, b
  <2>2. m.type = "ACCEPTED" /\ m.ballot = b /\ m.to = msg.from /\ m.from = n
        /\ m.reply = reply
    BY <2>1 DEF AcceptedMsg
  <2>3. m.reply = "yes" => \E w \in Values : Voted(m.from, m.ballot, w)'
    BY <1>2, <1>4, <2>2
  <2> QED  BY <1>5, <1>6, <2>2, <2>3 DEF MessageOK
<1> QED  BY <1>4, <1>5, <1>7, <1>8, AcceptorAnswer

\* A restart moves on to a ballot that is above all the node has used.
LEMMA RestartInv ==
  ASSUME IInv, TypeInv', NEW n \in Masters, NEW q \in ProposerState, NEW received,
         q.curr_ballot = proposer[n].curr_ballot, q.curr_ballot \in OwnBallots(n),
         q.curr_ballot < MaxRound * BallotStep,
         q.init_value = proposer[n].init_value, Retained(q),
         \A x \in proposals : x.ballot \in OwnBallots(n) => x.ballot <= q.curr_ballot,
         BroadcastPrepare(n, restart_msg_prepare(q, n), received)
  PROVE  IInv'
PROOF
<1> DEFINE r == restart_msg_prepare(q, n)
<1> HIDE DEF r
<1>1. /\ r = [q EXCEPT !.curr_value = NULL, !.ack_prepare = EmptyPrepareMap,
                       !.ack_accept = EmptyAcceptMap,
                       !.curr_ballot = q.curr_ballot + BallotStep]
      /\ r \in ProposerState
      /\ r.curr_ballot \in OwnBallots(n)
  BY RestartFields DEF r
<1>2. /\ r.curr_ballot = q.curr_ballot + BallotStep /\ r.curr_value = NULL
      /\ r.ack_prepare = EmptyPrepareMap /\ r.ack_accept = EmptyAcceptMap
      /\ r.init_value = q.init_value /\ r.max_ballot = q.max_ballot
      /\ r.max_value = q.max_value
  BY <1>1 DEF ProposerState
<1>3. q.curr_ballot \in Nat /\ q.max_ballot \in Nat
  BY ProposerNats
<1>4. r.curr_ballot \in Nat /\ r.curr_ballot > q.curr_ballot
  BY <1>2, <1>3 DEF BallotStep
<1>5. Retained(r)
  BY <1>2, <1>3, <1>4 DEF Retained
<1>6. Fresh(n, r)
  <2>1. \A x \in proposals : x.ballot \in Nat
    BY BallotFacts DEF IInv, TypeInv, TypeOK
  <2> QED  BY <1>3, <1>4, <2>1 DEF Fresh
<1>7. r.curr_ballot >= proposer[n].curr_ballot
  BY <1>3, <1>4
<1> QED  BY <1>1, <1>2, <1>5, <1>6, <1>7, BroadcastPrepareInv DEF r

LEMMA InvRecvPromise ==
  ASSUME IInv, TypeInv', NEW msg \in net, RecvPromise(msg)
  PROVE  IInv'
PROOF
<1> DEFINE n == msg.to
           p == AfterPromise(msg)
           o == proposer[n]
<1> HIDE DEF n, p, o
<1> TypeOK /\ TypeInv
  BY DEF IInv, TypeInv
<1>1. CASE PromiseIgnored(msg)
  BY <1>1, QuietStep DEF PromiseIgnored, Deliver
<1>2. CASE PromiseDrop(msg)
  <2>1. n \in Nodes /\ o \in ProposerState /\ o.status \in {"INIT", "PHASEI"}
    BY <1>2, MessageFields
    DEF TypeOK, PromiseDrop, PromiseReceived, WaitsForPromise, n, o
  <2>2. PICK q : q = [o EXCEPT !.status = "PHASEI"]
    OBVIOUS
  <2>3. /\ q \in ProposerState /\ q.status = "PHASEI"
        /\ q.init_value = o.init_value /\ q.curr_ballot = o.curr_ballot
        /\ q.curr_value = o.curr_value /\ q.max_ballot = o.max_ballot
        /\ q.max_value = o.max_value
        /\ q.ack_prepare = o.ack_prepare /\ q.ack_accept = o.ack_accept
    BY <2>1, <2>2, StatusFields
  <2>4. ProposerOK(n, q)
    <3>1. ProposerOK(n, o)
      BY <2>1 DEF IInv, ProposerInv, o
    <3> QED  BY <2>1, <2>3, <3>1 DEF ProposerOK, Retained, PhaseOne, Fresh
  <2>5. proposer' = [proposer EXCEPT ![n] = q]
    BY <1>2, <2>2 DEF PromiseDrop, n, o
  <2> QED
    BY <1>2, <2>1, <2>3, <2>4, <2>5, LocalStep DEF PromiseDrop, Deliver, o
<1>3. ASSUME PromiseStored(msg)
      PROVE  /\ n \in Masters /\ n \in Nodes
             /\ p \in ProposerState /\ p.init_value \in Values
             /\ p.curr_ballot \in OwnBallots(n)
             /\ p.curr_ballot = proposer[n].curr_ballot
             /\ p.init_value = proposer[n].init_value
             /\ p.curr_value = NULL
             /\ p.ack_accept = EmptyAcceptMap
             /\ Retained(p)
             /\ Fresh(n, p)
             /\ \A a \in Nodes : PromiseFact(a, p.curr_ballot, p.ack_prepare[a])
             /\ ProposerOK(n, p)
  <2>1. n \in Masters /\ n \in Nodes /\ p \in ProposerState
        /\ p.curr_ballot \in OwnBallots(n) /\ p.init_value \in Values
    BY <1>3, AfterPromiseFields DEF n, p, Masters
  <2> QED  BY <1>3, <2>1, AfterPromiseOK DEF n, p
<1>4. CASE PromiseNotEnough(msg)
  <2>1. PromiseStored(msg) /\ proposer' = [proposer EXCEPT ![n] = p]
    BY <1>4 DEF PromiseNotEnough, n, p
  <2>2. PICK q : q = p
    OBVIOUS
  <2> QED  BY <1>3, <1>4, <2>1, <2>2, LocalStep DEF PromiseNotEnough, Deliver
<1>5. CASE PromiseContinue(msg)
  <2>1. PromiseStored(msg) /\ Cardinality(Promised(p)) >= qr
    BY <1>5 DEF PromiseContinue, p
  <2>2. PICK q \in ScanPromises(p) : BroadcastAccept(n, AdoptValue(q), {msg})
    BY <1>5 DEF PromiseContinue, p, n
  <2> DEFINE r == AdoptValue(q)
  <2> HIDE DEF r
  <2>3. /\ q \in ProposerState
        /\ q = [p EXCEPT !.max_ballot = q.max_ballot, !.max_value = q.max_value]
    BY <1>3, <2>1, ScanFields
  <2>4. /\ q.init_value = p.init_value /\ q.curr_ballot = p.curr_ballot
        /\ q.ack_accept = p.ack_accept
    BY <1>3, <2>1, <2>3 DEF ProposerState
  <2>5. /\ r \in ProposerState /\ r = [q EXCEPT !.curr_value = r.curr_value]
        /\ r.curr_value \in Values
        /\ r.curr_value = IF q.max_value # NULL THEN q.max_value ELSE q.init_value
    BY <1>3, <2>1, <2>3, <2>4, AdoptFields DEF r
  <2>6. /\ r.init_value = p.init_value /\ r.curr_ballot = p.curr_ballot
        /\ r.ack_accept = EmptyAcceptMap
        /\ r.max_ballot = q.max_ballot /\ r.max_value = q.max_value
    BY <1>3, <2>1, <2>3, <2>4, <2>5 DEF ProposerState
  <2>7. p.curr_ballot \in Ballots /\ p.curr_ballot \in Nat
    BY <1>3, <2>1, BallotFacts
  <2>8. Retained(q)
    BY <1>3, <2>1, ScanRetained
  <2>9. Retained(r) /\ Fresh(n, r)
    BY <1>3, <2>1, <2>4, <2>6, <2>8 DEF Retained, Fresh
  <2>10. SafeAt(p.curr_ballot, r.curr_value)
    <3>1. PICK v : v = r.curr_value
      OBVIOUS
    <3>2. SafeAt(p.curr_ballot, v)
      BY <1>3, <2>1, <2>5, <2>7, <3>1, PromiseSafe
    <3> QED  BY <3>1, <3>2
  <2>11. \/ r.curr_value = r.init_value
         \/ \E m \in Nodes : proposer[m].init_value = r.curr_value
    <3>1. CASE q.max_value = NULL
      BY <2>4, <2>5, <2>6, <3>1
    <3>2. CASE q.max_value # NULL
      <4>1. PICK a \in Nodes : Voted(a, q.max_ballot, q.max_value)
        BY <2>8, <3>2 DEF Retained
      <4>2. Proposal(q.max_ballot, q.max_value) \in proposals
        BY <4>1 DEF Voted, IInv, VoteInv, Vote
      <4>3. \E m \in Nodes : proposer[m].init_value = q.max_value
        BY <4>2 DEF IInv, ProposalsCommitted, Proposal
      <4> QED  BY <2>5, <3>2, <4>3
    <3> QED  BY <3>1, <3>2
  <2>12. r.curr_ballot >= proposer[n].curr_ballot
    BY <1>3, <2>1, <2>6, <2>7
  <2> QED
    BY <1>3, <2>1, <2>2, <2>5, <2>6, <2>9, <2>10, <2>11, <2>12, BroadcastAcceptInv
    DEF r
<1>6. CASE PromiseRestart(msg)
  <2>1. PromiseStored(msg) /\ p.curr_ballot < MaxRound * BallotStep
    BY <1>6 DEF PromiseRestart, p
  <2>2. PICK q \in ScanPromises(p) :
          BroadcastPrepare(n, restart_msg_prepare(q, n), {msg})
    BY <1>6 DEF PromiseRestart, p, n
  <2>3. /\ q \in ProposerState
        /\ q = [p EXCEPT !.max_ballot = q.max_ballot, !.max_value = q.max_value]
    BY <1>3, <2>1, ScanFields
  <2>4. q.init_value = p.init_value /\ q.curr_ballot = p.curr_ballot
    BY <1>3, <2>1, <2>3 DEF ProposerState
  <2>5. Retained(q)
    BY <1>3, <2>1, ScanRetained
  <2>6. \A x \in proposals : x.ballot \in OwnBallots(n) => x.ballot <= q.curr_ballot
    <3>1. q.curr_ballot \in Nat /\ \A x \in proposals : x.ballot \in Nat
      BY <2>3, ProposerNats, BallotFacts DEF TypeOK
    <3> QED  BY <1>3, <2>1, <2>4, <3>1 DEF Fresh
  <2> QED  BY <1>3, <2>1, <2>2, <2>3, <2>4, <2>5, <2>6, RestartInv
<1> QED  BY <1>1, <1>2, <1>4, <1>5, <1>6 DEF RecvPromise

\* An ACCEPTED that is counted belongs to the current ballot, and its "yes" is
\* a vote for the value the proposer works for.
LEMMA AfterAcceptedOK ==
  ASSUME IInv, NEW msg \in net, AcceptedStored(msg)
  PROVE  LET p == AfterAccepted(msg) IN
         /\ p.curr_ballot = proposer[msg.to].curr_ballot
         /\ p.init_value = proposer[msg.to].init_value
         /\ p.status = "PHASEII"
         /\ Retained(p)
         /\ PhaseTwo(msg.to, p)
         /\ ProposerOK(msg.to, p)
PROOF
<1> DEFINE p == AfterAccepted(msg)
           q == proposer[msg.to]
<1> HIDE DEF p, q
<1> TypeInv /\ TypeOK
  BY DEF IInv, TypeInv
<1>1. /\ msg.to \in Nodes /\ msg.from \in Nodes /\ msg \in Message
      /\ msg.type = "ACCEPTED"
      /\ q \in ProposerState /\ q.status = "PHASEII"
      /\ p \in ProposerState
      /\ p = [q EXCEPT !.ack_accept = [q.ack_accept EXCEPT ![msg.from] = msg.reply]]
  BY AfterAcceptedFields DEF p, q, Masters
<1>2. ProposerOK(msg.to, q)
  BY <1>1 DEF IInv, ProposerInv, q
<1>3. Retained(q) /\ PhaseTwo(msg.to, q)
  BY <1>1, <1>2 DEF ProposerOK
<1>4. msg.ballot = q.curr_ballot
  <2>1. msg.ballot \in Nat /\ q.curr_ballot \in Nat
    BY <1>1, MessageFields, BallotFacts, ProposerNats
  <2>2. msg.ballot <= q.curr_ballot
    BY <1>1 DEF IInv, MessageInv, MessageOK, q
  <2>3. ~ (msg.ballot < q.curr_ballot)
    BY DEF AcceptedStored, AcceptedDropped, q
  <2> QED  BY <2>1, <2>2, <2>3
<1>5. /\ p.curr_ballot = q.curr_ballot /\ p.init_value = q.init_value
      /\ p.curr_value = q.curr_value /\ p.max_ballot = q.max_ballot
      /\ p.max_value = q.max_value
      /\ p.ack_accept = [q.ack_accept EXCEPT ![msg.from] = msg.reply]
      /\ p.status = "PHASEII"
  BY <1>1 DEF ProposerState
<1>6. ASSUME msg.reply = "yes" PROVE Voted(msg.from, p.curr_ballot, p.curr_value)
  <2>1. PICK v \in Values : Voted(msg.from, msg.ballot, v)
    BY <1>1, <1>6 DEF IInv, MessageInv, MessageOK
  <2>2. Proposal(msg.ballot, v) \in proposals
    BY <2>1 DEF IInv, VoteInv, Voted, Vote
  <2>3. Proposal(p.curr_ballot, p.curr_value) \in proposals
    BY <1>3, <1>5 DEF PhaseTwo
  <2>4. v = p.curr_value
    BY <1>4, <1>5, <2>2, <2>3 DEF IInv, OneValuePerBallot, Proposal
  <2> QED  BY <1>4, <1>5, <2>1, <2>4
<1>7. \A a \in Nodes :
        p.ack_accept[a] = "yes" => Voted(a, p.curr_ballot, p.curr_value)
  <2>1. \A a \in Nodes \ {msg.from} : p.ack_accept[a] = q.ack_accept[a]
    BY <1>1, <1>5 DEF ProposerState
  <2>2. p.ack_accept[msg.from] = msg.reply
    BY <1>1, <1>5 DEF ProposerState
  <2> QED  BY <1>3, <1>5, <1>6, <2>1, <2>2 DEF PhaseTwo
<1>8. Retained(p) /\ PhaseTwo(msg.to, p)
  BY <1>3, <1>5, <1>7 DEF Retained, PhaseTwo
<1>9. ProposerOK(msg.to, p)
  BY <1>5, <1>8 DEF ProposerOK
<1> QED  BY <1>5, <1>8, <1>9 DEF p, q

LEMMA InvRecvAccepted ==
  ASSUME IInv, TypeInv', NEW msg \in net, RecvAccepted(msg)
  PROVE  IInv'
PROOF
<1> DEFINE n == msg.to
           p == AfterAccepted(msg)
<1> HIDE DEF n, p
<1> TypeOK /\ TypeInv
  BY DEF IInv, TypeInv
<1>1. CASE AcceptedIgnored(msg)
  BY <1>1, QuietStep DEF AcceptedIgnored, Deliver
<1>2. ASSUME AcceptedStored(msg)
      PROVE  /\ n \in Masters /\ n \in Nodes
             /\ p \in ProposerState /\ p.init_value \in Values
             /\ p.curr_value \in Values
             /\ p.curr_ballot \in OwnBallots(n)
             /\ p.curr_ballot = proposer[n].curr_ballot
             /\ p.init_value = proposer[n].init_value
             /\ p.status = "PHASEII"
             /\ Retained(p)
             /\ PhaseTwo(n, p)
             /\ ProposerOK(n, p)
  <2>1. n \in Masters /\ n \in Nodes /\ p \in ProposerState
        /\ p.curr_ballot \in OwnBallots(n) /\ p.init_value \in Values
        /\ p.curr_value \in Values
    BY <1>2, AfterAcceptedFields DEF n, p, Masters
  <2> QED  BY <1>2, <2>1, AfterAcceptedOK DEF n, p
<1>3. CASE AcceptedNotEnough(msg)
  <2>1. AcceptedStored(msg) /\ proposer' = [proposer EXCEPT ![n] = p]
    BY <1>3 DEF AcceptedNotEnough, n, p
  <2>2. PICK q : q = p
    OBVIOUS
  <2> QED  BY <1>2, <1>3, <2>1, <2>2, LocalStep DEF AcceptedNotEnough, Deliver
<1>4. CASE AcceptedChoose(msg)
  <2>1. AcceptedStored(msg) /\ Cardinality(Accepted(p)) >= qr
    BY <1>4 DEF AcceptedChoose, p
  <2>2. PICK q : q = [p EXCEPT !.status = "CHOSEN"]
    OBVIOUS
  <2>3. PICK v : v = p.curr_value
    OBVIOUS
  <2>4. /\ proposer' = [proposer EXCEPT ![n] = q]
        /\ chosen_value' = [chosen_value EXCEPT ![n] = IF @ = NULL THEN v ELSE @]
        /\ net' = (net \ {msg}) \cup Announce(n, v, chosen_value'[n])
        /\ acceptor' = acceptor /\ votes' = votes /\ proposals' = proposals
    BY <1>4, <2>2, <2>3 DEF AcceptedChoose, add_chosen_value, Deliver, n, p
  <2>5. /\ q \in ProposerState /\ q.status = "CHOSEN"
        /\ q.init_value = p.init_value /\ q.curr_ballot = p.curr_ballot
        /\ q.max_ballot = p.max_ballot /\ q.max_value = p.max_value
    BY <1>2, <2>1, <2>2, StatusFields
  <2>6. ProposerOK(n, q)
    BY <1>2, <2>1, <2>5 DEF ProposerOK, Retained
  <2>7. IsChosen(v)
    <3>1. Accepted(p) \in Quorums
      BY <2>1 DEF Accepted, Quorums
    <3>2. \A a \in Accepted(p) : Voted(a, p.curr_ballot, v)
      BY <1>2, <2>1, <2>3 DEF Accepted, PhaseTwo
    <3>3. p.curr_ballot \in Ballots
      BY <1>2, <2>1, BallotFacts
    <3> QED  BY <3>1, <3>2, <3>3 DEF IsChosen, ChosenAt
  <2>8. IsChosen(v)'
    BY <2>4, <2>7 DEF IsChosen, ChosenAt, Voted
  <2>9. \A k \in Nodes :
          \/ chosen_value'[k] = chosen_value[k]
          \/ k = n /\ chosen_value'[k] = v
    BY <2>4 DEF TypeOK
  <2>10. PICK w : w = chosen_value'[n]
    OBVIOUS
  <2>11. IsChosen(w)'
    <3>1. CASE w = v
      BY <2>8, <3>1 DEF IsChosen, ChosenAt, Voted
    <3>2. CASE w # v
      <4>1. w = chosen_value[n] /\ w # NULL
        BY <1>2, <2>1, <2>4, <2>10, <3>2 DEF TypeOK
      <4>2. IsChosen(w)
        BY <1>2, <2>1, <4>1 DEF IInv, LearnedIsChosen
      <4> QED  BY <2>4, <4>2 DEF IsChosen, ChosenAt, Voted
    <3> QED  BY <3>1, <3>2
  <2>12. \A k \in Nodes :
           \/ chosen_value'[k] = chosen_value[k]
           \/ chosen_value'[k] # NULL => IsChosen(chosen_value[k])'
    BY <2>8, <2>9 DEF IsChosen, ChosenAt, Voted
  <2>13. ASSUME NEW m \in net' \ net PROVE MessageOK(m)'
    <3>1. m \in Announce(n, v, w)
      BY <2>4, <2>10
    <3>2. m.type \in {"DECIDE", "TEACH"} /\ (m.value = v \/ m.value = w)
      BY <3>1 DEF Announce, msg_decide, msg_teach
    <3>3. IsChosen(m.value)'
      BY <2>8, <2>11, <3>2 DEF IsChosen, ChosenAt, Voted
    <3> QED  BY <3>2, <3>3 DEF MessageOK
  <2> QED  BY <1>2, <2>1, <2>4, <2>5, <2>6, <2>12, <2>13, LocalStep
<1>5. CASE AcceptedRestart(msg)
  <2>1. /\ AcceptedStored(msg) /\ p.curr_ballot < MaxRound * BallotStep
        /\ BroadcastPrepare(n, restart_msg_prepare(p, n), {msg})
    BY <1>5 DEF AcceptedRestart, n, p
  <2>2. \A x \in proposals : x.ballot \in OwnBallots(n) => x.ballot <= p.curr_ballot
    BY <1>2, <2>1 DEF PhaseTwo
  <2> QED  BY <1>2, <2>1, <2>2, RestartInv
<1> QED  BY <1>1, <1>3, <1>4, <1>5 DEF RecvAccepted

\* DECIDE, LEARN and TEACH pass chosen values on.
LEMMA InvRecvDecide ==
  ASSUME IInv, TypeInv', NEW msg \in net, RecvDecide(msg)
  PROVE  IInv'
PROOF
<1> DEFINE n == msg.to
<1> HIDE DEF n
<1>1. PICK v : v = msg.value
  OBVIOUS
<1>2. TypeOK /\ msg \in Message /\ msg.type = "DECIDE" /\ n \in Nodes
  BY MessageFields DEF IInv, TypeInv, TypeOK, RecvDecide, n
<1>3. IsChosen(v)
  BY <1>1, <1>2 DEF IInv, MessageInv, MessageOK
<1>4. /\ acceptor' = acceptor /\ votes' = votes /\ proposals' = proposals
      /\ proposer' = proposer
  BY DEF RecvDecide
<1>5. IsChosen(v)'
  BY <1>3, <1>4 DEF IsChosen, ChosenAt, Voted
<1>6. ASSUME NEW k \in Nodes
      PROVE  \/ chosen_value'[k] = chosen_value[k]
             \/ chosen_value'[k] = v
  BY <1>1, <1>2 DEF RecvDecide, add_chosen_value, TypeOK, n
<1>7. \A k \in Nodes :
        \/ chosen_value'[k] = chosen_value[k]
        \/ chosen_value'[k] # NULL => IsChosen(chosen_value[k])'
  BY <1>5, <1>6 DEF IsChosen, ChosenAt, Voted
<1>8. ASSUME NEW m \in net' \ net PROVE MessageOK(m)'
  <2>1. m = msg_learn(n, msg.from)
    BY DEF RecvDecide, Deliver, n
  <2> QED  BY <2>1 DEF MessageOK, msg_learn
<1> QED  BY <1>4, <1>7, <1>8, QuietStep

LEMMA InvRecvLearn ==
  ASSUME IInv, TypeInv', NEW msg \in net, RecvLearn(msg)
  PROVE  IInv'
PROOF
<1> DEFINE n == msg.to
<1> HIDE DEF n
<1>1. PICK v : v = chosen_value[n]
  OBVIOUS
<1>2. TypeOK /\ n \in Nodes
  BY MessageFields DEF IInv, TypeInv, TypeOK, RecvLearn, n
<1>3. /\ acceptor' = acceptor /\ votes' = votes /\ proposals' = proposals
      /\ proposer' = proposer /\ chosen_value' = chosen_value
  BY DEF RecvLearn
<1>4. ASSUME NEW m \in net' \ net PROVE MessageOK(m)'
  <2>1. m = msg_teach(n, msg.from, v) /\ v # NULL
    BY <1>1 DEF RecvLearn, Deliver, n
  <2>2. IsChosen(v)
    BY <1>1, <1>2, <2>1 DEF IInv, LearnedIsChosen
  <2>3. IsChosen(v)'
    BY <1>3, <2>2 DEF IsChosen, ChosenAt, Voted
  <2>4. m.type = "TEACH" /\ m.value = v
    BY <2>1 DEF msg_teach
  <2> QED  BY <2>3, <2>4 DEF MessageOK, IsChosen, ChosenAt, Voted
<1> QED  BY <1>3, <1>4, QuietStep

LEMMA InvRecvTeach ==
  ASSUME IInv, TypeInv', NEW msg \in net, RecvTeach(msg)
  PROVE  IInv'
PROOF
<1> DEFINE n == msg.to
<1> HIDE DEF n
<1>1. PICK v : v = msg.value
  OBVIOUS
<1>2. TypeOK /\ msg \in Message /\ msg.type = "TEACH" /\ n \in Nodes
  BY MessageFields DEF IInv, TypeInv, TypeOK, RecvTeach, n
<1>3. IsChosen(v)
  BY <1>1, <1>2 DEF IInv, MessageInv, MessageOK
<1>4. /\ acceptor' = acceptor /\ votes' = votes /\ proposals' = proposals
      /\ proposer' = proposer /\ net' \subseteq net
  BY DEF RecvTeach, Deliver
<1>5. IsChosen(v)'
  BY <1>3, <1>4 DEF IsChosen, ChosenAt, Voted
<1>6. ASSUME NEW k \in Nodes
      PROVE  \/ chosen_value'[k] = chosen_value[k]
             \/ chosen_value'[k] = v
  BY <1>1, <1>2 DEF RecvTeach, add_chosen_value, TypeOK, n
<1>7. \A k \in Nodes :
        \/ chosen_value'[k] = chosen_value[k]
        \/ chosen_value'[k] # NULL => IsChosen(chosen_value[k])'
  BY <1>5, <1>6 DEF IsChosen, ChosenAt, Voted
<1> QED  BY <1>4, <1>7, QuietStep

LEMMA InvInit == Init => IInv
PROOF
<1> SUFFICES ASSUME Init PROVE IInv
  OBVIOUS
<1>1. TypeInv
  BY TypeInit
<1>2. /\ votes = {} /\ proposals = {} /\ net = {}
      /\ \A n \in Nodes : proposer[n] = NoProposer /\ chosen_value[n] = NULL
  BY DEF Init
<1>3. \A a \in Nodes : /\ acceptor[a].max_accepted_ballot = 0
                       /\ acceptor[a].max_value = NULL
                       /\ acceptor[a].max_proposed_ballot \in Nat
  <2>1. \A a \in Nodes : /\ acceptor[a].max_accepted_ballot = 0
                         /\ acceptor[a].max_value = NULL
    BY DEF Init, NewAcceptor, update_max_proposed
  <2> QED  BY <1>1, <2>1, AcceptorNats DEF TypeInv, TypeOK
<1>4. AcceptorInv
  BY <1>2, <1>3 DEF AcceptorInv
<1>5. VoteInv /\ OneValuePerBallot /\ ProposalsSafe /\ ProposalsCommitted
      /\ MessageInv /\ LearnedIsChosen
  BY <1>2 DEF VoteInv, OneValuePerBallot, ProposalsSafe, ProposalsCommitted,
              MessageInv, LearnedIsChosen
<1>6. ProposerInv
  <2>1. /\ NoProposer.status = "EMPTY" /\ NoProposer.max_ballot = 0
        /\ NoProposer.max_value = NULL
    BY DEF NoProposer
  <2> QED  BY <1>2, <2>1 DEF ProposerInv, ProposerOK, Retained
<1> QED  BY <1>1, <1>4, <1>5, <1>6 DEF IInv

LEMMA InvNext == IInv /\ [Next]_vars => IInv'
PROOF
<1> SUFFICES ASSUME IInv, [Next]_vars PROVE IInv'
  OBVIOUS
<1>1. TypeInv'
  BY TypeNext DEF IInv
<1>2. ASSUME NEW n \in Nodes, NEW v \in Values, Commit(n, v) PROVE IInv'
  BY <1>1, <1>2, InvCommit
<1>3. ASSUME NEW msg \in net, Recv(msg) PROVE IInv'
  BY <1>1, <1>3, InvRecvPrepare, InvRecvPromise, InvRecvAccept, InvRecvAccepted,
     InvRecvDecide, InvRecvLearn, InvRecvTeach
  DEF Recv
<1>4. ASSUME NEW n \in Nodes, Crash(n) PROVE IInv'
  BY <1>1, <1>4, QuietStep DEF Crash
<1>5. CASE UNCHANGED vars
  BY <1>1, <1>5, QuietStep DEF vars
<1> QED  BY <1>2, <1>3, <1>4, <1>5 DEF Next

\* The inductive invariant holds throughout.
THEOREM Invariance == Spec => []IInv
PROOF
BY InvInit, InvNext, PTL DEF Spec

(***************************************************************************)
(* What the invariant is for.                                              *)
(***************************************************************************)

\* A proposal at or above a ballot in which a value was chosen is for that value.
LEMMA ChosenBelow ==
  ASSUME IInv, NEW b \in Ballots, NEW c \in Ballots, b <= c,
         NEW v, NEW w, ChosenAt(b, v), Proposal(c, w) \in proposals
  PROVE  v = w
PROOF
<1>1. PICK Q \in Quorums : \A a \in Q : Voted(a, b, v)
  BY DEF ChosenAt
<1>2. \A a \in Q : Proposal(b, v) \in proposals
  BY <1>1 DEF IInv, VoteInv, Voted, Vote
<1>3. \E a \in Nodes : a \in Q
  BY QuorumsIntersect
<1>4. CASE b = c
  BY <1>2, <1>3, <1>4 DEF IInv, OneValuePerBallot, Proposal
<1>5. CASE b < c
  <2>1. SafeAt(c, w)
    BY DEF IInv, ProposalsSafe, Proposal
  <2>2. PICK R \in Quorums : \A a \in R : Voted(a, b, w) \/ WontVote(a, b)
    BY <1>5, <2>1 DEF SafeAt
  <2>3. PICK a \in Nodes : a \in Q /\ a \in R
    BY QuorumsIntersect
  <2>4. Voted(a, b, v) /\ ~ WontVote(a, b)
    BY <1>1, <2>3 DEF WontVote, Voted, Vote
  <2>5. Proposal(b, v) \in proposals /\ Proposal(b, w) \in proposals
    BY <2>2, <2>3, <2>4 DEF IInv, VoteInv, Voted, Vote
  <2> QED  BY <2>5 DEF IInv, OneValuePerBallot, Proposal
<1>6. b \in Nat /\ c \in Nat
  BY BallotFacts
<1> QED  BY <1>4, <1>5, <1>6

\* At most one value is chosen.
LEMMA ChosenUnique ==
  ASSUME IInv, NEW v, NEW w, IsChosen(v), IsChosen(w)
  PROVE  v = w
PROOF
<1>1. PICK b \in Ballots : ChosenAt(b, v)
  BY DEF IsChosen
<1>2. PICK c \in Ballots : ChosenAt(c, w)
  BY DEF IsChosen
<1>3. Proposal(b, v) \in proposals /\ Proposal(c, w) \in proposals
  <2>1. ASSUME NEW d, NEW u, ChosenAt(d, u) PROVE Proposal(d, u) \in proposals
    <3>1. PICK Q \in Quorums : \A a \in Q : Voted(a, d, u)
      BY <2>1 DEF ChosenAt
    <3>2. PICK a \in Nodes : a \in Q
      BY QuorumsIntersect
    <3> QED  BY <3>1, <3>2 DEF IInv, VoteInv, Voted, Vote
  <2> QED  BY <1>1, <1>2, <2>1
<1>4. b <= c \/ c <= b
  BY BallotFacts
<1> QED  BY <1>1, <1>2, <1>3, <1>4, ChosenBelow

\* Agreement: no two nodes record different values for the slot.
THEOREM AgreementHolds == Spec => []Agreement
PROOF
<1>1. IInv => Agreement
  BY ChosenUnique DEF IInv, LearnedIsChosen, Agreement
<1> QED  BY <1>1, Invariance, PTL

\* A node records only a value that a quorum of acceptors has accepted.
THEOREM LearnedIsChosenHolds == Spec => []LearnedIsChosen
PROOF
<1>1. IInv => LearnedIsChosen
  BY DEF IInv
<1> QED  BY <1>1, Invariance, PTL

\* An acceptor that has voted for a chosen value still holds it.
LEMMA VoterHolds ==
  ASSUME IInv, NEW n \in Nodes, NEW b \in Ballots, NEW v, ChosenAt(b, v),
         Voted(n, b, v)
  PROVE  acceptor[n].max_value = v
PROOF
<1> DEFINE c == acceptor[n].max_accepted_ballot
           w == acceptor[n].max_value
<1>1. b <= c /\ (c # 0 => Voted(n, c, w))
  BY DEF IInv, AcceptorInv, Voted, Vote
<1>2. c \in BallotsOrZero
  BY DEF IInv, TypeInv, TypeOK, AcceptorState
<1>3. c \in Ballots
  <2>1. b \in Nat \ {0}
    BY BallotFacts
  <2> QED  BY <1>1, <1>2, <2>1 DEF BallotsOrZero
<1>4. c # 0
  BY <1>3, BallotFacts
<1>5. Proposal(c, w) \in proposals
  BY <1>1, <1>4 DEF IInv, VoteInv, Voted, Vote
<1> QED  BY <1>1, <1>3, <1>5, ChosenBelow

\* Every quorum of acceptors keeps as many holders of a chosen value as it takes to
\* put the value together.
THEOREM ChosenHeldHolds == Spec => []ChosenHeld
PROOF
<1>1. ASSUME IInv PROVE ChosenHeld
  <2> SUFFICES ASSUME NEW v \in Values, IsChosen(v), NEW Q \in Quorums
               PROVE  Cardinality({n \in Q : acceptor[n].max_value = v}) >= BlocksNeeded
    BY DEF ChosenHeld
  <2> DEFINE H == {n \in Q : acceptor[n].max_value = v}
  <2>1. PICK b \in Ballots : ChosenAt(b, v)
    BY DEF IsChosen
  <2>2. PICK R \in Quorums : \A a \in R : Voted(a, b, v)
    BY <2>1 DEF ChosenAt
  <2>3. Q \cap R \subseteq H
    BY <1>1, <2>1, <2>2, VoterHolds DEF Quorums
  <2>4. IsFiniteSet(H)
    <3>1. IsFiniteSet(Q)
      BY QuorumsOverlap, Q \cap Q = Q
    <3> QED  BY <3>1, FS_Subset
  <2>5. Cardinality(Q \cap R) <= Cardinality(H) /\ Cardinality(H) \in Nat
    BY <2>3, <2>4, FS_Subset, FS_CardinalityType
  <2>6. BlocksNeeded <= Cardinality(Q \cap R) /\ Cardinality(Q \cap R) \in Nat
    BY QuorumsOverlap
  <2> HIDE DEF H
  <2>7. Cardinality(H) >= BlocksNeeded
    BY <2>5, <2>6, QuorumSize
  <2> QED  BY <2>7 DEF H
<1> QED  BY <1>1, Invariance, PTL

\* A proposer in phase 2 at or above the ballot of a choice works for the chosen
\* value.
THEOREM PhaseTwoRespectsChosenHolds == Spec => []PhaseTwoRespectsChosen
PROOF
<1>1. ASSUME IInv PROVE PhaseTwoRespectsChosen
  <2> SUFFICES ASSUME NEW n \in Nodes, NEW b \in Ballots, NEW v \in Values,
                      proposer[n].status = "PHASEII",
                      b <= proposer[n].curr_ballot, ChosenAt(b, v)
               PROVE  proposer[n].curr_value = v
    BY DEF PhaseTwoRespectsChosen
  <2>1. proposer[n].curr_ballot \in Ballots
    BY <1>1, BallotFacts DEF IInv, TypeInv, ProposerShape
  <2>2. Proposal(proposer[n].curr_ballot, proposer[n].curr_value) \in proposals
    BY <1>1 DEF IInv, ProposerInv, ProposerOK, PhaseTwo
  <2> QED  BY <1>1, <2>1, <2>2, ChosenBelow
<1> QED  BY <1>1, Invariance, PTL
=============================================================================
