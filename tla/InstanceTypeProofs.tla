------------------------- MODULE InstanceTypeProofs -------------------------
(***************************************************************************)
(* Ballots, quorums and type correctness of Instance, for any number of    *)
(* nodes, masters, values and rounds.                                      *)
(***************************************************************************)
EXTENDS InstanceInvariants, FiniteSetTheorems, TLAPS

(***************************************************************************)
(* Ballots and quorums.                                                    *)
(***************************************************************************)

\* The ballots of Proposer::gen_next_ballot are positive, those of two nodes
\* never coincide, and the next one is again a ballot of the same node.
LEMMA BallotFacts ==
  /\ Ballots \subseteq Nat \ {0}
  /\ \A n \in Masters : OwnBallots(n) \subseteq Ballots
  /\ \A n \in Nodes : OwnBallots(n) \subseteq Nat \ {0}
  /\ \A n \in Nodes : BallotStep + n \in OwnBallots(n)
  /\ \A n \in Nodes : \A b \in OwnBallots(n) :
       /\ BallotStep + n <= b
       /\ b < MaxRound * BallotStep => b + BallotStep \in OwnBallots(n)
  /\ \A n, m \in Nodes : \A b : b \in OwnBallots(n) /\ b \in OwnBallots(m) => n = m
PROOF
<1> USE ViewAssumption, InstanceAssumption
<1>1. \A n \in Nodes : OwnBallots(n) \subseteq Nat \ {0}
  BY DEF OwnBallots, BallotsOf, Nodes, BallotStep
<1>2. \A n \in Masters : OwnBallots(n) \subseteq Ballots
  BY DEF OwnBallots, Ballots, Masters
<1>3. Ballots \subseteq Nat \ {0}
  BY <1>1 DEF OwnBallots, Ballots, Masters
<1>4. \A n \in Nodes : BallotStep + n \in OwnBallots(n)
  <2> TAKE n \in Nodes
  <2>1. 1 \in 1 .. MaxRound /\ BallotStep + n = 1 * BallotStep + n
    BY DEF Nodes, BallotStep
  <2> QED  BY <2>1 DEF OwnBallots, BallotsOf
<1>5. \A n \in Nodes : \A b \in OwnBallots(n) :
       /\ BallotStep + n <= b
       /\ b < MaxRound * BallotStep => b + BallotStep \in OwnBallots(n)
  <2> TAKE n \in Nodes
  <2> TAKE b \in OwnBallots(n)
  <2>1. PICK r \in 1 .. MaxRound : b = r * BallotStep + n
    BY DEF OwnBallots, BallotsOf
  <2>2. BallotStep + n <= b
    BY <2>1 DEF Nodes, BallotStep
  <2>3. ASSUME b < MaxRound * BallotStep
        PROVE  /\ r + 1 \in 1 .. MaxRound
               /\ b + BallotStep = (r + 1) * BallotStep + n
    BY <2>1, <2>3 DEF Nodes, BallotStep
  <2> QED  BY <2>2, <2>3 DEF OwnBallots, BallotsOf
<1>6. \A n, m \in Nodes : \A b : b \in OwnBallots(n) /\ b \in OwnBallots(m) => n = m
  <2> TAKE n, m \in Nodes
  <2> TAKE b
  <2> HAVE b \in OwnBallots(n) /\ b \in OwnBallots(m)
  <2>1. PICK r \in 1 .. MaxRound : b = r * BallotStep + n
    BY DEF OwnBallots, BallotsOf
  <2>2. PICK s \in 1 .. MaxRound : b = s * BallotStep + m
    BY DEF OwnBallots, BallotsOf
  <2> QED  BY <2>1, <2>2 DEF Nodes, BallotStep
<1> QED  BY <1>1, <1>2, <1>3, <1>4, <1>5, <1>6

\* The quorum is a majority of at least two in every build, and in the Reed-Solomon
\* build two quorums share rs_x nodes when counted, whatever the number of nodes.
LEMMA QuorumSize ==
  /\ qr \in Nat /\ 2 <= qr /\ qr <= NodesSize /\ NodesSize < 2 * qr
  /\ BlocksNeeded \in Nat /\ BlocksNeeded <= 2 * qr - NodesSize
PROOF
<1> USE ViewAssumption
<1>1. CASE MODE_TYPE # 1
  BY <1>1 DEF qr, quorum_size, BlocksNeeded
<1>2. CASE MODE_TYPE = 1
  <2>1. CASE NodesSize % 2 = 0
    <3>1. rs_x(NodesSize) = 2
      BY <2>1 DEF rs_x
    <3>2. PICK h \in Nat : NodesSize = 2 * h
      BY <2>1
    <3> QED  BY <1>2, <3>1, <3>2 DEF qr, rs_qr, BlocksNeeded
  <2>2. CASE NodesSize % 2 # 0
    <3>1. rs_x(NodesSize) = 3
      BY <2>2 DEF rs_x
    <3>2. PICK h \in Nat : NodesSize = 2 * h + 1
      BY <2>2
    <3> QED  BY <1>2, <3>1, <3>2 DEF qr, rs_qr, BlocksNeeded
  <2> QED  BY <2>1, <2>2
<1> QED  BY <1>1, <1>2

\* Two quorums share as many nodes as a value has blocks.
LEMMA QuorumsOverlap ==
  ASSUME NEW Q \in Quorums, NEW R \in Quorums
  PROVE  /\ IsFiniteSet(Q \cap R) /\ Cardinality(Q \cap R) \in Nat
         /\ BlocksNeeded <= Cardinality(Q \cap R)
         /\ \E n \in Nodes : n \in Q /\ n \in R
PROOF
<1> USE ViewAssumption
<1>1. IsFiniteSet(Nodes) /\ Cardinality(Nodes) = NodesSize
  BY FS_Interval DEF Nodes
<1>2. Q \subseteq Nodes /\ R \subseteq Nodes
  BY DEF Quorums
<1>3. IsFiniteSet(Q) /\ IsFiniteSet(R)
  BY <1>1, <1>2, FS_Subset
<1>4. IsFiniteSet(Q \cap R) /\ IsFiniteSet(Q \cup R)
  BY <1>3, FS_Intersection, FS_Union
<1>5. /\ Cardinality(Q) \in Nat /\ Cardinality(R) \in Nat
      /\ Cardinality(Q \cap R) \in Nat /\ Cardinality(Q \cup R) \in Nat
  BY <1>3, <1>4, FS_CardinalityType
<1>6. Cardinality(Q \cup R) <= NodesSize
  BY <1>1, <1>2, FS_Subset
<1>7. Cardinality(Q \cup R) = Cardinality(Q) + Cardinality(R) - Cardinality(Q \cap R)
  BY <1>3, FS_Union
<1>8. 2 * qr - NodesSize <= Cardinality(Q \cap R)
  BY <1>5, <1>6, <1>7, QuorumSize DEF Quorums
<1>9. Cardinality(Q) + Cardinality(R) > Cardinality(Nodes)
  BY <1>1, <1>5, QuorumSize DEF Quorums
<1>10. Q \cap R # {}
  BY <1>1, <1>2, <1>9, FS_MajoritiesIntersect
<1> QED  BY <1>2, <1>4, <1>5, <1>8, <1>10, QuorumSize

\* Two quorums have a node in common.
LEMMA QuorumsIntersect ==
  ASSUME NEW Q \in Quorums, NEW R \in Quorums
  PROVE  \E n \in Nodes : n \in Q /\ n \in R
PROOF
BY QuorumsOverlap

(***************************************************************************)
(* Types of the operators on acceptor and proposer records.                *)
(***************************************************************************)

\* What Acceptor's handlers return and leave behind, for a well-typed acceptor.
LEMMA AcceptorTypes ==
  ASSUME NEW a \in AcceptorState, NEW b \in Ballots
  PROVE  /\ handle_msg_prepare(a, b) \in AcceptorState
         /\ \A v \in Values : handle_msg_accept(a, b, v) \in AcceptorState
         /\ AckPrepare(a, b) \in PrepareAck
         /\ AckPrepare(a, b).reply \in {"no", "yes"}
         /\ AckAccept(a, b) \in {"no", "yes"}
PROOF
<1> Ballots \subseteq Nat
  BY BallotFacts
<1> USE DEF AcceptorState, PrepareAck, BallotsOrZero, ValuesOrNull, Replies
<1>1. handle_msg_prepare(a, b) \in AcceptorState
  BY DEF handle_msg_prepare
<1>2. \A v \in Values : handle_msg_accept(a, b, v) \in AcceptorState
  BY DEF handle_msg_accept
<1>3. AckPrepare(a, b) \in PrepareAck /\ AckPrepare(a, b).reply \in {"no", "yes"}
  BY DEF AckPrepare
<1>4. AckAccept(a, b) \in {"no", "yes"}
  BY DEF AckAccept
<1> QED  BY <1>1, <1>2, <1>3, <1>4

\* A fresh proposer's first ballot, and the ballot after a restart.
LEMMA NewProposerFields ==
  ASSUME NEW n \in Nodes, NEW v \in Values
  PROVE  LET p == gen_next_ballot(NewProposer(v), n) IN
         /\ p = [NoProposer EXCEPT !.init_value = v, !.curr_ballot = BallotStep + n]
         /\ n \in Masters => p \in ProposerState
         /\ p.curr_ballot = BallotStep + n
         /\ p.curr_ballot \in OwnBallots(n)
PROOF
<1> DEFINE p == gen_next_ballot(NewProposer(v), n)
<1> HIDE DEF p
<1>1. p = [NoProposer EXCEPT !.init_value = v, !.curr_ballot = BallotStep + n]
  BY DEF p, gen_next_ballot, NewProposer, NoProposer
<1>2. p.curr_ballot = BallotStep + n /\ BallotStep + n \in OwnBallots(n)
  BY <1>1, BallotFacts DEF NoProposer
<1>3. ASSUME n \in Masters PROVE p \in ProposerState
  <2>1. BallotStep + n \in BallotsOrZero
    BY <1>2, <1>3, BallotFacts DEF BallotsOrZero
  <2> QED
    BY <1>1, <2>1 DEF NoProposer, ProposerState, EmptyPrepareMap, EmptyAcceptMap,
       NoAck, PrepareAck, Replies, BallotsOrZero, ValuesOrNull
<1> QED  BY <1>1, <1>2, <1>3 DEF p

LEMMA RestartFields ==
  ASSUME NEW n \in Masters, NEW p \in ProposerState, p.curr_ballot \in OwnBallots(n),
         p.curr_ballot < MaxRound * BallotStep
  PROVE  LET q == restart_msg_prepare(p, n) IN
         /\ q = [p EXCEPT !.curr_value = NULL, !.ack_prepare = EmptyPrepareMap,
                          !.ack_accept = EmptyAcceptMap,
                          !.curr_ballot = p.curr_ballot + BallotStep]
         /\ q \in ProposerState
         /\ q.curr_ballot \in OwnBallots(n)
PROOF
<1> DEFINE q == restart_msg_prepare(p, n)
<1> HIDE DEF q
<1> n \in Nodes
  BY DEF Masters
<1>1. p.curr_ballot # 0
  BY BallotFacts
<1>2. q = [p EXCEPT !.curr_value = NULL, !.ack_prepare = EmptyPrepareMap,
                    !.ack_accept = EmptyAcceptMap,
                    !.curr_ballot = p.curr_ballot + BallotStep]
  BY <1>1 DEF q, restart_msg_prepare, gen_next_ballot, ProposerState
<1>3. p.curr_ballot + BallotStep \in OwnBallots(n)
  BY BallotFacts
<1>4. p.curr_ballot + BallotStep \in BallotsOrZero
  BY <1>3, BallotFacts DEF BallotsOrZero
<1>5. EmptyPrepareMap \in [Nodes -> PrepareAck] /\ EmptyAcceptMap \in [Nodes -> Replies]
  BY DEF EmptyPrepareMap, EmptyAcceptMap, NoAck, PrepareAck, Replies,
         BallotsOrZero, ValuesOrNull
<1>6. q \in ProposerState /\ q.curr_ballot \in OwnBallots(n)
  BY <1>2, <1>3, <1>4, <1>5 DEF ProposerState, ValuesOrNull
<1> QED  BY <1>2, <1>6 DEF q

\* Storing an ack changes one entry of one map.
LEMMA StoreFields ==
  ASSUME NEW p \in ProposerState, NEW m \in Nodes
  PROVE  /\ \A ack \in PrepareAck :
              /\ StorePromise(p, m, ack) \in ProposerState
              /\ StorePromise(p, m, ack) =
                   [p EXCEPT !.ack_prepare = [p.ack_prepare EXCEPT ![m] = ack]]
         /\ \A r \in Replies :
              /\ StoreAccepted(p, m, r) \in ProposerState
              /\ StoreAccepted(p, m, r) =
                   [p EXCEPT !.ack_accept = [p.ack_accept EXCEPT ![m] = r]]
PROOF
  BY DEF StorePromise, StoreAccepted, ProposerState

\* The scan changes max_ballot and max_value only.
LEMMA ScanFields ==
  ASSUME NEW p \in ProposerState, NEW q \in ScanPromises(p)
  PROVE  /\ q \in ProposerState
         /\ q = [p EXCEPT !.max_ballot = q.max_ballot, !.max_value = q.max_value]
         /\ \/ /\ q = p
               /\ \A m \in Promised(p) : p.ack_prepare[m].max_ballot <= p.max_ballot
            \/ \E m \in Promised(p) :
                 /\ q.max_ballot = p.ack_prepare[m].max_ballot
                 /\ q.max_value = p.ack_prepare[m].max_value
                 /\ q.max_ballot > p.max_ballot
                 /\ \A k \in Promised(p) :
                      p.ack_prepare[k].max_ballot <= q.max_ballot
PROOF
<1>1. CASE q = p /\ \A m \in Promised(p) : p.ack_prepare[m].max_ballot <= p.max_ballot
  BY <1>1 DEF ProposerState
<1>2. CASE \E m \in Highest(p) :
             q = [p EXCEPT !.max_ballot = p.ack_prepare[m].max_ballot,
                           !.max_value  = p.ack_prepare[m].max_value]
  <2>1. PICK m \in Highest(p) :
             q = [p EXCEPT !.max_ballot = p.ack_prepare[m].max_ballot,
                           !.max_value  = p.ack_prepare[m].max_value]
    BY <1>2
  <2>2. m \in Promised(p) /\ m \in Nodes
    BY DEF Highest, Promised
  <2>3. p.ack_prepare[m] \in PrepareAck
    BY <2>2 DEF ProposerState
  <2>4. /\ q.max_ballot = p.ack_prepare[m].max_ballot
        /\ q.max_value = p.ack_prepare[m].max_value
    BY <2>1 DEF ProposerState
  <2>5. q \in ProposerState
    BY <2>1, <2>3 DEF ProposerState, PrepareAck
  <2>6. q = [p EXCEPT !.max_ballot = q.max_ballot, !.max_value = q.max_value]
    BY <2>1, <2>4
  <2> QED  BY <2>2, <2>4, <2>5, <2>6 DEF Highest
<1> QED  BY <1>1, <1>2 DEF ScanPromises

(***************************************************************************)
(* Type correctness.                                                       *)
(***************************************************************************)

\* The message a handler may send, by type.
LEMMA MessageTypes ==
  ASSUME NEW n \in Nodes, NEW m \in Nodes
  PROVE  /\ \A b \in Ballots : Prepare(n, m, b) \in Message
         /\ \A b \in Ballots, ack \in PrepareAck :
              ack.reply \in {"no", "yes"} => Promise(n, m, b, ack) \in Message
         /\ \A b \in Ballots, v \in Values : AcceptMsg(n, m, b, v) \in Message
         /\ \A b \in Ballots, r \in {"no", "yes"} :
              AcceptedMsg(n, m, b, r) \in Message
         /\ \A v \in Values : msg_decide(n, m, v) \in Message
         /\ msg_learn(n, m) \in Message
         /\ \A v \in Values : msg_teach(n, m, v) \in Message
PROOF
  BY DEF Message, Prepare, Promise, AcceptMsg, AcceptedMsg, msg_decide, msg_learn,
         msg_teach, PrepareAck

LEMMA MessageFields ==
  ASSUME NEW m \in Message
  PROVE  /\ m.type = "LEARN" \/ m.type # "LEARN"
         /\ m.from \in Nodes /\ m.to \in Nodes
         /\ m.type \in {"PREPARE", "PROMISE", "ACCEPT", "ACCEPTED"} => m.ballot \in Ballots
         /\ m.type = "PROMISE" =>
              [ reply |-> m.reply, max_ballot |-> m.max_ballot,
                max_value |-> m.max_value ] \in PrepareAck
         /\ m.type = "PROMISE" => m.reply \in {"no", "yes"}
         /\ m.type = "ACCEPT" => m.value \in Values
         /\ m.type = "ACCEPTED" => m.reply \in {"no", "yes"}
         /\ m.type \in {"DECIDE", "TEACH"} => m.value \in Values
PROOF
  BY DEF Message, PrepareAck, Replies

\* A PREPARE round started by a well-formed proposer record keeps the types.
LEMMA BroadcastPrepareType ==
  ASSUME TypeInv, NEW n \in Masters, NEW p \in ProposerState, NEW received,
         p.curr_ballot \in OwnBallots(n), p.init_value \in Values,
         BroadcastPrepare(n, p, received)
  PROVE  TypeInv'
PROOF
<1> DEFINE b == p.curr_ballot
           q == [p EXCEPT !.status = "INIT"]
           q2 == [q EXCEPT !.status = "PHASEI"]
           ack == AckPrepare(acceptor[n], b)
           r == StorePromise(q2, n, ack)
<1> HIDE DEF q, q2, ack, r
<1> n \in Nodes
  BY DEF Masters
<1>1. b \in Ballots
  BY BallotFacts
<1>2. acceptor[n] \in AcceptorState
  BY DEF TypeInv, TypeOK
<1>3. q \in ProposerState /\ q2 \in ProposerState
  BY DEF ProposerState, q, q2
<1>4. ack \in PrepareAck
  BY <1>1, <1>2, AcceptorTypes DEF ack
<1>5. r \in ProposerState /\ r = [q2 EXCEPT !.ack_prepare = [q2.ack_prepare EXCEPT ![n] = ack]]
  BY <1>3, <1>4, StoreFields DEF r
<1>6. acceptor' \in [Nodes -> AcceptorState]
  <2>1. handle_msg_prepare(acceptor[n], b) \in AcceptorState
    BY <1>1, <1>2, AcceptorTypes
  <2> QED  BY <2>1 DEF BroadcastPrepare, TypeInv, TypeOK
<1>7. net' \in SUBSET Message
  <2>1. \A m \in Reach(n, "PREPARE") : Prepare(n, m, b) \in Message
    BY <1>1, MessageTypes DEF Reach, Listeners
  <2> QED  BY <2>1 DEF BroadcastPrepare, TypeInv, TypeOK
<1>8. \E s \in {q, r} : proposer' = [proposer EXCEPT ![n] = s]
  BY DEF BroadcastPrepare, r, q2, q, ack
<1>9. \A s \in {q, r} :
        /\ s \in ProposerState
        /\ s.status \in {"INIT", "PHASEI"}
        /\ s.curr_ballot = b
        /\ s.init_value = p.init_value
  <2>1. q.status = "INIT" /\ q.curr_ballot = b /\ q.init_value = p.init_value
    BY DEF ProposerState, q
  <2>2. r.status = "PHASEI" /\ r.curr_ballot = b /\ r.init_value = p.init_value
    BY <1>3, <1>5 DEF ProposerState, q, q2
  <2> QED  BY <1>3, <1>5, <2>1, <2>2
<1>10. proposer' \in [Nodes -> ProposerState]
  BY <1>8, <1>9 DEF TypeInv, TypeOK
<1>11. ProposerShape'
  BY <1>8, <1>9 DEF ProposerShape, TypeInv, TypeOK, OwnBallots
<1> QED  BY <1>6, <1>7, <1>10, <1>11 DEF BroadcastPrepare, TypeInv, TypeOK

\* An ACCEPT round started by a well-formed proposer record keeps the types.
LEMMA BroadcastAcceptType ==
  ASSUME TypeInv, NEW n \in Masters, NEW p \in ProposerState, NEW received,
         p.curr_ballot \in OwnBallots(n), p.init_value \in Values,
         p.curr_value \in Values, BroadcastAccept(n, p, received)
  PROVE  TypeInv'
PROOF
<1> DEFINE b == p.curr_ballot
           v == p.curr_value
           q == [p EXCEPT !.status = "PHASEII"]
           ack == AckAccept(acceptor[n], b)
           r == StoreAccepted(q, n, ack)
<1> HIDE DEF q, ack, r
<1> n \in Nodes
  BY DEF Masters
<1>1. b \in Ballots
  BY BallotFacts
<1>2. acceptor[n] \in AcceptorState
  BY DEF TypeInv, TypeOK
<1>3. q \in ProposerState
  BY DEF ProposerState, q
<1>4. ack \in Replies
  BY <1>1, <1>2, AcceptorTypes DEF ack, Replies
<1>5. r \in ProposerState /\ r = [q EXCEPT !.ack_accept = [q.ack_accept EXCEPT ![n] = ack]]
  BY <1>3, <1>4, StoreFields DEF r
<1>6. acceptor' \in [Nodes -> AcceptorState]
  <2>1. handle_msg_accept(acceptor[n], b, v) \in AcceptorState
    BY <1>1, <1>2, AcceptorTypes
  <2> QED  BY <2>1 DEF BroadcastAccept, TypeInv, TypeOK
<1>7. net' \in SUBSET Message
  <2>1. \A m \in Reach(n, "ACCEPT") : AcceptMsg(n, m, b, v) \in Message
    BY <1>1, MessageTypes DEF Reach, Listeners
  <2> QED  BY <2>1 DEF BroadcastAccept, TypeInv, TypeOK
<1>8. \E s \in {q, r} : proposer' = [proposer EXCEPT ![n] = s]
  BY DEF BroadcastAccept, q, r, ack
<1>9. \A s \in {q, r} :
        /\ s \in ProposerState
        /\ s.status = "PHASEII"
        /\ s.curr_ballot = b
        /\ s.init_value = p.init_value
        /\ s.curr_value = v
  <2>1. /\ q.status = "PHASEII" /\ q.curr_ballot = b
        /\ q.init_value = p.init_value /\ q.curr_value = v
    BY DEF ProposerState, q
  <2>2. /\ r.status = "PHASEII" /\ r.curr_ballot = b
        /\ r.init_value = p.init_value /\ r.curr_value = v
    BY <1>3, <1>5, <2>1 DEF ProposerState
  <2> QED  BY <1>3, <1>5, <2>1, <2>2
<1>10. proposer' \in [Nodes -> ProposerState]
  BY <1>8, <1>9 DEF TypeInv, TypeOK
<1>11. ProposerShape'
  BY <1>8, <1>9 DEF ProposerShape, TypeInv, TypeOK, OwnBallots
<1>12. Vote(n, b, v) \in [node : Nodes, ballot : Ballots, value : Values]
  BY <1>1 DEF Vote
<1>13. Proposal(b, v) \in [ballot : Ballots, value : Values]
  BY <1>1 DEF Proposal
<1> QED
  BY <1>6, <1>7, <1>10, <1>11, <1>12, <1>13 DEF BroadcastAccept, TypeInv, TypeOK

\* The proposer that stored a PROMISE, or an ACCEPTED, is well-formed.
LEMMA AfterPromiseFields ==
  ASSUME TypeInv, NEW msg \in net, PromiseStored(msg)
  PROVE  LET p == AfterPromise(msg)
             q == proposer[msg.to]
             ack == [ reply |-> msg.reply, max_ballot |-> msg.max_ballot,
                      max_value |-> msg.max_value ] IN
         /\ msg.to \in Masters /\ msg.from \in Nodes /\ msg \in Message
         /\ msg.type = "PROMISE"
         /\ q \in ProposerState /\ q.status \in {"INIT", "PHASEI"}
         /\ p \in ProposerState
         /\ p = [q EXCEPT !.status = "PHASEI",
                          !.ack_prepare = [q.ack_prepare EXCEPT ![msg.from] = ack]]
         /\ p.curr_ballot \in OwnBallots(msg.to)
         /\ p.init_value \in Values
PROOF
<1> DEFINE q == proposer[msg.to]
           q1 == [q EXCEPT !.status = "PHASEI"]
           ack == [ reply |-> msg.reply, max_ballot |-> msg.max_ballot,
                    max_value |-> msg.max_value ]
           p == StorePromise(q1, msg.from, ack)
<1> HIDE DEF q, q1, ack, p
<1>1. msg \in Message /\ msg.type = "PROMISE"
  BY DEF TypeInv, TypeOK, PromiseStored, PromiseReceived
<1>2. msg.from \in Nodes /\ msg.to \in Nodes /\ ack \in PrepareAck
  BY <1>1, MessageFields DEF ack
<1>3. q \in ProposerState /\ q.status \in {"INIT", "PHASEI"}
  BY <1>2 DEF PromiseStored, WaitsForPromise, TypeInv, TypeOK, q
<1>4. msg.to \in Masters /\ q.curr_ballot \in OwnBallots(msg.to) /\ q.init_value \in Values
  BY <1>2, <1>3 DEF TypeInv, ProposerShape, q
<1>5. /\ q1 \in ProposerState /\ q1.curr_ballot = q.curr_ballot
      /\ q1.init_value = q.init_value /\ q1.ack_prepare = q.ack_prepare
  BY <1>3 DEF ProposerState, q1
<1>6. /\ p \in ProposerState
      /\ p = [q1 EXCEPT !.ack_prepare = [q1.ack_prepare EXCEPT ![msg.from] = ack]]
  <2> DEFINE from == msg.from
  <2> HIDE DEF from
  <2>1. from \in Nodes /\ p = StorePromise(q1, from, ack)
    BY <1>2 DEF p, from
  <2>2. /\ StorePromise(q1, from, ack) \in ProposerState
        /\ StorePromise(q1, from, ack) =
             [q1 EXCEPT !.ack_prepare = [q1.ack_prepare EXCEPT ![from] = ack]]
    BY <1>2, <1>5, <2>1, StoreFields
  <2> QED  BY <2>1, <2>2 DEF from
<1>7. p.curr_ballot = q.curr_ballot /\ p.init_value = q.init_value
  BY <1>5, <1>6 DEF ProposerState
<1>8. p = [q EXCEPT !.status = "PHASEI",
                    !.ack_prepare = [q.ack_prepare EXCEPT ![msg.from] = ack]]
  BY <1>5, <1>6 DEF q1
<1>9. p = AfterPromise(msg)
  BY DEF AfterPromise, p, q1, q, ack
<1> QED  BY <1>1, <1>2, <1>3, <1>4, <1>6, <1>7, <1>8, <1>9 DEF q, ack

LEMMA AfterAcceptedFields ==
  ASSUME TypeInv, NEW msg \in net, AcceptedStored(msg)
  PROVE  LET p == AfterAccepted(msg)
             q == proposer[msg.to] IN
         /\ msg.to \in Masters /\ msg.from \in Nodes /\ msg \in Message
         /\ msg.type = "ACCEPTED"
         /\ q \in ProposerState /\ q.status = "PHASEII"
         /\ p \in ProposerState
         /\ p = [q EXCEPT !.ack_accept = [q.ack_accept EXCEPT ![msg.from] = msg.reply]]
         /\ p.curr_ballot \in OwnBallots(msg.to)
         /\ p.init_value \in Values
         /\ p.curr_value \in Values
PROOF
<1> DEFINE q == proposer[msg.to]
           m == msg.from
           r == msg.reply
           p == StoreAccepted(q, m, r)
<1> HIDE DEF q, p, m, r
<1>1. msg \in Message /\ msg.type = "ACCEPTED"
  BY DEF TypeInv, TypeOK, AcceptedStored, AcceptedReceived
<1>2. m \in Nodes /\ msg.to \in Nodes /\ r \in Replies
  BY <1>1, MessageFields DEF Replies, m, r
<1>3. q \in ProposerState /\ q.status = "PHASEII"
  BY <1>2 DEF AcceptedStored, TypeInv, TypeOK, q
<1>4. /\ msg.to \in Masters /\ q.curr_ballot \in OwnBallots(msg.to)
      /\ q.init_value \in Values /\ q.curr_value \in Values
  BY <1>2, <1>3 DEF TypeInv, ProposerShape, q
<1>5. /\ p \in ProposerState
      /\ p = [q EXCEPT !.ack_accept = [q.ack_accept EXCEPT ![m] = r]]
  BY <1>2, <1>3, StoreFields DEF p
<1>6. /\ p.curr_ballot = q.curr_ballot /\ p.init_value = q.init_value
      /\ p.curr_value = q.curr_value
  BY <1>3, <1>5 DEF ProposerState
<1>7. p = AfterAccepted(msg)
  BY DEF AfterAccepted, p, q, m, r
<1> QED  BY <1>1, <1>2, <1>3, <1>4, <1>5, <1>6, <1>7 DEF q, m, r

LEMMA TypeInit == Init => TypeInv
PROOF
<1> SUFFICES ASSUME Init PROVE TypeInv
  OBVIOUS
<1>1. NoProposer \in ProposerState /\ NoProposer.status = "EMPTY"
  BY DEF NoProposer, ProposerState, EmptyPrepareMap, EmptyAcceptMap, NoAck,
     PrepareAck, Replies, BallotsOrZero, ValuesOrNull
<1>2. NewAcceptor \in AcceptorState
  BY DEF NewAcceptor, AcceptorState, BallotsOrZero, ValuesOrNull
<1>3. \A n \in Nodes :
        update_max_proposed(NewAcceptor, BallotStep + MasterOf[n]) \in AcceptorState
  BY <1>2, ViewAssumption DEF update_max_proposed, AcceptorState, BallotStep, Nodes
<1>4. TypeOK
  BY <1>1, <1>2, <1>3 DEF Init, TypeOK, ValuesOrNull
<1>5. ProposerShape
  BY <1>1 DEF Init, ProposerShape
<1> QED  BY <1>4, <1>5 DEF TypeInv

\* The record that the status of a proposer is set in.
LEMMA StatusFields ==
  ASSUME NEW p \in ProposerState, NEW s \in {"INIT", "PHASEI", "PHASEII", "CHOSEN"}
  PROVE  LET q == [p EXCEPT !.status = s] IN
         /\ q \in ProposerState
         /\ q.status = s
         /\ q.init_value = p.init_value /\ q.curr_ballot = p.curr_ballot
         /\ q.curr_value = p.curr_value /\ q.max_ballot = p.max_ballot
         /\ q.max_value = p.max_value
         /\ q.ack_prepare = p.ack_prepare /\ q.ack_accept = p.ack_accept
PROOF
  BY DEF ProposerState

\* The value AdoptValue settles on.
LEMMA AdoptFields ==
  ASSUME NEW p \in ProposerState, p.init_value \in Values
  PROVE  LET q == AdoptValue(p) IN
         /\ q \in ProposerState
         /\ q = [p EXCEPT !.curr_value = q.curr_value]
         /\ q.curr_value \in Values
         /\ q.curr_value = IF p.max_value # NULL THEN p.max_value ELSE p.init_value
PROOF
  BY DEF AdoptValue, ProposerState, ValuesOrNull

LEMMA TypeCommit ==
  ASSUME TypeInv, NEW n \in Nodes, NEW v \in Values, Commit(n, v)
  PROVE  TypeInv'
PROOF
<1> DEFINE p == gen_next_ballot(NewProposer(v), n)
           q == init_curr_value(p)
<1> HIDE DEF p, q
<1>1. n \in Masters
  BY DEF Commit, Masters
<1>2. /\ p \in ProposerState
      /\ p = [NoProposer EXCEPT !.init_value = v, !.curr_ballot = BallotStep + n]
      /\ p.curr_ballot \in OwnBallots(n)
  BY <1>1, NewProposerFields DEF p
<1>3. p.init_value = v
  BY <1>2 DEF NoProposer
<1>4. /\ q \in ProposerState /\ q.curr_ballot = p.curr_ballot
      /\ q.init_value = v /\ q.curr_value = v
  BY <1>2, <1>3 DEF q, init_curr_value, ProposerState
<1>5. CASE BroadcastAccept(n, q, {})
  BY <1>1, <1>2, <1>4, <1>5, BroadcastAcceptType
<1>6. CASE BroadcastPrepare(n, p, {})
  BY <1>1, <1>2, <1>3, <1>6, BroadcastPrepareType
<1> QED  BY <1>5, <1>6 DEF Commit, p, q

LEMMA TypeRecvPromise ==
  ASSUME TypeInv, NEW msg \in net, RecvPromise(msg)
  PROVE  TypeInv'
PROOF
<1> DEFINE p == AfterPromise(msg)
           n == msg.to
<1> HIDE DEF p, n
<1>1. CASE PromiseIgnored(msg)
  BY <1>1 DEF PromiseIgnored, Deliver, TypeInv, TypeOK, ProposerShape
<1>2. CASE PromiseDrop(msg)
  <2>1. n \in Nodes
    BY MessageFields DEF TypeInv, TypeOK, n
  <2> DEFINE q == [proposer[n] EXCEPT !.status = "PHASEI"]
  <2> HIDE DEF q
  <2>2. proposer' = [proposer EXCEPT ![n] = q]
    BY <1>2 DEF PromiseDrop, n, q
  <2>3. proposer[n] \in ProposerState /\ proposer[n].status \in {"INIT", "PHASEI"}
    BY <1>2, <2>1 DEF PromiseDrop, WaitsForPromise, n, TypeInv, TypeOK
  <2>4. /\ q \in ProposerState /\ q.status = "PHASEI"
        /\ q.init_value = proposer[n].init_value
        /\ q.curr_ballot = proposer[n].curr_ballot
    BY <2>3, StatusFields DEF q
  <2>5. ProposerShape'
    BY <2>1, <2>2, <2>3, <2>4 DEF TypeInv, TypeOK, ProposerShape, OwnBallots
  <2>6. proposer' \in [Nodes -> ProposerState]
    BY <2>2, <2>4 DEF TypeInv, TypeOK
  <2> QED  BY <1>2, <2>5, <2>6 DEF PromiseDrop, Deliver, TypeInv, TypeOK
<1>3. CASE PromiseStored(msg)
  <2>1. /\ n \in Masters /\ n \in Nodes
        /\ p \in ProposerState /\ p.status = "PHASEI"
        /\ p.curr_ballot \in OwnBallots(n) /\ p.init_value \in Values
    BY <1>3, AfterPromiseFields DEF p, n, Masters, ProposerState
  <2>2. CASE PromiseNotEnough(msg)
    <3>1. proposer' = [proposer EXCEPT ![n] = p]
      BY <2>2 DEF PromiseNotEnough, p, n
    <3>2. ProposerShape'
      BY <2>1, <3>1 DEF TypeInv, TypeOK, ProposerShape, OwnBallots
    <3>3. proposer' \in [Nodes -> ProposerState]
      BY <2>1, <3>1 DEF TypeInv, TypeOK
    <3> QED  BY <2>2, <3>2, <3>3 DEF PromiseNotEnough, Deliver, TypeInv, TypeOK
  <2>3. CASE PromiseContinue(msg)
    <3>1. PICK q \in ScanPromises(p) : BroadcastAccept(n, AdoptValue(q), {msg})
      BY <2>3 DEF PromiseContinue, p, n
    <3>2. /\ q \in ProposerState
          /\ q = [p EXCEPT !.max_ballot = q.max_ballot, !.max_value = q.max_value]
      BY <2>1, ScanFields
    <3>3. q.curr_ballot = p.curr_ballot /\ q.init_value = p.init_value
      BY <2>1, <3>2 DEF ProposerState
    <3> DEFINE r == AdoptValue(q)
    <3> HIDE DEF r
    <3>4. /\ r \in ProposerState /\ r = [q EXCEPT !.curr_value = r.curr_value]
          /\ r.curr_value \in Values
      BY <2>1, <3>2, <3>3, AdoptFields DEF r
    <3>5. r.curr_ballot = p.curr_ballot /\ r.init_value = p.init_value
      BY <3>2, <3>3, <3>4 DEF ProposerState
    <3>6. BroadcastAccept(n, r, {msg})
      BY <3>1 DEF r
    <3> QED  BY <2>1, <3>4, <3>5, <3>6, BroadcastAcceptType
  <2>4. CASE PromiseRestart(msg)
    <3>1. PICK q \in ScanPromises(p) :
             BroadcastPrepare(n, restart_msg_prepare(q, n), {msg})
      BY <2>4 DEF PromiseRestart, p, n
    <3>2. /\ q \in ProposerState
          /\ q = [p EXCEPT !.max_ballot = q.max_ballot, !.max_value = q.max_value]
      BY <2>1, ScanFields
    <3>3. q.curr_ballot = p.curr_ballot /\ q.init_value = p.init_value
      BY <2>1, <3>2 DEF ProposerState
    <3>4. q.curr_ballot < MaxRound * BallotStep
      BY <2>4, <3>3 DEF PromiseRestart, p
    <3> DEFINE r == restart_msg_prepare(q, n)
    <3> HIDE DEF r
    <3>5. /\ r \in ProposerState /\ r.curr_ballot \in OwnBallots(n)
          /\ r = [q EXCEPT !.curr_value = NULL, !.ack_prepare = EmptyPrepareMap,
                           !.ack_accept = EmptyAcceptMap,
                           !.curr_ballot = q.curr_ballot + BallotStep]
      BY <2>1, <3>2, <3>3, <3>4, RestartFields DEF r
    <3>6. r.init_value = p.init_value
      BY <3>2, <3>3, <3>5 DEF ProposerState
    <3>7. BroadcastPrepare(n, r, {msg})
      BY <3>1 DEF r
    <3> QED  BY <2>1, <3>5, <3>6, <3>7, BroadcastPrepareType
  <2>5. PromiseNotEnough(msg) \/ PromiseContinue(msg) \/ PromiseRestart(msg)
    BY <1>3 DEF RecvPromise, PromiseIgnored, PromiseDrop, PromiseStored
  <2> QED  BY <2>2, <2>3, <2>4, <2>5
<1> QED
  BY <1>1, <1>2, <1>3 DEF RecvPromise, PromiseNotEnough, PromiseContinue, PromiseRestart

LEMMA AnnounceTypes ==
  ASSUME NEW n \in Nodes, NEW v \in Values, NEW w \in Values
  PROVE  Announce(n, v, w) \in SUBSET Message
PROOF
  BY MessageTypes DEF Announce, Reach, Listeners

LEMMA TypeRecvAccepted ==
  ASSUME TypeInv, NEW msg \in net, RecvAccepted(msg)
  PROVE  TypeInv'
PROOF
<1> DEFINE p == AfterAccepted(msg)
           n == msg.to
<1> HIDE DEF p, n
<1>1. CASE AcceptedIgnored(msg)
  BY <1>1 DEF AcceptedIgnored, Deliver, TypeInv, TypeOK, ProposerShape
<1>2. CASE AcceptedStored(msg)
  <2>1. /\ n \in Masters /\ n \in Nodes
        /\ p \in ProposerState /\ p.status = "PHASEII"
        /\ p.curr_ballot \in OwnBallots(n)
        /\ p.init_value \in Values /\ p.curr_value \in Values
    BY <1>2, AfterAcceptedFields DEF p, n, Masters, ProposerState
  <2>2. CASE AcceptedNotEnough(msg)
    <3>1. proposer' = [proposer EXCEPT ![n] = p]
      BY <2>2 DEF AcceptedNotEnough, p, n
    <3>2. ProposerShape'
      BY <2>1, <3>1 DEF TypeInv, TypeOK, ProposerShape, OwnBallots
    <3>3. proposer' \in [Nodes -> ProposerState]
      BY <2>1, <3>1 DEF TypeInv, TypeOK
    <3> QED  BY <2>2, <3>2, <3>3 DEF AcceptedNotEnough, Deliver, TypeInv, TypeOK
  <2>3. CASE AcceptedChoose(msg)
    <3> DEFINE q == [p EXCEPT !.status = "CHOSEN"]
    <3> HIDE DEF q
    <3>1. proposer' = [proposer EXCEPT ![n] = q]
      BY <2>3 DEF AcceptedChoose, p, n, q
    <3>2. /\ q \in ProposerState /\ q.status = "CHOSEN"
          /\ q.curr_ballot = p.curr_ballot /\ q.init_value = p.init_value
      BY <2>1, StatusFields DEF q
    <3>3. ProposerShape'
      BY <2>1, <3>1, <3>2 DEF TypeInv, TypeOK, ProposerShape, OwnBallots
    <3>4. proposer' \in [Nodes -> ProposerState]
      BY <2>1, <3>1, <3>2 DEF TypeInv, TypeOK
    <3>5. chosen_value' \in [Nodes -> ValuesOrNull] /\ chosen_value'[n] \in Values
      BY <2>1, <2>3 DEF AcceptedChoose, add_chosen_value, p, n, TypeInv, TypeOK, ValuesOrNull
    <3>6. net' \in SUBSET Message
      BY <2>1, <2>3, <3>5, AnnounceTypes DEF AcceptedChoose, Deliver, p, n, TypeInv, TypeOK
    <3> QED  BY <2>3, <3>3, <3>4, <3>5, <3>6 DEF AcceptedChoose, TypeInv, TypeOK
  <2>4. CASE AcceptedRestart(msg)
    <3> DEFINE r == restart_msg_prepare(p, n)
    <3> HIDE DEF r
    <3>1. p.curr_ballot < MaxRound * BallotStep /\ BroadcastPrepare(n, r, {msg})
      BY <2>4 DEF AcceptedRestart, p, n, r
    <3>2. /\ r \in ProposerState /\ r.curr_ballot \in OwnBallots(n)
          /\ r = [p EXCEPT !.curr_value = NULL, !.ack_prepare = EmptyPrepareMap,
                           !.ack_accept = EmptyAcceptMap,
                           !.curr_ballot = p.curr_ballot + BallotStep]
      BY <2>1, <3>1, RestartFields DEF r
    <3>3. r.init_value = p.init_value
      BY <2>1, <3>2 DEF ProposerState
    <3> QED  BY <2>1, <3>1, <3>2, <3>3, BroadcastPrepareType
  <2>5. AcceptedNotEnough(msg) \/ AcceptedChoose(msg) \/ AcceptedRestart(msg)
    BY <1>2 DEF RecvAccepted, AcceptedIgnored, AcceptedStored
  <2> QED  BY <2>2, <2>3, <2>4, <2>5
<1> QED
  BY <1>1, <1>2 DEF RecvAccepted, AcceptedNotEnough, AcceptedChoose, AcceptedRestart

\* The handlers that touch an acceptor or the record of the chosen value only.
LEMMA TypeOtherMessages ==
  ASSUME TypeInv, NEW msg \in net,
         \/ RecvPrepare(msg) \/ RecvAccept(msg) \/ RecvDecide(msg)
         \/ RecvLearn(msg) \/ RecvTeach(msg)
  PROVE  TypeInv'
PROOF
<1> DEFINE n == msg.to
           m == msg.from
           b == msg.ballot
           v == msg.value
<1> HIDE DEF n, m, b, v
<1>1. msg \in Message /\ n \in Nodes /\ m \in Nodes
  BY MessageFields DEF TypeInv, TypeOK, n, m
<1>2. acceptor[n] \in AcceptorState /\ chosen_value[n] \in ValuesOrNull
  BY <1>1 DEF TypeInv, TypeOK
<1>3. CASE RecvPrepare(msg)
  <2>1. b \in Ballots
    BY <1>1, <1>3, MessageFields DEF RecvPrepare, b
  <2> DEFINE a   == handle_msg_prepare(acceptor[n], b)
             out == Promise(n, m, b, AckPrepare(acceptor[n], b))
  <2> HIDE DEF a, out
  <2>2. a \in AcceptorState
    BY <1>2, <2>1, AcceptorTypes DEF a
  <2>3. out \in Message
    BY <1>1, <1>2, <2>1, AcceptorTypes, MessageTypes DEF out
  <2>4. acceptor' = [acceptor EXCEPT ![n] = a] /\ net' = (net \ {msg}) \cup {out}
    BY <1>3 DEF RecvPrepare, Deliver, a, out, n, m, b
  <2> QED
    BY <1>3, <2>2, <2>3, <2>4 DEF RecvPrepare, TypeInv, TypeOK, ProposerShape
<1>4. CASE RecvAccept(msg)
  <2>1. b \in Ballots /\ v \in Values
    BY <1>1, <1>4, MessageFields DEF RecvAccept, b, v
  <2> DEFINE a   == handle_msg_accept(acceptor[n], b, v)
             out == AcceptedMsg(n, m, b, AckAccept(acceptor[n], b))
             x   == Vote(n, b, v)
  <2> HIDE DEF a, out, x
  <2>2. a \in AcceptorState
    BY <1>2, <2>1, AcceptorTypes DEF a
  <2>3. out \in Message
    BY <1>1, <1>2, <2>1, AcceptorTypes, MessageTypes DEF out
  <2>4. x \in [node : Nodes, ballot : Ballots, value : Values]
    BY <1>1, <2>1 DEF x, Vote
  <2>5. /\ acceptor' = [acceptor EXCEPT ![n] = a] /\ net' = (net \ {msg}) \cup {out}
        /\ votes' \in {votes, votes \cup {x}}
    BY <1>4 DEF RecvAccept, Deliver, a, out, x, n, m, b, v
  <2>6. acceptor' \in [Nodes -> AcceptorState]
    BY <2>2, <2>5 DEF TypeInv, TypeOK
  <2>7. net' \in SUBSET Message
    BY <2>3, <2>5 DEF TypeInv, TypeOK
  <2>8. votes' \in SUBSET [node : Nodes, ballot : Ballots, value : Values]
    BY <2>4, <2>5 DEF TypeInv, TypeOK
  <2> QED
    BY <1>4, <2>6, <2>7, <2>8 DEF RecvAccept, TypeInv, TypeOK, ProposerShape
<1>5. CASE RecvDecide(msg)
  <2>1. v \in Values
    BY <1>1, <1>5, MessageFields DEF RecvDecide, v
  <2>2. chosen_value' \in [Nodes -> ValuesOrNull]
    BY <1>2, <1>5, <2>1 DEF RecvDecide, add_chosen_value, n, v, TypeInv, TypeOK, ValuesOrNull
  <2>3. net' \in SUBSET Message
    BY <1>1, <1>5, MessageTypes DEF RecvDecide, Deliver, n, m, TypeInv, TypeOK
  <2> QED  BY <1>5, <2>2, <2>3 DEF RecvDecide, TypeInv, TypeOK, ProposerShape
<1>6. CASE RecvLearn(msg)
  <2>1. \A w \in {chosen_value[n]} \ {NULL} : msg_teach(n, m, w) \in Message
    BY <1>1, <1>2, MessageTypes DEF ValuesOrNull
  <2>2. net' \in SUBSET Message
    BY <1>6, <2>1 DEF RecvLearn, Deliver, n, m, TypeInv, TypeOK
  <2> QED  BY <1>6, <2>2 DEF RecvLearn, TypeInv, TypeOK, ProposerShape
<1>7. CASE RecvTeach(msg)
  <2>1. v \in Values
    BY <1>1, <1>7, MessageFields DEF RecvTeach, v
  <2>2. chosen_value' \in [Nodes -> ValuesOrNull]
    BY <1>2, <1>7, <2>1 DEF RecvTeach, add_chosen_value, n, v, TypeInv, TypeOK, ValuesOrNull
  <2> QED  BY <1>7, <2>2 DEF RecvTeach, Deliver, TypeInv, TypeOK, ProposerShape
<1> QED  BY <1>3, <1>4, <1>5, <1>6, <1>7

LEMMA TypeNext == TypeInv /\ [Next]_vars => TypeInv'
PROOF
<1> SUFFICES ASSUME TypeInv, [Next]_vars PROVE TypeInv'
  OBVIOUS
<1>1. ASSUME NEW n \in Nodes, NEW v \in Values, Commit(n, v) PROVE TypeInv'
  BY <1>1, TypeCommit
<1>2. ASSUME NEW msg \in net, Recv(msg) PROVE TypeInv'
  BY <1>2, TypeRecvPromise, TypeRecvAccepted, TypeOtherMessages DEF Recv
<1>3. ASSUME NEW n \in Nodes, Crash(n) PROVE TypeInv'
  BY <1>3 DEF Crash, TypeInv, TypeOK, ProposerShape
<1>4. CASE UNCHANGED vars
  BY <1>4 DEF vars, TypeInv, TypeOK, ProposerShape
<1> QED  BY <1>1, <1>2, <1>3, <1>4 DEF Next

\* Every variable of the instance stays in its type, and every proposer stays
\* with its own ballots: the values and ballots the handlers compute from one
\* another never leave the sets they are meant to be in.
THEOREM TypeCorrect == Spec => []TypeOK
PROOF
<1>1. Spec => []TypeInv
  BY TypeInit, TypeNext, PTL DEF Spec
<1>2. TypeInv => TypeOK
  BY DEF TypeInv
<1> QED  BY <1>1, <1>2, PTL

\* The ballots in a proposer record are natural numbers.
LEMMA ProposerNats ==
  ASSUME NEW p \in ProposerState
  PROVE  /\ p.curr_ballot \in Nat /\ p.max_ballot \in Nat
         /\ p.curr_ballot \in BallotsOrZero /\ p.max_ballot \in BallotsOrZero
         /\ \A m \in Nodes : /\ p.ack_prepare[m] \in PrepareAck
                             /\ p.ack_prepare[m].max_ballot \in Nat
PROOF
<1>1. BallotsOrZero \subseteq Nat
  BY BallotFacts DEF BallotsOrZero
<1>2. p.curr_ballot \in BallotsOrZero /\ p.max_ballot \in BallotsOrZero
  BY DEF ProposerState
<1>3. \A m \in Nodes : p.ack_prepare[m] \in PrepareAck
  BY DEF ProposerState
<1>4. \A ack \in PrepareAck : ack.max_ballot \in BallotsOrZero
  BY DEF PrepareAck
<1> QED  BY <1>1, <1>2, <1>3, <1>4
=============================================================================
