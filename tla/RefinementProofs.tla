-------------------------- MODULE RefinementProofs --------------------------
(***************************************************************************)
(* One slot of NDNPaxos implements Consensus: for any number of nodes,     *)
(* masters, values and rounds, every step of the protocol is a commit, the *)
(* decision, one node recording the decided value, or invisible.           *)
(***************************************************************************)
EXTENDS InstanceProofs, InstanceRefinement

\* A broadcast leaves every proposer's own value, and adds at most one vote.
LEMMA BroadcastEffect ==
  ASSUME TypeOK, NEW n \in Nodes, NEW p \in ProposerState, NEW received,
         BroadcastPrepare(n, p, received) \/ BroadcastAccept(n, p, received)
  PROVE  /\ votes' \subseteq votes \cup {Vote(n, p.curr_ballot, p.curr_value)}
         /\ votes \subseteq votes'
         /\ chosen_value' = chosen_value
         /\ \A m \in Nodes : proposer'[m].init_value =
              IF m = n THEN p.init_value ELSE proposer[m].init_value
PROOF
<1>1. ASSUME NEW q, proposer' = [proposer EXCEPT ![n] = q],
             q.init_value = p.init_value
      PROVE  \A m \in Nodes : proposer'[m].init_value =
               IF m = n THEN p.init_value ELSE proposer[m].init_value
  BY <1>1 DEF TypeOK
<1>2. ASSUME NEW s \in {"INIT", "PHASEI", "PHASEII"}, NEW q \in ProposerState,
             q.init_value = p.init_value
      PROVE  /\ [q EXCEPT !.status = s] \in ProposerState
             /\ [q EXCEPT !.status = s].init_value = p.init_value
  BY <1>2 DEF ProposerState
<1>3. ASSUME NEW m, NEW ack, NEW q \in ProposerState
      PROVE  /\ StorePromise(q, m, ack).init_value = q.init_value
             /\ StoreAccepted(q, m, ack).init_value = q.init_value
  BY <1>3 DEF StorePromise, StoreAccepted, ProposerState
<1>4. CASE BroadcastPrepare(n, p, received)
  <2> DEFINE q == [p EXCEPT !.status = "INIT"]
             r == [q EXCEPT !.status = "PHASEI"]
             t == StorePromise(r, n, AckPrepare(acceptor[n], p.curr_ballot))
  <2> HIDE DEF q, r, t
  <2>1. q \in ProposerState /\ q.init_value = p.init_value
    BY <1>2 DEF q
  <2>2. r \in ProposerState /\ r.init_value = p.init_value
    BY <1>2, <2>1 DEF r
  <2>3. t.init_value = p.init_value
    BY <1>3, <2>2 DEF t
  <2>4. \/ proposer' = [proposer EXCEPT ![n] = q]
        \/ proposer' = [proposer EXCEPT ![n] = t]
    BY <1>4 DEF BroadcastPrepare, q, r, t
  <2> QED  BY <1>1, <1>4, <2>1, <2>3, <2>4 DEF BroadcastPrepare
<1>5. CASE BroadcastAccept(n, p, received)
  <2> DEFINE q == [p EXCEPT !.status = "PHASEII"]
             t == StoreAccepted(q, n, AckAccept(acceptor[n], p.curr_ballot))
  <2> HIDE DEF q, t
  <2>1. q \in ProposerState /\ q.init_value = p.init_value
    BY <1>2 DEF q
  <2>2. t.init_value = p.init_value
    BY <1>3, <2>1 DEF t
  <2>3. \/ proposer' = [proposer EXCEPT ![n] = q]
        \/ proposer' = [proposer EXCEPT ![n] = t]
    BY <1>5 DEF BroadcastAccept, q, t
  <2>4. \A m \in Nodes : proposer'[m].init_value =
              IF m = n THEN p.init_value ELSE proposer[m].init_value
    BY <1>1, <2>1, <2>2, <2>3
  <2> QED  BY <1>5, <2>4 DEF BroadcastAccept
<1> QED  BY <1>4, <1>5

\* No message changes the value a proposer was created for.
LEMMA RecvKeepsValues ==
  ASSUME TypeInv, NEW msg \in net, Recv(msg)
  PROVE  /\ votes \subseteq votes'
         /\ \A m \in Nodes : proposer'[m].init_value = proposer[m].init_value
PROOF
<1> DEFINE n == msg.to
<1> TypeOK
  BY DEF TypeInv
<1>1. n \in Nodes
  BY MessageFields DEF TypeOK
<1>2. ASSUME NEW p \in ProposerState, p.init_value = proposer[n].init_value,
             BroadcastPrepare(n, p, {msg}) \/ BroadcastAccept(n, p, {msg})
      PROVE  /\ votes \subseteq votes'
             /\ \A m \in Nodes : proposer'[m].init_value = proposer[m].init_value
  BY <1>1, <1>2, BroadcastEffect
<1>3. ASSUME NEW p, p.init_value = proposer[n].init_value,
             proposer' = [proposer EXCEPT ![n] = p], votes' = votes
      PROVE  /\ votes \subseteq votes'
             /\ \A m \in Nodes : proposer'[m].init_value = proposer[m].init_value
  BY <1>1, <1>3 DEF TypeOK
<1> DEFINE p == AfterPromise(msg)
           a == AfterAccepted(msg)
<1> HIDE DEF n, p, a
<1>4. ASSUME PromiseStored(msg)
      PROVE  /\ n \in Masters /\ p \in ProposerState
             /\ p.init_value = proposer[n].init_value /\ p.init_value \in Values
             /\ p.curr_ballot \in OwnBallots(n)
  <2> DEFINE o == proposer[n]
  <2> HIDE DEF o
  <2>1. /\ n \in Masters /\ p \in ProposerState /\ p.init_value \in Values
        /\ p.curr_ballot \in OwnBallots(n) /\ o \in ProposerState
        /\ \E maps : p = [o EXCEPT !.status = "PHASEI", !.ack_prepare = maps]
    BY <1>4, AfterPromiseFields DEF n, p, o
  <2>2. p.init_value = o.init_value
    BY <2>1 DEF ProposerState
  <2> QED  BY <2>1, <2>2 DEF o
<1>5. ASSUME AcceptedStored(msg)
      PROVE  /\ n \in Masters /\ a \in ProposerState
             /\ a.init_value = proposer[n].init_value
             /\ a.curr_ballot \in OwnBallots(n)
  <2> DEFINE o == proposer[n]
  <2> HIDE DEF o
  <2>1. /\ n \in Masters /\ a \in ProposerState
        /\ a.curr_ballot \in OwnBallots(n) /\ o \in ProposerState
        /\ \E map : a = [o EXCEPT !.ack_accept = map]
    BY <1>5, AfterAcceptedFields DEF n, a, o
  <2>2. a.init_value = o.init_value
    BY <2>1 DEF ProposerState
  <2> QED  BY <2>1, <2>2 DEF o
<1>6. ASSUME NEW q \in ProposerState, n \in Masters,
             q.init_value = proposer[n].init_value,
             q.curr_ballot \in OwnBallots(n), q.curr_ballot < MaxRound * BallotStep
      PROVE  /\ restart_msg_prepare(q, n) \in ProposerState
             /\ restart_msg_prepare(q, n).init_value = proposer[n].init_value
  <2> DEFINE r == restart_msg_prepare(q, n)
  <2> HIDE DEF r
  <2>1. /\ r = [q EXCEPT !.curr_value = NULL, !.ack_prepare = EmptyPrepareMap,
                         !.ack_accept = EmptyAcceptMap,
                         !.curr_ballot = q.curr_ballot + BallotStep]
        /\ r \in ProposerState
    BY <1>6, RestartFields DEF r
  <2>2. r.init_value = q.init_value
    BY <1>6, <2>1 DEF ProposerState
  <2> QED  BY <1>6, <2>1, <2>2 DEF r
<1>7. ASSUME PromiseStored(msg), NEW q \in ScanPromises(p)
      PROVE  /\ q \in ProposerState /\ q.init_value = p.init_value
             /\ q.curr_ballot = p.curr_ballot
  <2>1. /\ q \in ProposerState
        /\ q = [p EXCEPT !.max_ballot = q.max_ballot, !.max_value = q.max_value]
    BY <1>4, <1>7, ScanFields
  <2> QED  BY <1>4, <1>7, <2>1 DEF ProposerState
<1>8. CASE RecvPromise(msg)
  <2>1. CASE PromiseIgnored(msg)
    BY <2>1 DEF PromiseIgnored
  <2>2. CASE PromiseDrop(msg)
    <3>1. proposer[n] \in ProposerState
      BY <1>1 DEF TypeOK
    <3>2. [proposer[n] EXCEPT !.status = "PHASEI"].init_value = proposer[n].init_value
      BY <3>1, StatusFields
    <3> QED  BY <1>3, <2>2, <3>2 DEF PromiseDrop, n
  <2>3. CASE PromiseNotEnough(msg)
    BY <1>3, <1>4, <2>3 DEF PromiseNotEnough, n, p
  <2>4. CASE PromiseContinue(msg)
    <3>1. PromiseStored(msg)
      BY <2>4 DEF PromiseContinue
    <3>2. PICK q \in ScanPromises(p) : BroadcastAccept(n, AdoptValue(q), {msg})
      BY <2>4 DEF PromiseContinue, p, n
    <3> DEFINE r == AdoptValue(q)
    <3> HIDE DEF r
    <3>3. r \in ProposerState /\ r = [q EXCEPT !.curr_value = r.curr_value]
      BY <1>4, <1>7, <3>1, AdoptFields DEF r
    <3>4. r.init_value = proposer[n].init_value
      BY <1>4, <1>7, <3>1, <3>3 DEF ProposerState
    <3> QED  BY <1>2, <3>2, <3>3, <3>4 DEF r
  <2>5. CASE PromiseRestart(msg)
    <3>1. PromiseStored(msg) /\ p.curr_ballot < MaxRound * BallotStep
      BY <2>5 DEF PromiseRestart, p
    <3>2. PICK q \in ScanPromises(p) :
            BroadcastPrepare(n, restart_msg_prepare(q, n), {msg})
      BY <2>5 DEF PromiseRestart, p, n
    <3> QED  BY <1>2, <1>4, <1>6, <1>7, <3>1, <3>2
  <2> QED  BY <1>8, <2>1, <2>2, <2>3, <2>4, <2>5 DEF RecvPromise
<1>9. CASE RecvAccepted(msg)
  <2>1. CASE AcceptedIgnored(msg)
    BY <2>1 DEF AcceptedIgnored
  <2>2. CASE AcceptedNotEnough(msg)
    BY <1>3, <1>5, <2>2 DEF AcceptedNotEnough, n, a
  <2>3. CASE AcceptedChoose(msg)
    <3>1. AcceptedStored(msg) /\ votes' = votes
          /\ proposer' = [proposer EXCEPT ![n] = [a EXCEPT !.status = "CHOSEN"]]
      BY <2>3 DEF AcceptedChoose, n, a
    <3>2. [a EXCEPT !.status = "CHOSEN"].init_value = proposer[n].init_value
      BY <1>5, <3>1, StatusFields
    <3> QED  BY <1>3, <3>1, <3>2
  <2>4. CASE AcceptedRestart(msg)
    <3>1. /\ AcceptedStored(msg) /\ a.curr_ballot < MaxRound * BallotStep
          /\ BroadcastPrepare(n, restart_msg_prepare(a, n), {msg})
      BY <2>4 DEF AcceptedRestart, n, a
    <3> QED  BY <1>2, <1>5, <1>6, <3>1
  <2> QED  BY <1>9, <2>1, <2>2, <2>3, <2>4 DEF RecvAccepted
<1>10. CASE RecvPrepare(msg) \/ RecvDecide(msg) \/ RecvLearn(msg) \/ RecvTeach(msg)
  BY <1>10 DEF RecvPrepare, RecvDecide, RecvLearn, RecvTeach
<1>11. CASE RecvAccept(msg)
  BY <1>11 DEF RecvAccept
<1> QED  BY <1>8, <1>9, <1>10, <1>11 DEF Recv

\* A message makes at most one node record a value, in a step without a vote.
LEMMA RecvRecords ==
  ASSUME TypeInv, NEW msg \in net, Recv(msg), chosen_value' # chosen_value
  PROVE  /\ votes' = votes
         /\ \E n \in Nodes : \E v :
              chosen_value[n] = NULL /\ chosen_value' = [chosen_value EXCEPT ![n] = v]
PROOF
<1> TypeOK
  BY DEF TypeInv
<1>1. msg.to \in Nodes
  BY MessageFields DEF TypeOK
<1>2. ASSUME NEW v, add_chosen_value(msg.to, v)
      PROVE  \E n \in Nodes :
               chosen_value[n] = NULL /\ chosen_value' = [chosen_value EXCEPT ![n] = v]
  <2>1. chosen_value[msg.to] # NULL => chosen_value' = chosen_value
    BY <1>1, <1>2 DEF add_chosen_value, TypeOK
  <2> QED  BY <1>1, <1>2, <2>1 DEF add_chosen_value
<1>3. CASE RecvPromise(msg)
  BY <1>3 DEF RecvPromise, PromiseIgnored, PromiseDrop, PromiseNotEnough,
     PromiseContinue, PromiseRestart, BroadcastPrepare, BroadcastAccept
<1>4. CASE RecvAccepted(msg)
  BY <1>2, <1>4 DEF RecvAccepted, AcceptedIgnored, AcceptedNotEnough,
     AcceptedChoose, AcceptedRestart, BroadcastPrepare
<1>5. CASE RecvDecide(msg)
  BY <1>2, <1>5 DEF RecvDecide
<1>6. CASE RecvTeach(msg)
  BY <1>2, <1>6 DEF RecvTeach
<1>7. CASE RecvPrepare(msg) \/ RecvAccept(msg) \/ RecvLearn(msg)
  BY <1>7 DEF RecvPrepare, RecvAccept, RecvLearn
<1> QED  BY <1>3, <1>4, <1>5, <1>6, <1>7 DEF Recv

(***************************************************************************)
(* The mapped state.                                                       *)
(***************************************************************************)

\* Decided is the chosen value, if there is one, and that value was committed.
DecidedIsChosen ==
  /\ \A v \in Values : IsChosen(v) => Decided = v
  /\ Decided # NULL => /\ Decided \in Committed
                       /\ Decided \in Values
                       /\ IsChosen(Decided)

LEMMA DecidedFacts == IInv => DecidedIsChosen
PROOF
<1> SUFFICES ASSUME IInv PROVE DecidedIsChosen
  OBVIOUS
<1>1. ASSUME NEW v \in Values, IsChosen(v) PROVE Decided = v
  BY <1>1, ChosenUnique DEF Decided
<1>2. ASSUME Decided # NULL PROVE Decided \in Values /\ IsChosen(Decided)
  BY <1>2 DEF Decided
<1>3. ASSUME NEW v \in Values, IsChosen(v) PROVE v \in Committed
  <2>1. PICK b \in Ballots : ChosenAt(b, v)
    BY <1>3 DEF IsChosen
  <2>2. PICK Q \in Quorums : \A a \in Q : Voted(a, b, v)
    BY <2>1 DEF ChosenAt
  <2>3. PICK a \in Nodes : a \in Q
    BY QuorumsIntersect
  <2>4. Proposal(b, v) \in proposals
    BY <2>2, <2>3 DEF IInv, VoteInv, Voted, Vote
  <2> QED  BY <2>4 DEF IInv, ProposalsCommitted, Proposal, Committed
<1> QED  BY <1>1, <1>2, <1>3 DEF DecidedIsChosen

\* A choice is never undone.
LEMMA ChosenKept ==
  ASSUME votes \subseteq votes', NEW v, IsChosen(v)
  PROVE  IsChosen(v)'
PROOF
  BY DEF IsChosen, ChosenAt, Voted

\* What a step that adds no commit does to the decided value.
LEMMA DecidedStep ==
  ASSUME IInv, IInv', votes \subseteq votes', Committed' = Committed
  PROVE  \/ Decided' = Decided
         \/ /\ Decided = NULL
            /\ Decided' \in Values
            /\ Decided' \in Committed
PROOF
<1> DecidedIsChosen /\ DecidedIsChosen'
  BY DecidedFacts, PTL
<1>1. CASE Decided # NULL
  <2>1. Decided \in Values /\ IsChosen(Decided)
    BY <1>1 DEF DecidedIsChosen
  <2>2. PICK v \in Values : v = Decided
    BY <2>1
  <2>3. IsChosen(v)'
    BY <2>1, <2>2, ChosenKept
  <2>4. \A w \in Values : IsChosen(w)' => Decided' = w
    BY DEF DecidedIsChosen
  <2> QED  BY <2>2, <2>3, <2>4
<1>2. CASE Decided = NULL /\ Decided' # NULL
  <2>1. Decided' \in Committed' /\ Decided' \in Values
    BY <1>2 DEF DecidedIsChosen
  <2> QED  BY <1>2, <2>1
<1> QED  BY <1>1, <1>2

\* Every quorum has a node besides a given one.
LEMMA QuorumsHaveTwo ==
  ASSUME NEW Q \in Quorums, NEW n \in Nodes
  PROVE  \E a \in Nodes : a \in Q /\ a # n
PROOF
<1>1. qr \in Nat /\ qr >= 2
  BY QuorumSize
<1>2. Q \subseteq Nodes /\ Cardinality(Q) >= qr
  BY DEF Quorums
<1> SUFFICES ASSUME Q \subseteq {n} PROVE FALSE
  BY <1>2
<1>3. IsFiniteSet({n}) /\ Cardinality({n}) = 1
  BY FS_Singleton
<1>4. Cardinality(Q) <= 1 /\ Cardinality(Q) \in Nat
  BY <1>3, FS_Subset, FS_CardinalityType
<1> QED  BY <1>1, <1>2, <1>4

\* A commit decides nothing: whatever its own acceptor accepts at once is the
\* first vote of a new ballot.
LEMMA CommitDecidesNothing ==
  ASSUME IInv, IInv', NEW n \in Nodes, NEW v \in Values, Commit(n, v)
  PROVE  /\ Decided' = Decided
         /\ chosen_value' = chosen_value
         /\ v \notin Committed
         /\ Committed' = Committed \cup {v}
PROOF
<1> DEFINE p == gen_next_ballot(NewProposer(v), n)
           q == init_curr_value(p)
<1> HIDE DEF p, q
<1> TypeOK
  BY DEF IInv, TypeInv
<1>1. n \in Masters /\ proposer[n].status = "EMPTY"
  BY DEF Commit, Masters
<1>2. proposer[n].init_value = NULL /\ \A x \in proposals : x.ballot \notin OwnBallots(n)
  BY <1>1 DEF IInv, TypeInv, ProposerShape, NoProposer, ProposerInv, ProposerOK
<1>3. /\ p \in ProposerState
      /\ p = [NoProposer EXCEPT !.init_value = v, !.curr_ballot = BallotStep + n]
      /\ p.curr_ballot \in OwnBallots(n)
  BY <1>1, NewProposerFields DEF p
<1>4. p.init_value = v
  BY <1>3 DEF NoProposer
<1>5. /\ q \in ProposerState /\ q.curr_ballot = p.curr_ballot
      /\ q.init_value = v
  BY <1>3, <1>4 DEF q, init_curr_value, ProposerState
<1>6. \E r \in {p, q} : BroadcastPrepare(n, r, {}) \/ BroadcastAccept(n, r, {})
  BY DEF Commit, p, q
<1>7. PICK b \in OwnBallots(n) :
        /\ \E w : votes' \subseteq votes \cup {Vote(n, b, w)}
        /\ votes \subseteq votes'
        /\ chosen_value' = chosen_value
        /\ \A m \in Nodes : proposer'[m].init_value =
             IF m = n THEN v ELSE proposer[m].init_value
  <2>1. PICK r \in {p, q} : BroadcastPrepare(n, r, {}) \/ BroadcastAccept(n, r, {})
    BY <1>6
  <2>2. /\ r \in ProposerState /\ r.init_value = v
        /\ r.curr_ballot \in OwnBallots(n)
    BY <1>3, <1>4, <1>5
  <2>3. /\ votes' \subseteq votes \cup {Vote(n, r.curr_ballot, r.curr_value)}
        /\ votes \subseteq votes'
        /\ chosen_value' = chosen_value
        /\ \A m \in Nodes : proposer'[m].init_value =
             IF m = n THEN r.init_value ELSE proposer[m].init_value
    BY <2>1, <2>2, BroadcastEffect
  <2> QED  BY <2>2, <2>3
<1>8. v \notin Committed
  BY DEF Commit, Committed
<1>9. Committed' = Committed \cup {v}
  <2>1. \A u \in Values : (\E m \in Nodes : proposer'[m].init_value = u)
                          <=> u = v \/ \E m \in Nodes : proposer[m].init_value = u
    BY <1>2, <1>7, ViewAssumption
  <2> QED  BY <2>1 DEF Committed
<1>10. ASSUME NEW u \in Values PROVE IsChosen(u)' <=> IsChosen(u)
  <2>1. ASSUME IsChosen(u)' PROVE IsChosen(u)
    <3>1. PICK c \in Ballots, Q \in Quorums : \A a \in Q : Vote(a, c, u) \in votes'
      BY <2>1 DEF IsChosen, ChosenAt, Voted
    <3>2. PICK a \in Nodes : a \in Q /\ a # n
      BY QuorumsHaveTwo
    <3>3. Vote(a, c, u) \in votes
      BY <1>7, <3>1, <3>2 DEF Vote
    <3>4. c \notin OwnBallots(n)
      BY <1>2, <3>3 DEF IInv, VoteInv, Proposal, Vote
    <3>5. \A m \in Q : Vote(m, c, u) \in votes
      BY <1>7, <3>1, <3>4 DEF Vote
    <3> QED  BY <3>1, <3>5 DEF IsChosen, ChosenAt, Voted
  <2> QED  BY <1>7, <2>1, ChosenKept
<1>11. Decided' = Decided
  <2>0. DecidedIsChosen'
    BY DecidedFacts, PTL
  <2>1. /\ \A u \in Values : IsChosen(u)' => Decided' = u
        /\ Decided' # NULL => Decided' \in Values /\ IsChosen(Decided)'
    BY <2>0 DEF DecidedIsChosen
  <2>2. /\ \A u \in Values : IsChosen(u) => Decided = u
        /\ Decided # NULL => Decided \in Values /\ IsChosen(Decided)
    BY DecidedFacts DEF DecidedIsChosen
  <2>3. CASE Decided' = NULL
    BY <1>10, <2>1, <2>2, <2>3
  <2>4. CASE Decided' # NULL
    <3>1. PICK u \in Values : u = Decided'
      BY <2>1, <2>4
    <3>2. IsChosen(u)'
      BY <2>1, <2>4, <3>1
    <3> QED  BY <1>10, <2>2, <3>1, <3>2
  <2> QED  BY <2>3, <2>4
<1> QED  BY <1>7, <1>8, <1>9, <1>11

(***************************************************************************)
(* The simulation.                                                         *)
(***************************************************************************)

LEMMA InitSimulates ==
  ASSUME Init
  PROVE  C!CInit
PROOF
<1>1. Committed = {}
  BY ViewAssumption DEF Init, Committed, NoProposer
<1>2. Decided = NULL
  <2>1. IInv /\ votes = {}
    BY InvInit DEF Init
  <2>2. ASSUME NEW v, IsChosen(v) PROVE FALSE
    <3>1. PICK Q \in Quorums : \A a \in Q : FALSE
      BY <2>1, <2>2 DEF IsChosen, ChosenAt, Voted
    <3> QED  BY <3>1, QuorumsIntersect
  <2> QED  BY <2>2 DEF Decided
<1>3. chosen_value = [n \in Nodes |-> NULL]
  BY DEF Init
<1> QED  BY <1>1, <1>2, <1>3 DEF C!CInit

LEMMA RecvSimulates ==
  ASSUME IInv, IInv', NEW msg \in net, Recv(msg)
  PROVE  [C!CNext]_C!cvars
PROOF
<1> TypeInv
  BY DEF IInv
<1>1. /\ votes \subseteq votes'
      /\ \A m \in Nodes : proposer'[m].init_value = proposer[m].init_value
  BY RecvKeepsValues
<1>2. Committed' = Committed
  BY <1>1 DEF Committed
<1>3. CASE chosen_value' = chosen_value
  <2>1. CASE Decided' = Decided
    BY <1>2, <1>3, <2>1 DEF C!cvars
  <2>2. CASE Decided = NULL /\ Decided' \in Values /\ Decided' \in Committed
    <3>1. \E v \in Values : C!Decide(v)
      BY <1>2, <1>3, <2>2 DEF C!Decide
    <3> QED  BY <3>1 DEF C!CNext
  <2> QED  BY <1>1, <1>2, <2>1, <2>2, DecidedStep
<1>4. CASE chosen_value' # chosen_value
  <2>1. votes' = votes
    BY <1>4, RecvRecords
  <2>10. PICK n \in Nodes : \E u :
          chosen_value[n] = NULL /\ chosen_value' = [chosen_value EXCEPT ![n] = u]
    BY <1>4, RecvRecords
  <2>2. PICK v :
          chosen_value[n] = NULL /\ chosen_value' = [chosen_value EXCEPT ![n] = v]
    BY <2>10
  <2>3. Decided' = Decided
    BY <2>1 DEF Decided, IsChosen, ChosenAt, Voted
  <2>4. chosen_value \in [Nodes -> ValuesOrNull] /\ chosen_value' \in [Nodes -> ValuesOrNull]
    BY DEF IInv, TypeInv, TypeOK
  <2>5. v \in Values /\ v # NULL
    BY <1>4, <2>2, <2>4, ViewAssumption DEF ValuesOrNull
  <2>6. IsChosen(v)'
    BY <2>2, <2>4, <2>5 DEF IInv, LearnedIsChosen
  <2>7. IsChosen(v)
    BY <2>1, <2>6 DEF IsChosen, ChosenAt, Voted
  <2>8. Decided = v
    BY <2>5, <2>7, DecidedFacts DEF DecidedIsChosen
  <2>9. C!Learn(n)
    BY <1>2, <2>2, <2>3, <2>5, <2>8 DEF C!Learn
  <2> QED  BY <2>9 DEF C!CNext
<1> QED  BY <1>3, <1>4

LEMMA StepSimulates ==
  ASSUME IInv, IInv', [Next]_vars
  PROVE  [C!CNext]_C!cvars
PROOF
<1>1. ASSUME NEW n \in Nodes, NEW v \in Values, Commit(n, v)
      PROVE  [C!CNext]_C!cvars
  <2>1. C!CommitValue(v)
    BY <1>1, CommitDecidesNothing DEF C!CommitValue
  <2> QED  BY <2>1 DEF C!CNext
<1>2. ASSUME NEW msg \in net, Recv(msg) PROVE [C!CNext]_C!cvars
  BY <1>2, RecvSimulates
<1>3. CASE (\E n \in Nodes : Crash(n)) \/ UNCHANGED vars
  BY <1>3 DEF Crash, vars, C!cvars, Committed, Decided, IsChosen, ChosenAt, Voted
<1> QED  BY <1>1, <1>2, <1>3 DEF Next

\* A slot decides at most one of the values committed for it, once, and every
\* node that records a value records that one and keeps it.
THEOREM InstanceImplementsConsensus == Spec => ImplementsConsensus
PROOF
<1>1. Init => C!CInit
  BY InitSimulates
<1>2. IInv /\ IInv' /\ [Next]_vars => [C!CNext]_C!cvars
  BY StepSimulates
<1> QED  BY <1>1, <1>2, Invariance, PTL DEF Spec, ImplementsConsensus, C!CSpec
=============================================================================
