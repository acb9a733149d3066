----------------------- MODULE InstanceProgressProofs -----------------------
(***************************************************************************)
(* Nobody is left waiting: when all messages of a slot were delivered,     *)
(* every proposer has finished, and every node an Interest can reach knows *)
(* the value - for any number of nodes, masters, values and rounds, with   *)
(* crashed nodes.                                                          *)
(***************************************************************************)
EXTENDS InstanceProofs

(***************************************************************************)
(* What a step may do to the messages others wait for.                     *)
(***************************************************************************)

\* The message x is taken from the net without node n losing an answer it
\* waits for: requests are answered, and answers to n are not of its round.
Handled(x, n) ==
  /\ x.type = "PREPARE" =>
       \E y \in net' : /\ y.type = "PROMISE" /\ y.from = x.to /\ y.to = x.from
                       /\ y.ballot = x.ballot
  /\ x.type = "ACCEPT" =>
       \E y \in net' : /\ y.type = "ACCEPTED" /\ y.from = x.to /\ y.to = x.from
                       /\ y.ballot = x.ballot
  /\ x.type = "PROMISE" /\ x.to = n =>
       \/ proposer[n].status \notin {"INIT", "PHASEI"}
       \/ x.ballot # proposer[n].curr_ballot
  /\ x.type = "ACCEPTED" /\ x.to = n =>
       proposer[n].status # "PHASEII" \/ x.ballot # proposer[n].curr_ballot

\* A proposer whose answers stay as they are still waits for messages that are
\* on their way.
LEMMA AwaitsKept ==
  ASSUME NEW n \in Nodes, NEW R, net \ R \subseteq net',
         \A x \in R \cap net : Handled(x, n),
         Awaits(n, proposer[n]),
         NEW q, proposer'[n] = q,
         q.status # proposer[n].status =>
           proposer[n].status = "INIT" /\ q.status = "PHASEI",
         q.curr_ballot = proposer[n].curr_ballot,
         q.ack_prepare = proposer[n].ack_prepare,
         q.ack_accept = proposer[n].ack_accept,
         ~ work[n] => ~ work'[n]
  PROVE  Awaits(n, proposer[n])'
PROOF
<1>0. PICK p : p = proposer[n]
  OBVIOUS
<1>1. PrepareAcks(q) = PrepareAcks(p) /\ AcceptAcks(q) = AcceptAcks(p)
  BY <1>0 DEF PrepareAcks, AcceptAcks
<1>2. ASSUME NEW acks, OwnAnswer(n, acks) PROVE OwnAnswer(n, acks)'
  BY <1>2 DEF OwnAnswer, Works
<1>3. ASSUME q.status \in {"INIT", "PHASEI"} PROVE AwaitsPromises(n, q)'
  <2>1. p.status \in {"INIT", "PHASEI"} /\ AwaitsPromises(n, p)
    BY <1>0, <1>3 DEF Awaits
  <2>2. ASSUME NEW m \in Reach(n, "PREPARE") \ PrepareAcks(p)
        PROVE  PendingPromise(n, m, p.curr_ballot)'
    <3>1. PICK x \in net :
            \/ x.type = "PREPARE" /\ x.from = n /\ x.to = m /\ x.ballot = p.curr_ballot
            \/ x.type = "PROMISE" /\ x.from = m /\ x.to = n /\ x.ballot = p.curr_ballot
      BY <2>1, <2>2 DEF AwaitsPromises, PendingPromise
    <3>2. CASE x \in R
      BY <1>0, <2>1, <3>1, <3>2 DEF Handled, PendingPromise
    <3>3. CASE x \notin R
      BY <3>1, <3>3 DEF PendingPromise
    <3> QED  BY <3>2, <3>3
  <2>3. OwnAnswer(n, PrepareAcks(p))'
    BY <1>2, <2>1 DEF AwaitsPromises, OwnAnswer, Works
  <2> QED  BY <1>0, <1>1, <2>1, <2>2, <2>3 DEF AwaitsPromises
<1>4. ASSUME q.status = "PHASEII" PROVE AwaitsAccepted(n, q)'
  <2>1. p.status = "PHASEII" /\ AwaitsAccepted(n, p)
    BY <1>0, <1>4 DEF Awaits
  <2>2. ASSUME NEW m \in Reach(n, "ACCEPT") \ AcceptAcks(p)
        PROVE  PendingAccepted(n, m, p.curr_ballot)'
    <3>1. PICK x \in net :
            \/ x.type = "ACCEPT" /\ x.from = n /\ x.to = m /\ x.ballot = p.curr_ballot
            \/ x.type = "ACCEPTED" /\ x.from = m /\ x.to = n /\ x.ballot = p.curr_ballot
      BY <2>1, <2>2 DEF AwaitsAccepted, PendingAccepted
    <3>2. CASE x \in R
      BY <1>0, <2>1, <3>1, <3>2 DEF Handled, PendingAccepted
    <3>3. CASE x \notin R
      BY <3>1, <3>3 DEF PendingAccepted
    <3> QED  BY <3>2, <3>3
  <2>3. OwnAnswer(n, AcceptAcks(p))'
    BY <1>2, <2>1 DEF AwaitsAccepted, OwnAnswer, Works
  <2> QED  BY <1>0, <1>1, <2>1, <2>2, <2>3 DEF AwaitsAccepted
<1> QED  BY <1>3, <1>4 DEF Awaits

(***************************************************************************)
(* A broadcast starts a round in which everybody addressed has a message.  *)
(***************************************************************************)

\* One answer is less than a quorum.
LEMMA OneIsNoQuorum ==
  /\ qr \in Nat /\ 2 <= qr
  /\ Cardinality({}) < qr
  /\ \A n : Cardinality({n}) < qr
PROOF
<1>1. qr \in Nat /\ 2 <= qr
  BY QuorumSize
<1>2. Cardinality({}) = 0 /\ \A n : Cardinality({n}) = 1
  BY FS_EmptySet, FS_Singleton
<1> QED  BY <1>1, <1>2

LEMMA BroadcastPrepareAwaits ==
  ASSUME TypeOK, NEW n \in Nodes, NEW p \in ProposerState, NEW received,
         p.curr_ballot \in Ballots, p.ack_prepare = EmptyPrepareMap,
         BroadcastPrepare(n, p, received)
  PROVE  Awaits(n, proposer[n])'
PROOF
<1>1. PICK b, ack, q1, q2, r :
        /\ b = p.curr_ballot /\ ack = AckPrepare(acceptor[n], b)
        /\ q1 = [p EXCEPT !.status = "INIT"]
        /\ q2 = [q1 EXCEPT !.status = "PHASEI"]
        /\ r = StorePromise(q2, n, ack)
  OBVIOUS
<1>2. /\ ack \in PrepareAck /\ ack.reply \in {"no", "yes"}
  BY <1>1, AcceptorTypes DEF TypeOK
<1>3. /\ q1 \in ProposerState /\ q1.status = "INIT" /\ q1.curr_ballot = b
      /\ q1.ack_prepare = EmptyPrepareMap
      /\ q2 \in ProposerState /\ q2.status = "PHASEI" /\ q2.curr_ballot = b
      /\ q2.ack_prepare = EmptyPrepareMap
  BY <1>1 DEF ProposerState
<1>4. /\ r \in ProposerState
      /\ r = [q2 EXCEPT !.ack_prepare = [q2.ack_prepare EXCEPT ![n] = ack]]
  <2>1. r = StorePromise(q2, n, ack)
    BY <1>1
  <2> QED  BY <1>2, <1>3, <2>1, StoreFields
<1>5. /\ r.status = "PHASEI" /\ r.curr_ballot = b
      /\ r.ack_prepare = [EmptyPrepareMap EXCEPT ![n] = ack]
  BY <1>3, <1>4 DEF ProposerState
<1>6. PrepareAcks(q1) = {}
  BY <1>3 DEF PrepareAcks, EmptyPrepareMap, NoAck
<1>7. PrepareAcks(r) = {n}
  BY <1>2, <1>5 DEF PrepareAcks, EmptyPrepareMap, NoAck
<1>8. \A m \in Reach(n, "PREPARE") : PendingPromise(n, m, b)'
  <2> TAKE m \in Reach(n, "PREPARE")
  <2>1. Prepare(n, m, b) \in net'
    BY <1>1 DEF BroadcastPrepare
  <2> QED  BY <2>1 DEF PendingPromise, Prepare
<1>9. CASE proposer' = [proposer EXCEPT ![n] = q1] /\ ~ (Works(n) /\ n \in Targets("PREPARE"))
  <2>1. proposer'[n] = q1
    BY <1>9 DEF TypeOK
  <2>2. OwnAnswer(n, {})'
    BY <1>9 DEF OwnAnswer, BroadcastPrepare, Works
  <2>3. AwaitsPromises(n, q1)'
    BY <1>3, <1>6, <1>8, <2>2, OneIsNoQuorum DEF AwaitsPromises, PrepareAcks, OwnAnswer
  <2> QED  BY <1>3, <2>1, <2>3 DEF Awaits
<1>10. CASE proposer' = [proposer EXCEPT ![n] = r]
  <2>1. proposer'[n] = r
    BY <1>10 DEF TypeOK
  <2>2. OwnAnswer(n, {n})'
    BY DEF OwnAnswer
  <2>3. AwaitsPromises(n, r)'
    BY <1>5, <1>7, <1>8, <2>2, OneIsNoQuorum DEF AwaitsPromises, PrepareAcks, OwnAnswer
  <2> QED  BY <1>5, <2>1, <2>3 DEF Awaits
<1> QED  BY <1>1, <1>9, <1>10 DEF BroadcastPrepare

LEMMA BroadcastAcceptAwaits ==
  ASSUME TypeOK, NEW n \in Nodes, NEW p \in ProposerState, NEW received,
         p.curr_ballot \in Ballots, p.ack_accept = EmptyAcceptMap,
         BroadcastAccept(n, p, received)
  PROVE  Awaits(n, proposer[n])'
PROOF
<1>1. PICK b, ack, q, r :
        /\ b = p.curr_ballot /\ ack = AckAccept(acceptor[n], b)
        /\ q = [p EXCEPT !.status = "PHASEII"]
        /\ r = StoreAccepted(q, n, ack)
  OBVIOUS
<1>2. ack \in {"no", "yes"}
  BY <1>1 DEF AckAccept
<1>3. /\ q \in ProposerState /\ q.status = "PHASEII" /\ q.curr_ballot = b
      /\ q.ack_accept = EmptyAcceptMap
  BY <1>1 DEF ProposerState
<1>4. /\ r \in ProposerState
      /\ r = [q EXCEPT !.ack_accept = [q.ack_accept EXCEPT ![n] = ack]]
  <2>1. r = StoreAccepted(q, n, ack)
    BY <1>1
  <2> QED  BY <1>2, <1>3, <2>1, StoreFields DEF Replies
<1>5. /\ r.status = "PHASEII" /\ r.curr_ballot = b
      /\ r.ack_accept = [EmptyAcceptMap EXCEPT ![n] = ack]
  BY <1>3, <1>4 DEF ProposerState
<1>6. AcceptAcks(q) = {}
  BY <1>3 DEF AcceptAcks, EmptyAcceptMap
<1>7. AcceptAcks(r) = {n}
  BY <1>2, <1>5 DEF AcceptAcks, EmptyAcceptMap
<1>8. \A m \in Reach(n, "ACCEPT") : PendingAccepted(n, m, b)'
  <2> TAKE m \in Reach(n, "ACCEPT")
  <2>1. AcceptMsg(n, m, b, p.curr_value) \in net'
    BY <1>1 DEF BroadcastAccept
  <2> QED  BY <2>1 DEF PendingAccepted, AcceptMsg
<1>9. CASE proposer' = [proposer EXCEPT ![n] = q] /\ ~ (Works(n) /\ n \in Targets("ACCEPT"))
  <2>1. proposer'[n] = q
    BY <1>9 DEF TypeOK
  <2>2. OwnAnswer(n, {})'
    BY <1>9 DEF OwnAnswer, BroadcastAccept, Works, Targets
  <2>3. AwaitsAccepted(n, q)'
    BY <1>3, <1>6, <1>8, <2>2, OneIsNoQuorum DEF AwaitsAccepted, AcceptAcks, OwnAnswer
  <2> QED  BY <1>3, <2>1, <2>3 DEF Awaits
<1>10. CASE proposer' = [proposer EXCEPT ![n] = r]
  <2>1. proposer'[n] = r
    BY <1>10 DEF TypeOK
  <2>2. OwnAnswer(n, {n})'
    BY DEF OwnAnswer
  <2>3. AwaitsAccepted(n, r)'
    BY <1>5, <1>7, <1>8, <2>2, OneIsNoQuorum DEF AwaitsAccepted, AcceptAcks, OwnAnswer
  <2> QED  BY <1>5, <2>1, <2>3 DEF Awaits
<1> QED  BY <1>1, <1>9, <1>10 DEF BroadcastAccept

\* In a broadcast of node n every other node keeps waiting as before.
LEMMA OthersAwait ==
  ASSUME TypeOK, WaitInv, NEW n \in Nodes, NEW q, NEW R,
         proposer' = [proposer EXCEPT ![n] = q], work' = work, net \ R \subseteq net',
         \A k \in Nodes \ {n} : \A x \in R \cap net : Handled(x, k),
         Awaits(n, proposer[n])'
  PROVE  WaitInv'
PROOF
<1>1. ASSUME NEW k \in Nodes \ {n} PROVE Awaits(k, proposer[k])'
  <2>1. proposer'[k] = proposer[k] /\ Awaits(k, proposer[k])
    BY <1>1 DEF TypeOK, WaitInv
  <2>2. PICK p : p = proposer[k]
    OBVIOUS
  <2> QED  BY <1>1, <2>1, <2>2, AwaitsKept
<1> QED  BY <1>1 DEF WaitInv

\* A step that leaves the proposers alone.
LEMMA AllAwait ==
  ASSUME WaitInv, NEW R, proposer' = proposer, net \ R \subseteq net',
         \A k \in Nodes : ~ work[k] => ~ work'[k],
         \A k \in Nodes : \A x \in R \cap net : Handled(x, k)
  PROVE  WaitInv'
PROOF
<1>1. ASSUME NEW k \in Nodes PROVE Awaits(k, proposer[k])'
  <2>1. Awaits(k, proposer[k])
    BY DEF WaitInv
  <2>2. PICK p : p = proposer[k]
    OBVIOUS
  <2> QED  BY <2>1, <2>2, AwaitsKept
<1> QED  BY <1>1 DEF WaitInv

(***************************************************************************)
(* The handlers.                                                           *)
(***************************************************************************)

LEMMA WaitCommit ==
  ASSUME TypeInv, WaitInv, NEW n \in Nodes, NEW v \in Values, Commit(n, v)
  PROVE  WaitInv'
PROOF
<1> TypeOK
  BY DEF TypeInv
<1>1. n \in Masters
  BY DEF Commit, Masters
<1>2. PICK p, r : p = gen_next_ballot(NewProposer(v), n) /\ r = init_curr_value(p)
  OBVIOUS
<1>3. /\ p \in ProposerState
      /\ p = [NoProposer EXCEPT !.init_value = v, !.curr_ballot = BallotStep + n]
      /\ p.curr_ballot \in OwnBallots(n)
  BY <1>1, <1>2, NewProposerFields
<1>4. p.ack_prepare = EmptyPrepareMap /\ p.ack_accept = EmptyAcceptMap
  BY <1>3 DEF NoProposer
<1>5. r \in ProposerState /\ r.curr_ballot = p.curr_ballot /\ r.ack_accept = p.ack_accept
  BY <1>2, <1>3 DEF init_curr_value, ProposerState
<1>6. p.curr_ballot \in Ballots
  BY <1>1, <1>3, BallotFacts
<1>9. \A k \in Nodes \ {n} : \A x \in {} \cap net : Handled(x, k)
  OBVIOUS
<1>7. CASE BroadcastPrepare(n, p, {})
  <2>1. Awaits(n, proposer[n])'
    BY <1>3, <1>4, <1>6, <1>7, BroadcastPrepareAwaits
  <2>2. \E q : proposer' = [proposer EXCEPT ![n] = q]
    BY <1>7 DEF BroadcastPrepare
  <2>3. work' = work /\ net \ {} \subseteq net'
    BY <1>7 DEF BroadcastPrepare
  <2> QED  BY <1>9, <2>1, <2>2, <2>3, OthersAwait
<1>8. CASE BroadcastAccept(n, r, {})
  <2>1. Awaits(n, proposer[n])'
    BY <1>4, <1>5, <1>6, <1>8, BroadcastAcceptAwaits
  <2>2. \E q : proposer' = [proposer EXCEPT ![n] = q]
    BY <1>8 DEF BroadcastAccept
  <2>3. work' = work /\ net \ {} \subseteq net'
    BY <1>8 DEF BroadcastAccept
  <2> QED  BY <1>9, <2>1, <2>2, <2>3, OthersAwait
<1> QED  BY <1>2, <1>7, <1>8 DEF Commit

\* An answer to node n concerns nobody else.
LEMMA AnswerConcernsReceiver ==
  ASSUME NEW msg, msg.type \in {"PROMISE", "ACCEPTED"}, NEW k, k # msg.to
  PROVE  Handled(msg, k)
PROOF
  BY DEF Handled

LEMMA WaitRecvPromise ==
  ASSUME IInv, WaitInv, NEW msg \in net, RecvPromise(msg)
  PROVE  WaitInv'
PROOF
<1> TypeOK /\ TypeInv
  BY DEF IInv, TypeInv
<1>1. PICK n : n = msg.to
  OBVIOUS
<1>2. msg.type = "PROMISE" /\ n \in Nodes /\ msg.from \in Nodes /\ Works(n)
  BY <1>1, MessageFields
  DEF RecvPromise, PromiseIgnored, PromiseDrop, PromiseNotEnough, PromiseContinue,
      PromiseRestart, PromiseStored, PromiseReceived, TypeOK
<1>3. \A k \in Nodes \ {n} : \A x \in {msg} \cap net : Handled(x, k)
  BY <1>1, <1>2, AnswerConcernsReceiver
<1>4. CASE PromiseIgnored(msg)
  <2>1. Handled(msg, n)
    BY <1>1, <1>2, <1>4 DEF PromiseIgnored, WaitsForPromise, Handled
  <2>2. \A k \in Nodes : \A x \in {msg} \cap net : Handled(x, k)
    BY <1>3, <2>1
  <2>3. proposer' = proposer /\ work' = work /\ net \ {msg} \subseteq net'
    BY <1>4 DEF PromiseIgnored, Deliver
  <2> QED  BY <2>2, <2>3, AllAwait
<1>5. CASE PromiseDrop(msg)
  <2>1. PICK q : q = [proposer[n] EXCEPT !.status = "PHASEI"]
    OBVIOUS
  <2>2. /\ proposer' = [proposer EXCEPT ![n] = q] /\ work' = work
        /\ net \ {msg} \subseteq net'
    BY <1>1, <1>5, <2>1 DEF PromiseDrop, Deliver
  <2>3. proposer[n] \in ProposerState /\ proposer[n].status \in {"INIT", "PHASEI"}
    BY <1>1, <1>2, <1>5 DEF PromiseDrop, WaitsForPromise, TypeOK
  <2>4. /\ q.status = "PHASEI" /\ q.curr_ballot = proposer[n].curr_ballot
        /\ q.ack_prepare = proposer[n].ack_prepare
        /\ q.ack_accept = proposer[n].ack_accept
    BY <2>1, <2>3, StatusFields
  <2>5. proposer[n].curr_value = NULL
    BY <1>2, <2>3 DEF IInv, ProposerInv, ProposerOK, PhaseOne
  <2>6. msg.ballot # proposer[n].curr_ballot
    <3>1. msg.ballot < proposer[n].curr_ballot
      BY <1>1, <1>5, <2>5 DEF PromiseDrop, PromiseDropped
    <3>2. proposer[n].curr_ballot \in Nat
      BY <2>3, ProposerNats
    <3> QED  BY <3>1, <3>2
  <2>7. \A x \in {msg} \cap net : Handled(x, n)
    BY <1>2, <2>6 DEF Handled
  <2>8. proposer'[n] = q /\ Awaits(n, proposer[n])
    BY <1>2, <2>2 DEF TypeOK, WaitInv
  <2>9. Awaits(n, proposer[n])'
    BY <1>2, <2>2, <2>3, <2>4, <2>7, <2>8, AwaitsKept
  <2> QED  BY <1>2, <1>3, <2>2, <2>9, OthersAwait
<1>6. CASE PromiseStored(msg)
  <2>1. PICK p, o, ack :
          /\ p = AfterPromise(msg) /\ o = proposer[n]
          /\ ack = [ reply |-> msg.reply, max_ballot |-> msg.max_ballot,
                     max_value |-> msg.max_value ]
    OBVIOUS
  <2>2. /\ n \in Masters /\ p \in ProposerState /\ o \in ProposerState
        /\ o.status \in {"INIT", "PHASEI"}
        /\ p = [o EXCEPT !.status = "PHASEI",
                         !.ack_prepare = [o.ack_prepare EXCEPT ![msg.from] = ack]]
        /\ p.curr_ballot \in OwnBallots(n) /\ p.init_value \in Values
    BY <1>1, <1>6, <2>1, AfterPromiseFields
  <2>3. p.curr_ballot \in Ballots
    BY <2>2, BallotFacts
  <2>4. CASE PromiseNotEnough(msg)
    <3>1. /\ Cardinality(PrepareAcks(p)) < qr
          /\ proposer' = [proposer EXCEPT ![n] = p] /\ work' = work
          /\ net \ {msg} \subseteq net'
      BY <1>1, <2>1, <2>4 DEF PromiseNotEnough, Deliver
    <3>2. p.status = "PHASEI" /\ p.curr_ballot = o.curr_ballot
      BY <2>2 DEF ProposerState
    <3>3. PrepareAcks(p) = PrepareAcks(o) \cup {msg.from}
      <4>1. ack.reply # "none"
        BY <1>2, <2>1, MessageFields DEF TypeOK
      <4> QED  BY <1>2, <2>2, <4>1 DEF PrepareAcks, ProposerState
    <3>4. AwaitsPromises(n, o)
      BY <1>2, <2>1, <2>2 DEF WaitInv, Awaits
    <3>5. OwnAnswer(n, PrepareAcks(p))'
      BY <1>2, <3>1, <3>3, <3>4 DEF AwaitsPromises, OwnAnswer, Works, PrepareAcks
    <3>6. ASSUME NEW m \in Reach(n, "PREPARE") \ PrepareAcks(p)
          PROVE  PendingPromise(n, m, p.curr_ballot)'
      <4>1. PendingPromise(n, m, o.curr_ballot) /\ m # msg.from
        BY <3>3, <3>4, <3>6 DEF AwaitsPromises
      <4> QED  BY <1>2, <3>1, <3>2, <4>1 DEF PendingPromise
    <3>7. AwaitsPromises(n, p)'
      BY <3>1, <3>5, <3>6 DEF AwaitsPromises, PrepareAcks
    <3>8. proposer'[n] = p
      BY <1>2, <3>1 DEF TypeOK
    <3>9. Awaits(n, proposer[n])'
      BY <3>2, <3>7, <3>8 DEF Awaits
    <3> QED  BY <1>2, <1>3, <3>1, <3>9, OthersAwait
  <2>5. CASE PromiseContinue(msg)
    <3>1. PICK q \in ScanPromises(p) : BroadcastAccept(n, AdoptValue(q), {msg})
      BY <1>1, <2>1, <2>5 DEF PromiseContinue
    <3>2. PICK r : r = AdoptValue(q)
      OBVIOUS
    <3>3. /\ q \in ProposerState
          /\ q = [p EXCEPT !.max_ballot = q.max_ballot, !.max_value = q.max_value]
      BY <2>2, ScanFields
    <3>4. /\ q.init_value = p.init_value /\ q.curr_ballot = p.curr_ballot
          /\ q.ack_accept = p.ack_accept
      BY <2>2, <3>3 DEF ProposerState
    <3>5. r \in ProposerState /\ r = [q EXCEPT !.curr_value = r.curr_value]
      BY <2>2, <3>2, <3>3, <3>4, AdoptFields
    <3>6. p.ack_accept = EmptyAcceptMap
      <4>1. o.ack_accept = EmptyAcceptMap
        BY <1>2, <2>1, <2>2 DEF IInv, ProposerInv, ProposerOK, PhaseOne
      <4> QED  BY <2>2, <4>1 DEF ProposerState
    <3>7. r.ack_accept = EmptyAcceptMap /\ r.curr_ballot = p.curr_ballot
      BY <3>3, <3>4, <3>5, <3>6 DEF ProposerState
    <3>8. BroadcastAccept(n, r, {msg})
      BY <3>1, <3>2
    <3>9. Awaits(n, proposer[n])'
      BY <1>2, <2>3, <3>5, <3>7, <3>8, BroadcastAcceptAwaits
    <3>10. /\ \E y : proposer' = [proposer EXCEPT ![n] = y]
           /\ work' = work /\ net \ {msg} \subseteq net'
      BY <3>8 DEF BroadcastAccept
    <3> QED  BY <1>2, <1>3, <3>9, <3>10, OthersAwait
  <2>6. CASE PromiseRestart(msg)
    <3>1. PICK q \in ScanPromises(p) :
             BroadcastPrepare(n, restart_msg_prepare(q, n), {msg})
      BY <1>1, <2>1, <2>6 DEF PromiseRestart
    <3>2. PICK r : r = restart_msg_prepare(q, n)
      OBVIOUS
    <3>3. /\ q \in ProposerState
          /\ q = [p EXCEPT !.max_ballot = q.max_ballot, !.max_value = q.max_value]
      BY <2>2, ScanFields
    <3>4. q.curr_ballot = p.curr_ballot /\ q.curr_ballot < MaxRound * BallotStep
      BY <2>1, <2>2, <2>6, <3>3 DEF PromiseRestart, ProposerState
    <3>5. /\ r \in ProposerState /\ r.curr_ballot \in OwnBallots(n)
          /\ r = [q EXCEPT !.curr_value = NULL, !.ack_prepare = EmptyPrepareMap,
                           !.ack_accept = EmptyAcceptMap,
                           !.curr_ballot = q.curr_ballot + BallotStep]
      BY <2>2, <3>2, <3>3, <3>4, RestartFields
    <3>6. r.ack_prepare = EmptyPrepareMap /\ r.curr_ballot \in Ballots
      BY <2>2, <3>3, <3>5, BallotFacts DEF ProposerState
    <3>7. BroadcastPrepare(n, r, {msg})
      BY <3>1, <3>2
    <3>8. Awaits(n, proposer[n])'
      BY <1>2, <3>5, <3>6, <3>7, BroadcastPrepareAwaits
    <3>9. /\ \E y : proposer' = [proposer EXCEPT ![n] = y]
          /\ work' = work /\ net \ {msg} \subseteq net'
      BY <3>7 DEF BroadcastPrepare
    <3> QED  BY <1>2, <1>3, <3>8, <3>9, OthersAwait
  <2>7. PromiseNotEnough(msg) \/ PromiseContinue(msg) \/ PromiseRestart(msg)
    BY <1>6 DEF RecvPromise, PromiseIgnored, PromiseDrop, PromiseStored
  <2> QED  BY <2>4, <2>5, <2>6, <2>7
<1> QED
  BY <1>4, <1>5, <1>6
  DEF RecvPromise, PromiseNotEnough, PromiseContinue, PromiseRestart

LEMMA WaitRecvAccepted ==
  ASSUME IInv, WaitInv, NEW msg \in net, RecvAccepted(msg)
  PROVE  WaitInv'
PROOF
<1> TypeOK /\ TypeInv
  BY DEF IInv, TypeInv
<1>1. PICK n : n = msg.to
  OBVIOUS
<1>2. msg.type = "ACCEPTED" /\ n \in Nodes /\ msg.from \in Nodes /\ Works(n)
  BY <1>1, MessageFields
  DEF RecvAccepted, AcceptedIgnored, AcceptedNotEnough, AcceptedChoose,
      AcceptedRestart, AcceptedStored, AcceptedReceived, TypeOK
<1>3. \A k \in Nodes \ {n} : \A x \in {msg} \cap net : Handled(x, k)
  BY <1>1, <1>2, AnswerConcernsReceiver
<1>4. CASE AcceptedIgnored(msg)
  <2>1. \/ proposer[n].status # "PHASEII"
        \/ msg.ballot # proposer[n].curr_ballot
    <3>1. CASE proposer[n].status = "PHASEII"
      <4>1. proposer[n].curr_value \in Values /\ proposer[n].curr_ballot \in Nat
        BY <1>2, <3>1, ProposerNats DEF TypeInv, ProposerShape, TypeOK
      <4>2. msg.ballot < proposer[n].curr_ballot
        BY <1>1, <1>4, <3>1, <4>1, ViewAssumption DEF AcceptedIgnored, AcceptedDropped
      <4> QED  BY <4>1, <4>2
    <3> QED  BY <3>1
  <2>2. Handled(msg, n)
    BY <1>2, <2>1 DEF Handled
  <2>3. \A k \in Nodes : \A x \in {msg} \cap net : Handled(x, k)
    BY <1>3, <2>2
  <2>4. proposer' = proposer /\ work' = work /\ net \ {msg} \subseteq net'
    BY <1>4 DEF AcceptedIgnored, Deliver
  <2> QED  BY <2>3, <2>4, AllAwait
<1>5. CASE AcceptedStored(msg)
  <2>1. PICK p, o : p = AfterAccepted(msg) /\ o = proposer[n]
    OBVIOUS
  <2>2. /\ n \in Masters /\ p \in ProposerState /\ o \in ProposerState
        /\ o.status = "PHASEII" /\ msg.reply \in {"no", "yes"}
        /\ p = [o EXCEPT !.ack_accept = [o.ack_accept EXCEPT ![msg.from] = msg.reply]]
        /\ p.curr_ballot \in OwnBallots(n)
    BY <1>1, <1>5, <2>1, AfterAcceptedFields, MessageFields
  <2>3. CASE AcceptedNotEnough(msg)
    <3>1. /\ Cardinality(AcceptAcks(p)) < qr
          /\ proposer' = [proposer EXCEPT ![n] = p] /\ work' = work
          /\ net \ {msg} \subseteq net'
      BY <1>1, <2>1, <2>3 DEF AcceptedNotEnough, Deliver
    <3>2. p.status = "PHASEII" /\ p.curr_ballot = o.curr_ballot
      BY <2>2 DEF ProposerState
    <3>3. AcceptAcks(p) = AcceptAcks(o) \cup {msg.from}
      BY <1>2, <2>2 DEF AcceptAcks, ProposerState
    <3>4. AwaitsAccepted(n, o)
      BY <1>2, <2>1, <2>2 DEF WaitInv, Awaits
    <3>5. OwnAnswer(n, AcceptAcks(p))'
      BY <1>2, <3>1, <3>3, <3>4 DEF AwaitsAccepted, OwnAnswer, Works, AcceptAcks
    <3>6. ASSUME NEW m \in Reach(n, "ACCEPT") \ AcceptAcks(p)
          PROVE  PendingAccepted(n, m, p.curr_ballot)'
      <4>1. PendingAccepted(n, m, o.curr_ballot) /\ m # msg.from
        BY <3>3, <3>4, <3>6 DEF AwaitsAccepted
      <4> QED  BY <1>2, <3>1, <3>2, <4>1 DEF PendingAccepted
    <3>7. AwaitsAccepted(n, p)'
      BY <3>1, <3>5, <3>6 DEF AwaitsAccepted, AcceptAcks
    <3>8. proposer'[n] = p
      BY <1>2, <3>1 DEF TypeOK
    <3>9. Awaits(n, proposer[n])'
      BY <3>2, <3>7, <3>8 DEF Awaits
    <3> QED  BY <1>2, <1>3, <3>1, <3>9, OthersAwait
  <2>4. CASE AcceptedChoose(msg)
    <3>1. PICK q : q = [p EXCEPT !.status = "CHOSEN"]
      OBVIOUS
    <3>2. /\ proposer' = [proposer EXCEPT ![n] = q] /\ work' = work
          /\ net \ {msg} \subseteq net'
      BY <1>1, <2>1, <2>4, <3>1 DEF AcceptedChoose, Deliver
    <3>3. proposer'[n].status = "CHOSEN"
      BY <1>2, <2>2, <3>1, <3>2, StatusFields DEF TypeOK
    <3>4. Awaits(n, proposer[n])'
      BY <3>3 DEF Awaits
    <3> QED  BY <1>2, <1>3, <3>2, <3>4, OthersAwait
  <2>5. CASE AcceptedRestart(msg)
    <3>1. PICK r : r = restart_msg_prepare(p, n)
      OBVIOUS
    <3>2. p.curr_ballot < MaxRound * BallotStep /\ BroadcastPrepare(n, r, {msg})
      BY <1>1, <2>1, <2>5, <3>1 DEF AcceptedRestart
    <3>3. /\ r \in ProposerState /\ r.curr_ballot \in OwnBallots(n)
          /\ r = [p EXCEPT !.curr_value = NULL, !.ack_prepare = EmptyPrepareMap,
                           !.ack_accept = EmptyAcceptMap,
                           !.curr_ballot = p.curr_ballot + BallotStep]
      BY <2>2, <3>1, <3>2, RestartFields
    <3>4. r.ack_prepare = EmptyPrepareMap /\ r.curr_ballot \in Ballots
      BY <2>2, <3>3, BallotFacts DEF ProposerState
    <3>5. Awaits(n, proposer[n])'
      BY <1>2, <3>2, <3>3, <3>4, BroadcastPrepareAwaits
    <3>6. /\ \E y : proposer' = [proposer EXCEPT ![n] = y]
          /\ work' = work /\ net \ {msg} \subseteq net'
      BY <3>2 DEF BroadcastPrepare
    <3> QED  BY <1>2, <1>3, <3>5, <3>6, OthersAwait
  <2>6. AcceptedNotEnough(msg) \/ AcceptedChoose(msg) \/ AcceptedRestart(msg)
    BY <1>5 DEF RecvAccepted, AcceptedIgnored, AcceptedStored
  <2> QED  BY <2>3, <2>4, <2>5, <2>6
<1> QED
  BY <1>4, <1>5 DEF RecvAccepted, AcceptedNotEnough, AcceptedChoose, AcceptedRestart

LEMMA WaitOtherMessages ==
  ASSUME TypeOK, WaitInv, NEW msg \in net,
         \/ RecvPrepare(msg) \/ RecvAccept(msg) \/ RecvDecide(msg)
         \/ RecvLearn(msg) \/ RecvTeach(msg)
  PROVE  WaitInv'
PROOF
<1>1. proposer' = proposer /\ work' = work
  BY DEF RecvPrepare, RecvAccept, RecvDecide, RecvLearn, RecvTeach
<1>2. net \ {msg} \subseteq net'
  BY DEF RecvPrepare, RecvAccept, RecvDecide, RecvLearn, RecvTeach, Deliver
<1>3. ASSUME NEW k \in Nodes PROVE Handled(msg, k)
  <2>1. CASE RecvPrepare(msg)
    <3>1. PICK y : y = Promise(msg.to, msg.from, msg.ballot,
                               AckPrepare(acceptor[msg.to], msg.ballot))
      OBVIOUS
    <3>2. y \in net' /\ msg.type = "PREPARE"
      BY <2>1, <3>1 DEF RecvPrepare, Deliver
    <3>3. /\ y.type = "PROMISE" /\ y.from = msg.to /\ y.to = msg.from
          /\ y.ballot = msg.ballot
      BY <3>1 DEF Promise
    <3> QED  BY <3>2, <3>3 DEF Handled
  <2>2. CASE RecvAccept(msg)
    <3>1. PICK y : y = AcceptedMsg(msg.to, msg.from, msg.ballot,
                                   AckAccept(acceptor[msg.to], msg.ballot))
      OBVIOUS
    <3>2. y \in net' /\ msg.type = "ACCEPT"
      BY <2>2, <3>1 DEF RecvAccept, Deliver
    <3>3. /\ y.type = "ACCEPTED" /\ y.from = msg.to /\ y.to = msg.from
          /\ y.ballot = msg.ballot
      BY <3>1 DEF AcceptedMsg
    <3> QED  BY <3>2, <3>3 DEF Handled
  <2>3. CASE msg.type \in {"DECIDE", "LEARN", "TEACH"}
    BY <2>3 DEF Handled
  <2> QED  BY <2>1, <2>2, <2>3 DEF RecvDecide, RecvLearn, RecvTeach
<1>4. \A k \in Nodes : \A x \in {msg} \cap net : Handled(x, k)
  BY <1>3
<1> QED  BY <1>1, <1>2, <1>4, AllAwait

LEMMA WaitNext == IInv /\ WaitInv /\ [Next]_vars => WaitInv'
PROOF
<1> SUFFICES ASSUME IInv, WaitInv, [Next]_vars PROVE WaitInv'
  OBVIOUS
<1> TypeOK /\ TypeInv
  BY DEF IInv, TypeInv
<1>1. ASSUME NEW n \in Nodes, NEW v \in Values, Commit(n, v) PROVE WaitInv'
  BY <1>1, WaitCommit
<1>2. ASSUME NEW msg \in net, Recv(msg) PROVE WaitInv'
  BY <1>2, WaitRecvPromise, WaitRecvAccepted, WaitOtherMessages DEF Recv
<1>3. \A k \in Nodes : \A x \in {} \cap net : Handled(x, k)
  OBVIOUS
<1>4. ASSUME NEW n \in Nodes, Crash(n) PROVE WaitInv'
  <2>1. proposer' = proposer /\ net \ {} \subseteq net'
    BY <1>4 DEF Crash
  <2>2. \A k \in Nodes : ~ work[k] => ~ work'[k]
    BY <1>4 DEF Crash, TypeOK
  <2> QED  BY <1>3, <2>1, <2>2, AllAwait
<1>5. CASE UNCHANGED vars
  <2>1. proposer' = proposer /\ work' = work /\ net \ {} \subseteq net'
    BY <1>5 DEF vars
  <2> QED  BY <1>3, <2>1, AllAwait
<1> QED  BY <1>1, <1>2, <1>4, <1>5 DEF Next

(***************************************************************************)
(* Who is to be told is told.                                              *)
(***************************************************************************)

\* A step that takes a DECIDE, LEARN or TEACH only to replace it or to record.
LEMMA RecordsKept ==
  ASSUME LearnInv,
         \A n \in Nodes : proposer'[n].status = "CHOSEN" => proposer[n].status = "CHOSEN",
         \A x \in net : x.from \in Nodes /\ x.to \in Nodes,
         \A x \in net' : x.from \in Nodes /\ x.to \in Nodes,
         \A m \in Nodes : chosen_value[m] # NULL => chosen_value'[m] # NULL,
         \A x \in net \ net' :
           /\ x.type \in {"DECIDE", "TEACH"} =>
                chosen_value'[x.to] # NULL \/ PendingRecord(x.to)'
           /\ x.type = "LEARN" => chosen_value'[x.from] # NULL \/ PendingRecord(x.from)',
         \A x \in net' \ net :
           /\ x.type = "DECIDE" => chosen_value'[x.from] # NULL
           /\ x.type = "LEARN"  => chosen_value'[x.to] # NULL
  PROVE  LearnInv'
PROOF
<1>1. ASSUME NEW n \in Nodes, proposer'[n].status = "CHOSEN", NEW m \in Listeners
      PROVE  chosen_value'[m] # NULL \/ PendingRecord(m)'
  <2>1. m \in Nodes /\ (chosen_value[m] # NULL \/ PendingRecord(m))
    BY <1>1 DEF LearnInv, Listeners
  <2>2. CASE PendingRecord(m)
    <3>1. PICK x \in net : \/ x.type \in {"DECIDE", "TEACH"} /\ x.to = m
                           \/ x.type = "LEARN" /\ x.from = m
      BY <2>2 DEF PendingRecord
    <3>2. CASE x \in net'
      BY <3>1, <3>2 DEF PendingRecord
    <3>3. CASE x \notin net'
      BY <3>1, <3>3
    <3> QED  BY <3>2, <3>3
  <2> QED  BY <2>1, <2>2
<1>2. ASSUME NEW x \in net'
      PROVE  /\ x.type = "DECIDE" => chosen_value'[x.from] # NULL
             /\ x.type = "LEARN"  => chosen_value'[x.to] # NULL
  BY <1>2 DEF LearnInv
<1> QED  BY <1>1, <1>2 DEF LearnInv

\* A broadcast of PREPARE or ACCEPT messages records and finishes nothing.
LEMMA BroadcastRecords ==
  ASSUME TypeOK, NEW n \in Nodes, NEW p \in ProposerState, NEW received,
         BroadcastPrepare(n, p, received) \/ BroadcastAccept(n, p, received)
  PROVE  /\ \A k \in Nodes :
              proposer'[k].status = "CHOSEN" => proposer[k].status = "CHOSEN"
         /\ chosen_value' = chosen_value
         /\ net \ received \subseteq net'
         /\ \A x \in net' \ net : x.type \in {"PREPARE", "ACCEPT"}
PROOF
<1>1. ASSUME NEW q, NEW ack, proposer' = [proposer EXCEPT ![n] = q],
             \/ q = [p EXCEPT !.status = "INIT"]
             \/ q = StorePromise([[p EXCEPT !.status = "INIT"] EXCEPT !.status = "PHASEI"], n, ack)
             \/ q = [p EXCEPT !.status = "PHASEII"]
             \/ q = StoreAccepted([p EXCEPT !.status = "PHASEII"], n, ack)
      PROVE  \A k \in Nodes :
               proposer'[k].status = "CHOSEN" => proposer[k].status = "CHOSEN"
  <2>1. q.status # "CHOSEN"
    BY <1>1 DEF ProposerState, StorePromise, StoreAccepted
  <2>2. \A k \in Nodes : proposer'[k] = IF k = n THEN q ELSE proposer[k]
    BY <1>1 DEF TypeOK
  <2> QED  BY <2>1, <2>2
<1>2. CASE BroadcastPrepare(n, p, received)
  <2>1. \A k \in Nodes :
          proposer'[k].status = "CHOSEN" => proposer[k].status = "CHOSEN"
    BY <1>1, <1>2 DEF BroadcastPrepare
  <2>2. \A x \in net' \ net : x.type = "PREPARE"
    BY <1>2 DEF BroadcastPrepare, Prepare
  <2> QED  BY <1>2, <2>1, <2>2 DEF BroadcastPrepare
<1>3. CASE BroadcastAccept(n, p, received)
  <2>1. \A k \in Nodes :
          proposer'[k].status = "CHOSEN" => proposer[k].status = "CHOSEN"
    BY <1>1, <1>3 DEF BroadcastAccept
  <2>2. \A x \in net' \ net : x.type = "ACCEPT"
    BY <1>3 DEF BroadcastAccept, AcceptMsg
  <2> QED  BY <1>3, <2>1, <2>2 DEF BroadcastAccept
<1> QED  BY <1>2, <1>3

\* The fields of all messages, before and after a step.
LEMMA FieldsOfNet ==
  ASSUME TypeOK
  PROVE  \A x \in net : x.from \in Nodes /\ x.to \in Nodes
PROOF
  BY MessageFields DEF TypeOK

\* A step that takes one answer, or nothing, and broadcasts or stays quiet.
LEMMA AnswerRecords ==
  ASSUME TypeOK, TypeOK', LearnInv, NEW R, \A x \in R : x.type \in {"PROMISE", "ACCEPTED"},
         \A k \in Nodes :
           proposer'[k].status = "CHOSEN" => proposer[k].status = "CHOSEN",
         chosen_value' = chosen_value,
         net \ R \subseteq net',
         \A x \in net' \ net : x.type \in {"PREPARE", "ACCEPT"}
  PROVE  LearnInv'
PROOF
<1>1. \A x \in net : x.from \in Nodes /\ x.to \in Nodes
  BY FieldsOfNet
<1>2. \A x \in net' : x.from \in Nodes /\ x.to \in Nodes
  BY MessageFields DEF TypeOK
<1>3. \A x \in net \ net' : x.type \in {"PROMISE", "ACCEPTED"}
  OBVIOUS
<1> QED  BY <1>1, <1>2, <1>3, RecordsKept

\* The same for a step that sends nothing.
LEMMA QuietRecords ==
  ASSUME TypeOK, TypeOK', LearnInv, NEW msg, msg.type \in {"PROMISE", "ACCEPTED"},
         \A k \in Nodes :
           proposer'[k].status = "CHOSEN" => proposer[k].status = "CHOSEN",
         chosen_value' = chosen_value,
         net' = (net \ {msg}) \cup {}
  PROVE  LearnInv'
PROOF
<1>1. \A x \in {msg} : x.type \in {"PROMISE", "ACCEPTED"}
  OBVIOUS
<1>2. \A x \in net' \ net : x.type \in {"PREPARE", "ACCEPT"}
  OBVIOUS
<1>3. net \ {msg} \subseteq net'
  OBVIOUS
<1> QED  BY <1>1, <1>2, <1>3, AnswerRecords

LEMMA LearnCommit ==
  ASSUME TypeInv, TypeOK', LearnInv, NEW n \in Nodes, NEW v \in Values, Commit(n, v)
  PROVE  LearnInv'
PROOF
<1> TypeOK
  BY DEF TypeInv
<1>1. n \in Masters
  BY DEF Commit, Masters
<1>2. PICK p, r : p = gen_next_ballot(NewProposer(v), n) /\ r = init_curr_value(p)
  OBVIOUS
<1>3. p \in ProposerState
  BY <1>1, <1>2, NewProposerFields
<1>4. r \in ProposerState
  <2>1. p.init_value \in ValuesOrNull
    BY <1>3 DEF ProposerState
  <2> QED  BY <1>2, <1>3, <2>1 DEF init_curr_value, ProposerState
<1>5. BroadcastPrepare(n, p, {}) \/ BroadcastAccept(n, r, {})
  BY <1>2 DEF Commit
<1>6. \A x \in {} : x.type \in {"PROMISE", "ACCEPTED"}
  OBVIOUS
<1> QED  BY <1>3, <1>4, <1>5, <1>6, BroadcastRecords, AnswerRecords

LEMMA LearnRecvPromise ==
  ASSUME IInv, TypeOK', LearnInv, NEW msg \in net, RecvPromise(msg)
  PROVE  LearnInv'
PROOF
<1> TypeOK /\ TypeInv
  BY DEF IInv, TypeInv
<1>1. PICK n : n = msg.to
  OBVIOUS
<1>2. \A x \in {msg} : x.type \in {"PROMISE", "ACCEPTED"}
  BY DEF RecvPromise, PromiseIgnored, PromiseDrop, PromiseNotEnough, PromiseContinue,
         PromiseRestart, PromiseStored, PromiseReceived
<1>3. n \in Nodes
  BY <1>1, FieldsOfNet
<1>4. CASE PromiseIgnored(msg)
  <2>1. /\ chosen_value' = chosen_value /\ proposer' = proposer
        /\ net' = (net \ {msg}) \cup {}
    BY <1>4 DEF PromiseIgnored, Deliver
  <2> QED  BY <1>2, <2>1, QuietRecords
<1>5. CASE PromiseDrop(msg)
  <2>1. /\ chosen_value' = chosen_value
        /\ net' = (net \ {msg}) \cup {}
    BY <1>5 DEF PromiseDrop, Deliver
  <2>2. \A k \in Nodes : proposer'[k].status = "CHOSEN" => proposer[k].status = "CHOSEN"
    BY <1>5 DEF PromiseDrop, TypeOK, ProposerState
  <2> QED  BY <1>2, <2>1, <2>2, QuietRecords
<1>6. CASE PromiseStored(msg)
  <2>1. PICK p : p = AfterPromise(msg)
    OBVIOUS
  <2>2. /\ n \in Masters /\ p \in ProposerState /\ p.status = "PHASEI"
        /\ p.curr_ballot \in OwnBallots(n) /\ p.init_value \in Values
    BY <1>1, <1>6, <2>1, AfterPromiseFields DEF ProposerState
  <2>3. CASE PromiseNotEnough(msg)
    <3>1. /\ chosen_value' = chosen_value /\ proposer' = [proposer EXCEPT ![n] = p]
          /\ net' = (net \ {msg}) \cup {}
      BY <1>1, <2>1, <2>3 DEF PromiseNotEnough, Deliver
    <3>2. \A k \in Nodes : proposer'[k].status = "CHOSEN" => proposer[k].status = "CHOSEN"
      BY <2>2, <3>1 DEF TypeOK
    <3> QED  BY <1>2, <3>1, <3>2, QuietRecords
  <2>4. CASE PromiseContinue(msg)
    <3>1. PICK q \in ScanPromises(p) : BroadcastAccept(n, AdoptValue(q), {msg})
      BY <1>1, <2>1, <2>4 DEF PromiseContinue
    <3>2. PICK r : r = AdoptValue(q)
      OBVIOUS
    <3>3. q \in ProposerState /\ q.init_value = p.init_value
      <4>1. /\ q \in ProposerState
            /\ q = [p EXCEPT !.max_ballot = q.max_ballot, !.max_value = q.max_value]
        BY <2>2, ScanFields
      <4> QED  BY <2>2, <4>1 DEF ProposerState
    <3>4. r \in ProposerState
      BY <2>2, <3>2, <3>3, AdoptFields
    <3>5. BroadcastAccept(n, r, {msg})
      BY <3>1, <3>2
    <3> QED  BY <1>2, <1>3, <3>4, <3>5, BroadcastRecords, AnswerRecords
  <2>5. CASE PromiseRestart(msg)
    <3>1. PICK q \in ScanPromises(p) :
             BroadcastPrepare(n, restart_msg_prepare(q, n), {msg})
      BY <1>1, <2>1, <2>5 DEF PromiseRestart
    <3>2. PICK r : r = restart_msg_prepare(q, n)
      OBVIOUS
    <3>3. /\ q \in ProposerState
          /\ q = [p EXCEPT !.max_ballot = q.max_ballot, !.max_value = q.max_value]
      BY <2>2, ScanFields
    <3>4. q.curr_ballot = p.curr_ballot /\ q.curr_ballot < MaxRound * BallotStep
      BY <2>1, <2>2, <2>5, <3>3 DEF PromiseRestart, ProposerState
    <3>5. r \in ProposerState
      BY <2>2, <3>2, <3>3, <3>4, RestartFields
    <3>6. BroadcastPrepare(n, r, {msg})
      BY <3>1, <3>2
    <3> QED  BY <1>2, <1>3, <3>5, <3>6, BroadcastRecords, AnswerRecords
  <2>6. PromiseNotEnough(msg) \/ PromiseContinue(msg) \/ PromiseRestart(msg)
    BY <1>6 DEF RecvPromise, PromiseIgnored, PromiseDrop, PromiseStored
  <2> QED  BY <2>3, <2>4, <2>5, <2>6
<1> QED
  BY <1>4, <1>5, <1>6
  DEF RecvPromise, PromiseNotEnough, PromiseContinue, PromiseRestart

\* A DECIDE or a TEACH is sent to every node an Interest can reach.
LEMMA EveryListenerIsTold ==
  ASSUME NEW n \in Masters, NEW m \in Listeners, NEW v, NEW w
  PROVE  \/ msg_decide(n, m, v) \in Announce(n, v, w)
         \/ msg_teach(n, m, w) \in Announce(n, v, w)
PROOF
<1>1. m # n /\ m \in Nodes
  BY DEF Masters, Listeners
<1>2. CASE MODE_TYPE < 2
  BY <1>1, <1>2 DEF Announce, Reach, Targets
<1>3. CASE ~ (MODE_TYPE < 2)
  <2>1. MODE_TYPE >= 2 /\ quorum_size \in Nat /\ m \in Int
    BY <1>1, <1>3, ViewAssumption DEF quorum_size, Nodes
  <2>2. CASE m < quorum_size
    BY <1>1, <1>3, <2>1, <2>2 DEF Announce, Reach, Targets, Nodes
  <2>3. CASE ~ (m < quorum_size)
    <3>1. m \in Targets("TEACH")
      BY <1>1, <1>3, <2>1, <2>3, ViewAssumption DEF Targets, Nodes
    <3>2. m \in Reach(n, "TEACH")
      BY <1>1, <3>1 DEF Reach
    <3> QED  BY <2>1, <3>2 DEF Announce
  <2> QED  BY <2>2, <2>3
<1> QED  BY <1>2, <1>3

LEMMA LearnRecvAccepted ==
  ASSUME IInv, TypeOK', LearnInv, NEW msg \in net, RecvAccepted(msg)
  PROVE  LearnInv'
PROOF
<1> TypeOK /\ TypeInv
  BY DEF IInv, TypeInv
<1>1. PICK n : n = msg.to
  OBVIOUS
<1>2. \A x \in {msg} : x.type \in {"PROMISE", "ACCEPTED"}
  BY DEF RecvAccepted, AcceptedIgnored, AcceptedNotEnough, AcceptedChoose,
         AcceptedRestart, AcceptedStored, AcceptedReceived
<1>3. n \in Nodes
  BY <1>1, FieldsOfNet
<1>4. CASE AcceptedIgnored(msg)
  <2>1. /\ chosen_value' = chosen_value /\ proposer' = proposer
        /\ net' = (net \ {msg}) \cup {}
    BY <1>4 DEF AcceptedIgnored, Deliver
  <2> QED  BY <1>2, <2>1, QuietRecords
<1>5. CASE AcceptedStored(msg)
  <2>1. PICK p : p = AfterAccepted(msg)
    OBVIOUS
  <2>2. /\ n \in Masters /\ p \in ProposerState /\ p.status = "PHASEII"
        /\ p.curr_ballot \in OwnBallots(n) /\ p.curr_value \in Values
    BY <1>1, <1>5, <2>1, AfterAcceptedFields DEF ProposerState
  <2>3. CASE AcceptedNotEnough(msg)
    <3>1. /\ chosen_value' = chosen_value /\ proposer' = [proposer EXCEPT ![n] = p]
          /\ net' = (net \ {msg}) \cup {}
      BY <1>1, <2>1, <2>3 DEF AcceptedNotEnough, Deliver
    <3>2. \A k \in Nodes : proposer'[k].status = "CHOSEN" => proposer[k].status = "CHOSEN"
      BY <2>2, <3>1 DEF TypeOK
    <3> QED  BY <1>2, <3>1, <3>2, QuietRecords
  <2>4. CASE AcceptedRestart(msg)
    <3>1. PICK r : r = restart_msg_prepare(p, n)
      OBVIOUS
    <3>2. p.curr_ballot < MaxRound * BallotStep /\ BroadcastPrepare(n, r, {msg})
      BY <1>1, <2>1, <2>4, <3>1 DEF AcceptedRestart
    <3>3. r \in ProposerState
      BY <2>2, <3>1, <3>2, RestartFields
    <3> QED  BY <1>2, <1>3, <3>2, <3>3, BroadcastRecords, AnswerRecords
  <2>5. CASE AcceptedChoose(msg)
    <3>1. PICK v, w : v = p.curr_value /\ w = chosen_value'[n]
      OBVIOUS
    <3>2. chosen_value' = [chosen_value EXCEPT ![n] = IF @ = NULL THEN v ELSE @]
      BY <1>1, <2>1, <2>5, <3>1 DEF AcceptedChoose, add_chosen_value
    <3>3. v # NULL
      BY <2>2, <3>1, ViewAssumption
    <3>4. /\ \A m \in Nodes : chosen_value[m] # NULL => chosen_value'[m] # NULL
          /\ chosen_value'[n] # NULL
      BY <1>3, <3>2, <3>3 DEF TypeOK
    <3>5. net' = (net \ {msg}) \cup Announce(n, v, w)
      BY <1>1, <2>1, <2>5, <3>1 DEF AcceptedChoose, Deliver
    <3>6. \A x \in Announce(n, v, w) : x.type \in {"DECIDE", "TEACH"} /\ x.from = n
      BY DEF Announce, msg_decide, msg_teach
    <3>7. ASSUME NEW m \in Listeners PROVE PendingRecord(m)'
      <4>1. CASE msg_decide(n, m, v) \in net'
        BY <4>1 DEF PendingRecord, msg_decide
      <4>2. CASE msg_teach(n, m, w) \in net'
        BY <4>2 DEF PendingRecord, msg_teach
      <4>3. msg_decide(n, m, v) \in net' \/ msg_teach(n, m, w) \in net'
        BY <2>2, <3>5, EveryListenerIsTold
      <4> QED  BY <4>1, <4>2, <4>3
    <3>8. \A x \in net' : /\ x.type = "DECIDE" => chosen_value'[x.from] # NULL
                          /\ x.type = "LEARN"  => chosen_value'[x.to] # NULL
      <4>1. \A x \in net : /\ x.type = "DECIDE" => chosen_value'[x.from] # NULL
                           /\ x.type = "LEARN"  => chosen_value'[x.to] # NULL
        BY <3>4, FieldsOfNet DEF LearnInv
      <4> QED  BY <3>4, <3>5, <3>6, <4>1
    <3> QED  BY <3>7, <3>8 DEF LearnInv
  <2>6. AcceptedNotEnough(msg) \/ AcceptedChoose(msg) \/ AcceptedRestart(msg)
    BY <1>5 DEF RecvAccepted, AcceptedIgnored, AcceptedStored
  <2> QED  BY <2>3, <2>4, <2>5, <2>6
<1> QED
  BY <1>4, <1>5 DEF RecvAccepted, AcceptedNotEnough, AcceptedChoose, AcceptedRestart

LEMMA LearnOtherMessages ==
  ASSUME TypeOK, TypeOK', LearnInv, NEW msg \in net,
         \/ RecvPrepare(msg) \/ RecvAccept(msg) \/ RecvDecide(msg)
         \/ RecvLearn(msg) \/ RecvTeach(msg)
  PROVE  LearnInv'
PROOF
<1>1. PICK n, m : n = msg.to /\ m = msg.from
  OBVIOUS
<1>2. n \in Nodes /\ m \in Nodes /\ msg \in Message
  BY <1>1, FieldsOfNet DEF TypeOK
<1>3. \A x \in net : x.from \in Nodes /\ x.to \in Nodes
  BY FieldsOfNet
<1>4. \A x \in net' : x.from \in Nodes /\ x.to \in Nodes
  BY MessageFields DEF TypeOK
<1>5. \A k \in Nodes : proposer'[k].status = "CHOSEN" => proposer[k].status = "CHOSEN"
  BY DEF RecvPrepare, RecvAccept, RecvDecide, RecvLearn, RecvTeach
<1>6. CASE RecvPrepare(msg) \/ RecvAccept(msg)
  <2>1. chosen_value' = chosen_value /\ msg.type \in {"PREPARE", "ACCEPT"}
    BY <1>6 DEF RecvPrepare, RecvAccept
  <2>2. PICK y : /\ net' = (net \ {msg}) \cup {y}
                 /\ \/ y = Promise(n, m, msg.ballot, AckPrepare(acceptor[n], msg.ballot))
                    \/ y = AcceptedMsg(n, m, msg.ballot,
                                       AckAccept(acceptor[n], msg.ballot))
    BY <1>1, <1>6 DEF RecvPrepare, RecvAccept, Deliver
  <2>3. net' = (net \ {msg}) \cup {y} /\ y.type \in {"PROMISE", "ACCEPTED"}
    BY <2>2 DEF Promise, AcceptedMsg
  <2>4. \A x \in net \ net' : x = msg
    BY <2>3
  <2>5. \A x \in net' \ net : x = y
    BY <2>3
  <2> QED  BY <1>3, <1>4, <1>5, <2>1, <2>3, <2>4, <2>5, RecordsKept
<1>7. CASE RecvDecide(msg)
  <2>1. msg.value # NULL /\ msg.type = "DECIDE" /\ chosen_value[m] # NULL
    BY <1>1, <1>2, <1>7, MessageFields, ViewAssumption DEF RecvDecide, LearnInv
  <2>2. CASE chosen_value'[n] # NULL /\ net' = net \ {msg}
             /\ \A k \in Nodes : chosen_value[k] # NULL => chosen_value'[k] # NULL
    <3>1. \A x \in net \ net' : x = msg
      BY <2>2
    <3>2. net' \ net = {}
      BY <2>2
    <3> QED  BY <1>1, <1>3, <1>4, <1>5, <2>1, <2>2, <3>1, <3>2, RecordsKept
  <2>3. CASE chosen_value' = chosen_value /\ net' = (net \ {msg}) \cup {msg_learn(n, m)}
    <3>1. PICK y : y = msg_learn(n, m)
      OBVIOUS
    <3>2. y.type = "LEARN" /\ y.from = n /\ y.to = m /\ y \in net'
      BY <2>3, <3>1 DEF msg_learn
    <3>3. PendingRecord(n)'
      BY <3>2 DEF PendingRecord
    <3>4. \A x \in net \ net' : x = msg
      BY <2>3
    <3>5. \A x \in net' \ net : x = y
      BY <2>3, <3>1
    <3>6. ASSUME NEW x \in net \ net'
          PROVE  /\ x.type \in {"DECIDE", "TEACH"} =>
                      chosen_value'[x.to] # NULL \/ PendingRecord(x.to)'
                 /\ x.type = "LEARN" =>
                      chosen_value'[x.from] # NULL \/ PendingRecord(x.from)'
      <4>1. x = msg
        BY <3>4, <3>6
      <4>2. x.type = "DECIDE" /\ x.to = n
        BY <1>1, <2>1, <4>1
      <4> QED  BY <3>3, <4>2
    <3>7. \A x \in net' \ net :
            /\ x.type = "DECIDE" => chosen_value'[x.from] # NULL
            /\ x.type = "LEARN"  => chosen_value'[x.to] # NULL
      BY <2>1, <2>3, <3>2, <3>5
    <3>8. \A k \in Nodes : chosen_value[k] # NULL => chosen_value'[k] # NULL
      BY <2>3
    <3> QED  BY <1>3, <1>4, <1>5, <3>6, <3>7, <3>8, RecordsKept
  <2>4. \/ /\ chosen_value'[n] # NULL /\ net' = net \ {msg}
           /\ \A k \in Nodes : chosen_value[k] # NULL => chosen_value'[k] # NULL
        \/ chosen_value' = chosen_value /\ net' = (net \ {msg}) \cup {msg_learn(n, m)}
    BY <1>1, <1>2, <1>7, <2>1 DEF RecvDecide, Deliver, add_chosen_value, TypeOK
  <2> QED  BY <2>2, <2>3, <2>4
<1>8. CASE RecvLearn(msg)
  <2>1. msg.type = "LEARN" /\ chosen_value[n] # NULL /\ chosen_value' = chosen_value
    BY <1>1, <1>8 DEF RecvLearn, LearnInv
  <2>2. PICK y : y = msg_teach(n, m, chosen_value[n])
    OBVIOUS
  <2>3. net' = (net \ {msg}) \cup {y}
    BY <1>1, <1>8, <2>1, <2>2 DEF RecvLearn, Deliver
  <2>4. y.type = "TEACH" /\ y.to = m /\ y \in net'
    BY <2>2, <2>3 DEF msg_teach
  <2>5. PendingRecord(m)'
    BY <2>4 DEF PendingRecord
  <2>6. ASSUME NEW x \in net \ net'
        PROVE  /\ x.type \in {"DECIDE", "TEACH"} =>
                    chosen_value'[x.to] # NULL \/ PendingRecord(x.to)'
               /\ x.type = "LEARN" =>
                    chosen_value'[x.from] # NULL \/ PendingRecord(x.from)'
    <3>1. x = msg
      BY <2>3, <2>6
    <3>2. x.type = "LEARN" /\ x.from = m
      BY <1>1, <2>1, <3>1
    <3> QED  BY <2>5, <3>2
  <2>7. \A x \in net' \ net : x = y
    BY <2>3
  <2> QED  BY <1>3, <1>4, <1>5, <2>1, <2>4, <2>6, <2>7, RecordsKept
<1>9. CASE RecvTeach(msg)
  <2>1. msg.value # NULL /\ msg.type = "TEACH"
    BY <1>2, <1>9, MessageFields, ViewAssumption DEF RecvTeach
  <2>2. /\ chosen_value'[n] # NULL
        /\ \A k \in Nodes : chosen_value[k] # NULL => chosen_value'[k] # NULL
    BY <1>1, <1>2, <1>9, <2>1 DEF RecvTeach, add_chosen_value, TypeOK
  <2>3. net' = net \ {msg}
    BY <1>9 DEF RecvTeach, Deliver
  <2>4. \A x \in net \ net' : x = msg
    BY <2>3
  <2>5. net' \ net = {}
    BY <2>3
  <2> QED  BY <1>1, <1>3, <1>4, <1>5, <2>1, <2>2, <2>4, <2>5, RecordsKept
<1> QED  BY <1>6, <1>7, <1>8, <1>9

LEMMA LearnNext == IInv /\ TypeOK' /\ LearnInv /\ [Next]_vars => LearnInv'
PROOF
<1> SUFFICES ASSUME IInv, TypeOK', LearnInv, [Next]_vars PROVE LearnInv'
  OBVIOUS
<1> TypeOK /\ TypeInv
  BY DEF IInv, TypeInv
<1>1. ASSUME NEW n \in Nodes, NEW v \in Values, Commit(n, v) PROVE LearnInv'
  BY <1>1, LearnCommit
<1>2. ASSUME NEW msg \in net, Recv(msg) PROVE LearnInv'
  BY <1>2, LearnRecvPromise, LearnRecvAccepted, LearnOtherMessages DEF Recv
<1>3. ASSUME NEW n \in Nodes, Crash(n) PROVE LearnInv'
  BY <1>3 DEF Crash, LearnInv, PendingRecord
<1>4. CASE UNCHANGED vars
  BY <1>4 DEF vars, LearnInv, PendingRecord
<1> QED  BY <1>1, <1>2, <1>3, <1>4 DEF Next

(***************************************************************************)
(* The theorems.                                                           *)
(***************************************************************************)

LEMMA ProgressInit == Init => ProgressInv
PROOF
<1> SUFFICES ASSUME Init PROVE ProgressInv
  OBVIOUS
<1>1. \A n \in Nodes : proposer[n].status = "EMPTY"
  BY DEF Init, NoProposer
<1>2. net = {}
  BY DEF Init
<1> QED  BY <1>1, <1>2 DEF ProgressInv, WaitInv, Awaits, LearnInv

\* In whatever order messages arrive and whoever crashes: everybody a proposer
\* waits for, and everybody who is to be told, has a message of the round on its
\* way.
THEOREM ProgressInvariant == Spec => []ProgressInv
PROOF
<1>1. IInv /\ IInv' /\ ProgressInv /\ [Next]_vars => ProgressInv'
  <2>1. IInv' => TypeOK'
    BY DEF IInv, TypeInv
  <2> QED  BY <2>1, WaitNext, LearnNext DEF ProgressInv
<1> QED  BY <1>1, ProgressInit, Invariance, PTL DEF Spec

\* Nobody waits for ever: if every master can reach a quorum, no proposer is left
\* unfinished in a state without messages.
THEOREM QuiescentDoneHolds ==
  ASSUME QuorumInReach
  PROVE  Spec => []QuiescentDone
PROOF
<1>1. ASSUME IInv, ProgressInv PROVE QuiescentDone
  <2> SUFFICES ASSUME net = {}, NEW n \in Nodes,
                      proposer[n].status \notin {"EMPTY", "CHOSEN"}
               PROVE  FALSE
    BY DEF QuiescentDone
  <2>1. PICK p : p = proposer[n]
    OBVIOUS
  <2>2. p \in ProposerState /\ Awaits(n, p) /\ n \in Masters
    BY <1>1, <2>1
    DEF IInv, TypeInv, TypeOK, ProposerShape, ProgressInv, WaitInv, ProposerState
  <2>3. ASSUME NEW acks \in SUBSET Nodes, Cardinality(acks) < qr,
               OwnAnswer(n, acks), Reach(n, "PREPARE") \subseteq acks
        PROVE  FALSE
    <3>1. Cardinality(Reach(n, "PREPARE") \cup ({n} \cap Targets("PREPARE"))) >= qr
      BY <2>2 DEF QuorumInReach
    <3>2. qr \in Nat /\ 2 <= qr /\ Cardinality({}) < qr
          /\ Cardinality({n}) < qr
      BY OneIsNoQuorum
    <3>3. IsFiniteSet(acks) /\ Cardinality(acks) \in Nat
      <4>1. IsFiniteSet(Nodes)
        BY FS_Interval, ViewAssumption DEF Nodes
      <4> QED  BY <4>1, FS_Subset, FS_CardinalityType
    <3>4. CASE Reach(n, "PREPARE") \cup ({n} \cap Targets("PREPARE")) \subseteq acks
      <4>1. Cardinality(Reach(n, "PREPARE") \cup ({n} \cap Targets("PREPARE")))
              <= Cardinality(acks)
        BY <3>3, <3>4, FS_Subset
      <4>2. IsFiniteSet(Reach(n, "PREPARE") \cup ({n} \cap Targets("PREPARE")))
        BY <3>3, <3>4, FS_Subset
      <4>3. Cardinality(Reach(n, "PREPARE") \cup ({n} \cap Targets("PREPARE"))) \in Nat
        BY <4>2, FS_CardinalityType
      <4> QED  BY <2>3, <3>1, <3>2, <3>3, <4>1, <4>3
    <3>5. CASE acks = {}
      <4>1. \/ Reach(n, "PREPARE") \cup ({n} \cap Targets("PREPARE")) = {}
            \/ Reach(n, "PREPARE") \cup ({n} \cap Targets("PREPARE")) = {n}
        BY <2>3, <3>5
      <4>2. Cardinality({}) \in Nat /\ Cardinality({n}) \in Nat
        <5>1. Cardinality({}) = 0 /\ Cardinality({n}) = 1
          BY FS_EmptySet, FS_Singleton
        <5> QED  BY <5>1
      <4> QED  BY <3>1, <3>2, <4>1, <4>2
    <3> QED  BY <2>3, <3>4, <3>5 DEF OwnAnswer
  <2>4. CASE p.status \in {"INIT", "PHASEI"}
    <3>1. AwaitsPromises(n, p)
      BY <2>2, <2>4 DEF Awaits
    <3>2. Reach(n, "PREPARE") \subseteq PrepareAcks(p)
      BY <3>1 DEF AwaitsPromises, PendingPromise
    <3> QED  BY <2>3, <3>1, <3>2 DEF AwaitsPromises, PrepareAcks
  <2>5. CASE p.status = "PHASEII"
    <3>1. AwaitsAccepted(n, p)
      BY <2>2, <2>5 DEF Awaits
    <3>2. Reach(n, "PREPARE") \subseteq AcceptAcks(p)
      <4>1. Reach(n, "PREPARE") = Reach(n, "ACCEPT")
        BY DEF Reach, Targets
      <4> QED  BY <3>1, <4>1 DEF AwaitsAccepted, PendingAccepted
    <3> QED  BY <2>3, <3>1, <3>2 DEF AwaitsAccepted, AcceptAcks
  <2> QED  BY <2>1, <2>2, <2>4, <2>5 DEF ProposerState
<1> QED  BY <1>1, Invariance, ProgressInvariant, PTL

\* Once a master has chosen and all messages were delivered, every node that an
\* Interest can reach knows the value; a crashed one keeps its messages waiting.
THEOREM QuiescentLearnedHolds == Spec => []QuiescentLearned
PROOF
<1>1. ProgressInv => QuiescentLearned
  BY DEF ProgressInv, LearnInv, PendingRecord, QuiescentLearned
<1> QED  BY <1>1, ProgressInvariant, PTL

(***************************************************************************)
(* The Reed-Solomon build works for its own values.                        *)
(***************************************************************************)

\* Interests go to Listeners, and so their answers come from them.
LEMMA ListenersServeNext ==
  ASSUME OnlyListenersServe, [Next]_vars
  PROVE  OnlyListenersServe'
PROOF
<1> USE DEF OnlyListenersServe
<1>1. \A n, b : \A m \in Reach(n, "PREPARE") :
        Prepare(n, m, b).type = "PREPARE" /\ Prepare(n, m, b).to \in Listeners
  BY DEF Reach, Prepare
<1>2. \A n, b, v : \A m \in Reach(n, "ACCEPT") :
        AcceptMsg(n, m, b, v).type = "ACCEPT" /\ AcceptMsg(n, m, b, v).to \in Listeners
  BY DEF Reach, AcceptMsg
<1>3. ASSUME NEW n, NEW p, NEW received, BroadcastPrepare(n, p, received)
      PROVE  OnlyListenersServe'
  BY <1>1, <1>3 DEF BroadcastPrepare
<1>4. ASSUME NEW n, NEW p, NEW received, BroadcastAccept(n, p, received)
      PROVE  OnlyListenersServe'
  BY <1>2, <1>4 DEF BroadcastAccept
<1>5. ASSUME NEW msg \in net, NEW out, Deliver(msg, out),
             \A x \in out : x.type \in {"ACCEPTED", "DECIDE", "LEARN", "TEACH"}
      PROVE  OnlyListenersServe'
  BY <1>5 DEF Deliver
<1>6. ASSUME NEW n \in Nodes, NEW v \in Values, Commit(n, v)
      PROVE  OnlyListenersServe'
  BY <1>3, <1>4, <1>6 DEF Commit
<1>7. ASSUME NEW msg \in net, RecvPrepare(msg) PROVE OnlyListenersServe'
  <2>1. PICK y : y = Promise(msg.to, msg.from, msg.ballot,
                             AckPrepare(acceptor[msg.to], msg.ballot))
    OBVIOUS
  <2>2. net' = (net \ {msg}) \cup {y}
    BY <1>7, <2>1 DEF RecvPrepare, Deliver
  <2>3. y.type = "PROMISE" /\ y.from = msg.to
    BY <2>1 DEF Promise
  <2>4. msg.to \in Listeners
    BY <1>7 DEF RecvPrepare
  <2> QED  BY <2>2, <2>3, <2>4
<1>8. ASSUME NEW msg \in net, RecvPromise(msg) PROVE OnlyListenersServe'
  <2>1. PromiseIgnored(msg) \/ PromiseDrop(msg) \/ PromiseNotEnough(msg)
          => Deliver(msg, {})
    BY DEF PromiseIgnored, PromiseDrop, PromiseNotEnough
  <2>2. PromiseContinue(msg) => \E p : BroadcastAccept(msg.to, p, {msg})
    BY DEF PromiseContinue
  <2>3. PromiseRestart(msg) => \E p : BroadcastPrepare(msg.to, p, {msg})
    BY DEF PromiseRestart
  <2> QED  BY <1>3, <1>4, <1>5, <1>8, <2>1, <2>2, <2>3 DEF RecvPromise
<1>9. ASSUME NEW msg \in net, RecvAccept(msg) PROVE OnlyListenersServe'
  <2>1. PICK y : y = AcceptedMsg(msg.to, msg.from, msg.ballot,
                                 AckAccept(acceptor[msg.to], msg.ballot))
    OBVIOUS
  <2>2. net' = (net \ {msg}) \cup {y}
    BY <1>9, <2>1 DEF RecvAccept, Deliver
  <2>3. y.type = "ACCEPTED"
    BY <2>1 DEF AcceptedMsg
  <2> QED  BY <2>2, <2>3
<1>10. ASSUME NEW msg \in net, RecvAccepted(msg) PROVE OnlyListenersServe'
  <2>1. AcceptedIgnored(msg) \/ AcceptedNotEnough(msg) => Deliver(msg, {})
    BY DEF AcceptedIgnored, AcceptedNotEnough
  <2>2. AcceptedChoose(msg) => \E n, v, w : Deliver(msg, Announce(n, v, w))
    BY DEF AcceptedChoose
  <2>3. \A n, v, w : \A x \in Announce(n, v, w) : x.type \in {"DECIDE", "TEACH"}
    BY DEF Announce, msg_decide, msg_teach
  <2>4. AcceptedRestart(msg) => \E n, p : BroadcastPrepare(n, p, {msg})
    BY DEF AcceptedRestart
  <2> QED  BY <1>3, <1>5, <1>10, <2>1, <2>2, <2>3, <2>4 DEF RecvAccepted
<1>11. ASSUME NEW msg \in net, RecvDecide(msg) \/ RecvLearn(msg) \/ RecvTeach(msg)
       PROVE  OnlyListenersServe'
  <2>1. \A x \in net' \ net : x.type \in {"LEARN", "TEACH"}
    BY <1>11 DEF RecvDecide, RecvLearn, RecvTeach, Deliver, msg_learn, msg_teach
  <2> QED  BY <2>1
<1>12. ASSUME NEW n \in Nodes, Crash(n) PROVE OnlyListenersServe'
  BY <1>12 DEF Crash
<1>13. CASE UNCHANGED vars
  BY <1>13 DEF vars
<1> QED
  BY <1>6, <1>7, <1>8, <1>9, <1>10, <1>11, <1>12, <1>13 DEF Next, Recv

\* The other masters are not concerned by what changes at node n.
LEMMA OthersOwnValue ==
  ASSUME TypeOK, NEW n \in Masters, \A k \in Masters : OwnValue(k),
         NEW q, proposer' = [proposer EXCEPT ![n] = q],
         NEW a, acceptor' = [acceptor EXCEPT ![n] = a],
         a.max_value \in {NULL, q.init_value},
         q.status \in {"INIT", "PHASEI"} =>
           q.ack_prepare[n].max_value \in {NULL, q.init_value},
         q.status = "PHASEII" => q.curr_value = q.init_value
  PROVE  (\A k \in Masters : OwnValue(k))'
PROOF
<1>1. n \in Nodes /\ Masters \subseteq Nodes
  BY DEF Masters
<1>2. acceptor'[n] = a /\ proposer'[n] = q
  BY <1>1 DEF TypeOK
<1>3. ASSUME NEW k \in Masters \ {n}
      PROVE  acceptor'[k] = acceptor[k] /\ proposer'[k] = proposer[k]
  BY <1>1 DEF TypeOK
<1>4. OwnValue(n)'
  BY <1>2 DEF OwnValue
<1>5. ASSUME NEW k \in Masters \ {n} PROVE OwnValue(k)'
  BY <1>3 DEF OwnValue
<1> QED  BY <1>4, <1>5

\* A PREPARE round asks the own acceptor, which has seen no rival's value.
LEMMA BroadcastPrepareOwn ==
  ASSUME TypeOK, NEW n \in Masters, NEW p \in ProposerState, NEW received,
         \A k \in Masters : OwnValue(k),
         acceptor[n].max_value \in {NULL, p.init_value},
         p.curr_ballot \in Ballots,
         p.ack_prepare = EmptyPrepareMap,
         BroadcastPrepare(n, p, received)
  PROVE  (\A k \in Masters : OwnValue(k))'
PROOF
<1>0. n \in Nodes /\ acceptor[n] \in AcceptorState
  BY DEF Masters, TypeOK
<1>1. PICK b, ack, q1, q2, r :
        /\ b = p.curr_ballot /\ ack = AckPrepare(acceptor[n], b)
        /\ q1 = [p EXCEPT !.status = "INIT"]
        /\ q2 = [q1 EXCEPT !.status = "PHASEI"]
        /\ r = StorePromise(q2, n, ack)
  OBVIOUS
<1>2. ack \in PrepareAck /\ ack.max_value \in {NULL, p.init_value}
  BY <1>0, <1>1, AcceptorTypes DEF AckPrepare
<1>3. /\ q1 \in ProposerState /\ q1.status = "INIT"
      /\ q1.ack_prepare = EmptyPrepareMap /\ q1.init_value = p.init_value
      /\ q2 \in ProposerState /\ q2.status = "PHASEI"
      /\ q2.ack_prepare = EmptyPrepareMap /\ q2.init_value = p.init_value
  BY <1>1 DEF ProposerState
<1>4. /\ r \in ProposerState
      /\ r = [q2 EXCEPT !.ack_prepare = [q2.ack_prepare EXCEPT ![n] = ack]]
  <2>1. r = StorePromise(q2, n, ack)
    BY <1>1
  <2> QED  BY <1>0, <1>2, <1>3, <2>1, StoreFields
<1>5. /\ r.status = "PHASEI" /\ r.init_value = p.init_value
      /\ r.ack_prepare = [EmptyPrepareMap EXCEPT ![n] = ack]
  BY <1>3, <1>4 DEF ProposerState
<1>6. EmptyPrepareMap[n].max_value = NULL
  BY <1>0 DEF EmptyPrepareMap, NoAck
<1>7. r.ack_prepare[n] = ack
  BY <1>0, <1>5 DEF EmptyPrepareMap
<1>8. CASE proposer' = [proposer EXCEPT ![n] = q1] /\ acceptor' = acceptor
  <2>1. acceptor' = [acceptor EXCEPT ![n] = acceptor[n]]
    BY <1>8 DEF TypeOK
  <2>2. q1.ack_prepare[n].max_value = NULL
    BY <1>3, <1>6
  <2> QED  BY <1>3, <1>8, <2>1, <2>2, OthersOwnValue
<1>9. CASE /\ proposer' = [proposer EXCEPT ![n] = r]
           /\ acceptor' = [acceptor EXCEPT ![n] = handle_msg_prepare(acceptor[n], b)]
  <2>1. PICK a : a = handle_msg_prepare(acceptor[n], b)
    OBVIOUS
  <2>2. a.max_value = acceptor[n].max_value
    BY <1>0, <2>1 DEF handle_msg_prepare, AcceptorState
  <2>3. acceptor' = [acceptor EXCEPT ![n] = a] /\ proposer' = [proposer EXCEPT ![n] = r]
    BY <1>9, <2>1
  <2>4. a.max_value \in {NULL, r.init_value}
    BY <1>5, <2>2
  <2>5. r.ack_prepare[n].max_value \in {NULL, r.init_value} /\ r.status # "PHASEII"
    BY <1>2, <1>5, <1>7
  <2> QED  BY <2>3, <2>4, <2>5, OthersOwnValue
<1> QED  BY <1>1, <1>8, <1>9 DEF BroadcastPrepare

\* An ACCEPT round for the own value hands it to the own acceptor.
LEMMA BroadcastAcceptOwn ==
  ASSUME TypeOK, NEW n \in Masters, NEW p \in ProposerState, NEW received,
         \A k \in Masters : OwnValue(k),
         acceptor[n].max_value \in {NULL, p.init_value},
         p.curr_value = p.init_value,
         BroadcastAccept(n, p, received)
  PROVE  (\A k \in Masters : OwnValue(k))'
PROOF
<1>0. n \in Nodes /\ acceptor[n] \in AcceptorState
  BY DEF Masters, TypeOK
<1>1. PICK b, ack, q, r :
        /\ b = p.curr_ballot /\ ack = AckAccept(acceptor[n], b)
        /\ q = [p EXCEPT !.status = "PHASEII"]
        /\ r = StoreAccepted(q, n, ack)
  OBVIOUS
<1>2. ack \in Replies
  BY <1>1 DEF AckAccept, Replies
<1>3. /\ q \in ProposerState /\ q.status = "PHASEII"
      /\ q.init_value = p.init_value /\ q.curr_value = p.init_value
  BY <1>1 DEF ProposerState
<1>4. r = [q EXCEPT !.ack_accept = [q.ack_accept EXCEPT ![n] = ack]]
  <2>1. r = StoreAccepted(q, n, ack)
    BY <1>1
  <2> QED  BY <1>0, <1>2, <1>3, <2>1, StoreFields
<1>5. /\ r.status = "PHASEII" /\ r.init_value = p.init_value
      /\ r.curr_value = p.init_value
  BY <1>3, <1>4 DEF ProposerState
<1>6. CASE proposer' = [proposer EXCEPT ![n] = q] /\ acceptor' = acceptor
  <2>1. PICK a : a = acceptor[n]
    OBVIOUS
  <2>2. acceptor' = [acceptor EXCEPT ![n] = a] /\ a.max_value \in {NULL, q.init_value}
    BY <1>3, <1>6, <2>1 DEF TypeOK
  <2>3. proposer' = [proposer EXCEPT ![n] = q]
    BY <1>6
  <2> QED  BY <1>3, <2>2, <2>3, OthersOwnValue
<1>7. CASE /\ proposer' = [proposer EXCEPT ![n] = r]
           /\ acceptor' = [acceptor EXCEPT
                             ![n] = handle_msg_accept(acceptor[n], b, p.curr_value)]
  <2>1. PICK a : a = handle_msg_accept(acceptor[n], b, p.curr_value)
    OBVIOUS
  <2>2. a.max_value \in {NULL, p.init_value}
    BY <2>1 DEF handle_msg_accept
  <2>3. acceptor' = [acceptor EXCEPT ![n] = a]
    BY <1>7, <2>1
  <2> QED  BY <1>5, <1>7, <2>2, <2>3, OthersOwnValue
<1> QED  BY <1>1, <1>6, <1>7 DEF BroadcastAccept

\* Whoever has answers of at least rs_qr nodes that all report the same value, the
\* own one among them, takes up the own value.
LEMMA AdoptsOwn ==
  ASSUME MODE_TYPE = 1, NEW n \in Nodes, NEW p \in ProposerState,
         NEW q \in ScanPromises(p), CanAdopt(q),
         p.init_value \in Values,
         Cardinality(PrepareAcks(p)) <= qr, n \in PrepareAcks(p),
         p.ack_prepare[n].max_value \in {NULL, p.init_value}
  PROVE  AdoptValue(q).curr_value = p.init_value
PROOF
<1>1. /\ q \in ProposerState
      /\ q = [p EXCEPT !.max_ballot = q.max_ballot, !.max_value = q.max_value]
  BY ScanFields
<1>2. q.init_value = p.init_value /\ q.ack_prepare = p.ack_prepare
  BY <1>1 DEF ProposerState
<1>3. AdoptValue(q).curr_value = IF q.max_value # NULL THEN q.max_value ELSE q.init_value
  BY <1>1, <1>2, AdoptFields
<1>4. CASE q.max_value # NULL
  <2>1. NodesSize - Cardinality(Holders(q)) <= NodesSize - qr
    BY <1>4 DEF CanAdopt, EnoughBlocks, rs_f, qr
  <2>2. IsFiniteSet(PrepareAcks(p)) /\ Cardinality(PrepareAcks(p)) \in Nat
    <3>1. IsFiniteSet(Nodes) /\ PrepareAcks(p) \subseteq Nodes
      BY FS_Interval, ViewAssumption DEF Nodes, PrepareAcks
    <3> QED  BY <3>1, FS_Subset, FS_CardinalityType
  <2>3. Holders(q) \subseteq PrepareAcks(p)
    BY <1>2 DEF Holders, Promised, PrepareAcks
  <2>4. /\ Cardinality(Holders(q)) <= Cardinality(PrepareAcks(p))
        /\ Cardinality(Holders(q)) \in Nat
        /\ Cardinality(PrepareAcks(p)) = Cardinality(Holders(q))
             => PrepareAcks(p) = Holders(q)
    BY <2>2, <2>3, FS_Subset, FS_CardinalityType
  <2>5. n \in Holders(q)
    BY <2>1, <2>2, <2>4, QuorumSize, ViewAssumption
  <2>6. p.ack_prepare[n].max_value = q.max_value
    BY <1>2, <2>5 DEF Holders
  <2> QED  BY <1>3, <1>4, <2>6
<1> QED  BY <1>2, <1>3, <1>4

LEMMA OwnCommit ==
  ASSUME MODE_TYPE = 1, TypeInv, \A k \in Masters : OwnValue(k),
         NEW n \in Nodes, NEW v \in Values, Commit(n, v)
  PROVE  (\A k \in Masters : OwnValue(k))'
PROOF
<1> TypeOK
  BY DEF TypeInv
<1>1. n \in Masters
  BY DEF Commit, Masters
<1>2. PICK p : p = gen_next_ballot(NewProposer(v), n)
  OBVIOUS
<1>3. /\ p \in ProposerState /\ p.curr_ballot \in OwnBallots(n)
      /\ p = [NoProposer EXCEPT !.init_value = v, !.curr_ballot = BallotStep + n]
  BY <1>1, <1>2, NewProposerFields
<1>4. p.ack_prepare = EmptyPrepareMap /\ p.init_value = v
  BY <1>3 DEF NoProposer
<1>5. acceptor[n].max_value = NULL
  <2>1. proposer[n] = NoProposer
    BY DEF Commit, TypeInv, ProposerShape
  <2> QED  BY <1>1, <2>1 DEF OwnValue, NoProposer
<1>6. BroadcastPrepare(n, p, {})
  BY <1>2 DEF Commit
<1>7. p.curr_ballot \in Ballots
  BY <1>1, <1>3, BallotFacts
<1> QED  BY <1>1, <1>3, <1>4, <1>5, <1>6, <1>7, BroadcastPrepareOwn

\* A restart after either kind of answer.
LEMMA OwnRestart ==
  ASSUME TypeInv, \A k \in Masters : OwnValue(k), NEW n \in Masters,
         NEW p \in ProposerState, p.curr_ballot \in OwnBallots(n),
         p.curr_ballot < MaxRound * BallotStep,
         p.init_value = proposer[n].init_value, NEW received,
         BroadcastPrepare(n, restart_msg_prepare(p, n), received)
  PROVE  (\A k \in Masters : OwnValue(k))'
PROOF
<1> TypeOK
  BY DEF TypeInv
<1>1. PICK r : r = restart_msg_prepare(p, n)
  OBVIOUS
<1>2. /\ r \in ProposerState /\ r.curr_ballot \in OwnBallots(n)
      /\ r = [p EXCEPT !.curr_value = NULL, !.ack_prepare = EmptyPrepareMap,
                       !.ack_accept = EmptyAcceptMap,
                       !.curr_ballot = p.curr_ballot + BallotStep]
  BY <1>1, RestartFields
<1>3. r.ack_prepare = EmptyPrepareMap /\ r.init_value = proposer[n].init_value
  BY <1>2 DEF ProposerState
<1>4. acceptor[n].max_value \in {NULL, r.init_value}
  BY <1>3 DEF OwnValue
<1>5. r.curr_ballot \in Ballots
  BY <1>2, BallotFacts
<1>6. BroadcastPrepare(n, r, received)
  BY <1>1
<1> QED  BY <1>2, <1>3, <1>4, <1>5, <1>6, BroadcastPrepareOwn

LEMMA OwnRecvPromise ==
  ASSUME MODE_TYPE = 1, IInv, WaitInv, OnlyListenersServe,
         \A k \in Masters : OwnValue(k), NEW msg \in net, RecvPromise(msg)
  PROVE  (\A k \in Masters : OwnValue(k))'
PROOF
<1> TypeOK /\ TypeInv
  BY DEF IInv, TypeInv
<1>1. PICK n, o : n = msg.to /\ o = proposer[n]
  OBVIOUS
<1>2. CASE PromiseIgnored(msg)
  BY <1>2 DEF PromiseIgnored, OwnValue
<1>3. CASE PromiseDrop(msg)
  <2>1. n \in Nodes /\ o \in ProposerState /\ o.status \in {"INIT", "PHASEI"}
    BY <1>1, <1>3, MessageFields DEF PromiseDrop, WaitsForPromise, TypeOK
  <2>2. n \in Masters
    BY <1>1, <2>1 DEF TypeInv, ProposerShape
  <2>3. PICK q, a : q = [o EXCEPT !.status = "PHASEI"] /\ a = acceptor[n]
    OBVIOUS
  <2>4. /\ q.status = "PHASEI" /\ q.init_value = o.init_value
        /\ q.ack_prepare = o.ack_prepare
    BY <2>1, <2>3, StatusFields
  <2>5. /\ proposer' = [proposer EXCEPT ![n] = q]
        /\ acceptor' = [acceptor EXCEPT ![n] = a]
    BY <1>1, <1>3, <2>3 DEF PromiseDrop, TypeOK
  <2>6. /\ a.max_value \in {NULL, q.init_value}
        /\ q.ack_prepare[n].max_value \in {NULL, q.init_value}
    BY <1>1, <2>1, <2>2, <2>3, <2>4 DEF OwnValue
  <2> QED  BY <2>2, <2>4, <2>5, <2>6, OthersOwnValue
<1>4. CASE PromiseStored(msg)
  <2>1. PICK p, ack, a :
          /\ p = AfterPromise(msg) /\ a = acceptor[n]
          /\ ack = [ reply |-> msg.reply, max_ballot |-> msg.max_ballot,
                     max_value |-> msg.max_value ]
    OBVIOUS
  <2>2. /\ n \in Masters /\ p \in ProposerState /\ o \in ProposerState
        /\ o.status \in {"INIT", "PHASEI"} /\ msg.from \in Nodes
        /\ msg \in Message /\ msg.type = "PROMISE"
        /\ p = [o EXCEPT !.status = "PHASEI",
                         !.ack_prepare = [o.ack_prepare EXCEPT ![msg.from] = ack]]
        /\ p.curr_ballot \in OwnBallots(n) /\ p.init_value \in Values
    BY <1>1, <1>4, <2>1, AfterPromiseFields
  <2>3. /\ p.status = "PHASEI" /\ p.init_value = o.init_value
        /\ p.ack_prepare = [o.ack_prepare EXCEPT ![msg.from] = ack]
    BY <2>2 DEF ProposerState
  <2>4. msg.from # n /\ n \in Nodes /\ n \in Targets("PREPARE")
    BY <2>2 DEF OnlyListenersServe, Listeners, Masters, Targets
  <2>5. p.ack_prepare[n] = o.ack_prepare[n]
    BY <2>2, <2>3, <2>4 DEF ProposerState
  <2>6. /\ a.max_value \in {NULL, p.init_value}
        /\ p.ack_prepare[n].max_value \in {NULL, p.init_value}
    BY <1>1, <2>1, <2>2, <2>3, <2>5 DEF OwnValue
  <2>7. CASE PromiseNotEnough(msg)
    <3>1. /\ proposer' = [proposer EXCEPT ![n] = p]
          /\ acceptor' = [acceptor EXCEPT ![n] = a]
      BY <1>1, <2>1, <2>7 DEF PromiseNotEnough, TypeOK
    <3> QED  BY <2>2, <2>3, <2>6, <3>1, OthersOwnValue
  <2>8. CASE PromiseContinue(msg)
    <3>1. PICK q \in ScanPromises(p) :
             CanAdopt(q) /\ BroadcastAccept(n, AdoptValue(q), {msg})
      BY <1>1, <2>1, <2>8 DEF PromiseContinue
    <3>2. Works(n) /\ Cardinality(PrepareAcks(p)) >= qr
      BY <1>1, <2>1, <2>8 DEF PromiseContinue, PromiseStored, PromiseReceived
    <3>3. /\ Cardinality(PrepareAcks(o)) < qr
          /\ OwnAnswer(n, PrepareAcks(o))
      BY <1>1, <2>2, <2>4 DEF WaitInv, Awaits, AwaitsPromises
    <3>4. PrepareAcks(p) = PrepareAcks(o) \cup {msg.from}
      <4>1. ack.reply # "none"
        BY <2>1, <2>2, MessageFields
      <4> QED  BY <2>2, <2>3, <4>1 DEF PrepareAcks, ProposerState
    <3>5. IsFiniteSet(PrepareAcks(o)) /\ Cardinality(PrepareAcks(o)) \in Nat
      <4>1. IsFiniteSet(Nodes) /\ PrepareAcks(o) \subseteq Nodes
        BY FS_Interval, ViewAssumption DEF Nodes, PrepareAcks
      <4> QED  BY <4>1, FS_Subset, FS_CardinalityType
    <3>6. Cardinality(PrepareAcks(p)) <= qr
      BY <3>3, <3>4, <3>5, QuorumSize, FS_AddElement
    <3>7. n \in PrepareAcks(p)
      <4>1. PrepareAcks(o) # {}
        <5>1. PrepareAcks(o) = {} => PrepareAcks(p) = {msg.from}
          BY <3>4
        <5>2. ~ Cardinality({msg.from}) >= qr
          <6>1. qr \in Nat /\ Cardinality({msg.from}) < qr
            BY OneIsNoQuorum
          <6>2. Cardinality({msg.from}) = 1
            BY FS_Singleton
          <6> QED  BY <6>1, <6>2
        <5> QED  BY <3>2, <5>1, <5>2
      <4>2. n \in PrepareAcks(o)
        BY <2>4, <3>2, <3>3, <4>1 DEF OwnAnswer
      <4> QED  BY <3>4, <4>2
    <3>8. PICK r : r = AdoptValue(q)
      OBVIOUS
    <3>9. r.curr_value = p.init_value
      BY <2>2, <2>4, <2>6, <3>1, <3>6, <3>7, <3>8, AdoptsOwn
    <3>10. r \in ProposerState /\ r.init_value = p.init_value
      <4>1. /\ q \in ProposerState
            /\ q = [p EXCEPT !.max_ballot = q.max_ballot, !.max_value = q.max_value]
        BY <2>2, ScanFields
      <4>2. q.init_value = p.init_value
        BY <2>2, <4>1 DEF ProposerState
      <4>3. r \in ProposerState /\ r = [q EXCEPT !.curr_value = r.curr_value]
        BY <2>2, <3>8, <4>1, <4>2, AdoptFields
      <4>4. r.init_value = q.init_value
        BY <4>1, <4>3 DEF ProposerState
      <4> QED  BY <4>2, <4>3, <4>4
    <3>11. acceptor[n].max_value \in {NULL, r.init_value} /\ BroadcastAccept(n, r, {msg})
      BY <2>1, <2>6, <3>1, <3>8, <3>10
    <3> QED  BY <2>2, <3>9, <3>10, <3>11, BroadcastAcceptOwn
  <2>9. CASE PromiseRestart(msg)
    <3>1. PICK q \in ScanPromises(p) :
             BroadcastPrepare(n, restart_msg_prepare(q, n), {msg})
      BY <1>1, <2>1, <2>9 DEF PromiseRestart
    <3>2. /\ q \in ProposerState
          /\ q = [p EXCEPT !.max_ballot = q.max_ballot, !.max_value = q.max_value]
      BY <2>2, ScanFields
    <3>3. q.curr_ballot = p.curr_ballot /\ q.init_value = o.init_value
      BY <2>2, <2>3, <3>2 DEF ProposerState
    <3>4. q.curr_ballot < MaxRound * BallotStep
      BY <2>1, <2>9, <3>3 DEF PromiseRestart
    <3> QED  BY <1>1, <2>2, <3>1, <3>2, <3>3, <3>4, OwnRestart
  <2>10. PromiseNotEnough(msg) \/ PromiseContinue(msg) \/ PromiseRestart(msg)
    BY <1>4 DEF RecvPromise, PromiseIgnored, PromiseDrop, PromiseStored
  <2> QED  BY <2>7, <2>8, <2>9, <2>10
<1> QED
  BY <1>2, <1>3, <1>4 DEF RecvPromise, PromiseNotEnough, PromiseContinue, PromiseRestart

LEMMA OwnRecvAccepted ==
  ASSUME TypeInv, \A k \in Masters : OwnValue(k), NEW msg \in net, RecvAccepted(msg)
  PROVE  (\A k \in Masters : OwnValue(k))'
PROOF
<1> TypeOK
  BY DEF TypeInv
<1>1. CASE AcceptedIgnored(msg)
  BY <1>1 DEF AcceptedIgnored, OwnValue
<1>2. CASE AcceptedStored(msg)
  <2>1. PICK n, o, p, a : /\ n = msg.to /\ o = proposer[n]
                          /\ p = AfterAccepted(msg) /\ a = acceptor[n]
    OBVIOUS
  <2>2. /\ n \in Masters /\ p \in ProposerState /\ o \in ProposerState
        /\ o.status = "PHASEII"
        /\ p = [o EXCEPT !.ack_accept = [o.ack_accept EXCEPT ![msg.from] = msg.reply]]
        /\ p.curr_ballot \in OwnBallots(n)
    BY <1>2, <2>1, AfterAcceptedFields
  <2>3. p.status = "PHASEII" /\ p.init_value = o.init_value /\ p.curr_value = o.curr_value
    BY <2>2 DEF ProposerState
  <2>4. p.curr_value = p.init_value /\ a.max_value \in {NULL, p.init_value}
    BY <2>1, <2>2, <2>3 DEF OwnValue
  <2>5. acceptor = [acceptor EXCEPT ![n] = a]
    BY <2>1 DEF TypeOK
  <2>6. CASE AcceptedNotEnough(msg)
    <3>1. proposer' = [proposer EXCEPT ![n] = p] /\ acceptor' = acceptor
      BY <2>1, <2>6 DEF AcceptedNotEnough
    <3> QED  BY <2>2, <2>3, <2>4, <2>5, <3>1, OthersOwnValue
  <2>7. CASE AcceptedChoose(msg)
    <3>1. PICK q : q = [p EXCEPT !.status = "CHOSEN"]
      OBVIOUS
    <3>2. proposer' = [proposer EXCEPT ![n] = q] /\ acceptor' = acceptor
      BY <2>1, <2>7, <3>1 DEF AcceptedChoose
    <3>3. q.status = "CHOSEN" /\ q.init_value = p.init_value
      BY <2>2, <3>1, StatusFields
    <3> QED  BY <2>2, <2>4, <2>5, <3>2, <3>3, OthersOwnValue
  <2>8. CASE AcceptedRestart(msg)
    <3>1. /\ BroadcastPrepare(n, restart_msg_prepare(p, n), {msg})
          /\ p.curr_ballot < MaxRound * BallotStep
      BY <2>1, <2>8 DEF AcceptedRestart
    <3> QED  BY <2>1, <2>2, <2>3, <3>1, OwnRestart
  <2> QED
    BY <1>2, <2>6, <2>7, <2>8 DEF RecvAccepted, AcceptedIgnored, AcceptedStored
<1> QED
  BY <1>1, <1>2 DEF RecvAccepted, AcceptedNotEnough, AcceptedChoose, AcceptedRestart

\* The acceptor of a master receives no Interest of another node.
LEMMA OwnOtherMessages ==
  ASSUME TypeOK, OnlyListenersServe, \A k \in Masters : OwnValue(k), NEW msg \in net,
         \/ RecvPrepare(msg) \/ RecvAccept(msg) \/ RecvDecide(msg)
         \/ RecvLearn(msg) \/ RecvTeach(msg)
  PROVE  (\A k \in Masters : OwnValue(k))'
PROOF
<1>1. ASSUME NEW k \in Masters PROVE acceptor'[k] = acceptor[k]
  <2>1. CASE RecvPrepare(msg) \/ RecvAccept(msg)
    <3>1. msg.to \in Listeners
      BY <2>1 DEF OnlyListenersServe, RecvPrepare, RecvAccept
    <3>2. msg.to # k /\ k \in Nodes
      BY <3>1 DEF Listeners, Masters
    <3> QED  BY <2>1, <3>2 DEF RecvPrepare, RecvAccept, TypeOK
  <2>2. CASE RecvDecide(msg) \/ RecvLearn(msg) \/ RecvTeach(msg)
    BY <2>2 DEF RecvDecide, RecvLearn, RecvTeach
  <2> QED  BY <2>1, <2>2
<1>2. proposer' = proposer
  BY DEF RecvPrepare, RecvAccept, RecvDecide, RecvLearn, RecvTeach
<1> QED  BY <1>1, <1>2 DEF OwnValue

\* The own acceptor of a master stays clear of rival values, and with it what the
\* master takes up.
THEOREM OwnValueInvariant == Spec => []OwnValueInv
PROOF
<1>1. Init => OwnValueInv
  <2> SUFFICES ASSUME Init PROVE OwnValueInv
    OBVIOUS
  <2>1. OnlyListenersServe
    BY DEF Init, OnlyListenersServe
  <2>2. MODE_TYPE = 1 => \A n \in Masters : OwnValue(n)
    BY DEF Init, Masters, OwnValue, NewAcceptor, NoProposer
  <2> QED  BY <2>1, <2>2 DEF OwnValueInv
<1>2. IInv /\ ProgressInv /\ OwnValueInv /\ [Next]_vars => OwnValueInv'
  <2> SUFFICES ASSUME IInv, ProgressInv, OwnValueInv, [Next]_vars PROVE OwnValueInv'
    OBVIOUS
  <2>1. OnlyListenersServe'
    BY ListenersServeNext DEF OwnValueInv
  <2>2. ASSUME MODE_TYPE = 1 PROVE (\A n \in Masters : OwnValue(n))'
    <3>1. /\ \A n \in Masters : OwnValue(n)
          /\ OnlyListenersServe /\ TypeInv /\ TypeOK /\ WaitInv
      BY <2>2 DEF OwnValueInv, IInv, TypeInv, ProgressInv
    <3>2. ASSUME NEW n \in Nodes, NEW v \in Values, Commit(n, v)
          PROVE  (\A k \in Masters : OwnValue(k))'
      BY <2>2, <3>1, <3>2, OwnCommit
    <3>3. ASSUME NEW msg \in net, Recv(msg) PROVE (\A k \in Masters : OwnValue(k))'
      BY <2>2, <3>1, <3>3, OwnRecvPromise, OwnRecvAccepted, OwnOtherMessages DEF Recv
    <3>4. ASSUME NEW n \in Nodes, Crash(n) PROVE (\A k \in Masters : OwnValue(k))'
      BY <3>1, <3>4 DEF Crash, OwnValue
    <3>5. CASE UNCHANGED vars
      BY <3>1, <3>5 DEF vars, OwnValue
    <3> QED  BY <3>2, <3>3, <3>4, <3>5 DEF Next
  <2> QED  BY <2>1, <2>2 DEF OwnValueInv
<1> QED  BY <1>1, <1>2, Invariance, ProgressInvariant, PTL DEF Spec

\* In the Reed-Solomon build a proposer works for its own value only, whatever its
\* rivals get accepted and however often it restarts.
THEOREM AdoptsOwnOnlyHolds == Spec => []AdoptsOwnOnly
PROOF
<1>1. IInv /\ OwnValueInv => AdoptsOwnOnly
  <2> SUFFICES ASSUME IInv, OwnValueInv, MODE_TYPE = 1, NEW n \in Nodes,
                      proposer[n].status = "PHASEII"
               PROVE  proposer[n].curr_value = proposer[n].init_value
    BY DEF AdoptsOwnOnly
  <2>1. n \in Masters
    BY DEF IInv, TypeInv, ProposerShape
  <2> QED  BY <2>1 DEF OwnValueInv, OwnValue
<1> QED  BY <1>1, Invariance, OwnValueInvariant, PTL
=============================================================================
