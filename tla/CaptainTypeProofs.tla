------------------------- MODULE CaptainTypeProofs --------------------------
(***************************************************************************)
(* Type correctness of Captain, the window and the two commit queues, for  *)
(* any number of nodes, values, slots and threads and any window sizes.    *)
(***************************************************************************)
EXTENDS CaptainInvariants, FiniteSetTheorems, TLAPS

(***************************************************************************)
(* What the operators of Captain do.                                       *)
(***************************************************************************)

\* A new slot is none of the open ones, and the map gets nothing else.
LEMMA NewSlotFacts ==
  ASSUME TypeOK, NEW n \in Nodes, NEW p, NEW kept \in SUBSET Open(n),
         NewSlot(n, p, kept)
  PROVE  /\ NextSlot(n) \in Slots
         /\ NextSlot(n) \notin Open(n)
         /\ max_slot' = [max_slot EXCEPT ![n] = NextSlot(n)]
         /\ DOMAIN proposers' = Nodes
         /\ Open(n)' = kept \cup {NextSlot(n)}
         /\ \A t \in kept : proposers'[n][t] = proposers[n][t]
         /\ proposers'[n][NextSlot(n)] = p
         /\ proposers'[n] = [t \in Open(n)' |-> proposers'[n][t]]
         /\ \A m \in Nodes \ {n} : proposers'[m] = proposers[m]
         /\ proposed' = [proposed EXCEPT ![NextSlot(n)] = @ \cup {p.init_value}]
PROOF
<1> USE CaptainAssumption
<1>1. NextSlot(n) \notin Open(n)
  BY DEF TypeOK, NextSlot, Slots
<1>2. DOMAIN proposers = Nodes
  BY DEF TypeOK
<1> DEFINE q == [i \in kept \cup {NextSlot(n)} |->
                   IF i = NextSlot(n) THEN p ELSE proposers[n][i]]
<1>3. proposers' = [proposers EXCEPT ![n] = q]
  BY DEF NewSlot
<1>4. proposers'[n] = q /\ \A m \in Nodes \ {n} : proposers'[m] = proposers[m]
  BY <1>2, <1>3
<1>5. Open(n)' = kept \cup {NextSlot(n)}
  BY <1>4 DEF Open
<1>6. DOMAIN proposers' = Nodes
  BY <1>2, <1>3
<1> QED  BY <1>1, <1>4, <1>5, <1>6 DEF NewSlot

\* A slot that is erased from the map, as in Finish.
LEMMA EraseFacts ==
  ASSUME TypeOK, NEW n \in Nodes, NEW s \in Open(n),
         proposers' = [proposers EXCEPT ![n] = Restrict(@, Open(n) \ {s})]
  PROVE  /\ DOMAIN proposers' = Nodes
         /\ Open(n)' = Open(n) \ {s}
         /\ \A t \in Open(n) \ {s} : proposers'[n][t] = proposers[n][t]
         /\ proposers'[n] = [t \in Open(n)' |-> proposers'[n][t]]
         /\ \A m \in Nodes \ {n} : proposers'[m] = proposers[m]
PROOF
<1>1. DOMAIN proposers = Nodes
  BY DEF TypeOK
<1>2. proposers'[n] = [t \in Open(n) \ {s} |-> proposers[n][t]]
  BY <1>1 DEF Restrict
<1> QED  BY <1>1, <1>2 DEF Open

\* The records stay the same but for slot s, and the callbacks are the recorded
\* values up to the first hole.
LEMMA RecordFacts ==
  ASSUME TypeOK, NEW n \in Nodes, NEW s \in Slots, NEW v \in Values,
         add_chosen_value(n, s, v)
  PROVE  /\ chosen_values' \in [Nodes -> [Slots -> ValuesOrNull]]
         /\ called' \in [Nodes -> Seq(Values)]
         /\ \A m \in Nodes : Len(called'[m]) <= MaxSlot
         /\ chosen_values'[n][s] = IF chosen_values[n][s] = NULL THEN v
                                   ELSE chosen_values[n][s]
         /\ \A t \in Slots \ {s} : chosen_values'[n][t] = chosen_values[n][t]
         /\ \A m \in Nodes \ {n} : /\ chosen_values'[m] = chosen_values[m]
                                   /\ called'[m] = called[m]
         /\ \E k \in {0} \cup Slots :
              /\ Gapless(chosen_values'[n], k)
              /\ called'[n] = [i \in 1 .. k |-> IF i <= Len(called[n]) THEN called[n][i]
                                                ELSE chosen_values'[n][i]]
PROOF
<1> USE ViewAssumption, CaptainAssumption
<1> DEFINE values == [chosen_values[n] EXCEPT ![s] = IF @ = NULL THEN v ELSE @]
<1>1. chosen_values \in [Nodes -> [Slots -> ValuesOrNull]] /\ called \in [Nodes -> Seq(Values)]
  BY DEF TypeOK
<1>2. values \in [Slots -> ValuesOrNull]
  BY <1>1 DEF ValuesOrNull
<1>3. chosen_values' = [chosen_values EXCEPT ![n] = values]
  BY DEF add_chosen_value
<1>4. chosen_values' \in [Nodes -> [Slots -> ValuesOrNull]] /\ chosen_values'[n] = values
  BY <1>1, <1>2, <1>3
<1> DEFINE callbacks(k) == [i \in 1 .. k |-> IF i <= Len(called[n]) THEN called[n][i]
                                             ELSE values[i]]
<1>5. PICK k \in {0} \cup Slots : Gapless(values, k) /\ called' = [called EXCEPT ![n] = callbacks(k)]
  BY DEF add_chosen_value
<1>6. callbacks(k) \in Seq(Values)
  <2>1. k \in Nat /\ 1 .. k \subseteq Slots
    BY DEF Slots
  <2>2. \A i \in 1 .. k : values[i] \in Values
    BY <1>2, <1>5, <2>1 DEF Gapless, ValuesOrNull
  <2>3. \A i \in 1 .. k : i <= Len(called[n]) => called[n][i] \in Values
    BY <1>1
  <2> QED  BY <2>1, <2>2, <2>3
<1>7. called' \in [Nodes -> Seq(Values)] /\ called'[n] = callbacks(k)
  BY <1>1, <1>5, <1>6
<1>8. \A m \in Nodes \ {n} : chosen_values'[m] = chosen_values[m] /\ called'[m] = called[m]
  BY <1>1, <1>3, <1>5
<1>9. \A m \in Nodes : Len(called'[m]) <= MaxSlot
  <2>1. Len(callbacks(k)) = k /\ k <= MaxSlot
    BY DEF Slots
  <2> QED  BY <1>7, <1>8, <2>1 DEF TypeOK
<1>10. /\ values[s] = IF chosen_values[n][s] = NULL THEN v ELSE chosen_values[n][s]
      /\ \A t \in Slots \ {s} : values[t] = chosen_values[n][t]
  BY <1>1
<1>11. \E j \in {0} \cup Slots :
          /\ Gapless(chosen_values'[n], j)
          /\ called'[n] = [i \in 1 .. j |-> IF i <= Len(called[n]) THEN called[n][i]
                                            ELSE chosen_values'[n][i]]
  BY <1>4, <1>5, <1>7
<1>12. \A t \in Slots \ {s} : chosen_values'[n][t] = chosen_values[n][t]
  BY <1>4, <1>10
<1> HIDE DEF values, callbacks
<1> QED  BY <1>4, <1>7, <1>8, <1>9, <1>10, <1>11, <1>12

\* What is announced is a set of messages.
LEMMA MessageTypes ==
  ASSUME NEW n \in Nodes, NEW s \in Slots, NEW v \in ValuesOrNull, NEW w \in ValuesOrNull
  PROVE  /\ \A m \in Nodes, type \in {"DECIDE", "LEARN", "TEACH"} :
              Message(type, n, m, s, v) \in
                [ type : {"DECIDE", "LEARN", "TEACH"}, from : Nodes, to : Nodes,
                  slot : Slots, value : ValuesOrNull ]
         /\ Announce(n, s, v, w) \subseteq
              [ type : {"DECIDE", "LEARN", "TEACH"}, from : Nodes, to : Nodes,
                slot : Slots, value : ValuesOrNull ]
PROOF
<1>1. \A type : Reach(n, type) \subseteq Nodes
  BY DEF Reach, Listeners
<1> QED  BY <1>1 DEF Message, Announce

(***************************************************************************)
(* Type correctness.                                                       *)
(***************************************************************************)

LEMMA TypeInit == Init => TypeOK
PROOF
<1> USE ViewAssumption, CaptainAssumption
<1> SUFFICES ASSUME Init PROVE TypeOK
  OBVIOUS
<1>1. \A n \in Nodes : Open(n) = {}
  BY DEF Init, Open
<1>2. \A n \in Nodes : proposers[n] \in [Open(n) -> Infos]
  BY <1>1 DEF Init
<1> QED  BY <1>1, <1>2 DEF Init, TypeOK, ValuesOrNull

\* The part of TypeOK about the map of open slots follows from NewSlotFacts.
LEMMA NewSlotTypes ==
  ASSUME TypeOK, NEW n \in Nodes, NEW p \in Infos, NEW kept \in SUBSET Open(n),
         NewSlot(n, p, kept)
  PROVE  /\ DOMAIN proposers' = Nodes
         /\ \A m \in Nodes : /\ Open(m)' \subseteq 1 .. max_slot'[m]
                             /\ proposers'[m] \in [Open(m)' -> Infos]
         /\ max_slot' \in [Nodes -> 0 .. MaxSlot]
         /\ proposed' \in [Slots -> SUBSET Values]
PROOF
<1> USE ViewAssumption, CaptainAssumption
<1> DEFINE s == NextSlot(n)
<1>1. /\ s \in Slots
      /\ max_slot' = [max_slot EXCEPT ![n] = s]
      /\ DOMAIN proposers' = Nodes
      /\ Open(n)' = kept \cup {s}
      /\ \A t \in kept : proposers'[n][t] = proposers[n][t]
      /\ proposers'[n][s] = p
      /\ proposers'[n] = [t \in Open(n)' |-> proposers'[n][t]]
      /\ \A m \in Nodes \ {n} : proposers'[m] = proposers[m]
      /\ proposed' = [proposed EXCEPT ![s] = @ \cup {p.init_value}]
  BY NewSlotFacts
<1>2. s = max_slot[n] + 1
  BY DEF NextSlot
<1> HIDE DEF s
<1>3. max_slot' \in [Nodes -> 0 .. MaxSlot]
  BY <1>1 DEF TypeOK, Slots
<1>4. ASSUME NEW m \in Nodes
      PROVE  /\ Open(m)' \subseteq 1 .. max_slot'[m]
             /\ proposers'[m] \in [Open(m)' -> Infos]
  <2>1. CASE m = n
    <3>1. kept \subseteq 1 .. max_slot[n] /\ max_slot[n] \in Nat /\ max_slot'[n] = s
      BY <1>1 DEF TypeOK
    <3>2. Open(n)' \subseteq 1 .. s
      <4> SUFFICES ASSUME NEW t \in Open(n)' PROVE t \in 1 .. s
        OBVIOUS
      <4>1. t \in 1 .. max_slot[n] \/ t = s
        BY <3>1, <1>1
      <4> QED  BY <3>1, <4>1, <1>2
    <3>3. \A t \in Open(n)' : proposers'[n][t] \in Infos
      BY <1>1 DEF TypeOK
    <3> QED  BY <2>1, <3>1, <3>2, <3>3, <1>1
  <2>2. CASE m # n
    BY <2>2, <1>1 DEF TypeOK, Open
  <2> QED  BY <2>1, <2>2
<1>5. proposed' \in [Slots -> SUBSET Values]
  <2>1. p.init_value \in Values
    BY DEF Infos
  <2> QED  BY <1>1, <2>1 DEF TypeOK
<1> QED  BY <1>1, <1>3, <1>4, <1>5

\* The queues are aligned, so that both have a head, and a message that carries
\* a value carries the one of its slot.
LEMMA TypeNext ==
  TypeOK /\ QueueInOrder /\ MessagesTrue /\ [Next]_vars => TypeOK'
PROOF
<1> USE ViewAssumption, CaptainAssumption
<1> SUFFICES ASSUME TypeOK, QueueInOrder, MessagesTrue, [Next]_vars PROVE TypeOK'
  OBVIOUS
<1> DEFINE Msgs == [ type : {"DECIDE", "LEARN", "TEACH"}, from : Nodes, to : Nodes,
                     slot : Slots, value : ValuesOrNull ]
           Told_ == [slot : Slots, client : Names, try_time : Nat]
<1>1. ASSUME NEW n \in Nodes, NEW v \in Values, Commit(n, v) PROVE TypeOK'
  <2>0. CommitCalled(n, v)
    BY <1>1 DEF Commit, CommitQueued, CommitStarted
  <2>1. /\ committed' \in [Nodes -> Seq(Values)]
        /\ UNCHANGED <<work, chosen_values, choosing, called, net, decided, informed>>
    <3>1. Append(committed[n], v) \in Seq(Values)
      BY DEF TypeOK
    <3> QED  BY <2>0, <3>1 DEF CommitCalled, TypeOK
  <2>2. ClientName(v) \in Names
    BY DEF ClientName, Names
  <2>3. CASE CommitQueued(n, v)
    <3>1. /\ tocommit_values' \in [Nodes -> Seq(Values)]
          /\ tocommit_clients' \in [Nodes -> Seq(Names)]
          /\ UNCHANGED <<proposers, max_slot, proposed>>
      BY <2>2, <2>3 DEF CommitQueued, TypeOK
    <3> QED  BY <2>1, <3>1 DEF TypeOK, Open
  <2>4. CASE CommitStarted(n, v)
    <3> DEFINE values == Append(tocommit_values[n], v)
               clients == Append(tocommit_clients[n], ClientName(v))
               p == Info(Head(values), Head(clients), 1)
    <3>1. /\ values \in Seq(Values) /\ values # <<>>
          /\ clients \in Seq(Names) /\ clients # <<>>
      <4>1. tocommit_values[n] \in Seq(Values) /\ tocommit_clients[n] \in Seq(Names)
        BY DEF TypeOK
      <4>2. Len(values) = Len(tocommit_values[n]) + 1 /\ Len(clients) = Len(tocommit_clients[n]) + 1
        BY <2>2, <4>1
      <4>3. values \in Seq(Values) /\ clients \in Seq(Names)
        BY <2>2, <4>1
      <4>4. Len(values) # 0 /\ Len(clients) # 0
        BY <4>1, <4>2
      <4> HIDE DEF values, clients
      <4> QED  BY <4>3, <4>4
    <3>2. /\ Head(values) \in Values /\ Tail(values) \in Seq(Values)
          /\ Head(clients) \in Names /\ Tail(clients) \in Seq(Names)
      BY <3>1
    <3>3. p \in Infos
      BY <3>2 DEF Info, Infos
    <3>4. /\ NewSlot(n, p, Open(n))
          /\ tocommit_values'  = [tocommit_values EXCEPT ![n] = Tail(values)]
          /\ tocommit_clients' = [tocommit_clients EXCEPT ![n] = Tail(clients)]
      BY <2>4 DEF CommitStarted
    <3>5. /\ DOMAIN proposers' = Nodes
          /\ \A m \in Nodes : /\ Open(m)' \subseteq 1 .. max_slot'[m]
                              /\ proposers'[m] \in [Open(m)' -> Infos]
          /\ max_slot' \in [Nodes -> 0 .. MaxSlot]
          /\ proposed' \in [Slots -> SUBSET Values]
      BY <3>3, <3>4, NewSlotTypes
    <3>6. Open(n) \subseteq Open(n)' /\ \A m \in Nodes \ {n} : Open(m)' = Open(m)
      <4> HIDE DEF p
      <4>1. Open(n)' = Open(n) \cup {NextSlot(n)} /\ \A m \in Nodes \ {n} : proposers'[m] = proposers[m]
        BY <3>4, NewSlotFacts
      <4> QED  BY <4>1 DEF Open
    <3>7. \A m \in Nodes : choosing'[m] \subseteq Open(m)'
      <4>1. choosing' = choosing /\ \A m \in Nodes : choosing[m] \subseteq Open(m)
        BY <2>1 DEF TypeOK
      <4> QED  BY <3>6, <4>1
    <3>8. /\ tocommit_values' \in [Nodes -> Seq(Values)]
          /\ tocommit_clients' \in [Nodes -> Seq(Names)]
      BY <3>2, <3>4 DEF TypeOK
    <3> QED  BY <2>1, <3>5, <3>7, <3>8 DEF TypeOK
  <2> QED  BY <1>1, <2>3, <2>4 DEF Commit
<1>2. ASSUME NEW s \in Slots, Decide(s) PROVE TypeOK'
  <2>1. decided' \in [Slots -> ValuesOrNull]
    BY <1>2 DEF Decide, TypeOK, ValuesOrNull
  <2>2. UNCHANGED <<node_vars, net, proposed, committed, informed>>
    BY <1>2 DEF Decide
  <2> QED  BY <2>1, <2>2 DEF TypeOK, node_vars, Open
<1>3. ASSUME NEW n \in Nodes, NEW s \in Slots, Choose(n, s) PROVE TypeOK'
  <2>1. decided[s] \in Values /\ s \in Open(n)
    BY <1>3 DEF Choose, TypeOK, ValuesOrNull
  <2>2. /\ chosen_values' \in [Nodes -> [Slots -> ValuesOrNull]]
        /\ called' \in [Nodes -> Seq(Values)]
        /\ \A m \in Nodes : Len(called'[m]) <= MaxSlot
    BY <1>3, <2>1, RecordFacts DEF Choose
  <2>3. net' \subseteq Msgs
    <3>1. Announce(n, s, decided[s], chosen_values'[n][s]) \subseteq Msgs
      <4>1. decided[s] \in ValuesOrNull /\ chosen_values'[n][s] \in ValuesOrNull
        BY <2>1, <2>2 DEF ValuesOrNull
      <4> QED  BY <4>1, MessageTypes
    <3> QED  BY <1>3, <3>1 DEF Choose, TypeOK
  <2>4. informed' \subseteq Told_
    <3>1. proposers[n][s] \in Infos
      BY <2>1 DEF TypeOK
    <3>2. Told(n, s) \subseteq Told_
      BY <3>1 DEF Told, Infos
    <3> QED  BY <1>3, <3>2 DEF Choose, TypeOK
  <2>5. /\ choosing' \in [Nodes -> SUBSET Slots]
        /\ \A m \in Nodes : choosing'[m] \subseteq Open(m)
    BY <1>3, <2>1 DEF Choose, TypeOK
  <2>6. UNCHANGED <<work, proposers, tocommit_values, tocommit_clients, max_slot,
                    decided, proposed, committed>>
    BY <1>3 DEF Choose
  <2> QED  BY <2>2, <2>3, <2>4, <2>5, <2>6 DEF TypeOK, Open
<1>4. ASSUME NEW n \in Nodes, NEW s \in Slots, EndChoose(n, s) PROVE TypeOK'
  <2>1. /\ s \in Open(n)
        /\ choosing' = [choosing EXCEPT ![n] = @ \ {s}]
        /\ UNCHANGED <<work, chosen_values, called, net, decided, committed, informed>>
    BY <1>4 DEF EndChoose, Finish, StartNext, Recommit, Chosen, TypeOK
  <2>2. \A m \in Nodes : choosing'[m] \subseteq (IF m = n THEN Open(n) \ {s} ELSE Open(m))
    BY <2>1 DEF TypeOK
  <2>3. choosing' \in [Nodes -> SUBSET Slots]
    BY <2>1 DEF TypeOK
  <2>4. ASSUME NEW p \in Infos, NewSlot(n, p, Open(n) \ {s}),
               tocommit_values' \in [Nodes -> Seq(Values)],
               tocommit_clients' \in [Nodes -> Seq(Names)]
        PROVE  TypeOK'
    <3>1. /\ DOMAIN proposers' = Nodes
          /\ \A m \in Nodes : /\ Open(m)' \subseteq 1 .. max_slot'[m]
                              /\ proposers'[m] \in [Open(m)' -> Infos]
          /\ max_slot' \in [Nodes -> 0 .. MaxSlot]
          /\ proposed' \in [Slots -> SUBSET Values]
      BY <2>4, NewSlotTypes
    <3>2. Open(n) \ {s} \subseteq Open(n)' /\ \A m \in Nodes \ {n} : Open(m)' = Open(m)
      <4>1. /\ Open(n)' = (Open(n) \ {s}) \cup {NextSlot(n)}
            /\ \A m \in Nodes \ {n} : proposers'[m] = proposers[m]
        BY <2>4, NewSlotFacts
      <4> QED  BY <4>1 DEF Open
    <3>3. \A m \in Nodes : choosing'[m] \subseteq Open(m)'
      BY <2>2, <3>2
    <3> QED  BY <2>1, <2>3, <2>4, <3>1, <3>3 DEF TypeOK
  <2>5. CASE Finish(n, s)
    <3>1. /\ proposers' = [proposers EXCEPT ![n] = Restrict(@, Open(n) \ {s})]
          /\ UNCHANGED <<tocommit_values, tocommit_clients, max_slot, proposed>>
      BY <2>5 DEF Finish
    <3>2. /\ DOMAIN proposers' = Nodes
          /\ Open(n)' = Open(n) \ {s}
          /\ \A t \in Open(n) \ {s} : proposers'[n][t] = proposers[n][t]
          /\ proposers'[n] = [t \in Open(n)' |-> proposers'[n][t]]
          /\ \A m \in Nodes \ {n} : proposers'[m] = proposers[m]
      BY <2>1, <3>1, EraseFacts
    <3>3. \A m \in Nodes \ {n} : Open(m)' = Open(m)
      BY <3>2 DEF Open
    <3>4. \A m \in Nodes : /\ Open(m)' \subseteq 1 .. max_slot'[m]
                           /\ proposers'[m] \in [Open(m)' -> Infos]
                           /\ choosing'[m] \subseteq Open(m)'
      <4> SUFFICES ASSUME NEW m \in Nodes
                   PROVE  /\ Open(m)' \subseteq 1 .. max_slot'[m]
                          /\ proposers'[m] \in [Open(m)' -> Infos]
                          /\ choosing'[m] \subseteq Open(m)'
        OBVIOUS
      <4>1. Open(m) \subseteq 1 .. max_slot[m] /\ proposers[m] \in [Open(m) -> Infos]
        BY DEF TypeOK
      <4>2. CASE m = n
        <5>1. \A t \in Open(n)' : proposers'[n][t] \in Infos
          BY <3>2, <4>1, <4>2
        <5> QED  BY <2>2, <3>1, <3>2, <4>1, <4>2, <5>1
      <4>3. CASE m # n
        BY <2>2, <3>1, <3>2, <3>3, <4>1, <4>3
      <4> QED  BY <4>2, <4>3
    <3> QED  BY <2>1, <2>3, <3>1, <3>2, <3>4 DEF TypeOK
  <2>6. CASE StartNext(n, s)
    <3> DEFINE p == Info(Head(tocommit_values[n]), Head(tocommit_clients[n]), 1)
    <3>1. /\ tocommit_values[n] \in Seq(Values) /\ tocommit_values[n] # <<>>
          /\ tocommit_clients[n] \in Seq(Names)
      BY <2>6 DEF StartNext, TypeOK
    <3>2. tocommit_clients[n] # <<>>
      BY <3>1 DEF QueueInOrder
    <3>3. /\ Head(tocommit_values[n]) \in Values
          /\ Tail(tocommit_values[n]) \in Seq(Values)
          /\ Head(tocommit_clients[n]) \in Names
          /\ Tail(tocommit_clients[n]) \in Seq(Names)
      BY <3>1, <3>2
    <3>4. p \in Infos
      BY <3>3 DEF Info, Infos
    <3>5. /\ NewSlot(n, p, Open(n) \ {s})
          /\ tocommit_values'  = [tocommit_values EXCEPT ![n] = Tail(@)]
          /\ tocommit_clients' = [tocommit_clients EXCEPT ![n] = Tail(@)]
      BY <2>6 DEF StartNext
    <3>6. /\ tocommit_values' \in [Nodes -> Seq(Values)]
          /\ tocommit_clients' \in [Nodes -> Seq(Names)]
      BY <3>3, <3>5 DEF TypeOK
    <3> QED  BY <2>4, <3>4, <3>5, <3>6
  <2>7. CASE Recommit(n, s)
    <3>1. proposers[n][s] \in Infos
      BY <2>1 DEF TypeOK
    <3>2. Info(proposers[n][s].init_value, DataName, proposers[n][s].try_time + 1) \in Infos
      BY <3>1 DEF Info, Infos, Names
    <3> QED  BY <2>4, <2>7, <3>2 DEF Recommit, TypeOK
  <2> QED  BY <1>4, <2>5, <2>6, <2>7 DEF EndChoose
<1>5. ASSUME NEW msg \in net, Recv(msg) PROVE TypeOK'
  <2>1. msg \in Msgs
    BY DEF TypeOK
  <2> DEFINE n == msg.to
  <2>2. UNCHANGED <<work, proposers, tocommit_values, tocommit_clients, max_slot,
                    choosing, decided, proposed, committed, informed>>
    BY <1>5 DEF Recv, RecvDecide, RecvLearn, RecvTeach, Received
  <2>3. net' \subseteq Msgs
    <3>1. \A v \in ValuesOrNull, type \in {"LEARN", "TEACH"} :
            Message(type, n, msg.from, msg.slot, v) \in Msgs
      BY <2>1, MessageTypes
    <3>2. chosen_values[n][msg.slot] \in ValuesOrNull /\ NULL \in ValuesOrNull
      BY <2>1 DEF TypeOK, ValuesOrNull
    <3>3. net \subseteq Msgs
      BY DEF TypeOK
    <3>4. ASSUME RecvLearn(msg) PROVE net' \subseteq Msgs
      BY <3>1, <3>2, <3>3, <3>4 DEF RecvLearn
    <3>5. ASSUME RecvDecide(msg) \/ RecvTeach(msg) PROVE net' \subseteq Msgs
      BY <3>1, <3>2, <3>3, <3>5 DEF RecvDecide, RecvTeach
    <3> QED  BY <1>5, <3>4, <3>5 DEF Recv
  <2>4. /\ chosen_values' \in [Nodes -> [Slots -> ValuesOrNull]]
        /\ called' \in [Nodes -> Seq(Values)]
        /\ \A m \in Nodes : Len(called'[m]) <= MaxSlot
    <3>1. CASE UNCHANGED <<chosen_values, called>>
      BY <3>1 DEF TypeOK
    <3>2. CASE /\ msg.type \in {"DECIDE", "TEACH"}
               /\ add_chosen_value(n, msg.slot, msg.value)
      <4>1. msg.value \in Values
        BY <2>1, <3>2 DEF MessagesTrue, TypeOK, ValuesOrNull
      <4> QED  BY <2>1, <3>2, <4>1, RecordFacts
    <3> QED  BY <1>5, <3>1, <3>2 DEF Recv, RecvDecide, RecvLearn, RecvTeach
  <2> QED  BY <2>2, <2>3, <2>4 DEF TypeOK, Open
<1>6. ASSUME NEW n \in Nodes, Crash(n) PROVE TypeOK'
  <2>1. work' \in [Nodes -> BOOLEAN]
    BY <1>6 DEF Crash, TypeOK
  <2>2. UNCHANGED <<proposers, tocommit_values, tocommit_clients, max_slot,
                    chosen_values, choosing, called, net, decided, proposed,
                    committed, informed>>
    BY <1>6 DEF Crash
  <2> QED  BY <2>1, <2>2 DEF TypeOK, Open
<1>7. CASE UNCHANGED vars
  BY <1>7 DEF TypeOK, vars, node_vars, Open
<1> QED  BY <1>1, <1>2, <1>3, <1>4, <1>5, <1>6, <1>7 DEF Next

(***************************************************************************)
(* The window and the queues.                                              *)
(***************************************************************************)

LEMMA OpenFinite ==
  ASSUME TypeOK, NEW n \in Nodes
  PROVE  IsFiniteSet(Open(n)) /\ Cardinality(Open(n)) \in Nat
PROOF
<1>1. Open(n) \subseteq 1 .. max_slot[n] /\ max_slot[n] \in Nat /\ 1 \in Int
  BY CaptainAssumption DEF TypeOK
<1>2. IsFiniteSet(1 .. max_slot[n])
  BY <1>1, FS_Interval
<1>3. IsFiniteSet(Open(n))
  BY <1>1, <1>2, FS_Subset
<1> QED  BY <1>3, FS_CardinalityType

\* The number of open slots after a new one was started in place of s, and
\* after s was erased.
LEMMA OpenCounts ==
  ASSUME TypeOK, NEW n \in Nodes, NEW t, t \notin Open(n)
  PROVE  /\ Cardinality(Open(n) \cup {t}) = Cardinality(Open(n)) + 1
         /\ \A s \in Open(n) :
              /\ Cardinality(Open(n) \ {s}) = Cardinality(Open(n)) - 1
              /\ Cardinality((Open(n) \ {s}) \cup {t}) = Cardinality(Open(n))
PROOF
<1>1. IsFiniteSet(Open(n)) /\ Cardinality(Open(n)) \in Nat
  BY OpenFinite
<1>2. Cardinality(Open(n) \cup {t}) = Cardinality(Open(n)) + 1
  BY <1>1, FS_AddElement
<1>3. ASSUME NEW s \in Open(n)
      PROVE  /\ Cardinality(Open(n) \ {s}) = Cardinality(Open(n)) - 1
             /\ Cardinality((Open(n) \ {s}) \cup {t}) = Cardinality(Open(n))
  <2>1. IsFiniteSet(Open(n) \ {s}) /\ Cardinality(Open(n) \ {s}) = Cardinality(Open(n)) - 1
    BY <1>1, FS_RemoveElement
  <2>2. Cardinality((Open(n) \ {s}) \cup {t}) = Cardinality(Open(n) \ {s}) + 1
    BY <2>1, FS_AddElement
  <2> QED  BY <1>1, <2>1, <2>2
<1> QED  BY <1>2, <1>3

\* What one step does to the open slots and the queue of a node.
WindowStep(n) ==
  \/ UNCHANGED <<Open(n), tocommit_values[n]>>
  \/ WindowFull(n) /\ UNCHANGED Open(n)
  \/ /\ ~ WindowFull(n)
     /\ \E t : t \notin Open(n) /\ Open(n)' = Open(n) \cup {t}
     /\ tocommit_values[n] = <<>> => tocommit_values'[n] = <<>>
  \/ /\ tocommit_values[n] = <<>> /\ tocommit_values'[n] = <<>>
     /\ \E s \in Open(n) : Open(n)' = Open(n) \ {s}
  \/ /\ \E s \in Open(n) : \E t : t \notin Open(n) /\ Open(n)' = (Open(n) \ {s}) \cup {t}
     /\ tocommit_values[n] = <<>> => tocommit_values'[n] = <<>>

LEMMA EveryStepIsWindowStep ==
  ASSUME TypeOK, QueueInOrder, [Next]_vars, NEW m \in Nodes
  PROVE  WindowStep(m)
PROOF
<1>1. ASSUME NEW n \in Nodes, NEW v \in Values, Commit(n, v) PROVE WindowStep(m)
  <2>1. CASE CommitQueued(n, v)
    <3>1. UNCHANGED Open(m)
      BY <2>1 DEF CommitQueued, Open
    <3>2. m # n => UNCHANGED tocommit_values[m]
      BY <2>1 DEF CommitQueued, TypeOK
    <3>3. WindowFull(n)
      BY <2>1 DEF CommitQueued
    <3> QED  BY <3>1, <3>2, <3>3 DEF WindowStep
  <2>2. CASE CommitStarted(n, v)
    <3> DEFINE values == Append(tocommit_values[n], v)
               clients == Append(tocommit_clients[n], ClientName(v))
               p == Info(Head(values), Head(clients), 1)
    <3>1. NewSlot(n, p, Open(n)) /\ ~ WindowFull(n)
      BY <2>2 DEF CommitStarted
    <3> HIDE DEF p
    <3>2. /\ NextSlot(n) \notin Open(n)
          /\ Open(n)' = Open(n) \cup {NextSlot(n)}
          /\ \A i \in Nodes \ {n} : proposers'[i] = proposers[i]
      BY <3>1, NewSlotFacts
    <3>3. m # n => UNCHANGED <<Open(m), tocommit_values[m]>>
      BY <2>2, <3>2 DEF CommitStarted, TypeOK, Open
    <3>4. tocommit_values[n] = <<>> => tocommit_values'[n] = <<>>
      <4>1. tocommit_values'[n] = Tail(Append(tocommit_values[n], v))
        BY <2>2 DEF CommitStarted, TypeOK
      <4> QED  BY <4>1
    <3> QED  BY <3>1, <3>2, <3>3, <3>4 DEF WindowStep
  <2> QED  BY <1>1, <2>1, <2>2 DEF Commit
<1>2. ASSUME NEW n \in Nodes, NEW s \in Slots, EndChoose(n, s) PROVE WindowStep(m)
  <2>1. s \in Open(n)
    BY <1>2 DEF EndChoose, Finish, StartNext, Recommit, Chosen, TypeOK
  <2>2. CASE Finish(n, s)
    <3>1. /\ Open(n)' = Open(n) \ {s}
          /\ \A i \in Nodes \ {n} : proposers'[i] = proposers[i]
      BY <2>1, <2>2, EraseFacts DEF Finish
    <3>2. m # n => UNCHANGED <<Open(m), tocommit_values[m]>>
      BY <2>2, <3>1 DEF Finish, Open
    <3>3. tocommit_values[n] = <<>> /\ tocommit_values'[n] = <<>>
      BY <2>2 DEF Finish
    <3> QED  BY <2>1, <3>1, <3>2, <3>3 DEF WindowStep
  <2>3. ASSUME NEW p, NewSlot(n, p, Open(n) \ {s}),
               \A i \in Nodes \ {n} : tocommit_values'[i] = tocommit_values[i],
               tocommit_values[n] = <<>> => tocommit_values'[n] = <<>>
        PROVE  WindowStep(m)
    <3>1. /\ NextSlot(n) \notin Open(n)
          /\ Open(n)' = (Open(n) \ {s}) \cup {NextSlot(n)}
          /\ \A i \in Nodes \ {n} : proposers'[i] = proposers[i]
      BY <2>3, NewSlotFacts
    <3>2. m # n => UNCHANGED <<Open(m), tocommit_values[m]>>
      BY <2>3, <3>1 DEF Open
    <3> QED  BY <2>1, <2>3, <3>1, <3>2 DEF WindowStep
  <2>4. CASE StartNext(n, s)
    <3>1. /\ \A i \in Nodes \ {n} : tocommit_values'[i] = tocommit_values[i]
          /\ tocommit_values[n] # <<>>
      BY <2>4 DEF StartNext, TypeOK
    <3> QED  BY <2>3, <2>4, <3>1 DEF StartNext
  <2>5. CASE Recommit(n, s)
    BY <2>3, <2>5 DEF Recommit
  <2> QED  BY <1>2, <2>2, <2>4, <2>5 DEF EndChoose
<1>3. ASSUME UNCHANGED <<proposers, tocommit_values>> PROVE WindowStep(m)
  BY <1>3 DEF WindowStep, Open
<1>4. ASSUME NEW s \in Slots, Decide(s) PROVE WindowStep(m)
  BY <1>3, <1>4 DEF Decide, node_vars
<1>5. ASSUME NEW n \in Nodes, NEW s \in Slots, Choose(n, s) PROVE WindowStep(m)
  BY <1>3, <1>5 DEF Choose
<1>6. ASSUME NEW msg \in net, Recv(msg) PROVE WindowStep(m)
  BY <1>3, <1>6 DEF Recv, RecvDecide, RecvLearn, RecvTeach, Received
<1>7. ASSUME NEW n \in Nodes, Crash(n) PROVE WindowStep(m)
  BY <1>3, <1>7 DEF Crash
<1>8. CASE UNCHANGED vars
  BY <1>3, <1>8 DEF vars, node_vars
<1> QED  BY <1>1, <1>2, <1>4, <1>5, <1>6, <1>7, <1>8 DEF Next

LEMMA WindowNext ==
  TypeOK /\ QueueInOrder /\ WindowRespected /\ [Next]_vars => WindowRespected'
PROOF
<1> SUFFICES ASSUME TypeOK, QueueInOrder, WindowRespected, [Next]_vars, NEW n \in Nodes
             PROVE  /\ Cardinality(Open(n)') <= WindowSize[n]
                    /\ tocommit_values'[n] # <<>> => Cardinality(Open(n)') = WindowSize[n]
  BY DEF WindowRespected, WindowFull
<1>1. WindowStep(n)
  BY EveryStepIsWindowStep
<1>2. Cardinality(Open(n)) \in Nat /\ WindowSize[n] \in Nat
  BY OpenFinite, CaptainAssumption
<1>3. /\ Cardinality(Open(n)) <= WindowSize[n]
      /\ tocommit_values[n] # <<>> => Cardinality(Open(n)) = WindowSize[n]
  BY DEF WindowRespected, WindowFull
<1>4. ASSUME NEW t, t \notin Open(n)
      PROVE  /\ Cardinality(Open(n) \cup {t}) = Cardinality(Open(n)) + 1
             /\ \A s \in Open(n) :
                  /\ Cardinality(Open(n) \ {s}) = Cardinality(Open(n)) - 1
                  /\ Cardinality((Open(n) \ {s}) \cup {t}) = Cardinality(Open(n))
  BY <1>4, OpenCounts
<1>5. 0 \notin Open(n)
  BY CaptainAssumption DEF TypeOK
<1>6. CASE UNCHANGED <<Open(n), tocommit_values[n]>>
  BY <1>3, <1>6
<1>7. CASE WindowFull(n) /\ UNCHANGED Open(n)
  BY <1>2, <1>7 DEF WindowFull
<1>8. CASE /\ ~ WindowFull(n)
           /\ \E t : t \notin Open(n) /\ Open(n)' = Open(n) \cup {t}
           /\ tocommit_values[n] = <<>> => tocommit_values'[n] = <<>>
  <2>1. Cardinality(Open(n)') = Cardinality(Open(n)) + 1
    BY <1>4, <1>8
  <2>2. Cardinality(Open(n)) # WindowSize[n]
    BY <1>8 DEF WindowFull
  <2> QED  BY <1>2, <1>3, <1>8, <2>1, <2>2
<1>9. CASE /\ tocommit_values[n] = <<>> /\ tocommit_values'[n] = <<>>
           /\ \E s \in Open(n) : Open(n)' = Open(n) \ {s}
  <2>1. Cardinality(Open(n)') = Cardinality(Open(n)) - 1
    BY <1>4, <1>5, <1>9
  <2> QED  BY <1>2, <1>3, <1>9, <2>1
<1>10. CASE /\ \E s \in Open(n) : \E t : t \notin Open(n) /\ Open(n)' = (Open(n) \ {s}) \cup {t}
            /\ tocommit_values[n] = <<>> => tocommit_values'[n] = <<>>
  <2>1. Cardinality(Open(n)') = Cardinality(Open(n))
    BY <1>4, <1>10
  <2> QED  BY <1>3, <1>10, <2>1
<1> QED  BY <1>1, <1>6, <1>7, <1>8, <1>9, <1>10 DEF WindowStep

\* The queues are the last part of what was committed.
LEMMA QueueNext ==
  TypeOK /\ WindowRespected /\ QueueInOrder /\ [Next]_vars => QueueInOrder'
PROOF
<1> DEFINE InOrder(values, clients, all) ==
             LET started == Len(all) - Len(values) IN
             /\ started >= 0
             /\ Len(clients) = Len(values)
             /\ \A i \in DOMAIN values : /\ values[i] = all[started + i]
                                         /\ clients[i] = ClientName(values[i])
<1> SUFFICES ASSUME TypeOK, WindowRespected, QueueInOrder, [Next]_vars, NEW m \in Nodes
             PROVE  InOrder(tocommit_values'[m], tocommit_clients'[m], committed'[m])
  BY DEF QueueInOrder
<1>1. InOrder(tocommit_values[m], tocommit_clients[m], committed[m])
  BY DEF QueueInOrder
<1>2. /\ tocommit_values[m] \in Seq(Values)
      /\ tocommit_clients[m] \in Seq(Names)
      /\ committed[m] \in Seq(Values)
  BY DEF TypeOK
<1> DEFINE Goal == InOrder(tocommit_values'[m], tocommit_clients'[m], committed'[m])
<1>3. ASSUME UNCHANGED <<tocommit_values[m], tocommit_clients[m], committed[m]>> PROVE Goal
  BY <1>1, <1>3
<1>4. ASSUME NEW n \in Nodes, NEW v \in Values, Commit(n, v) PROVE Goal
  <2>1. committed' = [committed EXCEPT ![n] = Append(@, v)]
    BY <1>4 DEF Commit, CommitQueued, CommitStarted, CommitCalled
  <2>2. CASE m # n
    BY <1>3, <1>4, <2>1, <2>2 DEF Commit, CommitQueued, CommitStarted, TypeOK
  <2>3. CASE m = n /\ CommitQueued(n, v)
    <3> DEFINE values == tocommit_values[m]
               clients == tocommit_clients[m]
    <3>1. /\ tocommit_values'[m] = Append(values, v)
          /\ tocommit_clients'[m] = Append(clients, ClientName(v))
          /\ committed'[m] = Append(committed[m], v)
      BY <2>1, <2>3 DEF CommitQueued, TypeOK
    <3>2. ClientName(v) \in Names
      BY DEF ClientName, Names
    <3>3. /\ Len(tocommit_values'[m]) = Len(values) + 1
          /\ Len(tocommit_clients'[m]) = Len(clients) + 1
          /\ Len(committed'[m]) = Len(committed[m]) + 1
          /\ DOMAIN tocommit_values'[m] = 1 .. Len(values) + 1
      BY <1>2, <3>1, <3>2
    <3>4. ASSUME NEW i \in 1 .. Len(values) + 1
          PROVE  /\ tocommit_values'[m][i] = IF i = Len(values) + 1 THEN v ELSE values[i]
                 /\ tocommit_clients'[m][i] = IF i = Len(clients) + 1 THEN ClientName(v)
                                              ELSE clients[i]
      BY <1>1, <1>2, <3>1, <3>2
    <3>5. ASSUME NEW i \in 1 .. Len(committed[m]) + 1
          PROVE  committed'[m][i] = IF i = Len(committed[m]) + 1 THEN v ELSE committed[m][i]
      BY <1>2, <3>1
    <3> DEFINE waiting == Len(values)
               all     == Len(committed[m])
               started == all - waiting
    <3>6. /\ started >= 0 /\ Len(clients) = waiting /\ waiting \in Nat /\ all \in Nat
          /\ DOMAIN values = 1 .. waiting
      BY <1>1, <1>2
    <3> HIDE DEF waiting, all
    <3>7. ASSUME NEW i \in 1 .. waiting + 1
          PROVE  /\ tocommit_values'[m][i] = committed'[m][started + i]
                 /\ tocommit_clients'[m][i] = ClientName(tocommit_values'[m][i])
      <4>1. /\ tocommit_values'[m][i] = IF i = waiting + 1 THEN v ELSE values[i]
            /\ tocommit_clients'[m][i] = IF i = waiting + 1 THEN ClientName(v) ELSE clients[i]
        BY <3>4, <3>6 DEF waiting
      <4>2. \A j \in 1 .. all + 1 :
              committed'[m][j] = IF j = all + 1 THEN v ELSE committed[m][j]
        BY <3>5 DEF all
      <4>3. started + i \in 1 .. all + 1 /\ (started + i = all + 1 <=> i = waiting + 1)
        BY <3>6
      <4>4. CASE i = waiting + 1
        BY <4>1, <4>2, <4>3, <4>4
      <4>5. CASE i # waiting + 1
        <5>1. i \in DOMAIN values
          BY <3>6, <4>5
        <5>2. values[i] = committed[m][started + i] /\ clients[i] = ClientName(values[i])
          BY <1>1, <5>1 DEF waiting, all
        <5> QED  BY <4>1, <4>2, <4>3, <4>5, <5>2
      <4> QED  BY <4>4, <4>5
    <3>8. (all + 1) - (waiting + 1) = started
      BY <3>6
    <3> QED  BY <3>3, <3>6, <3>7, <3>8 DEF waiting, all
  <2>4. CASE m = n /\ CommitStarted(n, v)
    <3>1. tocommit_values[m] = <<>>
      BY <2>4 DEF CommitStarted, WindowRespected
    <3>2. tocommit_clients[m] = <<>>
      BY <1>1, <1>2, <3>1
    <3>3. /\ tocommit_values'[m] = Tail(Append(tocommit_values[m], v))
          /\ tocommit_clients'[m] = Tail(Append(tocommit_clients[m], ClientName(v)))
          /\ committed'[m] = Append(committed[m], v)
      BY <2>1, <2>4 DEF CommitStarted, TypeOK
    <3>4. /\ tocommit_values'[m] = <<>> /\ tocommit_clients'[m] = <<>>
          /\ Len(committed'[m]) = Len(committed[m]) + 1
      BY <1>2, <3>1, <3>2, <3>3
    <3> QED  BY <1>2, <3>4
  <2> QED  BY <1>4, <2>2, <2>3, <2>4 DEF Commit
<1>5. ASSUME NEW n \in Nodes, NEW s \in Slots, EndChoose(n, s) PROVE Goal
  <2>1. CASE Finish(n, s) \/ Recommit(n, s)
    BY <1>3, <2>1 DEF Finish, Recommit, Chosen
  <2>2. CASE StartNext(n, s)
    <3>1. /\ committed' = committed
          /\ m # n => UNCHANGED <<tocommit_values[m], tocommit_clients[m]>>
      BY <2>2 DEF StartNext, Chosen, TypeOK
    <3>2. CASE m = n
      <4> DEFINE values == tocommit_values[m]
                 clients == tocommit_clients[m]
      <4>1. /\ tocommit_values'[m] = Tail(values) /\ values # <<>>
            /\ tocommit_clients'[m] = Tail(clients)
        BY <2>2, <3>2 DEF StartNext, TypeOK
      <4>2. clients # <<>>
        BY <1>1, <1>2, <4>1
      <4>3. /\ Len(Tail(values)) = Len(values) - 1
            /\ Len(Tail(clients)) = Len(clients) - 1
            /\ DOMAIN Tail(values) = 1 .. Len(values) - 1
            /\ DOMAIN values = 1 .. Len(values)
            /\ \A i \in 1 .. Len(values) - 1 : Tail(values)[i] = values[i + 1]
            /\ \A i \in 1 .. Len(clients) - 1 : Tail(clients)[i] = clients[i + 1]
        BY <1>2, <4>1, <4>2
      <4> HIDE DEF values, clients
      <4>4. Len(values) \in Nat /\ Len(committed[m]) \in Nat
        BY <1>2 DEF values
      <4>5. ASSUME NEW i \in 1 .. Len(values) - 1
            PROVE  /\ i + 1 \in DOMAIN values
                   /\ Len(committed[m]) - (Len(values) - 1) + i = Len(committed[m]) - Len(values) + (i + 1)
        <5>1. i \in Int /\ 1 <= i /\ i <= Len(values) - 1
          BY <4>4
        <5>2. i + 1 \in 1 .. Len(values)
          BY <4>4, <5>1
        <5>3. \A a, b \in Nat : a - (b - 1) + i = a - b + (i + 1)
          BY <5>1
        <5> QED  BY <4>3, <4>4, <5>2, <5>3
      <4>6. InOrder(values, clients, committed[m])
        BY <1>1 DEF values, clients
      <4>7. InOrder(Tail(values), Tail(clients), committed[m])
        BY <4>3, <4>4, <4>5, <4>6
      <4> QED  BY <3>1, <4>1, <4>7
    <3> QED  BY <1>3, <3>1, <3>2
  <2> QED  BY <1>5, <2>1, <2>2 DEF EndChoose
<1>6. ASSUME UNCHANGED <<tocommit_values, tocommit_clients, committed>> PROVE Goal
  BY <1>3, <1>6
<1>7. ASSUME NEW s \in Slots, Decide(s) PROVE Goal
  BY <1>6, <1>7 DEF Decide, node_vars
<1>8. ASSUME NEW n \in Nodes, NEW s \in Slots, Choose(n, s) PROVE Goal
  BY <1>6, <1>8 DEF Choose
<1>9. ASSUME NEW msg \in net, Recv(msg) PROVE Goal
  BY <1>6, <1>9 DEF Recv, RecvDecide, RecvLearn, RecvTeach, Received
<1>10. ASSUME NEW n \in Nodes, Crash(n) PROVE Goal
  BY <1>6, <1>10 DEF Crash
<1>11. CASE UNCHANGED vars
  BY <1>6, <1>11 DEF vars, node_vars
<1> QED  BY <1>4, <1>5, <1>7, <1>8, <1>9, <1>10, <1>11 DEF Next
=============================================================================
