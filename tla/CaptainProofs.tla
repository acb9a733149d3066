--------------------------- MODULE CaptainProofs ----------------------------
(***************************************************************************)
(* The invariants of Captain over all slots, for any number of nodes,      *)
(* values, slots and threads and any window sizes: CaptainInv is inductive;*)
(* Captain implements Log, and uses every slot as Consensus allows.        *)
(***************************************************************************)
EXTENDS CaptainTypeProofs

(***************************************************************************)
(* Consequences of the invariant.                                          *)
(***************************************************************************)

LEMMA CommitterUnique ==
  ASSUME CommittedOnce, NEW n \in Nodes, NEW m \in Nodes, NEW v, Commits(n, v), Commits(m, v)
  PROVE  n = m
BY DEF CommittedOnce, Commits

\* A waiting value was committed at its node, and waits in one place only.
LEMMA WaitingFacts ==
  ASSUME TypeOK, QueueInOrder, NEW n \in Nodes
  PROVE  /\ \A v : IsWaiting(n, v) => Commits(n, v)
         /\ CommittedOnce =>
              \A i, j \in DOMAIN tocommit_values[n] :
                tocommit_values[n][i] = tocommit_values[n][j] => i = j
PROOF
<1> DEFINE values == tocommit_values[n]
           started == Len(committed[n]) - Len(values)
<1>1. values \in Seq(Values) /\ committed[n] \in Seq(Values)
  BY DEF TypeOK
<1>2. started >= 0 /\ \A i \in DOMAIN values : values[i] = committed[n][started + i]
  BY DEF QueueInOrder
<1>3. Len(values) \in Nat /\ Len(committed[n]) \in Nat
      /\ DOMAIN values = 1 .. Len(values) /\ DOMAIN committed[n] = 1 .. Len(committed[n])
  BY <1>1
<1> HIDE DEF values
<1>4. \A i \in DOMAIN values : started + i \in DOMAIN committed[n]
  BY <1>2, <1>3
<1>5. \A v : IsWaiting(n, v) => Commits(n, v)
  BY <1>2, <1>4 DEF IsWaiting, Commits, values
<1>6. ASSUME CommittedOnce, NEW i \in DOMAIN values, NEW j \in DOMAIN values, values[i] = values[j]
      PROVE  i = j
  <2>1. started + i = started + j
    BY <1>2, <1>4, <1>6 DEF CommittedOnce
  <2> QED  BY <1>3, <2>1
<1> QED  BY <1>5, <1>6 DEF values

LEMMA DecidedFacts ==
  ASSUME TypeOK, ValueInv, NEW s \in Slots, decided[s] # NULL
  PROVE  decided[s] \in Values /\ \E n \in Nodes : Commits(n, decided[s])
PROOF
<1>1. decided[s] \in proposed[s]
  BY DEF ValueInv, DecidedWasProposed
<1>2. decided[s] \in Values
  BY DEF TypeOK, ValuesOrNull
<1> QED  BY <1>1, <1>2 DEF ValueInv, ProposedByCommitter

(***************************************************************************)
(* Where the values are.                                                   *)
(***************************************************************************)

\* A slot may be started with a value that is nowhere else, in place of slots
\* that are decided.
LEMMA StartKeeps ==
  ASSUME TypeOK, ValueInv, CommittedOnce',
         NEW n \in Nodes, NEW p, NEW kept \in SUBSET Open(n), NewSlot(n, p, kept),
         decided' = decided,
         \A s \in Open(n) \ kept : decided[s] # NULL,
         \A m \in Nodes : \A v : Commits(m, v) => Commits(m, v)',
         \A m \in Nodes : \A v : IsWaiting(m, v)' => IsWaiting(m, v),
         Commits(n, p.init_value)',
         ~ IsWaiting(n, p.init_value)',
         \A s \in kept : ValueAt(n, s) # p.init_value,
         \A s \in Slots : decided[s] # p.init_value
  PROVE  ValueInv'
PROOF
<1> DEFINE u == p.init_value
<1>0. PICK t : t = NextSlot(n)
  OBVIOUS
<1>1. /\ t \in Slots
      /\ t \notin Open(n)
      /\ max_slot' = [max_slot EXCEPT ![n] = t]
      /\ Open(n)' = kept \cup {t}
      /\ \A s \in kept : proposers'[n][s] = proposers[n][s]
      /\ proposers'[n][t] = p
      /\ \A m \in Nodes \ {n} : proposers'[m] = proposers[m]
      /\ proposed' = [proposed EXCEPT ![t] = @ \cup {u}]
  BY <1>0, NewSlotFacts
<1>2. t = max_slot[n] + 1 /\ max_slot \in [Nodes -> 0 .. MaxSlot] /\ proposed \in [Slots -> SUBSET Values]
  BY <1>0 DEF NextSlot, TypeOK
<1>3. \A m \in Nodes \ {n} : Open(m)' = Open(m) /\ \A s : ValueAt(m, s)' = ValueAt(m, s)
  BY <1>1 DEF Open, ValueAt
<1>4. ValueAt(n, t)' = u /\ \A s \in kept : ValueAt(n, s)' = ValueAt(n, s)
  BY <1>1 DEF ValueAt
<1>5. ProposedByCommitter'
  <2> SUFFICES ASSUME NEW s \in Slots, NEW v \in proposed'[s]
               PROVE  \E m \in Nodes : Commits(m, v)' /\ s <= max_slot'[m]
    BY DEF ProposedByCommitter
  <2>1. CASE v \in proposed[s]
    <3>1. PICK m \in Nodes : Commits(m, v) /\ s <= max_slot[m]
      BY <2>1 DEF ValueInv, ProposedByCommitter
    <3>2. s <= max_slot'[m]
      BY <1>1, <1>2, <3>1, CaptainAssumption DEF Slots
    <3> QED  BY <3>1, <3>2
  <2>2. CASE s = t /\ v = u
    <3>1. t <= max_slot'[n]
      BY <1>1, <1>2 DEF Slots
    <3> QED  BY <2>2, <3>1
  <2> QED  BY <1>1, <1>2, <2>1, <2>2
<1>6. UndecidedIsOpen'
  <2> SUFFICES ASSUME NEW s \in Slots, decided[s] = NULL, NEW v \in proposed'[s]
               PROVE  \E m \in Nodes : s \in Open(m)' /\ ValueAt(m, s)' = v
    BY DEF UndecidedIsOpen
  <2>1. CASE v \in proposed[s]
    <3>1. PICK m \in Nodes : s \in Open(m) /\ ValueAt(m, s) = v
      BY <2>1 DEF ValueInv, UndecidedIsOpen
    <3>2. m = n => s \in kept
      BY <3>1
    <3> QED  BY <1>1, <1>3, <1>4, <3>1, <3>2
  <2>2. CASE s = t /\ v = u
    BY <1>1, <1>4, <2>2
  <2> QED  BY <1>1, <1>2, <2>1, <2>2
<1>7. DecidedWasProposed'
  BY <1>1, <1>2 DEF ValueInv, DecidedWasProposed
<1>8. OpenOnce'
  <2> SUFFICES ASSUME NEW m \in Nodes, NEW s \in Open(m)', NEW w, w = ValueAt(m, s)'
               PROVE  /\ Commits(m, w)'
                      /\ ~ IsWaiting(m, w)'
                      /\ \A r \in Open(m)' : ValueAt(m, r)' = w => r = s
                      /\ \A r \in Slots : decided[r] = w => r = s
    BY DEF OpenOnce, Commits, IsWaiting
  <2>1. ASSUME NEW q \in Nodes, NEW r \in Open(q)
        PROVE  /\ Commits(q, ValueAt(q, r))
               /\ ~ IsWaiting(q, ValueAt(q, r))
               /\ \A i \in Open(q) : ValueAt(q, i) = ValueAt(q, r) => i = r
               /\ \A i \in Slots : decided[i] = ValueAt(q, r) => i = r
    BY DEF ValueInv, OpenOnce
  <2>2. CASE m # n
    BY <1>3, <2>1, <2>2
  <2>3. CASE m = n /\ s \in kept
    BY <1>1, <1>4, <2>1, <2>3
  <2>4. CASE m = n /\ s = t
    BY <1>1, <1>4, <2>4
  <2> QED  BY <1>1, <2>2, <2>3, <2>4
<1>9. WaitingUndecided'
  <2> SUFFICES ASSUME NEW m \in Nodes, NEW i \in DOMAIN tocommit_values'[m], NEW s \in Slots
               PROVE  decided[s] # tocommit_values'[m][i]
    BY DEF WaitingUndecided
  <2>1. PICK v : v = tocommit_values'[m][i]
    OBVIOUS
  <2>2. IsWaiting(m, v)'
    BY <2>1 DEF IsWaiting
  <2>3. IsWaiting(m, v)
    BY <2>2
  <2> QED  BY <2>1, <2>3 DEF IsWaiting, ValueInv, WaitingUndecided
<1>10. ChosenOnce'
  BY DEF ValueInv, ChosenOnce
<1> QED  BY <1>5, <1>6, <1>7, <1>8, <1>9, <1>10 DEF ValueInv

\* Nothing changes but that a value is queued, or a decided slot is given up, or
\* parts that ValueInv does not look at.
LEMMA OtherStepKeeps ==
  ASSUME TypeOK, TypeOK', ValueInv, CommittedOnce',
         UNCHANGED <<max_slot, proposed, decided>>,
         \A m \in Nodes : \A v : Commits(m, v) => Commits(m, v)',
         \A m \in Nodes : \A v : IsWaiting(m, v)' =>
           IsWaiting(m, v) \/ \A k \in Nodes : ~ Commits(k, v),
         \A m \in Nodes : Open(m)' \subseteq Open(m),
         \A m \in Nodes : \A s \in Open(m)' : ValueAt(m, s)' = ValueAt(m, s),
         \A m \in Nodes : \A s \in Open(m) \ Open(m)' : decided[s] # NULL
  PROVE  ValueInv'
PROOF
<1>1. ProposedByCommitter'
  BY DEF ValueInv, ProposedByCommitter
<1>2. UndecidedIsOpen'
  <2> SUFFICES ASSUME NEW s \in Slots, decided[s] = NULL, NEW v \in proposed[s]
               PROVE  \E m \in Nodes : s \in Open(m)' /\ ValueAt(m, s)' = v
    BY DEF UndecidedIsOpen
  <2>1. PICK m \in Nodes : s \in Open(m) /\ ValueAt(m, s) = v
    BY DEF ValueInv, UndecidedIsOpen
  <2> QED  BY <2>1
<1>3. DecidedWasProposed'
  BY DEF ValueInv, DecidedWasProposed
<1>4. OpenOnce'
  <2> SUFFICES ASSUME NEW m \in Nodes, NEW s \in Open(m)', NEW w, w = ValueAt(m, s)'
               PROVE  /\ Commits(m, w)'
                      /\ ~ IsWaiting(m, w)'
                      /\ \A r \in Open(m)' : ValueAt(m, r)' = w => r = s
                      /\ \A r \in Slots : decided[r] = w => r = s
    BY DEF OpenOnce, Commits, IsWaiting
  <2>1. /\ s \in Open(m)
        /\ Commits(m, ValueAt(m, s))
        /\ ~ IsWaiting(m, ValueAt(m, s))
        /\ \A i \in Open(m) : ValueAt(m, i) = ValueAt(m, s) => i = s
        /\ \A i \in Slots : decided[i] = ValueAt(m, s) => i = s
    BY DEF ValueInv, OpenOnce
  <2> QED  BY <2>1
<1>5. WaitingUndecided'
  <2> SUFFICES ASSUME NEW m \in Nodes, NEW i \in DOMAIN tocommit_values'[m], NEW s \in Slots
               PROVE  decided[s] # tocommit_values'[m][i]
    BY DEF WaitingUndecided
  <2>0. PICK v : v = tocommit_values'[m][i]
    OBVIOUS
  <2>1. IsWaiting(m, v)' /\ v # NULL
    BY <2>0, ViewAssumption DEF IsWaiting, TypeOK
  <2>2. CASE IsWaiting(m, v)
    BY <2>0, <2>2 DEF IsWaiting, ValueInv, WaitingUndecided
  <2>3. CASE \A k \in Nodes : ~ Commits(k, v)
    BY <2>0, <2>1, <2>3, DecidedFacts
  <2> QED  BY <2>1, <2>2, <2>3
<1>6. ChosenOnce'
  BY DEF ValueInv, ChosenOnce
<1> QED  BY <1>1, <1>2, <1>3, <1>4, <1>5, <1>6 DEF ValueInv

\* Only commit hands over a value, and a new one.
LEMMA CommitFacts ==
  ASSUME TypeOK, CommittedOnce, NEW n \in Nodes, NEW v \in Values, CommitCalled(n, v)
  PROVE  /\ CommittedOnce'
         /\ Commits(n, v)'
         /\ \A m \in Nodes : ~ Commits(m, v)
         /\ \A m \in Nodes : \A w : Commits(m, w)' <=> Commits(m, w) \/ (m = n /\ w = v)
PROOF
<1>1. committed \in [Nodes -> Seq(Values)] /\ committed' = [committed EXCEPT ![n] = Append(@, v)]
  BY DEF CommitCalled, TypeOK
<1>2. \A m \in Nodes : ~ Commits(m, v)
  BY DEF CommitCalled, Commits
<1> DEFINE last == Len(committed[n]) + 1
<1>3. \A m \in Nodes \ {n} : committed'[m] = committed[m]
  BY <1>1
<1>4. /\ committed'[n] = Append(committed[n], v)
      /\ committed[n] \in Seq(Values)
  BY <1>1
<1>5. /\ DOMAIN committed[n] = 1 .. Len(committed[n]) /\ Len(committed[n]) \in Nat
      /\ DOMAIN committed'[n] = DOMAIN committed[n] \cup {last}
      /\ last \notin DOMAIN committed[n]
      /\ committed'[n][last] = v
      /\ \A i \in DOMAIN committed[n] : committed'[n][i] = committed[n][i]
  <2>1. DOMAIN committed[n] = 1 .. Len(committed[n]) /\ Len(committed[n]) \in Nat
    BY <1>4
  <2>2. DOMAIN committed'[n] = 1 .. last
    BY <1>4, <2>1
  <2>3. committed'[n][last] = v /\ \A i \in DOMAIN committed[n] : committed'[n][i] = committed[n][i]
    BY <1>4, <2>1
  <2> QED  BY <2>1, <2>2, <2>3
<1> HIDE DEF last
<1>6. \A m \in Nodes : \A w : Commits(m, w)' <=> Commits(m, w) \/ (m = n /\ w = v)
  BY <1>3, <1>5 DEF Commits
<1>7. CommittedOnce'
  <2> SUFFICES ASSUME NEW k \in Nodes, NEW m \in Nodes,
                      NEW i \in DOMAIN committed'[k], NEW j \in DOMAIN committed'[m],
                      committed'[k][i] = committed'[m][j]
               PROVE  k = m /\ i = j
    BY DEF CommittedOnce
  <2>1. \A a, b \in Nodes : \A x \in DOMAIN committed[a], y \in DOMAIN committed[b] :
          committed[a][x] = committed[b][y] => a = b /\ x = y
    BY DEF CommittedOnce
  <2>2. \A a \in Nodes : \A x \in DOMAIN committed[a] : committed[a][x] # v
    BY <1>2 DEF Commits
  <2>3. CASE i \in DOMAIN committed[k] /\ j \in DOMAIN committed[m]
    BY <1>3, <1>5, <2>1, <2>3
  <2>4. CASE k = n /\ i = last
    BY <1>3, <1>5, <2>2, <2>4
  <2>5. CASE m = n /\ j = last
    BY <1>3, <1>5, <2>2, <2>5
  <2> QED  BY <1>3, <1>5, <2>3, <2>4, <2>5
<1> QED  BY <1>2, <1>5, <1>6, <1>7

\* The end of a slot: the slot is decided, and nothing but the map, the queues
\* and max_slot_ changes.
LEMMA EndChooseFacts ==
  ASSUME TypeOK, ChoosingRecorded, NEW n \in Nodes, NEW s \in Slots, EndChoose(n, s)
  PROVE  /\ s \in Open(n)
         /\ decided[s] # NULL /\ chosen_values[n][s] = decided[s]
         /\ choosing' = [choosing EXCEPT ![n] = @ \ {s}]
         /\ UNCHANGED <<work, chosen_values, called, net, decided, committed, informed>>
         /\ \A m \in Nodes : \A v : Commits(m, v)' <=> Commits(m, v)
BY DEF EndChoose, Finish, StartNext, Recommit, Chosen, TypeOK, ChoosingRecorded, Commits

\* StartNext takes the oldest waiting value, which waits in no other place.
LEMMA StartNextFacts ==
  ASSUME TypeOK, QueueInOrder, CommittedOnce, NEW n \in Nodes, NEW s \in Slots, StartNext(n, s)
  PROVE  LET v == Head(tocommit_values[n]) IN
         /\ IsWaiting(n, v)
         /\ \A i \in DOMAIN tocommit_values'[n] : tocommit_values'[n][i] # v
         /\ \A m \in Nodes : \A w : IsWaiting(m, w)' => IsWaiting(m, w)
         /\ \A w : IsWaiting(n, w) => IsWaiting(n, w)' \/ w = v
         /\ \A m \in Nodes \ {n} : tocommit_values'[m] = tocommit_values[m]
         /\ Head(tocommit_clients[n]) = ClientName(v)
PROOF
<1> DEFINE values == tocommit_values[n]
<1>1. /\ values \in Seq(Values) /\ values # <<>>
      /\ tocommit_clients[n] \in Seq(Names) /\ tocommit_clients[n] # <<>>
  <2>1. values \in Seq(Values) /\ tocommit_clients[n] \in Seq(Names)
    BY DEF TypeOK
  <2>2. values # <<>>
    BY DEF StartNext
  <2>3. Len(tocommit_clients[n]) = Len(values)
    BY DEF QueueInOrder
  <2> QED  BY <2>1, <2>2, <2>3
<1>2. /\ tocommit_values'[n] = Tail(values)
      /\ \A m \in Nodes \ {n} : tocommit_values'[m] = tocommit_values[m]
  BY DEF StartNext, TypeOK
<1>3. /\ Head(values) = values[1] /\ 1 \in DOMAIN values
      /\ DOMAIN values = 1 .. Len(values) /\ Len(values) \in Nat
      /\ DOMAIN Tail(values) = 1 .. Len(values) - 1
      /\ \A i \in 1 .. Len(values) - 1 : Tail(values)[i] = values[i + 1]
      /\ Head(tocommit_clients[n]) = tocommit_clients[n][1]
  BY <1>1
<1>4. \A i, j \in DOMAIN values : values[i] = values[j] => i = j
  BY WaitingFacts
<1> HIDE DEF values
<1>5. Head(tocommit_clients[n]) = ClientName(Head(values))
  BY <1>3 DEF QueueInOrder, values
<1>6. ASSUME NEW i \in 1 .. Len(values) - 1
      PROVE  i + 1 \in DOMAIN values /\ i + 1 # 1
  BY <1>3
<1>7. \A i \in DOMAIN tocommit_values'[n] : tocommit_values'[n][i] # Head(values)
  BY <1>2, <1>3, <1>4, <1>6
<1>8. \A m \in Nodes : \A w : IsWaiting(m, w)' => IsWaiting(m, w)
  <2> SUFFICES ASSUME NEW m \in Nodes, NEW w, NEW i \in DOMAIN tocommit_values'[m],
                      tocommit_values'[m][i] = w
               PROVE  \E j \in DOMAIN tocommit_values[m] : tocommit_values[m][j] = w
    BY DEF IsWaiting
  <2>1. CASE m = n
    <3>1. i \in 1 .. Len(values) - 1 /\ w = values[i + 1]
      BY <1>2, <1>3, <2>1
    <3>2. i + 1 \in DOMAIN values
      BY <1>6, <3>1
    <3> QED  BY <2>1, <3>1, <3>2 DEF values
  <2>2. CASE m # n
    BY <1>2, <2>2
  <2> QED  BY <2>1, <2>2
<1>9. ASSUME NEW w, IsWaiting(n, w) PROVE IsWaiting(n, w)' \/ w = Head(values)
  <2>1. PICK i \in DOMAIN values : values[i] = w
    BY <1>9 DEF IsWaiting, values
  <2>2. CASE i = 1
    BY <1>3, <2>1, <2>2
  <2>3. CASE i # 1
    <3>1. i - 1 \in 1 .. Len(values) - 1 /\ (i - 1) + 1 = i
      BY <1>3, <2>3
    <3>2. i - 1 \in DOMAIN Tail(values) /\ Tail(values)[i - 1] = w
      BY <1>3, <2>1, <3>1
    <3> QED  BY <1>2, <3>2 DEF IsWaiting
  <2> QED  BY <2>2, <2>3
<1>10. IsWaiting(n, Head(values))
  BY <1>3 DEF IsWaiting, values
<1> QED  BY <1>2, <1>5, <1>7, <1>8, <1>9, <1>10 DEF values

\* A value that is queued at the end.
LEMMA QueuedFacts ==
  ASSUME TypeOK, NEW n \in Nodes, NEW v \in Values, CommitQueued(n, v)
  PROVE  \A m \in Nodes : \A w : IsWaiting(m, w)' <=> IsWaiting(m, w) \/ (m = n /\ w = v)
PROOF
<1>1. /\ tocommit_values[n] \in Seq(Values)
      /\ tocommit_values'[n] = Append(tocommit_values[n], v)
      /\ \A m \in Nodes \ {n} : tocommit_values'[m] = tocommit_values[m]
  BY DEF CommitQueued, TypeOK
<1> DEFINE values == tocommit_values[n]
           last == Len(values) + 1
<1>2. /\ DOMAIN values = 1 .. Len(values) /\ Len(values) \in Nat
      /\ DOMAIN Append(values, v) = 1 .. last
      /\ Append(values, v)[last] = v
      /\ \A i \in 1 .. Len(values) : Append(values, v)[i] = values[i]
  BY <1>1
<1>3. DOMAIN Append(values, v) = DOMAIN values \cup {last}
  BY <1>2
<1> QED  BY <1>1, <1>2, <1>3 DEF IsWaiting

\* Every step keeps the values where they may be.
LEMMA ValueNext ==
  TypeOK /\ TypeOK' /\ WindowRespected /\ QueueInOrder /\ ChoosingRecorded
    /\ ValueInv /\ [Next]_vars => ValueInv'
PROOF
<1> SUFFICES ASSUME TypeOK, TypeOK', WindowRespected, QueueInOrder, ChoosingRecorded,
                    ValueInv, [Next]_vars
             PROVE  ValueInv'
  OBVIOUS
<1>0. CommittedOnce
  BY DEF ValueInv
<1>1. ASSUME NEW n \in Nodes, NEW v \in Values, Commit(n, v) PROVE ValueInv'
  <2>1. CommitCalled(n, v) /\ decided' = decided
    BY <1>1 DEF Commit, CommitQueued, CommitStarted, CommitCalled
  <2>2. /\ CommittedOnce'
        /\ Commits(n, v)'
        /\ \A m \in Nodes : ~ Commits(m, v)
        /\ \A m \in Nodes : \A w : Commits(m, w) => Commits(m, w)'
    BY <1>0, <2>1, CommitFacts
  <2>3. CASE CommitQueued(n, v)
    <3>1. \A m \in Nodes : \A w : IsWaiting(m, w)' =>
            IsWaiting(m, w) \/ \A k \in Nodes : ~ Commits(k, w)
      BY <2>2, <2>3, QueuedFacts
    <3>2. UNCHANGED <<proposers, max_slot, proposed>>
      BY <2>3 DEF CommitQueued
    <3>3. \A m \in Nodes : Open(m)' = Open(m) /\ \A s : ValueAt(m, s)' = ValueAt(m, s)
      BY <3>2 DEF Open, ValueAt
    <3> QED  BY <2>1, <2>2, <3>1, <3>2, <3>3, OtherStepKeeps
  <2>4. CASE CommitStarted(n, v)
    <3>1. tocommit_values[n] = <<>>
      BY <2>4 DEF CommitStarted, WindowRespected
    <3>2. PICK p : p = Info(Head(Append(tocommit_values[n], v)),
                            Head(Append(tocommit_clients[n], ClientName(v))), 1)
      OBVIOUS
    <3>3. p.init_value = v
      BY <3>1, <3>2 DEF Info
    <3>4. NewSlot(n, p, Open(n))
      BY <2>4, <3>2 DEF CommitStarted
    <3>5. /\ tocommit_values'[n] = <<>>
          /\ \A m \in Nodes \ {n} : tocommit_values'[m] = tocommit_values[m]
      <4>1. /\ tocommit_values'[n] = Tail(Append(tocommit_values[n], v))
            /\ \A m \in Nodes \ {n} : tocommit_values'[m] = tocommit_values[m]
        BY <2>4 DEF CommitStarted, TypeOK
      <4> QED  BY <3>1, <4>1
    <3>6. /\ \A m \in Nodes : \A w : IsWaiting(m, w)' => IsWaiting(m, w)
          /\ ~ IsWaiting(n, v)'
      BY <3>5 DEF IsWaiting
    <3>7. \A s \in Open(n) : ValueAt(n, s) # v
      BY <2>2 DEF ValueInv, OpenOnce
    <3>8. \A s \in Slots : decided[s] # v
      BY <2>2, DecidedFacts, ViewAssumption
    <3> QED  BY <2>1, <2>2, <3>3, <3>4, <3>6, <3>7, <3>8, StartKeeps
  <2> QED  BY <1>1, <2>3, <2>4 DEF Commit
<1>2. ASSUME NEW s \in Slots, Decide(s) PROVE ValueInv'
  <2>1. PICK v \in proposed[s] : decided[s] = NULL /\ decided' = [decided EXCEPT ![s] = v]
    BY <1>2 DEF Decide
  <2>2. /\ UNCHANGED <<proposers, tocommit_values, max_slot, proposed, committed>>
        /\ decided'[s] = v /\ \A t \in Slots \ {s} : decided'[t] = decided[t]
    BY <1>2, <2>1 DEF Decide, node_vars, TypeOK
  <2>3. PICK n \in Nodes : s \in Open(n) /\ ValueAt(n, s) = v
    BY <2>1 DEF ValueInv, UndecidedIsOpen
  <2>4. /\ Commits(n, v) /\ ~ IsWaiting(n, v)
        /\ \A t \in Open(n) : ValueAt(n, t) = v => t = s
    BY <2>3 DEF ValueInv, OpenOnce
  <2>5. \A m \in Nodes : Commits(m, v) => m = n
    BY <1>0, <2>4, CommitterUnique
  <2>6. /\ \A m \in Nodes : Open(m)' = Open(m) /\ \A t : ValueAt(m, t)' = ValueAt(m, t)
        /\ \A m \in Nodes : \A w : /\ Commits(m, w)' <=> Commits(m, w)
                                   /\ IsWaiting(m, w)' <=> IsWaiting(m, w)
    BY <2>2 DEF Open, ValueAt, Commits, IsWaiting
  <2>7. CommittedOnce' /\ ProposedByCommitter'
    BY <2>2, <2>6 DEF ValueInv, CommittedOnce, ProposedByCommitter
  <2>8. UndecidedIsOpen'
    BY <2>1, <2>2, <2>6 DEF ValueInv, UndecidedIsOpen
  <2>9. DecidedWasProposed'
    BY <2>1, <2>2 DEF ValueInv, DecidedWasProposed
  <2>10. OpenOnce'
    <3> SUFFICES ASSUME NEW m \in Nodes, NEW r \in Open(m), NEW w, w = ValueAt(m, r)
                 PROVE  /\ Commits(m, w)
                        /\ ~ IsWaiting(m, w)
                        /\ \A t \in Open(m) : ValueAt(m, t) = w => t = r
                        /\ \A t \in Slots : decided'[t] = w => t = r
      BY <2>2 DEF OpenOnce, Open, ValueAt, Commits, IsWaiting
    <3>1. /\ Commits(m, w)
          /\ ~ IsWaiting(m, w)
          /\ \A t \in Open(m) : ValueAt(m, t) = w => t = r
          /\ \A t \in Slots : decided[t] = w => t = r
      BY DEF ValueInv, OpenOnce
    <3>2. w = v => r = s
      BY <2>4, <2>5, <3>1
    <3> QED  BY <2>2, <3>1, <3>2
  <2>11. WaitingUndecided'
    <3> SUFFICES ASSUME NEW m \in Nodes, NEW w, IsWaiting(m, w), NEW t \in Slots
                 PROVE  decided'[t] # w
      BY <2>2 DEF WaitingUndecided, IsWaiting
    <3>1. decided[t] # w
      BY DEF ValueInv, WaitingUndecided, IsWaiting
    <3>2. w # v
      BY <2>4, <2>5, WaitingFacts
    <3> QED  BY <2>2, <3>1, <3>2
  <2>12. ChosenOnce'
    <3>1. \A t \in Slots : decided[t] # v
      BY <2>1, <2>3, ViewAssumption DEF ValueInv, OpenOnce, TypeOK
    <3> QED  BY <2>1, <2>2, <3>1 DEF ValueInv, ChosenOnce
  <2> QED  BY <2>7, <2>8, <2>9, <2>10, <2>11, <2>12 DEF ValueInv
<1>3. ASSUME NEW n \in Nodes, NEW s \in Slots, EndChoose(n, s) PROVE ValueInv'
  <2>1. /\ s \in Open(n)
        /\ decided[s] # NULL
        /\ UNCHANGED <<decided, committed>>
        /\ \A m \in Nodes : \A v : Commits(m, v)' <=> Commits(m, v)
    BY <1>3, EndChooseFacts
  <2>2. CommittedOnce'
    BY <1>0, <2>1 DEF CommittedOnce
  <2>3. CASE Finish(n, s)
    <3>1. /\ proposers' = [proposers EXCEPT ![n] = Restrict(@, Open(n) \ {s})]
          /\ UNCHANGED <<tocommit_values, max_slot, proposed>>
      BY <2>3 DEF Finish
    <3>2. /\ Open(n)' = Open(n) \ {s}
          /\ \A t \in Open(n) \ {s} : proposers'[n][t] = proposers[n][t]
          /\ \A m \in Nodes \ {n} : proposers'[m] = proposers[m]
      BY <2>1, <3>1, EraseFacts
    <3>3. /\ \A m \in Nodes : Open(m)' \subseteq Open(m)
          /\ \A m \in Nodes : \A t \in Open(m)' : ValueAt(m, t)' = ValueAt(m, t)
          /\ \A m \in Nodes : \A t \in Open(m) \ Open(m)' : decided[t] # NULL
      BY <2>1, <3>2 DEF Open, ValueAt
    <3>4. \A m \in Nodes : \A v : IsWaiting(m, v)' <=> IsWaiting(m, v)
      BY <3>1 DEF IsWaiting
    <3> QED  BY <2>1, <2>2, <3>1, <3>3, <3>4, OtherStepKeeps
  <2>4. CASE StartNext(n, s)
    <3>1. PICK v : v = Head(tocommit_values[n])
      OBVIOUS
    <3>2. PICK p : p = Info(v, Head(tocommit_clients[n]), 1)
      OBVIOUS
    <3>3. NewSlot(n, p, Open(n) \ {s}) /\ p.init_value = v
      BY <2>4, <3>1, <3>2 DEF StartNext, Info
    <3>4. /\ IsWaiting(n, v) /\ ~ IsWaiting(n, v)'
          /\ \A m \in Nodes : \A w : IsWaiting(m, w)' => IsWaiting(m, w)
      BY <1>0, <2>4, <3>1, StartNextFacts DEF IsWaiting
    <3>5. Commits(n, v)'
      BY <2>1, <3>4, WaitingFacts
    <3>6. /\ \A t \in Open(n) : ValueAt(n, t) # v
          /\ \A t \in Slots : decided[t] # v
      BY <3>4 DEF ValueInv, OpenOnce, WaitingUndecided, IsWaiting
    <3> QED  BY <2>1, <2>2, <3>3, <3>4, <3>5, <3>6, StartKeeps
  <2>5. CASE Recommit(n, s)
    <3>1. PICK v : v = ValueAt(n, s)
      OBVIOUS
    <3>2. PICK p : p = Info(v, DataName, proposers[n][s].try_time + 1)
      OBVIOUS
    <3>3. /\ NewSlot(n, p, Open(n) \ {s}) /\ p.init_value = v
          /\ decided[s] # v
          /\ tocommit_values' = tocommit_values
      BY <2>5, <3>1, <3>2 DEF Recommit, HasOwnValue, ValueAt, Info
    <3>4. /\ Commits(n, v)
          /\ ~ IsWaiting(n, v)
          /\ \A t \in Open(n) : ValueAt(n, t) = v => t = s
          /\ \A t \in Slots : decided[t] = v => t = s
      BY <2>1, <3>1 DEF ValueInv, OpenOnce
    <3>5. \A m \in Nodes : \A w : IsWaiting(m, w)' <=> IsWaiting(m, w)
      BY <3>3 DEF IsWaiting
    <3> QED  BY <2>1, <2>2, <3>3, <3>4, <3>5, StartKeeps
  <2> QED  BY <1>3, <2>3, <2>4, <2>5 DEF EndChoose
<1>4. ASSUME UNCHANGED <<proposers, tocommit_values, max_slot, decided, proposed, committed>>
      PROVE  ValueInv'
  BY <1>4 DEF ValueInv, CommittedOnce, ProposedByCommitter, UndecidedIsOpen,
     DecidedWasProposed, OpenOnce, WaitingUndecided, ChosenOnce, Commits, IsWaiting,
     Open, ValueAt
<1>5. ASSUME NEW n \in Nodes, NEW s \in Slots, Choose(n, s) PROVE ValueInv'
  BY <1>4, <1>5 DEF Choose
<1>6. ASSUME NEW msg \in net, Recv(msg) PROVE ValueInv'
  BY <1>4, <1>6 DEF Recv, RecvDecide, RecvLearn, RecvTeach, Received
<1>7. ASSUME NEW n \in Nodes, Crash(n) PROVE ValueInv'
  BY <1>4, <1>7 DEF Crash
<1>8. CASE UNCHANGED vars
  BY <1>4, <1>8 DEF vars, node_vars
<1> QED  BY <1>1, <1>2, <1>3, <1>5, <1>6, <1>7, <1>8 DEF Next

(***************************************************************************)
(* What the nodes have recorded.                                           *)
(***************************************************************************)

\* Recording the value of a slot keeps the records right and the callbacks in
\* order and complete.
LEMMA RecordKeeps ==
  ASSUME TypeOK, RecordedIsDecided, CallbacksInOrder,
         NEW n \in Nodes, NEW s \in Slots,
         decided[s] # NULL, add_chosen_value(n, s, decided[s]), decided' = decided
  PROVE  /\ RecordedIsDecided'
         /\ CallbacksInOrder'
         /\ chosen_values'[n][s] = decided[s]
         /\ \A m \in Nodes, t \in Slots : chosen_values[m][t] # NULL =>
              chosen_values'[m][t] = chosen_values[m][t]
PROOF
<1>0. decided[s] \in Values
  BY DEF TypeOK, ValuesOrNull
<1>1. PICK k \in {0} \cup Slots :
        /\ Gapless(chosen_values'[n], k)
        /\ called'[n] = [i \in 1 .. k |-> IF i <= Len(called[n]) THEN called[n][i]
                                          ELSE chosen_values'[n][i]]
  BY <1>0, RecordFacts
<1>2. /\ chosen_values'[n][s] = IF chosen_values[n][s] = NULL THEN decided[s]
                                ELSE chosen_values[n][s]
      /\ \A t \in Slots \ {s} : chosen_values'[n][t] = chosen_values[n][t]
      /\ \A m \in Nodes \ {n} : chosen_values'[m] = chosen_values[m] /\ called'[m] = called[m]
  BY <1>0, RecordFacts
<1>3. \A m \in Nodes, t \in Slots : chosen_values[m][t] \in {NULL, decided[t]}
  BY DEF RecordedIsDecided
<1>4. chosen_values'[n][s] = decided[s]
  BY <1>2, <1>3
<1>5. \A m \in Nodes, t \in Slots : chosen_values'[m][t] \in {NULL, decided[t]}
  BY <1>2, <1>3, <1>4
<1>6. \A m \in Nodes, t \in Slots : chosen_values[m][t] # NULL =>
        chosen_values'[m][t] = chosen_values[m][t]
  BY <1>2, <1>3, <1>4
<1>7. RecordedIsDecided'
  BY <1>5 DEF RecordedIsDecided
<1>8. k \in Nat /\ 1 .. k \subseteq Slots /\ Len(called'[n]) = k /\ DOMAIN called'[n] = 1 .. k
  <2>1. k \in Nat /\ 1 .. k \subseteq Slots
    BY CaptainAssumption DEF Slots
  <2> QED  BY <1>1, <2>1
<1>9. CallbacksInOrder'
  <2> SUFFICES ASSUME NEW m \in Nodes
               PROVE  /\ Gapless(chosen_values'[m], Len(called'[m]))
                      /\ \A i \in DOMAIN called'[m] : called'[m][i] = decided[i]
    BY DEF CallbacksInOrder, Gapless
  <2>1. /\ Gapless(chosen_values[m], Len(called[m]))
        /\ \A i \in DOMAIN called[m] : called[m][i] = decided[i]
    BY DEF CallbacksInOrder
  <2>2. CASE m # n
    BY <1>2, <2>1, <2>2
  <2>3. CASE m = n
    <3>1. ASSUME NEW i \in 1 .. k PROVE called'[n][i] = decided[i]
      <4>1. CASE i <= Len(called[n])
        <5>1. i \in DOMAIN called[n]
          BY <1>8, <4>1 DEF TypeOK
        <5> QED  BY <1>1, <2>1, <2>3, <4>1, <5>1
      <4>2. CASE ~ (i <= Len(called[n]))
        <5>1. chosen_values'[n][i] # NULL
          BY <1>1 DEF Gapless
        <5> QED  BY <1>1, <1>5, <1>8, <4>2, <5>1
      <4> QED  BY <4>1, <4>2
    <3> QED  BY <1>1, <1>8, <2>3, <3>1
  <2> QED  BY <2>2, <2>3
<1> QED  BY <1>4, <1>6, <1>7, <1>9

\* A step that decides nothing and sends nothing keeps the records.
LEMMA RecordStutter ==
  ASSUME TypeOK, RecordInv, UNCHANGED <<chosen_values, called, net, decided>>,
         \A n \in Nodes : choosing'[n] \subseteq choosing[n]
  PROVE  RecordInv'
BY DEF RecordInv, RecordedIsDecided, MessagesTrue, ChoosingRecorded, CallbacksInOrder, Gapless

LEMMA RecordNext ==
  TypeOK /\ RecordInv /\ [Next]_vars => RecordInv'
PROOF
<1> SUFFICES ASSUME TypeOK, RecordInv, [Next]_vars PROVE RecordInv'
  OBVIOUS
<1> USE DEF RecordInv
<1>1. ASSUME NEW n \in Nodes, NEW v \in Values, Commit(n, v) PROVE RecordInv'
  BY <1>1, RecordStutter DEF Commit, CommitQueued, CommitStarted, CommitCalled
<1>2. ASSUME NEW s \in Slots, Decide(s) PROVE RecordInv'
  <2>1. /\ decided[s] = NULL
        /\ \A t \in Slots \ {s} : decided'[t] = decided[t]
        /\ UNCHANGED <<chosen_values, called, net, choosing>>
    BY <1>2 DEF Decide, node_vars, TypeOK
  <2>2. \A t \in Slots : decided[t] # NULL => decided'[t] = decided[t]
    BY <2>1
  <2>3. \A n \in Nodes : choosing[n] \subseteq Slots
    BY DEF TypeOK
  <2>4. RecordedIsDecided' /\ ChoosingRecorded'
    BY <2>1, <2>2, <2>3 DEF RecordedIsDecided, ChoosingRecorded
  <2>5. MessagesTrue'
    BY <2>1, <2>2 DEF MessagesTrue, TypeOK
  <2>6. CallbacksInOrder'
    <3> SUFFICES ASSUME NEW n \in Nodes, NEW i \in DOMAIN called[n]
                 PROVE  called[n][i] = decided'[i]
      BY <2>1 DEF CallbacksInOrder, Gapless
    <3>1. i \in Slots /\ called[n][i] \in Values /\ called[n][i] = decided[i]
      <4>1. Gapless(chosen_values[n], Len(called[n])) /\ called[n] \in Seq(Values)
            /\ called[n][i] = decided[i]
        BY DEF CallbacksInOrder, TypeOK
      <4>2. i \in 1 .. Len(called[n]) /\ called[n][i] \in Values
        BY <4>1
      <4>3. Len(called[n]) <= MaxSlot /\ Len(called[n]) \in Nat /\ MaxSlot \in Nat
        BY CaptainAssumption DEF TypeOK
      <4>4. i \in Slots
        BY <4>2, <4>3 DEF Slots
      <4> QED  BY <4>1, <4>2, <4>4
    <3> QED  BY <2>2, <3>1, ViewAssumption
  <2> QED  BY <2>4, <2>5, <2>6
<1>3. ASSUME NEW n \in Nodes, NEW s \in Slots, Choose(n, s) PROVE RecordInv'
  <2>1. /\ decided[s] # NULL /\ decided' = decided
        /\ add_chosen_value(n, s, decided[s])
        /\ net' = net \cup Announce(n, s, decided[s], chosen_values'[n][s])
        /\ choosing' = [choosing EXCEPT ![n] = @ \cup {s}]
    BY <1>3 DEF Choose
  <2>2. /\ RecordedIsDecided' /\ CallbacksInOrder'
        /\ chosen_values'[n][s] = decided[s]
        /\ \A m \in Nodes, t \in Slots : chosen_values[m][t] # NULL =>
             chosen_values'[m][t] = chosen_values[m][t]
    BY <2>1, RecordKeeps
  <2>3. MessagesTrue'
    <3>1. \A msg \in Announce(n, s, decided[s], chosen_values'[n][s]) :
            msg.slot = s /\ msg.value = decided[s]
      BY <2>2 DEF Announce, Message
    <3> QED  BY <2>1, <3>1 DEF MessagesTrue
  <2>4. ChoosingRecorded'
    <3> SUFFICES ASSUME NEW m \in Nodes, NEW t \in choosing'[m]
                 PROVE  decided[t] # NULL /\ chosen_values'[m][t] = decided[t]
      BY <2>1 DEF ChoosingRecorded
    <3>1. CASE m = n /\ t = s
      BY <2>1, <2>2, <3>1
    <3>2. CASE t \in choosing[m]
      BY <2>2, <3>2 DEF ChoosingRecorded, TypeOK
    <3> QED  BY <2>1, <3>1, <3>2 DEF TypeOK
  <2> QED  BY <2>2, <2>3, <2>4
<1>4. ASSUME NEW n \in Nodes, NEW s \in Slots, EndChoose(n, s) PROVE RecordInv'
  <2>1. /\ choosing' = [choosing EXCEPT ![n] = @ \ {s}]
        /\ UNCHANGED <<chosen_values, called, net, decided>>
    BY <1>4, EndChooseFacts
  <2> QED  BY <2>1, RecordStutter DEF TypeOK
<1>5. ASSUME NEW msg \in net, Recv(msg) PROVE RecordInv'
  <2>1. decided' = decided /\ choosing' = choosing
    BY <1>5 DEF Recv, RecvDecide, RecvLearn, RecvTeach, Received
  <2>2. msg.to \in Nodes /\ msg.slot \in Slots
    BY DEF TypeOK
  <2> DEFINE n == msg.to
  <2>3. MessagesTrue'
    <3>1. CASE RecvLearn(msg)
      <4>1. chosen_values[n][msg.slot] \in {NULL, decided[msg.slot]}
        BY <2>2 DEF RecordedIsDecided
      <4>2. \A v \in {chosen_values[n][msg.slot]} \ {NULL} :
              LET m == Message("TEACH", n, msg.from, msg.slot, v) IN
              m.value # NULL /\ m.value = decided[m.slot]
        BY <4>1 DEF Message
      <4>3. \A m \in net' : m \in net \/ \E v \in {chosen_values[n][msg.slot]} \ {NULL} :
              m = Message("TEACH", n, msg.from, msg.slot, v)
        BY <3>1 DEF RecvLearn
      <4>4. \A m \in net' : m \in net \/ (m.value # NULL /\ m.value = decided[m.slot])
        BY <4>2, <4>3
      <4> QED  BY <2>1, <4>4 DEF MessagesTrue
    <3>2. CASE RecvDecide(msg) \/ RecvTeach(msg)
      <4>1. Message("LEARN", n, msg.from, msg.slot, NULL).type = "LEARN"
        BY DEF Message
      <4>2. net' \subseteq net \cup {Message("LEARN", n, msg.from, msg.slot, NULL)}
        BY <3>2 DEF RecvDecide, RecvTeach
      <4> QED  BY <2>1, <4>1, <4>2 DEF MessagesTrue
    <3> QED  BY <1>5, <3>1, <3>2 DEF Recv
  <2>4. CASE UNCHANGED <<chosen_values, called>>
    <3>1. RecordedIsDecided' /\ ChoosingRecorded' /\ CallbacksInOrder'
      BY <2>1, <2>4 DEF RecordedIsDecided, ChoosingRecorded, CallbacksInOrder, Gapless
    <3> QED  BY <2>3, <3>1
  <2>5. CASE msg.type \in {"DECIDE", "TEACH"} /\ add_chosen_value(n, msg.slot, msg.value)
    <3>1. decided[msg.slot] # NULL /\ msg.value = decided[msg.slot]
      BY <2>5 DEF MessagesTrue
    <3>2. /\ RecordedIsDecided' /\ CallbacksInOrder'
          /\ \A m \in Nodes, t \in Slots : chosen_values[m][t] # NULL =>
               chosen_values'[m][t] = chosen_values[m][t]
      BY <2>1, <2>2, <2>5, <3>1, RecordKeeps
    <3>3. ChoosingRecorded'
      BY <2>1, <3>2 DEF ChoosingRecorded, TypeOK
    <3> QED  BY <2>3, <3>2, <3>3
  <2> QED  BY <1>5, <2>4, <2>5 DEF Recv, RecvDecide, RecvLearn, RecvTeach
<1>6. ASSUME NEW n \in Nodes, Crash(n) PROVE RecordInv'
  BY <1>6, RecordStutter DEF Crash
<1>7. CASE UNCHANGED vars
  BY <1>7, RecordStutter DEF vars, node_vars
<1> QED  BY <1>1, <1>2, <1>3, <1>4, <1>5, <1>6, <1>7 DEF Next

(***************************************************************************)
(* What the clients are told.                                              *)
(***************************************************************************)

\* A slot that is started keeps the names right if its own is right.
LEMMA StartKeepsNames ==
  ASSUME TypeOK, ClientNames, NEW n \in Nodes, NEW p, NEW kept \in SUBSET Open(n),
         NewSlot(n, p, kept),
         p.client_name \in Clients => p.client_name = p.init_value /\ p.try_time = 1
  PROVE  ClientNames'
PROOF
<1>1. /\ Open(n)' = kept \cup {NextSlot(n)}
      /\ \A t \in kept : proposers'[n][t] = proposers[n][t]
      /\ proposers'[n][NextSlot(n)] = p
      /\ \A m \in Nodes \ {n} : proposers'[m] = proposers[m]
  BY NewSlotFacts
<1> SUFFICES ASSUME NEW m \in Nodes, NEW s \in Open(m)', NEW q, q = proposers'[m][s],
                    q.client_name \in Clients
             PROVE  q.client_name = q.init_value /\ q.try_time = 1
  BY DEF ClientNames
<1>2. CASE m # n
  BY <1>1, <1>2 DEF ClientNames, Open
<1>3. CASE m = n /\ s \in kept
  BY <1>1, <1>3 DEF ClientNames
<1>4. CASE m = n /\ s = NextSlot(n)
  BY <1>1, <1>4
<1> QED  BY <1>1, <1>2, <1>3, <1>4

LEMMA NamesNext ==
  TypeOK /\ WindowRespected /\ QueueInOrder /\ CommittedOnce /\ ChoosingRecorded
    /\ ClientNames /\ [Next]_vars => ClientNames'
PROOF
<1> SUFFICES ASSUME TypeOK, WindowRespected, QueueInOrder, CommittedOnce,
                    ChoosingRecorded, ClientNames, [Next]_vars
             PROVE  ClientNames'
  OBVIOUS
<1>0. ASSUME UNCHANGED proposers PROVE ClientNames'
  BY <1>0 DEF ClientNames, Open
<1>1. ASSUME NEW n \in Nodes, NEW v \in Values, Commit(n, v) PROVE ClientNames'
  <2>1. CASE CommitQueued(n, v)
    BY <1>0, <2>1 DEF CommitQueued
  <2>2. CASE CommitStarted(n, v)
    <3>1. tocommit_values[n] = <<>> /\ tocommit_clients[n] = <<>>
      <4>1. tocommit_values[n] = <<>>
        BY <2>2 DEF CommitStarted, WindowRespected
      <4>2. tocommit_clients[n] \in Seq(Names) /\ Len(tocommit_clients[n]) = 0
        BY <4>1 DEF TypeOK, QueueInOrder
      <4> QED  BY <4>1, <4>2
    <3>2. PICK p : p = Info(v, ClientName(v), 1)
      OBVIOUS
    <3>3. NewSlot(n, p, Open(n))
      BY <2>2, <3>1, <3>2 DEF CommitStarted
    <3>4. p.client_name \in Clients => p.client_name = p.init_value /\ p.try_time = 1
      BY <3>2, ViewAssumption, CaptainAssumption DEF Info, ClientName
    <3> QED  BY <3>3, <3>4, StartKeepsNames
  <2> QED  BY <1>1, <2>1, <2>2 DEF Commit
<1>2. ASSUME NEW n \in Nodes, NEW s \in Slots, EndChoose(n, s) PROVE ClientNames'
  <2>1. s \in Open(n)
    BY <1>2, EndChooseFacts
  <2>2. CASE Finish(n, s)
    <3>1. /\ Open(n)' = Open(n) \ {s}
          /\ \A t \in Open(n) \ {s} : proposers'[n][t] = proposers[n][t]
          /\ \A m \in Nodes \ {n} : proposers'[m] = proposers[m]
      BY <2>1, <2>2, EraseFacts DEF Finish
    <3> QED  BY <3>1 DEF ClientNames, Open
  <2>3. CASE StartNext(n, s)
    <3>1. PICK v : v = Head(tocommit_values[n])
      OBVIOUS
    <3>2. PICK p : p = Info(v, ClientName(v), 1)
      OBVIOUS
    <3>3. NewSlot(n, p, Open(n) \ {s})
      BY <2>3, <3>1, <3>2, StartNextFacts DEF StartNext
    <3>4. p.client_name \in Clients => p.client_name = p.init_value /\ p.try_time = 1
      BY <3>2, ViewAssumption, CaptainAssumption DEF Info, ClientName
    <3> QED  BY <3>3, <3>4, StartKeepsNames
  <2>4. CASE Recommit(n, s)
    <3>1. PICK p : p = Info(proposers[n][s].init_value, DataName, proposers[n][s].try_time + 1)
      OBVIOUS
    <3>2. NewSlot(n, p, Open(n) \ {s})
      BY <2>4, <3>1 DEF Recommit
    <3>3. p.client_name \notin Clients
      BY <3>1, CaptainAssumption DEF Info
    <3> QED  BY <3>2, <3>3, StartKeepsNames
  <2> QED  BY <1>2, <2>2, <2>3, <2>4 DEF EndChoose
<1>3. ASSUME NEW s \in Slots, Decide(s) PROVE ClientNames'
  BY <1>0, <1>3 DEF Decide, node_vars
<1>4. ASSUME NEW n \in Nodes, NEW s \in Slots, Choose(n, s) PROVE ClientNames'
  BY <1>0, <1>4 DEF Choose
<1>5. ASSUME NEW msg \in net, Recv(msg) PROVE ClientNames'
  BY <1>0, <1>5 DEF Recv, RecvDecide, RecvLearn, RecvTeach, Received
<1>6. ASSUME NEW n \in Nodes, Crash(n) PROVE ClientNames'
  BY <1>0, <1>6 DEF Crash
<1>7. CASE UNCHANGED vars
  BY <1>0, <1>7 DEF vars, node_vars
<1> QED  BY <1>1, <1>2, <1>3, <1>4, <1>5, <1>6, <1>7 DEF Next

LEMMA InformedNext ==
  TypeOK /\ ClientNames /\ InformedTrue /\ [Next]_vars => InformedTrue'
PROOF
<1> SUFFICES ASSUME TypeOK, ClientNames, InformedTrue, [Next]_vars PROVE InformedTrue'
  OBVIOUS
<1>0. ASSUME UNCHANGED <<informed, decided>> PROVE InformedTrue'
  BY <1>0 DEF InformedTrue
<1>1. ASSUME NEW n \in Nodes, NEW v \in Values, Commit(n, v) PROVE InformedTrue'
  BY <1>0, <1>1 DEF Commit, CommitQueued, CommitStarted, CommitCalled
<1>2. ASSUME NEW s \in Slots, Decide(s) PROVE InformedTrue'
  <2>1. /\ decided[s] = NULL /\ informed' = informed
        /\ \A t \in Slots \ {s} : decided'[t] = decided[t]
    BY <1>2 DEF Decide, TypeOK
  <2>2. \A a \in informed : a.slot \in Slots
    BY DEF TypeOK
  <2> QED  BY <2>1, <2>2, ViewAssumption, CaptainAssumption DEF InformedTrue
<1>3. ASSUME NEW n \in Nodes, NEW s \in Slots, Choose(n, s) PROVE InformedTrue'
  <2>1. s \in Open(n) /\ informed' = informed \cup Told(n, s) /\ decided' = decided
    BY <1>3 DEF Choose
  <2>2. ASSUME NEW a \in Told(n, s), a.client \in Clients
        PROVE  decided[a.slot] = a.client /\ a.try_time = 1
    <3>1. /\ a.slot = s /\ a.client = proposers[n][s].client_name
          /\ a.try_time = proposers[n][s].try_time
          /\ proposers[n][s].init_value = decided[s]
      BY DEF Told
    <3>2. proposers[n][s].client_name = proposers[n][s].init_value /\ proposers[n][s].try_time = 1
      BY <2>1, <2>2, <3>1 DEF ClientNames
    <3> QED  BY <3>1, <3>2
  <2> QED  BY <2>1, <2>2 DEF InformedTrue
<1>4. ASSUME NEW n \in Nodes, NEW s \in Slots, EndChoose(n, s) PROVE InformedTrue'
  BY <1>0, <1>4 DEF EndChoose, Finish, StartNext, Recommit, Chosen
<1>5. ASSUME NEW msg \in net, Recv(msg) PROVE InformedTrue'
  BY <1>0, <1>5 DEF Recv, RecvDecide, RecvLearn, RecvTeach, Received
<1>6. ASSUME NEW n \in Nodes, Crash(n) PROVE InformedTrue'
  BY <1>0, <1>6 DEF Crash
<1>7. CASE UNCHANGED vars
  BY <1>0, <1>7 DEF vars
<1> QED  BY <1>1, <1>2, <1>3, <1>4, <1>5, <1>6, <1>7 DEF Next

(***************************************************************************)
(* No value is forgotten.                                                  *)
(***************************************************************************)

IsPlaced(n, v) ==
  \/ IsWaiting(n, v)
  \/ \E s \in Open(n) : ValueAt(n, s) = v
  \/ \E s \in Slots : chosen_values[n][s] = v

LEMMA PlacedMeans == Placed <=> \A n \in Nodes : \A v : Commits(n, v) => IsPlaced(n, v)
BY DEF Placed, Commits, IsPlaced

\* What NewSlot starts has a place, and the slots that are kept stay.
LEMMA StartPlaces ==
  ASSUME TypeOK, NEW n \in Nodes, NEW p, NEW kept \in SUBSET Open(n), NewSlot(n, p, kept)
  PROVE  /\ \E t \in Open(n)' : ValueAt(n, t)' = p.init_value
         /\ \A s \in kept : s \in Open(n)' /\ ValueAt(n, s)' = ValueAt(n, s)
         /\ \A m \in Nodes \ {n} : Open(m)' = Open(m) /\ \A s : ValueAt(m, s)' = ValueAt(m, s)
PROOF
<1>0. PICK t : t = NextSlot(n)
  OBVIOUS
<1>1. /\ Open(n)' = kept \cup {t}
      /\ \A s \in kept : proposers'[n][s] = proposers[n][s]
      /\ proposers'[n][t] = p
      /\ \A m \in Nodes \ {n} : proposers'[m] = proposers[m]
  BY <1>0, NewSlotFacts
<1>2. t \in Open(n)' /\ ValueAt(n, t)' = p.init_value
  BY <1>1 DEF ValueAt
<1> QED  BY <1>1, <1>2 DEF ValueAt, Open

LEMMA PlacedNext ==
  TypeOK /\ WindowRespected /\ QueueInOrder /\ CommittedOnce /\ RecordInv /\ Placed
    /\ [Next]_vars => Placed'
PROOF
<1> SUFFICES ASSUME TypeOK, WindowRespected, QueueInOrder, CommittedOnce, RecordInv, Placed,
                    [Next]_vars, NEW m \in Nodes, NEW w, Commits(m, w)'
             PROVE  IsPlaced(m, w)'
  BY DEF Placed, Commits, IsPlaced
<1> USE DEF RecordInv
<1>0. Commits(m, w) => IsPlaced(m, w)
  BY PlacedMeans
<1>1. ASSUME NEW n \in Nodes, NEW v \in Values, Commit(n, v) PROVE IsPlaced(m, w)'
  <2>1. /\ CommitCalled(n, v)
        /\ chosen_values' = chosen_values
    BY <1>1 DEF Commit, CommitQueued, CommitStarted, CommitCalled
  <2>2. Commits(m, w) \/ (m = n /\ w = v)
    BY <2>1, CommitFacts
  <2>3. CASE CommitQueued(n, v)
    <3>1. IsWaiting(m, w)' <=> IsWaiting(m, w) \/ (m = n /\ w = v)
      BY <2>3, QueuedFacts
    <3>2. Open(m)' = Open(m) /\ \A s : ValueAt(m, s)' = ValueAt(m, s)
      BY <2>3 DEF CommitQueued, Open, ValueAt
    <3> QED  BY <1>0, <2>1, <2>2, <3>1, <3>2 DEF IsPlaced
  <2>4. CASE CommitStarted(n, v)
    <3>1. tocommit_values[n] = <<>>
      BY <2>4 DEF CommitStarted, WindowRespected
    <3>2. PICK p : p = Info(v, Head(Append(tocommit_clients[n], ClientName(v))), 1)
      OBVIOUS
    <3>3. NewSlot(n, p, Open(n)) /\ p.init_value = v
      BY <2>4, <3>1, <3>2 DEF CommitStarted, Info
    <3>4. /\ \E t \in Open(n)' : ValueAt(n, t)' = v
          /\ \A s \in Open(n) : s \in Open(n)' /\ ValueAt(n, s)' = ValueAt(n, s)
          /\ \A k \in Nodes \ {n} : Open(k)' = Open(k) /\ \A s : ValueAt(k, s)' = ValueAt(k, s)
      BY <3>3, StartPlaces
    <3>5. IsWaiting(m, w) => IsWaiting(m, w)'
      BY <2>4, <3>1 DEF CommitStarted, IsWaiting, TypeOK
    <3>6. \A s \in Open(m) : s \in Open(m)' /\ ValueAt(m, s)' = ValueAt(m, s)
      BY <3>4
    <3> QED  BY <1>0, <2>1, <2>2, <3>4, <3>5, <3>6 DEF IsPlaced
  <2> QED  BY <1>1, <2>3, <2>4 DEF Commit
<1>2. ASSUME NEW n \in Nodes, NEW s \in Slots, EndChoose(n, s) PROVE IsPlaced(m, w)'
  <2>1. /\ s \in Open(n)
        /\ chosen_values[n][s] = decided[s]
        /\ chosen_values' = chosen_values
    BY <1>2, EndChooseFacts
  <2>2. IsPlaced(m, w)
    BY <1>0, <1>2, EndChooseFacts
  <2>3. CASE Finish(n, s)
    <3>1. /\ Open(n)' = Open(n) \ {s}
          /\ \A t \in Open(n) \ {s} : proposers'[n][t] = proposers[n][t]
          /\ \A k \in Nodes \ {n} : proposers'[k] = proposers[k]
      BY <2>1, <2>3, EraseFacts DEF Finish
    <3>2. IsWaiting(m, w)' <=> IsWaiting(m, w)
      BY <2>3 DEF Finish, IsWaiting
    <3>3. ValueAt(n, s) = chosen_values[n][s]
      BY <2>1, <2>3 DEF Finish, HasOwnValue, ValueAt
    <3>4. ASSUME NEW t \in Open(m), ValueAt(m, t) = w
          PROVE  (t \in Open(m)' /\ ValueAt(m, t)' = w) \/ chosen_values[m][s] = w
      BY <3>1, <3>3, <3>4 DEF Open, ValueAt
    <3> QED  BY <2>1, <2>2, <3>2, <3>4 DEF IsPlaced
  <2>4. CASE StartNext(n, s)
    <3>1. PICK v : v = Head(tocommit_values[n])
      OBVIOUS
    <3>2. PICK p : p = Info(v, Head(tocommit_clients[n]), 1)
      OBVIOUS
    <3>3. NewSlot(n, p, Open(n) \ {s}) /\ p.init_value = v
      BY <2>4, <3>1, <3>2 DEF StartNext, Info
    <3>4. /\ \E t \in Open(n)' : ValueAt(n, t)' = v
          /\ \A t \in Open(n) \ {s} : t \in Open(n)' /\ ValueAt(n, t)' = ValueAt(n, t)
          /\ \A k \in Nodes \ {n} : Open(k)' = Open(k) /\ \A t : ValueAt(k, t)' = ValueAt(k, t)
      BY <3>3, StartPlaces
    <3>5. /\ \A x : IsWaiting(n, x) => IsWaiting(n, x)' \/ x = v
          /\ \A k \in Nodes \ {n} : tocommit_values'[k] = tocommit_values[k]
      BY <2>4, <3>1, StartNextFacts
    <3>6. ValueAt(n, s) = chosen_values[n][s]
      BY <2>1, <2>4 DEF StartNext, HasOwnValue, ValueAt
    <3>7. IsWaiting(m, w) => IsPlaced(m, w)'
      BY <3>4, <3>5 DEF IsWaiting, IsPlaced
    <3>8. ASSUME NEW t \in Open(m), ValueAt(m, t) = w
          PROVE  (t \in Open(m)' /\ ValueAt(m, t)' = w) \/ chosen_values[m][s] = w
      BY <3>4, <3>6, <3>8
    <3> QED  BY <2>1, <2>2, <3>7, <3>8 DEF IsPlaced
  <2>5. CASE Recommit(n, s)
    <3>1. PICK p : p = Info(proposers[n][s].init_value, DataName, proposers[n][s].try_time + 1)
      OBVIOUS
    <3>2. NewSlot(n, p, Open(n) \ {s}) /\ p.init_value = ValueAt(n, s)
      BY <2>5, <3>1 DEF Recommit, Info, ValueAt
    <3>3. PICK v : v = ValueAt(n, s)
      OBVIOUS
    <3>4. /\ \E t \in Open(n)' : ValueAt(n, t)' = v
          /\ \A t \in Open(n) \ {s} : t \in Open(n)' /\ ValueAt(n, t)' = ValueAt(n, t)
          /\ \A k \in Nodes \ {n} : Open(k)' = Open(k) /\ \A t : ValueAt(k, t)' = ValueAt(k, t)
      BY <3>2, <3>3, StartPlaces
    <3>5. IsWaiting(m, w)' <=> IsWaiting(m, w)
      BY <2>5 DEF Recommit, IsWaiting
    <3>6. ASSUME NEW t \in Open(m), ValueAt(m, t) = w
          PROVE  \E r \in Open(m)' : ValueAt(m, r)' = w
      <4>1. CASE m = n /\ t = s
        BY <3>3, <3>4, <3>6, <4>1
      <4>2. CASE ~ (m = n /\ t = s)
        BY <3>4, <3>6, <4>2
      <4> QED  BY <4>1, <4>2
    <3> QED  BY <2>1, <2>2, <3>5, <3>6 DEF IsPlaced
  <2> QED  BY <1>2, <2>3, <2>4, <2>5 DEF EndChoose
<1>3. ASSUME UNCHANGED <<committed, proposers, tocommit_values>>,
             \A t \in Slots : chosen_values[m][t] # NULL =>
               chosen_values'[m][t] = chosen_values[m][t]
      PROVE  IsPlaced(m, w)'
  <2>1. Commits(m, w)
    BY <1>3 DEF Commits
  <2>2. w # NULL
    BY <2>1, ViewAssumption DEF Commits, TypeOK
  <2> QED  BY <1>0, <1>3, <2>1, <2>2 DEF IsPlaced, IsWaiting, Open, ValueAt
<1>4. ASSUME NEW s \in Slots, Decide(s) PROVE IsPlaced(m, w)'
  BY <1>3, <1>4 DEF Decide, node_vars
<1>5. ASSUME NEW n \in Nodes, NEW s \in Slots, Choose(n, s) PROVE IsPlaced(m, w)'
  <2>1. decided[s] # NULL /\ add_chosen_value(n, s, decided[s]) /\ decided' = decided
    BY <1>5 DEF Choose
  <2> QED  BY <1>3, <1>5, <2>1, RecordKeeps DEF Choose
<1>6. ASSUME NEW msg \in net, Recv(msg) PROVE IsPlaced(m, w)'
  <2>1. /\ UNCHANGED <<committed, proposers, tocommit_values>> /\ decided' = decided
        /\ msg.to \in Nodes /\ msg.slot \in Slots
    BY <1>6 DEF Recv, RecvDecide, RecvLearn, RecvTeach, Received, TypeOK
  <2>2. CASE UNCHANGED chosen_values
    BY <1>3, <2>1, <2>2
  <2>3. CASE msg.type \in {"DECIDE", "TEACH"} /\ add_chosen_value(msg.to, msg.slot, msg.value)
    <3>1. decided[msg.slot] # NULL /\ msg.value = decided[msg.slot]
      BY <2>3 DEF MessagesTrue
    <3> QED  BY <1>3, <2>1, <2>3, <3>1, RecordKeeps
  <2> QED  BY <1>6, <2>2, <2>3 DEF Recv, RecvDecide, RecvLearn, RecvTeach
<1>7. ASSUME NEW n \in Nodes, Crash(n) PROVE IsPlaced(m, w)'
  BY <1>3, <1>7 DEF Crash
<1>8. CASE UNCHANGED vars
  BY <1>3, <1>8 DEF vars, node_vars
<1> QED  BY <1>1, <1>2, <1>4, <1>5, <1>6, <1>7, <1>8 DEF Next

(***************************************************************************)
(* The theorems.                                                           *)
(***************************************************************************)

LEMMA CaptainInvInit == Init => CaptainInv
PROOF
<1> SUFFICES ASSUME Init PROVE CaptainInv
  OBVIOUS
<1>1. TypeOK
  BY TypeInit
<1>2. \A n \in Nodes : Open(n) = {} /\ committed[n] = <<>>
        /\ tocommit_values[n] = <<>> /\ tocommit_clients[n] = <<>>
  BY DEF Init, Open
<1>3. WindowRespected /\ QueueInOrder
  <2>1. ASSUME NEW n \in Nodes PROVE Cardinality(Open(n)) <= WindowSize[n]
    <3>1. Cardinality({}) = 0
      BY FS_EmptySet
    <3>2. WindowSize[n] \in Nat /\ 0 <= WindowSize[n]
      BY CaptainAssumption
    <3>3. Cardinality(Open(n)) = 0
      BY <1>2, <3>1
    <3> QED  BY <3>2, <3>3
  <2> QED  BY <1>2, <2>1 DEF WindowRespected, QueueInOrder
<1>4. ValueInv
  BY <1>2 DEF Init, ValueInv, CommittedOnce, ProposedByCommitter, UndecidedIsOpen,
     DecidedWasProposed, OpenOnce, WaitingUndecided, ChosenOnce
<1>5. RecordInv
  <2>1. \A n \in Nodes : Gapless(chosen_values[n], 0)
    BY DEF Init, Gapless
  <2> QED  BY <2>1 DEF Init, RecordInv, RecordedIsDecided, MessagesTrue, ChoosingRecorded,
       CallbacksInOrder
<1>6. ClientNames /\ InformedTrue /\ Placed
  BY <1>2 DEF Init, ClientNames, InformedTrue, Placed
<1> QED  BY <1>1, <1>3, <1>4, <1>5, <1>6 DEF CaptainInv, QueueInv

LEMMA CaptainInvNext == CaptainInv /\ [Next]_vars => CaptainInv'
PROOF
<1> SUFFICES ASSUME CaptainInv, [Next]_vars PROVE CaptainInv'
  OBVIOUS
<1>1. /\ TypeOK /\ WindowRespected /\ QueueInOrder /\ ValueInv /\ RecordInv
      /\ ClientNames /\ InformedTrue /\ Placed
      /\ CommittedOnce /\ ChoosingRecorded /\ MessagesTrue
  BY DEF CaptainInv, QueueInv, ValueInv, RecordInv
<1>2. TypeOK'
  BY <1>1, TypeNext
<1>3. WindowRespected' /\ QueueInOrder'
  BY <1>1, WindowNext, QueueNext
<1>4. ValueInv'
  BY <1>1, <1>2, ValueNext
<1>5. RecordInv'
  BY <1>1, RecordNext
<1>6. ClientNames' /\ InformedTrue'
  BY <1>1, NamesNext, InformedNext
<1>7. Placed'
  BY <1>1, PlacedNext
<1> QED  BY <1>2, <1>3, <1>4, <1>5, <1>6, <1>7 DEF CaptainInv, QueueInv

\* The invariant of Captain over all slots.
THEOREM CaptainInvariant == Spec => []CaptainInv
PROOF
<1> QED  BY CaptainInvInit, CaptainInvNext, PTL DEF Spec

\* Every variable of Captain keeps its type.
THEOREM CaptainTypeCorrect == Spec => []TypeOK
PROOF
<1>1. CaptainInv => TypeOK
  BY DEF CaptainInv, QueueInv
<1> QED  BY <1>1, CaptainInvariant, PTL

\* commit, the end of a slot and the retry of a lost value keep the number of
\* open proposers within window_size_, and a value waits only while it is full.
THEOREM WindowIsRespected == Spec => []WindowRespected
PROOF
<1>1. CaptainInv => WindowRespected
  BY DEF CaptainInv, QueueInv
<1> QED  BY <1>1, CaptainInvariant, PTL

\* tocommit_values_ is always the last part of what was committed, and
\* tocommit_clients_ stays aligned with it.
THEOREM QueuesAreInOrder == Spec => []QueueInOrder
PROOF
<1>1. CaptainInv => QueueInOrder
  BY DEF CaptainInv, QueueInv
<1> QED  BY <1>1, CaptainInvariant, PTL

\* A value is chosen in one slot only, although a value that lost its slot is
\* committed again by the CHOOSE case.
THEOREM ValuesAreChosenOnce == Spec => []ChosenOnce
PROOF
<1>1. CaptainInv => ChosenOnce
  BY DEF CaptainInv, ValueInv
<1> QED  BY <1>1, CaptainInvariant, PTL

\* What commit was given is never lost and never in two places: it waits, or it
\* is proposed in one slot, or it is recorded as chosen.
THEOREM NothingIsForgotten == Spec => []NothingForgotten
PROOF
<1>1. CaptainInv => NothingForgotten
  <2> SUFFICES ASSUME CaptainInv, NEW n \in Nodes, NEW i \in DOMAIN committed[n],
                      NEW v, v = committed[n][i]
               PROVE  \/ IsWaiting(n, v) /\ OpenWith(n, v) = {}
                      \/ ~ IsWaiting(n, v) /\ \E s \in Slots : OpenWith(n, v) = {s}
                      \/ /\ ~ IsWaiting(n, v)
                         /\ OpenWith(n, v) = {}
                         /\ \E s \in Slots : chosen_values[n][s] = v
    BY DEF NothingForgotten
  <2>1. IsPlaced(n, v)
    BY DEF CaptainInv, Placed, IsPlaced
  <2>2. \A s \in Open(n) : /\ ~ IsWaiting(n, ValueAt(n, s))
                          /\ \A t \in Open(n) : ValueAt(n, t) = ValueAt(n, s) => t = s
    BY DEF CaptainInv, ValueInv, OpenOnce
  <2>3. OpenWith(n, v) = {s \in Open(n) : ValueAt(n, s) = v}
    BY DEF OpenWith, ValueAt
  <2>4. CASE \E s \in Open(n) : ValueAt(n, s) = v
    <3>1. PICK s \in Open(n) : ValueAt(n, s) = v
      BY <2>4
    <3>2. OpenWith(n, v) = {s} /\ ~ IsWaiting(n, v)
      BY <2>2, <2>3, <3>1
    <3>3. s \in Slots
      <4>1. s \in 1 .. max_slot[n] /\ max_slot[n] \in 0 .. MaxSlot
        BY <3>1 DEF CaptainInv, QueueInv, TypeOK
      <4> QED  BY <4>1, CaptainAssumption DEF Slots
    <3> QED  BY <3>2, <3>3
  <2>5. CASE ~ \E s \in Open(n) : ValueAt(n, s) = v
    BY <2>1, <2>3, <2>5 DEF IsPlaced
  <2> QED  BY <2>4, <2>5
<1> QED  BY <1>1, CaptainInvariant, PTL

\* add_callback hands over the values of the slots 1, 2, ..., each once, and holds
\* none back, in whatever order the slots are learned.
THEOREM CallbacksAreInOrder == Spec => []CallbacksInOrder
PROOF
<1>1. CaptainInv => CallbacksInOrder
  BY DEF CaptainInv, RecordInv
<1> QED  BY <1>1, CaptainInvariant, PTL

\* inform_client tells a client of the slot that holds its value, and of one only.
THEOREM AnswersAreTrue == Spec => []AnswersTrue
PROOF
<1>1. CaptainInv => AnswersTrue
  <2> SUFFICES ASSUME CaptainInv PROVE AnswersTrue
    OBVIOUS
  <2>1. \A a \in informed : a.client \in Clients => decided[a.slot] = a.client /\ a.try_time = 1
    BY DEF CaptainInv, InformedTrue
  <2>2. ASSUME NEW a \in informed, NEW b \in informed, a.client \in Clients, a.client = b.client
        PROVE  a = b
    <3>1. /\ a \in [slot : Slots, client : Names, try_time : Nat]
          /\ b \in [slot : Slots, client : Names, try_time : Nat]
      BY DEF CaptainInv, QueueInv, TypeOK
    <3>2. decided[a.slot] # NULL /\ decided[a.slot] = decided[b.slot] /\ a.try_time = b.try_time
      BY <2>1, <2>2, ViewAssumption, CaptainAssumption
    <3>3. a.slot = b.slot
      BY <3>1, <3>2 DEF CaptainInv, ValueInv, ChosenOnce
    <3> QED  BY <2>2, <3>1, <3>2, <3>3
  <2> QED  BY <2>1, <2>2 DEF AnswersTrue
<1> QED  BY <1>1, CaptainInvariant, PTL

(***************************************************************************)
(* The log.                                                                *)
(***************************************************************************)

LEMMA LogInit == Init => L!LInit
PROOF
<1> SUFFICES ASSUME Init PROVE L!LInit
  OBVIOUS
<1>1. Submitted = {}
  BY DEF Init, Submitted
<1> QED  BY <1>1 DEF Init, L!LInit

\* Recording a value hands over the next slots, or nothing.
LEMMA RecordIsDeliver ==
  ASSUME CaptainInv, CaptainInv', NEW n \in Nodes, NEW s \in Slots, NEW v \in Values,
         add_chosen_value(n, s, v), UNCHANGED <<decided, committed>>
  PROVE  [L!LNext]_(L!lvars)
PROOF
<1> USE DEF CaptainInv, QueueInv, RecordInv
<1>1. Submitted' = Submitted
  BY DEF Submitted
<1>2. PICK k : k = Len(called'[n])
  OBVIOUS
<1>3. /\ called[n] \in Seq(Values) /\ called'[n] \in Seq(Values)
      /\ called \in [Nodes -> Seq(Values)] /\ called' \in [Nodes -> Seq(Values)]
  BY DEF TypeOK
<1>4. k \in Nat /\ k <= MaxSlot /\ 1 .. k \subseteq Slots /\ DOMAIN called'[n] = 1 .. k
  <2>1. k \in Nat /\ k <= MaxSlot
    BY <1>2, <1>3 DEF TypeOK
  <2> QED  BY <1>2, <1>3, <2>1, CaptainAssumption DEF Slots
<1>5. called'[n] = [i \in 1 .. k |-> decided[i]]
  <2>1. \A i \in 1 .. k : called'[n][i] = decided[i]
    BY <1>4 DEF CallbacksInOrder
  <2> QED  BY <1>2, <1>3, <1>4, <2>1
<1>6. /\ \A m \in Nodes \ {n} : called'[m] = called[m]
      /\ \A t \in Slots : chosen_values[n][t] # NULL => chosen_values'[n][t] # NULL
  BY RecordFacts, ViewAssumption
<1>7. CASE k > Len(called[n])
  <2>1. \A i \in 1 .. k : decided[i] # NULL
    BY <1>3, <1>4, <1>5, ViewAssumption
  <2>2. called' = [called EXCEPT ![n] = [i \in 1 .. k |-> decided[i]]]
    BY <1>3, <1>5, <1>6
  <2>3. k \in Slots
    BY <1>3, <1>4, <1>7 DEF Slots
  <2>4. L!Deliver(n, k)
    BY <1>1, <1>7, <2>1, <2>2 DEF L!Deliver
  <2> QED  BY <2>3, <2>4 DEF L!LNext
<1>8. CASE ~ (k > Len(called[n]))
  <2>1. k = Len(called[n])
    <3>1. Gapless(chosen_values[n], Len(called[n])) /\ Gapless(chosen_values'[n], k)
      BY <1>2 DEF CallbacksInOrder
    <3>2. Len(called[n]) \in Nat /\ Len(called[n]) <= MaxSlot
      BY <1>3 DEF TypeOK
    <3>3. ASSUME k < Len(called[n]) PROVE FALSE
      <4>1. k + 1 \in Slots /\ k + 1 \in 1 .. Len(called[n])
        BY <1>4, <3>2, <3>3, CaptainAssumption DEF Slots
      <4> QED  BY <1>6, <3>1, <4>1 DEF Gapless
    <3> QED  BY <1>4, <1>8, <3>2, <3>3
  <2>2. \A i \in 1 .. k : called[n][i] = decided[i]
    BY <1>3, <2>1 DEF CallbacksInOrder
  <2>3. called'[n] = called[n]
    BY <1>3, <1>5, <2>1, <2>2
  <2>4. called' = called
    BY <1>3, <1>6, <2>3
  <2> QED  BY <1>1, <2>4 DEF L!lvars
<1> QED  BY <1>7, <1>8

LEMMA LogNext ==
  CaptainInv /\ CaptainInv' /\ [Next]_vars => [L!LNext]_(L!lvars)
PROOF
<1> SUFFICES ASSUME CaptainInv, CaptainInv', [Next]_vars PROVE [L!LNext]_(L!lvars)
  OBVIOUS
<1> USE DEF CaptainInv, QueueInv, ValueInv, RecordInv
<1>1. ASSUME UNCHANGED <<committed, decided, called>> PROVE [L!LNext]_(L!lvars)
  BY <1>1 DEF L!lvars, Submitted
<1>2. ASSUME NEW n \in Nodes, NEW v \in Values, Commit(n, v) PROVE [L!LNext]_(L!lvars)
  <2>1. CommitCalled(n, v) /\ UNCHANGED <<decided, called>>
    BY <1>2 DEF Commit, CommitQueued, CommitStarted, CommitCalled
  <2>2. /\ \A m \in Nodes : ~ Commits(m, v)
        /\ \A m \in Nodes : \A w : Commits(m, w)' <=> Commits(m, w) \/ (m = n /\ w = v)
    BY <2>1, CommitFacts
  <2>3. v \notin Submitted /\ Submitted' = Submitted \cup {v}
    <3>1. /\ Submitted = {w \in Values : \E m \in Nodes : Commits(m, w)}
          /\ Submitted' = {w \in Values : \E m \in Nodes : Commits(m, w)'}
      BY DEF Submitted, Commits
    <3> QED  BY <2>2, <3>1
  <2>4. L!Submit(v)
    BY <2>1, <2>3 DEF L!Submit
  <2> QED  BY <2>4 DEF L!LNext
<1>3. ASSUME NEW s \in Slots, Decide(s) PROVE [L!LNext]_(L!lvars)
  <2>1. PICK v \in proposed[s] : decided[s] = NULL /\ decided' = [decided EXCEPT ![s] = v]
    BY <1>3 DEF Decide
  <2>2. UNCHANGED <<committed, called>>
    BY <1>3 DEF Decide, node_vars
  <2>3. v \in Values /\ v \in Submitted
    BY DEF ProposedByCommitter, Commits, Submitted, TypeOK
  <2>4. \A t \in Slots : decided[t] # v
    BY <2>1, <2>3, ViewAssumption DEF ChosenOnce, TypeOK
  <2>5. L!Fill(s, v)
    BY <2>1, <2>2, <2>3, <2>4 DEF L!Fill, Submitted
  <2> QED  BY <2>3, <2>5 DEF L!LNext
<1>4. ASSUME NEW n \in Nodes, NEW s \in Slots, Choose(n, s) PROVE [L!LNext]_(L!lvars)
  <2>1. /\ decided[s] \in Values /\ add_chosen_value(n, s, decided[s])
        /\ UNCHANGED <<decided, committed>>
    BY <1>4 DEF Choose, TypeOK, ValuesOrNull
  <2> QED  BY <2>1, RecordIsDeliver
<1>5. ASSUME NEW n \in Nodes, NEW s \in Slots, EndChoose(n, s) PROVE [L!LNext]_(L!lvars)
  BY <1>1, <1>5, EndChooseFacts
<1>6. ASSUME NEW msg \in net, Recv(msg) PROVE [L!LNext]_(L!lvars)
  <2>1. /\ UNCHANGED <<decided, committed>>
        /\ msg.to \in Nodes /\ msg.slot \in Slots
    BY <1>6 DEF Recv, RecvDecide, RecvLearn, RecvTeach, Received, TypeOK
  <2>2. CASE UNCHANGED called
    BY <1>1, <2>1, <2>2
  <2>3. CASE msg.type \in {"DECIDE", "TEACH"} /\ add_chosen_value(msg.to, msg.slot, msg.value)
    <3>1. msg.value \in Values
      BY <2>1, <2>3 DEF MessagesTrue, TypeOK, ValuesOrNull
    <3> QED  BY <2>1, <2>3, <3>1, RecordIsDeliver
  <2> QED  BY <1>6, <2>2, <2>3 DEF Recv, RecvDecide, RecvLearn, RecvTeach
<1>7. ASSUME NEW n \in Nodes, Crash(n) PROVE [L!LNext]_(L!lvars)
  BY <1>1, <1>7 DEF Crash
<1>8. CASE UNCHANGED vars
  BY <1>1, <1>8 DEF vars, node_vars
<1> QED  BY <1>2, <1>3, <1>4, <1>5, <1>6, <1>7, <1>8 DEF Next

\* All slots of Captain together are a log: one value per slot, one slot per
\* value, and every node hands over prefixes of it.
THEOREM CaptainImplementsLog == Spec => ImplementsLog
PROOF
<1> QED  BY CaptainInvariant, LogInit, LogNext, PTL DEF Spec, ImplementsLog, L!LSpec

(***************************************************************************)
(* One slot.                                                               *)
(***************************************************************************)

LEMMA SlotsInit == Init => \A s \in Slots : S(s)!CInit
PROOF
<1> SUFFICES ASSUME Init, NEW s \in Slots PROVE S(s)!CInit
  OBVIOUS
<1>1. /\ proposed[s] = {} /\ decided[s] = NULL
      /\ [n \in Nodes |-> chosen_values[n][s]] = [n \in Nodes |-> NULL]
  BY DEF Init
<1> QED  BY <1>1 DEF S!CInit

\* A slot is started with a value at most once, which is Consensus!CommitValue.
LEMMA StartIsCommitValue ==
  ASSUME CaptainInv, NEW n \in Nodes, NEW p, NEW kept \in SUBSET Open(n),
         NewSlot(n, p, kept), UNCHANGED <<decided, chosen_values>>,
         p.init_value \in Values,
         \A m \in Nodes : Commits(m, p.init_value) => m = n
  PROVE  \A s \in Slots : [S(s)!CNext]_(S(s)!cvars)
PROOF
<1> USE DEF CaptainInv, QueueInv, ValueInv
<1>1. PICK t : t = NextSlot(n)
  OBVIOUS
<1>2. t \in Slots /\ proposed' = [proposed EXCEPT ![t] = @ \cup {p.init_value}]
  BY <1>1, NewSlotFacts
<1>3. proposed \in [Slots -> SUBSET Values] /\ max_slot[n] \in Nat
  BY CaptainAssumption DEF TypeOK
<1>4. p.init_value \notin proposed[t]
  BY <1>1, <1>2, <1>3 DEF ProposedByCommitter, NextSlot
<1> SUFFICES ASSUME NEW s \in Slots PROVE [S(s)!CNext]_(S(s)!cvars)
  OBVIOUS
<1>5. CASE s = t
  <2>1. proposed'[s] = proposed[s] \cup {p.init_value}
    BY <1>2, <1>3, <1>5
  <2>2. S(s)!CommitValue(p.init_value)
    BY <1>4, <1>5, <2>1 DEF S!CommitValue
  <2> QED  BY <2>2 DEF S!CNext
<1>6. CASE s # t
  <2>1. proposed'[s] = proposed[s]
    BY <1>2, <1>3, <1>6
  <2> QED  BY <2>1 DEF S!cvars
<1> QED  BY <1>5, <1>6

\* Recording the value of slot s is Consensus!Learn of that slot, or nothing.
LEMMA RecordIsLearn ==
  ASSUME CaptainInv, NEW n \in Nodes, NEW r \in Slots,
         decided[r] # NULL, add_chosen_value(n, r, decided[r]), UNCHANGED <<decided, proposed>>
  PROVE  \A s \in Slots : [S(s)!CNext]_(S(s)!cvars)
PROOF
<1> USE DEF CaptainInv, QueueInv, RecordInv
<1>0. decided[r] \in Values
  BY DEF TypeOK, ValuesOrNull
<1>1. /\ chosen_values'[n][r] = IF chosen_values[n][r] = NULL THEN decided[r]
                                ELSE chosen_values[n][r]
      /\ \A t \in Slots \ {r} : chosen_values'[n][t] = chosen_values[n][t]
      /\ \A m \in Nodes \ {n} : chosen_values'[m] = chosen_values[m]
  BY <1>0, RecordFacts
<1> SUFFICES ASSUME NEW s \in Slots PROVE [S(s)!CNext]_(S(s)!cvars)
  OBVIOUS
<1> DEFINE learned == [m \in Nodes |-> chosen_values[m][s]]
<1>2. CASE s = r /\ chosen_values[n][r] = NULL
  <2>1. learned' = [learned EXCEPT ![n] = decided[s]]
    BY <1>1, <1>2
  <2>2. S(s)!Learn(n)
    BY <1>2, <2>1 DEF S!Learn
  <2> QED  BY <2>2 DEF S!CNext
<1>3. CASE ~ (s = r /\ chosen_values[n][r] = NULL)
  <2>1. \A m \in Nodes : chosen_values'[m][s] = chosen_values[m][s]
    BY <1>1, <1>3
  <2>2. learned' = learned
    BY <2>1
  <2> QED  BY <2>2 DEF S!cvars
<1> QED  BY <1>2, <1>3

LEMMA SlotsNext ==
  CaptainInv /\ [Next]_vars => \A s \in Slots : [S(s)!CNext]_(S(s)!cvars)
PROOF
<1> DEFINE Goal == \A s \in Slots : [S(s)!CNext]_(S(s)!cvars)
<1> SUFFICES ASSUME CaptainInv, [Next]_vars PROVE Goal
  OBVIOUS
<1> USE DEF CaptainInv, QueueInv, ValueInv, RecordInv
<1>1. ASSUME UNCHANGED <<proposed, decided, chosen_values>> PROVE Goal
  BY <1>1 DEF S!cvars
<1>2. ASSUME NEW n \in Nodes, NEW v \in Values, Commit(n, v) PROVE Goal
  <2>1. CommitCalled(n, v) /\ UNCHANGED <<decided, chosen_values>>
    BY <1>2 DEF Commit, CommitQueued, CommitStarted, CommitCalled
  <2>2. CASE CommitQueued(n, v)
    BY <1>1, <2>1, <2>2 DEF CommitQueued
  <2>3. CASE CommitStarted(n, v)
    <3>1. tocommit_values[n] = <<>>
      BY <2>3 DEF CommitStarted, WindowRespected
    <3>2. PICK p : p = Info(v, Head(Append(tocommit_clients[n], ClientName(v))), 1)
      OBVIOUS
    <3>3. NewSlot(n, p, Open(n)) /\ p.init_value = v
      BY <2>3, <3>1, <3>2 DEF CommitStarted, Info
    <3>4. \A m \in Nodes : ~ Commits(m, v)
      BY <2>1, CommitFacts
    <3> QED  BY <2>1, <3>3, <3>4, StartIsCommitValue
  <2> QED  BY <1>2, <2>2, <2>3 DEF Commit
<1>3. ASSUME NEW r \in Slots, Decide(r) PROVE Goal
  <2>1. PICK v \in proposed[r] : decided[r] = NULL /\ decided' = [decided EXCEPT ![r] = v]
    BY <1>3 DEF Decide
  <2>2. UNCHANGED <<proposed, chosen_values>> /\ v \in Values
    BY <1>3 DEF Decide, node_vars, TypeOK
  <2> SUFFICES ASSUME NEW s \in Slots PROVE [S(s)!CNext]_(S(s)!cvars)
    OBVIOUS
  <2>3. CASE s = r
    <3>1. decided'[s] = v
      BY <2>1, <2>3 DEF TypeOK
    <3>2. S(s)!Decide(v)
      BY <2>1, <2>2, <2>3, <3>1 DEF S!Decide
    <3> QED  BY <2>2, <3>2 DEF S!CNext
  <2>4. CASE s # r
    <3>1. decided'[s] = decided[s]
      BY <2>1, <2>4 DEF TypeOK
    <3> QED  BY <2>2, <3>1 DEF S!cvars
  <2> QED  BY <2>3, <2>4
<1>4. ASSUME NEW n \in Nodes, NEW r \in Slots, Choose(n, r) PROVE Goal
  BY <1>4, RecordIsLearn DEF Choose
<1>5. ASSUME NEW n \in Nodes, NEW r \in Slots, EndChoose(n, r) PROVE Goal
  <2>1. r \in Open(n) /\ UNCHANGED <<decided, chosen_values>>
    BY <1>5, EndChooseFacts
  <2>2. CASE Finish(n, r)
    BY <1>1, <2>1, <2>2 DEF Finish
  <2>3. ASSUME NEW p, NewSlot(n, p, Open(n) \ {r}), p.init_value \in Values,
               Commits(n, p.init_value)
        PROVE  Goal
    <3>1. \A m \in Nodes : Commits(m, p.init_value) => m = n
      BY <2>3, CommitterUnique
    <3> QED  BY <2>1, <2>3, <3>1, StartIsCommitValue
  <2>4. CASE StartNext(n, r)
    <3>1. PICK v : v = Head(tocommit_values[n])
      OBVIOUS
    <3>2. PICK p : p = Info(v, Head(tocommit_clients[n]), 1)
      OBVIOUS
    <3>3. NewSlot(n, p, Open(n) \ {r}) /\ p.init_value = v
      BY <2>4, <3>1, <3>2 DEF StartNext, Info
    <3>4. IsWaiting(n, v)
      BY <2>4, <3>1, StartNextFacts
    <3>5. Commits(n, v) /\ v \in Values
      <4>1. Commits(n, v)
        BY <3>4, WaitingFacts
      <4> QED  BY <4>1 DEF Commits, TypeOK
    <3> QED  BY <2>3, <3>3, <3>5
  <2>5. CASE Recommit(n, r)
    <3>1. PICK p : p = Info(proposers[n][r].init_value, DataName, proposers[n][r].try_time + 1)
      OBVIOUS
    <3>2. NewSlot(n, p, Open(n) \ {r}) /\ p.init_value = ValueAt(n, r)
      BY <2>5, <3>1 DEF Recommit, Info, ValueAt
    <3>3. Commits(n, ValueAt(n, r)) /\ ValueAt(n, r) \in Values
      BY <2>1 DEF OpenOnce, ValueAt, TypeOK, Infos
    <3> QED  BY <2>3, <3>2, <3>3
  <2> QED  BY <1>5, <2>2, <2>4, <2>5 DEF EndChoose
<1>6. ASSUME NEW msg \in net, Recv(msg) PROVE Goal
  <2>1. /\ UNCHANGED <<decided, proposed>>
        /\ msg.to \in Nodes /\ msg.slot \in Slots
    BY <1>6 DEF Recv, RecvDecide, RecvLearn, RecvTeach, Received, TypeOK
  <2>2. CASE UNCHANGED chosen_values
    BY <1>1, <2>1, <2>2
  <2>3. CASE msg.type \in {"DECIDE", "TEACH"} /\ add_chosen_value(msg.to, msg.slot, msg.value)
    <3>1. decided[msg.slot] # NULL /\ msg.value = decided[msg.slot]
      BY <2>3 DEF MessagesTrue
    <3> QED  BY <2>1, <2>3, <3>1, RecordIsLearn
  <2> QED  BY <1>6, <2>2, <2>3 DEF Recv, RecvDecide, RecvLearn, RecvTeach
<1>7. ASSUME NEW n \in Nodes, Crash(n) PROVE Goal
  BY <1>1, <1>7 DEF Crash
<1>8. CASE UNCHANGED vars
  BY <1>1, <1>8 DEF vars, node_vars
<1> QED  BY <1>2, <1>3, <1>4, <1>5, <1>6, <1>7, <1>8 DEF Next

\* In every slot Captain does what Consensus allows its users, whatever the
\* retries, the two masters and the order of the messages.
THEOREM SlotsAreUsedAsConsensus == Spec => SlotsAreConsensus
PROOF
<1>1. CaptainInv /\ [Next]_vars => [\A s \in Slots : [S(s)!CNext]_(S(s)!cvars)]_vars
  BY SlotsNext
<1> QED  BY <1>1, SlotsInit, CaptainInvariant, PTL DEF Spec, SlotsAreConsensus
=============================================================================
