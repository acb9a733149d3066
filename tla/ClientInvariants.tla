-------------------------- MODULE ClientInvariants --------------------------
(***************************************************************************)
(* The inductive invariant of Client: where each client id stands between  *)
(* the two threads, what done_ says of the state it is read in, that a     *)
(* name is answered and counted at most once, and what the samples sum to. *)
(***************************************************************************)
EXTENDS Client

\* A thread holds a name exactly from making or taking it until it is done with it.
FaceBusy == face \in {"check", "make", "send"}

Holding ==
  /\ main = "send" => current["main"] \in Names
  /\ FaceBusy => current["face"] \in Names

\* The operations that may still be made before done_ stops them.
StillToStart ==
  CASE main = "make" -> com_win - started
    [] main = "send" -> com_win - started - 1
    [] OTHER         -> 0

MayMake == face = "make" \/ (face = "check" /\ ~ done)

CounterInv ==
  /\ main \in {"make", "send"} <=> started < com_win
  /\ commit_counter + StillToStart + (IF MayMake THEN 1 ELSE 0)
       <= MaxCommits + com_win
  /\ before <= thr_counter

\* done_ is set by the last step of the main thread that writes shared state,
\* and an answer that was let through before it makes the last operation.
DoneInv ==
  /\ done <=> main \in {"wait", "ended"}
  /\ done => recording = FALSE
  /\ ~ done \/ face = "make" => after_done = 0

FaceHas(i) == FaceBusy /\ current["face"].client = i

Out(i) == Of(i, pending \cup expired)

\* A client id has at most one Interest, pending or expired, or an answer in the
\* hands of the Face, and none before the first loop came to it.
IdInv ==
  /\ pending \cap expired = {}
  /\ \A i \in Ids :
       /\ \A a, b \in Out(i) : a = b
       /\ FaceHas(i) => Out(i) = {}
       /\ i >= started => Out(i) = {} /\ ~ FaceHas(i)
       /\ i < started /\ ~ done => FaceHas(i) \/ Out(i) # {}
  /\ main = "send" => current["main"].client = started

\* The threads that have made a name and not yet sent it, and those names.
Sending == (IF main = "send" THEN {"main"} ELSE {})
             \cup (IF face = "send" THEN {"face"} ELSE {})

Unsent == {current[t] : t \in Sending}

\* A name that is counted will not be answered again.
CountInv ==
  /\ counted \cap (pending \cup Unsent) = {}
  /\ Unsent \cap pending = {}
  /\ main = "send" /\ face = "send" => current["main"] # current["face"]
  /\ \A name \in counted \cup pending \cup Unsent : name.counter < commit_counter
  /\ IsFiniteSet(counted)
  /\ thr_counter = Cardinality(counted)

\* A name that is on its way, at the node or on its way back was sent, and so is no
\* longer one that a thread holds to send it.
NetInv ==
  /\ AnsweredOnce
  /\ Unsent \cap (requests \cup committing \cup answers) = {}
  /\ \A name \in requests \cup committing \cup answers :
       name.counter < commit_counter

\* What the samples leave of the count: all of it, or in a sample being taken what
\* was counted when it began.
SumInv ==
  /\ SumOf(throughputs) \in Int
  /\ SumOf(throughputs) <= IF main = "after" THEN before ELSE thr_counter

\* The names made so far have the numbers 0 to commit_counter - 1, each once.
Numbered ==
  /\ \A name \in made : name.counter < commit_counter
  /\ \A c \in 0 .. commit_counter - 1 : \E name \in made : name.counter = c
  /\ \A a, b \in made : a.counter = b.counter => a = b

\* In block b exactly the operation with number r is of the rarer type.
RareAt(b, r) ==
  /\ r \in Nat /\ r \div Ten = b
  /\ \A name \in made : name.counter \div Ten = b =>
       (name.type # write_or_read <=> name.counter = r)

\* Every complete block has such a number, and of the current one it is the number
\* that was drawn, whichever thread has drawn it.
RareInv ==
  /\ \A b \in 0 .. (commit_counter \div Ten) - 1 : \E r \in Nat : RareAt(b, r)
  /\ commit_counter % Ten # 0 => RareAt(commit_counter \div Ten, rand_counter)

BlockInv == Numbered /\ (Mixed => RareInv)

ClientInv == TypeOK /\ Holding /\ CounterInv /\ DoneInv /\ IdInv /\ CountInv
               /\ NetInv /\ SumInv /\ BlockInv
=============================================================================
