---------------------------- MODULE ClientProofs ----------------------------
(***************************************************************************)
(* Theorems of Client, for any window, ratio, length of the measurement    *)
(* and number of Interests that expire.                                    *)
(***************************************************************************)
EXTENDS ClientInvariants, FiniteSetTheorems, WellFoundedInduction, TLAPS

USE DEF Ids

----------------------------------------------------------------------------
\* What the steps share

LEMMA ConstantsAreNat ==
  /\ {com_win, Ten, MaxCommits, MaxCommits + com_win} \subseteq Nat
  /\ com_win > 0 /\ Ten > 0
  BY ClientAssumption

\* The type of an operation is always a read or a write.
LEMMA TypeIsType == ASSUME NEW r PROVE Type(r) \in {0, 1}
  BY ClientAssumption DEF Type, write_or_read

LEMMA DrawIsNat ==
  ASSUME TypeOK, NEW r \in Draw
  PROVE  r \in Nat
<1>1. \A d \in 0 .. Ten - 1 : commit_counter + d \in Nat
  BY DEF TypeOK
<1> QED  BY <1>1 DEF Draw, TypeOK

\* A thread makes one name, with the number of the operation.
LEMMA NameMade ==
  ASSUME TypeOK, CounterInv, NEW t \in {"main", "face"}, NEW i \in Ids,
         MakeName(t, i)
  PROVE  \E name \in Names :
           /\ name.client = i
           /\ name.counter = commit_counter
           /\ current' = [current EXCEPT ![t] = name]
           /\ made' = made \cup {name}
           /\ commit_counter' = commit_counter + 1
           /\ rand_counter' \in Nat
           /\ after_done' = IF done THEN after_done + 1 ELSE after_done
<1>1. PICK r \in Draw :
        LET name == [type |-> Type(r), client |-> i, counter |-> commit_counter] IN
        /\ rand_counter' = r
        /\ commit_counter' = commit_counter + 1
        /\ current' = [current EXCEPT ![t] = name]
        /\ made' = made \cup {name}
        /\ after_done' = IF done THEN after_done + 1 ELSE after_done
  BY DEF MakeName
<1>2. [type |-> Type(r), client |-> i, counter |-> commit_counter] \in Names
  BY TypeIsType DEF Names, TypeOK
<1>3. r \in Nat
  BY DrawIsNat
<1> QED  BY <1>1, <1>2, <1>3

LEMMA NoNameIsNoName == NoName \notin Names
  BY DEF NoName, Names

\* Only the thread of the Face takes or makes a name for a client id of its own.
LEMMA FaceClient ==
  ASSUME TypeOK, Holding, FaceBusy
  PROVE  current["face"].client \in Ids
  BY DEF Holding, Names

----------------------------------------------------------------------------
\* Types

LEMMA TypeInit == Init => TypeOK /\ Holding
<1> SUFFICES ASSUME Init PROVE TypeOK /\ Holding
  OBVIOUS
<1>1. throughputs \in Seq(Nat)
  BY DEF Init
<1>2. current \in [{"main", "face"} -> Names \cup {NoName}]
  BY DEF Init
<1>3. /\ started \in 0 .. com_win
      /\ commit_counter \in 0 .. MaxCommits + com_win
      /\ rand_counter \in Nat /\ thr_counter \in Nat /\ before \in Nat
      /\ after_done \in Nat
  BY ConstantsAreNat DEF Init
<1>4. \A s \in {pending, requests, committing, answers, made, counted, expired} :
        s \subseteq Names
  BY DEF Init
<1>5. main = "make" /\ face = "idle" /\ recording = FALSE /\ done = FALSE
  BY DEF Init
<1>6. TypeOK
  BY <1>1, <1>2, <1>3, <1>4, <1>5 DEF TypeOK
<1> QED  BY <1>5, <1>6 DEF Holding, FaceBusy

\* The steps of the main thread.
LEMMA TypeMain ==
  ASSUME TypeOK, Holding, CounterInv, Main
  PROVE  TypeOK' /\ Holding'
<1>1. CASE MainMake
  <2>1. started \in Ids
    BY <1>1, ConstantsAreNat DEF MainMake, CounterInv, TypeOK
  <2>2. PICK name \in Names :
           /\ current' = [current EXCEPT !["main"] = name]
           /\ made' = made \cup {name}
           /\ commit_counter' = commit_counter + 1
           /\ rand_counter' \in Nat
           /\ after_done' = IF done THEN after_done + 1 ELSE after_done
    BY <1>1, <2>1, NameMade DEF MainMake
  <2>3. commit_counter' \in 0 .. MaxCommits + com_win
    <3>1. StillToStart = com_win - started
      BY <1>1 DEF MainMake, StillToStart
    <3> QED  BY <3>1, <2>2, <2>1, ConstantsAreNat DEF CounterInv, TypeOK
  <2>4. /\ current' \in [{"main", "face"} -> Names \cup {NoName}]
        /\ current'["main"] \in Names /\ current'["face"] = current["face"]
    BY <2>2 DEF TypeOK
  <2>5. after_done' \in Nat
    BY <2>2 DEF TypeOK
  <2>6. made' \subseteq Names
    BY <2>2 DEF TypeOK
  <2>7. TypeOK'
    BY <1>1, <2>2, <2>3, <2>4, <2>5, <2>6 DEF MainMake, TypeOK, measured, network
  <2> QED  BY <1>1, <2>4, <2>7 DEF MainMake, Holding, FaceBusy
<1>2. CASE MainSend
  <2>1. current["main"] \in Names /\ started < com_win
    BY <1>2 DEF MainSend, Holding, CounterInv
  <2>2. started' \in 0 .. com_win
    BY <1>2, <2>1, ConstantsAreNat DEF MainSend, TypeOK
  <2>3. /\ current' \in [{"main", "face"} -> Names \cup {NoName}]
        /\ current'["face"] = current["face"]
    BY <1>2 DEF MainSend, consume, TypeOK
  <2>4. pending' \subseteq Names /\ requests' \subseteq Names
    BY <1>2, <2>1 DEF MainSend, consume, TypeOK
  <2>5. TypeOK'
    BY <1>2, <2>2, <2>3, <2>4 DEF MainSend, consume, TypeOK, measured, counters
  <2> QED  BY <1>2, <2>3, <2>5 DEF MainSend, Holding, FaceBusy
<1>3. CASE StartRecording \/ ReadBefore \/ StopCommitting \/ WriteResults
  BY <1>3 DEF StartRecording, ReadBefore, StopCommitting, StopRecording,
     WriteResults, TypeOK, Holding, FaceBusy, counters, measured, network
<1>4. CASE ReadThroughput
  <2>1. Sample \in Nat
    BY DEF Sample, TypeOK, CounterInv
  <2>2. throughputs' \in Seq(Nat)
    BY <1>4, <2>1 DEF ReadThroughput, TypeOK
  <2> QED  BY <1>4, <2>2 DEF ReadThroughput, TypeOK, Holding, FaceBusy, counters,
              network
<1> QED  BY <1>1, <1>2, <1>3, <1>4 DEF Main

\* The steps of the Face, of the node, and an Interest that expires.
LEMMA TypeFace ==
  ASSUME TypeOK, Holding, CounterInv, FaceStep
  PROVE  TypeOK' /\ Holding'
<1>1. ASSUME NEW name \in pending, OnData(name) PROVE TypeOK' /\ Holding'
  <2>1. name \in Names
    BY <1>1 DEF TypeOK
  <2>2. /\ current' \in [{"main", "face"} -> Names \cup {NoName}]
        /\ current'["face"] \in Names /\ current'["main"] = current["main"]
    BY <1>1, <2>1 DEF OnData, TypeOK
  <2>3. thr_counter' \in Nat /\ counted' \subseteq Names
    BY <1>1, <2>1 DEF OnData, TypeOK
  <2>4. pending' \subseteq Names /\ answers' \subseteq Names
    BY <1>1 DEF OnData, TypeOK
  <2>5. TypeOK'
    BY <1>1, <2>2, <2>3, <2>4 DEF OnData, TypeOK, counters
  <2> QED  BY <1>1, <2>2, <2>5 DEF OnData, Holding, FaceBusy
<1>2. CASE CheckDone
  <2>1. /\ current' \in [{"main", "face"} -> Names \cup {NoName}]
        /\ current'["main"] = current["main"]
        /\ face' # "idle" => current'["face"] = current["face"]
    BY <1>2 DEF CheckDone, TypeOK
  <2>2. face = "check" /\ face' \in {"idle", "make"} /\ main' = main
    BY <1>2 DEF CheckDone
  <2>3. TypeOK'
    BY <1>2, <2>1, <2>2 DEF CheckDone, TypeOK, counters, measured, network
  <2> QED  BY <2>1, <2>2, <2>3 DEF Holding, FaceBusy
<1>3. CASE FaceMake
  <2>1. NextId \in Ids
    BY <1>3, FaceClient DEF FaceMake, NextId, FaceBusy
  <2>2. PICK name \in Names :
           /\ current' = [current EXCEPT !["face"] = name]
           /\ made' = made \cup {name}
           /\ commit_counter' = commit_counter + 1
           /\ rand_counter' \in Nat
           /\ after_done' = IF done THEN after_done + 1 ELSE after_done
    BY <1>3, <2>1, NameMade DEF FaceMake
  <2>3. commit_counter' \in 0 .. MaxCommits + com_win
    <3>1. MayMake
      BY <1>3 DEF FaceMake, MayMake
    <3>2. StillToStart \in Nat
      BY ConstantsAreNat DEF StillToStart, CounterInv, TypeOK
    <3> QED  BY <3>1, <3>2, <2>2, ConstantsAreNat DEF CounterInv, TypeOK
  <2>4. /\ current' \in [{"main", "face"} -> Names \cup {NoName}]
        /\ current'["face"] \in Names /\ current'["main"] = current["main"]
    BY <2>2 DEF TypeOK
  <2>5. after_done' \in Nat /\ made' \subseteq Names
    BY <2>2 DEF TypeOK
  <2>6. TypeOK'
    BY <1>3, <2>2, <2>3, <2>4, <2>5 DEF FaceMake, TypeOK, measured, network
  <2> QED  BY <1>3, <2>4, <2>6 DEF FaceMake, Holding, FaceBusy
<1>4. CASE FaceSend
  <2>1. current["face"] \in Names
    BY <1>4 DEF FaceSend, Holding, FaceBusy
  <2>2. /\ current' \in [{"main", "face"} -> Names \cup {NoName}]
        /\ current'["main"] = current["main"]
    BY <1>4 DEF FaceSend, consume, TypeOK
  <2>3. pending' \subseteq Names /\ requests' \subseteq Names
    BY <1>4, <2>1 DEF FaceSend, consume, TypeOK
  <2>4. TypeOK'
    BY <1>4, <2>2, <2>3 DEF FaceSend, consume, TypeOK, measured, counters
  <2> QED  BY <1>4, <2>2, <2>4 DEF FaceSend, Holding, FaceBusy
<1> QED  BY <1>1, <1>2, <1>3, <1>4 DEF FaceStep

LEMMA TypeNetwork ==
  ASSUME TypeOK, Holding, Node \/ \E name \in pending : OnTimeout(name)
  PROVE  TypeOK' /\ Holding'
<1>1. UNCHANGED <<threads, counters, measured>>
  BY DEF Node, OnInterestCommit, InformClient, OnTimeout
<1>2. \A s \in {pending, requests, committing, answers, expired} : s \subseteq Names
  BY DEF TypeOK
<1>3. /\ pending' \subseteq pending /\ requests' \subseteq requests
      /\ committing' \subseteq committing \cup requests
      /\ answers' \subseteq answers \cup requests \cup committing
      /\ expired' \subseteq expired \cup pending
  BY DEF Node, OnInterestCommit, InformClient, OnTimeout, Reads
<1>4. TypeOK'
  BY <1>1, <1>2, <1>3 DEF TypeOK, threads, counters, measured
<1> QED  BY <1>1, <1>4 DEF Holding, FaceBusy, threads

LEMMA TypeNext ==
  ASSUME TypeOK, Holding, CounterInv, [Next]_vars
  PROVE  TypeOK' /\ Holding'
<1>1. CASE UNCHANGED vars
  BY <1>1 DEF vars, threads, counters, measured, network, TypeOK, Holding, FaceBusy
<1> QED  BY <1>1, TypeMain, TypeFace, TypeNetwork DEF Next

----------------------------------------------------------------------------
\* The number of operations, and done_

LEMMA CounterNext ==
  ASSUME TypeOK, Holding, CounterInv, DoneInv, [Next]_vars
  PROVE  CounterInv'
<1> USE ConstantsAreNat DEF CounterInv, StillToStart, MayMake
<1>1. CASE MainMake
  BY <1>1 DEF MainMake, MakeName, TypeOK, measured
<1>2. CASE MainSend
  BY <1>2 DEF MainSend, TypeOK, measured, counters
<1>3. CASE StartRecording \/ ReadBefore \/ ReadThroughput
  BY <1>3 DEF StartRecording, ReadBefore, ReadThroughput, TypeOK, counters
<1>4. CASE StopCommitting \/ WriteResults
  BY <1>4 DEF StopCommitting, WriteResults, TypeOK, counters, measured
<1>5. ASSUME NEW name \in pending, OnData(name) PROVE CounterInv'
  BY <1>5 DEF OnData, TypeOK, counters
<1>6. CASE CheckDone
  BY <1>6 DEF CheckDone, Stopped, TypeOK, counters, measured
<1>7. CASE FaceMake
  BY <1>7 DEF FaceMake, MakeName, TypeOK, measured
<1>8. CASE FaceSend
  BY <1>8 DEF FaceSend, TypeOK, counters, measured
<1>9. CASE Node \/ (\E name \in pending : OnTimeout(name)) \/ UNCHANGED vars
  BY <1>9 DEF Node, OnInterestCommit, InformClient, OnTimeout, vars, threads,
     counters, measured
<1> QED  BY <1>1, <1>2, <1>3, <1>4, <1>5, <1>6, <1>7, <1>8, <1>9
            DEF Next, Main, FaceStep

LEMMA DoneNext ==
  ASSUME TypeOK, DoneInv, [Next]_vars
  PROVE  DoneInv'
<1> USE DEF DoneInv
<1>1. CASE MainMake
  BY <1>1 DEF MainMake, MakeName, measured
<1>2. CASE MainSend
  BY <1>2 DEF MainSend, measured, counters
<1>3. CASE StartRecording \/ ReadBefore \/ ReadThroughput
  BY <1>3 DEF StartRecording, ReadBefore, ReadThroughput, counters
<1>4. CASE StopCommitting \/ WriteResults
  BY <1>4 DEF StopCommitting, StopRecording, WriteResults, counters, measured
<1>5. ASSUME NEW name \in pending, OnData(name) PROVE DoneInv'
  BY <1>5 DEF OnData, counters
<1>6. CASE CheckDone
  BY <1>6 DEF CheckDone, Stopped, counters, measured
<1>7. CASE FaceMake
  BY <1>7 DEF FaceMake, MakeName, measured
<1>8. CASE FaceSend
  BY <1>8 DEF FaceSend, counters, measured
<1>9. CASE Node \/ (\E name \in pending : OnTimeout(name)) \/ UNCHANGED vars
  BY <1>9 DEF Node, OnInterestCommit, InformClient, OnTimeout, vars, threads,
     counters, measured
<1> QED  BY <1>1, <1>2, <1>3, <1>4, <1>5, <1>6, <1>7, <1>8, <1>9
            DEF Next, Main, FaceStep

----------------------------------------------------------------------------
\* The client ids

\* If neither the Face nor the set of Interests that are out changes for an id,
\* what was true of it stays true.
LEMMA IdUntouched ==
  ASSUME NEW i \in Ids, IdInv, started' = started, done => done',
         Out(i)' = Out(i), FaceHas(i)' <=> FaceHas(i)
  PROVE  /\ \A a, b \in Out(i)' : a = b
         /\ FaceHas(i)' => Out(i)' = {}
         /\ i >= started' => Out(i)' = {} /\ ~ FaceHas(i)'
         /\ i < started' /\ ~ done' => FaceHas(i)' \/ Out(i)' # {}
  BY DEF IdInv

LEMMA IdMain ==
  ASSUME TypeOK, Holding, IdInv, Main
  PROVE  IdInv'
<1>1. CASE MainMake
  <2>1. /\ UNCHANGED <<started, done, pending, expired, face>>
        /\ main' = "send"
    BY <1>1 DEF MainMake, MakeName, measured, network
  <2>2. current'["face"] = current["face"] /\ current'["main"].client = started
    BY <1>1 DEF MainMake, MakeName, TypeOK
  <2>3. \A i \in Ids : Out(i)' = Out(i) /\ (FaceHas(i)' <=> FaceHas(i))
    BY <2>1, <2>2 DEF Out, Of, FaceHas, FaceBusy
  <2> QED  BY <2>1, <2>2, <2>3, IdUntouched DEF IdInv
<1>2. CASE MainSend
  <2> DEFINE new == current["main"]
  <2>1. /\ new \in Names /\ new.client = started
        /\ UNCHANGED <<done, expired, face>>
        /\ current'["face"] = current["face"]
        /\ pending' = pending \cup {new} /\ started' = started + 1
        /\ main' # "send"
    BY <1>2 DEF MainSend, Holding, IdInv, consume, TypeOK, measured
  <2>2. started \in Ids /\ started \in Nat
    BY <2>1 DEF Names
  <2>3. Out(started) = {} /\ ~ FaceHas(started)
    BY <2>2 DEF IdInv
  <2>4. new \notin expired
    BY <2>1, <2>3 DEF Out, Of
  <2>5. \A i \in Ids : FaceHas(i)' <=> FaceHas(i)
    BY <2>1 DEF FaceHas, FaceBusy
  <2>6. \A i \in Ids : Out(i)' = IF i = started THEN {new} ELSE Out(i)
    BY <2>1, <2>3 DEF Out, Of
  <2>7. pending' \cap expired' = {}
    BY <2>1, <2>4 DEF IdInv
  <2> HIDE DEF new
  <2>8. ASSUME NEW i \in Ids
        PROVE  /\ \A a, b \in Out(i)' : a = b
               /\ FaceHas(i)' => Out(i)' = {}
               /\ i >= started' => Out(i)' = {} /\ ~ FaceHas(i)'
               /\ i < started' /\ ~ done' => FaceHas(i)' \/ Out(i)' # {}
    <3>1. CASE i = started
      BY <3>1, <2>1, <2>2, <2>3, <2>5, <2>6
    <3>2. CASE i # started
      <4>1. /\ i >= started' => i >= started
            /\ i < started' => i < started
        BY <3>2, <2>1, <2>2
      <4> QED  BY <3>2, <4>1, <2>1, <2>5, <2>6 DEF IdInv
    <3> QED  BY <3>1, <3>2
  <2> QED  BY <2>1, <2>7, <2>8 DEF IdInv
<1>3. CASE StartRecording \/ ReadBefore \/ ReadThroughput \/ StopCommitting
             \/ WriteResults
  <2>1. /\ UNCHANGED <<started, pending, expired, face, current>>
        /\ done => done'
        /\ main' # "send"
    BY <1>3 DEF StartRecording, ReadBefore, ReadThroughput, StopCommitting,
       WriteResults, measured, network
  <2>2. \A i \in Ids : Out(i)' = Out(i) /\ (FaceHas(i)' <=> FaceHas(i))
    BY <2>1 DEF Out, Of, FaceHas, FaceBusy
  <2> QED  BY <2>1, <2>2, IdUntouched DEF IdInv
<1> QED  BY <1>1, <1>2, <1>3 DEF Main

LEMMA IdFace ==
  ASSUME TypeOK, Holding, IdInv, FaceStep
  PROVE  IdInv'
<1>1. ASSUME NEW name \in pending, OnData(name) PROVE IdInv'
  <2>1. /\ UNCHANGED <<started, done, expired, main>>
        /\ face = "idle" /\ face' = "check"
        /\ pending' = pending \ {name}
    BY <1>1 DEF OnData
  <2>2. current'["face"] = name /\ current'["main"] = current["main"]
    BY <1>1 DEF OnData, TypeOK
  <2>3. name \in Names /\ name.client \in Ids /\ name \notin expired
    BY <1>1 DEF TypeOK, Names, IdInv
  <2>4. \A i \in Ids : ~ FaceHas(i) /\ (FaceHas(i)' <=> i = name.client)
    BY <2>1, <2>2 DEF FaceHas, FaceBusy
  <2>5. Out(name.client) = {name}
    BY <1>1, <2>3 DEF IdInv, Out, Of
  <2>6. \A i \in Ids : Out(i)' = IF i = name.client THEN {} ELSE Out(i)
    BY <2>1, <2>3, <2>5 DEF Out, Of
  <2>7. name.client < started
    BY <2>3, <2>5 DEF IdInv, TypeOK
  <2>8. ASSUME NEW i \in Ids
        PROVE  /\ \A a, b \in Out(i)' : a = b
               /\ FaceHas(i)' => Out(i)' = {}
               /\ i >= started' => Out(i)' = {} /\ ~ FaceHas(i)'
               /\ i < started' /\ ~ done' => FaceHas(i)' \/ Out(i)' # {}
    <3>1. CASE i = name.client
      BY <3>1, <2>1, <2>4, <2>6, <2>7 DEF TypeOK
    <3>2. CASE i # name.client
      BY <3>2, <2>1, <2>4, <2>6 DEF IdInv
    <3> QED  BY <3>1, <3>2
  <2>9. pending' \cap expired' = {}
    BY <2>1 DEF IdInv
  <2> QED  BY <2>1, <2>2, <2>8, <2>9 DEF IdInv
<1>2. CASE CheckDone
  <2>1. /\ UNCHANGED <<started, done, pending, expired, main>>
        /\ face = "check"
        /\ IF done THEN face' = "idle" ELSE face' = "make" /\ current' = current
    BY <1>2 DEF CheckDone, Stopped, measured, network
  <2>2. current'["main"] = current["main"]
    BY <1>2 DEF CheckDone, TypeOK
  <2>3. \A i \in Ids : Out(i)' = Out(i)
    BY <2>1 DEF Out, Of
  <2>4. \A i \in Ids : /\ FaceHas(i)' => FaceHas(i)
                       /\ ~ done => (FaceHas(i)' <=> FaceHas(i))
    BY <2>1 DEF FaceHas, FaceBusy
  <2> QED  BY <2>1, <2>2, <2>3, <2>4 DEF IdInv
<1>3. CASE FaceMake
  <2>1. /\ UNCHANGED <<started, done, pending, expired, main>>
        /\ face = "make" /\ face' = "send"
    BY <1>3 DEF FaceMake, measured, network
  <2>2. /\ current'["main"] = current["main"]
        /\ current'["face"].client = current["face"].client
    BY <1>3 DEF FaceMake, MakeName, NextId, TypeOK
  <2>3. \A i \in Ids : Out(i)' = Out(i) /\ (FaceHas(i)' <=> FaceHas(i))
    BY <2>1, <2>2 DEF Out, Of, FaceHas, FaceBusy
  <2> QED  BY <2>1, <2>2, <2>3, IdUntouched DEF IdInv
<1>4. CASE FaceSend
  <2> DEFINE new == current["face"]
             j   == new.client
  <2>1. /\ new \in Names /\ j \in Ids
        /\ UNCHANGED <<started, done, expired, main>>
        /\ current'["main"] = current["main"]
        /\ pending' = pending \cup {new}
        /\ face = "send" /\ face' = "idle"
    BY <1>4 DEF FaceSend, Holding, FaceBusy, consume, TypeOK, measured, Names
  <2>2. FaceHas(j)
    BY <2>1 DEF FaceHas, FaceBusy
  <2>3. Out(j) = {} /\ j < started
    BY <2>1, <2>2 DEF IdInv, TypeOK
  <2>4. new \notin expired
    BY <2>1, <2>3 DEF Out, Of
  <2>5. \A i \in Ids : ~ FaceHas(i)' /\ (FaceHas(i) <=> i = j)
    BY <2>1 DEF FaceHas, FaceBusy
  <2>6. \A i \in Ids : Out(i)' = IF i = j THEN {new} ELSE Out(i)
    BY <2>1, <2>3 DEF Out, Of
  <2>7. pending' \cap expired' = {}
    BY <2>1, <2>4 DEF IdInv
  <2> HIDE DEF j, new
  <2> QED  BY <2>1, <2>3, <2>5, <2>6, <2>7 DEF IdInv
<1> QED  BY <1>1, <1>2, <1>3, <1>4 DEF FaceStep

LEMMA IdNext ==
  ASSUME TypeOK, Holding, IdInv, [Next]_vars
  PROVE  IdInv'
<1>1. CASE Node \/ UNCHANGED vars
  <2>1. UNCHANGED <<main, face, current, started, done, pending, expired>>
    BY <1>1 DEF Node, OnInterestCommit, InformClient, vars, threads, measured, network
  <2> QED  BY <2>1 DEF IdInv, Out, Of, FaceHas, FaceBusy
<1>2. ASSUME NEW name \in pending, OnTimeout(name) PROVE IdInv'
  <2>1. /\ UNCHANGED <<main, face, current, started, done>>
        /\ pending' = pending \ {name} /\ expired' = expired \cup {name}
    BY <1>2 DEF OnTimeout, threads, measured
  <2>2. \A i \in Ids : Out(i)' = Out(i) /\ (FaceHas(i)' <=> FaceHas(i))
    BY <2>1 DEF Out, Of, FaceHas, FaceBusy
  <2>3. pending' \cap expired' = {}
    BY <2>1 DEF IdInv
  <2> QED  BY <2>1, <2>2, <2>3, IdUntouched DEF IdInv
<1> QED  BY <1>1, <1>2, IdMain, IdFace DEF Next

----------------------------------------------------------------------------
\* What is counted

LEMMA UnsentAre ==
  /\ Unsent = {x \in {current["main"], current["face"]} :
                 \/ main = "send" /\ x = current["main"]
                 \/ face = "send" /\ x = current["face"]}
  /\ Unsent' = {x \in {current'["main"], current'["face"]} :
                 \/ main' = "send" /\ x = current'["main"]
                 \/ face' = "send" /\ x = current'["face"]}
  BY DEF Unsent, Sending

\* The new name carries a number that no name had before.
LEMMA CountMake ==
  ASSUME TypeOK, CountInv, NEW t \in {"main", "face"}, NEW i \in Ids, CounterInv,
         MakeName(t, i), UNCHANGED <<measured, network>>,
         \/ t = "main" /\ main = "make" /\ main' = "send" /\ face' = face
         \/ t = "face" /\ face = "make" /\ face' = "send" /\ main' = main
  PROVE  CountInv'
<1>1. PICK name \in Names :
        /\ name.counter = commit_counter
        /\ current' = [current EXCEPT ![t] = name]
        /\ commit_counter' = commit_counter + 1
  BY NameMade
<1>2. Unsent' = Unsent \cup {name}
  BY <1>1, UnsentAre DEF TypeOK
<1>3. name \notin counted \cup pending \cup Unsent
  BY <1>1 DEF CountInv, TypeOK
<1>4. UNCHANGED <<counted, pending, thr_counter>>
  BY DEF measured, network
<1>5. \A x \in counted \cup pending \cup Unsent :
        x.counter \in Int /\ x.counter < commit_counter
  <2>1. Unsent \subseteq Names \cup {NoName}
    BY UnsentAre DEF TypeOK
  <2>2. counted \cup pending \subseteq Names
    BY DEF TypeOK
  <2>3. \A x \in Names \cup {NoName} : x.counter \in Int
    BY DEF Names, NoName
  <2> QED  BY <2>1, <2>2, <2>3 DEF CountInv
<1>6. \A x \in counted' \cup pending' \cup Unsent' : x.counter < commit_counter'
  BY <1>1, <1>2, <1>4, <1>5 DEF TypeOK
<1>7. /\ counted' \cap (pending' \cup Unsent') = {}
      /\ Unsent' \cap pending' = {}
  BY <1>2, <1>3, <1>4 DEF CountInv
<1>8. main' = "send" /\ face' = "send" => current'["main"] # current'["face"]
  <2>1. CASE t = "main" /\ face = "send"
    <3>1. current["face"] \in Unsent
      BY <2>1, UnsentAre
    <3> QED  BY <2>1, <3>1, <1>1, <1>3 DEF TypeOK
  <2>2. CASE t = "face" /\ main = "send"
    <3>1. current["main"] \in Unsent
      BY <2>2, UnsentAre
    <3> QED  BY <2>2, <3>1, <1>1, <1>3 DEF TypeOK
  <2> QED  BY <2>1, <2>2
<1> QED  BY <1>4, <1>6, <1>7, <1>8 DEF CountInv

\* The name is sent and from then on pending.
LEMMA CountSend ==
  ASSUME TypeOK, CountInv, NEW t \in {"main", "face"}, consume(t),
         UNCHANGED <<measured, counters>>,
         \/ t = "main" /\ main = "send" /\ main' # "send" /\ face' = face
         \/ t = "face" /\ face = "send" /\ face' # "send" /\ main' = main
  PROVE  CountInv'
<1> DEFINE new == current[t]
<1>1. /\ pending' = pending \cup {new}
      /\ current' = [current EXCEPT ![t] = NoName]
      /\ UNCHANGED <<counted, thr_counter, commit_counter>>
  BY DEF consume, measured, counters
<1>2. new \in Unsent
  BY UnsentAre
<1>3. Unsent' = Unsent \ {new}
  BY <1>1, UnsentAre DEF TypeOK, CountInv
<1>4. ~ (main' = "send" /\ face' = "send")
  OBVIOUS
<1> HIDE DEF new
<1>5. /\ counted' \cap (pending' \cup Unsent') = {}
      /\ Unsent' \cap pending' = {}
      /\ counted' \cup pending' \cup Unsent' \subseteq counted \cup pending \cup Unsent
  BY <1>1, <1>2, <1>3 DEF CountInv
<1> QED  BY <1>1, <1>4, <1>5 DEF CountInv

\* An answer is taken and, while recording_ is set, counted.
LEMMA CountData ==
  ASSUME TypeOK, CountInv, NEW name \in pending, OnData(name)
  PROVE  CountInv'
<1>1. /\ UNCHANGED <<main, commit_counter>>
      /\ face = "idle" /\ face' = "check"
      /\ pending' = pending \ {name}
      /\ current'["main"] = current["main"]
  BY DEF OnData, counters, TypeOK
<1>2. Unsent' = Unsent
  BY <1>1, UnsentAre
<1>3. name \notin counted \cup Unsent
  BY DEF CountInv
<1>4. counted' = counted \/ counted' = counted \cup {name}
  BY DEF OnData
<1>5. IsFiniteSet(counted') /\ thr_counter' = Cardinality(counted')
  <2>1. CASE recording
    <3>1. counted' = counted \cup {name} /\ thr_counter' = thr_counter + 1
      BY <2>1 DEF OnData
    <3> QED  BY <3>1, <1>3, FS_AddElement DEF CountInv
  <2>2. CASE ~ recording
    BY <2>2 DEF OnData, CountInv
  <2> QED  BY <2>1, <2>2
<1>6. /\ counted' \cap (pending' \cup Unsent') = {}
      /\ Unsent' \cap pending' = {}
      /\ counted' \cup pending' \cup Unsent' \subseteq counted \cup pending \cup Unsent
  BY <1>1, <1>2, <1>3, <1>4 DEF CountInv
<1> QED  BY <1>1, <1>5, <1>6 DEF CountInv

\* Every other step leaves the names alone, or lets go of one.
LEMMA CountOther ==
  ASSUME CountInv, UNCHANGED <<main, counted, thr_counter, commit_counter>>,
         current'["main"] = current["main"], pending' \subseteq pending,
         \/ UNCHANGED <<face, current>>
         \/ face # "send" /\ face' # "send"
  PROVE  CountInv'
<1>1. Unsent' = Unsent
  BY UnsentAre
<1>2. ~ (main' = "send" /\ face' = "send") \/ UNCHANGED <<face, current>>
  OBVIOUS
<1> QED  BY <1>1, <1>2 DEF CountInv

LEMMA CountNext ==
  ASSUME TypeOK, Holding, CounterInv, CountInv, [Next]_vars
  PROVE  CountInv'
<1>1. CASE MainMake
  <2>1. started \in Ids
    BY <1>1, ConstantsAreNat DEF MainMake, CounterInv, TypeOK
  <2> QED  BY <1>1, <2>1, CountMake DEF MainMake
<1>2. CASE FaceMake
  <2>1. NextId \in Ids
    BY <1>2, FaceClient DEF FaceMake, NextId, FaceBusy
  <2> QED  BY <1>2, <2>1, CountMake DEF FaceMake
<1>3. CASE MainSend
  <2>1. main' # "send" /\ main = "send" /\ face' = face
    BY <1>3 DEF MainSend
  <2> QED  BY <1>3, <2>1, CountSend DEF MainSend
<1>4. CASE FaceSend
  <2>1. face' # "send" /\ face = "send" /\ main' = main
    BY <1>4 DEF FaceSend
  <2> QED  BY <1>4, <2>1, CountSend DEF FaceSend
<1>5. CASE StartRecording \/ ReadBefore \/ ReadThroughput \/ StopCommitting
             \/ WriteResults
  <2>1. /\ UNCHANGED <<face, current, counted, thr_counter, commit_counter, pending>>
        /\ main # "send" /\ main' # "send"
    BY <1>5 DEF StartRecording, ReadBefore, ReadThroughput, StopCommitting,
       WriteResults, counters, measured, network
  <2>2. Unsent' = Unsent
    BY <2>1, UnsentAre
  <2> QED  BY <2>1, <2>2 DEF CountInv
<1>6. CASE CheckDone
  <2>1. current'["main"] = current["main"]
    BY <1>6 DEF CheckDone, TypeOK
  <2>2. /\ UNCHANGED <<main, counted, thr_counter, commit_counter, pending>>
        /\ face = "check" /\ face' \in {"idle", "make"}
    BY <1>6 DEF CheckDone, counters, measured, network
  <2> QED  BY <2>1, <2>2, CountOther
<1>7. CASE Node \/ (\E name \in pending : OnTimeout(name)) \/ UNCHANGED vars
  <2>1. UNCHANGED <<main, face, current, counted, thr_counter, commit_counter>>
    BY <1>7 DEF Node, OnInterestCommit, InformClient, OnTimeout, vars, threads,
       counters, measured
  <2>2. pending' \subseteq pending
    BY <1>7 DEF Node, OnInterestCommit, InformClient, OnTimeout, vars, network
  <2> QED  BY <2>1, <2>2, CountOther
<1> QED  BY <1>1, <1>2, <1>3, <1>4, <1>5, <1>6, <1>7, CountData
            DEF Next, Main, FaceStep

----------------------------------------------------------------------------
\* Blocks of operations

\* Division by the length of a block.
LEMMA DivIsNat == ASSUME NEW c \in Nat PROVE c \div Ten \in Nat
  BY ConstantsAreNat

LEMMA DivBounds ==
  ASSUME NEW c \in Nat
  PROVE  Ten * (c \div Ten) <= c /\ c < Ten * (c \div Ten) + Ten
<1>1. Ten \in Nat /\ Ten > 0
  BY ConstantsAreNat
<1>2. Ten * (c \div Ten) <= c
  BY <1>1
<1>3. c < Ten * (c \div Ten) + Ten
  BY <1>1
<1> QED  BY <1>2, <1>3

LEMMA DivUnique ==
  ASSUME NEW q \in Nat, NEW c \in (Ten * q) .. (Ten * q + Ten - 1)
  PROVE  c \in Nat /\ c \div Ten = q
<1>1. Ten \in Nat /\ Ten > 0
  BY ConstantsAreNat
<1> QED  BY <1>1

LEMMA DivExact ==
  ASSUME NEW c \in Nat, c % Ten = 0
  PROVE  c = Ten * (c \div Ten)
<1>1. Ten \in Nat /\ Ten > 0
  BY ConstantsAreNat
<1> QED  BY <1>1

LEMMA DivRest ==
  ASSUME NEW T \in Nat, T > 0, NEW q \in Nat, NEW r \in 0 .. T - 1
  PROVE  (T * q + r) % T = r
  OBVIOUS

\* Counting on either stays in the block or begins the next one.
LEMMA DivNext ==
  ASSUME NEW c \in Nat
  PROVE  IF (c + 1) % Ten = 0 THEN (c + 1) \div Ten = (c \div Ten) + 1
                              ELSE (c + 1) \div Ten = c \div Ten
<1> DEFINE q == c \div Ten
           p == (c + 1) \div Ten
<1>1. Ten \in Nat /\ Ten > 0 /\ q \in Nat /\ p \in Nat
  BY ConstantsAreNat, DivIsNat
<1>2. Ten * q <= c /\ c < Ten * q + Ten
  BY DivBounds
<1>3. CASE c + 1 < Ten * q + Ten
  <2>1. c + 1 \in (Ten * q) .. (Ten * q + Ten - 1)
    BY <1>1, <1>2, <1>3
  <2>2. p = q
    BY <1>1, <2>1, DivUnique
  <2>3. c + 1 # Ten * p
    BY <1>1, <1>2, <2>2
  <2> QED  BY <2>2, <2>3, DivExact
<1>4. CASE c + 1 = Ten * q + Ten
  <2>1. c + 1 = Ten * (q + 1)
    BY <1>1, <1>4
  <2>2. c + 1 \in (Ten * (q + 1)) .. (Ten * (q + 1) + Ten - 1)
    BY <1>1, <2>1
  <2>3. p = q + 1
    BY <1>1, <2>2, DivUnique
  <2>4. (c + 1) % Ten = 0
    <3>1. q + 1 \in Nat /\ 0 \in 0 .. Ten - 1
      BY <1>1
    <3>2. (Ten * (q + 1) + 0) % Ten = 0
      BY <1>1, <3>1, DivRest
    <3>3. Ten * (q + 1) + 0 = c + 1
      BY <1>1, <2>1
    <3> QED  BY <3>2, <3>3
  <2> QED  BY <2>3, <2>4
<1> QED  BY <1>1, <1>2, <1>3, <1>4

LEMMA NumbersAreNat ==
  ASSUME TypeOK
  PROVE  \A name \in made : name.counter \in Nat
  BY DEF TypeOK, Names

LEMMA NumberedMake ==
  ASSUME TypeOK, Numbered, NEW name \in Names, name.counter = commit_counter,
         made' = made \cup {name}, commit_counter' = commit_counter + 1
  PROVE  Numbered'
<1>1. commit_counter \in Nat
  BY DEF TypeOK
<1>2. \A x \in made' : x.counter < commit_counter'
  BY <1>1, NumbersAreNat DEF Numbered
<1>3. ASSUME NEW c \in 0 .. commit_counter' - 1
      PROVE  \E x \in made' : x.counter = c
  <2>1. c = commit_counter \/ c \in 0 .. commit_counter - 1
    BY <1>1
  <2> QED  BY <2>1 DEF Numbered
<1>4. ASSUME NEW a \in made', NEW b \in made', a.counter = b.counter
      PROVE  a = b
  <2>1. \A x \in made : x.counter # commit_counter
    BY <1>1, NumbersAreNat DEF Numbered
  <2> QED  BY <1>4, <2>1 DEF Numbered
<1> QED  BY <1>2, <1>3, <1>4 DEF Numbered

\* A thread makes a name: the number drawn for the block decides its type,
\* whether this thread has drawn it or the other one.
LEMMA BlockMake ==
  ASSUME TypeOK, TypeOK', BlockInv, CounterInv,
         NEW t \in {"main", "face"}, NEW i \in Ids, MakeName(t, i)
  PROVE  BlockInv'
<1>a. PICK c \in Nat : c = commit_counter
  BY DEF TypeOK
<1>b. PICK b \in Nat : b = c \div Ten
  BY DivIsNat
<1>1. PICK name \in Names : \E r \in Draw :
        /\ name = [type |-> Type(r), client |-> i, counter |-> c]
        /\ rand_counter' = r
        /\ commit_counter' = c + 1
        /\ made' = made \cup {name}
  <2>1. PICK r \in Draw :
          LET name == [type |-> Type(r), client |-> i, counter |-> commit_counter] IN
          /\ rand_counter' = r
          /\ commit_counter' = commit_counter + 1
          /\ made' = made \cup {name}
    BY DEF MakeName
  <2>2. [type |-> Type(r), client |-> i, counter |-> c] \in Names
    BY <1>a, TypeIsType DEF TypeOK, Names
  <2> QED  BY <1>a, <2>1, <2>2
<1>2. PICK r \in Draw :
        /\ name = [type |-> Type(r), client |-> i, counter |-> c]
        /\ rand_counter' = r
  BY <1>1
<1>3. Numbered'
  BY <1>1, <1>2, <1>a, NumberedMake DEF BlockInv
<1>4. ASSUME Mixed PROVE RareInv'
  <2>1. \A x \in made : x.counter \in Nat /\ x.counter < c
    BY <1>a, NumbersAreNat DEF BlockInv, Numbered
  <2>2. name.counter = c /\ (name.type # write_or_read <=> c = r)
    <3>1. write_or_read \in {0, 1}
      BY DEF write_or_read
    <3>2. IF c = r THEN Type(r) = 1 - write_or_read ELSE Type(r) = write_or_read
      BY <1>4, <1>a DEF Type, Mixed
    <3> HIDE DEF write_or_read
    <3> QED  BY <1>1, <1>2, <3>1, <3>2
  <2>3. RareAt(b, r)
    <3>1. CASE c % Ten = 0
      <4>1. c = Ten * b
        BY <1>b, <3>1, DivExact
      <4>2. PICK d \in 0 .. Ten - 1 : r = c + d
        BY <1>4, <1>a, <3>1 DEF Draw
      <4>3. r \in (Ten * b) .. (Ten * b + Ten - 1)
        BY <4>1, <4>2, ConstantsAreNat
      <4>4. r \in Nat /\ r \div Ten = b
        BY <4>3, DivUnique
      <4>5. \A x \in made : x.counter \div Ten # b
        <5>1. ASSUME NEW k \in Nat, k < Ten * b, k \div Ten = b PROVE FALSE
          <6>1. Ten * b <= k
            BY <5>1, DivBounds
          <6> QED  BY <5>1, <6>1, ConstantsAreNat
        <5> QED  BY <2>1, <4>1, <5>1
      <4> QED  BY <4>4, <4>5 DEF RareAt
    <3>2. CASE c % Ten # 0
      BY <1>4, <1>a, <1>b, <3>2 DEF Draw, BlockInv, RareInv
    <3> QED  BY <3>1, <3>2
  <2>4. RareAt(b, r)'
    BY <1>1, <1>b, <2>2, <2>3 DEF RareAt, write_or_read
  <2>5. ASSUME NEW a \in 0 .. b - 1 PROVE \E k \in Nat : RareAt(a, k)'
    <3>1. PICK k \in Nat : RareAt(a, k)
      BY <1>4, <1>a, <1>b DEF BlockInv, RareInv
    <3>2. c \div Ten # a
      BY <1>b
    <3>3. RareAt(a, k)'
      BY <1>1, <2>2, <3>1, <3>2 DEF RareAt, write_or_read
    <3> QED  BY <3>3
  <2>6. r \in Nat
    BY <2>3 DEF RareAt
  <2>7. \A a \in 0 .. b : \E k \in Nat : RareAt(a, k)'
    <3>1. \A a \in 0 .. b : a \in 0 .. b - 1 \/ a = b
      OBVIOUS
    <3> QED  BY <2>4, <2>5, <2>6, <3>1
  <2>8. CASE (c + 1) % Ten = 0
    <3>1. (c + 1) \div Ten = b + 1
      BY <1>b, <2>8, DivNext
    <3>2. ((c + 1) \div Ten) - 1 = b
      BY <3>1
    <3> QED  BY <1>1, <2>7, <2>8, <3>2 DEF RareInv
  <2>9. CASE (c + 1) % Ten # 0
    <3>1. (c + 1) \div Ten = b
      BY <1>b, <2>9, DivNext
    <3> QED  BY <1>1, <1>2, <2>4, <2>5, <3>1 DEF RareInv
  <2> QED  BY <2>8, <2>9
<1> QED  BY <1>3, <1>4 DEF BlockInv, Mixed

LEMMA BlockNext ==
  ASSUME TypeOK, TypeOK', Holding, CounterInv, BlockInv, [Next]_vars
  PROVE  BlockInv'
<1>1. CASE MainMake
  <2>1. started \in Ids
    BY <1>1, ConstantsAreNat DEF MainMake, CounterInv, TypeOK
  <2> QED  BY <1>1, <2>1, BlockMake DEF MainMake
<1>2. CASE FaceMake
  <2>1. NextId \in Ids
    BY <1>2, FaceClient DEF FaceMake, NextId, FaceBusy
  <2> QED  BY <1>2, <2>1, BlockMake DEF FaceMake
<1>3. CASE UNCHANGED counters
  BY <1>3 DEF BlockInv, Numbered, RareInv, RareAt, counters, Mixed, write_or_read
<1>4. Next => MainMake \/ FaceMake \/ UNCHANGED counters
  BY DEF Next, Main, MainSend, StartRecording, ReadBefore, ReadThroughput,
     StopCommitting, WriteResults, FaceStep, OnData, CheckDone, FaceSend, Node,
     OnInterestCommit, InformClient, OnTimeout
<1> QED  BY <1>1, <1>2, <1>3, <1>4 DEF vars

----------------------------------------------------------------------------
\* Where an Interest is

\* The new name is in none of the places.
LEMMA NetMake ==
  ASSUME TypeOK, CounterInv, NetInv, NEW t \in {"main", "face"}, NEW i \in Ids,
         MakeName(t, i), UNCHANGED network,
         \/ t = "main" /\ main = "make" /\ main' = "send" /\ face' = face
         \/ t = "face" /\ face = "make" /\ face' = "send" /\ main' = main
  PROVE  NetInv'
<1>1. PICK name \in Names :
        /\ name.counter = commit_counter
        /\ current' = [current EXCEPT ![t] = name]
        /\ commit_counter' = commit_counter + 1
  BY NameMade
<1>2. Unsent' = Unsent \cup {name}
  BY <1>1, UnsentAre DEF TypeOK
<1>3. UNCHANGED <<pending, requests, committing, answers>>
  BY DEF network
<1>4. name \notin requests \cup committing \cup answers
  BY <1>1 DEF NetInv, TypeOK
<1>5. \A x \in requests \cup committing \cup answers :
        x.counter \in Nat /\ x.counter < commit_counter /\ commit_counter \in Nat
  <2>1. requests \cup committing \cup answers \subseteq Names
    BY DEF TypeOK
  <2> QED  BY <2>1, ConstantsAreNat DEF Names, NetInv, TypeOK
<1> QED  BY <1>1, <1>2, <1>3, <1>4, <1>5 DEF NetInv, AnsweredOnce

\* The name that is sent goes to the requests.
LEMMA NetSend ==
  ASSUME TypeOK, CountInv, NetInv, NEW t \in {"main", "face"}, consume(t),
         UNCHANGED counters,
         \/ t = "main" /\ main = "send" /\ main' # "send" /\ face' = face
         \/ t = "face" /\ face = "send" /\ face' # "send" /\ main' = main
  PROVE  NetInv'
<1> DEFINE new == current[t]
<1>1. /\ pending' = pending \cup {new} /\ requests' = requests \cup {new}
      /\ current' = [current EXCEPT ![t] = NoName]
      /\ UNCHANGED <<committing, answers, commit_counter>>
  BY DEF consume, counters
<1>2. new \in Unsent
  BY UnsentAre
<1>3. Unsent' = Unsent \ {new}
  BY <1>1, UnsentAre DEF TypeOK, CountInv
<1> HIDE DEF new
<1>4. new.counter < commit_counter /\ new \notin requests \cup committing \cup answers
  BY <1>2 DEF NetInv, CountInv
<1> QED  BY <1>1, <1>3, <1>4 DEF NetInv, AnsweredOnce

LEMMA NetNext ==
  ASSUME TypeOK, Holding, CounterInv, CountInv, NetInv, [Next]_vars
  PROVE  NetInv'
<1>1. CASE MainMake
  <2>1. started \in Ids
    BY <1>1, ConstantsAreNat DEF MainMake, CounterInv, TypeOK
  <2> QED  BY <1>1, <2>1, NetMake DEF MainMake
<1>2. CASE FaceMake
  <2>1. NextId \in Ids
    BY <1>2, FaceClient DEF FaceMake, NextId, FaceBusy
  <2> QED  BY <1>2, <2>1, NetMake DEF FaceMake
<1>3. CASE MainSend
  <2>1. main' # "send" /\ main = "send" /\ face' = face
    BY <1>3 DEF MainSend
  <2> QED  BY <1>3, <2>1, NetSend DEF MainSend
<1>4. CASE FaceSend
  <2>1. face' # "send" /\ face = "send" /\ main' = main
    BY <1>4 DEF FaceSend
  <2> QED  BY <1>4, <2>1, NetSend DEF FaceSend
<1>5. CASE StartRecording \/ ReadBefore \/ ReadThroughput \/ StopCommitting
             \/ WriteResults
  <2>1. UNCHANGED <<face, current, commit_counter, network>>
        /\ main # "send" /\ main' # "send"
    BY <1>5 DEF StartRecording, ReadBefore, ReadThroughput, StopCommitting,
       WriteResults, counters
  <2>2. Unsent' = Unsent
    BY <2>1, UnsentAre
  <2> QED  BY <2>1, <2>2 DEF NetInv, AnsweredOnce, network
<1>6. CASE CheckDone
  <2>1. current'["main"] = current["main"]
    BY <1>6 DEF CheckDone, TypeOK
  <2>2. /\ UNCHANGED <<main, commit_counter, network>>
        /\ face = "check" /\ face' \in {"idle", "make"}
    BY <1>6 DEF CheckDone, counters
  <2>3. Unsent' = Unsent
    BY <2>1, <2>2, UnsentAre
  <2> QED  BY <2>2, <2>3 DEF NetInv, AnsweredOnce, network
<1>7. ASSUME NEW name \in pending, OnData(name) PROVE NetInv'
  <2>1. /\ UNCHANGED <<main, commit_counter, requests, committing>>
        /\ face = "idle" /\ face' = "check"
        /\ pending' = pending \ {name} /\ answers' = answers \ {name}
        /\ current'["main"] = current["main"]
    BY <1>7 DEF OnData, counters, TypeOK
  <2>2. Unsent' = Unsent
    BY <2>1, UnsentAre
  <2> QED  BY <2>1, <2>2 DEF NetInv, AnsweredOnce
<1>8. CASE Node \/ (\E name \in pending : OnTimeout(name)) \/ UNCHANGED vars
  <2>1. UNCHANGED <<main, face, current, commit_counter>>
    BY <1>8 DEF Node, OnInterestCommit, InformClient, OnTimeout, vars, threads,
       counters, measured
  <2>2. Unsent' = Unsent
    BY <2>1, UnsentAre
  <2>3. ASSUME NEW name \in requests, OnInterestCommit(name) PROVE NetInv'
    <3>1. name.type \in {0, 1}
      BY <2>3 DEF TypeOK, Names
    <3>2. \/ committing' = committing \cup {name} /\ answers' = answers
          \/ answers' = answers \cup {name} /\ committing' = committing
      BY <2>3, <3>1 DEF OnInterestCommit, Reads
    <3>3. requests' = requests \ {name} /\ pending' = pending
      BY <2>3 DEF OnInterestCommit
    <3> QED  BY <2>1, <2>2, <3>2, <3>3 DEF NetInv, AnsweredOnce
  <2>4. ASSUME NEW name \in committing, InformClient(name) PROVE NetInv'
    <3>1. /\ committing' = committing \ {name} /\ answers' = answers \cup {name}
          /\ requests' = requests /\ pending' = pending
      BY <2>4 DEF InformClient
    <3> QED  BY <2>1, <2>2, <3>1 DEF NetInv, AnsweredOnce
  <2>5. CASE (\E name \in pending : OnTimeout(name)) \/ UNCHANGED vars
    <3>1. pending' \subseteq pending /\ UNCHANGED <<requests, committing, answers>>
      BY <2>5 DEF OnTimeout, vars, network
    <3> QED  BY <2>1, <2>2, <3>1 DEF NetInv, AnsweredOnce
  <2> QED  BY <1>8, <2>3, <2>4, <2>5 DEF Node
<1> QED  BY <1>1, <1>2, <1>3, <1>4, <1>5, <1>6, <1>7, <1>8
            DEF Next, Main, FaceStep

----------------------------------------------------------------------------
\* The sum of a sequence

\* Induction over the natural numbers, for a set of numbers.
LEMMA NaturalsByInduction ==
  ASSUME NEW T, 0 \in T, \A n \in Nat : n \in T => n + 1 \in T
  PROVE  Nat \subseteq T
<1> SUFFICES ASSUME Nat \ T # {} PROVE FALSE
  OBVIOUS
<1> DEFINE Less == {p \in Nat \X Nat : p[1] < p[2]}
<1>1. IsWellFoundedOn(Less, Nat)
  BY NatLessThanWellFounded DEF OpToRel
<1>2. PICK x \in Nat \ T : \A y \in Nat \ T : <<y, x>> \notin Less
  BY <1>1, WFMin, Nat \ T \subseteq Nat
<1>3. x # 0 /\ x - 1 \in Nat
  OBVIOUS
<1>4. x - 1 \notin T
  BY <1>3
<1>5. <<x - 1, x>> \in Less
  BY <1>3
<1> QED  BY <1>2, <1>3, <1>4, <1>5

\* The function by which FoldLeft sums up seq: g[s] is the sum over the places in s.
IsSum(seq, g, S) ==
  g = [s \in SUBSET S |-> IF s = {} THEN 0 ELSE g[s \ {Max(s)}] + seq[Max(s)]]

\* The sum FoldLeft computes, with its recursion over sets of places made explicit.
LEMMA FoldIsSum ==
  ASSUME NEW seq
  PROVE  SumOf(seq) = (CHOOSE g : IsSum(seq, g, DOMAIN seq))[DOMAIN seq]
BY Zenon DEF SumOf, FoldLeft, MapThenFoldSet, IsSum

\* The place that FoldLeft takes first.
LEMMA LargestIsMax ==
  ASSUME NEW n \in Nat, NEW s \in SUBSET (1 .. n + 1), n + 1 \in s
  PROVE  Max(s) = n + 1 /\ s \ {n + 1} \subseteq 1 .. n
<1>1. \A y \in s : n + 1 >= y
  OBVIOUS
<1>2. \A x \in s : (\A y \in s : x >= y) => x = n + 1
  OBVIOUS
<1>3. s \ {n + 1} \subseteq 1 .. n
  OBVIOUS
<1> QED  BY <1>1, <1>2, <1>3 DEF Max

LEMMA LargestIsIn ==
  ASSUME NEW n \in Nat, NEW s, s \subseteq 1 .. n, s # {}
  PROVE  Max(s) \in s
<1> DEFINE T == {m \in Nat : \A t \in SUBSET (1 .. m) : t # {} => Max(t) \in t}
<1>1. 0 \in T
  <2>1. 1 .. 0 = {}
    OBVIOUS
  <2> QED  BY <2>1
<1>2. ASSUME NEW m \in Nat, m \in T PROVE m + 1 \in T
  <2> SUFFICES ASSUME NEW t \in SUBSET (1 .. m + 1), t # {} PROVE Max(t) \in t
    OBVIOUS
  <2>1. CASE m + 1 \in t
    BY <2>1, LargestIsMax
  <2>2. CASE m + 1 \notin t
    <3>1. t \subseteq 1 .. m
      BY <2>2
    <3> QED  BY <1>2, <3>1
  <2> QED  BY <2>1, <2>2
<1> HIDE DEF T
<1>3. n \in T
  BY <1>1, <1>2, NaturalsByInduction
<1> QED  BY <1>3 DEF T

\* There is one such function, and not more.
LEMMA SumUnique ==
  ASSUME NEW seq, NEW n \in Nat, NEW g, NEW h,
         IsSum(seq, g, 1 .. n), IsSum(seq, h, 1 .. n)
  PROVE  g = h
<1> DEFINE T == {m \in Nat : \A s \in SUBSET (1 .. n) : s \subseteq 1 .. m => g[s] = h[s]}
<1>1. /\ \A s \in SUBSET (1 .. n) : s = {} => g[s] = h[s]
      /\ \A s \in SUBSET (1 .. n) : s # {} =>
           /\ g[s] = g[s \ {Max(s)}] + seq[Max(s)]
           /\ h[s] = h[s \ {Max(s)}] + seq[Max(s)]
  BY DEF IsSum
<1>2. 0 \in T
  <2>1. 1 .. 0 = {}
    OBVIOUS
  <2> QED  BY <1>1, <2>1
<1>3. ASSUME NEW m \in Nat, m \in T PROVE m + 1 \in T
  <2> SUFFICES ASSUME NEW s \in SUBSET (1 .. n), s \subseteq 1 .. m + 1
               PROVE  g[s] = h[s]
    OBVIOUS
  <2>1. CASE m + 1 \notin s
    <3>1. s \subseteq 1 .. m
      BY <2>1
    <3> QED  BY <1>3, <3>1
  <2>2. CASE m + 1 \in s
    <3>1. Max(s) = m + 1 /\ s \ {m + 1} \subseteq 1 .. m
      BY <2>2, LargestIsMax
    <3>2. g[s \ {m + 1}] = h[s \ {m + 1}]
      BY <1>3, <3>1
    <3> QED  BY <1>1, <2>2, <3>1, <3>2
  <2> QED  BY <2>1, <2>2
<1>4. n \in T
  <2> HIDE DEF T
  <2> QED  BY <1>2, <1>3, NaturalsByInduction
<1>5. \A s \in SUBSET (1 .. n) : g[s] = h[s]
  BY <1>4
<1>6. /\ g = [s \in SUBSET (1 .. n) |-> g[s]]
      /\ h = [s \in SUBSET (1 .. n) |-> h[s]]
  BY DEF IsSum
<1> QED  BY <1>5, <1>6

LEMMA SumExists ==
  ASSUME NEW seq
  PROVE  \A n \in Nat : \E g : IsSum(seq, g, 1 .. n)
<1> DEFINE T == {n \in Nat : \E g : IsSum(seq, g, 1 .. n)}
<1>1. 0 \in T
  <2>1. PICK g : g = [s \in SUBSET (1 .. 0) |-> 0]
    OBVIOUS
  <2>2. SUBSET (1 .. 0) = {{}}
    OBVIOUS
  <2>3. IsSum(seq, g, 1 .. 0)
    BY <2>1, <2>2 DEF IsSum
  <2> QED  BY <2>3
<1>2. ASSUME NEW n \in Nat, n \in T PROVE n + 1 \in T
  <2>1. PICK g : IsSum(seq, g, 1 .. n)
    BY <1>2
  <2>2. PICK h : h = [s \in SUBSET (1 .. n + 1) |->
                       IF n + 1 \in s THEN g[s \ {n + 1}] + seq[n + 1] ELSE g[s]]
    OBVIOUS
  <2>3. ASSUME NEW s \in SUBSET (1 .. n + 1)
        PROVE  h[s] = IF s = {} THEN 0 ELSE h[s \ {Max(s)}] + seq[Max(s)]
    <3>1. CASE n + 1 \in s
      <4>1. Max(s) = n + 1 /\ s \ {n + 1} \in SUBSET (1 .. n)
        BY <3>1, LargestIsMax
      <4>2. h[s] = g[s \ {n + 1}] + seq[n + 1]
        BY <2>2, <3>1
      <4>3. h[s \ {n + 1}] = g[s \ {n + 1}]
        BY <2>2, <4>1
      <4> QED  BY <3>1, <4>1, <4>2, <4>3
    <3>2. CASE n + 1 \notin s
      <4>1. s \subseteq 1 .. n /\ s \ {Max(s)} \subseteq 1 .. n
        <5>1. s \subseteq 1 .. n
          BY <3>2
        <5> QED  BY <5>1, Zenon
      <4>2. g[s] = IF s = {} THEN 0 ELSE g[s \ {Max(s)}] + seq[Max(s)]
        BY <2>1, <4>1 DEF IsSum
      <4>3. h[s] = g[s] /\ h[s \ {Max(s)}] = g[s \ {Max(s)}]
        BY <2>2, <3>2, <4>1
      <4> QED  BY <4>2, <4>3
    <3> QED  BY <3>1, <3>2
  <2>4. h = [s \in SUBSET (1 .. n + 1) |->
               IF s = {} THEN 0 ELSE h[s \ {Max(s)}] + seq[Max(s)]]
    <3>1. h = [s \in SUBSET (1 .. n + 1) |-> h[s]]
      BY <2>2
    <3> QED  BY <2>3, <3>1
  <2>5. IsSum(seq, h, 1 .. n + 1)
    BY <2>4 DEF IsSum
  <2> QED  BY <2>5
<1> HIDE DEF T
<1>3. Nat \subseteq T
  BY <1>1, <1>2, NaturalsByInduction
<1> QED  BY <1>3 DEF T

\* The sum of a sequence that one number was appended to.
LEMMA SumAppend ==
  ASSUME NEW seq \in Seq(Int), NEW e \in Int
  PROVE  SumOf(Append(seq, e)) = SumOf(seq) + e
<1>1. PICK n, app : n = Len(seq) /\ app = Append(seq, e)
  OBVIOUS
<1>2. /\ n \in Nat /\ n + 1 \in Nat /\ DOMAIN seq = 1 .. n /\ DOMAIN app = 1 .. n + 1
      /\ app[n + 1] = e /\ \A i \in 1 .. n : app[i] = seq[i]
  BY <1>1
<1>3. PICK g : IsSum(app, g, 1 .. n + 1) /\ SumOf(app) = g[1 .. n + 1]
  <2>1. \E g : IsSum(app, g, 1 .. n + 1)
    BY <1>2, SumExists
  <2> QED  BY <1>2, <2>1, FoldIsSum
<1>4. PICK k : IsSum(seq, k, 1 .. n) /\ SumOf(seq) = k[1 .. n]
  <2>1. \E k : IsSum(seq, k, 1 .. n)
    BY <1>2, SumExists
  <2> QED  BY <1>2, <2>1, FoldIsSum
<1>5. PICK h : h = [s \in SUBSET (1 .. n) |-> g[s]]
  OBVIOUS
<1>6. IsSum(seq, h, 1 .. n)
  <2>1. ASSUME NEW s \in SUBSET (1 .. n)
        PROVE  h[s] = IF s = {} THEN 0 ELSE h[s \ {Max(s)}] + seq[Max(s)]
    <3>1. s \subseteq 1 .. n + 1 /\ s \ {Max(s)} \subseteq 1 .. n
      <4>1. s \subseteq 1 .. n + 1
        BY <1>2
      <4>2. s \ {Max(s)} \subseteq 1 .. n
        BY Zenon
      <4> QED  BY <4>1, <4>2
    <3>2. g[s] = IF s = {} THEN 0 ELSE g[s \ {Max(s)}] + app[Max(s)]
      BY <1>3, <3>1 DEF IsSum
    <3>3. s # {} => Max(s) \in 1 .. n
      BY <1>2, LargestIsIn
    <3> QED  BY <1>2, <1>5, <3>1, <3>2, <3>3
  <2>2. h = [s \in SUBSET (1 .. n) |-> h[s]]
    BY <1>5
  <2>3. h = [s \in SUBSET (1 .. n) |->
               IF s = {} THEN 0 ELSE h[s \ {Max(s)}] + seq[Max(s)]]
    BY <2>1, <2>2
  <2> QED  BY <2>3 DEF IsSum
<1>7. h = k
  BY <1>2, <1>4, <1>6, SumUnique
<1>8. g[1 .. n + 1] = g[1 .. n] + e
  <2>1. n + 1 \in 1 .. n + 1 /\ (1 .. n + 1) \ {n + 1} = 1 .. n
    BY <1>2
  <2>2. Max(1 .. n + 1) = n + 1
    BY <1>2, <2>1, LargestIsMax
  <2>3. g[1 .. n + 1] = g[(1 .. n + 1) \ {Max(1 .. n + 1)}] + app[Max(1 .. n + 1)]
    BY <1>3, <2>1 DEF IsSum
  <2> QED  BY <1>2, <2>1, <2>2, <2>3
<1> QED  BY <1>1, <1>3, <1>4, <1>5, <1>7, <1>8

LEMMA SumEmpty == SumOf(<<>>) = 0
<1>1. DOMAIN <<>> = 1 .. 0 /\ 1 .. 0 = {}
  OBVIOUS
<1>2. \E g : IsSum(<<>>, g, 1 .. 0)
  BY SumExists
<1>3. PICK g : IsSum(<<>>, g, 1 .. 0) /\ SumOf(<<>>) = g[1 .. 0]
  BY <1>1, <1>2, FoldIsSum
<1> QED  BY <1>1, <1>3 DEF IsSum

----------------------------------------------------------------------------
\* What the samples sum to

LEMMA SumNext ==
  ASSUME TypeOK, CounterInv, SumInv, [Next]_vars
  PROVE  SumInv'
<1>1. SumOf(throughputs) \in Int /\ SumOf(throughputs) <= IF main = "after" THEN before ELSE thr_counter
  BY DEF SumInv
<1>2. thr_counter \in Nat /\ before \in Nat /\ before <= thr_counter
  BY DEF TypeOK, CounterInv
<1>3. CASE ReadThroughput
  <2>1. /\ main = "after" /\ main' # "after" /\ thr_counter' = thr_counter
        /\ throughputs' = Append(throughputs, thr_counter - before)
    BY <1>3 DEF ReadThroughput, Sample
  <2>2. throughputs \in Seq(Int) /\ thr_counter - before \in Int
    BY <1>2 DEF TypeOK
  <2>3. SumOf(throughputs') = SumOf(throughputs) + (thr_counter - before)
    BY <2>1, <2>2, SumAppend
  <2> QED  BY <1>1, <1>2, <2>1, <2>3 DEF SumInv
<1>4. CASE throughputs' = throughputs
  <2>1. SumOf(throughputs') = SumOf(throughputs)
    BY <1>4
  <2>2. \/ main' = "after" /\ main = "before" /\ before' = thr_counter
        \/ main' = "after" /\ main = "after" /\ before' = before
        \/ main' # "after" /\ main # "after" /\ thr_counter' >= thr_counter
    <3>1. CASE Main
      BY <1>2, <1>4, <3>1
      DEF Main, MainMake, MainSend, StartRecording, ReadBefore, ReadThroughput,
          StopCommitting, WriteResults, measured, TypeOK
    <3>2. CASE FaceStep \/ Node \/ (\E name \in pending : OnTimeout(name)) \/ UNCHANGED vars
      BY <1>2, <3>2
      DEF FaceStep, OnData, CheckDone, FaceMake, FaceSend, Node, OnInterestCommit,
          InformClient, OnTimeout, vars, threads, measured
    <3> QED  BY <3>1, <3>2 DEF Next
  <2>3. thr_counter' \in Nat
    BY <1>2 DEF Next, Main, MainMake, MainSend, StartRecording, ReadBefore,
       ReadThroughput, StopCommitting, WriteResults, FaceStep, OnData, CheckDone,
       FaceMake, FaceSend, Node, OnInterestCommit, InformClient, OnTimeout, vars,
       measured
  <2> QED  BY <1>1, <1>2, <2>1, <2>2, <2>3 DEF SumInv
<1>5. ReadThroughput \/ throughputs' = throughputs
  BY DEF Next, Main, MainMake, MainSend, StartRecording, ReadBefore,
     StopCommitting, WriteResults, FaceStep, OnData, CheckDone, FaceMake, FaceSend,
     Node, OnInterestCommit, InformClient, OnTimeout, vars, measured
<1> QED  BY <1>3, <1>4, <1>5

----------------------------------------------------------------------------
\* Theorems

LEMMA ClientInit == Init => ClientInv
<1> SUFFICES ASSUME Init PROVE ClientInv
  OBVIOUS
<1>1. CounterInv
  BY ConstantsAreNat DEF Init, CounterInv, StillToStart, MayMake
<1>2. DoneInv
  BY DEF Init, DoneInv
<1>3. IdInv
  BY DEF Init, IdInv, Out, Of, FaceHas, FaceBusy
<1>4. Unsent = {}
  BY UnsentAre DEF Init
<1>5. CountInv
  BY <1>4, FS_EmptySet DEF Init, CountInv
<1>6. BlockInv
  <2>1. 0 \div Ten = 0 /\ 0 % Ten = 0
    BY ConstantsAreNat
  <2> QED  BY <2>1 DEF Init, BlockInv, Numbered, RareInv
<1>7. NetInv
  BY <1>4 DEF Init, NetInv, AnsweredOnce
<1>8. SumInv
  BY SumEmpty DEF Init, SumInv
<1> QED  BY TypeInit, <1>1, <1>2, <1>3, <1>5, <1>6, <1>7, <1>8 DEF ClientInv

\* However the two threads, the node and the time-outs interleave: the counters,
\* the client ids and done_ fit each other as ClientInv says.
THEOREM ClientInvariant == Spec => []ClientInv
PROOF
<1>1. ClientInv /\ [Next]_vars => ClientInv'
  BY TypeNext, CounterNext, DoneNext, IdNext, CountNext, NetNext, SumNext, BlockNext
     DEF ClientInv
<1> QED  BY <1>1, ClientInit, PTL DEF Spec

\* Every variable of the client stays in its type; in particular no more operations
\* are made than were let through.
THEOREM ClientTypeCorrect == Spec => []TypeOK
PROOF
<1>1. ClientInv => TypeOK
  BY DEF ClientInv
<1> QED  BY <1>1, ClientInvariant, PTL

\* After done_ was set at most one more operation is made.
THEOREM CommittingStops == Spec => []StopsCommitting
PROOF
<1> DEFINE OneMore == /\ after_done \in 0 .. 1
                      /\ ~ done \/ face = "make" => after_done = 0
<1>1. ClientInv => (~ done \/ face = "make" => after_done = 0)
  BY DEF ClientInv, DoneInv
<1>2. Init => OneMore
  BY DEF Init
<1>3. ClientInv /\ ClientInv' /\ OneMore /\ [Next]_vars => OneMore'
  <2> SUFFICES ASSUME ClientInv, ClientInv', OneMore, [Next]_vars
               PROVE  after_done' \in 0 .. 1
    BY DEF ClientInv, DoneInv
  <2>1. CASE MainMake
    BY <2>1 DEF MainMake, MakeName, ClientInv, DoneInv
  <2>2. CASE FaceMake
    BY <2>2 DEF FaceMake, MakeName
  <2>3. CASE UNCHANGED after_done
    BY <2>3
  <2>4. Next => MainMake \/ FaceMake \/ UNCHANGED after_done
    BY DEF Next, Main, MainSend, StartRecording, ReadBefore, ReadThroughput,
       StopCommitting, WriteResults, FaceStep, OnData, CheckDone, FaceSend, Node,
       OnInterestCommit, InformClient, OnTimeout, counters
  <2> QED  BY <2>1, <2>2, <2>3, <2>4 DEF vars, counters
<1>4. OneMore => StopsCommitting
  BY DEF StopsCommitting
<1> QED  BY <1>2, <1>3, <1>4, ClientInvariant, PTL DEF Spec

\* What the main thread writes to the files is not changed under it.
THEOREM ResultsAreStable == Spec => ResultsStable
PROOF
<1>1. ClientInv /\ [Next]_vars
        => [done => UNCHANGED <<thr_counter, counted, throughputs>>]_vars
  <2> SUFFICES ASSUME ClientInv, Next, done
               PROVE  UNCHANGED <<thr_counter, counted, throughputs>>
    OBVIOUS
  <2>1. main \in {"wait", "ended"} /\ recording = FALSE
    BY DEF ClientInv, DoneInv
  <2>2. CASE Main
    BY <2>1, <2>2 DEF Main, MainMake, MainSend, StartRecording, ReadBefore,
       ReadThroughput, StopCommitting, WriteResults, measured
  <2>3. CASE FaceStep
    BY <2>1, <2>3 DEF FaceStep, OnData, CheckDone, FaceMake, FaceSend, measured
  <2>4. CASE Node \/ \E name \in pending : OnTimeout(name)
    BY <2>4 DEF Node, OnInterestCommit, InformClient, OnTimeout, measured
  <2> QED  BY <2>2, <2>3, <2>4 DEF Next
<1> QED  BY <1>1, ClientInvariant, PTL DEF Spec, ResultsStable

\* The window of the client is kept: an id has one Interest out, or an answer in
\* handling, and never two, whatever expires.
THEOREM WindowIsKept == Spec => []WindowKept
PROOF
<1>1. ClientInv => WindowKept
  <2> SUFFICES ASSUME ClientInv, NEW i \in 0 .. started - 1
      PROVE LET busy == Cardinality(Of(i, pending)) + Cardinality(Of(i, expired))
                        + Cardinality({t \in {"check", "make", "send"} :
                                         face = t /\ current["face"].client = i})
            IN  busy <= 1 /\ (~ done => busy = 1)
    BY DEF WindowKept
  <2> DEFINE P == Of(i, pending)
             E == Of(i, expired)
             F == {t \in {"check", "make", "send"} :
                     face = t /\ current["face"].client = i}
  <2>1. i \in Ids /\ i < started
    BY ConstantsAreNat DEF ClientInv, TypeOK
  <2>2. Out(i) = P \cup E
    BY DEF Out, Of
  <2>3. P \cap E = {}
    BY DEF Of, ClientInv, IdInv
  <2>4. F = IF FaceHas(i) THEN {face} ELSE {}
    BY DEF FaceHas, FaceBusy
  <2>5. /\ \A a, b \in P \cup E : a = b
        /\ FaceHas(i) => P \cup E = {}
        /\ ~ done => FaceHas(i) \/ P \cup E # {}
    BY <2>1, <2>2 DEF ClientInv, IdInv
  <2> DEFINE busy == Cardinality(P) + Cardinality(E) + Cardinality(F)
  <2> HIDE DEF P, E, F
  <2>7. Cardinality({}) = 0 /\ \A x : Cardinality({x}) = 1
    BY FS_Singleton, FS_EmptySet
  <2>8. busy <= 1 /\ (~ done => busy = 1)
    <3>1. CASE FaceHas(i)
      <4>1. P = {} /\ E = {} /\ F = {face}
        BY <2>4, <2>5, <3>1
      <4>2. Cardinality(P) = 0 /\ Cardinality(E) = 0 /\ Cardinality(F) = 1
        BY <4>1, <2>7
      <4> QED  BY <4>2
    <3>2. CASE ~ FaceHas(i) /\ P \cup E = {}
      <4>1. P = {} /\ E = {} /\ F = {} /\ done
        BY <2>4, <2>5, <3>2
      <4>2. Cardinality(P) = 0 /\ Cardinality(E) = 0 /\ Cardinality(F) = 0
        BY <4>1, <2>7
      <4> QED  BY <4>1, <4>2
    <3>3. CASE ~ FaceHas(i) /\ P \cup E # {}
      <4>1. PICK x : x \in P \cup E
        BY <3>3
      <4>2. F = {}
        BY <2>4, <3>3
      <4>3. CASE x \in P
        <5>1. P = {x} /\ E = {}
          BY <4>3, <2>3, <2>5
        <5>2. Cardinality(P) = 1 /\ Cardinality(E) = 0 /\ Cardinality(F) = 0
          BY <5>1, <4>2, <2>7
        <5> QED  BY <5>2
      <4>4. CASE x \in E
        <5>1. P = {} /\ E = {x}
          BY <4>4, <2>3, <2>5
        <5>2. Cardinality(P) = 0 /\ Cardinality(E) = 1 /\ Cardinality(F) = 0
          BY <5>1, <4>2, <2>7
        <5> QED  BY <5>2
      <4> QED  BY <4>1, <4>3, <4>4
    <3> QED  BY <3>1, <3>2, <3>3
  <2> QED  BY <2>8 DEF P, E, F
<1> QED  BY <1>1, ClientInvariant, PTL

\* Whichever thread makes an operation: a complete block has ten of them, one of
\* the rarer type.
THEOREM OneInTenHolds == Spec => []OneInTen
PROOF
<1>1. ClientInv => OneInTen
  <2> SUFFICES ASSUME ClientInv, Mixed,
                      NEW b \in 0 .. (commit_counter \div Ten) - 1
      PROVE LET block == {n \in made : n.counter \div Ten = b} IN
            /\ Cardinality(block) = Ten
            /\ Cardinality({n \in block : n.type # write_or_read}) = 1
    BY DEF OneInTen
  <2> DEFINE block == {n \in made : n.counter \div Ten = b}
             rare  == {n \in block : n.type # write_or_read}
             I     == (Ten * b) .. (Ten * b + Ten - 1)
             f     == [c \in I |-> CHOOSE n \in made : n.counter = c]
  <2>1. commit_counter \in Nat /\ b \in Nat /\ Ten \in Nat /\ Ten > 0
    BY ConstantsAreNat DEF ClientInv, TypeOK
  <2>2. Ten * b + Ten <= commit_counter
    <3>1. commit_counter \div Ten \in Nat /\ b + 1 <= commit_counter \div Ten
      BY <2>1, DivIsNat
    <3>2. Ten * (b + 1) <= Ten * (commit_counter \div Ten)
      BY <2>1, <3>1
    <3>3. Ten * (b + 1) = Ten * b + Ten /\ Ten * b \in Nat
      BY <2>1
    <3>4. Ten * (commit_counter \div Ten) <= commit_counter
      BY <2>1, DivBounds
    <3> QED  BY <2>1, <3>1, <3>2, <3>3, <3>4
  <2>3. \A c \in I : c \in 0 .. commit_counter - 1 /\ c \div Ten = b
    BY <2>1, <2>2, DivUnique
  <2>4. \A k \in Nat : k \div Ten = b => k \in I
    BY <2>1, DivBounds
  <2>5. \A n \in made : n.counter \in Nat
    BY NumbersAreNat DEF ClientInv
  <2>6. Numbered
    BY DEF ClientInv, BlockInv
  <2> HIDE DEF I
  <2>7. \A c \in I : f[c] \in made /\ f[c].counter = c
    BY <2>3, <2>6 DEF Numbered
  <2>8. f \in Bijection(I, block)
    <3>1. f \in [I -> block]
      BY <2>3, <2>7
    <3>2. \A x, y \in I : f[x] = f[y] => x = y
      BY <2>7
    <3>3. \A n \in block : \E c \in I : f[c] = n
      BY <2>4, <2>5, <2>6, <2>7 DEF Numbered
    <3> QED  BY <3>1, <3>2, <3>3 DEF Bijection, Injection, Surjection,
                                         IsInjective
  <2>9. IsFiniteSet(I) /\ Cardinality(I) = Ten
    <3>1. /\ Ten * b \in Int /\ Ten * b + Ten - 1 \in Int
          /\ ~ (Ten * b > Ten * b + Ten - 1)
          /\ (Ten * b + Ten - 1) - Ten * b + 1 = Ten
      BY <2>1
    <3> QED  BY <3>1, FS_Interval DEF I
  <2>10. Cardinality(block) = Ten
    BY <2>8, <2>9, FS_Bijection DEF ExistsBijection
  <2>11. Cardinality(rare) = 1
    <3>1. PICK r \in Nat : RareAt(b, r)
      BY DEF ClientInv, BlockInv, RareInv
    <3>2. r \in I /\ r \div Ten = b
      BY <2>4, <3>1 DEF RareAt
    <3>3. rare = {f[r]}
      BY <2>6, <2>7, <3>1, <3>2 DEF RareAt, Numbered
    <3> QED  BY <3>3, FS_Singleton
  <2> QED  BY <2>10, <2>11
<1> QED  BY <1>1, ClientInvariant, PTL

\* However the two threads interleave, the samples never sum to more than the number
\* of answers, and no answer is counted twice.
THEOREM MeasuredOnceHolds == Spec => []MeasuredOnce
PROOF
<1>1. ClientInv => MeasuredOnce
  <2> SUFFICES ASSUME ClientInv PROVE MeasuredOnce
    OBVIOUS
  <2>1. before <= thr_counter /\ before \in Nat /\ thr_counter \in Nat
    BY DEF ClientInv, CounterInv, TypeOK
  <2>2. SumOf(throughputs) <= thr_counter
    BY <2>1 DEF ClientInv, SumInv
  <2> QED  BY <2>2 DEF MeasuredOnce, ClientInv, CountInv
<1> QED  BY <1>1, ClientInvariant, PTL

\* No Interest the client waits for is forgotten, committed twice or committed after
\* it was answered.
THEOREM AnsweredOnceHolds == Spec => []AnsweredOnce
PROOF
<1>1. ClientInv => AnsweredOnce
  BY DEF ClientInv, NetInv
<1> QED  BY <1>1, ClientInvariant, PTL
=============================================================================
