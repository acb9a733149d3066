------------------------------- MODULE Client -------------------------------
(***************************************************************************)
(* The measuring client (client.cpp) with the node that serves it          *)
(* (Commo::onInterestCommit, inform_client).  The main thread sends one    *)
(* Interest for each of com_win_ client ids and then takes samples of a    *)
(* counter; the thread of the Face answers each Data by the next Interest  *)
(* of the same id.  The threads share the counters under two mutexes;      *)
(* done_ is read under neither.  An action is what lies between two steps  *)
(* that the other thread can see.                                          *)
(***************************************************************************)
EXTENDS Integers, FiniteSets, Sequences, FiniteSetsExt, SequencesExt

CONSTANTS
  com_win,      \* com_win_, the number of client ids
  ratio,        \* ratio_: 0 reads only, 10 nine reads in ten, below 100 nine
                \* writes in ten, 100 writes only
  Ten,          \* the length of a block of operations, 10 in the code
  Samples,      \* the number of samples, interval * 4 in the code
  MaxCommits,   \* bound: answers are taken until so many Interests were made
  MaxExpired    \* bound on Interests that expire

ASSUME ClientAssumption ==
  /\ {com_win, Ten, Samples, MaxCommits} \subseteq Nat \ {0}
  /\ {ratio, MaxExpired} \subseteq Nat

Ids == 0 .. com_win - 1

VARIABLES
  main,            \* what start_commit does next
  face,            \* what the thread of the Face does next
  current,         \* the name either thread has made and not yet sent
  started,         \* i of the first loop
  commit_counter,  \* commit_counter_
  rand_counter,    \* rand_counter_
  recording,       \* recording_
  done,            \* done_
  thr_counter,     \* thr_counter_, the length of periods_
  before,          \* before
  throughputs,     \* throughputs_
  pending,         \* the Interests the Face waits for
  requests,        \* Interests on their way to the node
  committing,      \* names handed to Captain::commit
  answers,         \* Data on their way to the client
  made,            \* history: all names
  counted,         \* history: the names counted in thr_counter_
  expired,         \* history: the Interests that expired
  after_done       \* history: Interests made after done_ was set

threads  == <<main, face, current, started>>
counters == <<commit_counter, rand_counter, made, after_done>>
measured == <<recording, done, thr_counter, counted, before, throughputs>>
network  == <<pending, requests, committing, answers, expired>>
vars     == <<threads, counters, measured, network>>

NoName == [type |-> 0, client |-> -1, counter |-> -1]

Init ==
  /\ main = "make" /\ face = "idle" /\ started = 0
  /\ current = [t \in {"main", "face"} |-> NoName]
  /\ commit_counter = 0 /\ rand_counter = 0
  /\ recording = FALSE /\ done = FALSE
  /\ thr_counter = 0 /\ before = 0 /\ throughputs = <<>>
  /\ pending = {} /\ requests = {} /\ committing = {} /\ answers = {}
  /\ made = {} /\ counted = {} /\ expired = {} /\ after_done = 0

----------------------------------------------------------------------------
\* Making and sending an Interest

\* Mutant: the ratio itself is taken.
BugMajority == ratio

\* write_or_read_: the type of most operations, 0 write or 1 read.
write_or_read == IF ratio = 10 THEN 1 ELSE 0

Mixed == ratio # 0 /\ ratio < 100

\* Mutant: the drawn number can fall behind the block.
BugDraw == IF Mixed /\ commit_counter % Ten = 0
           THEN {commit_counter + d : d \in 0 .. Ten} ELSE {rand_counter}

\* The possible values of rand_counter_ for the next operation.
Draw == IF Mixed /\ commit_counter % Ten = 0
        THEN {commit_counter + d : d \in 0 .. Ten - 1} ELSE {rand_counter}

Type(r) ==
  CASE ratio = 0                    -> 1
    [] Mixed /\ commit_counter = r  -> 1 - write_or_read
    [] OTHER                        -> write_or_read

\* The block under counter_mut_: thread t makes the next name, for client id i.
MakeName(t, i) ==
  \E r \in Draw :
    LET name == [type |-> Type(r), client |-> i, counter |-> commit_counter] IN
    /\ rand_counter' = r
    /\ commit_counter' = commit_counter + 1
    /\ current' = [current EXCEPT ![t] = name]
    /\ made' = made \cup {name}
    /\ after_done' = IF done THEN after_done + 1 ELSE after_done

\* consume: the Interest is expressed.
consume(t) ==
  /\ pending'  = pending \cup {current[t]}
  /\ requests' = requests \cup {current[t]}
  /\ current' = [current EXCEPT ![t] = NoName]
  /\ UNCHANGED <<committing, answers, expired>>

----------------------------------------------------------------------------
\* start_commit, the main thread

MainMake ==
  /\ main = "make"
  /\ MakeName("main", started)
  /\ main' = "send"
  /\ UNCHANGED <<face, started, measured, network>>

MainSend ==
  /\ main = "send"
  /\ consume("main")
  /\ started' = started + 1
  /\ main' = IF started' < com_win THEN "make" ELSE "record"
  /\ UNCHANGED <<face, counters, measured>>

StartRecording ==
  /\ main = "record"
  /\ recording' = TRUE
  /\ main' = "before"
  /\ UNCHANGED <<face, current, started, counters, done, thr_counter, counted,
                 before, throughputs, network>>

ReadBefore ==
  /\ main = "before"
  /\ before' = thr_counter
  /\ main' = "after"
  /\ UNCHANGED <<face, current, started, counters, recording, done, thr_counter,
                 counted, throughputs, network>>

\* Mutant: the sample is the whole count.
BugSample == thr_counter

Sample == thr_counter - before

ReadThroughput ==
  /\ main = "after"
  /\ throughputs' = Append(throughputs, Sample)
  /\ main' = IF Len(throughputs') < Samples THEN "before" ELSE "stop"
  /\ UNCHANGED <<face, current, started, counters, recording, done, thr_counter,
                 counted, before, network>>

\* Mutant: recording_ stays set.
BugStopRecording == recording' = recording

StopRecording == recording' = FALSE

StopCommitting ==
  /\ main = "stop"
  /\ StopRecording
  /\ done' = TRUE
  /\ main' = "wait"
  /\ UNCHANGED <<face, current, started, counters, thr_counter, counted, before,
                 throughputs, network>>

\* The last sleep is three times the lifetime of an Interest: by its end each of
\* them was answered or has expired.  The results are written without a mutex.
WriteResults ==
  /\ main = "wait"
  /\ face = "idle"
  /\ pending = {}
  /\ main' = "ended"
  /\ UNCHANGED <<face, current, started, counters, measured, network>>

Main == MainMake \/ MainSend \/ StartRecording \/ ReadBefore \/ ReadThroughput
          \/ StopCommitting \/ WriteResults

----------------------------------------------------------------------------
\* onData, the thread of the Face

\* The Data of a pending Interest arrives; the block under thr_mut_.
OnData(name) ==
  /\ face = "idle"
  /\ name \in pending \cap answers
  /\ commit_counter < MaxCommits \/ done
  /\ pending' = pending \ {name}
  /\ answers' = answers \ {name}
  /\ thr_counter' = IF recording THEN thr_counter + 1 ELSE thr_counter
  /\ counted'     = IF recording THEN counted \cup {name} ELSE counted
  /\ current' = [current EXCEPT !["face"] = name]
  /\ face' = "check"
  /\ UNCHANGED <<main, started, counters, recording, done, before, throughputs,
                 requests, committing, expired>>

\* Mutant: done_ is not looked at.
BugStopped == FALSE

Stopped == done

\* if (done_ == false), with no mutex held
CheckDone ==
  /\ face = "check"
  /\ face' = IF Stopped THEN "idle" ELSE "make"
  /\ current' = IF Stopped THEN [current EXCEPT !["face"] = NoName] ELSE current
  /\ UNCHANGED <<main, started, counters, measured, network>>

\* Mutant: the client id is made from the number of the operation.
BugNextId == commit_counter % com_win

\* The next operation is made for the client id in the name of the Data.
NextId == current["face"].client

FaceMake ==
  /\ face = "make"
  /\ MakeName("face", NextId)
  /\ face' = "send"
  /\ UNCHANGED <<main, started, measured, network>>

FaceSend ==
  /\ face = "send"
  /\ consume("face")
  /\ face' = "idle"
  /\ UNCHANGED <<main, started, counters, measured>>

\* onTimeout does nothing.  The Data that comes later finds no Interest.
OnTimeout(name) ==
  /\ name \in pending
  /\ Cardinality(expired) < MaxExpired
  /\ pending' = pending \ {name}
  /\ expired' = expired \cup {name}
  /\ UNCHANGED <<threads, counters, measured, requests, committing, answers>>

----------------------------------------------------------------------------
\* The node

\* Mutant: only writes are handled.
BugReads == {}

\* Reads are answered at once.
Reads == {name \in requests : name.type # 0}

\* Commo::onInterestCommit
OnInterestCommit(name) ==
  /\ name \in requests
  /\ requests' = requests \ {name}
  /\ committing' = IF name.type = 0 THEN committing \cup {name} ELSE committing
  /\ answers' = IF name \in Reads THEN answers \cup {name} ELSE answers
  /\ UNCHANGED <<threads, counters, measured, pending, expired>>

\* Commo::inform_client, once the value was chosen: see module Captain.
InformClient(name) ==
  /\ name \in committing
  /\ committing' = committing \ {name}
  /\ answers' = answers \cup {name}
  /\ UNCHANGED <<threads, counters, measured, pending, requests, expired>>

FaceStep == CheckDone \/ FaceMake \/ FaceSend \/ \E name \in pending : OnData(name)

Node == \/ \E name \in requests : OnInterestCommit(name)
        \/ \E name \in committing : InformClient(name)

Next ==
  \/ Main \/ FaceStep \/ Node
  \/ \E name \in pending : OnTimeout(name)

Spec == Init /\ [][Next]_vars

\* Both threads go on and the node answers everything.
LiveSpec == Spec /\ WF_vars(Main) /\ WF_vars(FaceStep) /\ WF_vars(Node)

----------------------------------------------------------------------------
\* Properties

Names == [type : {0, 1}, client : Ids, counter : 0 .. MaxCommits + com_win]

\* Every variable holds what the code can put there.
TypeOK ==
  /\ main \in {"make", "send", "record", "before", "after", "stop", "wait", "ended"}
  /\ face \in {"idle", "check", "make", "send"}
  /\ current \in [{"main", "face"} -> Names \cup {NoName}]
  /\ started \in 0 .. com_win
  /\ commit_counter \in 0 .. MaxCommits + com_win
  /\ rand_counter \in Nat
  /\ recording \in BOOLEAN /\ done \in BOOLEAN
  /\ thr_counter \in Nat /\ before \in Nat /\ throughputs \in Seq(Nat)
  /\ \A s \in {pending, requests, committing, answers, made, counted, expired} :
       s \subseteq Names
  /\ after_done \in Nat

\* Two threads number the operations, yet every complete block of ten has ten
\* operations and exactly one of them is of the rarer type.
OneInTen ==
  Mixed => \A b \in 0 .. commit_counter \div Ten - 1 :
    LET block == {n \in made : n.counter \div Ten = b} IN
    /\ Cardinality(block) = Ten
    /\ Cardinality({n \in block : n.type # write_or_read}) = 1

Of(i, names) == {n \in names : n.client = i}

\* The window is com_win_ for the whole measurement, except for the Interests
\* that expired: each client id that was started has exactly one Interest out or
\* one Data in handling, until done_ is set, and never two.
WindowKept ==
  \A i \in 0 .. started - 1 :
    LET busy == Cardinality(Of(i, pending)) + Cardinality(Of(i, expired))
                + Cardinality({t \in {"check", "make", "send"} :
                                 face = t /\ current["face"].client = i})
    IN  busy <= 1 /\ (~ done => busy = 1)

SumOf(samples) == FoldLeft(+, 0, samples)

\* No answer is counted twice: the samples together are at most the number of
\* answers that were counted, which is the number of latencies.
MeasuredOnce ==
  /\ thr_counter = Cardinality(counted)
  /\ SumOf(throughputs) <= thr_counter

\* An Interest the client waits for is in one place: on its way, with the node that
\* has yet to choose its value, or on its way back.  None is forgotten, and what was
\* answered is not committed again.
AnsweredOnce ==
  /\ pending \subseteq requests \cup committing \cup answers
  /\ requests \cap (committing \cup answers) = {}
  /\ committing \cap answers = {}

\* done_ is read without a mutex, so an answer may still be followed by one more
\* Interest after it was set, but by one only.
StopsCommitting == after_done <= 1

\* Once done_ is set nobody writes what the main thread reads without a mutex
\* when it writes the results.
ResultsStable == [][done => UNCHANGED <<thr_counter, counted, throughputs>>]_vars

\* The measurement comes to its end: every outstanding Interest is answered or
\* expires, and no thread waits for the other.
MeasurementEnds == <>(main = "ended")
=============================================================================
