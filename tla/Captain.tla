------------------------------ MODULE Captain -------------------------------
(***************************************************************************)
(* Class Captain over all slots (captain.cpp): the window of open          *)
(* proposers, the two commit queues, the retry of a value that lost its    *)
(* slot, the record of chosen values and the callbacks in slot order.      *)
(* Inside a slot Captain relies on what module Consensus promises, which   *)
(* module Instance is proved to implement: decided is its value, and a     *)
(* proposer that reaches the CHOOSE case has found it.                     *)
(***************************************************************************)
EXTENDS View, Sequences, Functions

CONSTANTS
  Clients,      \* the values that come in an Interest of a client; the name of
                \* the Interest is identified with the value
  DataName,     \* the name of any Interest that carried a Paxos message
  WindowSize,   \* WindowSize[n]: the window_size of node n's constructor
  Threads,      \* how many threads of a node handle messages: the event loop,
                \* and the application's for what it sends to its own node
  MaxSlot,      \* bound on the slots used
  MayCrash      \* bound: the nodes that may crash

ASSUME CaptainAssumption ==
  /\ Clients \subseteq Values
  /\ DataName \notin Values \cup {NULL}
  /\ WindowSize \in [Nodes -> Nat \ {0}]
  /\ Threads \in Nat \ {0}
  /\ MaxSlot \in Nat \ {0}
  /\ MayCrash \subseteq Nodes

Slots == 1 .. MaxSlot

VARIABLES
  work,               \* work_
  proposers,          \* proposers_: a function on the slots the map has as keys
  tocommit_values,    \* tocommit_values_
  tocommit_clients,   \* tocommit_clients_
  max_slot,           \* max_slot_
  chosen_values,      \* chosen_values_; NULL also past the end of the vector
  choosing,           \* the slots whose CHOOSE case a thread is in
  called,             \* the values handed to callback_, in order;
                      \* its length is max_chosen_without_hole_
  net,                \* DECIDE, LEARN and TEACH messages on their way
  decided,            \* the value the acceptors have chosen in each slot
  proposed,           \* history: the values each slot was started with
  committed,          \* history: the values handed to commit, in order
  informed            \* history: the calls of Commo::inform_client

node_vars == <<work, proposers, tocommit_values, tocommit_clients, max_slot,
               chosen_values, choosing, called>>
vars == <<node_vars, net, decided, proposed, committed, informed>>

Init ==
  /\ work             = [n \in Nodes |-> TRUE]
  /\ proposers        = [n \in Nodes |-> <<>>]
  /\ tocommit_values  = [n \in Nodes |-> <<>>]
  /\ tocommit_clients = [n \in Nodes |-> <<>>]
  /\ max_slot         = [n \in Nodes |-> 0]
  /\ chosen_values    = [n \in Nodes |-> [s \in Slots |-> NULL]]
  /\ choosing         = [n \in Nodes |-> {}]
  /\ called           = [n \in Nodes |-> <<>>]
  /\ net       = {}
  /\ decided   = [s \in Slots |-> NULL]
  /\ proposed  = [s \in Slots |-> {}]
  /\ committed = [n \in Nodes |-> <<>>]
  /\ informed  = {}

Works(n) == work[n]

\* Some thread of n is not in a CHOOSE case.
Idle(n) == Cardinality(choosing[n]) < Threads

\* The open slots of n: the keys of proposers_.
Open(n) == DOMAIN proposers[n]

\* proposer_info_t, with the init_value of its curr_proposer
Info(v, client, try_time) ==
  [init_value |-> v, client_name |-> client, try_time |-> try_time]

----------------------------------------------------------------------------
\* Starting slots

NextSlot(n) == max_slot[n] + 1

\* Mutant: max_slot_ is not advanced.
BugNewSlot(n, p, kept) ==
  LET s == NextSlot(n) IN
  /\ s \in Slots
  /\ proposers' = [proposers EXCEPT ![n] =
        [i \in kept \cup {s} |-> IF i = s THEN p ELSE @[i]]]
  /\ proposed'  = [proposed EXCEPT ![s] = @ \cup {p.init_value}]
  /\ UNCHANGED max_slot

\* ++max_slot_, and the map of n keeps the slots in kept and gets p for the new one.
NewSlot(n, p, kept) ==
  LET s == NextSlot(n) IN
  /\ s \in Slots
  /\ max_slot'  = [max_slot EXCEPT ![n] = s]
  /\ proposers' = [proposers EXCEPT ![n] =
        [i \in kept \cup {s} |-> IF i = s THEN p ELSE @[i]]]
  /\ proposed'  = [proposed EXCEPT ![s] = @ \cup {p.init_value}]

\* Where inform_client sends the answer for v: the Interest's name, or the
\* empty dumName_ for a commit of the application.
ClientName(v) == IF v \in Clients THEN v ELSE NULL

\* Mutant: the window is compared with the slots below the newest one.
BugWindowFull(n) == Cardinality(Open(n) \ {max_slot[n]}) = WindowSize[n]

WindowFull(n) == Cardinality(Open(n)) = WindowSize[n]

\* commit(PropValue*, Name&).  The application may call it at any time, also from
\* callback_latency_, which is between the two locked parts of CHOOSE; an
\* Interest of a client is handled by the event loop itself.
CommitCalled(n, v) ==
  /\ if_master(n)
  /\ \A m \in Nodes : \A i \in DOMAIN committed[m] : committed[m][i] # v
  /\ v \in Clients => Idle(n)
  /\ committed' = [committed EXCEPT ![n] = Append(@, v)]
  /\ UNCHANGED <<work, chosen_values, choosing, called, net, decided, informed>>

CommitQueued(n, v) ==
  /\ CommitCalled(n, v)
  /\ WindowFull(n)
  /\ tocommit_values'  = [tocommit_values EXCEPT ![n] = Append(@, v)]
  /\ tocommit_clients' = [tocommit_clients EXCEPT ![n] = Append(@, ClientName(v))]
  /\ UNCHANGED <<proposers, max_slot, proposed>>

\* The oldest value of the queue, with the new one at its end, is started.
CommitStarted(n, v) ==
  LET values  == Append(tocommit_values[n], v)
      clients == Append(tocommit_clients[n], ClientName(v))
  IN
  /\ CommitCalled(n, v)
  /\ ~ WindowFull(n)
  /\ NewSlot(n, Info(Head(values), Head(clients), 1), Open(n))
  /\ tocommit_values'  = [tocommit_values EXCEPT ![n] = Tail(values)]
  /\ tocommit_clients' = [tocommit_clients EXCEPT ![n] = Tail(clients)]

Commit(n, v) == CommitQueued(n, v) \/ CommitStarted(n, v)

----------------------------------------------------------------------------
\* Recording values

\* Mutant: the callbacks do not stop at a hole.
BugGapless(values, k) == k = MaxSlot \/ \A i \in k + 1 .. MaxSlot : values[i] = NULL

\* add_callback stops before the first slot without a value.
Gapless(values, k) ==
  /\ \A i \in 1 .. k : values[i] # NULL
  /\ k + 1 \in Slots => values[k + 1] = NULL

\* add_chosen_value (and add_learn_value): the first value recorded for a slot
\* stays; then a callback is made for every slot that is now without a hole.
add_chosen_value(n, s, v) ==
  LET values == [chosen_values[n] EXCEPT ![s] = IF @ = NULL THEN v ELSE @] IN
  /\ chosen_values' = [chosen_values EXCEPT ![n] = values]
  /\ \E k \in {0} \cup Slots :
       /\ Gapless(values, k)
       /\ called' = [called EXCEPT ![n] =
             [i \in 1 .. k |-> IF i <= Len(@) THEN @[i] ELSE values[i]]]

Message(type, n, m, s, v) ==
  [type |-> type, from |-> n, to |-> m, slot |-> s, value |-> v]

\* What n broadcasts when it has chosen v in s, w being the value it recorded.
Announce(n, s, v, w) ==
  {Message("DECIDE", n, m, s, v) : m \in Reach(n, "DECIDE")}
  \cup IF MODE_TYPE >= 2
       THEN {Message("TEACH", n, m, s, w) : m \in Reach(n, "TEACH")} ELSE {}

----------------------------------------------------------------------------
\* The case CHOOSE

\* The acceptors choose a value in slot s: Decide of module Consensus.
Decide(s) ==
  /\ decided[s] = NULL
  /\ \E v \in proposed[s] : decided' = [decided EXCEPT ![s] = v]
  /\ UNCHANGED <<node_vars, net, proposed, committed, informed>>

\* Mutant: the client is told whatever value its slot was given to.
BugTold(n, s) == {[slot |-> s, client |-> proposers[n][s].client_name,
                   try_time |-> proposers[n][s].try_time]}

\* inform_client, only if the chosen value is the one this proposer was given.
Told(n, s) ==
  {[slot |-> s, client |-> p.client_name, try_time |-> p.try_time] :
      p \in {q \in {proposers[n][s]} : q.init_value = decided[s]}}

\* From the status CHOSEN to the broadcast of DECIDE: proposers_mutex_ is not
\* held, and the slot's proposer is still in the map.
Choose(n, s) ==
  /\ Works(n)
  /\ Idle(n)
  /\ s \in Open(n) \ choosing[n]
  /\ decided[s] # NULL
  /\ informed' = informed \cup Told(n, s)
  /\ add_chosen_value(n, s, decided[s])
  /\ net' = net \cup Announce(n, s, decided[s], chosen_values'[n][s])
  /\ choosing' = [choosing EXCEPT ![n] = @ \cup {s}]
  /\ UNCHANGED <<work, proposers, tocommit_values, tocommit_clients, max_slot,
                 decided, proposed, committed>>

Chosen(n, s) ==
  /\ s \in choosing[n]
  /\ choosing' = [choosing EXCEPT ![n] = @ \ {s}]
  /\ UNCHANGED <<work, chosen_values, called, net, decided, committed, informed>>

\* Mutant: the values are compared as pointers, and the chosen one is a copy.
BugHasOwnValue(n, s) == FALSE

HasOwnValue(n, s) == proposers[n][s].init_value = decided[s]

\* The value got through and nothing waits.
Finish(n, s) ==
  /\ Chosen(n, s)
  /\ HasOwnValue(n, s)
  /\ tocommit_values[n] = <<>>
  /\ proposers' = [proposers EXCEPT ![n] = Restrict(@, Open(n) \ {s})]
  /\ UNCHANGED <<tocommit_values, tocommit_clients, max_slot, proposed>>

\* Mutant: only one of the two queues is popped.
BugStartNext(n, s) ==
  /\ Chosen(n, s)
  /\ HasOwnValue(n, s)
  /\ tocommit_values[n] # <<>>
  /\ NewSlot(n, Info(Head(tocommit_values[n]), Head(tocommit_clients[n]), 1),
             Open(n) \ {s})
  /\ tocommit_values'  = [tocommit_values EXCEPT ![n] = Tail(@)]
  /\ UNCHANGED tocommit_clients

\* The value got through; the oldest waiting one takes its place.
StartNext(n, s) ==
  /\ Chosen(n, s)
  /\ HasOwnValue(n, s)
  /\ tocommit_values[n] # <<>>
  /\ NewSlot(n, Info(Head(tocommit_values[n]), Head(tocommit_clients[n]), 1),
             Open(n) \ {s})
  /\ tocommit_values'  = [tocommit_values EXCEPT ![n] = Tail(@)]
  /\ tocommit_clients' = [tocommit_clients EXCEPT ![n] = Tail(@)]

\* Mutant: the lost value is not proposed again.
BugRecommit(n, s) ==
  /\ Chosen(n, s)
  /\ ~ HasOwnValue(n, s)
  /\ proposers' = [proposers EXCEPT ![n] = Restrict(@, Open(n) \ {s})]
  /\ UNCHANGED <<tocommit_values, tocommit_clients, max_slot, proposed>>

\* Another value took the slot: this one is proposed again in a new slot, under
\* the name of the message that is being handled.
Recommit(n, s) ==
  LET p == proposers[n][s] IN
  /\ Chosen(n, s)
  /\ ~ HasOwnValue(n, s)
  /\ NewSlot(n, Info(p.init_value, DataName, p.try_time + 1), Open(n) \ {s})
  /\ UNCHANGED <<tocommit_values, tocommit_clients>>

----------------------------------------------------------------------------
\* Learning from others, in a thread that is not in a CHOOSE case

Received(msg) ==
  /\ Works(msg.to)
  /\ Idle(msg.to)
  /\ UNCHANGED <<work, proposers, tocommit_values, tocommit_clients, max_slot,
                 choosing, decided, proposed, committed, informed>>

Known(n, s) == chosen_values[n][s] # NULL

\* Mutant: the own acceptor's value is taken without comparing its id.
BugRecvDecide(msg) ==
  LET n == msg.to IN
  /\ msg.type = "DECIDE"
  /\ Received(msg)
  /\ net' = net \ {msg}
  /\ IF Known(n, msg.slot)
       THEN UNCHANGED <<chosen_values, called>>
       ELSE \E v \in proposed[msg.slot] : add_chosen_value(n, msg.slot, v)

\* case DECIDE: ignored, or the value is the one of the own acceptor, or it is
\* asked for.  What the own acceptor holds is left open here.
RecvDecide(msg) ==
  LET n == msg.to IN
  /\ msg.type = "DECIDE"
  /\ Received(msg)
  /\ \/ /\ Known(n, msg.slot)
        /\ net' = net \ {msg}
        /\ UNCHANGED <<chosen_values, called>>
     \/ /\ ~ Known(n, msg.slot)
        /\ net' = net \ {msg}
        /\ add_chosen_value(n, msg.slot, msg.value)
     \/ /\ ~ Known(n, msg.slot)
        /\ net' = (net \ {msg})
                    \cup {Message("LEARN", n, msg.from, msg.slot, NULL)}
        /\ UNCHANGED <<chosen_values, called>>

\* Mutant: the request is not answered.
BugRecvLearn(msg) ==
  /\ msg.type = "LEARN"
  /\ Received(msg)
  /\ net' = net \ {msg}
  /\ UNCHANGED <<chosen_values, called>>

\* case LEARN: the asking node is taught; a node asks only one that has chosen.
RecvLearn(msg) ==
  LET n == msg.to IN
  /\ msg.type = "LEARN"
  /\ Received(msg)
  /\ net' = (net \ {msg})
              \cup {Message("TEACH", n, msg.from, msg.slot, v) :
                      v \in {chosen_values[n][msg.slot]} \ {NULL}}
  /\ UNCHANGED <<chosen_values, called>>

\* case TEACH
RecvTeach(msg) ==
  /\ msg.type = "TEACH"
  /\ Received(msg)
  /\ net' = net \ {msg}
  /\ \/ /\ Known(msg.to, msg.slot)
        /\ UNCHANGED <<chosen_values, called>>
     \/ /\ ~ Known(msg.to, msg.slot)
        /\ add_chosen_value(msg.to, msg.slot, msg.value)

Recv(msg) == RecvDecide(msg) \/ RecvLearn(msg) \/ RecvTeach(msg)

\* crash: no message is handled any more; commit does not look at work_.
Crash(n) ==
  /\ Works(n)
  /\ n \in MayCrash
  /\ work' = [work EXCEPT ![n] = FALSE]
  /\ UNCHANGED <<proposers, tocommit_values, tocommit_clients, max_slot,
                 chosen_values, choosing, called, net, decided, proposed,
                 committed, informed>>

EndChoose(n, s) == Finish(n, s) \/ StartNext(n, s) \/ Recommit(n, s)

Next ==
  \/ \E n \in Nodes, v \in Values : Commit(n, v)
  \/ \E s \in Slots : Decide(s)
  \/ \E n \in Nodes, s \in Slots : Choose(n, s) \/ EndChoose(n, s)
  \/ \E n \in Nodes : Crash(n)
  \/ \E msg \in net : Recv(msg)

Spec == Init /\ [][Next]_vars

Progress ==
  \/ \E s \in Slots : Decide(s)
  \/ \E n \in Nodes, s \in Slots : Choose(n, s) \/ EndChoose(n, s)
  \/ \E msg \in net : Recv(msg)

\* Slots that were started come to an end, the event loops keep running, and the
\* network loses nothing: as long as one of them can go on, one of them does.
\* Nothing is assumed of Commit, and only commits could keep the others going.
LiveSpec == Spec /\ WF_vars(Progress)

----------------------------------------------------------------------------
\* Properties

ValuesOrNull == Values \cup {NULL}

Names == Clients \cup {NULL, DataName}

Infos == [init_value : Values, client_name : Names, try_time : Nat]

\* Every variable holds what the code can put there.
TypeOK ==
  /\ work \in [Nodes -> BOOLEAN]
  /\ DOMAIN proposers = Nodes
  /\ \A n \in Nodes : /\ Open(n) \subseteq 1 .. max_slot[n]
                      /\ proposers[n] \in [Open(n) -> Infos]
  /\ tocommit_values \in [Nodes -> Seq(Values)]
  /\ tocommit_clients \in [Nodes -> Seq(Names)]
  /\ max_slot \in [Nodes -> 0 .. MaxSlot]
  /\ chosen_values \in [Nodes -> [Slots -> ValuesOrNull]]
  /\ choosing \in [Nodes -> SUBSET Slots]
  /\ \A n \in Nodes : choosing[n] \subseteq Open(n)
  /\ called \in [Nodes -> Seq(Values)]
  /\ \A n \in Nodes : Len(called[n]) <= MaxSlot
  /\ net \subseteq [ type : {"DECIDE", "LEARN", "TEACH"}, from : Nodes,
                     to : Nodes, slot : Slots, value : ValuesOrNull ]
  /\ decided \in [Slots -> ValuesOrNull]
  /\ proposed \in [Slots -> SUBSET Values]
  /\ committed \in [Nodes -> Seq(Values)]
  /\ informed \subseteq [slot : Slots, client : Names, try_time : Nat]

\* proposers_ never exceeds the window, whatever mixture of commits, ends of
\* slots and retries there is, and a value waits only while the window is full:
\* the test at the head of commit, and taking from the queue inside commit with
\* its assignment to dataName, are for cases that do not occur.
WindowRespected ==
  \A n \in Nodes :
    /\ Cardinality(Open(n)) <= WindowSize[n]
    /\ tocommit_values[n] # <<>> => WindowFull(n)

\* Values are started in the order in which they were committed: what waits is
\* always the last part of what was committed; and the two queues stay aligned.
QueueInOrder ==
  \A n \in Nodes :
    LET values  == tocommit_values[n]
        started == Len(committed[n]) - Len(values)
    IN  /\ started >= 0
        /\ Len(tocommit_clients[n]) = Len(values)
        /\ \A i \in DOMAIN values :
             /\ values[i] = committed[n][started + i]
             /\ tocommit_clients[n][i] = ClientName(values[i])

\* No value is chosen in two slots, although a value that lost its slot is
\* proposed again, and its rival may have adopted it.
ChosenOnce ==
  \A s, t \in Slots : decided[s] # NULL /\ decided[s] = decided[t] => s = t

IsWaiting(n, v) == \E i \in DOMAIN tocommit_values[n] : tocommit_values[n][i] = v

OpenWith(n, v) == {s \in Open(n) : proposers[n][s].init_value = v}

\* A committed value is in exactly one place: it waits, or it is proposed in one
\* slot, or its node has recorded it as chosen.
NothingForgotten ==
  \A n \in Nodes : \A i \in DOMAIN committed[n] :
    LET v == committed[n][i] IN
    \/ IsWaiting(n, v) /\ OpenWith(n, v) = {}
    \/ ~ IsWaiting(n, v) /\ \E s \in Slots : OpenWith(n, v) = {s}
    \/ /\ ~ IsWaiting(n, v)
       /\ OpenWith(n, v) = {}
       /\ \E s \in Slots : chosen_values[n][s] = v

\* The callbacks of a node are the values of the slots 1, 2, ... without a gap,
\* each once, and none is held back: the next slot has no value yet.  Nodes
\* learn slots in any order, and from messages of two masters.
CallbacksInOrder ==
  \A n \in Nodes :
    /\ Gapless(chosen_values[n], Len(called[n]))
    /\ \A i \in DOMAIN called[n] : called[n][i] = decided[i]

\* A client is told of the slot that holds its value, and of one slot only.  (A
\* client whose value lost a slot is not told at all.)
AnswersTrue ==
  /\ \A a \in informed : a.client \in Clients => decided[a.slot] = a.client
  /\ \A a, b \in informed : a.client \in Clients /\ a.client = b.client => a = b

\* What was committed at a working node is recorded there as chosen, and if no
\* node has stopped, every other node has made the callbacks of all slots.
Settled ==
  /\ \A n \in Nodes :
       Works(n) => \A i \in DOMAIN committed[n] :
                     \E s \in Slots : chosen_values[n][s] = committed[n][i]
  /\ \/ \E n \in Nodes : ~ Works(n)
     \/ \A s \in Slots, n \in Listeners : decided[s] # NULL => Len(called[n]) >= s

\* A value is not retried for ever and no hole stays: everything settles again
\* after each commit, if the slots come to an end and no message is lost.
AlwaysSettles == []<>Settled
=============================================================================
