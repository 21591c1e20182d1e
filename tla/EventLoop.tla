----------------------------- MODULE EventLoop -----------------------------
(***************************************************************************)
(* The event loop (src/src/event_loop/EventLoop.cpp): one thread runs      *)
(* EventLoopImpl::run, any thread may call addEvent, delEvent, sendMessage *)
(* and stop, and a handler, which run calls after it has released the      *)
(* mutex, may call them too.                                               *)
(*                                                                         *)
(* A registration is a record [rid, type, conn]; rid, its number in the    *)
(* order of insertion, stands for the container's node, and End for the    *)
(* past-the-end iterator.  events_map is the list of nodes behind MSVC's   *)
(* unordered_multimap: nodes of one type are adjacent, a node whose type   *)
(* is present goes after the last of them, and the place of a new type     *)
(* depends on the hash, so it is any place between two types.              *)
(***************************************************************************)
EXTENDS Naturals, Sequences, FiniteSets, SequencesExt

CONSTANTS Clients,        \* threads that call the loop from outside
          LoopThread,     \* the thread that calls run()
          NoThread,
          EventTypes,     \* the strings used as event and message types
          Conns,          \* registrar ids; 0 is a direct use of EventLoop
          Ops,            \* the operations the callers use
          MaxCalls,       \* bound: how many calls are made in all
          Buckets,        \* nodes the hash table takes before it reallocates
          GrowthFactor    \* by how much the table grows

ASSUME ThreadAssumption ==
  /\ IsFiniteSet(Clients)
  /\ LoopThread \notin Clients
  /\ NoThread \notin Clients \cup {LoopThread}

ASSUME SizeAssumption ==
  /\ MaxCalls \in Nat
  /\ Buckets \in Nat \ {0}
  /\ GrowthFactor \in Nat \ {0, 1}

ASSUME OpAssumption ==
  /\ Ops \subseteq {"addEvent", "addTimer", "delEvent", "send", "stop"}
  /\ Conns \subseteq Nat
  /\ 0 \in Conns

Threads == Clients \cup {LoopThread}
Rids == 1..MaxCalls
End == 0
Registration == [rid : Rids, type : EventTypes, conn : Conns]
Message == [id : Rids, type : EventTypes]
NoMessage == [id |-> 0]
NoCall == [op |-> "none"]

\* A call of the interface; sendMessage has no registrar.
Call == {c \in [op : Ops \ {"stop"}, type : EventTypes, conn : Conns] :
           c.op = "send" => c.conn = 0}

LoopPcs == {"off", "enter", "check", "lockCycle", "scan", "execTimer",
            "relockTimer", "poll", "walk", "execEvent", "relockEvent",
            "undefined"}

VARIABLES
  owner, depth,   \* mutex_global
  events,         \* events_map, in iteration order
  buckets,        \* its bucket count
  timers,         \* time_events
  rung,           \* the timers whose isRang() answers true
  queue,          \* the message queue
  isRun,
  pc,             \* where run() is
  itr,            \* the iterator of its two loops (End: before the first timer)
  last,           \* elist.second
  wild,           \* an iterator run() still uses has been invalidated
  msg,            \* the message it dispatches
  step, call,     \* per thread: its progress in a call of the interface
  calls,          \* how many calls have been made
  serial,         \* the last number given to a node or a message
  owed,           \* history: handlers of msg.type when msg was taken
  ran,            \* history: the handlers run for msg, in order
  takenAt,        \* history: serial when msg was taken
  stopped         \* history: stop() was called since run() began

lockVars == <<owner, depth>>
mapVars == <<events, buckets, timers>>
loopVars == <<itr, last, msg>>
history == <<owed, ran, takenAt, stopped>>
callVars == <<step, call, calls, serial>>
vars == <<lockVars, mapVars, rung, queue, isRun, pc, loopVars, wild, callVars,
          history>>

Mtx == INSTANCE Mutex

NodeRids(s) == {s[i].rid : i \in DOMAIN s}
InTimer == pc \in {"execTimer", "relockTimer"}
InEvent == pc \in {"execEvent", "relockEvent"}
Executing == pc \in {"execTimer", "execEvent"}

-----------------------------------------------------------------------------
(* The containers.                                                         *)

RidAt(s, I) == IF I = {} THEN End ELSE s[CHOOSE i \in I : TRUE].rid

\* equal_range(type).first, equal_range(type).second and ++itr
First(s, type) == RidAt(s, {i \in DOMAIN s : /\ s[i].type = type
                                             /\ \A j \in 1..(i - 1) : s[j].type # type})
MutantPastLast(s, type) ==  \* the range ends behind its first node
  RidAt(s, {i \in 2..Len(s) : s[i - 1].type = type})
MutantToEnd(s, type) == End  \* itr != events_map.end()
PastLast(s, type) == RidAt(s, {i \in 2..Len(s) : s[i - 1].type = type /\ s[i].type # type})
Successor(s, rid) == RidAt(s, {i \in 2..Len(s) : s[i - 1].rid = rid})

\* Where events_map.insert may put a node of this type.
InsertPoints(s, type) ==
  {i \in 1..(Len(s) + 1) :
     IF \E j \in DOMAIN s : s[j].type = type
     THEN i > 1 /\ s[i - 1].type = type /\ (i > Len(s) \/ s[i].type # type)
     ELSE i \in {1, Len(s) + 1} \/ s[i - 1].type # s[i].type}

\* The node the two loops of delEvent erase: the first that matches.
Matches(s, type, conn) ==
  {i \in DOMAIN s : s[i].type = type /\ s[i].conn = conn}
FirstMatch(s, type, conn) ==
  {i \in Matches(s, type, conn) : \A j \in Matches(s, type, conn) : i <= j}
Erase(s, type, conn) ==
  LET I == FirstMatch(s, type, conn)
  IN  IF I = {} THEN s ELSE RemoveAt(s, CHOOSE i \in I : TRUE)
ErasedRid(s, type, conn) == RidAt(s, FirstMatch(s, type, conn))

-----------------------------------------------------------------------------
DataType ==
  /\ events \in Seq(Registration) /\ timers \in Seq(Registration)
  /\ buckets \in Nat
  /\ rung \subseteq Rids
  /\ queue \in Seq(Message)

LoopType ==
  /\ pc \in LoopPcs
  /\ isRun \in BOOLEAN /\ wild \in BOOLEAN
  /\ itr \in Rids \cup {End} /\ last \in Rids \cup {End}
  /\ msg \in Message \cup {NoMessage}

CallType ==
  /\ step \in [Threads -> {"idle", "wait", "hold"}]
  /\ call \in [Threads -> Call \cup {NoCall}]
  /\ calls \in 0..MaxCalls /\ serial \in 0..MaxCalls

HistoryType ==
  /\ owed \subseteq Registration
  /\ ran \in Seq(Registration) /\ takenAt \in 0..MaxCalls
  /\ stopped \in BOOLEAN

TypeOK == Mtx!TypeOK /\ DataType /\ LoopType /\ CallType /\ HistoryType

Init ==
  /\ Mtx!Init
  /\ events = <<>> /\ buckets = Buckets /\ timers = <<>>
  /\ rung = {}
  /\ queue = <<>>
  /\ isRun = FALSE
  /\ pc = "off"
  /\ itr = End /\ last = End /\ wild = FALSE
  /\ msg = NoMessage
  /\ step = [t \in Threads |-> "idle"]
  /\ call = [t \in Threads |-> NoCall]
  /\ calls = 0 /\ serial = 0
  /\ owed = {} /\ ran = <<>> /\ takenAt = 0 /\ stopped = FALSE

-----------------------------------------------------------------------------
(* The interface.  A client calls at any time, a handler while run()       *)
(* executes it.                                                            *)

MayCall(t) == step[t] = "idle" /\ (t = LoopThread => Executing)

MakeCall(t) ==
  /\ MayCall(t)
  /\ calls < MaxCalls
  /\ calls' = calls + 1
  /\ \E c \in Call : call' = [call EXCEPT ![t] = c]
  /\ step' = [step EXCEPT ![t] = "wait"]
  /\ UNCHANGED <<lockVars, mapVars, rung, queue, isRun, pc, loopVars, wild,
                 serial, history>>

\* mutex_global.lock() at the head of an operation returns.
Acquire(t) ==
  /\ step[t] = "wait"
  /\ Mtx!Lock(t)
  /\ step' = [step EXCEPT ![t] = "hold"]
  /\ UNCHANGED <<mapVars, rung, queue, isRun, pc, loopVars, wild, call, calls,
                 serial, history>>

MutantFinish(t, op) ==  \* delEvent returns without release()
  /\ step[t] = "hold"
  /\ call[t].op = op
  /\ IF op = "delEvent" THEN UNCHANGED lockVars ELSE Mtx!Release(t)
  /\ step' = [step EXCEPT ![t] = "idle"]
  /\ call' = [call EXCEPT ![t] = NoCall]
  /\ UNCHANGED <<rung, isRun, pc, loopVars, calls, history>>

\* The rest of an operation: nobody else sees the containers until release().
Finish(t, op) ==
  /\ step[t] = "hold"
  /\ call[t].op = op
  /\ Mtx!Release(t)
  /\ step' = [step EXCEPT ![t] = "idle"]
  /\ call' = [call EXCEPT ![t] = NoCall]
  /\ UNCHANGED <<rung, isRun, pc, loopVars, calls, history>>

MutantNewNode(c) == [rid |-> serial + 1, type |-> c.conn, conn |-> c.type]  \* swapped
NewNode(c) == [rid |-> serial + 1, type |-> c.type, conn |-> c.conn]

\* insert first reallocates a full table, which invalidates the iterators.
AddEvent(t) ==
  /\ Finish(t, "addEvent")
  /\ LET full == Len(events) + 1 > buckets
     IN  /\ buckets' = IF full THEN GrowthFactor * buckets ELSE buckets
         /\ wild' = (wild \/ (full /\ InEvent))
  /\ \E i \in InsertPoints(events, call[t].type) :
       events' = InsertAt(events, i, NewNode(call[t]))
  /\ serial' = serial + 1
  /\ UNCHANGED <<timers, queue>>

AddTimer(t) ==
  /\ Finish(t, "addTimer")
  /\ timers' = Append(timers, NewNode(call[t]))
  /\ serial' = serial + 1
  /\ UNCHANGED <<events, buckets, queue, wild>>

\* Erasing a node invalidates the iterators to it, run()'s too.
DelEvent(t) ==
  /\ Finish(t, "delEvent")
  /\ LET c == call[t]
         node == ErasedRid(events, c.type, c.conn)
         timer == ErasedRid(timers, c.type, c.conn)
     IN  /\ timers' = Erase(timers, c.type, c.conn)
         /\ events' = Erase(events, c.type, c.conn)
         /\ wild' = \/ wild
                    \/ InTimer /\ timer = itr
                    \/ InEvent /\ node \in {itr, last} \ {End}
  /\ UNCHANGED <<buckets, queue, serial>>

SendMessage(t) ==
  /\ Finish(t, "send")
  /\ queue' = Append(queue, [id |-> serial + 1, type |-> call[t].type])
  /\ serial' = serial + 1
  /\ UNCHANGED <<mapVars, wild>>

\* stop() takes no lock.
Stop(t) ==
  /\ "stop" \in Ops
  /\ MayCall(t)
  /\ isRun' = FALSE
  /\ stopped' = (pc # "off")
  /\ UNCHANGED <<lockVars, mapVars, rung, queue, pc, loopVars, wild, callVars,
                 owed, ran, takenAt>>

\* A timer's time comes; isRang() answers true from then on.
TimerRings(r) ==
  /\ r \in NodeRids(timers) \ rung
  /\ rung' = rung \cup {r}
  /\ UNCHANGED <<lockVars, mapVars, queue, isRun, pc, loopVars, wild, callVars,
                 history>>

-----------------------------------------------------------------------------
(* run().                                                                  *)

LoopFrame == UNCHANGED <<mapVars, rung, queue, callVars>>

CallRun ==
  /\ pc = "off"
  /\ pc' = "enter"
  /\ stopped' = FALSE
  /\ UNCHANGED <<lockVars, isRun, loopVars, wild, owed, ran, takenAt>>
  /\ LoopFrame

EnterRun ==
  /\ pc = "enter"
  /\ isRun' = TRUE
  /\ pc' = "check"
  /\ UNCHANGED <<lockVars, loopVars, wild, history>>
  /\ LoopFrame

MutantCheckRunning ==  \* the timers keep the loop alive
  /\ pc = "check"
  /\ pc' = IF isRun \/ timers # <<>> THEN "lockCycle" ELSE "off"
  /\ UNCHANGED <<lockVars, isRun, loopVars, wild, history>>
  /\ LoopFrame

\* while (isRun)
CheckRunning ==
  /\ pc = "check"
  /\ pc' = IF isRun THEN "lockCycle" ELSE "off"
  /\ UNCHANGED <<lockVars, isRun, loopVars, wild, history>>
  /\ LoopFrame

LockCycle ==
  /\ pc = "lockCycle"
  /\ Mtx!Lock(LoopThread)
  /\ pc' = "scan"
  /\ UNCHANGED <<isRun, loopVars, wild, history>>
  /\ LoopFrame

\* The rung timers behind the iterator, and the first of them: run() steps
\* over the others.
Due == {i \in DOMAIN timers :
          /\ timers[i].rid \in rung
          /\ itr = End \/ \E j \in 1..(i - 1) : timers[j].rid = itr}
NextDue == {i \in Due : \A j \in Due : i <= j}

MutantRunTimer ==  \* the handler runs under the mutex
  /\ pc = "scan"
  /\ \E i \in NextDue : itr' = timers[i].rid
  /\ pc' = "execTimer"
  /\ UNCHANGED <<lockVars, isRun, last, msg, wild, history>>
  /\ LoopFrame

RunTimer ==
  /\ pc = "scan"
  /\ \E i \in NextDue : itr' = timers[i].rid
  /\ Mtx!Release(LoopThread)
  /\ pc' = "execTimer"
  /\ UNCHANGED <<isRun, last, msg, wild, history>>
  /\ LoopFrame

TimersDone ==
  /\ pc = "scan"
  /\ Due = {}
  /\ itr' = End
  /\ pc' = "poll"
  /\ UNCHANGED <<lockVars, isRun, last, msg, wild, history>>
  /\ LoopFrame

\* execute() returns, of a timer's event or of a message's.
HandlerReturns ==
  /\ step[LoopThread] = "idle"
  /\ \/ pc = "execTimer" /\ pc' = "relockTimer"
     \/ pc = "execEvent" /\ pc' = "relockEvent"
  /\ UNCHANGED <<lockVars, isRun, loopVars, wild, history>>
  /\ LoopFrame

MutantRelockTimer ==  \* after a handler the scan starts again
  /\ pc = "relockTimer"
  /\ Mtx!Lock(LoopThread)
  /\ pc' = "scan"
  /\ itr' = End
  /\ UNCHANGED <<isRun, last, msg, wild, history>>
  /\ LoopFrame

RelockTimer ==
  /\ pc = "relockTimer"
  /\ Mtx!Lock(LoopThread)
  /\ pc' = IF wild THEN "undefined" ELSE "scan"
  /\ UNCHANGED <<isRun, loopVars, wild, history>>
  /\ LoopFrame

QueueEmpty ==
  /\ pc = "poll"
  /\ queue = <<>>
  /\ Mtx!Release(LoopThread)
  /\ pc' = "check"
  /\ UNCHANGED <<isRun, loopVars, wild, history>>
  /\ LoopFrame

MutantTakeMessage ==  \* front() without pop()
  /\ pc = "poll"
  /\ queue # <<>>
  /\ msg' = Head(queue)
  /\ itr' = First(events, Head(queue).type)
  /\ last' = PastLast(events, Head(queue).type)
  /\ owed' = {r \in ToSet(events) : r.type = Head(queue).type}
  /\ ran' = <<>> /\ takenAt' = serial
  /\ pc' = "walk"
  /\ UNCHANGED <<lockVars, mapVars, rung, queue, isRun, wild, callVars, stopped>>

TakeMessage ==
  /\ pc = "poll"
  /\ queue # <<>>
  /\ msg' = Head(queue)
  /\ queue' = Tail(queue)
  /\ itr' = First(events, Head(queue).type)
  /\ last' = PastLast(events, Head(queue).type)
  /\ owed' = {r \in ToSet(events) : r.type = Head(queue).type}
  /\ ran' = <<>> /\ takenAt' = serial
  /\ pc' = "walk"
  /\ UNCHANGED <<lockVars, mapVars, rung, isRun, wild, callVars, stopped>>

\* itr != elist.second: release, and itr->second.event.execute(message) begins.
RunHandler ==
  /\ pc = "walk"
  /\ itr # last
  /\ \E i \in DOMAIN events : events[i].rid = itr /\ ran' = Append(ran, events[i])
  /\ Mtx!Release(LoopThread)
  /\ pc' = "execEvent"
  /\ UNCHANGED <<isRun, loopVars, wild, owed, takenAt, stopped>>
  /\ LoopFrame

MutantRelockEvent ==  \* the iterator goes back to the first handler
  /\ pc = "relockEvent"
  /\ Mtx!Lock(LoopThread)
  /\ IF wild
     THEN pc' = "undefined" /\ UNCHANGED itr
     ELSE pc' = "walk" /\ itr' = First(events, msg.type)
  /\ UNCHANGED <<isRun, last, msg, wild, history>>
  /\ LoopFrame

\* lock, then itr++.
RelockEvent ==
  /\ pc = "relockEvent"
  /\ Mtx!Lock(LoopThread)
  /\ IF wild
     THEN pc' = "undefined" /\ UNCHANGED itr
     ELSE pc' = "walk" /\ itr' = Successor(events, itr)
  /\ UNCHANGED <<isRun, last, msg, wild, history>>
  /\ LoopFrame

MessageDone ==
  /\ pc = "walk"
  /\ itr = last
  /\ msg' = NoMessage /\ itr' = End /\ last' = End
  /\ owed' = {} /\ ran' = <<>> /\ takenAt' = 0
  /\ Mtx!Release(LoopThread)
  /\ pc' = "check"
  /\ UNCHANGED <<isRun, wild, stopped>>
  /\ LoopFrame

\* An invalid iterator was used: the program has no meaning any more.
Undefined == pc = "undefined" /\ UNCHANGED vars

-----------------------------------------------------------------------------
Operation(t) == AddEvent(t) \/ AddTimer(t) \/ DelEvent(t) \/ SendMessage(t)

LoopLocks == LockCycle \/ RelockTimer \/ RelockEvent
LoopMoves == \/ EnterRun \/ CheckRunning \/ RunTimer \/ TimersDone
             \/ HandlerReturns \/ QueueEmpty \/ TakeMessage \/ RunHandler
             \/ MessageDone

Next ==
  \/ \E t \in Threads : MakeCall(t) \/ Acquire(t) \/ Operation(t) \/ Stop(t)
  \/ \E r \in Rids : TimerRings(r)
  \/ CallRun \/ LoopLocks \/ LoopMoves \/ Undefined

Spec == Init /\ [][Next]_vars

(***************************************************************************)
(* Threads are scheduled and handlers return.  A thread that waits for the *)
(* mutex gets it although the loop takes it again and again: Windows hands *)
(* a released mutex to a thread in its queue of waiters.                   *)
(***************************************************************************)
Fairness ==
  /\ WF_vars(LoopMoves) /\ SF_vars(LoopLocks)
  /\ \A t \in Threads : SF_vars(Acquire(t)) /\ WF_vars(Operation(t))

FairSpec == Spec /\ Fairness

-----------------------------------------------------------------------------
(* Safety.                                                                 *)

(***************************************************************************)
(* mutex_global is held exactly where a thread is between lock() and       *)
(* release(), and never twice.  In particular run() holds nothing while a  *)
(* handler runs, so a handler may call the loop, and every release() is by *)
(* the owner, so none throws.                                              *)
(***************************************************************************)
LoopInside == pc \in {"scan", "poll", "walk", "undefined"}

MutexInv ==
  /\ \A t \in Clients : owner = t <=> step[t] = "hold"
  /\ owner = LoopThread <=> (LoopInside \/ step[LoopThread] = "hold")
  /\ ~(LoopInside /\ step[LoopThread] # "idle")
  /\ depth = IF owner = NoThread THEN 0 ELSE 1

\* When the loop leaves a message, every handler of its type that was
\* registered when the message was taken, and still is, has run, whatever was
\* added or reset by handlers and other threads in between.
DeliveredToAll ==
  pc = "walk" /\ itr = last => owed \cap ToSet(events) \subseteq ToSet(ran)

\* Handlers of one type run in the order they were added and none runs twice
\* for one message (EventLoop.h:71-72).
RegistrationOrder ==
  \A i, j \in DOMAIN ran :
    i < j /\ ran[i].type = ran[j].type => ran[i].rid < ran[j].rid

\* The iterators of run() stay valid while it executes a handler.
IteratorsValid == ~wild

\* A message goes to the handlers of its type (EventLoop.h:71, 84-86): one of another
\* type gets it only if it was registered after the message was taken, and so can have
\* come between the iterators that run() holds.
OwnTypeUnlessNewer ==
  \A i \in DOMAIN ran : ran[i].type = msg.type \/ ran[i].rid > takenAt

\* resetEvent leaves no handler of this type and this registrar
\* (EventLoop.h:52-53).
ResetRemovesAll ==
  [][\A t \in Threads : call[t].op = "delEvent" /\ step[t] = "hold" /\ step'[t] = "idle"
       => Matches(events', call[t].type, call[t].conn) = {}]_vars

\* What the loop promises to those who send and register: see Dispatcher.
Contract == INSTANCE Dispatcher WITH
  regs <- ToSet(events), pending <- queue, current <- msg,
  owed <- owed, served <- ToSet(ran)
ImplementsDispatcher == Contract!Spec

-----------------------------------------------------------------------------
(* Liveness, under FairSpec.                                               *)

Queued == {queue[i].id : i \in DOMAIN queue}

\* A message is not forgotten in the queue while the loop runs.
MessagesTaken ==
  \A m \in Rids : m \in Queued ~> m \notin Queued \/ pc \in {"off", "undefined"}

\* No caller waits for ever behind the loop's own use of the mutex, a handler
\* that calls the loop included.
CallsReturn == \A t \in Threads : step[t] = "wait" ~> step[t] = "idle" \/ pc = "undefined"

\* A loop that has seen the order to stop ends, with messages and timers left.
StopObeyed == ~isRun /\ pc \notin {"off", "enter"} ~> pc \in {"off", "undefined"}

\* stop() ends the loop that run() was called for (EventLoop.h:102).
StopTakesEffect == stopped /\ pc # "off" ~> pc \in {"off", "undefined"}
=============================================================================
