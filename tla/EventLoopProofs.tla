-------------------------- MODULE EventLoopProofs --------------------------
(***************************************************************************)
(* Proofs about EventLoop for every set of clients, types and registrars   *)
(* and every bound.                                                        *)
(*                                                                         *)
(* First the type invariant and the discipline of mutex_global.  Neither   *)
(* is inductive alone.  The steps that lock need to know that the loop's   *)
(* thread is not inside a call of its own when run() locks, the operations *)
(* that the call they complete is there, and the numbers they give that a  *)
(* number is left for each call under way.                                 *)
(*                                                                         *)
(* Then that the loop keeps what Dispatcher promises.  The heart is a      *)
(* statement about the two iterators of run().  While they are valid they  *)
(* have places p and q in events_map, and whatever handlers and other      *)
(* threads insert or erase meanwhile, every handler that is owed the       *)
(* message and has not run lies from p, or behind it when the handler at p *)
(* has just run, up to q; and what lies there is younger than the handlers *)
(* of its type that have run.  It rests on the shape of the container: the *)
(* nodes of one type are adjacent and in the order of their registration,  *)
(* which insert keeps by the place it chooses.                             *)
(***************************************************************************)
EXTENDS EventLoop, FiniteSetTheorems, SequenceTheorems, WellFoundedInduction, TLAPS

Busy == {t \in Threads : step[t] # "idle"}

\* The loop's thread calls the interface only from a handler.
LoopIdle == step[LoopThread] # "idle" => Executing

\* A thread inside a call has one to complete.
CallsPresent == \A t \in Threads : step[t] # "idle" => call[t] \in Call

\* There is a number left for the node or message of each call under way.
NumbersLeft == serial + Cardinality(Busy) <= calls

IInv == TypeOK /\ MutexInv /\ LoopIdle /\ CallsPresent /\ NumbersLeft

-----------------------------------------------------------------------------
(* The containers.                                                         *)

LEMMA ThreadsFinite == IsFiniteSet(Threads)
  BY ThreadAssumption, FS_AddElement DEF Threads

LEMMA RidAtType ==
  ASSUME NEW s \in Seq(Registration), NEW I, I \subseteq DOMAIN s
  PROVE  RidAt(s, I) \in Rids \cup {End}
<1>1. CASE I = {}
  BY <1>1 DEF RidAt
<1>2. CASE I # {}
  <2>1. (CHOOSE i \in I : TRUE) \in I
    BY <1>2
  <2>2. s[CHOOSE i \in I : TRUE] \in Registration
    BY <2>1
  <2> QED
    BY <1>2, <2>2 DEF RidAt, Registration
<1> QED BY <1>1, <1>2

LEMMA RemoveAtType ==
  ASSUME NEW s \in Seq(Registration), NEW k \in 1..Len(s)
  PROVE  RemoveAt(s, k) \in Seq(Registration)
<1>1. SubSeq(s, 1, k - 1) \in Seq(Registration) /\ SubSeq(s, k + 1, Len(s)) \in Seq(Registration)
  OBVIOUS
<1> QED BY <1>1 DEF RemoveAt

LEMMA EraseType ==
  ASSUME NEW s \in Seq(Registration), NEW type, NEW conn
  PROVE  Erase(s, type, conn) \in Seq(Registration)
<1> DEFINE I == FirstMatch(s, type, conn)
<1>1. I \subseteq 1..Len(s)
  BY DEF FirstMatch, Matches
<1>2. CASE I = {}
  BY <1>2 DEF Erase
<1>3. CASE I # {}
  <2>1. (CHOOSE i \in I : TRUE) \in 1..Len(s)
    BY <1>1, <1>3
  <2>2. RemoveAt(s, CHOOSE i \in I : TRUE) \in Seq(Registration)
    BY <2>1, RemoveAtType
  <2> QED BY <1>3, <2>2 DEF Erase
<1> QED BY <1>2, <1>3

LEMMA InsertAtType ==
  ASSUME NEW s \in Seq(Registration), NEW r \in Registration, NEW k \in 1..(Len(s) + 1)
  PROVE  InsertAt(s, k, r) \in Seq(Registration)
<1>1. SubSeq(s, 1, k - 1) \in Seq(Registration) /\ SubSeq(s, k, Len(s)) \in Seq(Registration)
  OBVIOUS
<1> QED BY <1>1 DEF InsertAt

LEMMA FirstType ==
  ASSUME NEW s \in Seq(Registration), NEW type
  PROVE  First(s, type) \in Rids \cup {End} /\ PastLast(s, type) \in Rids \cup {End}
  BY RidAtType DEF First, PastLast

LEMMA SuccessorType ==
  ASSUME NEW s \in Seq(Registration), NEW rid
  PROVE  Successor(s, rid) \in Rids \cup {End}
  BY RidAtType DEF Successor

-----------------------------------------------------------------------------
(* The number of threads inside a call.                                    *)

LEMMA BusyFinite == IsFiniteSet(Busy) /\ Cardinality(Busy) \in Nat
  BY ThreadsFinite, FS_Subset, FS_CardinalityType DEF Busy

LEMMA OneMoreBusy ==
  ASSUME CallType, NEW t \in Threads, step[t] = "idle",
         step' = [step EXCEPT ![t] = "wait"]
  PROVE  Cardinality(Busy') = Cardinality(Busy) + 1
<1>1. Busy' = Busy \cup {t} /\ t \notin Busy
  BY DEF Busy, CallType
<1> QED BY <1>1, BusyFinite, FS_AddElement

LEMMA OneLessBusy ==
  ASSUME CallType, NEW t \in Threads, step[t] = "hold",
         step' = [step EXCEPT ![t] = "idle"]
  PROVE  Cardinality(Busy') = Cardinality(Busy) - 1
<1>1. Busy' = Busy \ {t} /\ t \in Busy
  BY DEF Busy, CallType
<1> QED BY <1>1, BusyFinite, FS_RemoveElement

-----------------------------------------------------------------------------
LEMMA InitIInv == Init => IInv
<1> SUFFICES ASSUME Init PROVE IInv
  OBVIOUS
<1> USE DEF Init
<1>1. Busy = {} /\ Cardinality({}) = 0
  BY FS_EmptySet DEF Busy
<1>2. /\ Mtx!TypeOK
      /\ DataType
      /\ HistoryType
  <2>1. Mtx!TypeOK
    BY DEF Mtx!Init, Mtx!TypeOK
  <2>2. DataType
    BY SizeAssumption DEF DataType
  <2>3. HistoryType
    <3>1. owed \subseteq Registration /\ ran \in Seq(Registration)
      OBVIOUS
    <3>2. stopped \in BOOLEAN
      OBVIOUS
    <3>3. takenAt \in 0..MaxCalls
      BY SizeAssumption
    <3> QED BY <3>1, <3>2, <3>3 DEF HistoryType
  <2> QED BY <2>1, <2>2, <2>3
<1>3. LoopType
  BY DEF LoopType, LoopPcs
<1>4. CallType
  BY SizeAssumption DEF CallType
<1>5. MutexInv
  BY ThreadAssumption DEF MutexInv, Mtx!Init, LoopInside, Threads
<1> QED
  BY <1>1, <1>2, <1>3, <1>4, <1>5, SizeAssumption
     DEF TypeOK, IInv, LoopIdle, CallsPresent, NumbersLeft, Threads

(***************************************************************************)
(* A call begins: only the caller's own progress changes.                  *)
(***************************************************************************)
LEMMA MakeCallIInv ==
  ASSUME IInv, NEW t \in Threads, MakeCall(t)
  PROVE  IInv'
<1> USE DEF IInv, TypeOK, MakeCall, MayCall
<1>1. Mtx!TypeOK' /\ DataType' /\ LoopType' /\ HistoryType'
  BY DEF Mtx!TypeOK, DataType, LoopType, HistoryType, lockVars, mapVars, loopVars, history
<1>2. CallType'
  BY SizeAssumption DEF CallType
<1>3. MutexInv'
  BY ThreadAssumption DEF MutexInv, CallType, LoopInside, Executing, Threads, lockVars
<1>4. LoopIdle' /\ CallsPresent'
  BY DEF LoopIdle, CallsPresent, CallType, Executing, Threads
<1>5. NumbersLeft'
  <2>1. Cardinality(Busy') = Cardinality(Busy) + 1
    BY OneMoreBusy
  <2> QED BY <2>1, BusyFinite DEF NumbersLeft, CallType
<1> QED BY <1>1, <1>2, <1>3, <1>4, <1>5

(***************************************************************************)
(* The mutex is free or the caller's, and the caller has not locked it.    *)
(***************************************************************************)
LEMMA AcquireIInv ==
  ASSUME IInv, NEW t \in Threads, Acquire(t)
  PROVE  IInv'
<1> USE DEF IInv, TypeOK, Acquire
<1>1. Mtx!TypeOK' /\ DataType' /\ LoopType' /\ HistoryType'
  BY DEF Mtx!TypeOK, Mtx!Lock, DataType, LoopType, HistoryType, mapVars, loopVars, history
<1>2. CallType'
  BY DEF CallType
<1>3. MutexInv'
  BY ThreadAssumption
     DEF MutexInv, CallType, Mtx!Lock, Mtx!TypeOK, LoopInside, LoopIdle, Executing, Threads
<1>4. LoopIdle' /\ CallsPresent'
  BY DEF LoopIdle, CallsPresent, CallType, Executing, Threads
<1>5. Busy' = Busy
  BY DEF Busy, CallType
<1>6. NumbersLeft'
  BY <1>5 DEF NumbersLeft
<1> QED BY <1>1, <1>2, <1>3, <1>4, <1>6

(***************************************************************************)
(* What the end of every operation does, whichever it is.                  *)
(***************************************************************************)
LEMMA FinishFacts ==
  ASSUME IInv, NEW t \in Threads, NEW op, Finish(t, op)
  PROVE  /\ Mtx!TypeOK' /\ HistoryType'
         /\ MutexInv' /\ LoopIdle' /\ CallsPresent'
         /\ call[t] \in Call
         /\ serial + 1 \in Rids
         /\ serial' \in {serial, serial + 1} => CallType' /\ NumbersLeft'
<1> USE DEF IInv, TypeOK, Finish
<1>1. owner = t /\ depth = 1
  <2>1. owner = t
    BY DEF Mtx!Release
  <2>2. t # NoThread
    BY ThreadAssumption DEF Threads
  <2> QED BY <2>1, <2>2 DEF MutexInv
<1>2. owner' = NoThread /\ depth' = 0
  BY <1>1 DEF Mtx!Release
<1>3. Mtx!TypeOK' /\ HistoryType'
  BY <1>2 DEF Mtx!TypeOK, HistoryType, history
<1>4. /\ step' \in [Threads -> {"idle", "wait", "hold"}]
      /\ call' \in [Threads -> Call \cup {NoCall}]
  BY DEF CallType
<1>5. MutexInv'
  BY <1>1, <1>2, ThreadAssumption DEF MutexInv, CallType, LoopInside, Threads
<1>6. LoopIdle' /\ CallsPresent'
  BY DEF LoopIdle, CallsPresent, CallType, Executing, Threads
<1>7. call[t] \in Call
  BY DEF CallsPresent
<1>8. /\ serial + 1 \in Rids
      /\ Cardinality(Busy') \in Nat
      /\ serial + 1 + Cardinality(Busy') <= calls
  <2>1. t \in Busy
    BY DEF Busy
  <2>2. Cardinality(Busy) >= 1
    BY <2>1, BusyFinite, FS_EmptySet
  <2>3. Cardinality(Busy') = Cardinality(Busy) - 1
    BY OneLessBusy
  <2> QED BY <2>2, <2>3, BusyFinite, SizeAssumption DEF NumbersLeft, CallType, Rids
<1>9. ASSUME serial' \in {serial, serial + 1} PROVE CallType' /\ NumbersLeft'
  <2>1. calls' = calls /\ serial' \in 0..MaxCalls
    BY <1>8, <1>9, SizeAssumption DEF CallType, Rids
  <2>2. CallType'
    BY <1>4, <2>1 DEF CallType
  <2>3. NumbersLeft'
    BY <1>8, <1>9, <2>1 DEF NumbersLeft, CallType
  <2> QED BY <2>2, <2>3
<1> QED BY <1>3, <1>5, <1>6, <1>7, <1>8, <1>9

LEMMA NewNodeType ==
  ASSUME serial + 1 \in Rids, NEW c \in Call
  PROVE  NewNode(c) \in Registration
  BY DEF NewNode, Registration, Call

LEMMA AddEventIInv ==
  ASSUME IInv, NEW t \in Threads, AddEvent(t)
  PROVE  IInv'
<1> USE DEF IInv, TypeOK, AddEvent
<1>1. Finish(t, "addEvent")
  OBVIOUS
<1>2. NewNode(call[t]) \in Registration
  BY <1>1, FinishFacts, NewNodeType
<1>3. events' \in Seq(Registration)
  <2>1. PICK i \in InsertPoints(events, call[t].type) : events' = InsertAt(events, i, NewNode(call[t]))
    OBVIOUS
  <2>2. i \in 1..(Len(events) + 1) /\ events \in Seq(Registration)
    BY DEF InsertPoints, DataType
  <2> QED BY <1>2, <2>1, <2>2, InsertAtType
<1>4. buckets' \in Nat
  BY SizeAssumption DEF DataType
<1>5. DataType'
  BY <1>3, <1>4, <1>1 DEF DataType, Finish
<1>6. wild' \in BOOLEAN
  BY Zenon
<1>7. LoopType'
  BY <1>6, <1>1 DEF LoopType, Finish, loopVars
<1>8. CallType' /\ NumbersLeft'
  BY <1>1, FinishFacts
<1> QED BY <1>1, <1>5, <1>7, <1>8, FinishFacts

LEMMA AddTimerIInv ==
  ASSUME IInv, NEW t \in Threads, AddTimer(t)
  PROVE  IInv'
<1> USE DEF IInv, TypeOK, AddTimer
<1>1. Finish(t, "addTimer")
  OBVIOUS
<1>2. NewNode(call[t]) \in Registration
  BY <1>1, FinishFacts, NewNodeType
<1>3. DataType'
  BY <1>1, <1>2 DEF DataType, Finish
<1>4. LoopType'
  BY <1>1 DEF LoopType, Finish, loopVars
<1>5. CallType' /\ NumbersLeft'
  BY <1>1, FinishFacts
<1> QED BY <1>1, <1>3, <1>4, <1>5, FinishFacts

LEMMA DelEventIInv ==
  ASSUME IInv, NEW t \in Threads, DelEvent(t)
  PROVE  IInv'
<1> USE DEF IInv, TypeOK, DelEvent
<1>1. Finish(t, "delEvent")
  OBVIOUS
<1>2. DataType'
  BY <1>1, EraseType DEF DataType, Finish
<1>3. wild' \in BOOLEAN
  BY Zenon
<1>4. LoopType'
  BY <1>1, <1>3 DEF LoopType, Finish, loopVars
<1>5. CallType' /\ NumbersLeft'
  BY <1>1, FinishFacts
<1> QED BY <1>1, <1>2, <1>4, <1>5, FinishFacts

LEMMA SendMessageIInv ==
  ASSUME IInv, NEW t \in Threads, SendMessage(t)
  PROVE  IInv'
<1> USE DEF IInv, TypeOK, SendMessage
<1>1. Finish(t, "send")
  OBVIOUS
<1>2. [id |-> serial + 1, type |-> call[t].type] \in Message
  BY <1>1, FinishFacts DEF Message, Call
<1>3. DataType'
  BY <1>1, <1>2 DEF DataType, Finish, mapVars
<1>4. LoopType'
  BY <1>1 DEF LoopType, Finish, loopVars
<1>5. CallType' /\ NumbersLeft'
  BY <1>1, FinishFacts
<1> QED BY <1>1, <1>3, <1>4, <1>5, FinishFacts

-----------------------------------------------------------------------------
(* What inserting and erasing leave in a container.                        *)

LEMMA InsertAtElements ==
  ASSUME NEW s \in Seq(Registration), NEW r \in Registration, NEW k \in 1..(Len(s) + 1)
  PROVE  LET x == InsertAt(s, k, r)
         IN  /\ Len(x) = Len(s) + 1 /\ DOMAIN x = 1..Len(x)
             /\ \A j \in 1..(Len(s) + 1) :
                  x[j] = IF j < k THEN s[j] ELSE IF j = k THEN r ELSE s[j - 1]
<1> DEFINE x == InsertAt(s, k, r)
           a == SubSeq(s, 1, k - 1)
           b == SubSeq(s, k, Len(s))
           c == Append(a, r)
<1>1. /\ a \in Seq(Registration) /\ Len(a) = k - 1
      /\ \A j \in 1..(k - 1) : a[j] = s[j]
  OBVIOUS
<1>2. /\ b \in Seq(Registration) /\ Len(b) = Len(s) + 1 - k
      /\ \A j \in 1..(Len(s) + 1 - k) : b[j] = s[k - 1 + j]
  OBVIOUS
<1>3. x = c \o b
  BY <1>1, AppendIsConcat DEF InsertAt
<1> HIDE DEF a, b, x
<1>4. /\ c \in Seq(Registration) /\ Len(c) = k /\ c[k] = r
      /\ \A j \in 1..(k - 1) : c[j] = s[j]
  BY <1>1
<1> HIDE DEF c
<1>5. x \in Seq(Registration) /\ Len(x) = Len(s) + 1
  <2> b \in Seq(Registration) /\ c \in Seq(Registration)
    BY <1>2, <1>4
  <2>1. Len(x) = Len(c) + Len(b) /\ x \in Seq(Registration)
    BY <1>3
  <2>2. k + (Len(s) + 1 - k) = Len(s) + 1
    OBVIOUS
  <2> QED BY <1>2, <1>4, <2>1, <2>2
<1>6. ASSUME NEW j \in 1..(Len(s) + 1), j <= k PROVE x[j] = c[j]
  <2>1. j \in 1..Len(c)
    BY <1>4, <1>6
  <2> QED BY <1>2, <1>3, <1>4, <2>1
<1>7. ASSUME NEW j \in 1..(Len(s) + 1), j > k PROVE x[j] = s[j - 1]
  <2>1. x[j] = b[j - k]
    BY <1>2, <1>3, <1>4, <1>7
  <2>2. b[j - k] = s[k - 1 + (j - k)] /\ k - 1 + (j - k) = j - 1
    BY <1>2, <1>7
  <2> QED BY <2>1, <2>2
<1>8. x[k] = r /\ \A j \in 1..(Len(s) + 1) : j < k => x[j] = s[j]
  BY <1>4, <1>6
<1>9. DOMAIN x = 1..Len(x)
  BY <1>5
<1> QED BY <1>5, <1>7, <1>8, <1>9 DEF x

LEMMA SetInsert ==
  ASSUME NEW s \in Seq(Registration), NEW r \in Registration, NEW k \in 1..(Len(s) + 1)
  PROVE  ToSet(InsertAt(s, k, r)) = ToSet(s) \cup {r}
<1> DEFINE x == InsertAt(s, k, r)
<1>1. /\ Len(x) = Len(s) + 1 /\ DOMAIN x = 1..Len(x)
      /\ \A j \in 1..(Len(s) + 1) :
           x[j] = IF j < k THEN s[j] ELSE IF j = k THEN r ELSE s[j - 1]
  BY InsertAtElements
<1> HIDE DEF x
<1>2. ASSUME NEW j \in DOMAIN x PROVE x[j] \in ToSet(s) \cup {r}
  BY <1>1 DEF ToSet
<1>3. ASSUME NEW j \in DOMAIN s PROVE s[j] \in ToSet(x)
  <2>1. s[j] = x[IF j < k THEN j ELSE j + 1]
    BY <1>1
  <2> QED BY <1>1, <2>1 DEF ToSet
<1>4. r \in ToSet(x)
  BY <1>1 DEF ToSet
<1>5. ToSet(x) = ToSet(s) \cup {r}
  BY <1>2, <1>3, <1>4 DEF ToSet
<1> QED BY <1>5 DEF x

LEMMA RemoveAtElements ==
  ASSUME NEW s \in Seq(Registration), NEW k \in 1..Len(s)
  PROVE  LET x == RemoveAt(s, k)
         IN  /\ Len(x) = Len(s) - 1 /\ DOMAIN x = 1..Len(x)
             /\ \A j \in 1..(Len(s) - 1) : x[j] = IF j < k THEN s[j] ELSE s[j + 1]
<1> DEFINE x == RemoveAt(s, k)
           a == SubSeq(s, 1, k - 1)
           b == SubSeq(s, k + 1, Len(s))
<1>1. /\ a \in Seq(Registration) /\ Len(a) = k - 1
      /\ \A j \in 1..(k - 1) : a[j] = s[j]
  OBVIOUS
<1>2. /\ b \in Seq(Registration) /\ Len(b) = Len(s) - k
      /\ \A j \in 1..(Len(s) - k) : b[j] = s[k + j]
  OBVIOUS
<1>3. x = a \o b
  BY DEF RemoveAt
<1> HIDE DEF a, b, x
<1>4. x \in Seq(Registration) /\ Len(x) = Len(s) - 1
  BY <1>1, <1>2, <1>3
<1>5. ASSUME NEW j \in 1..(Len(s) - 1), j < k PROVE x[j] = s[j]
  BY <1>1, <1>2, <1>3, <1>5
<1>6. ASSUME NEW j \in 1..(Len(s) - 1), ~(j < k) PROVE x[j] = s[j + 1]
  <2>1. x[j] = b[j - (k - 1)]
    BY <1>1, <1>2, <1>3, <1>6
  <2>2. b[j - (k - 1)] = s[k + (j - (k - 1))] /\ k + (j - (k - 1)) = j + 1
    BY <1>2, <1>6
  <2> QED BY <2>1, <2>2
<1>7. DOMAIN x = 1..Len(x)
  BY <1>4
<1> QED BY <1>4, <1>5, <1>6, <1>7 DEF x

LEMMA SetRemove ==
  ASSUME NEW s \in Seq(Registration), NEW k \in 1..Len(s)
  PROVE  /\ ToSet(RemoveAt(s, k)) \subseteq ToSet(s)
         /\ ToSet(s) \subseteq ToSet(RemoveAt(s, k)) \cup {s[k]}
<1> DEFINE x == RemoveAt(s, k)
<1>1. /\ Len(x) = Len(s) - 1 /\ DOMAIN x = 1..Len(x)
      /\ \A j \in 1..(Len(s) - 1) : x[j] = IF j < k THEN s[j] ELSE s[j + 1]
  BY RemoveAtElements
<1> HIDE DEF x
<1>2. ASSUME NEW j \in DOMAIN x PROVE x[j] \in ToSet(s)
  BY <1>1 DEF ToSet
<1>3. ASSUME NEW j \in DOMAIN s, j # k PROVE s[j] \in ToSet(x)
  <2>1. s[j] = x[IF j < k THEN j ELSE j - 1]
    BY <1>1, <1>3
  <2> QED BY <1>1, <1>3, <2>1 DEF ToSet
<1>4. ToSet(x) \subseteq ToSet(s) /\ ToSet(s) \subseteq ToSet(x) \cup {s[k]}
  BY <1>2, <1>3 DEF ToSet
<1> QED BY <1>4 DEF x

\* delEvent removes nothing but nodes of the registrar it was called with.
LEMMA SetErase ==
  ASSUME NEW s \in Seq(Registration), NEW type, NEW conn
  PROVE  /\ ToSet(Erase(s, type, conn)) \subseteq ToSet(s)
         /\ \A n \in ToSet(s) \ ToSet(Erase(s, type, conn)) : n.conn = conn
<1> DEFINE I == FirstMatch(s, type, conn)
           k == CHOOSE i \in I : TRUE
<1>1. CASE I = {}
  BY <1>1 DEF Erase
<1>2. CASE I # {}
  <2>1. k \in I
    BY <1>2
  <2>2. k \in 1..Len(s) /\ s[k].conn = conn
    BY <2>1 DEF FirstMatch, Matches
  <2>3. Erase(s, type, conn) = RemoveAt(s, k)
    BY <1>2 DEF Erase
  <2> HIDE DEF k
  <2> QED BY <2>2, <2>3, SetRemove
<1> QED BY <1>1, <1>2

LEMMA AddedNode ==
  ASSUME IInv, NEW t \in Threads, AddEvent(t) \/ AddTimer(t),
         NewNode(call[t]) \in Registration
  PROVE  ToSet(events') \cup ToSet(timers') =
           ToSet(events) \cup ToSet(timers) \cup {NewNode(call[t])}
<1> USE DEF IInv, TypeOK, DataType
<1>1. CASE AddEvent(t)
  <2>1. PICK i \in InsertPoints(events, call[t].type) :
          events' = InsertAt(events, i, NewNode(call[t]))
    BY <1>1 DEF AddEvent
  <2>2. i \in 1..(Len(events) + 1)
    BY DEF InsertPoints
  <2> QED BY <1>1, <2>1, <2>2, SetInsert DEF AddEvent
<1>2. CASE AddTimer(t)
  <2>1. timers' = Append(timers, NewNode(call[t]))
    BY <1>2 DEF AddTimer
  <2>2. \A i \in DOMAIN timers' : timers'[i] \in ToSet(timers) \cup {NewNode(call[t])}
    BY <2>1 DEF ToSet
  <2>3. \A i \in DOMAIN timers : timers[i] = timers'[i] /\ i \in DOMAIN timers'
    BY <2>1
  <2>4. Len(timers) + 1 \in DOMAIN timers' /\ timers'[Len(timers) + 1] = NewNode(call[t])
    BY <2>1
  <2>5. ToSet(timers') = ToSet(timers) \cup {NewNode(call[t])}
    BY <2>2, <2>3, <2>4 DEF ToSet
  <2> QED BY <1>2, <2>5 DEF AddTimer
<1> QED BY <1>1, <1>2

-----------------------------------------------------------------------------
(* The steps of run().                                                     *)

\* A step that is no part of a call.
LEMMA CallFrame ==
  ASSUME IInv, UNCHANGED callVars
  PROVE  CallType' /\ CallsPresent' /\ NumbersLeft'
<1>1. Busy' = Busy
  BY DEF Busy, callVars
<1> QED BY <1>1 DEF IInv, TypeOK, CallType, CallsPresent, NumbersLeft, callVars

\* run() locks while its thread is in no call, so the mutex is not its own yet.
LEMMA LoopLock ==
  ASSUME IInv, UNCHANGED callVars, Mtx!Lock(LoopThread),
         ~LoopInside, ~Executing, LoopInside'
  PROVE  Mtx!TypeOK' /\ MutexInv' /\ LoopIdle'
<1> USE DEF IInv, TypeOK
<1>1. step[LoopThread] = "idle"
  BY DEF LoopIdle
<1>2. owner = NoThread /\ depth = 0
  BY <1>1 DEF MutexInv, Mtx!Lock
<1>3. owner' = LoopThread /\ depth' = 1
  BY <1>2 DEF Mtx!Lock
<1>4. Mtx!TypeOK'
  BY <1>3 DEF Mtx!TypeOK, Threads
<1>5. MutexInv'
  BY <1>1, <1>2, <1>3, ThreadAssumption DEF MutexInv, callVars
<1>6. LoopIdle'
  BY <1>1 DEF LoopIdle, callVars
<1> QED BY <1>4, <1>5, <1>6

LEMMA LoopRelease ==
  ASSUME IInv, UNCHANGED callVars, Mtx!Release(LoopThread), LoopInside, ~LoopInside'
  PROVE  Mtx!TypeOK' /\ MutexInv' /\ LoopIdle'
<1> USE DEF IInv, TypeOK
<1>1. step[LoopThread] = "idle" /\ owner = LoopThread /\ depth = 1
  BY ThreadAssumption DEF MutexInv
<1>2. owner' = NoThread /\ depth' = 0
  BY <1>1 DEF Mtx!Release
<1>3. Mtx!TypeOK'
  BY <1>2 DEF Mtx!TypeOK
<1>4. MutexInv'
  BY <1>1, <1>2, ThreadAssumption DEF MutexInv, callVars
<1>5. LoopIdle'
  BY <1>1 DEF LoopIdle, callVars
<1> QED BY <1>3, <1>4, <1>5

\* A step that neither locks nor releases stays on its side of the mutex.
LEMMA LoopStays ==
  ASSUME IInv, UNCHANGED <<lockVars, callVars>>, LoopInside' = LoopInside,
         Executing => Executing' \/ step[LoopThread] = "idle"
  PROVE  Mtx!TypeOK' /\ MutexInv' /\ LoopIdle'
<1> USE DEF IInv, TypeOK, lockVars, callVars
<1>1. Mtx!TypeOK'
  BY DEF Mtx!TypeOK
<1>2. MutexInv'
  BY DEF MutexInv
<1>3. LoopIdle'
  BY DEF LoopIdle
<1> QED BY <1>1, <1>2, <1>3

LEMMA LoopLocksIInv ==
  ASSUME IInv, LoopLocks
  PROVE  IInv'
<1> USE DEF IInv, TypeOK, LoopFrame
<1>1. UNCHANGED callVars /\ Mtx!Lock(LoopThread)
  BY DEF LoopLocks, LockCycle, RelockTimer, RelockEvent
<1>2. ~LoopInside /\ ~Executing /\ LoopInside'
  BY DEF LoopLocks, LockCycle, RelockTimer, RelockEvent, LoopInside, Executing
<1>3. DataType' /\ HistoryType'
  BY DEF LoopLocks, LockCycle, RelockTimer, RelockEvent, DataType, HistoryType, mapVars, history
<1>4. LoopType'
  <2>1. CASE LockCycle \/ RelockTimer
    BY <2>1 DEF LockCycle, RelockTimer, LoopType, LoopPcs, loopVars
  <2>2. CASE RelockEvent
    <3>1. itr' \in Rids \cup {End}
      BY <2>2, SuccessorType DEF RelockEvent, LoopType, DataType
    <3> QED BY <2>2, <3>1 DEF RelockEvent, LoopType, LoopPcs
  <2> QED BY <2>1, <2>2 DEF LoopLocks
<1> QED BY <1>1, <1>2, <1>3, <1>4, CallFrame, LoopLock

LEMMA LoopReleasesIInv ==
  ASSUME IInv, RunTimer \/ QueueEmpty \/ RunHandler \/ MessageDone
  PROVE  IInv'
<1> USE DEF IInv, TypeOK, LoopFrame
<1>1. UNCHANGED callVars /\ Mtx!Release(LoopThread)
  BY DEF RunTimer, QueueEmpty, RunHandler, MessageDone
<1>2. LoopInside /\ ~LoopInside'
  BY DEF RunTimer, QueueEmpty, RunHandler, MessageDone, LoopInside
<1>3. DataType'
  BY DEF RunTimer, QueueEmpty, RunHandler, MessageDone, DataType, mapVars
<1>4. LoopType'
  <2>1. CASE RunTimer
    <3>1. itr' \in Rids \cup {End}
      <4>1. PICK i \in DOMAIN timers : itr' = timers[i].rid
        BY <2>1 DEF RunTimer, NextDue, Due
      <4>2. timers[i] \in Registration
        BY <4>1 DEF DataType
      <4> QED BY <4>1, <4>2 DEF Registration
    <3> QED BY <2>1, <3>1 DEF RunTimer, LoopType, LoopPcs
  <2>2. CASE QueueEmpty \/ RunHandler \/ MessageDone
    BY <2>2 DEF QueueEmpty, RunHandler, MessageDone, LoopType, LoopPcs, loopVars
  <2> QED BY <2>1, <2>2
<1>5. HistoryType'
  <2>1. CASE RunHandler
    <3>1. PICK i \in DOMAIN events : ran' = Append(ran, events[i])
      BY <2>1 DEF RunHandler
    <3>2. events[i] \in Registration
      BY <3>1 DEF DataType
    <3>3. ran' \in Seq(Registration)
      BY <3>1, <3>2 DEF HistoryType
    <3> QED BY <2>1, <3>3 DEF RunHandler, HistoryType
  <2>2. CASE RunTimer \/ QueueEmpty
    BY <2>2 DEF RunTimer, QueueEmpty, HistoryType, history
  <2>3. CASE MessageDone
    <3>1. owed' \subseteq Registration /\ ran' \in Seq(Registration)
      BY <2>3 DEF MessageDone
    <3>2. takenAt' \in 0..MaxCalls
      BY <2>3, SizeAssumption DEF MessageDone
    <3> QED BY <2>3, <3>1, <3>2 DEF MessageDone, HistoryType
  <2> QED BY <2>1, <2>2, <2>3
<1> QED BY <1>1, <1>2, <1>3, <1>4, <1>5, CallFrame, LoopRelease

LEMMA TakeMessageIInv ==
  ASSUME IInv, TakeMessage
  PROVE  IInv'
<1> USE DEF IInv, TypeOK, TakeMessage
<1>1. UNCHANGED <<lockVars, callVars>> /\ LoopInside' = LoopInside /\ ~Executing
  BY DEF LoopInside, Executing
<1>2. Head(queue) \in Message /\ Tail(queue) \in Seq(Message)
  BY DEF DataType
<1>3. DataType'
  BY <1>2 DEF DataType, mapVars
<1>4. LoopType'
  BY <1>2, FirstType DEF LoopType, LoopPcs, DataType
<1>5. HistoryType'
  <2>1. owed' \subseteq Registration
    BY DEF DataType, ToSet
  <2>2. ran' \in Seq(Registration)
    OBVIOUS
  <2>3. takenAt' \in 0..MaxCalls
    BY DEF CallType
  <2> QED BY <2>1, <2>2, <2>3 DEF HistoryType
<1> QED BY <1>1, <1>3, <1>4, <1>5, CallFrame, LoopStays

(***************************************************************************)
(* The steps that leave the mutex as it is: stop(), the clock, and those   *)
(* of run() between a release and the next lock or under one lock.         *)
(***************************************************************************)
LEMMA StopIInv ==
  ASSUME IInv, NEW t \in Threads, Stop(t)
  PROVE  IInv'
<1> USE DEF IInv, TypeOK, Stop
<1>1. UNCHANGED <<lockVars, callVars, pc>>
  OBVIOUS
<1>2. DataType' /\ LoopType' /\ HistoryType'
  BY DEF DataType, LoopType, HistoryType, mapVars, loopVars
<1>3. Mtx!TypeOK' /\ MutexInv' /\ LoopIdle'
  BY <1>1, LoopStays DEF LoopInside, Executing
<1> QED BY <1>1, <1>2, <1>3, CallFrame

LEMMA TimerRingsIInv ==
  ASSUME IInv, NEW r, TimerRings(r)
  PROVE  IInv'
<1> USE DEF IInv, TypeOK, TimerRings
<1>1. UNCHANGED <<lockVars, callVars, pc>>
  OBVIOUS
<1>2. r \in Rids
  <2>1. PICK i \in DOMAIN timers : r = timers[i].rid
    BY DEF NodeRids
  <2>2. timers[i] \in Registration
    BY <2>1 DEF DataType
  <2> QED BY <2>1, <2>2 DEF Registration
<1>3. DataType'
  BY <1>2 DEF DataType, mapVars
<1>4. LoopType' /\ HistoryType'
  BY DEF LoopType, HistoryType, loopVars, history
<1>5. Mtx!TypeOK' /\ MutexInv' /\ LoopIdle'
  BY <1>1, LoopStays DEF LoopInside, Executing
<1> QED BY <1>1, <1>3, <1>4, <1>5, CallFrame

LEMMA LoopStaysIInv ==
  ASSUME IInv, CallRun \/ EnterRun \/ CheckRunning \/ TimersDone \/ HandlerReturns
  PROVE  IInv'
<1> USE DEF IInv, TypeOK, LoopFrame
<1>1. UNCHANGED <<lockVars, callVars>>
  BY DEF CallRun, EnterRun, CheckRunning, TimersDone, HandlerReturns
<1>2. /\ LoopInside' = LoopInside
      /\ Executing => Executing' \/ step[LoopThread] = "idle"
  BY DEF CallRun, EnterRun, CheckRunning, TimersDone, HandlerReturns, LoopInside, Executing
<1>3. DataType'
  BY DEF CallRun, EnterRun, CheckRunning, TimersDone, HandlerReturns, DataType, mapVars
<1>4. LoopType'
  BY DEF CallRun, EnterRun, CheckRunning, TimersDone, HandlerReturns, LoopType, LoopPcs, loopVars
<1>5. HistoryType'
  BY DEF CallRun, EnterRun, CheckRunning, TimersDone, HandlerReturns, HistoryType, history
<1> QED BY <1>1, <1>2, <1>3, <1>4, <1>5, CallFrame, LoopStays

LEMMA StutterIInv ==
  ASSUME IInv, UNCHANGED vars
  PROVE  IInv'
<1>1. UNCHANGED <<lockVars, callVars, pc>>
  BY DEF vars
<1>2. DataType' /\ LoopType' /\ HistoryType'
  BY DEF IInv, TypeOK, DataType, LoopType, HistoryType, vars, mapVars, loopVars, history
<1>3. Mtx!TypeOK' /\ MutexInv' /\ LoopIdle'
  BY <1>1, LoopStays DEF LoopInside, Executing
<1> QED BY <1>1, <1>2, <1>3, CallFrame DEF IInv, TypeOK

-----------------------------------------------------------------------------
LEMMA NextIInv == IInv /\ [Next]_vars => IInv'
<1> SUFFICES ASSUME IInv, [Next]_vars PROVE IInv'
  OBVIOUS
<1>1. ASSUME NEW t \in Threads, MakeCall(t) \/ Acquire(t) \/ Stop(t) PROVE IInv'
  BY <1>1, MakeCallIInv, AcquireIInv, StopIInv
<1>2. ASSUME NEW t \in Threads, Operation(t) PROVE IInv'
  BY <1>2, AddEventIInv, AddTimerIInv, DelEventIInv, SendMessageIInv DEF Operation
<1>3. ASSUME NEW r \in Rids, TimerRings(r) PROVE IInv'
  BY <1>3, TimerRingsIInv
<1>4. CASE CallRun \/ LoopMoves
  BY <1>4, LoopStaysIInv, LoopReleasesIInv, TakeMessageIInv DEF LoopMoves
<1>5. CASE LoopLocks
  BY <1>5, LoopLocksIInv
<1>6. CASE Undefined \/ UNCHANGED vars
  BY <1>6, StutterIInv DEF Undefined
<1> QED BY <1>1, <1>2, <1>3, <1>4, <1>5, <1>6 DEF Next

LEMMA SpecIInv == Spec => []IInv
  BY InitIInv, NextIInv, PTL DEF Spec

\* Every variable keeps its type, and every number given fits the bound.
THEOREM TypeCorrect == Spec => []TypeOK
<1>1. IInv => TypeOK
  BY DEF IInv
<1> QED BY <1>1, SpecIInv, PTL

\* mutex_global is held by at most one thread, once, exactly while that thread
\* is between lock() and release() (EventLoop.cpp:22-101), and never while
\* run() executes a handler, whoever else calls the loop at the same time.
THEOREM MutexDiscipline == Spec => []MutexInv
<1>1. IInv => MutexInv
  BY DEF IInv
<1> QED BY <1>1, SpecIInv, PTL
-----------------------------------------------------------------------------
(* The iterators of run() in events_map.                                   *)

\* The nodes of a list differ, and those of one type are adjacent and in order.
Grouped(s) ==
  \A i, j \in DOMAIN s : i < j =>
    /\ s[i].rid # s[j].rid
    /\ s[i].type = s[j].type =>
         /\ s[i].rid < s[j].rid
         /\ \A k \in i..j : s[k].type = s[i].type

\* An iterator and its place.
IsAt(s, r, p) ==
  /\ p \in 1..(Len(s) + 1)
  /\ r = IF p <= Len(s) THEN s[p].rid ELSE End

\* What is left to run lies from place f up to place q, and nothing else that does
\* is older than what has run, or foreign unless it came after the message was taken.
Ahead(s, f, q) ==
  /\ \A i \in DOMAIN s : s[i] \in owed \ ToSet(ran) => f <= i /\ i < q
  /\ \A i \in DOMAIN s : f <= i /\ i < q =>
       /\ s[i].type = msg.type \/ s[i].rid > takenAt
       /\ \A n \in ToSet(ran) : n.type = s[i].type => n.rid < s[i].rid

Walking == pc \in {"walk", "execEvent", "relockEvent"}

InPlace ==
  Walking /\ ~wild =>
    \E p, q \in 1..(Len(events) + 1) :
      /\ IsAt(events, itr, p) /\ IsAt(events, last, q)
      /\ IF pc = "walk" THEN p <= q /\ Ahead(events, p, q)
                        ELSE p < q /\ Ahead(events, p + 1, q)

\* An invalid iterator is met at the end of the handler that invalidated it.
WildInHandler ==
  wild => pc \in {"execTimer", "relockTimer", "execEvent", "relockEvent", "undefined"}

\* No node and no message has a number that is still to be given.
NumbersOld ==
  /\ \A n \in ToSet(events) \cup owed \cup ToSet(ran) : n.rid <= serial
  /\ \A m \in ToSet(queue) : m.id <= serial
  /\ takenAt <= serial

MessageWalked ==
  IF Walking THEN msg \in Message
             ELSE pc # "undefined" => msg = NoMessage /\ owed = {} /\ ran = <<>>

Dispatching ==
  /\ Grouped(events)
  /\ NumbersOld /\ WildInHandler /\ MessageWalked
  /\ InPlace
  /\ RegistrationOrder /\ OwnTypeUnlessNewer

-----------------------------------------------------------------------------
(* Places in a grouped list.                                               *)

LEMMA LeastNat ==
  ASSUME NEW T, T \subseteq Nat, T # {}
  PROVE  \E x \in T : \A y \in T : x <= y
<1> DEFINE R == OpToRel(<, Nat)
<1>1. IsWellFoundedOn(R, Nat)
  BY NatLessThanWellFounded, Zenon
<1>2. \A x, y \in Nat : y < x => <<y, x>> \in R
  BY Zenon DEF OpToRel
<1> HIDE DEF R
<1>3. PICK x \in T : \A y \in T : ~ (<<y, x>> \in R)
  BY <1>1, WFMin
<1>4. \A y \in T : ~(y < x)
  BY <1>2, <1>3
<1> QED BY <1>4

LEMMA ElementType ==
  ASSUME NEW s \in Seq(Registration), NEW i \in DOMAIN s
  PROVE  /\ DOMAIN s = 1..Len(s) /\ Len(s) \in Nat /\ i \in 1..Len(s)
         /\ s[i] \in Registration /\ s[i].rid \in Nat \ {End}
<1>1. DOMAIN s = 1..Len(s) /\ Len(s) \in Nat /\ i \in 1..Len(s) /\ s[i] \in Registration
  OBVIOUS
<1>2. \A n \in Registration : n.rid \in Nat \ {End}
  BY SizeAssumption DEF Registration, Rids, End
<1> QED BY <1>1, <1>2

\* The one index of a set gives the iterator.
LEMMA RidOfOne ==
  ASSUME NEW s, NEW I, NEW i \in I, \A j \in I : j = i
  PROVE  RidAt(s, I) = s[i].rid
<1>1. (CHOOSE j \in I : TRUE) = i
  OBVIOUS
<1> QED BY <1>1 DEF RidAt

LEMMA PlaceUnique ==
  ASSUME NEW s \in Seq(Registration), Grouped(s), NEW r, NEW p, NEW q,
         IsAt(s, r, p), IsAt(s, r, q)
  PROVE  p = q
<1>1. \A i, j \in 1..Len(s) : i # j => s[i].rid # s[j].rid
  BY ElementType DEF Grouped
<1>2. \A i \in 1..Len(s) : s[i].rid # End
  BY ElementType
<1> QED BY <1>1, <1>2 DEF IsAt

\* ++itr goes to the next place.
LEMMA SuccessorPlace ==
  ASSUME NEW s \in Seq(Registration), Grouped(s), NEW r, NEW p,
         IsAt(s, r, p), p <= Len(s)
  PROVE  IsAt(s, Successor(s, r), p + 1)
<1> DEFINE I == {i \in 2..Len(s) : s[i - 1].rid = r}
<1>1. s[p].rid = r /\ p \in 1..Len(s)
  BY DEF IsAt
<1>2. \A i \in I : i = p + 1
  <2>1. ASSUME NEW i \in I PROVE i = p + 1
    <3>1. IsAt(s, r, i - 1)
      BY DEF IsAt
    <3>2. i - 1 = p /\ i \in 2..Len(s)
      BY <3>1, PlaceUnique
    <3> QED BY <1>1, <3>2
  <2> QED BY <2>1
<1>3. CASE p = Len(s)
  <2>1. I = {}
    BY <1>2, <1>3
  <2> QED BY <1>1, <1>3, <2>1 DEF Successor, RidAt, IsAt
<1>4. CASE p < Len(s)
  <2>1. p + 1 \in I
    BY <1>1, <1>4
  <2>2. RidAt(s, I) = s[p + 1].rid
    BY <1>2, <2>1, RidOfOne
  <2> QED BY <1>1, <1>4, <2>2 DEF Successor, IsAt
<1> QED BY <1>1, <1>3, <1>4

\* equal_range delimits the nodes of a type.
LEMMA EqualRange ==
  ASSUME NEW s \in Seq(Registration), Grouped(s), NEW T
  PROVE  \E p, q \in 1..(Len(s) + 1) :
           /\ IsAt(s, First(s, T), p) /\ IsAt(s, PastLast(s, T), q) /\ p <= q
           /\ \A i \in DOMAIN s : s[i].type = T <=> p <= i /\ i < q
<1> DEFINE Of == {i \in DOMAIN s : s[i].type = T}
           I == {i \in DOMAIN s : /\ s[i].type = T
                                  /\ \A j \in 1..(i - 1) : s[j].type # T}
           J == {i \in 2..Len(s) : s[i - 1].type = T /\ s[i].type # T}
<1>0. DOMAIN s = 1..Len(s) /\ Len(s) \in Nat
  OBVIOUS
<1>1. CASE Of = {}
  <2>1. I = {} /\ J = {}
    BY <1>0, <1>1
  <2>2. First(s, T) = End /\ PastLast(s, T) = End
    BY <2>1 DEF First, PastLast, RidAt
  <2> WITNESS Len(s) + 1 \in 1..(Len(s) + 1), Len(s) + 1 \in 1..(Len(s) + 1)
  <2> QED BY <1>0, <1>1, <2>2 DEF IsAt
<1>2. CASE Of # {}
  <2>1. PICK p \in Of : \A i \in Of : p <= i
    <3>1. Of \subseteq Nat
      BY <1>0
    <3> HIDE DEF Of
    <3> QED BY <1>2, <3>1, LeastNat
  <2>2. p \in I /\ \A i \in I : i = p
    BY <1>0, <2>1
  <2>3. IsAt(s, First(s, T), p)
    <3>1. First(s, T) = s[p].rid
      BY <2>2, RidOfOne DEF First
    <3> QED BY <1>0, <2>1, <3>1 DEF IsAt
  <2>4. CASE J = {}
    <3>1. \A i \in p..Len(s) : s[i].type = T
      <4> DEFINE Others == {i \in p..Len(s) : s[i].type # T}
      <4>1. SUFFICES ASSUME Others # {} PROVE FALSE
        OBVIOUS
      <4>2. PICK m \in Others : \A i \in Others : m <= i
        <5>1. Others \subseteq Nat
          BY <1>0, <2>1
        <5> HIDE DEF Others
        <5> QED BY <4>1, <5>1, LeastNat
      <4>3. m # p
        BY <2>1
      <4>4. m - 1 \in p..Len(s) /\ s[m - 1].type = T
        BY <1>0, <2>1, <4>2, <4>3
      <4> QED BY <1>0, <2>1, <2>4, <4>3, <4>4
    <3>2. PastLast(s, T) = End
      BY <2>4 DEF PastLast, RidAt
    <3> WITNESS p \in 1..(Len(s) + 1), Len(s) + 1 \in 1..(Len(s) + 1)
    <3> QED BY <1>0, <2>1, <2>3, <3>1, <3>2 DEF IsAt
  <2>5. CASE J # {}
    <3>1. PICK q \in J : TRUE
      BY <2>5
    <3>2. q \in 2..Len(s) /\ s[q - 1].type = T /\ s[q].type # T
      OBVIOUS
    <3>3. ASSUME NEW i \in Of PROVE i < q
      <4>1. SUFFICES ASSUME i >= q PROVE FALSE
        BY <1>0, <3>2
      <4>2. s[q].type = s[q - 1].type
        BY <1>0, <3>2, <4>1 DEF Grouped
      <4> QED BY <3>2, <4>2
    <3>4. ASSUME NEW i \in 1..Len(s), p <= i, i < q PROVE s[i].type = T
      <4>1. CASE i = q - 1
        BY <3>2, <4>1
      <4>2. CASE i # q - 1
        <5>1. p < q - 1 /\ i \in p..(q - 1) /\ p \in DOMAIN s /\ q - 1 \in DOMAIN s
          BY <1>0, <2>1, <3>2, <3>4, <4>2
        <5> QED BY <2>1, <3>2, <5>1 DEF Grouped
      <4> QED BY <4>1, <4>2
    <3>5. ASSUME NEW j \in J PROVE j = q
      <4>1. j - 1 \in Of /\ j \in 2..Len(s) /\ s[j].type # T
        BY <1>0
      <4>2. j - 1 < q
        BY <3>3, <4>1
      <4>3. ~(j < q)
        BY <1>0, <2>1, <3>4, <4>1
      <4> QED BY <3>2, <4>1, <4>2, <4>3
    <3>6. PastLast(s, T) = s[q].rid
      BY <3>5, RidOfOne DEF PastLast
    <3>7. q - 1 \in Of
      BY <1>0, <3>2
    <3> WITNESS p \in 1..(Len(s) + 1), q \in 1..(Len(s) + 1)
    <3> QED BY <1>0, <2>1, <2>3, <3>2, <3>3, <3>4, <3>6, <3>7 DEF IsAt
  <2> QED BY <2>4, <2>5
<1> QED BY <1>1, <1>2

-----------------------------------------------------------------------------
(* Inserting and erasing.                                                  *)

\* insert keeps a list grouped when the new node is younger than all of it.
LEMMA GroupedInsert ==
  ASSUME NEW s \in Seq(Registration), Grouped(s), NEW r \in Registration,
         \A i \in DOMAIN s : s[i].rid < r.rid,
         NEW k \in InsertPoints(s, r.type)
  PROVE  Grouped(InsertAt(s, k, r))
<1> DEFINE x == InsertAt(s, k, r)
<1>0. DOMAIN s = 1..Len(s) /\ Len(s) \in Nat /\ r.rid \in Nat
      /\ \A i \in 1..Len(s) : s[i].rid \in Nat
  <2>1. r.rid \in Nat
    BY SizeAssumption DEF Registration, Rids
  <2>2. \A i \in DOMAIN s : s[i].rid \in Nat
    BY ElementType
  <2> QED BY <2>1, <2>2
<1>1. k \in 1..(Len(s) + 1)
  BY DEF InsertPoints
<1>2. /\ Len(x) = Len(s) + 1 /\ DOMAIN x = 1..(Len(s) + 1)
      /\ \A j \in 1..(Len(s) + 1) :
           x[j] = IF j < k THEN s[j] ELSE IF j = k THEN r ELSE s[j - 1]
  BY <1>1, InsertAtElements
\* Nodes of the new one's type lie before it, up to the place before.
<1>3. ASSUME NEW j \in 1..Len(s), s[j].type = r.type
      PROVE  j < k /\ \A m \in j..(k - 1) : s[m].type = r.type
  <2>1. k > 1 /\ s[k - 1].type = r.type /\ (k > Len(s) \/ s[k].type # r.type)
    BY <1>0, <1>3 DEF InsertPoints
  <2>2. j < k
    <3>1. SUFFICES ASSUME k <= j PROVE FALSE
      BY <1>0, <1>1
    <3>2. /\ k \in 1..Len(s) /\ k - 1 \in DOMAIN s /\ j \in DOMAIN s
          /\ k - 1 < j /\ k \in (k - 1)..j
      BY <1>0, <1>1, <2>1, <3>1
    <3>3. s[k].type = s[k - 1].type
      BY <1>3, <2>1, <3>2 DEF Grouped
    <3>4. ~(k > Len(s))
      BY <1>0, <3>2
    <3> QED BY <2>1, <3>3, <3>4
  <2>3. CASE j = k - 1
    BY <1>3, <2>2, <2>3
  <2>4. CASE j < k - 1
    <3>1. k - 1 \in DOMAIN s /\ j \in DOMAIN s
      BY <1>0, <1>1, <2>4
    <3> QED BY <1>3, <2>1, <2>2, <2>4, <3>1 DEF Grouped
  <2> QED BY <1>0, <1>1, <2>2, <2>3, <2>4
\* A pair that the new node comes between is of two types.
<1>4. ASSUME NEW i \in 1..Len(s), NEW j \in 1..Len(s), i < k, k <= j
      PROVE  s[i].type # s[j].type
  <2>1. SUFFICES ASSUME s[i].type = s[j].type PROVE FALSE
    OBVIOUS
  <2>2. \A m \in i..j : s[m].type = s[i].type
    BY <1>0, <1>4, <2>1 DEF Grouped
  <2>3. k - 1 \in i..j /\ k \in i..j /\ k \in 2..Len(s)
    BY <1>0, <1>1, <1>4
  <2>4. s[k - 1].type = s[i].type /\ s[k].type = s[i].type
    BY <2>2, <2>3
  <2>5. CASE \E m \in DOMAIN s : s[m].type = r.type
    <3>1. s[k - 1].type = r.type /\ (k > Len(s) \/ s[k].type # r.type)
      BY <2>5 DEF InsertPoints
    <3> QED BY <2>3, <2>4, <3>1
  <2>6. CASE ~ \E m \in DOMAIN s : s[m].type = r.type
    <3>1. k \in {1, Len(s) + 1} \/ s[k - 1].type # s[k].type
      BY <2>6 DEF InsertPoints
    <3> QED BY <1>0, <2>3, <2>4, <3>1
  <2> QED BY <2>5, <2>6
<1> HIDE DEF x
<1>5. ASSUME NEW i \in 1..(Len(s) + 1), NEW j \in 1..(Len(s) + 1), i < j
      PROVE  x[i].rid # x[j].rid
  <2>1. CASE j = k
    BY <1>0, <1>2, <1>5, <2>1
  <2>2. CASE i = k
    <3>1. x[i] = r /\ x[j] = s[j - 1] /\ j - 1 \in 1..Len(s)
      BY <1>0, <1>1, <1>2, <1>5, <2>2
    <3>2. s[j - 1].rid < r.rid
      BY <1>0, <3>1
    <3> QED BY <1>0, <3>1, <3>2
  <2>3. CASE i # k /\ j # k
    <3>1. PICK a \in 1..Len(s), b \in 1..Len(s) : a < b /\ x[i] = s[a] /\ x[j] = s[b]
      <4> DEFINE a == IF i < k THEN i ELSE i - 1
                 b == IF j < k THEN j ELSE j - 1
      <4>1. a \in 1..Len(s) /\ b \in 1..Len(s) /\ a < b
        BY <1>0, <1>1, <1>5, <2>3
      <4>2. x[i] = s[a] /\ x[j] = s[b]
        BY <1>2, <2>3
      <4> HIDE DEF a, b
      <4> QED BY <4>1, <4>2
    <3> QED BY <1>0, <3>1 DEF Grouped
  <2> QED BY <2>1, <2>2, <2>3
<1>6. ASSUME NEW i \in 1..(Len(s) + 1), NEW j \in 1..(Len(s) + 1), i < j,
             x[i].type = x[j].type
      PROVE  x[i].rid < x[j].rid /\ \A m \in i..j : x[m].type = x[i].type
  <2>1. CASE i = k
    <3>1. j - 1 \in 1..Len(s) /\ s[j - 1].type = r.type /\ ~(j - 1 < k)
      BY <1>0, <1>1, <1>2, <1>6, <2>1
    <3> QED BY <1>3, <3>1
  <2>2. CASE j = k
    <3>1. i \in 1..Len(s) /\ x[i] = s[i] /\ x[j] = r /\ s[i].type = r.type
      BY <1>0, <1>1, <1>2, <1>6, <2>2
    <3>2. \A m \in i..(k - 1) : s[m].type = r.type
      BY <1>3, <3>1
    <3>3. ASSUME NEW m \in i..j PROVE x[m].type = r.type
      <4>1. CASE m = k
        BY <2>2, <3>1, <4>1
      <4>2. CASE m # k
        <5>1. m \in 1..(Len(s) + 1) /\ m < k /\ m \in i..(k - 1)
          BY <1>0, <1>1, <2>2, <4>2
        <5> QED BY <1>2, <3>2, <5>1
      <4> QED BY <4>1, <4>2
    <3> QED BY <1>0, <3>1, <3>3
  <2>3. CASE i # k /\ j # k /\ i < k /\ k < j
    <3>1. i \in 1..Len(s) /\ j - 1 \in 1..Len(s) /\ k <= j - 1
          /\ x[i] = s[i] /\ x[j] = s[j - 1]
      BY <1>0, <1>1, <1>2, <1>6, <2>3
    <3> QED BY <1>4, <1>6, <2>3, <3>1
  <2>4. CASE j < k
    <3>1. i \in DOMAIN s /\ j \in DOMAIN s /\ x[i] = s[i] /\ x[j] = s[j]
      BY <1>0, <1>1, <1>2, <1>6, <2>4
    <3>2. s[i].rid < s[j].rid /\ \A m \in i..j : s[m].type = s[i].type
      BY <1>6, <3>1 DEF Grouped
    <3>3. \A m \in i..j : x[m] = s[m]
      BY <1>0, <1>1, <1>2, <2>4
    <3> QED BY <3>1, <3>2, <3>3
  <2>5. CASE k < i
    <3>1. i - 1 \in DOMAIN s /\ j - 1 \in DOMAIN s /\ x[i] = s[i - 1] /\ x[j] = s[j - 1]
      BY <1>0, <1>1, <1>2, <1>6, <2>5
    <3>2. i - 1 < j - 1 /\ s[i - 1].type = s[j - 1].type
      BY <1>6, <3>1
    <3>3. /\ s[i - 1].rid < s[j - 1].rid
          /\ \A m \in (i - 1)..(j - 1) : s[m].type = s[i - 1].type
      BY <3>1, <3>2 DEF Grouped
    <3>4. ASSUME NEW m \in i..j PROVE x[m] = s[m - 1] /\ m - 1 \in (i - 1)..(j - 1)
      <4>1. m \in 1..(Len(s) + 1) /\ k < m
        BY <1>0, <1>1, <2>5
      <4> QED BY <1>1, <1>2, <4>1
    <3> QED BY <3>1, <3>3, <3>4
  <2> QED BY <1>0, <1>1, <1>6, <2>1, <2>2, <2>3, <2>4, <2>5
<1>7. Grouped(x)
  BY <1>2, <1>5, <1>6 DEF Grouped
<1> QED BY <1>7 DEF x

LEMMA GroupedRemove ==
  ASSUME NEW s \in Seq(Registration), Grouped(s), NEW k \in 1..Len(s)
  PROVE  Grouped(RemoveAt(s, k))
<1> DEFINE x == RemoveAt(s, k)
           old(i) == IF i < k THEN i ELSE i + 1
<1>1. DOMAIN s = 1..Len(s) /\ Len(s) \in Nat
  OBVIOUS
<1>2. /\ DOMAIN x = 1..(Len(s) - 1)
      /\ \A j \in 1..(Len(s) - 1) : x[j] = s[old(j)]
  <2>1. /\ Len(x) = Len(s) - 1 /\ DOMAIN x = 1..Len(x)
        /\ \A j \in 1..(Len(s) - 1) : x[j] = IF j < k THEN s[j] ELSE s[j + 1]
    BY RemoveAtElements
  <2> HIDE DEF x
  <2> QED BY <2>1
<1>3. /\ \A i \in 1..(Len(s) - 1) : old(i) \in 1..Len(s)
      /\ \A i, j \in 1..(Len(s) - 1) : i < j => old(i) < old(j)
      /\ \A i, j \in 1..(Len(s) - 1) : \A m \in i..j :
           m \in 1..(Len(s) - 1) /\ old(m) \in old(i)..old(j)
  BY <1>1
<1> HIDE DEF x, old
<1>4. ASSUME NEW i \in DOMAIN x, NEW j \in DOMAIN x, i < j
      PROVE  /\ x[i].rid # x[j].rid
             /\ x[i].type = x[j].type =>
                  x[i].rid < x[j].rid /\ \A m \in i..j : x[m].type = x[i].type
  <2>1. old(i) \in DOMAIN s /\ old(j) \in DOMAIN s /\ old(i) < old(j)
    BY <1>1, <1>2, <1>3, <1>4
  <2>2. \A m \in i..j : x[m] = s[old(m)] /\ old(m) \in old(i)..old(j)
    BY <1>2, <1>3
  <2>3. x[i] = s[old(i)] /\ x[j] = s[old(j)]
    BY <1>2
  <2> QED BY <2>1, <2>2, <2>3 DEF Grouped
<1>5. Grouped(x)
  BY <1>4 DEF Grouped
<1> QED BY <1>5 DEF x

\* Where an iterator is after an insertion, and after the removal of another node.
LEMMA PlaceInsert ==
  ASSUME NEW s \in Seq(Registration), NEW n \in Registration,
         NEW k \in 1..(Len(s) + 1), NEW r, NEW p, IsAt(s, r, p)
  PROVE  IsAt(InsertAt(s, k, n), r, IF p < k THEN p ELSE p + 1)
<1> DEFINE x == InsertAt(s, k, n)
<1>1. /\ Len(x) = Len(s) + 1 /\ DOMAIN x = 1..Len(x)
      /\ \A j \in 1..(Len(s) + 1) :
           x[j] = IF j < k THEN s[j] ELSE IF j = k THEN n ELSE s[j - 1]
  BY InsertAtElements
<1> HIDE DEF x
<1>2. IsAt(x, r, IF p < k THEN p ELSE p + 1)
  BY <1>1 DEF IsAt
<1> QED BY <1>2 DEF x

LEMMA PlaceRemove ==
  ASSUME NEW s \in Seq(Registration), NEW k \in 1..Len(s),
         NEW r, NEW p, IsAt(s, r, p), p # k
  PROVE  IsAt(RemoveAt(s, k), r, IF p < k THEN p ELSE p - 1)
<1> DEFINE x == RemoveAt(s, k)
<1>1. /\ Len(x) = Len(s) - 1 /\ DOMAIN x = 1..Len(x)
      /\ \A j \in 1..(Len(s) - 1) : x[j] = IF j < k THEN s[j] ELSE s[j + 1]
  BY RemoveAtElements
<1> HIDE DEF x
<1>2. IsAt(x, r, IF p < k THEN p ELSE p - 1)
  BY <1>1 DEF IsAt
<1> QED BY <1>2 DEF x

\* A node that another thread or the running handler inserts is owed nothing, and
\* is newer than the message and all that has run.
LEMMA AheadInsert ==
  ASSUME NEW s \in Seq(Registration), NEW n \in Registration,
         NEW k \in 1..(Len(s) + 1), NEW p \in 1..(Len(s) + 1), NEW q \in 1..(Len(s) + 1),
         Ahead(s, p + 1, q),
         n \notin owed, n.rid > takenAt, \A m \in ToSet(ran) : m.rid < n.rid
  PROVE  Ahead(InsertAt(s, k, n), (IF p < k THEN p ELSE p + 1) + 1,
                                  IF q < k THEN q ELSE q + 1)
<1> DEFINE x == InsertAt(s, k, n)
           f == (IF p < k THEN p ELSE p + 1) + 1
           l == IF q < k THEN q ELSE q + 1
<1>1. /\ Len(x) = Len(s) + 1 /\ DOMAIN x = 1..(Len(s) + 1) /\ DOMAIN s = 1..Len(s)
      /\ \A j \in 1..(Len(s) + 1) :
           x[j] = IF j < k THEN s[j] ELSE IF j = k THEN n ELSE s[j - 1]
  BY InsertAtElements
<1> HIDE DEF x
<1>2. ASSUME NEW i \in DOMAIN x, i # k
      PROVE  \E j \in DOMAIN s : x[i] = s[j] /\ (f <= i /\ i < l <=> p + 1 <= j /\ j < q)
  <2>1. CASE i < k
    <3>1. i \in DOMAIN s /\ x[i] = s[i]
      BY <1>1, <2>1
    <3> QED BY <1>1, <2>1, <3>1
  <2>2. CASE i > k
    <3>1. i - 1 \in DOMAIN s /\ x[i] = s[i - 1]
      BY <1>1, <2>2
    <3> QED BY <1>1, <2>2, <3>1
  <2> QED BY <1>1, <1>2, <2>1, <2>2
<1>3. x[k] = n
  BY <1>1
<1> HIDE DEF f, l
<1>4. ASSUME NEW i \in DOMAIN x, x[i] \in owed \ ToSet(ran) PROVE f <= i /\ i < l
  BY <1>2, <1>3, <1>4 DEF Ahead
<1>5. ASSUME NEW i \in DOMAIN x, f <= i, i < l
      PROVE  /\ x[i].type = msg.type \/ x[i].rid > takenAt
             /\ \A m \in ToSet(ran) : m.type = x[i].type => m.rid < x[i].rid
  BY <1>2, <1>3, <1>5 DEF Ahead
<1>6. Ahead(x, f, l)
  BY <1>4, <1>5 DEF Ahead
<1> QED BY <1>6 DEF x, f, l

LEMMA AheadRemove ==
  ASSUME NEW s \in Seq(Registration), NEW k \in 1..Len(s),
         NEW p \in 1..(Len(s) + 1), NEW q \in 1..(Len(s) + 1), p # k, q # k,
         Ahead(s, p + 1, q)
  PROVE  Ahead(RemoveAt(s, k), (IF p < k THEN p ELSE p - 1) + 1,
                               IF q < k THEN q ELSE q - 1)
<1> DEFINE x == RemoveAt(s, k)
           f == (IF p < k THEN p ELSE p - 1) + 1
           l == IF q < k THEN q ELSE q - 1
<1>1. /\ Len(x) = Len(s) - 1 /\ DOMAIN x = 1..Len(x) /\ DOMAIN s = 1..Len(s)
      /\ \A j \in 1..(Len(s) - 1) : x[j] = IF j < k THEN s[j] ELSE s[j + 1]
  BY RemoveAtElements
<1> HIDE DEF x
<1>2. ASSUME NEW i \in DOMAIN x
      PROVE  \E j \in DOMAIN s : x[i] = s[j] /\ (f <= i /\ i < l <=> p + 1 <= j /\ j < q)
  <2>1. CASE i < k
    <3>1. i \in DOMAIN s /\ x[i] = s[i]
      BY <1>1, <2>1
    <3> QED BY <1>1, <2>1, <3>1
  <2>2. CASE i >= k
    <3>1. i + 1 \in DOMAIN s /\ x[i] = s[i + 1]
      BY <1>1, <2>2
    <3> QED BY <1>1, <2>2, <3>1
  <2> QED BY <1>1, <2>1, <2>2
<1> HIDE DEF f, l
<1>3. ASSUME NEW i \in DOMAIN x, x[i] \in owed \ ToSet(ran) PROVE f <= i /\ i < l
  BY <1>2, <1>3 DEF Ahead
<1>4. ASSUME NEW i \in DOMAIN x, f <= i, i < l
      PROVE  /\ x[i].type = msg.type \/ x[i].rid > takenAt
             /\ \A m \in ToSet(ran) : m.type = x[i].type => m.rid < x[i].rid
  BY <1>2, <1>4 DEF Ahead
<1>5. Ahead(x, f, l)
  BY <1>3, <1>4 DEF Ahead
<1> QED BY <1>5 DEF x, f, l

\* delEvent's loop over a container takes out one node, the one it found, or none.
LEMMA ErasedNode ==
  ASSUME NEW s \in Seq(Registration), NEW type, NEW conn
  PROVE  \/ Erase(s, type, conn) = s
         \/ \E k \in 1..Len(s) : /\ Erase(s, type, conn) = RemoveAt(s, k)
                                 /\ ErasedRid(s, type, conn) = s[k].rid
<1> DEFINE I == FirstMatch(s, type, conn)
           k == CHOOSE i \in I : TRUE
<1>1. CASE I = {}
  BY <1>1 DEF Erase
<1>2. CASE I # {}
  <2>1. k \in I
    BY <1>2
  <2>2. k \in 1..Len(s)
    BY <2>1 DEF FirstMatch, Matches
  <2>3. Erase(s, type, conn) = RemoveAt(s, k) /\ ErasedRid(s, type, conn) = s[k].rid
    BY <1>2 DEF Erase, ErasedRid, RidAt
  <2> QED BY <2>2, <2>3
<1> QED BY <1>1, <1>2

LEMMA SetAppend ==
  ASSUME NEW S, NEW s \in Seq(S), NEW e
  PROVE  ToSet(Append(s, e)) = ToSet(s) \cup {e}
<1>1. /\ DOMAIN Append(s, e) = 1..(Len(s) + 1) /\ DOMAIN s = 1..Len(s)
      /\ \A i \in 1..Len(s) : Append(s, e)[i] = s[i]
      /\ Append(s, e)[Len(s) + 1] = e
  OBVIOUS
<1>2. \A i \in 1..(Len(s) + 1) : Append(s, e)[i] \in ToSet(s) \cup {e}
  BY <1>1 DEF ToSet
<1>3. \A i \in 1..Len(s) : s[i] \in ToSet(Append(s, e))
  BY <1>1 DEF ToSet
<1>4. e \in ToSet(Append(s, e))
  BY <1>1 DEF ToSet
<1> QED BY <1>1, <1>2, <1>3, <1>4 DEF ToSet

-----------------------------------------------------------------------------
(* The steps.                                                              *)

DInv == IInv /\ Dispatching

LEMMA InitDInv == Init => DInv
<1> SUFFICES ASSUME Init PROVE DInv
  OBVIOUS
<1>1. /\ events = <<>> /\ queue = <<>> /\ owed = {} /\ ran = <<>> /\ msg = NoMessage
      /\ pc = "off" /\ wild = FALSE /\ serial = 0 /\ takenAt = 0
  BY DEF Init
<1>2. ToSet(events) = {} /\ ToSet(queue) = {} /\ ToSet(ran) = {}
  BY <1>1 DEF ToSet
<1>3. Grouped(events)
  BY <1>1 DEF Grouped
<1>4. NumbersOld
  BY <1>1, <1>2 DEF NumbersOld
<1>5. WildInHandler /\ MessageWalked /\ InPlace
  BY <1>1 DEF WildInHandler, MessageWalked, InPlace, Walking
<1>6. RegistrationOrder /\ OwnTypeUnlessNewer
  BY <1>1 DEF RegistrationOrder, OwnTypeUnlessNewer
<1> QED BY <1>3, <1>4, <1>5, <1>6, InitIInv DEF DInv, Dispatching

LEMMA CountersType ==
  ASSUME IInv
  PROVE  /\ serial \in Nat /\ takenAt \in Nat
         /\ \A m \in ToSet(queue) : m.id \in Nat
         /\ \A n \in ToSet(events) \cup owed \cup ToSet(ran) : n.rid \in Nat /\ n \in Registration
         /\ events \in Seq(Registration) /\ ran \in Seq(Registration)
<1> USE DEF IInv, TypeOK
<1>1. serial \in Nat
  BY SizeAssumption DEF CallType
<1>2. takenAt \in Nat
  BY SizeAssumption DEF HistoryType
<1>3. ToSet(events) \cup owed \cup ToSet(ran) \subseteq Registration
  BY DEF DataType, HistoryType, ToSet
<1>4. \A n \in Registration : n.rid \in Nat
  BY SizeAssumption DEF Registration, Rids
<1>5. ToSet(queue) \subseteq Message
  BY DEF DataType, ToSet
<1>6. \A m \in Message : m.id \in Nat
  BY SizeAssumption DEF Message, Rids
<1> QED BY <1>1, <1>2, <1>3, <1>4, <1>5, <1>6 DEF DataType, HistoryType

\* What the loop has is as it was, and the numbers given are new.
LEMMA FrameKeeps ==
  ASSUME Dispatching, UNCHANGED <<events, pc, wild, loopVars, owed, ran, takenAt>>,
         serial \in Nat, serial' \in Nat, serial <= serial',
         IInv, \A m \in ToSet(queue') : m.id <= serial'
  PROVE  Dispatching'
<1> USE DEF Dispatching, loopVars
<1>1. Grouped(events)'
  BY DEF Grouped
<1>2. NumbersOld'
  <2>1. ASSUME NEW n \in ToSet(events) \cup owed \cup ToSet(ran) PROVE n.rid <= serial'
    BY CountersType DEF NumbersOld
  <2>2. takenAt <= serial'
    BY CountersType DEF NumbersOld
  <2> QED BY <2>1, <2>2 DEF NumbersOld
<1>3. WildInHandler' /\ MessageWalked'
  BY DEF WildInHandler, MessageWalked, Walking
<1>4. InPlace'
  BY DEF InPlace, Walking, IsAt, Ahead
<1>5. RegistrationOrder' /\ OwnTypeUnlessNewer'
  BY DEF RegistrationOrder, OwnTypeUnlessNewer
<1> QED BY <1>1, <1>2, <1>3, <1>4, <1>5

\* run() is between its messages before and after the step.
LEMMA BetweenMessages ==
  ASSUME Dispatching, UNCHANGED <<events, queue, serial, wild, msg, owed, ran, takenAt>>,
         ~Walking, ~Walking', pc # "undefined",
         wild => pc' \in {"execTimer", "relockTimer", "undefined"}
  PROVE  Dispatching'
<1> USE DEF Dispatching
<1>1. Grouped(events)' /\ NumbersOld'
  BY DEF Grouped, NumbersOld
<1>2. WildInHandler' /\ MessageWalked' /\ InPlace'
  BY DEF WildInHandler, MessageWalked, InPlace
<1>3. RegistrationOrder' /\ OwnTypeUnlessNewer'
  BY DEF RegistrationOrder, OwnTypeUnlessNewer
<1> QED BY <1>1, <1>2, <1>3

\* The containers change only while run() holds nothing.
LEMMA OperationOutside ==
  ASSUME IInv, NEW t \in Threads, NEW op, Finish(t, op)
  PROVE  ~LoopInside /\ UNCHANGED <<pc, loopVars, owed, ran, takenAt>>
<1>1. owner = t /\ step[t] = "hold"
  BY DEF Finish, Mtx!Release
<1>2. ~LoopInside
  BY <1>1 DEF IInv, MutexInv
<1> QED BY <1>2 DEF Finish, history

LEMMA AddEventKeeps ==
  ASSUME DInv, NEW t \in Threads, AddEvent(t)
  PROVE  Dispatching'
<1> USE DEF DInv, Dispatching
<1>1. Finish(t, "addEvent") /\ serial' = serial + 1 /\ UNCHANGED queue
  BY DEF AddEvent
<1>2. ~LoopInside /\ UNCHANGED <<pc, loopVars, owed, ran, takenAt>>
  BY <1>1, OperationOutside
<1>3. PICK n \in Registration : n = NewNode(call[t])
  BY <1>1, FinishFacts, NewNodeType
<1>4. n.rid = serial + 1 /\ n.type = call[t].type
  BY <1>3 DEF NewNode
<1>5. PICK k \in InsertPoints(events, n.type) : events' = InsertAt(events, k, n)
  BY <1>3, <1>4 DEF AddEvent
<1>6. k \in 1..(Len(events) + 1)
  BY <1>5 DEF InsertPoints
<1>7. \A m \in ToSet(events) \cup owed \cup ToSet(ran) : m.rid < n.rid
  BY <1>4, CountersType DEF NumbersOld
<1>8. Grouped(events)'
  <2>1. \A i \in DOMAIN events : events[i].rid < n.rid
    BY <1>7 DEF ToSet
  <2> QED BY <1>5, <2>1, CountersType, GroupedInsert
<1>9. NumbersOld'
  <2>1. ToSet(events') = ToSet(events) \cup {n}
    BY <1>5, <1>6, CountersType, SetInsert
  <2>2. ASSUME NEW m \in ToSet(events') \cup owed \cup ToSet(ran) PROVE m.rid <= serial'
    BY <1>1, <1>4, <2>1, CountersType DEF NumbersOld
  <2>3. takenAt <= serial'
    BY <1>1, CountersType DEF NumbersOld
  <2>4. \A m \in ToSet(queue) : m.id <= serial'
    BY <1>1, CountersType DEF NumbersOld
  <2> QED BY <1>1, <1>2, <2>2, <2>3, <2>4 DEF NumbersOld, loopVars
<1>10. WildInHandler' /\ MessageWalked'
  <2>1. wild' => wild \/ InEvent
    BY DEF AddEvent
  <2> QED BY <1>2, <2>1 DEF WildInHandler, MessageWalked, Walking, InEvent, loopVars
<1>11. InPlace'
  <2>1. SUFFICES ASSUME Walking, ~wild, pc # "walk"
                 PROVE  \E p, q \in 1..(Len(events') + 1) :
                          /\ IsAt(events', itr, p) /\ IsAt(events', last, q)
                          /\ p < q /\ Ahead(events', p + 1, q)
    <3>1. pc # "walk" /\ (wild => wild')
      BY <1>2 DEF LoopInside, AddEvent
    <3> QED BY <1>2, <3>1 DEF InPlace, Walking, Ahead, IsAt, loopVars
  <2>2. PICK p, q \in 1..(Len(events) + 1) :
          /\ IsAt(events, itr, p) /\ IsAt(events, last, q)
          /\ p < q /\ Ahead(events, p + 1, q)
    BY <2>1 DEF InPlace
  <2> DEFINE a == IF p < k THEN p ELSE p + 1
             b == IF q < k THEN q ELSE q + 1
  <2>3. IsAt(events', itr, a) /\ IsAt(events', last, b)
    BY <1>5, <1>6, <2>2, CountersType, PlaceInsert
  <2>4. Ahead(events', a + 1, b)
    <3>1. n \notin owed /\ n.rid > takenAt
      BY <1>4, <1>7, CountersType DEF NumbersOld
    <3> QED BY <1>5, <1>6, <1>7, <2>2, <3>1, CountersType, AheadInsert
  <2>5. a < b
    BY <1>6, <2>2, CountersType
  <2>6. a \in 1..(Len(events') + 1) /\ b \in 1..(Len(events') + 1)
    BY <2>3 DEF IsAt
  <2> HIDE DEF a, b
  <2> QED BY <2>3, <2>4, <2>5, <2>6
<1>12. RegistrationOrder' /\ OwnTypeUnlessNewer'
  BY <1>2 DEF RegistrationOrder, OwnTypeUnlessNewer, loopVars
<1> QED BY <1>8, <1>9, <1>10, <1>11, <1>12

LEMMA DelEventKeeps ==
  ASSUME DInv, NEW t \in Threads, DelEvent(t)
  PROVE  Dispatching'
<1> USE DEF DInv, Dispatching
<1>1. Finish(t, "delEvent") /\ UNCHANGED <<serial, queue>>
  BY DEF DelEvent
<1>2. ~LoopInside /\ UNCHANGED <<pc, loopVars, owed, ran, takenAt>>
  BY <1>1, OperationOutside
<1> DEFINE node == ErasedRid(events, call[t].type, call[t].conn)
<1>3. events' = Erase(events, call[t].type, call[t].conn)
  BY DEF DelEvent
<1>4. /\ wild => wild'
      /\ wild' => wild \/ InTimer \/ InEvent
      /\ InEvent /\ node \in {itr, last} \ {End} => wild'
  BY DEF DelEvent
<1>5. CASE events' = events
  <2>1. Grouped(events)' /\ NumbersOld'
    BY <1>1, <1>2, <1>5 DEF Grouped, NumbersOld, loopVars
  <2>2. WildInHandler' /\ MessageWalked'
    BY <1>2, <1>4 DEF WildInHandler, MessageWalked, Walking, InTimer, InEvent, loopVars
  <2>3. InPlace'
    BY <1>2, <1>4, <1>5 DEF InPlace, Walking, IsAt, Ahead, loopVars
  <2>4. RegistrationOrder' /\ OwnTypeUnlessNewer'
    BY <1>2 DEF RegistrationOrder, OwnTypeUnlessNewer, loopVars
  <2> QED BY <2>1, <2>2, <2>3, <2>4
<1>6. CASE events' # events
  <2>1. PICK k \in 1..Len(events) :
          events' = RemoveAt(events, k) /\ node = events[k].rid
    BY <1>3, <1>6, CountersType, ErasedNode
  <2>2. Grouped(events)'
    BY <2>1, CountersType, GroupedRemove
  <2>3. NumbersOld'
    <3>1. ToSet(events') \subseteq ToSet(events)
      BY <1>3, CountersType, SetErase
    <3> QED BY <1>1, <1>2, <3>1 DEF NumbersOld, loopVars
  <2>4. WildInHandler' /\ MessageWalked'
    BY <1>2, <1>4 DEF WildInHandler, MessageWalked, Walking, InTimer, InEvent, loopVars
  <2>5. InPlace'
    <3>1. SUFFICES ASSUME Walking, ~wild', pc # "walk"
                   PROVE  \E p, q \in 1..(Len(events') + 1) :
                            /\ IsAt(events', itr, p) /\ IsAt(events', last, q)
                            /\ p < q /\ Ahead(events', p + 1, q)
      <4>1. pc # "walk"
        BY <1>2 DEF LoopInside
      <4> QED BY <1>2, <4>1 DEF InPlace, Walking, Ahead, IsAt, loopVars
    <3>2. PICK p, q \in 1..(Len(events) + 1) :
            /\ IsAt(events, itr, p) /\ IsAt(events, last, q)
            /\ p < q /\ Ahead(events, p + 1, q)
      BY <1>4, <3>1 DEF InPlace
    <3>3. events[k].rid # End /\ InEvent
      BY <3>1, CountersType, ElementType DEF Walking, InEvent
    <3>4. p # k /\ q # k
      BY <1>4, <2>1, <3>1, <3>2, <3>3 DEF IsAt
    <3> DEFINE a == IF p < k THEN p ELSE p - 1
               b == IF q < k THEN q ELSE q - 1
    <3>5. IsAt(events', itr, a) /\ IsAt(events', last, b)
      BY <2>1, <3>2, <3>4, CountersType, PlaceRemove
    <3>6. Ahead(events', a + 1, b)
      BY <2>1, <3>2, <3>4, CountersType, AheadRemove
    <3>7. a < b
      BY <2>1, <3>2, <3>4, CountersType
    <3>8. a \in 1..(Len(events') + 1) /\ b \in 1..(Len(events') + 1)
      BY <3>5 DEF IsAt
    <3> HIDE DEF a, b
    <3> QED BY <3>5, <3>6, <3>7, <3>8
  <2>6. RegistrationOrder' /\ OwnTypeUnlessNewer'
    BY <1>2 DEF RegistrationOrder, OwnTypeUnlessNewer, loopVars
  <2> QED BY <2>2, <2>3, <2>4, <2>5, <2>6
<1> QED BY <1>5, <1>6

LEMMA OtherOperationKeeps ==
  ASSUME DInv, NEW t \in Threads, AddTimer(t) \/ SendMessage(t)
  PROVE  Dispatching'
<1> USE DEF DInv
<1>1. PICK op : Finish(t, op)
  BY DEF AddTimer, SendMessage
<1>2. UNCHANGED <<pc, loopVars, owed, ran, takenAt>>
  BY <1>1, OperationOutside
<1>3. UNCHANGED <<events, wild>> /\ serial' = serial + 1
  BY DEF AddTimer, SendMessage, mapVars
<1>4. \A m \in ToSet(queue) : m.id <= serial'
  BY <1>3, CountersType DEF Dispatching, NumbersOld
<1>5. \A m \in ToSet(queue') : m.id <= serial'
  <2>1. CASE AddTimer(t)
    BY <1>4, <2>1 DEF AddTimer
  <2>2. CASE SendMessage(t)
    <3>1. ToSet(queue') = ToSet(queue) \cup {[id |-> serial + 1, type |-> call[t].type]}
      BY <2>2, SetAppend DEF SendMessage, IInv, TypeOK, DataType
    <3> QED BY <1>3, <1>4, <3>1, CountersType
  <2> QED BY <2>1, <2>2
<1> QED BY <1>2, <1>3, <1>5, CountersType, FrameKeeps

-----------------------------------------------------------------------------
(* The steps of run() that dispatch a message.                             *)

\* The iterators are valid again whenever run() holds the mutex.
LEMMA WalkPlaces ==
  ASSUME DInv, pc = "walk"
  PROVE  \E p, q \in 1..(Len(events) + 1) :
           /\ IsAt(events, itr, p) /\ IsAt(events, last, q)
           /\ p <= q /\ Ahead(events, p, q)
  BY DEF DInv, Dispatching, WildInHandler, InPlace, Walking

LEMMA TakeMessageKeeps ==
  ASSUME DInv, TakeMessage
  PROVE  Dispatching'
<1> USE DEF DInv, Dispatching
<1>1. UNCHANGED <<events, wild, serial>> /\ pc = "poll" /\ pc' = "walk" /\ ran' = <<>>
  BY DEF TakeMessage, mapVars, callVars
<1>2. /\ msg' = Head(queue) /\ Head(queue) \in Message /\ Head(queue) \in ToSet(queue)
      /\ ToSet(queue') \subseteq ToSet(queue)
  BY DEF TakeMessage, IInv, TypeOK, DataType, ToSet
<1>3. ToSet(ran') = {}
  BY <1>1 DEF ToSet
<1>4. Grouped(events)'
  BY <1>1 DEF Grouped
<1>5. NumbersOld'
  <2>1. owed' \subseteq ToSet(events)
    BY DEF TakeMessage
  <2>2. takenAt' <= serial'
    BY <1>1, CountersType DEF TakeMessage
  <2> QED BY <1>1, <1>2, <1>3, <2>1, <2>2 DEF NumbersOld
<1>6. WildInHandler' /\ MessageWalked'
  BY <1>1, <1>2 DEF WildInHandler, MessageWalked, Walking
<1>7. InPlace'
  <2> DEFINE T == Head(queue).type
  <2>1. PICK p, q \in 1..(Len(events) + 1) :
          /\ IsAt(events, First(events, T), p) /\ IsAt(events, PastLast(events, T), q)
          /\ p <= q
          /\ \A i \in DOMAIN events : events[i].type = T <=> p <= i /\ i < q
    BY CountersType, EqualRange
  <2>2. itr' = First(events, T) /\ last' = PastLast(events, T)
        /\ owed' = {n \in ToSet(events) : n.type = T} /\ msg'.type = T
    BY <1>2 DEF TakeMessage
  <2>3. Ahead(events, p, q)'
    BY <1>1, <1>3, <2>1, <2>2 DEF Ahead
  <2>4. IsAt(events, itr, p)' /\ IsAt(events, last, q)'
    BY <1>1, <2>1, <2>2
  <2> QED BY <1>1, <2>1, <2>3, <2>4 DEF InPlace, IsAt
<1>8. RegistrationOrder' /\ OwnTypeUnlessNewer'
  BY <1>1 DEF RegistrationOrder, OwnTypeUnlessNewer
<1> QED BY <1>4, <1>5, <1>6, <1>7, <1>8

\* The handler that runs is the one at the iterator's place.
LEMMA RunsNext ==
  ASSUME DInv, RunHandler,
         NEW p \in 1..(Len(events) + 1), NEW q \in 1..(Len(events) + 1),
         IsAt(events, itr, p), IsAt(events, last, q), p <= q
  PROVE  /\ p < q /\ p \in DOMAIN events
         /\ ran' = Append(ran, events[p])
         /\ ToSet(ran') = ToSet(ran) \cup {events[p]}
<1>1. PICK i \in DOMAIN events : events[i].rid = itr /\ ran' = Append(ran, events[i])
  BY DEF RunHandler
<1>2. events \in Seq(Registration) /\ ran \in Seq(Registration) /\ Grouped(events)
  BY CountersType DEF DInv, Dispatching
<1>3. IsAt(events, itr, i)
  BY <1>1, <1>2 DEF IsAt
<1>4. i = p
  BY <1>2, <1>3, PlaceUnique
<1>5. p # q
  BY DEF RunHandler, IsAt
<1> QED BY <1>1, <1>2, <1>4, <1>5, SetAppend

LEMMA RunHandlerKeeps ==
  ASSUME DInv, RunHandler
  PROVE  Dispatching'
<1> USE DEF DInv, Dispatching
<1>1. /\ UNCHANGED <<events, queue, serial, wild, loopVars, owed, takenAt>>
      /\ pc = "walk" /\ pc' = "execEvent"
  BY DEF RunHandler, LoopFrame, mapVars, callVars
<1>2. PICK p, q \in 1..(Len(events) + 1) :
        /\ IsAt(events, itr, p) /\ IsAt(events, last, q)
        /\ p <= q /\ Ahead(events, p, q)
  BY <1>1, WalkPlaces
<1>3. /\ p < q /\ p \in DOMAIN events
      /\ ran' = Append(ran, events[p])
      /\ ToSet(ran') = ToSet(ran) \cup {events[p]}
  BY <1>2, RunsNext
<1>4. /\ events[p].type = msg.type \/ events[p].rid > takenAt
      /\ \A n \in ToSet(ran) : n.type = events[p].type => n.rid < events[p].rid
  BY <1>2, <1>3 DEF Ahead
<1>5. Grouped(events)'
  BY <1>1 DEF Grouped
<1>6. NumbersOld'
  <2>1. events[p] \in ToSet(events)
    BY <1>3 DEF ToSet
  <2> QED BY <1>1, <1>3, <2>1 DEF NumbersOld, loopVars
<1>7. WildInHandler' /\ MessageWalked'
  BY <1>1 DEF WildInHandler, MessageWalked, Walking, loopVars
<1>8. InPlace'
  <2>1. DOMAIN events = 1..Len(events)
    BY CountersType
  <2>2. ASSUME NEW i \in DOMAIN events, events[i] \in owed \ ToSet(ran')
        PROVE  p + 1 <= i /\ i < q
    <3>1. p <= i /\ i < q /\ i # p
      BY <1>2, <1>3, <2>2 DEF Ahead
    <3> QED BY <2>1, <3>1
  <2>3. ASSUME NEW i \in DOMAIN events, p + 1 <= i, i < q
        PROVE  /\ events[i].type = msg.type \/ events[i].rid > takenAt
               /\ \A n \in ToSet(ran') : n.type = events[i].type => n.rid < events[i].rid
    <3>1. p <= i /\ p < i
      BY <2>1, <2>3
    <3>2. events[p].type = events[i].type => events[p].rid < events[i].rid
      BY <1>3, <3>1 DEF Grouped
    <3> QED BY <1>2, <1>3, <2>3, <3>1, <3>2 DEF Ahead
  <2>4. Ahead(events, p + 1, q)'
    BY <1>1, <2>2, <2>3 DEF Ahead, loopVars
  <2>5. IsAt(events, itr, p)' /\ IsAt(events, last, q)' /\ events' = events
    BY <1>1, <1>2 DEF loopVars
  <2> QED BY <1>1, <1>3, <2>4, <2>5 DEF InPlace
<1>9. ran \in Seq(Registration) /\ Len(ran) \in Nat
      /\ DOMAIN ran = 1..Len(ran) /\ DOMAIN ran' = 1..(Len(ran) + 1)
      /\ ran'[Len(ran) + 1] = events[p]
      /\ \A i \in 1..Len(ran) : ran'[i] = ran[i] /\ ran[i] \in ToSet(ran)
  BY <1>3, CountersType DEF ToSet
<1>10. RegistrationOrder'
  BY <1>4, <1>9 DEF RegistrationOrder
<1>11. OwnTypeUnlessNewer'
  BY <1>1, <1>4, <1>9 DEF OwnTypeUnlessNewer, loopVars
<1> QED BY <1>5, <1>6, <1>7, <1>8, <1>10, <1>11

LEMMA RelockEventKeeps ==
  ASSUME DInv, RelockEvent
  PROVE  Dispatching'
<1> USE DEF DInv, Dispatching
<1>1. /\ UNCHANGED <<events, queue, serial, wild, last, msg, owed, ran, takenAt>>
      /\ pc = "relockEvent"
  BY DEF RelockEvent, LoopFrame, mapVars, callVars, history
<1>2. Grouped(events)' /\ NumbersOld'
  BY <1>1 DEF Grouped, NumbersOld
<1>3. IF wild THEN pc' = "undefined" ELSE pc' = "walk" /\ itr' = Successor(events, itr)
  BY DEF RelockEvent
<1>4. WildInHandler' /\ MessageWalked'
  BY <1>1, <1>3 DEF WildInHandler, MessageWalked, Walking
<1>5. InPlace'
  <2>1. CASE wild
    BY <1>1, <1>3, <2>1 DEF InPlace, Walking
  <2>2. CASE ~wild
    <3>1. PICK p, q \in 1..(Len(events) + 1) :
            /\ IsAt(events, itr, p) /\ IsAt(events, last, q)
            /\ p < q /\ Ahead(events, p + 1, q)
      BY <1>1, <2>2 DEF InPlace, Walking
    <3>2. p <= Len(events) /\ p + 1 \in 1..(Len(events) + 1) /\ p + 1 <= q
      BY <3>1, CountersType
    <3>3. IsAt(events, itr', p + 1)
      BY <1>3, <2>2, <3>1, <3>2, CountersType, SuccessorPlace
    <3>4. Ahead(events, p + 1, q)' /\ IsAt(events, itr, p + 1)' /\ IsAt(events, last, q)'
      BY <1>1, <3>1, <3>3 DEF Ahead
    <3>5. \E f, l \in 1..(Len(events') + 1) :
            IsAt(events, itr, f)' /\ IsAt(events, last, l)' /\ f <= l /\ Ahead(events, f, l)'
      BY <1>1, <3>2, <3>4
    <3> QED BY <1>3, <2>2, <3>5 DEF InPlace
  <2> QED BY <2>1, <2>2
<1>6. RegistrationOrder' /\ OwnTypeUnlessNewer'
  BY <1>1 DEF RegistrationOrder, OwnTypeUnlessNewer
<1> QED BY <1>2, <1>4, <1>5, <1>6

LEMMA MessageDoneKeeps ==
  ASSUME DInv, MessageDone
  PROVE  Dispatching'
<1> USE DEF DInv, Dispatching
<1>1. /\ UNCHANGED <<events, queue, serial, wild>> /\ pc = "walk" /\ pc' = "check"
      /\ msg' = NoMessage /\ owed' = {} /\ ran' = <<>> /\ takenAt' = 0
  BY DEF MessageDone, LoopFrame, mapVars, callVars
<1>2. ToSet(ran') = {}
  BY <1>1 DEF ToSet
<1>3. Grouped(events)' /\ NumbersOld'
  BY <1>1, <1>2, CountersType DEF Grouped, NumbersOld
<1>4. WildInHandler' /\ MessageWalked' /\ InPlace'
  BY <1>1 DEF WildInHandler, MessageWalked, InPlace, Walking
<1>5. RegistrationOrder' /\ OwnTypeUnlessNewer'
  BY <1>1 DEF RegistrationOrder, OwnTypeUnlessNewer
<1> QED BY <1>3, <1>4, <1>5

\* The other steps of run() neither take a message nor move in its list.
LEMMA OtherLoopKeeps ==
  ASSUME DInv, \/ CallRun \/ EnterRun \/ CheckRunning \/ LockCycle \/ RunTimer \/ TimersDone
               \/ RelockTimer \/ QueueEmpty \/ HandlerReturns
  PROVE  Dispatching'
<1> USE DEF DInv
<1>1. UNCHANGED <<events, queue, serial, wild, msg, owed, ran, takenAt>>
  BY DEF CallRun, EnterRun, CheckRunning, LockCycle, RunTimer, TimersDone, RelockTimer,
         QueueEmpty, HandlerReturns, LoopFrame, mapVars, loopVars, callVars, history
<1>2. CASE pc = "execEvent"
  <2>1. UNCHANGED <<itr, last>> /\ pc' = "relockEvent"
    BY <1>2 DEF CallRun, EnterRun, CheckRunning, LockCycle, RunTimer, TimersDone, RelockTimer,
                QueueEmpty, HandlerReturns, loopVars
  <2> USE DEF Dispatching
  <2>2. Grouped(events)' /\ NumbersOld' /\ RegistrationOrder' /\ OwnTypeUnlessNewer'
    BY <1>1 DEF Grouped, NumbersOld, RegistrationOrder, OwnTypeUnlessNewer
  <2>3. WildInHandler' /\ MessageWalked'
    BY <1>1, <1>2, <2>1 DEF WildInHandler, MessageWalked, Walking
  <2>4. InPlace'
    BY <1>1, <1>2, <2>1 DEF InPlace, Walking, IsAt, Ahead
  <2> QED BY <2>2, <2>3, <2>4
<1>3. CASE pc # "execEvent"
  <2>1. ~Walking /\ ~Walking' /\ pc # "undefined"
    BY <1>3 DEF CallRun, EnterRun, CheckRunning, LockCycle, RunTimer, TimersDone, RelockTimer,
                QueueEmpty, HandlerReturns, Walking
  <2>2. wild => pc' \in {"execTimer", "relockTimer", "undefined"}
    BY <1>3 DEF CallRun, EnterRun, CheckRunning, LockCycle, RunTimer, TimersDone, RelockTimer,
                QueueEmpty, HandlerReturns, Dispatching, WildInHandler
  <2> QED BY <1>1, <2>1, <2>2, BetweenMessages
<1> QED BY <1>2, <1>3

LEMMA FrameSteps ==
  ASSUME DInv,
         \/ \E t \in Threads : MakeCall(t) \/ Acquire(t) \/ Stop(t)
         \/ \E r \in Rids : TimerRings(r)
         \/ Undefined \/ UNCHANGED vars
  PROVE  Dispatching'
<1>1. UNCHANGED <<events, pc, wild, loopVars, owed, ran, takenAt, serial, queue>>
  BY DEF MakeCall, Acquire, Stop, TimerRings, Undefined, vars, mapVars, callVars, history
<1>2. \A m \in ToSet(queue') : m.id <= serial'
  BY <1>1 DEF DInv, Dispatching, NumbersOld
<1> QED BY <1>1, <1>2, CountersType, FrameKeeps DEF DInv

LEMMA NextDInv == DInv /\ [Next]_vars => DInv'
<1> SUFFICES ASSUME DInv, [Next]_vars PROVE DInv'
  OBVIOUS
<1>1. IInv'
  BY NextIInv DEF DInv
<1>2. ASSUME NEW t \in Threads, Operation(t) PROVE Dispatching'
  BY <1>2, AddEventKeeps, DelEventKeeps, OtherOperationKeeps DEF Operation
<1>3. ASSUME LoopLocks \/ LoopMoves \/ CallRun PROVE Dispatching'
  BY <1>3, TakeMessageKeeps, RunHandlerKeeps, RelockEventKeeps, MessageDoneKeeps, OtherLoopKeeps
     DEF LoopLocks, LoopMoves
<1>4. Dispatching'
  BY <1>2, <1>3, FrameSteps DEF Next
<1> QED BY <1>1, <1>4 DEF DInv

LEMMA SpecDInv == Spec => []DInv
  BY InitDInv, NextDInv, PTL DEF Spec

-----------------------------------------------------------------------------
\* What run() promises about one message (EventLoop.cpp:83-95, EventLoop.h:71): it
\* does not leave the message before every handler that was registered for its type
\* when it took it has run or has been unregistered, whatever was registered,
\* unregistered and sent meanwhile, by handlers or by other threads.
THEOREM NoHandlerMissed == Spec => []DeliveredToAll
<1>1. ASSUME DInv PROVE DeliveredToAll
  <2>1. SUFFICES ASSUME pc = "walk", itr = last, NEW r \in owed \cap ToSet(events)
                 PROVE  r \in ToSet(ran)
    BY DEF DeliveredToAll
  <2>2. PICK p, q \in 1..(Len(events) + 1) :
          /\ IsAt(events, itr, p) /\ IsAt(events, last, q)
          /\ p <= q /\ Ahead(events, p, q)
    BY <1>1, <2>1, WalkPlaces
  <2>3. p = q
    BY <1>1, <2>1, <2>2, CountersType, PlaceUnique DEF DInv, Dispatching
  <2>4. PICK i \in DOMAIN events : events[i] = r
    BY <2>1 DEF ToSet
  <2>5. i \in 1..Len(events)
    BY <1>1, CountersType DEF DInv
  <2> QED BY <2>1, <2>2, <2>3, <2>4, <2>5 DEF Ahead
<1> QED BY <1>1, SpecDInv, PTL

\* The handlers of one type run in the order of their registration, and none runs
\* twice for one message (EventLoop.h:71-72).
THEOREM HandlersInOrder == Spec => []RegistrationOrder
<1>1. DInv => RegistrationOrder
  BY DEF DInv, Dispatching
<1> QED BY <1>1, SpecDInv, PTL

\* A handler of another type is only reached when it was registered after the
\* message was taken, and so can have come between the two iterators.
THEOREM ForeignOnlyIfNewer == Spec => []OwnTypeUnlessNewer
<1>1. DInv => OwnTypeUnlessNewer
  BY DEF DInv, Dispatching
<1> QED BY <1>1, SpecDInv, PTL

-----------------------------------------------------------------------------
(* The steps as Dispatcher sees them.                                      *)

LEMMA InitContract == Init => Contract!Init
  BY DEF Init, Contract!Init, ToSet

LEMMA AddEventRegisters ==
  ASSUME DInv, NEW t \in Threads, AddEvent(t)
  PROVE  Contract!Next
<1>1. Finish(t, "addEvent")
  BY DEF AddEvent
<1>2. PICK n \in Registration : n = NewNode(call[t])
  BY <1>1, FinishFacts, NewNodeType DEF DInv
<1>3. PICK k \in InsertPoints(events, call[t].type) : events' = InsertAt(events, k, n)
  BY <1>2 DEF AddEvent
<1>4. ToSet(events') = ToSet(events) \cup {n}
  BY <1>3, CountersType, SetInsert DEF DInv, InsertPoints
<1>5. n \notin ToSet(events)
  BY <1>2, CountersType DEF DInv, Dispatching, NumbersOld, NewNode
<1>6. UNCHANGED <<queue, msg, owed, ran, takenAt>>
  BY <1>1, OperationOutside DEF DInv, AddEvent, loopVars
<1>7. Contract!Register(n)
  BY <1>4, <1>5, <1>6 DEF Contract!Register
<1> QED BY <1>7 DEF Contract!Next

LEMMA DelEventUnregisters ==
  ASSUME DInv, NEW t \in Threads, DelEvent(t)
  PROVE  [Contract!Next]_(Contract!dvars)
<1>1. UNCHANGED <<queue, msg, owed, ran, takenAt>>
  BY OperationOutside DEF DInv, DelEvent, loopVars
<1>2. CASE events' = events
  BY <1>1, <1>2 DEF Contract!dvars
<1>3. CASE events' # events
  <2>1. PICK k \in 1..Len(events) : events' = RemoveAt(events, k)
    BY <1>3, CountersType, ErasedNode DEF DInv, DelEvent
  <2>2. events[k] \in Registration /\ events[k] \in ToSet(events)
    BY CountersType, ElementType DEF DInv, ToSet
  <2>3. ToSet(events') = ToSet(events) \ {events[k]}
    <3>1. /\ Len(events') = Len(events) - 1 /\ DOMAIN events' = 1..Len(events')
          /\ \A j \in 1..(Len(events) - 1) :
               events'[j] = IF j < k THEN events[j] ELSE events[j + 1]
      BY <2>1, CountersType, RemoveAtElements DEF DInv
    <3>2. DOMAIN events = 1..Len(events) /\ Len(events) \in Nat
      BY CountersType DEF DInv
    <3>3. \A j \in 1..Len(events) : j # k => events[j] # events[k]
      BY <3>2 DEF DInv, Dispatching, Grouped
    <3>4. \A j \in DOMAIN events' : events'[j] # events[k]
      BY <3>1, <3>2, <3>3
    <3>5. events[k] \notin ToSet(events')
      BY <3>4 DEF ToSet
    <3> QED BY <2>1, <3>5, CountersType, SetRemove DEF DInv
  <2>4. Contract!Unregister(events[k])
    BY <1>1, <2>2, <2>3 DEF Contract!Unregister
  <2> QED BY <2>2, <2>4 DEF Contract!Next
<1> QED BY <1>2, <1>3

LEMMA SendMessageSends ==
  ASSUME DInv, NEW t \in Threads, SendMessage(t)
  PROVE  Contract!Next
<1>1. Finish(t, "send") /\ UNCHANGED <<events, msg, owed, ran, takenAt>>
  BY OperationOutside DEF DInv, SendMessage, mapVars, loopVars
<1>2. [id |-> serial + 1, type |-> call[t].type] \in Message
  BY <1>1, FinishFacts DEF DInv, Message, Call
<1>3. Contract!Send([id |-> serial + 1, type |-> call[t].type])
  BY <1>1 DEF SendMessage, Contract!Send
<1> QED BY <1>2, <1>3 DEF Contract!Next

LEMMA TakeMessageTakes ==
  ASSUME DInv, TakeMessage
  PROVE  Contract!Take
<1>1. msg = NoMessage
  BY DEF TakeMessage, DInv, Dispatching, MessageWalked, Walking
<1>2. ToSet(ran') = {} /\ UNCHANGED events
  BY DEF TakeMessage, ToSet, mapVars
<1> QED BY <1>1, <1>2 DEF TakeMessage, Contract!Take

LEMMA MessageWalkedReal ==
  ASSUME DInv, pc = "walk"
  PROVE  msg # NoMessage
<1>1. msg \in Message
  BY DEF DInv, Dispatching, MessageWalked, Walking
<1> QED BY <1>1 DEF Message, NoMessage, Rids

LEMMA RunHandlerHandles ==
  ASSUME DInv, RunHandler
  PROVE  Contract!Next
<1>1. /\ UNCHANGED <<events, queue, msg, owed>> /\ pc = "walk"
  BY DEF RunHandler, LoopFrame, mapVars, loopVars
<1>2. PICK p, q \in 1..(Len(events) + 1) :
        /\ IsAt(events, itr, p) /\ IsAt(events, last, q)
        /\ p <= q /\ Ahead(events, p, q)
  BY <1>1, WalkPlaces
<1>3. p < q /\ p \in DOMAIN events /\ ToSet(ran') = ToSet(ran) \cup {events[p]}
  BY <1>2, RunsNext
<1>4. events[p] \in Registration /\ events[p] \in ToSet(events) /\ events[p].rid \in Nat
  BY <1>3, CountersType, ElementType DEF DInv, ToSet
<1>5. events[p] \notin ToSet(ran)
  <2>1. SUFFICES ASSUME events[p] \in ToSet(ran) PROVE FALSE
    OBVIOUS
  <2>2. events[p].rid < events[p].rid
    BY <1>2, <1>3, <2>1 DEF Ahead
  <2> QED BY <1>4, <2>2
<1>6. Contract!Handle(events[p])
  BY <1>1, <1>3, <1>4, <1>5, MessageWalkedReal DEF Contract!Handle
<1> QED BY <1>4, <1>6 DEF Contract!Next

LEMMA MessageDoneLeaves ==
  ASSUME DInv, DeliveredToAll, MessageDone
  PROVE  Contract!Leave
<1>1. owed \cap ToSet(events) \subseteq ToSet(ran)
  BY DEF DeliveredToAll, MessageDone
<1>2. ToSet(ran') = {} /\ UNCHANGED <<events, queue>> /\ pc = "walk"
  BY DEF MessageDone, ToSet, LoopFrame, mapVars
<1> QED BY <1>1, <1>2, MessageWalkedReal DEF MessageDone, Contract!Leave

LEMMA OtherStepsStutter ==
  ASSUME \/ \E t \in Threads : MakeCall(t) \/ Acquire(t) \/ AddTimer(t) \/ Stop(t)
         \/ \E r \in Rids : TimerRings(r)
         \/ CallRun \/ EnterRun \/ CheckRunning \/ LoopLocks \/ RunTimer \/ TimersDone
         \/ QueueEmpty \/ HandlerReturns \/ Undefined \/ UNCHANGED vars
  PROVE  UNCHANGED Contract!dvars
<1>1. CASE \E t \in Threads : MakeCall(t) \/ Acquire(t) \/ AddTimer(t) \/ Stop(t)
  BY <1>1 DEF MakeCall, Acquire, AddTimer, Finish, Stop, mapVars, loopVars, history, Contract!dvars
<1>2. CASE LoopLocks
  BY <1>2 DEF LoopLocks, LockCycle, RelockTimer, RelockEvent, LoopFrame, mapVars, loopVars,
              history, Contract!dvars
<1>3. CASE \/ \E r \in Rids : TimerRings(r)
           \/ CallRun \/ EnterRun \/ CheckRunning \/ RunTimer \/ TimersDone
           \/ QueueEmpty \/ HandlerReturns \/ Undefined \/ UNCHANGED vars
  BY <1>3 DEF TimerRings, CallRun, EnterRun, CheckRunning, RunTimer, TimersDone, QueueEmpty,
              HandlerReturns, Undefined, LoopFrame, vars, mapVars, loopVars, history,
              Contract!dvars
<1> QED BY <1>1, <1>2, <1>3

\* The loop implements Dispatcher: with its threads, its mutex and its iterators it
\* does nothing that the abstract dispatcher, which has none of them, may not do.
THEOREM KeepsContract == Spec => ImplementsDispatcher
<1>1. ASSUME DInv, DeliveredToAll, [Next]_vars PROVE [Contract!Next]_(Contract!dvars)
  BY <1>1, AddEventRegisters, DelEventUnregisters, SendMessageSends, TakeMessageTakes,
     RunHandlerHandles, MessageDoneLeaves, OtherStepsStutter
     DEF Next, Operation, LoopMoves, Contract!Next
<1> QED
  BY <1>1, InitContract, SpecDInv, NoHandlerMissed, PTL
     DEF Spec, ImplementsDispatcher, Contract!Spec
=============================================================================
