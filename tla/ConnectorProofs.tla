-------------------------- MODULE ConnectorProofs --------------------------
(***************************************************************************)
(* Proofs about the loop as its users have it, for every set of clients    *)
(* and every bound.  Connector refines EventLoop, so that what             *)
(* EventLoopProofs shows holds of it too.  A thread holds the loop exactly *)
(* while it creates a Connector or is in a call, which makes               *)
(* LivesWhileUsed follow.  ForeignHandlersStay rests on the ids being      *)
(* distinct when Connectors are created one at a time, and on every node   *)
(* carrying the id of the client that registered it.                       *)
(***************************************************************************)
EXTENDS Connector, EventLoopProofs

CreationType ==
  /\ creation \in [Clients -> {"none", "loaded", "stored", "done"}]
  /\ lastId \in Nat
  /\ loaded \in [Clients -> Nat] /\ id \in [Clients -> Nat]
  /\ via \in [Threads -> Clients \cup {NoThread}]
  /\ by \in [Rids -> Clients \cup {NoThread}]

RunKept == pc # "off" => kept
CallersDone == \A t \in Clients : step[t] # "idle" => creation[t] = "done"
HoldersInside == holding = Creating \cup Busy

LifeInv == IInv /\ CreationType /\ RunKept /\ CallersDone /\ HoldersInside

-----------------------------------------------------------------------------
\* Each step of the composition is one of the loop or leaves it alone.
LEMMA StepOfLoop == [ConnectorNext]_cvars => [Next]_vars
<1> SUFFICES ASSUME [ConnectorNext]_cvars PROVE [Next]_vars
  OBVIOUS
<1>1. ASSUME NEW t \in Clients, Creates(t) PROVE UNCHANGED vars
  BY <1>1 DEF Creates, LoadId, StoreId, MakeConnector
<1>2. ASSUME NEW t \in Threads, NEW u \in Clients, Ask(t, u) PROVE Next
  BY <1>2 DEF Ask, Next
<1>3. ASSUME NEW t \in Threads, Waits(t) \/ Return(t) \/ StopLoop(t) PROVE Next
  BY <1>3 DEF Waits, Return, StopLoop, Next
<1>4. ASSUME NEW r \in Rids, Rings(r) PROVE Next
  BY <1>4 DEF Rings, Next
<1>5. CASE RunLoop \/ Locks \/ Moves \/ Meaningless
  BY <1>5 DEF RunLoop, Locks, Moves, Meaningless, Next
<1>6. CASE LetGo \/ Expired \/ UNCHANGED cvars
  BY <1>6 DEF LetGo, Expired, cvars
<1> QED BY <1>1, <1>2, <1>3, <1>4, <1>5, <1>6 DEF ConnectorNext

\* The users of Connectors call the loop in no way that EventLoop does not allow.
THEOREM RefinesEventLoop == ConnectorSpec => Spec
<1>1. ConnectorInit => Init
  BY DEF ConnectorInit
<1> QED BY <1>1, StepOfLoop, PTL DEF ConnectorSpec, Spec

-----------------------------------------------------------------------------
(* The steps inside the loop.                                              *)

Inside ==
  \/ \E t \in Threads : Waits(t) \/ StopLoop(t)
  \/ \E r \in Rids : Rings(r)
  \/ RunLoop \/ Locks \/ Moves \/ Meaningless

\* They neither register, remove nor call, and leave "off" only by run().
LEMMA InsideFacts ==
  ASSUME IInv, Inside
  PROVE  /\ UNCHANGED <<connectorVars, events, timers, call, serial>>
         /\ \A t \in Threads : step'[t] = "idle" <=> step[t] = "idle"
         /\ pc' # "off" => kept \/ pc # "off"
<1>1. ASSUME NEW t \in Threads, Waits(t)
      PROVE  /\ UNCHANGED <<connectorVars, events, timers, call, serial, pc>>
             /\ \A s \in Threads : step'[s] = "idle" <=> step[s] = "idle"
  BY <1>1 DEF Waits, Within, Acquire, mapVars, IInv, TypeOK, CallType
<1>2. ASSUME NEW t \in Threads, StopLoop(t)
      PROVE  UNCHANGED <<connectorVars, events, timers, step, call, serial, pc>>
  BY <1>2 DEF StopLoop, Stop, Within, mapVars, callVars
<1>3. ASSUME NEW r \in Rids, Rings(r)
      PROVE  UNCHANGED <<connectorVars, events, timers, step, call, serial, pc>>
  BY <1>3 DEF Rings, TimerRings, Within, mapVars, callVars
<1>4. CASE RunLoop
  BY <1>4 DEF RunLoop, CallRun, Within, LoopFrame, mapVars, callVars
<1>5. CASE Locks
  BY <1>5 DEF Locks, LoopLocks, LockCycle, RelockTimer, RelockEvent, Within, LoopFrame,
              mapVars, callVars
<1>6. CASE Moves
  BY <1>6 DEF Moves, LoopMoves, EnterRun, CheckRunning, RunTimer, TimersDone, HandlerReturns,
              QueueEmpty, TakeMessage, RunHandler, MessageDone, Within, LoopFrame, mapVars, callVars
<1>7. CASE Meaningless
  BY <1>7 DEF Meaningless, Undefined, Within, vars, mapVars, callVars
<1> QED BY <1>1, <1>2, <1>3, <1>4, <1>5, <1>6, <1>7 DEF Inside

-----------------------------------------------------------------------------
LEMMA InitLifeInv == ConnectorInit => LifeInv
<1> SUFFICES ASSUME ConnectorInit PROVE LifeInv
  OBVIOUS
<1>1. IInv
  BY InitIInv DEF ConnectorInit
<1>2. CreationType
  BY DEF ConnectorInit, CreationType
<1>3. RunKept /\ CallersDone /\ HoldersInside
  BY ThreadAssumption
     DEF ConnectorInit, Init, RunKept, CallersDone, HoldersInside, Creating, Busy, Threads
<1> QED BY <1>1, <1>2, <1>3 DEF LifeInv

LEMMA CreatesLife ==
  ASSUME LifeInv, NEW t \in Clients, Creates(t)
  PROVE  CreationType' /\ RunKept' /\ CallersDone' /\ HoldersInside'
<1> USE DEF LifeInv, CreationType, RunKept, CallersDone, HoldersInside
<1>1. UNCHANGED <<vars, useVars, kept>> /\ t \in Threads
  BY DEF Creates, LoadId, StoreId, MakeConnector, pointers, Threads
<1>2. CreationType'
  BY <1>1 DEF Creates, LoadId, StoreId, MakeConnector, useVars
<1>3. Busy' = Busy /\ UNCHANGED <<pc, step>>
  BY <1>1 DEF Busy, vars, callVars
<1>4. step[t] = "idle" /\ t \notin Busy
  BY <1>1 DEF Creates, LoadId, StoreId, MakeConnector, Busy
<1>5. CallersDone'
  BY <1>3, <1>4 DEF Creates, LoadId, StoreId, MakeConnector
<1>6. HoldersInside'
  <2>1. CASE LoadId(t)
    <3>1. Creating' = Creating \cup {t}
      BY <2>1 DEF LoadId, Creating
    <3> QED BY <2>1, <3>1, <1>3 DEF LoadId
  <2>2. CASE StoreId(t)
    <3>1. Creating' = Creating
      BY <2>2 DEF StoreId, Creating
    <3> QED BY <2>2, <3>1, <1>3 DEF StoreId, pointers
  <2>3. CASE MakeConnector(t)
    <3>1. Creating' = Creating \ {t}
      BY <2>3 DEF MakeConnector, Creating
    <3> QED BY <2>3, <3>1, <1>3, <1>4 DEF MakeConnector
  <2> QED BY <2>1, <2>2, <2>3 DEF Creates
<1> QED BY <1>1, <1>2, <1>3, <1>5, <1>6

LEMMA AskLife ==
  ASSUME LifeInv, NEW t \in Threads, NEW u \in Clients, Ask(t, u)
  PROVE  CreationType' /\ RunKept' /\ CallersDone' /\ HoldersInside'
<1> USE DEF LifeInv, CreationType, RunKept, CallersDone, HoldersInside, Ask, LockLoop, MakeCall
<1>1. UNCHANGED <<creationVars, by, kept, pc>>
  OBVIOUS
<1>2. CreationType'
  BY <1>1 DEF creationVars
<1>3. step' = [step EXCEPT ![t] = "wait"] /\ step \in [Threads -> {"idle", "wait", "hold"}]
  BY DEF IInv, TypeOK, CallType
<1>4. CallersDone'
  BY <1>1, <1>3, ThreadAssumption DEF creationVars, Threads
<1>5. Busy' = Busy \cup {t} /\ Creating' = Creating
  BY <1>1, <1>3 DEF Busy, Creating, creationVars
<1>6. HoldersInside'
  BY <1>5
<1> QED BY <1>1, <1>2, <1>4, <1>6

LEMMA ReturnLife ==
  ASSUME LifeInv, NEW t \in Threads, Return(t)
  PROVE  CreationType' /\ RunKept' /\ CallersDone' /\ HoldersInside'
<1> USE DEF LifeInv, CreationType, RunKept, CallersDone, HoldersInside, Return
<1>1. /\ UNCHANGED <<creationVars, kept, pc>>
      /\ step[t] = "hold" /\ step' = [step EXCEPT ![t] = "idle"]
      /\ step \in [Threads -> {"idle", "wait", "hold"}]
  BY DEF Operation, AddEvent, AddTimer, DelEvent, SendMessage, Finish, IInv, TypeOK, CallType
<1>2. CreationType'
  BY <1>1 DEF creationVars
<1>3. CallersDone'
  BY <1>1 DEF creationVars, Threads
<1>4. Busy' = Busy \ {t} /\ Creating' = Creating /\ t \notin Creating
  BY <1>1 DEF Busy, Creating, creationVars
<1>5. HoldersInside'
  BY <1>4
<1> QED BY <1>1, <1>2, <1>3, <1>5

LEMMA InsideLife ==
  ASSUME LifeInv, Inside
  PROVE  CreationType' /\ RunKept' /\ CallersDone' /\ HoldersInside'
<1> USE DEF LifeInv, CreationType, RunKept, CallersDone, HoldersInside
<1>1. UNCHANGED connectorVars
  BY InsideFacts
<1>2. CreationType'
  BY <1>1 DEF connectorVars, creationVars, useVars
<1>3. RunKept'
  BY <1>1, InsideFacts DEF connectorVars, pointers
<1>4. CallersDone'
  BY <1>1, InsideFacts DEF connectorVars, creationVars, Threads
<1>5. Busy' = Busy
  BY InsideFacts DEF Busy
<1>6. HoldersInside'
  BY <1>1, <1>5 DEF connectorVars, creationVars, pointers, Creating
<1> QED BY <1>2, <1>3, <1>4, <1>6

LEMMA LetGoLife ==
  ASSUME LifeInv, LetGo \/ UNCHANGED cvars
  PROVE  CreationType' /\ RunKept' /\ CallersDone' /\ HoldersInside'
<1>1. UNCHANGED <<vars, holding, creationVars, useVars>>
  BY DEF LetGo, cvars, connectorVars, pointers
<1>2. UNCHANGED <<pc, step>> /\ Busy' = Busy /\ Creating' = Creating
  BY <1>1 DEF vars, callVars, creationVars, Busy, Creating
<1>3. RunKept'
  BY <1>2 DEF LetGo, cvars, connectorVars, pointers, LifeInv, RunKept
<1> QED
  BY <1>1, <1>2, <1>3
     DEF LifeInv, CreationType, CallersDone, HoldersInside, creationVars, useVars

LEMMA NextLifeInv == LifeInv /\ [ConnectorNext]_cvars => LifeInv'
<1> SUFFICES ASSUME LifeInv, [ConnectorNext]_cvars PROVE LifeInv'
  OBVIOUS
<1>1. IInv'
  BY StepOfLoop, NextIInv DEF LifeInv
<1>2. CreationType' /\ RunKept' /\ CallersDone' /\ HoldersInside'
  BY CreatesLife, AskLife, ReturnLife, InsideLife, LetGoLife DEF ConnectorNext, Inside, Expired
<1> QED BY <1>1, <1>2 DEF LifeInv

\* Nobody is inside a loop that is gone, and the loop goes when its owner has let go
\* of it and the last call returns: no Connector and no handler keeps it.
THEOREM LoopLivesWhileUsed == ConnectorSpec => []LivesWhileUsed
<1>1. LifeInv => LivesWhileUsed
  BY DEF LifeInv, RunKept, HoldersInside, Busy, LivesWhileUsed, Alive
<1> QED BY <1>1, InitLifeInv, NextLifeInv, PTL DEF ConnectorSpec

-----------------------------------------------------------------------------
(* No id is higher than the number of Connectors begun, race or no race.   *)

Begun == {t \in Clients : creation[t] \in {"stored", "done"}}

IdsCounted ==
  /\ kept \in BOOLEAN
  /\ lastId <= Cardinality(Begun)
  /\ \A t \in Clients :
       /\ creation[t] = "loaded" => loaded[t] <= Cardinality(Begun)
       /\ creation[t] = "stored" => loaded[t] + 1 <= Cardinality(Begun)
       /\ creation[t] \in {"none", "done"} => loaded[t] = 0
       /\ id[t] <= Cardinality(Begun)

LEMMA BegunBounds == Cardinality(Begun) \in Nat /\ Cardinality(Begun) <= Cardinality(Clients)
<1>1. IsFiniteSet(Clients) /\ Begun \in SUBSET Clients
  BY ThreadAssumption DEF Begun
<1> QED BY <1>1, FS_Subset, FS_CardinalityType

LEMMA InitCounted == ConnectorInit => IdsCounted
<1>1. Cardinality(Begun) \in Nat
  BY BegunBounds
<1> QED BY <1>1 DEF ConnectorInit, IdsCounted

LEMMA CreatesCounted ==
  ASSUME LifeInv, IdsCounted, NEW t \in Clients, Creates(t)
  PROVE  IdsCounted'
<1> USE DEF LifeInv, CreationType, IdsCounted
<1> DEFINE n == Cardinality(Begun)
           m == Cardinality(Begun')
<1>1. IsFiniteSet(Begun) /\ n \in Nat
  BY ThreadAssumption, FS_Subset, FS_CardinalityType DEF Begun
<1>2. CASE LoadId(t)
  <2>1. Begun' = Begun /\ kept' = kept
    BY <1>2 DEF LoadId, Begun
  <2> HIDE DEF n
  <2> QED BY <1>1, <1>2, <2>1 DEF LoadId, n
<1>3. CASE StoreId(t)
  <2>1. Begun' = Begun \cup {t} /\ t \notin Begun /\ kept' = kept
    BY <1>3 DEF StoreId, Begun, pointers
  <2>2. m = n + 1
    BY <1>1, <2>1, FS_AddElement
  <2>3. /\ lastId' = loaded[t] + 1 /\ loaded' = loaded /\ id' = id
        /\ creation' = [creation EXCEPT ![t] = "stored"] /\ creation[t] = "loaded"
    BY <1>3 DEF StoreId
  <2>4. loaded[t] <= n /\ loaded[t] \in Nat
    BY <2>3
  <2> HIDE DEF n, m
  <2>5. \A u \in Clients :
          /\ creation'[u] = "loaded" => loaded'[u] <= m
          /\ creation'[u] = "stored" => loaded'[u] + 1 <= m
          /\ creation'[u] \in {"none", "done"} => loaded'[u] = 0
          /\ id'[u] <= m
    <3> TAKE u \in Clients
    <3>1. loaded[u] \in Nat /\ id[u] \in Nat
      OBVIOUS
    <3> QED BY <1>1, <2>2, <2>3, <2>4, <3>1 DEF n
  <2> QED BY <1>1, <2>1, <2>2, <2>3, <2>4, <2>5 DEF m
<1>4. CASE MakeConnector(t)
  <2>1. Begun' = Begun /\ kept' = kept
    BY <1>4 DEF MakeConnector, Begun
  <2>2. PICK new \in {loaded[t] + 1, lastId} : id' = [id EXCEPT ![t] = new]
    BY <1>4 DEF MakeConnector
  <2>3. new <= n
    BY <1>4, <2>2 DEF MakeConnector
  <2> HIDE DEF n
  <2> QED BY <1>1, <1>4, <2>1, <2>2, <2>3 DEF MakeConnector, n
<1> QED BY <1>2, <1>3, <1>4 DEF Creates

LEMMA NextCounted == LifeInv /\ IdsCounted /\ [ConnectorNext]_cvars => IdsCounted'
<1> SUFFICES ASSUME LifeInv, IdsCounted, [ConnectorNext]_cvars PROVE IdsCounted'
  OBVIOUS
<1>1. CASE \E t \in Clients : Creates(t)
  BY <1>1, CreatesCounted
<1>2. CASE UNCHANGED creationVars /\ kept' \in BOOLEAN
  BY <1>2 DEF IdsCounted, Begun, creationVars
<1>3. ASSUME NEW t \in Threads, NEW u \in Clients, Ask(t, u)
      PROVE  UNCHANGED creationVars /\ kept' = kept
  BY <1>3 DEF Ask, LockLoop
<1>4. ASSUME NEW t \in Threads, Return(t) PROVE UNCHANGED creationVars /\ kept' = kept
  BY <1>4 DEF Return
<1>5. CASE Inside
  BY <1>2, <1>5, InsideFacts DEF LifeInv, connectorVars, pointers, IdsCounted
<1>6. CASE LetGo \/ UNCHANGED cvars
  BY <1>2, <1>6 DEF LetGo, cvars, connectorVars, pointers, IdsCounted
<1> QED
  BY <1>1, <1>2, <1>3, <1>4, <1>5, <1>6 DEF ConnectorNext, Inside, Expired, IdsCounted

\* The callers, the pointers and the ids stay within their types, though two threads
\* may be in createConnector at once: a counter that loses an increment gives ids
\* that are too low, never one that is out of range.
THEOREM ConnectorTypeKept == ConnectorSpec => []ConnectorTypeOK
<1>1. LifeInv /\ IdsCounted => ConnectorTypeOK
  <2> SUFFICES ASSUME LifeInv, IdsCounted PROVE ConnectorTypeOK
    OBVIOUS
  <2>1. holding \subseteq Threads
    BY DEF LifeInv, HoldersInside, Creating, Busy, Threads
  <2>2. \A k \in Nat : k <= Cardinality(Begun) => k \in Conns
    <3>1. Cardinality(Clients) \in Nat
      BY ThreadAssumption, FS_CardinalityType
    <3>2. \A k \in Nat : k <= Cardinality(Begun) => k \in 0..Cardinality(Clients)
      BY <3>1, BegunBounds
    <3> QED BY <3>2, CreationAssumption
  <2>3. lastId \in Conns
    BY <2>2 DEF LifeInv, CreationType, IdsCounted
  <2>4. ASSUME NEW t \in Clients PROVE loaded[t] \in Conns /\ id[t] \in Conns
    <3>1. loaded[t] <= Cardinality(Begun)
      BY BegunBounds DEF LifeInv, CreationType, IdsCounted
    <3>2. id[t] <= Cardinality(Begun) /\ loaded[t] \in Nat /\ id[t] \in Nat
      BY DEF LifeInv, CreationType, IdsCounted
    <3> QED BY <2>2, <3>1, <3>2
  <2>5. loaded \in [Clients -> Conns] /\ id \in [Clients -> Conns]
    BY <2>4 DEF LifeInv, CreationType
  <2>6. TypeOK /\ kept \in BOOLEAN
    BY DEF LifeInv, IInv, IdsCounted
  <2> QED BY <2>1, <2>3, <2>5, <2>6 DEF LifeInv, CreationType, ConnectorTypeOK
<1> QED BY <1>1, InitLifeInv, NextLifeInv, InitCounted, NextCounted, PTL DEF ConnectorSpec

-----------------------------------------------------------------------------
(* The ids, when one thread at a time is in createConnector.               *)

OneCreates == \A t, u \in Creating : t = u

IdsGiven ==
  /\ \A t \in Clients : creation[t] = "loaded" => loaded[t] = lastId
  /\ \A t \in Clients : creation[t] = "stored" => lastId = loaded[t] + 1
  /\ \A t \in Clients : creation[t] = "done" =>
       /\ id[t] <= lastId
       /\ \A u \in Clients : creation[u] = "stored" => id[t] <= loaded[u]

IdsDistinct ==
  \A t, u \in Clients :
    creation[t] = "done" /\ creation[u] = "done" /\ id[t] = id[u] => t = u

IdInv == CreationType /\ OneCreates /\ IdsGiven /\ IdsDistinct

LEMMA InitIdInv == ConnectorInit => OneCreates /\ IdsGiven /\ IdsDistinct
  BY DEF ConnectorInit, OneCreates, IdsGiven, IdsDistinct, Creating

LEMMA CreatesIdInv ==
  ASSUME ~Concurrently, IdInv, NEW t \in Clients, Creates(t)
  PROVE  OneCreates' /\ IdsGiven' /\ IdsDistinct'
<1> USE DEF IdInv, CreationType, OneCreates, Creating
<1>1. CASE LoadId(t)
  <2>1. \A u \in Clients : creation[u] \notin {"loaded", "stored"}
    BY <1>1 DEF LoadId
  <2> QED BY <1>1, <2>1 DEF LoadId, IdsGiven, IdsDistinct
<1>2. CASE StoreId(t)
  <2>1. \A u \in Clients \ {t} : creation[u] \notin {"loaded", "stored"}
    BY <1>2 DEF StoreId
  <2> QED BY <1>2, <2>1 DEF StoreId, IdsGiven, IdsDistinct
<1>3. CASE MakeConnector(t)
  <2>1. \A u \in Clients \ {t} : creation[u] \notin {"loaded", "stored"}
    BY <1>3 DEF MakeConnector
  <2>2. id' = [id EXCEPT ![t] = lastId] /\ lastId = loaded[t] + 1
    BY <1>3 DEF MakeConnector, IdsGiven
  <2>3. \A u \in Clients : creation[u] = "done" => id[u] < lastId
    BY <1>3, <2>2 DEF MakeConnector, IdsGiven
  <2> QED BY <1>3, <2>1, <2>2, <2>3 DEF MakeConnector, IdsGiven, IdsDistinct
<1> QED BY <1>1, <1>2, <1>3 DEF Creates

\* Only createConnector changes what it works on.
LEMMA CreationFrame ==
  ASSUME IInv, ConnectorNext, \A t \in Clients : ~Creates(t)
  PROVE  UNCHANGED creationVars
<1>1. ASSUME NEW t \in Threads, NEW u \in Clients, Ask(t, u) PROVE UNCHANGED creationVars
  BY <1>1 DEF Ask
<1>2. ASSUME NEW t \in Threads, Return(t) PROVE UNCHANGED creationVars
  BY <1>2 DEF Return
<1>3. CASE Inside
  BY <1>3, InsideFacts DEF connectorVars
<1>4. CASE LetGo \/ Expired
  BY <1>4 DEF LetGo, Expired, cvars, connectorVars
<1> QED BY <1>1, <1>2, <1>3, <1>4 DEF ConnectorNext, Inside

LEMMA NextIdInv ==
  ASSUME ~Concurrently, LifeInv, IdInv, [ConnectorNext]_cvars
  PROVE  OneCreates' /\ IdsGiven' /\ IdsDistinct'
<1>1. CASE \E t \in Clients : Creates(t)
  BY <1>1, CreatesIdInv
<1>2. CASE UNCHANGED creationVars
  BY <1>2 DEF IdInv, OneCreates, IdsGiven, IdsDistinct, Creating, creationVars
<1> QED BY <1>1, <1>2, CreationFrame DEF LifeInv, cvars, connectorVars

-----------------------------------------------------------------------------
(* Whose the nodes and the calls are.                                      *)

Owned(n) ==
  /\ n.rid <= serial
  /\ by[n.rid] \in Clients
  /\ creation[by[n.rid]] = "done"
  /\ n.conn = id[by[n.rid]]

NodesOwned == \A n \in ToSet(events) \cup ToSet(timers) : Owned(n)

CallsOwn ==
  \A t \in Threads : step[t] # "idle" =>
    /\ via[t] \in Clients
    /\ creation[via[t]] = "done"
    /\ call[t].op # "send" => call[t].conn = id[via[t]]

OwnInv == LifeInv /\ IdInv /\ NodesOwned /\ CallsOwn

LEMMA NodeFacts ==
  ASSUME IInv
  PROVE  ToSet(events) \subseteq Registration /\ ToSet(timers) \subseteq Registration
  BY DEF IInv, TypeOK, DataType, ToSet

\* While a client creates its Connector, what is done stays as it is.
LEMMA DoneStays ==
  ASSUME CreationType, NEW t \in Clients, Creates(t),
         NEW u \in Clients, creation[u] = "done"
  PROVE  creation'[u] = "done" /\ id'[u] = id[u]
  BY DEF Creates, LoadId, StoreId, MakeConnector, CreationType

LEMMA CreatesOwn ==
  ASSUME OwnInv, NEW t \in Clients, Creates(t)
  PROVE  NodesOwned' /\ CallsOwn'
<1> USE DEF OwnInv, LifeInv
<1>1. UNCHANGED <<vars, useVars>>
  BY DEF Creates, LoadId, StoreId, MakeConnector
<1>2. UNCHANGED <<events, timers, serial, step, call, by, via>>
  BY <1>1 DEF vars, mapVars, callVars, useVars
<1>3. NodesOwned'
  BY <1>2, DoneStays DEF NodesOwned, Owned
<1>4. CallsOwn'
  BY <1>2, DoneStays DEF CallsOwn
<1> QED BY <1>3, <1>4

LEMMA AskOwn ==
  ASSUME OwnInv, NEW t \in Threads, NEW u \in Clients, Ask(t, u)
  PROVE  NodesOwned' /\ CallsOwn'
<1> USE DEF OwnInv, LifeInv
<1>1. UNCHANGED <<events, timers, serial, creation, id, by>>
  BY DEF Ask, MakeCall, mapVars, creationVars
<1>2. NodesOwned'
  BY <1>1 DEF NodesOwned, Owned
<1>3. /\ via' = [via EXCEPT ![t] = u]
      /\ creation[u] = "done"
      /\ call'[t].op # "send" => call'[t].conn = id[u]
      /\ step' = [step EXCEPT ![t] = "wait"]
      /\ \A s \in Threads \ {t} : call'[s] = call[s]
  BY DEF Ask, MakeCall, IInv, TypeOK, CallType
<1>4. CallsOwn'
  BY <1>1, <1>3 DEF CallsOwn, CreationType, IInv, TypeOK, CallType
<1> QED BY <1>2, <1>4

LEMMA ReturnOwn ==
  ASSUME OwnInv, NEW t \in Threads, Return(t)
  PROVE  NodesOwned' /\ CallsOwn'
<1> USE DEF OwnInv, LifeInv
<1>1. PICK op : Finish(t, op)
  BY DEF Return, Operation, AddEvent, AddTimer, DelEvent, SendMessage
<1>2. /\ UNCHANGED <<creation, id>>
      /\ step[t] = "hold" /\ step' = [step EXCEPT ![t] = "idle"]
      /\ \A s \in Threads \ {t} : call'[s] = call[s] /\ via'[s] = via[s]
  BY <1>1 DEF Finish, Return, creationVars, IInv, TypeOK, CallType, CreationType
<1>3. CallsOwn'
  BY <1>2 DEF CallsOwn, IInv, TypeOK, CallType
<1>4. /\ via[t] \in Clients /\ creation[via[t]] = "done"
      /\ call[t].op # "send" => call[t].conn = id[via[t]]
      /\ serial + 1 \in Rids /\ serial \in Nat
      /\ NewNode(call[t]) \in Registration
  BY <1>1, <1>2, FinishFacts, NewNodeType DEF CallsOwn, IInv, TypeOK, CallType
<1>5. CASE AddEvent(t) \/ AddTimer(t)
  <2>1. serial' = serial + 1 /\ by' = [by EXCEPT ![serial + 1] = via[t]] /\ call[t].op # "send"
    BY <1>5 DEF Return, AddEvent, AddTimer, Finish
  <2>2. PICK new : new = NewNode(call[t])
    OBVIOUS
  <2>3. ToSet(events') \cup ToSet(timers') = ToSet(events) \cup ToSet(timers) \cup {new}
    BY <1>4, <1>5, <2>2, AddedNode
  <2>4. ASSUME NEW n \in ToSet(events) \cup ToSet(timers) PROVE Owned(n)'
    <3>1. n.rid \in Rids /\ Owned(n)
      BY NodeFacts DEF NodesOwned, Registration
    <3>2. by'[n.rid] = by[n.rid]
      BY <1>4, <2>1, <3>1 DEF Owned, CreationType, Rids
    <3> QED BY <1>2, <1>4, <2>1, <3>1, <3>2 DEF Owned, Rids
  <2>5. Owned(new)'
    BY <1>2, <1>4, <2>1, <2>2 DEF Owned, NewNode, CreationType
  <2> QED BY <1>3, <2>3, <2>4, <2>5 DEF NodesOwned
<1>6. CASE DelEvent(t) \/ SendMessage(t)
  <2>1. UNCHANGED by /\ serial' \in {serial, serial + 1}
    BY <1>6 DEF Return, DelEvent, SendMessage, Finish
  <2>2. ToSet(events') \subseteq ToSet(events) /\ ToSet(timers') \subseteq ToSet(timers)
    BY <1>6, SetErase DEF DelEvent, SendMessage, mapVars, IInv, TypeOK, DataType
  <2>3. ASSUME NEW n \in ToSet(events) \cup ToSet(timers) PROVE Owned(n)'
    <3>1. n.rid \in Rids /\ Owned(n)
      BY NodeFacts DEF NodesOwned, Registration
    <3> QED BY <1>2, <1>4, <2>1, <3>1 DEF Owned, Rids
  <2> QED BY <1>3, <2>2, <2>3 DEF NodesOwned
<1> QED BY <1>5, <1>6 DEF Return, Operation

LEMMA OtherOwn ==
  ASSUME OwnInv, Inside \/ LetGo \/ UNCHANGED cvars
  PROVE  NodesOwned' /\ CallsOwn'
<1> USE DEF OwnInv, LifeInv
<1>1. /\ UNCHANGED <<events, timers, call, serial, by, via, creation, id>>
      /\ \A t \in Threads : step'[t] = "idle" <=> step[t] = "idle"
  BY InsideFacts DEF LetGo, cvars, connectorVars, useVars, creationVars, vars, mapVars, callVars
<1>2. NodesOwned'
  BY <1>1 DEF NodesOwned, Owned
<1>3. CallsOwn'
  BY <1>1 DEF CallsOwn
<1> QED BY <1>2, <1>3

LEMMA NextOwnInv == ~Concurrently /\ OwnInv /\ [ConnectorNext]_cvars => OwnInv'
<1> SUFFICES ASSUME ~Concurrently, OwnInv, [ConnectorNext]_cvars PROVE OwnInv'
  OBVIOUS
<1>1. LifeInv'
  BY NextLifeInv DEF OwnInv
<1>2. IdInv'
  BY <1>1, NextIdInv DEF OwnInv, IdInv, LifeInv
<1>3. NodesOwned' /\ CallsOwn'
  BY CreatesOwn, AskOwn, ReturnOwn, OtherOwn DEF ConnectorNext, Inside, Expired
<1> QED BY <1>1, <1>2, <1>3 DEF OwnInv

LEMMA InitOwnInv == ConnectorInit => OwnInv
<1> SUFFICES ASSUME ConnectorInit PROVE OwnInv
  OBVIOUS
<1>1. NodesOwned /\ CallsOwn
  BY DEF ConnectorInit, Init, NodesOwned, CallsOwn, ToSet
<1> QED BY <1>1, InitLifeInv, InitIdInv DEF OwnInv, IdInv, LifeInv

-----------------------------------------------------------------------------
\* A step that removes a node is the end of its own client's delEvent.
LEMMA RemovedByOwn ==
  ASSUME OwnInv, ConnectorNext, NEW r \in Nodes \ Nodes'
  PROVE  \E t \in Threads : step[t] = "hold" /\ step'[t] = "idle" /\ by[r] = via[t]
<1> USE DEF OwnInv, LifeInv
<1>1. PICK n \in ToSet(events) \cup ToSet(timers) :
        r = n.rid /\ n \notin ToSet(events') \cup ToSet(timers')
  BY DEF Nodes, NodeRids, ToSet
<1>2. PICK t \in Threads : Return(t)
  <2>1. ~Inside
    BY <1>1, InsideFacts
  <2>2. ~LetGo /\ ~Expired
    BY <1>1 DEF LetGo, Expired, cvars, vars, mapVars
  <2>3. \A u \in Clients : ~Creates(u)
    BY <1>1 DEF Creates, LoadId, StoreId, MakeConnector, vars, mapVars
  <2>4. \A s \in Threads, u \in Clients : ~Ask(s, u)
    BY <1>1 DEF Ask, MakeCall, mapVars
  <2> QED BY <2>1, <2>2, <2>3, <2>4 DEF ConnectorNext, Inside
<1>3. DelEvent(t)
  <2>1. PICK op : Finish(t, op)
    BY <1>2 DEF Return, Operation, AddEvent, AddTimer, DelEvent, SendMessage
  <2>2. NewNode(call[t]) \in Registration
    BY <2>1, FinishFacts, NewNodeType
  <2>3. ~AddEvent(t) /\ ~AddTimer(t)
    BY <1>1, <2>2, AddedNode
  <2>4. ~SendMessage(t)
    BY <1>1 DEF SendMessage, mapVars
  <2> QED BY <1>2, <2>3, <2>4 DEF Return, Operation
<1>4. step[t] = "hold" /\ step'[t] = "idle" /\ call[t].op = "delEvent"
  BY <1>3 DEF DelEvent, Finish, IInv, TypeOK, CallType
<1>5. n.conn = call[t].conn
  BY <1>1, <1>3, SetErase DEF DelEvent, IInv, TypeOK, DataType
<1>6. by[r] = via[t]
  BY <1>1, <1>4, <1>5 DEF NodesOwned, Owned, CallsOwn, IdInv, IdsDistinct
<1> QED BY <1>4, <1>6

\* A Connector cannot remove the handlers of others, as long as createConnector is
\* called by one thread at a time (EventLoop.h:15-20, EventLoop.cpp:156).
THEOREM ForeignHandlersKept == ~Concurrently /\ ConnectorSpec => ForeignHandlersStay
<1> DEFINE Removed == \A r \in Nodes \ Nodes' : \E t \in Threads :
                        step[t] = "hold" /\ step'[t] = "idle" /\ by[r] = via[t]
<1> SUFFICES ASSUME ~Concurrently PROVE ConnectorSpec => ForeignHandlersStay
  OBVIOUS
<1>1. OwnInv /\ [ConnectorNext]_cvars => OwnInv'
  BY NextOwnInv
<1>2. OwnInv /\ [ConnectorNext]_cvars => [Removed]_cvars
  BY RemovedByOwn
<1> QED BY <1>1, <1>2, InitOwnInv, PTL DEF ConnectorSpec, ForeignHandlersStay
=============================================================================
