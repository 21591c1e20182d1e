------------------------------ MODULE Connector ------------------------------
(***************************************************************************)
(* The event loop as its users have it: one owner holds the loop, every    *)
(* other part has a Connector (src/src/event_loop/Connector.cpp) with a    *)
(* weak pointer to it and an id, under which its handlers are registered.  *)
(* The owner creates the loop, lends it to those who call createConnector, *)
(* calls run() and lets go of it at any time after that, while others are  *)
(* still inside.  Handlers use the Connectors of the clients.              *)
(*                                                                         *)
(* The loop exists as long as somebody holds a shared_ptr to it, so there  *)
(* is no variable for its destruction: see Alive.                          *)
(***************************************************************************)
EXTENDS EventLoop

CONSTANT Concurrently     \* may two threads be in createConnector at once?

\* There is an id for every client: last_id_connector is an int.
ASSUME CreationAssumption ==
  /\ Concurrently \in BOOLEAN
  /\ 0..Cardinality(Clients) \subseteq Conns

VARIABLES
  kept,         \* the owner still holds the loop
  holding,      \* the threads that hold it for the length of a call
  lastId,       \* last_id_connector
  creation,     \* per client: its progress in createConnector
  loaded,       \* per client: what it read in ++last_id_connector
  id,           \* per client: the id of its Connector, 0 before it has one
  via,          \* per thread: whose Connector its call goes through
  by            \* history: who registered a node

pointers == <<kept, holding>>
creationVars == <<lastId, creation, loaded, id>>
useVars == <<via, by>>
connectorVars == <<pointers, creationVars, useVars>>
cvars == <<vars, connectorVars>>

Creating == {t \in Clients : creation[t] \in {"loaded", "stored"}}
Alive == kept \/ holding # {}

ConnectorTypeOK ==
  /\ TypeOK
  /\ kept \in BOOLEAN
  /\ holding \subseteq Threads
  /\ lastId \in Conns
  /\ creation \in [Clients -> {"none", "loaded", "stored", "done"}]
  /\ loaded \in [Clients -> Conns] /\ id \in [Clients -> Conns]
  /\ via \in [Threads -> Clients \cup {NoThread}]
  /\ by \in [Rids -> Clients \cup {NoThread}]

ConnectorInit ==
  /\ Init
  /\ kept = TRUE /\ holding = {}
  /\ lastId = 0
  /\ creation = [t \in Clients |-> "none"]
  /\ loaded = [t \in Clients |-> 0] /\ id = [t \in Clients |-> 0]
  /\ via = [t \in Threads |-> NoThread]
  /\ by = [r \in Rids |-> NoThread]

-----------------------------------------------------------------------------
(* createConnector, by a client that is lent the loop.  ++last_id_connector *)
(* is a read and a write without a lock, and make_shared passes the counter *)
(* on by reference: the id is what was written, or what is there by then.  *)

LoadId(t) ==
  /\ kept
  /\ creation[t] = "none"
  /\ Concurrently \/ Creating = {}
  /\ creation' = [creation EXCEPT ![t] = "loaded"]
  /\ loaded' = [loaded EXCEPT ![t] = lastId]
  /\ holding' = holding \cup {t}
  /\ UNCHANGED <<vars, kept, lastId, id, useVars>>

MutantStoreId(t) ==  \* last_id_connector + 1
  /\ creation[t] = "loaded"
  /\ creation' = [creation EXCEPT ![t] = "stored"]
  /\ UNCHANGED <<vars, pointers, lastId, loaded, id, useVars>>

StoreId(t) ==
  /\ creation[t] = "loaded"
  /\ creation' = [creation EXCEPT ![t] = "stored"]
  /\ lastId' = loaded[t] + 1
  /\ UNCHANGED <<vars, pointers, loaded, id, useVars>>

MutantMakeConnector(t) ==  \* the counter goes up again for the argument
  /\ creation[t] = "stored"
  /\ creation' = [creation EXCEPT ![t] = "done"]
  /\ lastId' = lastId + 1
  /\ id' = [id EXCEPT ![t] = lastId']
  /\ loaded' = [loaded EXCEPT ![t] = 0]
  /\ holding' = holding \ {t}
  /\ UNCHANGED <<vars, kept, useVars>>

MakeConnector(t) ==
  /\ creation[t] = "stored"
  /\ creation' = [creation EXCEPT ![t] = "done"]
  /\ \E n \in {loaded[t] + 1, lastId} : id' = [id EXCEPT ![t] = n]
  /\ loaded' = [loaded EXCEPT ![t] = 0]
  /\ holding' = holding \ {t}
  /\ UNCHANGED <<vars, kept, lastId, useVars>>

-----------------------------------------------------------------------------
(* The operations of a Connector.                                          *)

MutantLockLoop(t) ==  \* a plain pointer
  Alive /\ UNCHANGED pointers

\* event_loop.lock() gives a pointer.
LockLoop(t) ==
  /\ Alive
  /\ holding' = holding \cup {t}
  /\ UNCHANGED kept

\* A client uses its own Connector, a handler that of the client it belongs to.  A
\* message that is null never gets this far: sendMessage returns false before it
\* asks for the loop, and nothing changes.
Ask(t, u) ==
  /\ t \in {u, LoopThread}
  /\ creation[u] = "done"
  /\ LockLoop(t)
  /\ MakeCall(t)
  /\ call'[t].conn \in {id[u], 0}
  /\ call'[t].op # "send" => call'[t].conn = id[u]
  /\ via' = [via EXCEPT ![t] = u]
  /\ UNCHANGED <<creationVars, by>>

\* The operation returns, and the pointer goes.
Return(t) ==
  /\ Operation(t)
  /\ holding' = holding \ {t}
  /\ via' = [via EXCEPT ![t] = NoThread]
  /\ by' = IF call[t].op \in {"addEvent", "addTimer"}
           THEN [by EXCEPT ![serial + 1] = via[t]] ELSE by
  /\ UNCHANGED <<kept, creationVars>>

\* The loop is gone: all that is left is operations that return false.
Expired == ~Alive /\ UNCHANGED cvars

\* The end of the owner's scope, behind run().
LetGo ==
  /\ kept
  /\ pc = "off"
  /\ kept' = FALSE
  /\ UNCHANGED <<vars, holding, creationVars, useVars>>

-----------------------------------------------------------------------------
(* What goes on inside the loop.  run() and stop() need the loop itself.   *)

Within == UNCHANGED connectorVars

Waits(t) == Acquire(t) /\ Within
Locks == LoopLocks /\ Within
Moves == LoopMoves /\ Within
StopLoop(t) == kept /\ Stop(t) /\ Within
RunLoop == kept /\ CallRun /\ Within
Rings(r) == TimerRings(r) /\ Within
Meaningless == Undefined /\ Within
Creates(t) == LoadId(t) \/ StoreId(t) \/ MakeConnector(t)

ConnectorNext ==
  \/ \E t \in Clients : Creates(t)
  \/ \E t \in Threads : \E u \in Clients : Ask(t, u)
  \/ \E t \in Threads : Waits(t) \/ Return(t) \/ StopLoop(t)
  \/ \E r \in Rids : Rings(r)
  \/ RunLoop \/ Locks \/ Moves \/ Meaningless
  \/ LetGo \/ Expired

ConnectorSpec == ConnectorInit /\ [][ConnectorNext]_cvars

\* As in EventLoop: threads are scheduled, handlers return, and waiters are served.
ConnectorFairSpec ==
  /\ ConnectorSpec
  /\ WF_cvars(Moves) /\ SF_cvars(Locks)
  /\ \A t \in Threads : SF_cvars(Waits(t)) /\ WF_cvars(Return(t))

-----------------------------------------------------------------------------
\* Nobody is inside a loop that has been destroyed, and no Connector and no handler
\* keeps it from being destroyed when its owner has gone and the last call returns.
LivesWhileUsed ==
  Alive <=> \/ kept \/ pc # "off"
            \/ Creating # {} \/ \E t \in Threads : step[t] # "idle"

Nodes == NodeRids(events) \cup NodeRids(timers)

\* A Connector cannot remove the handlers of others (EventLoop.h:15-20), provided
\* that createConnector is called by one thread at a time.
ForeignHandlersStay ==
  [][\A r \in Nodes \ Nodes' : \E t \in Threads :
       step[t] = "hold" /\ step'[t] = "idle" /\ by[r] = via[t]]_cvars
=============================================================================
