------------------------------- MODULE Mutex -------------------------------
(***************************************************************************)
(* The class Mutex (src/src/serial/Mutex.cpp): a Windows mutex object      *)
(* behind lock() and release().  Windows mutexes are recursive: the owner  *)
(* may lock again, and the mutex is free once it has released as often.    *)
(* lock() waits without a time limit, so it is an action that is enabled   *)
(* only when the wait can end.  release() by a thread that is not the      *)
(* owner makes ReleaseMutex fail and throws: no step is enabled for it,    *)
(* and the invariants of the users show that it never happens.             *)
(***************************************************************************)
EXTENDS Naturals

CONSTANTS Threads,      \* the threads that use the mutex
          NoThread      \* the owner of a free mutex

VARIABLES owner,        \* the thread that owns the mutex, or NoThread
          depth         \* how often the owner has locked it

TypeOK == /\ owner \in Threads \cup {NoThread}
          /\ depth \in Nat

Init == owner = NoThread /\ depth = 0

\* WaitForSingleObject(hWinMutex, INFINITE) returns WAIT_OBJECT_0.
Lock(t) == /\ owner \in {NoThread, t}
           /\ owner' = t
           /\ depth' = depth + 1

\* ReleaseMutex by the owner: the last release frees the mutex.
Release(t) == /\ owner = t
              /\ depth' = depth - 1
              /\ owner' = IF depth = 1 THEN NoThread ELSE t
=============================================================================
