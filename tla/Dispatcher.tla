----------------------------- MODULE Dispatcher -----------------------------
(***************************************************************************)
(* What the event loop promises, without threads, locks and iterators      *)
(* (the comments of src/includes/event_loop/EventLoop.h, as far as the     *)
(* code of EventLoop.cpp keeps them).  Messages are taken in the order     *)
(* they were sent.  The handlers registered for the type of a message when *)
(* it is taken are owed it: the loop does not leave the message before     *)
(* each of them has run or has been unregistered, and no handler runs      *)
(* twice for it.  A handler that is registered meanwhile may run as well.  *)
(***************************************************************************)
EXTENDS Naturals, Sequences, FiniteSets

CONSTANTS Registration, Message, NoMessage

VARIABLES regs,      \* the registered handlers
          pending,   \* the messages sent and not taken
          current,   \* the message being dispatched, or NoMessage
          owed,      \* the handlers that must see it
          served     \* the handlers that have run for it

dvars == <<regs, pending, current, owed, served>>

Init == /\ regs = {} /\ pending = <<>> /\ current = NoMessage
        /\ owed = {} /\ served = {}

Send(m) == /\ pending' = Append(pending, m)
           /\ UNCHANGED <<regs, current, owed, served>>

Register(r) == /\ r \notin regs
               /\ regs' = regs \cup {r}
               /\ UNCHANGED <<pending, current, owed, served>>

\* Nobody loses a handler that another registrar or another type reset.
Unregister(r) == /\ r \in regs
                 /\ regs' = regs \ {r}
                 /\ UNCHANGED <<pending, current, owed, served>>

Take == /\ current = NoMessage
        /\ pending # <<>>
        /\ current' = Head(pending)
        /\ pending' = Tail(pending)
        /\ owed' = {r \in regs : r.type = Head(pending).type}
        /\ served' = {}
        /\ UNCHANGED regs

Handle(r) == /\ current # NoMessage
             /\ r \in regs \ served
             /\ served' = served \cup {r}
             /\ UNCHANGED <<regs, pending, current, owed>>

Leave == /\ current # NoMessage
         /\ owed \cap regs \subseteq served
         /\ current' = NoMessage
         /\ owed' = {} /\ served' = {}
         /\ UNCHANGED <<regs, pending>>

Next == \/ \E m \in Message : Send(m)
        \/ \E r \in Registration : Register(r) \/ Unregister(r)
        \/ Take \/ Leave
        \/ \E r \in Registration : Handle(r)

Spec == Init /\ [][Next]_dvars
=============================================================================
