---------------------------- MODULE MCEventLoop ----------------------------
(***************************************************************************)
(* Small instances of EventLoop for TLC.  The clients are interchangeable, *)
(* and so are the types: no action and no property tells them apart.       *)
(***************************************************************************)
EXTENDS EventLoop, TLC, FiniteSets

Interchangeable == Permutations(Clients) \cup Permutations(EventTypes)
=============================================================================
