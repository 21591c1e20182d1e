---------------------------- MODULE MCAsyncUser ----------------------------
(* A small instance of AsyncUser for TLC.                                  *)
EXTENDS AsyncUser

MCInternalSizes == {2, 3}
MCEventCounts == {2}
MCSizes == {1, 3}
=============================================================================
