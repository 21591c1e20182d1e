----------------------------- MODULE MCComWorker -----------------------------
(* A small instance of ComWorker for TLC: packages of two bytes.           *)
EXTENDS ComWorker

MCInternalSizes == {3}
MCEventCounts == {1}
MCSizes == {2}
=============================================================================
