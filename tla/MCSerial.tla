------------------------------ MODULE MCSerial ------------------------------
(* Small instances of Serial for TLC.                                      *)
EXTENDS Serial

MCInternalSizes == {2, 3}
MCEventCounts == {0, 2}
MCSizes == {1, 3}
=============================================================================
