---------------------------- MODULE MCConnector ----------------------------
(* Small instances of Connector for TLC.                                   *)
EXTENDS Connector

MCConns == 0..Cardinality(Clients)
=============================================================================
