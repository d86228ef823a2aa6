---------------------------- MODULE MCChainReads ----------------------------
(***************************************************************************)
(* ChainReads for TLC: the roles that mint, one that submits and one that  *)
(* may ask for airdrops.                                                   *)
(***************************************************************************)
EXTENDS ChainReads

MCRoles == {"AggregatorBridge", "MeterService", "IamService"}
=============================================================================
