---------------------------- MODULE MCSupervisor ----------------------------
(* The instance of Supervisor for TLC. *)
EXTENDS Supervisor

MCLanes == {"fast", "mint"}
MCConcurrency == [l \in MCLanes |-> 2]
=============================================================================
