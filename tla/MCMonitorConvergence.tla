------------------------ MODULE MCMonitorConvergence ------------------------
(* A small instance of MonitorConvergence for TLC. *)
EXTENDS MonitorConvergence, MCMonitorController
=============================================================================
