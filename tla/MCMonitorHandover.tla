------------------------- MODULE MCMonitorHandover -------------------------
(* A small instance of MonitorHandover for TLC. *)
EXTENDS MonitorHandover, MCMonitorController
=============================================================================
