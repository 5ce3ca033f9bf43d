------------------------ MODULE MCMonitorController ------------------------
(* Small instances of MonitorController for TLC. *)
EXTENDS MonitorController

(* The name of a resource is the name of its monitor. *)
OwnNames == [m \in Monitors |-> m]
=============================================================================
