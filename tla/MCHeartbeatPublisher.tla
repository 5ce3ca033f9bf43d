------------------------- MODULE MCHeartbeatPublisher -------------------------
(* A Secret and a ConfigMap of one name. *)
EXTENDS HeartbeatPublisher

SomeObjects ==
  {[type |-> "Secret", name |-> "a"], [type |-> "ConfigMap", name |-> "a"]}
=============================================================================
