------------------------------- MODULE HttpCall -------------------------------
(***************************************************************************)
(* What a call of the UptimeRobot client promises, however it retries: the *)
(* request is sent a bounded number of times, success means that the       *)
(* service executed the last one, and an error says nothing about the      *)
(* earlier ones.                                                           *)
(***************************************************************************)
EXTENDS Naturals

CONSTANT Limit   \* requests of one call

VARIABLES
  open,       \* a call is in progress
  sent,       \* its requests so far
  executed,   \* those of them that the service carried out
  success     \* whether the last call to end was a success

call == <<open, sent, executed, success>>

Init == open = FALSE /\ sent = 0 /\ executed = 0 /\ success = FALSE

Start == ~open /\ open' = TRUE /\ sent' = 0 /\ executed' = 0 /\ success' = FALSE

Send ==
  /\ open /\ sent < Limit /\ sent' = sent + 1
  /\ executed' \in {executed, executed + 1}
  /\ \/ open' = TRUE /\ success' = FALSE
     \/ open' = FALSE /\ success' \in {FALSE, executed' > executed}

(* The caller's context ends first. *)
Abandon == open /\ open' = FALSE /\ success' = FALSE /\ UNCHANGED <<sent, executed>>

(* The caller is done with it, or its process has stopped. *)
Forget == open' = FALSE /\ sent' = 0 /\ executed' = 0 /\ success' = FALSE

Next == Start \/ Send \/ Abandon \/ Forget

Spec == Init /\ [][Next]_call
=============================================================================
