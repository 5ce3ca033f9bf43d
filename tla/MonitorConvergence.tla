------------------------- MODULE MonitorConvergence -------------------------
(***************************************************************************)
(* What a Monitor resource and its account come to when users and faults   *)
(* rest.  Two disagreements stay for ever, and the history variables name  *)
(* their causes; any other would be a counterexample.                      *)
(***************************************************************************)
EXTENDS MonitorController

VARIABLES
  aliased,   \* identifiers taken over from a 409 for a monitor of another type
  cleared    \* identifiers whose resource lost status.ready to a failure

convVars == <<vars, aliased, cleared>>

(* A create or an edit that ends with a monitor of another type: the       *)
(* answer to a 409 is resolved by name and URL (client.go:500).            *)
Aliases == {i \in {rid'} \ {NoId, rid} : Live(remote', i) /\ remote'[i].type # obj.type}

(* status.ready is cleared for an unreadable account (line 95), and when   *)
(* the edit or the pause that follows a create or an adoption fails (355,  *)
(* 369, 423).  The branch of a known identifier never sets it again, and   *)
(* a monitor it recreates inherits what it finds (446-587).                *)
Clears ==
  {i \in {obj'.st.id} \ {NoId} :
     \/ pc = "idle" /\ pc' # "idle" /\ ~account
     \/ pc \in {"createPause", "adoptEdit", "adoptPause"} /\ then' = "retry"}

Inherits == {i \in {rid'} \ {NoId} : pc = "edit" /\ obj.st.id \in cleared}

ConvInit == Init /\ aliased = {} /\ cleared = {}

ConvNext ==
  /\ Next
  /\ aliased' = aliased \cup Aliases
  /\ cleared' = cleared \cup Clears \cup Inherits

ConvSpec == ConvInit /\ [][ConvNext]_convVars /\ Fairness

(* Account, spec and status agree. *)
Converged(m) ==
  LET c == cr[m] IN
    \/ c.phase = "absent"
    \/ /\ c.phase = "live" /\ c.st.ok /\ Live(remote, c.st.id)
       /\ c.st.ready \/ c.st.id \in cleared
       /\ remote[c.st.id].paused = c.paused /\ c.st.paused = c.paused
       /\ remote[c.st.id].type = c.type \/ c.st.id \in aliased
       /\ c.st.type = c.type
       /\ remote[c.st.id].name = NameOf[m]

(* When users and faults come to rest, every resource ends up in line with *)
(* the account, whatever crashes, conflicts and lost responses went        *)
(* before: spec, status and monitor agree in existence, name, type and     *)
(* pause, and the status is ready.  Excepted are status.ready after a      *)
(* failure that cleared it, and the type of a monitor taken over from a    *)
(* 409 (monitor_controller.go 224-620).                                    *)
EventuallyConverged == <>[](\A m \in Monitors : Converged(m))
=============================================================================
