--------------------------- MODULE MonitorHandover ---------------------------
(***************************************************************************)
(* Handing a monitor over from one resource to another: the new owner is   *)
(* annotated with adopt-id before the old one is deleted                   *)
(* (docs/architecture.md line 191, monitor_controller.go lines 141-188).   *)
(***************************************************************************)
EXTENDS MonitorController

(* History of the adopt-id claims: firm[m] holds the claims <<o, i>> that  *)
(* stood when m was deleted and have stood ever since.                     *)
VARIABLE firm

Claims == {c \in Monitors \X Ids : cr[c[1]].phase = "live" /\ cr[c[1]].adopt = c[2]}

Deleted(m) == cr[m].phase # "deleting" /\ cr'[m].phase = "deleting"

ClaimInit == Init /\ firm = [m \in Monitors |-> {}]

ClaimNext ==
  /\ Next
  /\ firm' = [m \in Monitors |-> IF cr'[m].phase # "deleting" THEN {}
                                 ELSE IF Deleted(m) THEN Claims' ELSE firm[m] \cap Claims']

claimVars == <<vars, firm>>

ClaimSpec == ClaimInit /\ [][ClaimNext]_claimVars

(* Handing a monitor over: a resource annotated with the identifier before *)
(* the deletion of the old resource, and until its cleanup, keeps the      *)
(* monitor, however far the cache lags behind and whatever fails on the    *)
(* way (monitor_controller.go lines 141-188).                              *)
ClaimRespected ==
  [][pc = "delete" /\ pc' # "delete" =>
       \A c \in firm[key] : c[1] # key /\ Live(remote, c[2]) => Live(remote', c[2])]_claimVars
=============================================================================
