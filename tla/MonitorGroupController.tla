------------------------ MODULE MonitorGroupController ------------------------
(***************************************************************************)
(* The reconciler of MonitorGroup                                          *)
(* (internal/controller/monitorgroup_controller.go).  It differs from the  *)
(* one of maintenance windows in its deletion: that comes before the       *)
(* account, which only the cleanup itself looks up, and what counts is the *)
(* identifier and not status.ready.                                        *)
(***************************************************************************)
EXTENDS OwnedResource

(* Deletion, then the account and its key, then the finalizer. *)
GroupBegin == kind = "group" /\ Begin(~account /\ cache.phase # "deleting")

GroupAddFinalizer == kind = "group" /\ AddFinalizer

GroupResolve == kind = "group" /\ Resolve(IF obj.st.ready THEN "update" ELSE "create")

GroupCreate == kind = "group" /\ Create("done")

GroupUpdate == kind = "group" /\ Update

GroupTrack == kind = "group" /\ Track

(* An account that cannot be read is a failed attempt of the cleanup. *)
GroupCleanup == kind = "group" /\ Cleanup(cache.st.id = NoId, ~account)

GroupCleanupDelete == kind = "group" /\ CleanupDelete

GroupRemoveFinalizer == kind = "group" /\ RemoveFinalizer

GroupStatus == kind = "group" /\ (StatusWritten(FALSE) \/ StatusLost(Return("retry")))

GroupStep ==
  \/ GroupAddFinalizer \/ GroupResolve \/ GroupCreate \/ GroupUpdate \/ GroupTrack
  \/ GroupCleanup \/ GroupCleanupDelete \/ GroupRemoveFinalizer \/ GroupStatus
=============================================================================
