--------------------- MODULE MaintenanceWindowController ---------------------
(***************************************************************************)
(* The reconciler of MaintenanceWindow                                     *)
(* (internal/controller/maintenancewindow_controller.go): the account is   *)
(* looked up before anything else, status.ready decides between POST and   *)
(* PATCH, and no status write is tried twice.                              *)
(***************************************************************************)
EXTENDS OwnedResource

(* The account and its key, then deletion, then the finalizer. *)
WindowBegin == kind = "window" /\ Begin(~account)

WindowAddFinalizer == kind = "window" /\ AddFinalizer

WindowResolve == kind = "window" /\ Resolve(IF obj.st.ready THEN "update" ELSE "create")

WindowCreate == kind = "window" /\ Create("done")

WindowUpdate == kind = "window" /\ Update

WindowTrack == kind = "window" /\ Track

(* The cleanup takes a window that is not ready for one that has no object. *)
WindowCleanup == kind = "window" /\ Cleanup(~cache.st.ready, FALSE)

WindowCleanupDelete == kind = "window" /\ CleanupDelete

WindowRemoveFinalizer == kind = "window" /\ RemoveFinalizer

WindowStatus == kind = "window" /\ (StatusWritten(FALSE) \/ StatusLost(Return("retry")))

WindowStep ==
  \/ WindowAddFinalizer \/ WindowResolve \/ WindowCreate \/ WindowUpdate \/ WindowTrack
  \/ WindowCleanup \/ WindowCleanupDelete \/ WindowRemoveFinalizer \/ WindowStatus
=============================================================================
