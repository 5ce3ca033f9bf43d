---------------------- MODULE SlackIntegrationController ----------------------
(***************************************************************************)
(* The reconciler of SlackIntegration                                      *)
(* (internal/controller/slackintegration_controller.go).  Integrations     *)
(* cannot be updated: one that is missing from the list, or differs from   *)
(* the spec, is deleted and created anew.  Every failure on the way sets   *)
(* status.ready to false and keeps the identifier; a status write is tried *)
(* once more on a conflict.                                                *)
(***************************************************************************)
EXTENDS OwnedResource

(* The account and its key, then deletion, then the finalizer. *)
SlackBegin == kind = "slack" /\ Begin(~account)

SlackAddFinalizer == kind = "slack" /\ AddFinalizer

(* resolveWebhookURL: the spec has no URL of its own, and the secret is    *)
(* missing or lacks the key.                                               *)
NoWebhook(s) == s \notin SelfContained /\ dep = NoDep

(* The choice between creating and comparing. *)
SlackResolve ==
  /\ kind = "slack"
  /\ IF NoWebhook(obj.spec)
     THEN /\ pc = "resolve" /\ Report(NotReady(obj.st), "retry")
          /\ UNCHANGED <<server, world, remote, budget>>
     ELSE Resolve(IF obj.st.ready /\ obj.st.id # NoId THEN "list" ELSE "create")

(* The integration of status.id in the list, compared with the request. *)
SlackList ==
  /\ kind = "slack" /\ pc = "list"
  /\ \E o \in FindObject(remote, obj.st.id) :
       /\ Paying(o)
       /\ IF o.res = "err" THEN Report(obj.st, "retry")
          ELSE GoOn(IF o.res = "ok" /\ remote[obj.st.id].data = payload THEN "confirm" ELSE "replace")
  /\ UNCHANGED <<server, world, remote>>

(* recreateSlackIntegration: the DELETE of the old one. *)
SlackReplace ==
  /\ kind = "slack" /\ pc = "replace"
  /\ \E o \in DeleteObject(remote, obj.st.id) :
       /\ remote' = o.remote /\ Paying(o)
       /\ IF o.res = "ok" THEN GoOn("create") ELSE Report(NotReady(obj.st), "retry")
  /\ UNCHANGED <<server, world>>

(* Its POST, and a status write of its own. *)
SlackCreate == kind = "slack" /\ Create("confirm")

(* The last status write of the reconcile. *)
SlackConfirm ==
  /\ kind = "slack" /\ pc = "confirm" /\ Report(obj.st, "done")
  /\ UNCHANGED <<server, world, remote, budget>>

SlackTrack == kind = "slack" /\ Track

SlackCleanup == kind = "slack" /\ Cleanup(cache.st.id = NoId, FALSE)

SlackCleanupDelete == kind = "slack" /\ CleanupDelete

SlackRemoveFinalizer == kind = "slack" /\ RemoveFinalizer

(* A status that could not be written after the POST is a failed creation, *)
(* reported with the new identifier and ready set to false.                *)
SlackGiveUp ==
  IF then = "confirm" THEN Report(NotReady(obj.st), "retry") ELSE Return("retry")

SlackStatus == kind = "slack" /\ (StatusWritten(TRUE) \/ StatusLost(SlackGiveUp))

SlackStep ==
  \/ SlackAddFinalizer \/ SlackResolve \/ SlackList \/ SlackReplace \/ SlackCreate
  \/ SlackConfirm \/ SlackTrack \/ SlackCleanup \/ SlackCleanupDelete
  \/ SlackRemoveFinalizer \/ SlackStatus
=============================================================================
