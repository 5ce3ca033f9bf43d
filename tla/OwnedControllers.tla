-------------------------- MODULE OwnedControllers --------------------------
(***************************************************************************)
(* The three controllers together: one specification, one resource, and    *)
(* the promise of OwnershipLedger that they are shown to keep.             *)
(***************************************************************************)
EXTENDS MaintenanceWindowController, MonitorGroupController, SlackIntegrationController

Take == WindowBegin \/ GroupBegin \/ SlackBegin

Step == WindowStep \/ GroupStep \/ SlackStep

Next == Take \/ Step \/ Deliver \/ Timer \/ Environment

Spec == Init /\ [][Next]_vars

(* The reconcile in progress goes on, the watch delivers, a lost account   *)
(* is put back, timers expire, and the queued key is taken.  The backoff   *)
(* between two failed reconciles grows, so that a key whose reconciles     *)
(* keep failing is at last taken with the cache up to date.                *)
FairSpec ==
  /\ Spec /\ WF_vars(Step) /\ WF_vars(Deliver) /\ WF_vars(AccountRestored)
  /\ WF_vars(Timer) /\ SF_vars(pc = "idle" /\ Deliver) /\ SF_vars(synced /\ Take)
-----------------------------------------------------------------------------
(* The shape of every variable. *)
TypeOK ==
  /\ kind \in {"window", "group", "slack"}
  /\ cr \in Resource /\ cache \in Resource /\ synced \in BOOLEAN
  /\ remote \in Objects /\ account \in BOOLEAN /\ dep \in Deps /\ late \in BOOLEAN
  /\ budget \in 0 .. Budget /\ queued \in BOOLEAN
  /\ pc \in Calls \cup {"idle"} /\ obj \in Resource /\ cur \in BOOLEAN
  /\ then \in Calls \cup Exits /\ payload \in Payload /\ stale \in BOOLEAN

(* What can mislead a reconciler about the object it has: a status read    *)
(* before the last write, an identifier with "404" in it, or, for Slack, a *)
(* failure that set ready to false while the integration stayed.           *)
Doubt == stale \/ cr.st.id \in Confusable \/ (kind = "slack" /\ ~cr.st.ready)

(* What lets an object outlive its resource. *)
Released ==
  ~cr.prune \/ cr.skip \/ (cr.tracked /\ late) \/ cr.st.id \in Confusable

Ledger == INSTANCE OwnershipLedger WITH
  present <- cr.fin, recorded <- IF cr.fin THEN cr.st.id ELSE NoId,
  alive <- Alive(remote), doubt <- Doubt, released <- Released

(* The controllers keep the ledger ("Add finalizer before creating         *)
(* external resource to prevent orphaning", maintenancewindow 151,         *)
(* slackintegration 145): objects are made only while the server's         *)
(* resource has the finalizer, never a second one beside a living first,   *)
(* an identifier is not dropped while its object lives, and the resource   *)
(* does not go before it, whatever conflicts, edits and restarts come      *)
(* between decision and write.                                             *)
KeepsLedger == Ledger!Spec

(* The object of the resource is as the spec and its references want it.   *)
InSync ==
  \/ cr.phase = "absent"
  \/ cr.phase = "live" /\ Live(remote, cr.st.id)
     /\ remote[cr.st.id].data = Wanted(cr.spec, dep)

(* When users and faults come to rest, every change of spec, references    *)
(* and dashboard has reached the account, unless the account has no room   *)
(* left or the webhook secret is missing.                                  *)
EventuallyInSync ==
  <>[](InSync \/ Free(remote) = {} \/ (kind = "slack" /\ NoWebhook(cr.spec)))

(* A deletion comes to an end: conflicts, stale copies, failed DELETEs and *)
(* an account that was away for a while do not hold the resource for ever. *)
DeletionCompletes == cr.phase = "deleting" ~> cr.phase # "deleting"
=============================================================================
