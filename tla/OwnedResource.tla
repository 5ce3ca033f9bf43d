---------------------------- MODULE OwnedResource ----------------------------
(***************************************************************************)
(* What the reconcilers of MaintenanceWindow, MonitorGroup and             *)
(* SlackIntegration have in common: one resource, its copy in the informer *)
(* cache, the object it stands for in the UptimeRobot account, a worker    *)
(* that takes one call at a time, and an environment that interferes       *)
(* between two calls.  The variable `kind' says which of the three         *)
(* reconcilers runs; the modules of the controllers state their calls.     *)
(*                                                                         *)
(* Conditions are left out: no code reads them back.                       *)
(***************************************************************************)
EXTENDS RemoteObjects, Naturals

CONSTANTS
  Kinds,        \* the controllers of this instance
  SelfContained, \* specs that need no reference
  Events,       \* what the environment does in this instance
  Budget        \* BOUND: environment events and faults in a behaviour

ASSUME KindsAssumption == Kinds # {} /\ Kinds \subseteq {"window", "group", "slack"}
ASSUME SelfContainedAssumption == SelfContained \subseteq Specs
ASSUME BudgetAssumption == Budget \in Nat

VARIABLES
  kind,     \* the controller under consideration; it never changes
  cr,       \* the API server's resource
  cache,    \* the informer's copy: the server's state at some earlier point
  synced,   \* whether the cached copy has the server's version
  remote,   \* the objects of the account
  account,  \* whether the Account resource and its API key can be read
  dep,      \* what the spec's references resolve to at this moment
  late,     \* the cleanup began over ten minutes ago
  budget,   \* environment events left
  queued,   \* the key is due for a reconcile
  pc,       \* the worker's next call, "idle" between two reconciles
  obj,      \* its in-memory copy
  cur,      \* whether obj has the server's version
  then,     \* where it goes after the status write under way: a call, "retry" or "done"
  payload,  \* the request it has resolved
  stale     \* history: the status in obj was older than the server's when read

server == <<cr, cache, synced>>
world  == <<kind, account, dep, late>>
worker == <<pc, obj, cur, then, payload, stale>>
vars   == <<server, world, worker, remote, budget, queued>>

Status == [ready : BOOLEAN, id : AnyId]

Resource == [phase : {"absent", "live", "deleting"}, fin : BOOLEAN, tracked : BOOLEAN,
             prune : BOOLEAN, skip : BOOLEAN, spec : Specs, st : Status]

(* A newly applied resource; Blank stands for no resource. *)
New(s, p) == [phase |-> "live", fin |-> FALSE, tracked |-> FALSE, prune |-> p, skip |-> FALSE,
              spec |-> s, st |-> [ready |-> FALSE, id |-> NoId]]

Blank == [New(CHOOSE s \in Specs : TRUE, TRUE) EXCEPT !.phase = "absent"]

Calls == {"track", "cleanup", "delete", "unfinalize", "finalize", "resolve", "create",
          "update", "list", "replace", "confirm", "status"}

Exits == {"retry", "done"}

(* A resource has just been applied, and the watch has delivered it. *)
Init ==
  /\ kind \in Kinds /\ dep \in Deps
  /\ \E p \in BOOLEAN : (p \/ "prune" \in Events) /\ cr = New(SomePayload.spec, p)
  /\ cache = cr /\ synced = TRUE
  /\ remote = [i \in Ids |-> [state |-> "free", data |-> SomePayload]]
  /\ account = TRUE /\ late = FALSE /\ budget = Budget /\ queued = TRUE
  /\ pc = "idle" /\ obj = Blank /\ cur = FALSE /\ then = "done"
  /\ payload = SomePayload /\ stale = FALSE
-----------------------------------------------------------------------------
(* The end of a reconcile: its locals are gone.  An error puts the key in  *)
(* the queue again at once; a success leaves it to the RequeueAfter timer. *)
Return(exit) ==
  /\ pc' = "idle" /\ obj' = Blank /\ cur' = FALSE /\ then' = "done"
  /\ payload' = SomePayload /\ stale' = FALSE
  /\ queued' = (queued \/ exit = "retry")

GoOn(call) == pc' = call /\ UNCHANGED <<obj, cur, then, payload, stale, queued>>

Spend == budget > 0 /\ budget' = budget - 1

(* A client call ends with one of its outcomes; faults are bounded. *)
Paying(o) == IF o.fault THEN "api" \in Events /\ Spend ELSE UNCHANGED budget

(* Set the copy's status, write it, go to next. *)
Report(st, next) ==
  obj' = [obj EXCEPT !.st = st] /\ pc' = "status" /\ then' = next
    /\ UNCHANGED <<cur, payload, stale, queued>>

NotReady(st) == [st EXCEPT !.ready = FALSE]

(* Every write gives the resource a new version, so other copies are stale. *)
Write(c) == cr' = c /\ synced' = FALSE

(* The request made of a spec: with autoAddMonitors no list of monitors is *)
(* sent, a group may name none, and an integration may have its webhookURL *)
(* in the spec.                                                            *)
Wanted(s, d) == [spec |-> s, ref |-> IF s \in SelfContained THEN NoDep ELSE d]
-----------------------------------------------------------------------------
(* The first calls of every reconciler.  Without an account the status     *)
(* keeps an identifier it has, and the reconcile ends with an error.       *)
FirstCall(c) ==
  IF c.phase = "deleting" THEN "track" ELSE IF ~c.fin THEN "finalize" ELSE "resolve"

Unreadable(st) == IF st.id = NoId THEN NotReady(st) ELSE st

Begin(blocked) ==
  /\ pc = "idle" /\ queued /\ queued' = FALSE
  /\ IF cache.phase = "absent" THEN UNCHANGED worker
     ELSE /\ cur' = synced /\ stale' = (cache.st # cr.st) /\ UNCHANGED payload
          /\ IF blocked THEN /\ obj' = [cache EXCEPT !.st = Unreadable(@)]
                             /\ pc' = "status" /\ then' = "retry"
                        ELSE obj' = cache /\ pc' = FirstCall(cache) /\ UNCHANGED then
  /\ UNCHANGED <<server, world, remote, budget>>

(* controllerutil.AddFinalizer and Update, which answers with the status   *)
(* the server has.                                                         *)
AddFinalizer ==
  /\ pc = "finalize"
  /\ IF cur
     THEN LET c == [obj EXCEPT !.fin = TRUE, !.st = cr.st] IN
          Write(c) /\ obj' = c /\ pc' = "resolve" /\ UNCHANGED <<cur, then, payload, stale, queued>>
     ELSE Return("retry") /\ UNCHANGED <<cr, synced>>
  /\ UNCHANGED <<cache, world, remote, budget>>

(* References and secrets are read from the cache; what changes later is   *)
(* not seen by the request made of them.                                   *)
Resolve(next) ==
  /\ pc = "resolve"
  /\ payload' = Wanted(obj.spec, dep) /\ pc' = next
  /\ UNCHANGED <<server, world, remote, budget, queued, obj, cur, then, stale>>

(* POST, and the identifier of its answer; next follows the status write.  *)
Create(next) ==
  /\ pc = "create"
  /\ \E o \in CreateObject(remote, payload) :
       /\ remote' = o.remote /\ Paying(o)
       /\ IF o.res = "ok" THEN Report([ready |-> TRUE, id |-> o.id], next)
                          ELSE Report(NotReady(obj.st), "retry")
  /\ UNCHANGED <<server, world>>

(* PATCH; what the service does not know any more is created anew. *)
Update ==
  /\ pc = "update"
  /\ \E o \in UpdateObject(remote, obj.st.id, payload) :
       /\ remote' = o.remote /\ Paying(o)
       /\ IF o.res = "notFound" THEN GoOn("create")
          ELSE Report(obj.st, IF o.res = "ok" THEN "done" ELSE "retry")
  /\ UNCHANGED <<server, world>>
-----------------------------------------------------------------------------
(* InitializeCleanupTracking: the start time, once, retried on conflict    *)
(* with the cached resource until it gives up.                             *)
Track ==
  /\ pc = "track"
  /\ IF obj.tracked \/ cache.tracked THEN GoOn("cleanup") /\ UNCHANGED <<cr, synced>>
     ELSE IF synced /\ cr.phase # "absent"
     THEN /\ Write([cr EXCEPT !.tracked = TRUE])
          /\ pc' = "cleanup" /\ cur' = FALSE /\ UNCHANGED <<obj, then, payload, stale, queued>>
     ELSE Return("retry") /\ UNCHANGED <<cr, synced>>
  /\ UNCHANGED <<cache, world, remote, budget>>

(* Reload and HandleFinalizerCleanup up to the DELETE of its CleanupFunc:  *)
(* empty says that there is nothing to delete, blocked that the DELETE     *)
(* cannot be tried.                                                        *)
Cleanup(empty, blocked) ==
  /\ pc = "cleanup"
  /\ LET c == cache
         leave == c.skip \/ (late /\ c.tracked) \/ ~c.prune \/ empty
     IN IF c.phase = "absent" THEN Return("done")
        ELSE /\ obj' = c /\ cur' = synced /\ stale' = (c.st # cr.st)
             /\ IF leave THEN pc' = "status" /\ then' = "unfinalize"
                ELSE IF blocked THEN pc' = "status" /\ then' = "done"
                ELSE pc' = "delete" /\ UNCHANGED then
             /\ UNCHANGED <<payload, queued>>
  /\ UNCHANGED <<server, world, remote, budget>>

(* The DELETE; a failure leaves the key to the backoff timer. *)
CleanupDelete ==
  /\ pc = "delete"
  /\ \E o \in DeleteObject(remote, obj.st.id) :
       /\ remote' = o.remote /\ Paying(o)
       /\ Report(obj.st, IF o.res = "ok" THEN "unfinalize" ELSE "done")
  /\ UNCHANGED <<server, world>>

Unfinalized(c) == IF c.phase = "deleting" THEN Blank ELSE [c EXCEPT !.fin = FALSE]

(* Mutant of RemoveFinalizer: the Update does not carry a version. *)
RemoveFinalizer_Unversioned ==
  /\ pc = "unfinalize" /\ Write(Unfinalized(cr)) /\ Return("done")
  /\ UNCHANGED <<cache, world, remote, budget>>

(* controllerutil.RemoveFinalizer and Update. *)
RemoveFinalizer ==
  /\ pc = "unfinalize"
  /\ IF cur THEN Write(Unfinalized(obj)) /\ Return("done")
            ELSE Return("retry") /\ UNCHANGED <<cr, synced>>
  /\ UNCHANGED <<cache, world, remote, budget>>
-----------------------------------------------------------------------------
(* A status write goes through: the copy has the server's version, or the  *)
(* writer tries once more on the cached resource and that one has it.      *)
StatusWritten(retries) ==
  /\ pc = "status"
  /\ cur \/ (retries /\ synced /\ cache.phase # "absent")
  /\ Write([cr EXCEPT !.st = obj.st])
  /\ IF then \in Exits THEN Return(then)
     ELSE pc' = then /\ then' = "done" /\ UNCHANGED <<obj, cur, payload, stale, queued>>
  /\ UNCHANGED <<cache, world, remote, budget>>

(* It conflicts, or the API server fails; giveUp is what the caller does.  *)
StatusLost(giveUp) ==
  /\ pc = "status"
  /\ IF cur THEN "k8s" \in Events /\ Spend ELSE UNCHANGED budget
  /\ giveUp
  /\ UNCHANGED <<server, world, remote>>
-----------------------------------------------------------------------------
(* What metadata.generation counts: the spec and the deletion timestamp. *)
Generation(c) == [phase |-> c.phase, spec |-> c.spec, prune |-> c.prune]

(* The watch brings the cache up to the server's state.                    *)
(* GenerationChangedPredicate lets only a new generation into the queue.   *)
Deliver ==
  /\ ~synced /\ cache' = cr /\ synced' = TRUE
  /\ queued' = (queued \/ Generation(cache) # Generation(cr))
  /\ UNCHANGED <<cr, world, worker, remote, budget>>

(* RequeueAfter: syncInterval after a success, the backoff after a failed  *)
(* cleanup.  By then the watch has delivered the writes of the reconcile.  *)
Timer ==
  /\ ~queued /\ synced /\ cache.phase # "absent" /\ pc = "idle"
  /\ queued' = TRUE
  /\ UNCHANGED <<server, world, worker, remote, budget>>

(* A write by a user: another version than the worker's copy has. *)
UserWrite(e, c) ==
  /\ e \in Events /\ Spend /\ Write(c) /\ cur' = FALSE
  /\ UNCHANGED <<kind, account, dep, cache, remote, queued, pc, obj, then, payload, stale>>

Apply ==
  /\ cr.phase = "absent" /\ late' = FALSE
  /\ \E s \in Specs, p \in BOOLEAN :
       (p \/ "prune" \in Events) /\ UserWrite("apply", New(s, p))

Edit ==
  /\ cr.phase # "absent" /\ UNCHANGED late
  /\ \/ \E s \in Specs \ {cr.spec} : UserWrite("spec", [cr EXCEPT !.spec = s])
     \/ UserWrite("prune", [cr EXCEPT !.prune = ~@])
     \/ UserWrite("skip", [cr EXCEPT !.skip = ~@])

(* kubectl delete: the finalizer keeps the resource, its absence does not. *)
Delete ==
  /\ cr.phase = "live" /\ UNCHANGED late
  /\ UserWrite("delete", IF cr.fin THEN [cr EXCEPT !.phase = "deleting"] ELSE Blank)

(* Ten minutes pass since cleanup-start-time. *)
TimeOut ==
  /\ "late" \in Events /\ cr.tracked /\ ~late /\ late' = TRUE
  /\ UNCHANGED <<kind, account, dep, server, worker, remote, budget, queued>>

(* The Account or its secret disappears, and is restored. *)
AccountLost ==
  /\ "account" \in Events /\ account /\ Spend /\ account' = FALSE
  /\ UNCHANGED <<kind, dep, late, server, worker, remote, queued>>

AccountRestored ==
  /\ ~account /\ account' = TRUE
  /\ UNCHANGED <<kind, dep, late, server, worker, remote, budget, queued>>

(* A referenced Monitor gets or loses its identifier: the watch on         *)
(* Monitors, which has no predicate, queues the windows and groups that    *)
(* name it.  No watch tells of a Slack webhook secret.                     *)
DepChanged ==
  /\ "dep" \in Events /\ Spend
  /\ \E d \in Deps \ {dep} : dep' = d
  /\ queued' = (queued \/ (kind # "slack" /\ cache.phase # "absent"))
  /\ UNCHANGED <<kind, account, late, server, worker, remote>>

(* Someone deletes or edits the object in the dashboard. *)
Dashboard ==
  /\ "dashboard" \in Events /\ Spend
  /\ \E i \in Alive(remote) :
       \/ remote' = Gone(remote, i)
       \/ \E s \in Specs \ {remote[i].data.spec} : remote' = [remote EXCEPT ![i].data.spec = s]
  /\ UNCHANGED <<server, world, worker, queued>>

(* The process stops and starts again: the locals are lost, and the        *)
(* informer begins with a fresh list, which queues the resource.           *)
Restart ==
  /\ "crash" \in Events /\ pc # "idle" /\ Spend
  /\ cache' = cr /\ synced' = TRUE /\ queued' = (cr.phase # "absent")
  /\ pc' = "idle" /\ obj' = Blank /\ cur' = FALSE /\ then' = "done"
  /\ payload' = SomePayload /\ stale' = FALSE
  /\ UNCHANGED <<cr, world, remote>>

Environment ==
  \/ Apply \/ Edit \/ Delete \/ TimeOut \/ AccountLost \/ AccountRestored
  \/ DepChanged \/ Dashboard \/ Restart
=============================================================================
