-------------------------- MODULE MonitorController --------------------------
(***************************************************************************)
(* The Monitor reconciler (internal/controller/monitor_controller.go): one *)
(* worker that takes a Monitor resource from the informer cache and brings *)
(* the UptimeRobot account in line with it, one call at a time.  Between   *)
(* two calls anything else may happen: a user edits, annotates or deletes  *)
(* a resource, the dashboard changes a monitor, the account's secret goes  *)
(* missing, a call fails, the process restarts.                            *)
(*                                                                         *)
(* Writes carry a resourceVersion.  The model keeps, in its place, whether *)
(* a copy still has the server's version: `synced' for the cached copies,  *)
(* `cur' for the worker's own.                                             *)
(***************************************************************************)
EXTENDS UptimeRobotMonitors, Naturals

CONSTANTS
  Monitors,     \* the names of the Monitor resources of one namespace
  NameOf,       \* spec.monitor.name and url of each resource
  Foreign,      \* identifiers of monitors made outside the operator
  NoType,       \* status.type of a resource never synced
  Events,       \* what the environment does in this instance
  Budget        \* BOUND: environment events and faults in a behaviour

ASSUME MonitorsAssumption == Monitors # {} /\ NameOf \in [Monitors -> Names]
ASSUME ForeignAssumption == Foreign \subseteq Ids
ASSUME NoTypeAssumption == NoType \notin Types
ASSUME BudgetAssumption == Budget \in Nat

VARIABLES
  cr,       \* the API server's Monitor resources
  cache,    \* the informer's copy: the server's state at some earlier point
  synced,   \* the resources whose cached copy has the server's version
  remote,   \* the UptimeRobot account
  account,  \* whether the Account resource and its API key can be read
  late,     \* the resources whose cleanup began over ten minutes ago
  budget,   \* environment events left
  queue,    \* the keys due for a reconcile
  pc,       \* the worker's next call, "idle" between two reconciles
  key,      \* the resource it reconciles
  obj,      \* its in-memory copy
  cur,      \* whether obj has the server's version
  rid,      \* result.ID of the last create or edit
  missing,  \* monitorMissing
  then,     \* where it goes after the status write under way: a call, "retry" or "done"
  spared,   \* the cleanup found an adopter
  stale     \* history: the status in obj was older than the server's when read

worker == <<pc, key, obj, cur, rid, missing, then, spared, stale>>
vars   == <<cr, cache, synced, remote, account, late, budget, queue,
            pc, key, obj, cur, rid, missing, then, spared, stale>>

Status == [ready : BOOLEAN, id : AnyId, type : Types \cup {NoType},
           paused : BOOLEAN, ok : BOOLEAN]      \* ok is the Ready condition

Resource == [phase : {"absent", "live", "deleting"}, fin : BOOLEAN, tracked : BOOLEAN,
             type : Types, paused : BOOLEAN, prune : BOOLEAN,
             adopt : AnyId, skip : BOOLEAN, st : Status]

NoStatus == [ready |-> FALSE, id |-> NoId, type |-> NoType, paused |-> TRUE, ok |-> FALSE]

(* A newly applied resource; Blank stands for no resource. *)
New(ty, p, pr, a) ==
  [phase |-> "live", fin |-> FALSE, tracked |-> FALSE, type |-> ty, paused |-> p,
   prune |-> pr, adopt |-> a, skip |-> FALSE, st |-> NoStatus]

SomeType    == CHOOSE ty \in Types : TRUE
SomeName    == CHOOSE n \in Names : TRUE
SomeMonitor == CHOOSE m \in Monitors : TRUE

Blank == [New(SomeType, FALSE, TRUE, NoId) EXCEPT !.phase = "absent"]

Calls == {"track", "cleanup", "delete", "unfinalize", "finalize", "retype", "adoptGet",
          "adoptEdit", "adoptPause", "create", "createPause", "get", "drift", "edit",
          "repause", "publish", "status"}

Exits == {"retry", "done"}

Init ==
  /\ cr = [m \in Monitors |-> Blank]
  /\ cache = cr
  /\ synced = Monitors
  /\ \E n \in Names, ty \in Types :
       remote = [i \in Ids |-> [state |-> IF i \in Foreign THEN "live" ELSE "free",
                                name |-> IF i \in Foreign THEN n ELSE SomeName,
                                type |-> IF i \in Foreign THEN ty ELSE SomeType,
                                paused |-> FALSE]]
  /\ account = TRUE /\ late = {} /\ budget = Budget /\ queue = {}
  /\ pc = "idle" /\ key = SomeMonitor /\ obj = Blank /\ cur = FALSE
  /\ rid = NoId /\ missing = FALSE /\ then = "done" /\ spared = FALSE /\ stale = FALSE
-----------------------------------------------------------------------------
(* The end of a reconcile: its locals are gone.  An error puts the key in  *)
(* the queue again at once; a success leaves it to the RequeueAfter timer. *)
Return(exit) ==
  /\ pc' = "idle" /\ obj' = Blank /\ cur' = FALSE /\ rid' = NoId
  /\ missing' = FALSE /\ then' = "done" /\ spared' = FALSE /\ stale' = FALSE
  /\ queue' = IF exit = "retry" THEN queue \cup {key} ELSE queue
  /\ UNCHANGED key

Spend == budget > 0 /\ budget' = budget - 1

(* A client call ends with one of its outcomes; faults are bounded. *)
Paying(o) == IF o.fault THEN "api" \in Events /\ Spend ELSE UNCHANGED budget

(* Set the copy's status, write it with updateMonitorStatus, go to next. *)
Report(st, next) == obj' = [obj EXCEPT !.st = st] /\ pc' = "status" /\ then' = next

(* Failed calls clear the Ready condition; some clear status.ready too. *)
NotOk(st)    == [st EXCEPT !.ok = FALSE]
NotReady(st) == [st EXCEPT !.ready = FALSE, !.ok = FALSE]

(* Every write gives the resource a new version, so other copies are stale. *)
Write(m, c) == cr' = [cr EXCEPT ![m] = c] /\ synced' = synced \ {m}
-----------------------------------------------------------------------------
(* The branch an object with contacts and secrets resolved takes next. *)
SyncBranch(o) ==
  IF o.st.id # NoId THEN "get" ELSE IF o.adopt # NoId THEN "adoptGet" ELSE "create"

TypeChanged(o) == o.st.id # NoId /\ o.st.type # o.type

AfterFinalizer(o) == IF TypeChanged(o) THEN "retype" ELSE SyncBranch(o)

(* Reconcile up to its first write: read the resource from the cache, then *)
(* the account and its key, whose absence is handled before deletion.      *)
Begin(m) ==
  /\ pc = "idle" /\ m \in queue
  /\ queue' = queue \ {m}
  /\ IF cache[m].phase = "absent" THEN UNCHANGED <<key, cur, obj, pc, then, stale>>
     ELSE /\ key' = m /\ cur' = (m \in synced) /\ stale' = (cache[m].st # cr[m].st)
          /\ IF ~account
             THEN /\ obj' = [cache[m] EXCEPT !.st = NotReady(cache[m].st)]
                  /\ pc' = "status" /\ then' = "retry"
             ELSE /\ obj' = cache[m] /\ UNCHANGED then
                  /\ pc' = IF cache[m].phase = "deleting" THEN "track"
                           ELSE IF ~cache[m].fin THEN "finalize" ELSE AfterFinalizer(cache[m])
  /\ UNCHANGED <<cr, cache, synced, remote, account, late, budget, rid, missing, spared>>

(* controllerutil.AddFinalizer and Update. *)
AddFinalizer ==
  /\ pc = "finalize"
  /\ IF cur
     THEN LET c == [obj EXCEPT !.fin = TRUE, !.st = cr[key].st] IN
          /\ Write(key, c) /\ obj' = c /\ pc' = AfterFinalizer(c)
          /\ UNCHANGED <<queue, key, cur, rid, missing, then, spared, stale>>
     ELSE Return("retry") /\ UNCHANGED <<cr, synced>>
  /\ UNCHANGED <<cache, remote, account, late, budget>>

(* A contact that has no ID yet, or an unreadable contact or auth secret:  *)
(* the reconcile returns before the branch, and persists nothing.          *)
DependencyMissing ==
  /\ pc \in {"get", "adoptGet", "create"} /\ "deps" \in Events
  /\ Spend /\ Return("retry")
  /\ UNCHANGED <<cr, cache, synced, remote, account, late>>
-----------------------------------------------------------------------------
(* updateMonitorStatus.  On a conflict it takes the cached resource, puts  *)
(* the whole status on it and tries once more; obj keeps its old version.  *)
StatusWritten ==
  /\ pc = "status"
  /\ cur \/ (key \in synced /\ cache[key].phase # "absent")
  /\ Write(key, [cr[key] EXCEPT !.st = obj.st])
  /\ IF then \in Exits THEN Return(then)
     ELSE pc' = then /\ then' = "done" /\ UNCHANGED <<queue, key, obj, cur, rid, missing, spared, stale>>
  /\ UNCHANGED <<cache, remote, account, late, budget>>

(* Two conflicts, a deleted resource, or an API server that fails. *)
StatusLost ==
  /\ pc = "status"
  /\ IF cur THEN "k8s" \in Events /\ Spend ELSE UNCHANGED budget
  /\ Return("retry")
  /\ UNCHANGED <<cr, cache, synced, remote, account, late>>
-----------------------------------------------------------------------------
(* InitializeCleanupTracking: the start time, once, retried on conflict    *)
(* with the cached resource until it gives up.                             *)
Track ==
  /\ pc = "track"
  /\ IF obj.tracked \/ cache[key].tracked
     THEN pc' = "cleanup" /\ UNCHANGED <<cr, synced, queue, key, obj, cur, rid, missing, then, spared, stale>>
     ELSE IF key \in synced /\ cr[key].phase # "absent"
     THEN /\ Write(key, [cr[key] EXCEPT !.tracked = TRUE])
          /\ pc' = "cleanup" /\ cur' = FALSE
          /\ UNCHANGED <<queue, key, obj, rid, missing, then, spared, stale>>
     ELSE Return("retry") /\ UNCHANGED <<cr, synced>>
  /\ UNCHANGED <<cache, remote, account, late, budget>>

(* Mutant of Adopter: only a finished adoption counts. *)
Adopter_ReadyOnly(m, i) ==
  \E o \in Monitors \ {m} :
    cache[o].phase = "live" /\ cache[o].st.ready /\ cache[o].st.id = i

(* Another resource that is not being deleted claims identifier i, by its  *)
(* adopt-id annotation or by a ready status, as far as the cache knows.    *)
Adopter(m, i) ==
  \E o \in Monitors \ {m} :
    /\ cache[o].phase = "live"
    /\ cache[o].adopt = i \/ (cache[o].st.ready /\ cache[o].st.id = i)

(* Reload, HandleFinalizerCleanup and cleanupFunc up to its DELETE.  Only  *)
(* the Deleting condition changes, which the model leaves out.             *)
Cleanup ==
  /\ pc = "cleanup"
  /\ LET c == cache[key]
         leave == c.skip \/ (key \in late /\ c.tracked) \/ ~c.prune \/ ~c.st.ready
         spare == ~leave /\ Adopter(key, c.st.id)
     IN IF c.phase = "absent" THEN Return("done")
        ELSE /\ obj' = c /\ cur' = (key \in synced) /\ spared' = spare
             /\ stale' = (c.st # cr[key].st)
             /\ IF leave \/ spare THEN pc' = "status" /\ then' = "unfinalize"
                                  ELSE pc' = "delete" /\ UNCHANGED then
             /\ UNCHANGED <<queue, key, rid, missing>>
  /\ UNCHANGED <<cr, cache, synced, remote, account, late, budget>>

CleanupDelete ==
  /\ pc = "delete"
  /\ \E o \in DeleteMonitor(remote, obj.st.id) :
       /\ remote' = o.remote /\ Paying(o)
       /\ Report(obj.st, IF o.res = "ok" THEN "unfinalize" ELSE "done")
  /\ UNCHANGED <<cr, cache, synced, account, late, queue, key, cur, rid, missing, spared, stale>>

(* Without its finalizer a resource under deletion goes away.  A live one  *)
(* that took its name meanwhile is what the reload of cleanup may find.    *)
Unfinalized(c) == IF c.phase = "deleting" THEN Blank ELSE [c EXCEPT !.fin = FALSE]

(* Mutant of RemoveFinalizer: the Update does not carry a version. *)
RemoveFinalizer_Unversioned ==
  /\ pc = "unfinalize" /\ Write(key, Unfinalized(cr[key])) /\ Return("done")
  /\ UNCHANGED <<cache, remote, account, late, budget>>

(* controllerutil.RemoveFinalizer and Update. *)
RemoveFinalizer ==
  /\ pc = "unfinalize"
  /\ IF cur THEN Write(key, Unfinalized(obj)) /\ Return("done")
            ELSE Return("retry") /\ UNCHANGED <<cr, synced>>
  /\ UNCHANGED <<cache, remote, account, late, budget>>
-----------------------------------------------------------------------------
(* A type change deletes the monitor; the status is cleared in memory only. *)
Retype ==
  /\ pc = "retype"
  /\ \E o \in DeleteMonitor(remote, obj.st.id) :
       /\ remote' = o.remote /\ Paying(o)
       /\ IF o.res = "ok"
          THEN LET c == [obj EXCEPT !.st.ready = FALSE, !.st.id = NoId] IN
               obj' = c /\ pc' = SyncBranch(c) /\ UNCHANGED then
          ELSE Report(NotOk(obj.st), "retry")
  /\ UNCHANGED <<cr, cache, synced, account, late, queue, key, cur, rid, missing, spared, stale>>

(* The branch without an identifier or an annotation: CreateMonitor. *)
Create ==
  /\ pc = "create"
  /\ \E o \in CreateMonitor(remote, NameOf[key], obj.type) :
       /\ remote' = o.remote /\ Paying(o)
       /\ IF o.res # "ok" THEN Report(NotReady(obj.st), "retry") /\ UNCHANGED rid
          ELSE LET st == [obj.st EXCEPT !.ready = TRUE, !.id = o.id, !.type = obj.type] IN
               /\ rid' = o.id
               /\ IF obj.paused
                  THEN /\ obj' = [obj EXCEPT !.st = st] /\ pc' = "createPause"
                       /\ UNCHANGED then
                  ELSE Report([st EXCEPT !.paused = FALSE], "publish")
  /\ UNCHANGED <<cr, cache, synced, account, late, queue, key, cur, missing, spared, stale>>

(* PauseMonitor(result.ID) after a create, an adoption or a recreation:    *)
(* done is the status it leads to, failed the one that tells it did not.   *)
PauseResult(done, failed) ==
  /\ \E o \in SetPaused(remote, rid, TRUE) :
       /\ remote' = o.remote /\ Paying(o)
       /\ IF o.res = "ok" THEN Report(done, "publish") ELSE Report(failed, "retry")
  /\ UNCHANGED <<cr, cache, synced, account, late, queue, key, cur, rid, missing, spared, stale>>

CreatePause ==
  /\ pc = "createPause"
  /\ PauseResult([obj.st EXCEPT !.paused = TRUE],
                 [NotReady(obj.st) EXCEPT !.paused = FALSE])
-----------------------------------------------------------------------------
(* Adoption: the monitor must exist and be of the type of the spec. *)
AdoptGet ==
  /\ pc = "adoptGet"
  /\ \E o \in GetMonitor(remote, obj.adopt) :
       /\ Paying(o)
       /\ IF o.res = "ok" /\ remote[obj.adopt].type = obj.type
          THEN Report([obj.st EXCEPT !.ready = TRUE, !.id = obj.adopt, !.type = obj.type,
                                     !.paused = obj.paused], "adoptEdit")
          ELSE Report(NotReady(obj.st), "retry")
  /\ UNCHANGED <<cr, cache, synced, remote, account, late, queue, key, cur, rid, missing, spared, stale>>

(* The status once the remote monitor has the values of the spec. *)
SyncedAs(i) == [obj.st EXCEPT !.id = i, !.paused = obj.paused]

(* EditMonitor; pausing is the call that has to follow it, "none" if not.  *)
EditResult(pausing, failed) ==
  /\ \E o \in EditMonitor(remote, obj.st.id, NameOf[key], obj.type) :
       /\ remote' = o.remote /\ Paying(o)
       /\ IF o.res # "ok" THEN Report(failed, "retry") /\ UNCHANGED rid
          ELSE /\ rid' = o.id
               /\ IF pausing # "none" THEN pc' = pausing /\ UNCHANGED <<obj, then>>
                                      ELSE Report(SyncedAs(o.id), "publish")
  /\ UNCHANGED <<cr, cache, synced, account, late, queue, key, cur, missing, spared, stale>>

AdoptEdit ==
  /\ pc = "adoptEdit"
  /\ EditResult(IF obj.paused THEN "adoptPause" ELSE "none", NotReady(obj.st))

AdoptPause ==
  /\ pc = "adoptPause"
  /\ PauseResult(SyncedAs(rid), [NotReady(obj.st) EXCEPT !.paused = FALSE])
-----------------------------------------------------------------------------
(* The branch of a known identifier: GetMonitor for drift detection. *)
Get ==
  /\ pc = "get"
  /\ \E o \in GetMonitor(remote, obj.st.id) :
       /\ Paying(o)
       /\ missing' = (o.res = "notFound")
       /\ IF o.res = "err" THEN Report(NotOk(obj.st), "retry")
          ELSE /\ pc' = IF o.res = "ok" /\ remote[obj.st.id].paused # obj.paused
                        THEN "drift" ELSE "edit"
               /\ UNCHANGED <<obj, then>>
  /\ UNCHANGED <<cr, cache, synced, remote, account, late, queue, key, cur, rid, spared, stale>>

(* PauseMonitor or StartMonitor, its result persisted before the edit. *)
CorrectDrift ==
  /\ pc = "drift"
  /\ \E o \in SetPaused(remote, obj.st.id, obj.paused) :
       /\ remote' = o.remote /\ Paying(o)
       /\ IF o.res = "ok" THEN Report([obj.st EXCEPT !.paused = obj.paused], "edit")
          ELSE Report([NotOk(obj.st) EXCEPT !.paused = ~obj.paused], "retry")
  /\ UNCHANGED <<cr, cache, synced, account, late, queue, key, cur, rid, missing, spared, stale>>

Edit ==
  /\ pc = "edit"
  /\ EditResult(IF missing /\ obj.paused THEN "repause" ELSE "none", NotOk(obj.st))

RePause ==
  /\ pc = "repause"
  /\ PauseResult(SyncedAs(rid), [NotOk(obj.st) EXCEPT !.paused = FALSE])

(* The heartbeat URL is published, or not; then the last status write. *)
Publish ==
  /\ pc = "publish"
  /\ \/ Report([obj.st EXCEPT !.ok = TRUE], "done") /\ UNCHANGED budget
     \/ Report(NotOk(obj.st), "retry") /\ "k8s" \in Events /\ Spend
  /\ UNCHANGED <<cr, cache, synced, remote, account, late, queue, key, cur, rid, missing, spared, stale>>

Step ==
  \/ AddFinalizer \/ StatusWritten \/ StatusLost \/ Track \/ Cleanup \/ CleanupDelete
  \/ RemoveFinalizer \/ Retype \/ Create \/ CreatePause \/ AdoptGet \/ AdoptEdit
  \/ AdoptPause \/ Get \/ CorrectDrift \/ Edit \/ RePause \/ Publish
-----------------------------------------------------------------------------
(* What metadata.generation counts: the spec and the deletion timestamp. *)
Generation(c) == [phase |-> c.phase, type |-> c.type, paused |-> c.paused, prune |-> c.prune]

(* The watch brings the cache up to the server's state.  It is one watch   *)
(* for all Monitors, so the cache is always one past state of the server.  *)
(* GenerationChangedPredicate lets only a new generation into the queue.   *)
Deliver ==
  /\ synced # Monitors
  /\ cache' = cr /\ synced' = Monitors
  /\ queue' = queue \cup {m \in Monitors : Generation(cache[m]) # Generation(cr[m])}
  /\ UNCHANGED <<cr, remote, account, late, budget, worker>>

(* RequeueAfter: syncInterval after a success, at least thirty seconds     *)
(* after a failed cleanup.  By then the watch has delivered the writes of  *)
(* the reconcile that set the timer.                                       *)
Timer(m) ==
  /\ m \notin queue /\ m \in synced /\ cache[m].phase # "absent"
  /\ pc = "idle" \/ key # m
  /\ queue' = queue \cup {m}
  /\ UNCHANGED <<cr, cache, synced, remote, account, late, budget, worker>>

(* A write by a user: another version than the worker's copy has. *)
UserWrite(e, m, c) ==
  /\ e \in Events /\ Spend
  /\ Write(m, c)
  /\ cur' = (cur /\ key # m)
  /\ UNCHANGED <<cache, remote, account, queue, pc, key, obj, rid, missing, then, spared, stale>>

Apply(m) ==
  /\ cr[m].phase = "absent" /\ late' = late \ {m}
  /\ \E ty \in Types, p, pr \in BOOLEAN, a \in {NoId} \cup Used(remote) :
       /\ p => "pause" \in Events
       /\ pr \/ "prune" \in Events
       /\ a # NoId => "adopt" \in Events
       /\ UserWrite("apply", m, New(ty, p, pr, a))

EditSpec(m) ==
  /\ cr[m].phase # "absent" /\ UNCHANGED late
  /\ \/ \E ty \in Types \ {cr[m].type} : UserWrite("type", m, [cr[m] EXCEPT !.type = ty])
     \/ UserWrite("pause", m, [cr[m] EXCEPT !.paused = ~@])
     \/ UserWrite("prune", m, [cr[m] EXCEPT !.prune = ~@])

(* adopt-id and skip-cleanup, set or taken away.  In the documented use    *)
(* adopt-id stays until the adoption is done, which status.id shows.       *)
Annotate(m) ==
  /\ cr[m].phase # "absent" /\ UNCHANGED late
  /\ \/ /\ cr[m].adopt \in {NoId, cr[m].st.id} \/ "withdraw" \in Events
        /\ \E i \in (Used(remote) \cup {NoId}) \ {cr[m].adopt} :
             UserWrite("adopt", m, [cr[m] EXCEPT !.adopt = i])
     \/ UserWrite("skip", m, [cr[m] EXCEPT !.skip = ~@])

(* kubectl delete: the finalizer keeps the resource, its absence does not. *)
Delete(m) ==
  /\ cr[m].phase = "live" /\ UNCHANGED late
  /\ UserWrite("delete", m, IF cr[m].fin THEN [cr[m] EXCEPT !.phase = "deleting"] ELSE Blank)

(* Ten minutes pass since cleanup-start-time. *)
TimeOut(m) ==
  /\ "late" \in Events /\ cr[m].tracked /\ m \notin late
  /\ late' = late \cup {m}
  /\ UNCHANGED <<cr, cache, synced, remote, account, budget, queue, worker>>

(* The Account or its secret disappears, and is restored. *)
AccountLost ==
  /\ "account" \in Events /\ account /\ Spend /\ account' = FALSE
  /\ UNCHANGED <<cr, cache, synced, remote, late, queue, worker>>

AccountRestored ==
  /\ ~account /\ account' = TRUE
  /\ UNCHANGED <<cr, cache, synced, remote, late, budget, queue, worker>>

(* Someone pauses, starts or deletes a monitor in the dashboard. *)
Dashboard ==
  /\ \E i \in Ids :
       /\ Live(remote, i)
       /\ \/ "dashPause" \in Events /\ remote' = [remote EXCEPT ![i].paused = ~@]
          \/ "dashDelete" \in Events /\ remote' = Gone(remote, i)
  /\ Spend
  /\ UNCHANGED <<cr, cache, synced, account, late, queue, worker>>

(* The process stops and starts again: the locals are lost, and the        *)
(* informer begins with a fresh list, which queues every resource.         *)
Restart ==
  /\ "crash" \in Events /\ pc # "idle" /\ Spend
  /\ cache' = cr /\ synced' = Monitors
  /\ queue' = {m \in Monitors : cr[m].phase # "absent"}
  /\ pc' = "idle" /\ obj' = Blank /\ cur' = FALSE /\ rid' = NoId
  /\ missing' = FALSE /\ then' = "done" /\ spared' = FALSE /\ stale' = FALSE
  /\ UNCHANGED <<cr, remote, account, late, key>>

Environment ==
  \/ DependencyMissing \/ AccountLost \/ AccountRestored \/ Dashboard \/ Restart
  \/ \E m \in Monitors : Apply(m) \/ EditSpec(m) \/ Annotate(m) \/ Delete(m) \/ TimeOut(m)

Next == Deliver \/ Step \/ (\E m \in Monitors : Begin(m) \/ Timer(m)) \/ Environment

Spec == Init /\ [][Next]_vars

(* The reconcile in progress goes on, the watch delivers, a lost account   *)
(* is put back, timers expire, and every queued key is taken.  The backoff *)
(* between two failed reconciles grows, so that a key whose reconciles     *)
(* keep failing is at last taken with the cache up to date.                *)
Fairness ==
  /\ WF_vars(Step) /\ WF_vars(Deliver) /\ WF_vars(AccountRestored)
  /\ SF_vars(pc = "idle" /\ Deliver)
  /\ \A m \in Monitors : WF_vars(Timer(m)) /\ SF_vars(m \in synced /\ Begin(m))

FairSpec == Spec /\ Fairness
-----------------------------------------------------------------------------
(* The shape of every variable. *)
TypeOK ==
  /\ cr \in [Monitors -> Resource] /\ cache \in [Monitors -> Resource]
  /\ synced \subseteq Monitors /\ remote \in Account /\ account \in BOOLEAN
  /\ late \subseteq Monitors /\ budget \in 0 .. Budget /\ queue \subseteq Monitors
  /\ pc \in Calls \cup {"idle"} /\ key \in Monitors /\ obj \in Resource
  /\ cur \in BOOLEAN /\ rid \in AnyId /\ missing \in BOOLEAN
  /\ then \in Calls \cup Exits /\ spared \in BOOLEAN /\ stale \in BOOLEAN

(* What the documentation lets a resource under deletion go for: nothing   *)
(* of it is left in the account, or its removal is not wanted, was given   *)
(* up, or would take the monitor from its adopter.                         *)
Disposed(m) ==
  LET c == cr[m] IN
    ~c.prune \/ ~Live(remote, c.st.id) \/ c.skip \/ (c.tracked /\ m \in late) \/ spared

(* The code also lets go what is not ready, which it takes to have no      *)
(* monitor, and what an error with "404" in its text declared missing.     *)
Released(m) == Disposed(m) \/ ~cr[m].st.ready \/ cr[m].st.id \in Confusable

(* A resource with a finalizer disappears only when, at that moment, its   *)
(* current spec and status justify it, whatever was edited since cleanup   *)
(* decided (lines 121-221: the decision and the Update are calls apart).   *)
RemovalJustified ==
  [][\A m \in Monitors :
       cr[m].phase = "deleting" /\ cr'[m].phase = "absent" => Released(m)]_vars

(* README: deleting a resource with prune removes its monitor, unless the  *)
(* cleanup is skipped, timed out or finds an adopter.  Status.ready is no  *)
(* part of that promise.                                                   *)
PruneHonoured ==
  [][\A m \in Monitors :
       cr[m].phase = "deleting" /\ cr'[m].phase = "absent" => Disposed(m)]_vars

(* The identifier of a resource is not forgotten or replaced while its     *)
(* monitor lives, whatever conflicts, retries and recreations come between *)
(* the read and the write of its status: an orphan needs a read that was   *)
(* already behind, or an error with a "404" in its text.                   *)
IdKept ==
  [][~stale => \A m \in Monitors :
       LET i == cr[m].st.id IN
       i # NoId /\ i \notin Confusable /\ cr'[m].phase # "absent" /\ cr'[m].st.id # i
         => ~Live(remote, i)]_vars

(* EditMonitor (client.go 690): "If update fails because monitor doesn't   *)
(* exist (404), recreate it".  While it exists, an edit ends with its own  *)
(* identifier.                                                             *)
RecreatedOnlyWhenGone ==
  [][Live(remote, obj.st.id) /\ pc \in {"edit", "adoptEdit"} =>
       rid' = NoId \/ rid' = obj.st.id]_vars

(* updateMonitorStatus: a successful create is not followed by a second.   *)
NoSecondCreate == pc = "create" => SameName(remote, NameOf[key]) = {}

(* A type change is carried out: line 234, "Type change requires recreate".*)
TypeFollowsSpec ==
  <>[](\A m \in Monitors : cr[m].phase = "live" =>
         Live(remote, cr[m].st.id) /\ remote[cr[m].st.id].type = cr[m].type)

(* A deletion comes to an end: conflicts, stale copies, failed DELETEs and *)
(* an account that was away for a while do not hold the resource for ever. *)
DeletionCompletes ==
  \A m \in Monitors : cr[m].phase = "deleting" ~> cr[m].phase # "deleting"
=============================================================================
