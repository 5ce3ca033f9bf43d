# uptime-robot-operator in TLA+

A verification project for the UptimeRobot operator: a Kubernetes operator, built
with controller-runtime, that keeps an UptimeRobot account in line with custom
resources. The modules are translated from the Go code; the line numbers below
and in `PROJECT.json` are those of the commit they were translated from.

## 1. Inventory

What every controller shares, and every model has to have:

* **One worker per controller.** controller-runtime runs one reconcile of a
  controller at a time and never two of the same key. Controllers run side by side.
* **Reads come from an informer cache**, a past state of the API server. Writes go
  to the server with the `resourceVersion` of the copy they started from and fail
  with a conflict when it is not the newest.
* **GenerationChangedPredicate**: only spec changes and the deletion timestamp
  queue a key; a write to status, annotations or finalizers does not.
* **Results**: an error requeues the key with a growing backoff (5 ms to 1000 s),
  `RequeueAfter` sets a timer, and a restart lists and queues everything.
* **The remote side has no transactions.** A call may be executed and its answer
  lost; whatever is not in `status` when the process stops is forgotten.

| Component | State | Operations | Talks to | Must hold |
|---|---|---|---|---|
| Monitor controller, `monitor_controller.go` | finalizer, annotations (`adopt-id`, `skip-cleanup`, `cleanup-start-time`), status (`ready`, `id`, `type`, pause state, conditions) | create, adopt, edit, pause/start, recreate on type change, cleanup | client, Account, Contact, Secrets, other Monitors of its namespace | one monitor per resource, none forgotten, none deleted that another resource was given; convergence; deletions end |
| Finalizer cleanup, `finalizer.go` | start time annotation | skip, time out, try, back off | the controllers' cleanup functions | a deletion ends within the timeout, and never without a reason |
| UptimeRobot client, `client.go` | none | monitors, groups, windows, integrations, contacts | HTTP retry, the service | tells absent from failed; 404 on DELETE is success; 409 on POST is the existing monitor |
| HTTP retry, `retry.go` | attempt counter | resend on network errors, 429 and 5xx, with backoff and Retry-After | the service | bounded, and a request is resent only when that is harmless |
| MaintenanceWindow controller | finalizer, `ready`, `id` | create, update, recreate on 404, cleanup | client, Monitors' statuses | no second window, no orphan |
| MonitorGroup controller | the same | the same; deletion before the account lookup | client, Monitors' statuses | the same, and a missing account does not block deletion |
| SlackIntegration controller | finalizer, `ready`, `id` | create; DELETE and POST on drift; cleanup | client, Secrets | no second integration, no orphan |
| Ingress controller | finalizer on the Ingress | creates, updates and deletes Monitor resources | Monitor controller, through the API server | one Monitor per Ingress, of its own namespace |
| Account controller | `ready`, contacts | checks the API key, lists contacts | client, Secrets | a changed Secret is noticed |
| Contact controller | `id` | resolves a name to an id | client | the id is that of the spec |
| Heartbeat URL publishing, `monitor_controller.go` 621-922 | publish target in status, owned Secrets and ConfigMaps | write, move, clean up | API server | the key is in the named target and nowhere else |
| Admission webhooks | none | at most one default Account, one default Contact | API server | the default is unique |

Hard here are: steps of the reconciler interleaved with user edits, status writes
that conflict while the cache lags, stops between a remote call and the status
write that records it, lost answers, retries of what was already done, and two
resources that hand one monitor over. `PROJECT.json` lists the hazards line by
line, with the properties that cover them, or the reason why none does.

## 2. Modules

### UptimeRobotMonitors

The account and the client's monitor operations. An operation is the *set of its
outcomes* `[remote, res, id, fault]`: what is left in the account, what the caller
is told (`ok`, `err`, `notFound`), and whether it took a fault to get there.

| Definition | Code | Note |
|---|---|---|
| `CreateMonitor`, `PostOnce`, `Resolve409` | `client.go` 479-618 | 409 becomes the id in the body, or the only monitor of that name and URL; the type is not looked at. A POST whose answer was lost is resent by `doWithRetry` |
| `GetMonitor` | 705-721 | `notFound` for every error text with "404" in it |
| `DeleteMonitor` | 649-674 | 404 is success; a DELETE may fail after it was executed; success also after an error status with "404" in its text (661) |
| `Misread` | 661, 714 | the text of a network error quotes the URL (identifier, port), that of an error status the body. Constant `Confusable` holds the identifiers in whose requests this can turn an error into "missing", by their own digits or by those of a port or a body; the theorems hold for every such set |
| `EditMonitor`, `Recreate` | 676-703 | PATCH, and after a failed one GET and POST |
| `SetPaused` | 965-978 | pause and start |

The service is external. Assumed of it: identifiers are never reused, PATCH
changes neither the type nor the pause state, and (`Dedupe`) POST answers 409 to
the name and URL of a live monitor, which is what the client's 409 branch is for.
Names stand for pairs of friendly name and URL.

### MonitorController

The reconciler with the watch, the work queue and the users around it. One action
is the code from one remote call or API-server write to the next.

| Variable | Meaning |
|---|---|
| `cr`, `cache`, `synced` | the resources at the API server, the informer's copies, and whose cached copy has the server's version. The cache is one past state of the server (one watch); versions are replaced by "has the server's version" |
| `remote`, `account` | the account; whether the Account resource and its key are readable |
| `queue`, `late`, `budget` | keys due; resources whose cleanup began over ten minutes ago; environment events left |
| `pc`, `key`, `obj`, `cur`, `rid`, `missing`, `then`, `spared` | the worker: its next call, its key, its in-memory copy, whether that has the server's version, `result.ID`, `monitorMissing`, where to go after the status write, whether cleanup found an adopter |
| `stale` | history: the status in `obj` was older than the server's when it was read |

| Action | Lines of `monitor_controller.go` |
|---|---|
| `Begin` | 83-124: read, account and key (whose absence is reported before deletion is looked at), deletion, finalizer |
| `AddFinalizer` | 226-231 |
| `Retype` | 233-248 |
| `DependencyMissing` | 250-292 |
| `AdoptGet`, `AdoptEdit`, `AdoptPause` | 294-394 |
| `Create`, `CreatePause` | 397-441 |
| `Get`, `CorrectDrift`, `Edit`, `RePause` | 446-587 |
| `Publish` | 589-611 |
| `StatusWritten`, `StatusLost` | `updateMonitorStatus`, 924-952 |
| `Track` | `InitializeCleanupTracking`, `finalizer.go` 204-237 |
| `Cleanup`, `CleanupDelete`, `RemoveFinalizer` | 129-221 with `HandleFinalizerCleanup`, `finalizer.go` 95-202 |
| `Deliver`, `Timer` | informer and predicate (955-970); `RequeueAfter` (211-213, 613-618) |
| `Apply`, `EditSpec`, `Annotate`, `Delete`, `TimeOut`, `AccountLost`, `AccountRestored`, `Dashboard`, `Restart` | users, time, the dashboard, the process |

Abstractions: all resources use one account and one namespace, as the adopter
check compares only those; of the spec the model keeps type, pause state, prune
and a fixed name and URL; of the conditions only Ready (`st.ok`), as no code reads
one back; of a cleanup's duration only whether it is over ten minutes. A write
gives a resource a new version also when it changes nothing.

`MonitorConvergence` adds two histories to it, the only causes of a disagreement that
stays: `aliased`, identifiers taken over from a 409 for a monitor of another type
(`client.go` 500), and `cleared`, identifiers whose resource lost `status.ready` to an
unreadable account (95, 108) or to the failure of what follows a create or an adoption
(355, 369, 423), which the branch of a known identifier (446-587) never restores.
`EventuallyConverged` is stated there. `MonitorHandover` adds the adopt-id claims that
stood when a resource was deleted and have stood since. `MCMonitorController`,
`MCMonitorConvergence` and `MCMonitorHandover` give TLC its instances,
`MonitorController_proofs` and `MonitorHandover_proofs` hold the theorems.

### RemoteObjects, OwnedResource and the controllers of windows, groups and integrations

`RemoteObjects` is to these objects what `UptimeRobotMonitors` is to monitors:
operations as sets of outcomes. There is no duplicate check, so a POST that is sent
twice leaves two objects.

`OwnedResource` has what the three reconcilers share: the resource, its cached
copy, the worker, the users, the faults. A controller's module states its calls in
the order of its Reconcile, with what it does differently:

| | `MaintenanceWindowController` | `MonitorGroupController` | `SlackIntegrationController` |
|---|---|---|---|
| account lookup | before deletion (72-96) | after deletion; the cleanup looks it up itself (82-97) | before deletion |
| POST or PATCH by | `ready` (197) | `ready` (197) | `ready` and `id` (173); drift is DELETE and POST (285-296) |
| cleanup skips the DELETE if | not `ready` (115) | no `id` | no `id` |
| status write | once | once | once more on a conflict (264-283), from the cache |
| status write fails after POST | identifier lost | identifier lost | identifier kept in memory, `ready` set to false, written again |
| queued by | own spec, every write to a referenced Monitor | the same | own spec only |

`payload` is the request made of the spec and of what its references resolved to
when they were read (`dep`). A spec in `SelfContained` needs no reference: a window with
`autoAddMonitors`, a group that names no monitor, an integration with its `webhookURL`
in the spec (`NoWebhook` is the secret that cannot be read when it is needed).
`OwnedControllers` puts the three side by side (the
variable `kind` picks one) and shows that each implements `OwnershipLedger`, the
abstract promise: sign, acquire, lose, record, leave.

### HttpCall, HttpRetry and FinalizerCleanup

`HttpRetry` is `doWithRetry`: classes of answers, the attempt counter, the delay on
the timer (exponential with the two extremes of the jitter, or Retry-After, each
capped), cancellation. `HttpCall` is what it promises: at most `Limit` requests,
success only when the last one was executed, an error that says nothing.

`FinalizerCleanup` uses it for the DELETE of `HandleFinalizerCleanup` and, when `kind` is
a Monitor, for the lookup by identifier that follows a failed DELETE (`Lookup`,
`JudgeLookup`; `client.go` 664-669), a call with attempts and delays of its own. It adds
the clock: `age`, the seconds since the start time annotation, grows where the code waits
(queue, request, retry timer) and can be set back; `elapsed` is what one run of the helper
measured. `kind` also tells the controllers that read the account before they look at
deletion (all but the one of groups, `LookupFirst`), and the errors whose text is searched
for "404" (`Misleading`): for a Monitor those of an error status, for the others network
errors too. A failed DELETE with such an error is success to the code (661, 872, 905,
948), and `result` is then "mistaken". `due` is the requeue: RequeueAfter, or the rate
limiter's penalty for an error. A panic (negative shift) is an error to the queue, as
controller-runtime recovers it.

### HeartbeatPublisher

`monitor_controller.go` 621-922, the call `Publish` of `MonitorController` seen from
inside, with its own copies of Monitor, Secrets and ConfigMaps. `next` is the target
in the worker's copy of the status, which *every* status write carries along; that
includes the one before the publication (`Sync`, 442 and 584) and the one a failed
publication ends with (`Report`). `lost` records the
targets nobody can clean up any more and why. What the rest of the reconciler does
to the Monitor comes in as `UrlChanged`.

### IngressController

One action per write of the Ingress reconciler. Monitors are found by an index over
all namespaces, so the module has ingresses of one name in several namespaces. It
composes with `MonitorController` through the API server (`Refused` is what `updateValues`
or the API server answers to a Monitor's values: an annotation that does not decode, a
first rule without `http`, whose nil pointer panics (224), or a URL that stays empty
because the ingress has the annotation `monitor.url` (210, 233) and the CRD requires one
(`monitor_types.go` 143)). In the other direction, `MonitorHeld` and
`MonitorGone` are that module's `AddFinalizer` and `RemoveFinalizer` reduced to what
an ingress can see.

### DefaultObjects and Accounts

`DefaultObjects` is a kind with a default: objects, cache, webhook requests between
admission and storage, and the lookup by name or default. `Accounts` instantiates it
for Account and for Contact and adds the two reconcilers, the secrets and the
service. A name stands for the object, the identifier of a contact for the account
and the way (id or name) it was resolved.

## 3. Runs

`Events` names what the environment does in an instance, `Budget` bounds how many
of its events and faults happen in a behaviour; the reconciler's own steps, its
retries and the watch are unbounded. Deadlock is not checked: when the budget is
spent and no resource is left, there is nothing to do.

| Run | Instance | Shows |
|---|---|---|
| `MonitorSafety` | 1 resource, 3 identifiers (1 foreign, 1 confusable), 2 types, every event, budget 3 | `TypeOK`; `RemovalJustified`: a resource under deletion disappears only with a reason that holds at that moment; `IdKept`: no identifier is dropped from a status while its monitor lives, unless the reconcile began from an outdated status or an error about it has "404" in its text |
| `MonitorLiveness` | 1 resource, 3 identifiers, one of them confusable, budget 3 | `EventuallyConverged`: when the environment rests, spec, status and monitor agree in existence, name, type, pause and readiness, but for `aliased` and `cleared`; `DeletionCompletes` |
| `MonitorHandover` | 2 resources, 2 identifiers, budget 5 | `ClaimRespected`: a resource annotated with a monitor's id before its owner is deleted, and since, keeps the monitor |
| `OwnedControllers` | each kind with 1 resource, 4 identifiers (one confusable), 2 specs (one that needs no reference), 2 values of the references, every event, budget 2 | `KeepsLedger` (refinement); `EventuallyInSync`; `DeletionCompletes` |
| `CleanupDeadline` | a Monitor, a group and another kind; timeout 600 s; 3 attempts of 40 s; delays 20 s doubling to 40 s, jitter 100 %; Retry-After 90; clock set back by 160 s; the queue's delays in ticks of 40 s; budget 2 | `Deadline`, `KeepsCall` (refinement), `RemovalEarned`, `CleanupEnds` |
| `HeartbeatPublish` | a Secret and a ConfigMap of one name, 2 keys, 2 monitor ids, budget 2 | `ForeignUntouched`, `EventuallyPublished`, `EventuallyClean` |
| `IngressMirror` | 2 namespaces, every event, budget 2 | `UserMonitorUntouched`, `EventuallyMirrored`, `DeletionEnds` |
| `Accounts` | 2 accounts, 1 contact, 1 secret, every event, budget 3 | `UniqueDefaults`, `AccountsSettle`, `ContactsSettle` |
| `SecondCreate` | 1 resource, edits, no faults | violation, see below |
| `TypeAlias` | 1 resource, edits, a restart | violation |
| `PruneLeak` | 1 resource, the account comes and goes | violation |
| `ConfusedNotFound` | adoption of a monitor with "404" in its id, lost answers | violation |

Why the bounds are enough: an error needs a resource applied (1 event) and the
shortest known ones two more; every pair of events after an apply is covered, in
every order, at every step of the reconciler. `MonitorSafety` was also run by hand
with budget 4 (14.7 million states). A handover takes apply, apply, annotate and
delete, which leaves one fault or restart anywhere at budget 5. Three identifiers
are the foreign or first one, its replacement and one duplicate.

The same holds of the other runs, whose resource is there from the start: two events are
every pair of an edit, a fault, a loss and a restart, at every step. Four identifiers are
an object, the two of a resent POST, and room for one more, so that a full account
(`Free(remote) = {}`) is an exception and not the rule. `CleanupDeadline` scales the
delays up and the attempts down: a call takes 280 s at most (in the code six attempts with
delays of 1 to 32 s), a Monitor's two 560 s, so that the lookup alone can outlast what one
call would allow: with `MaxCall` in the place of `MaxCleanup` TLC refutes `Deadline` for
Monitors; and the penalties of the queue's rate limiter are rounded up to multiples of
`Tick`. With jitter 100 % the two extremes of a delay are 0 and its double. `Horizon` is
beyond the deadline of 1480 s, so that a violation is not cut off. `IngressMirror` was run
by hand with budget 3 for `UserMonitorUntouched` (8.6 million states): a user's Monitor
that takes a listed one's name needs three events.

Fairness (`Fairness` in `MonitorController`): the reconcile in progress goes on, the watch
delivers, a lost account is restored and timers expire (weak fairness); every queued key
is taken, also with its cache up to date and also after deliveries between two reconciles
(strong fairness). The last is what the workqueue's growing backoff gives: a key that
keeps failing waits up to 1000 s, far longer than the watch needs. Faults are bounded by
the budget, that is, they end. The other modules make the same assumptions of their
worker, watches and timers; `FinalizerCleanup` assumes nothing of the service, whose
errors are not counted as faults there; `Accounts` assumes that each name in a queue is
taken in the end; `HeartbeatPublisher` counts a cache that is still old after a whole sync
interval as a fault.

### What the properties except

A property that holds only with an exception says so in its formula, by a history
variable or an input named for the reason, and TLC finds the counterexample when the
exception is taken out. These are limits of the code, not of the model:

| Property | Exception | Why the code cannot do better |
|---|---|---|
| `IdKept` | `stale` | the requeue after an error may read a status older than its own last write, and while the account is unreadable writes it back |
| | `Confusable` | a failed PATCH whose GET fails with "404" in its text makes a second monitor, whose identifier replaces the first |
| `RemovalJustified` | `Confusable` | a DELETE refused with "404" in the body counts as done (`client.go` 661) |
| | `ready` | the cleanup takes a resource that is not ready for one without a monitor; the run `PruneLeak` is about it |
| `EventuallyConverged` | `cleared` | nothing restores `status.ready` once a failure has cleared it: the branch of a known identifier (446-587) writes every other field |
| | `aliased` | 409 is resolved by name and URL; the run `TypeAlias` is about it |
| `RemovalEarned` | "mistaken" | a failed DELETE with "404" in its error's text counts as done (`client.go` 661, 872, 905, 948) |
| `KeepsLedger` | `stale` | the watch on Monitors, or an error, requeues a window before its own status write has reached the cache: it is created again |
| | `Confusable` | "404" in an error's text makes a failed PATCH a missing object, a failed DELETE a success |
| | Slack, not `ready` | an unreadable secret or a failed call sets `ready` to false; the next reconcile POSTs without a DELETE |
| | no identifier recorded | a resent POST, a stop, or a conflict of the unretried status write leaves objects nobody knows |
| `EventuallyInSync` | no room, no secret | nothing can be created; nothing watches the secret |
| `Deadline` | `blocked`, `mark = "bad"` | the account lookup comes first; an unparsable start time is taken for now, every time |
| `ForeignUntouched` | a replaced target | DELETE has no precondition and the cache still shows the old owner |
| `EventuallyClean` | `lost` | the record of a target is overwritten by the status write's retry or lost with the reconcile |
| `UserMonitorUntouched` | a replaced Monitor | the same |
| `EventuallyMirrored` | `shared`, `missed` | lookup over all namespaces; finalizer after the Monitor; no watch on Monitors |
| | ~`Servable` | an ingress with the annotation `monitor.url` when its Monitor is created, with a rule without `http`, or with an annotation that does not decode never gets a Monitor: each reconcile fails in the same way |
| `UniqueDefaults` | `raced` | the webhook reads a cache, and two requests do not see each other |
| `AccountsSettle` | a key revoked later | nothing asks again |
| `ContactsSettle` | `moved` | an identifier is resolved once (`contact_controller.go` 86) |

### What the violations say

* **SecondCreate** - the comment of `updateMonitorStatus` (924, 934) promises that
  the conflict retry prevents a second create. Its re-get reads the cache. If the
  edit that caused the conflict is not there yet, the retry conflicts as well, the
  identifier is lost with the reconcile, and the next reconcile POSTs again. Only
  the service's 409 then prevents a duplicate.
* **TypeAlias** - a stop after POST and a type edit: the next POST is answered 409
  and the monitor of the old type is taken over, with `status.type` set to the new
  type. The type change (234) never happens.
* **PruneLeak** - an account that is unreadable for a moment during a deletion sets
  `status.ready` to false; the cleanup takes that for "has no monitor", skips the
  DELETE and removes the finalizer.
* **ConfusedNotFound** - `GetMonitor` looks for "404" in the error text, which for a
  network error quotes the URL and its identifier. A timeout then means "missing".

Not counted as findings, but met on the way and kept in the hazard list: a requeue that
starts from an outdated cached status while the account is unreadable writes the older
status over the newer (the `stale` guard of `IdKept`), and the DELETE of a type change
does not look for adopters. `docs/api-reference.md` 184 describes `status.ready` as
"Monitor exists in UptimeRobot"; after one unreadable account it is false for good while
the Ready condition is true again (`cleared`). The comment at `finalizer.go` 39 puts the
last step of the backoff, 240 s, at 25 % of the timeout; it is reached at 83 %, and
neither the cap of 5 minutes nor `maxBackoffShift` ever applies within the timeout.

## 4. Proofs

`MonitorController_proofs` proves, for every set of resources, identifiers, types,
events and every budget, from the assumptions named in the two modules (finite or
not, no assumption bounds a set):

* `TypeCorrect`: `Spec => []TypeOK`. The lemmas `CreateMonitorType`, `GetMonitorType`,
  `DeleteMonitorType`, `EditMonitorType` and `SetPausedType` say that every client
  operation leaves a well-formed account; then one lemma per action.
* `Invariance`: `Spec => []IInv`.
* `RemovalIsJustified`: `Spec => RemovalJustified`.

`RemovalJustified` is about a step, and what makes it true happened several calls
earlier, so it needs an invariant that connects the two. `IInv` says: cached copies
that have the server's version are the server's resource (`SyncInv`); so is the
worker's copy, but for the status it may have set, and in full once it is about to
remove the finalizer (`CopyInv`: the status write just before put the copy's status
there); and a copy that the cleanup has cleared stays free to go while nobody else
writes the resource (`ClearedInv`: a monitor never comes back under its identifier,
lateness only grows, and a user's write makes the copy an outdated one, which the
Update refuses). The remote calls all reduce to one lemma, `CopyEditedInv`: they
write nothing to the API server and change only the status of the copy. TLC checked
`IInv` on the instances of `MonitorSafety` and `MonitorHandover` before it was proved.

`OwnedControllers_proofs` proves the refinement `LedgerIsKept`: `Spec => KeepsLedger`,
for any identifiers, specs, references, events and budget, together with
`TypeCorrect` and `Invariance`. The lemmas `CreateFacts`, `UpdateFacts`, `DeleteFacts`
and their kin reduce every client call to "objects are only added" or "only taken
away". The invariant connects a call to what was read before it: the finalizer seen
in a copy is still on the server's resource when the POST is made (`FinalizerInv`);
an identifier in any copy is never handed out again (`KnownInv`); the worker acts on
the server's status unless it read an older one (`SeenInv`); a POST, and a status
that names another object, are due only when no object is owned (`OwnInv`); "not
ready" means "gone" for windows and groups (`ReadyInv`); what the cleanup has cleared
stays free to go (`ClearedInv`). Then every action maps to one step of the ledger or
to a stutter.

`FinalizerCleanup_proofs`: `RetriesKeepCall` (`Spec => KeepsCall`, a refinement, from an
invariant that ties the sends to the attempt counter) and `ReleaseIsEarned` (`Spec =>
RemovalEarned`, with its exception: the finalizer also goes when DELETE failed with an
error whose text has "404" in it). The second needs `ReasonInv`: while the worker's copy
has the server's version, the reason its helper decided for still holds, since the
annotation cannot have changed, a gone object stays gone and `elapsed` is fixed; a
decision taken for a misread error is marked as such.

`HeartbeatPublisher_proofs`: `ForeignIsUntouched`; `IngressController_proofs`:
`UserMonitorIsUntouched`, from an invariant about the list in the worker's hands
(entries whose version is the server's are the ingress' own). `DefaultObjects_proofs`
and `Accounts_proofs`: `DefaultsAreUnique`; the invariant says that a request marked
fresh was judged by the list the server still has (`FreshInv`), and the lemmas are
proved once for `DefaultObjects` and instantiated for both kinds.

### What `IdKept`, `ClaimRespected` and `Deadline` rest on

All three relate a step to what was read several calls before it, by a worker whose
cache may lag behind. TLC checked each invariant on the instance of the run before
it was proved.

* `IdIsKept` (`MonitorController_proofs`) adds to `IInv` four facts. An identifier in
  the server's status, in a cached or worker's copy or in `result.ID` has been given
  out, so a POST cannot return it for another monitor (`KnownInv`); a resource that
  is not there has none (`AbsentInv`); a POST or an adoption is due only when the
  copy has no identifier, and the result of an edit is the identifier it was made
  with unless that monitor is gone (`PlanInv`); and a worker that did not begin
  outdated holds the server's identifier, or has seen to it that its monitor is gone
  or that it is confusable (`SeenInv`). The lemmas on the client's calls say that
  what is gone stays gone. Proving it showed that a misread error is a second exception
  beside `stale`, which the run did not have before.
* `ClaimIsRespected` (`MonitorHandover_proofs`) is about a decision the worker takes
  by listing its *cache* (`monitor_controller.go` 171). What makes that safe is an
  order of events: the cache is one past state of the server, the worker cleans up
  only when its cache shows the deletion, and the claim is older than the deletion,
  so the cache shows the claim too (`SeenClaimsInv`). A deletion in the cache could be
  that of an earlier resource of the name; it is not, because a resource is under
  deletion only with a finalizer, which the worker adds only after the cache has shown
  this very resource alive (`NotYetInv`). While the worker is between that look and
  the DELETE the resource cannot be deleted anew (`CleaningInv`), and claims only
  disappear (`ClaimsInv`); so the monitor of the DELETE is not claimed
  (`UnclaimedInv`).
* `DeadlineHolds` (`FinalizerCleanup_proofs`) bounds the age of a start time by

      Timeout + MaxCleanup + LastBackoff + Budget * Penalty(MostFails)

  `MaxCleanup` is the longest a cleanup function can take: one call with all its attempts
  and delays (`MaxCall`), and two for a Monitor, whose failed DELETE is followed by the
  lookup. `LastBackoff` the 240 s that are the backoff just before the timeout, and each
  event or fault can cost one reconcile and with it one penalty of the queue. How high
  that penalty is depends on the failures in a row: one for each event, one for a cache
  that is behind the start time just written, and as many as fit between now and a start
  time the clock has put into the future, where every reconcile panics and waits at least
  one tick (`MostFails`). The invariant has the clock (`ClockInv`), the count of failures
  (`FailsInv`, with `Few` for the formula just given), the time the calls under way can
  have taken (`BusyInv`: the lookup starts when at most one `MaxCall` is spent), and the
  room below the limit that is left for the remaining events (`RoomInv`; the limit of a
  behaviour never moves, as the kind does not change): a failure that costs no event only
  happens before the timeout. An earlier form of the bound, with one tick per event, held
  on the instance and is false in general: 18 failures in a row make a penalty of 1000 s.

Type correctness is proved for every module with a run. `TypeOK` of
`IngressController` is inductive as it stands; the other two small ones need to know
where the worker's copy came from (`PlaceInv` in `HeartbeatPublisher_proofs`,
`TypeInv` in `Accounts_proofs`). For
`FinalizerCleanup` it needs the powers of two of the two backoffs and of the rate
limiter. What `2^n` is for every `n` takes induction, which is beyond the prover; the
exponents are at most 30, so the lemmas tabulate the powers from the definition.

The assumptions on constants are those a build has to meet: `DoublingsAssumption` (at
most 30 doublings of the delay; a `time.Duration` in nanoseconds overflows beyond
2^33 s, and `MaxRetries` is 5 in the code), `DurationsAssumption` (an attempt has a
longest duration, which is the assumption about `retry.go` 185 of section 6),
`SkewAssumption`, `TickAssumption` (a bound of the model: the queue's delays are
rounded up to at most 1000 s, their cap).

### Only model-checked

Every invariant and every action property of the passing runs is a theorem. What
stays with TLC is liveness, which needs fairness and `ENABLED` and is beyond the
prover: `EventuallyConverged`, both `DeletionCompletes`, `EventuallyInSync`,
`CleanupEnds`, `EventuallyPublished`, `EventuallyClean`, `EventuallyMirrored`,
`DeletionEnds`, `AccountsSettle` and `ContactsSettle`. The four violations are
counterexamples and nothing to prove.

## 5. Plan

Done: the two modules of monitors; `FinalizerCleanup` and `HttpRetry`; windows,
groups and integrations against `OwnershipLedger`; `HeartbeatPublisher`;
`IngressController`; `DefaultObjects` and `Accounts`; the theorems above.

What remains worth doing, in this order:

1. Refinement of `Publish` in `MonitorController` by `HeartbeatPublisher`, and of
   `MonitorHeld`/`MonitorGone` in `IngressController` by `MonitorController`, so that
   the theorems of the two sides join up.
2. `HttpRetry` against `HttpCall` for a client that is not the cleanup, and the
   outcomes of `UptimeRobotMonitors` and `RemoteObjects` derived from it.
3. `MonitorHandover` with a type change, once the code looks for an adopter there.

## 6. Not modelled

`cmd/main.go` (wiring), the Helm chart and manifests, generated code, the mock server and
the tests have no state of the system. The translation of a spec into a request body
(`client.go` 151-478, `v3types.go`), the wording of conditions and events, the comparison
of fields in `slackIntegrationMatchesDesired` and the parsing of enumerations and
annotations are data that no property above tells apart; this leaves out that a PATCH
cannot clear a field (`omitempty`). The error of a contact with neither id nor name
(`contact_controller.go` 107-117) is out of reach, since a rule of the CRD refuses such a
contact. A Monitor of an ingress is taken to be of a type other than Heartbeat, which
needs a URL. `FinalizerCleanup` is about a resource whose cleanup has something to delete
(`prune` is set, and no adopter is found). Two assumptions stand for things the code
leaves open: an HTTP request ends in finite time, although the client sets no timeout
(`retry.go` 185), and a list of integrations is complete, although only its first page is
read. When a Monitor is deleted, its published Secret or ConfigMap goes by Kubernetes'
garbage collection of owner references.
