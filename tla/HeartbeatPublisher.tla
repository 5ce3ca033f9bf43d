-------------------------- MODULE HeartbeatPublisher --------------------------
(***************************************************************************)
(* The last part of the Monitor reconciler: publishing the heartbeat URL   *)
(* in a Secret or ConfigMap (internal/controller/monitor_controller.go).   *)
(* It reads Monitor, Secrets and ConfigMaps from caches that lag behind,   *)
(* deletes the old target, writes the new one and then records it in the   *)
(* status of the Monitor, with conflicts, users and restarts in between.   *)
(* In MonitorController all of this is the one call Publish.               *)
(***************************************************************************)
EXTENDS Naturals

CONSTANTS
  Objects,    \* the names of Secrets and ConfigMaps: [type, name]
  Keys,       \* keys in their data
  MonitorIds, \* identifiers the monitor has one after the other
  Forms,      \* what the API returns: "none", "full", "prefixed", "bare"
  NoUrl,      \* no URL, and a key that is not there
  None,       \* no target
  Budget      \* BOUND: user writes, faults and restarts in a behaviour

ASSUME FormsAssumption == Forms \subseteq {"none", "full", "prefixed", "bare"} /\ Forms # {}
ASSUME TypesAssumption == \A o \in Objects : o.type \in {"Secret", "ConfigMap"}
ASSUME BudgetAssumption == Budget \in Nat

VARIABLES
  mon,      \* the Monitor in the API server: want, id, form and the recorded target
  mcache,   \* the cached copy of it
  msynced,  \* it has the server's version
  objs,     \* the Secrets and ConfigMaps in the API server
  ocache,   \* the cached copies
  osynced,  \* those that have the server's version
  pc,       \* "idle", "sync", "remove", "write", "record" or "report"
  copy,     \* the worker's Monitor
  cur,      \* it has the server's version
  next,     \* the target in its status
  again,    \* the reconcile will end with an error
  queued,
  budget,
  lost      \* history: targets whose record was lost or overwritten, or whose
            \* removal the cache hid

vars == <<mon, mcache, msynced, objs, ocache, osynced, pc, copy, cur, next, again, queued, budget, lost>>
cluster == <<mon, mcache, msynced, objs, ocache, osynced>>
worker == <<pc, copy, cur, next, again>>

Places == [obj : Objects, key : Keys]

(* buildHeartbeatURL: an absolute URL and a key that carries an identifier *)
(* are taken as they are, a bare key gets the identifier of the monitor.   *)
HeartbeatURL(id, form) ==
  CASE form = "none" -> NoUrl
    [] form \in {"full", "prefixed"} -> <<form>>
    [] form = "bare" -> <<form, id>>

Urls == {HeartbeatURL(i, f) : i \in MonitorIds, f \in Forms} \cup {NoUrl}

Monitors == [want : Places \cup {None}, id : MonitorIds, form : Forms, st : Places \cup {None}]

Object == [owner : {"none", "me", "other"}, data : [Keys -> Urls]]

Empty == [k \in Keys |-> NoUrl]

Absent == [owner |-> "none", data |-> Empty]

Url(m) == HeartbeatURL(m.id, m.form)

ShouldPublish(m) == m.want # None /\ Url(m) # NoUrl

Blank == [want |-> None, id |-> CHOOSE i \in MonitorIds : TRUE, form |-> CHOOSE f \in Forms : TRUE,
          st |-> None]

Init ==
  /\ mon \in {m \in Monitors : m.id = Blank.id /\ m.st = None}
  /\ mcache = mon /\ msynced = TRUE
  /\ objs = [o \in Objects |-> Absent] /\ ocache = objs /\ osynced = [o \in Objects |-> TRUE]
  /\ pc = "idle" /\ copy = Blank /\ cur = FALSE /\ next = None /\ again = FALSE
  /\ queued = TRUE /\ budget = Budget /\ lost = {}

Spend == budget > 0 /\ budget' = budget - 1

(* The end of a reconcile. *)
Return(error) ==
  /\ pc' = "idle" /\ copy' = Blank /\ cur' = FALSE /\ next' = None /\ again' = FALSE
  /\ queued' = (queued \/ error)

Put(o, object) ==
  objs' = [objs EXCEPT ![o] = object] /\ osynced' = [osynced EXCEPT ![o] = FALSE] /\ UNCHANGED ocache

GoOn(call, place) == pc' = call /\ next' = place /\ UNCHANGED <<copy, cur, again, queued>>

(* An error: what is left is to report it. *)
Fail == pc' = "report" /\ again' = TRUE /\ UNCHANGED <<copy, cur, next, queued>>
-----------------------------------------------------------------------------
(* The Monitor is read, and its monitor created or updated.                *)
Begin ==
  /\ pc = "idle" /\ queued /\ queued' = FALSE /\ pc' = "sync"
  /\ copy' = mcache /\ cur' = msynced /\ next' = mcache.st /\ UNCHANGED again
  /\ UNCHANGED <<cluster, budget, lost>>

(* reconcileHeartbeatURLPublishTarget and cleanupHeartbeatURLPublishTarget *)
(* up to their first call: the recorded target is removed when nothing is  *)
(* to be published any more, or in another object.                         *)
FirstCall(m) ==
  IF ~ShouldPublish(m) THEN IF m.st = None THEN "report" ELSE "remove"
  ELSE IF m.st # None /\ m.st.obj # m.want.obj THEN "remove" ELSE "write"

AfterRemoval == IF ShouldPublish(copy) THEN GoOn("write", next) ELSE GoOn("record", None)

(* Mutant of Managed: whoever owns it. *)
Managed_Any(object) == object.owner # "none"

(* metav1.IsControlledBy. *)
Managed(object) == object.owner = "me"

(* History: an object is left as the cache shows it, and that is old. *)
Overlooked(o) == IF osynced[o] THEN lost ELSE lost \cup {p \in Places : p.obj = o}

(* cleanupHeartbeatURLPublishTargetObject: a DELETE without a precondition *)
(* on the version, and one that finds nothing is as good.  What the cache  *)
(* does not show yet is not deleted.                                       *)
Remove(type) ==
  /\ pc = "remove" /\ copy.st.obj.type = type
  /\ IF Managed(ocache[copy.st.obj]) /\ objs[copy.st.obj] # Absent THEN Put(copy.st.obj, Absent)
                                     ELSE UNCHANGED <<objs, ocache, osynced>>
  /\ lost' = IF Managed(ocache[copy.st.obj]) THEN lost ELSE Overlooked(copy.st.obj)
  /\ AfterRemoval
  /\ UNCHANGED <<mon, mcache, msynced, budget>>

RemoveSecret == Remove("Secret")

RemoveConfigMap == Remove("ConfigMap")

(* The data wanted: the URL under the key, and the recorded key gone if it *)
(* is another one.                                                         *)
Updated(data) ==
  [k \in Keys |-> IF k = copy.want.key THEN Url(copy)
                  ELSE IF copy.st # None /\ k = copy.st.key THEN NoUrl ELSE data[k]]

(* Mutant of Published: the status is not changed. *)
Published_Unrecorded == GoOn("report", next)

(* What is recorded already is not recorded again. *)
Published ==
  GoOn(IF copy.st = copy.want THEN "report" ELSE "record", copy.want)

Unwritten == UNCHANGED <<objs, ocache, osynced, lost>>

(* Mutant of CreateTarget: the identifier is taken for the URL. *)
CreateTarget_IdOnly(o) ==
  /\ ocache[o].owner = "none"
  /\ IF objs[o] = Absent
     THEN /\ Put(o, [owner |-> "me", data |-> [Empty EXCEPT ![copy.want.key] = <<copy.id>>]])
          /\ Published /\ UNCHANGED lost
     ELSE Fail /\ Unwritten

(* reconcileHeartbeatURLSecret and ...ConfigMap: create what the cache     *)
(* does not have, refuse what is not the monitor's, update the rest.       *)
CreateTarget(o) ==
  /\ ocache[o].owner = "none"
  /\ IF objs[o] = Absent
     THEN /\ Put(o, [owner |-> "me", data |-> [Empty EXCEPT ![copy.want.key] = Url(copy)]])
          /\ Published /\ UNCHANGED lost
     ELSE Fail /\ Unwritten

RefuseTarget(o) == ocache[o].owner # "none" /\ ~Managed(ocache[o]) /\ Fail /\ Unwritten

(* Mutant of UpdateTarget: the recorded key is left where it is. *)
UpdateTarget_KeepsKey(o) ==
  LET data == [ocache[o].data EXCEPT ![copy.want.key] = Url(copy)] IN
  /\ Managed(ocache[o])
  /\ IF data = ocache[o].data
     THEN Published /\ lost' = Overlooked(o) /\ UNCHANGED <<objs, ocache, osynced>>
     ELSE IF osynced[o]
     THEN Put(o, [ocache[o] EXCEPT !.data = data]) /\ Published /\ UNCHANGED lost
     ELSE Fail /\ Unwritten

UpdateTarget(o) ==
  LET data == Updated(ocache[o].data) IN
  /\ Managed(ocache[o])
  /\ IF data = ocache[o].data
     THEN Published /\ lost' = Overlooked(o) /\ UNCHANGED <<objs, ocache, osynced>>
     ELSE IF osynced[o]
     THEN Put(o, [ocache[o] EXCEPT !.data = data]) /\ Published /\ UNCHANGED lost
     ELSE Fail /\ Unwritten

Write(type) ==
  /\ pc = "write" /\ copy.want.obj.type = type
  /\ LET o == copy.want.obj IN CreateTarget(o) \/ RefuseTarget(o) \/ UpdateTarget(o)
  /\ UNCHANGED <<mon, mcache, msynced, budget>>

WriteSecret == Write("Secret")

WriteConfigMap == Write("ConfigMap")

(* updateMonitorStatus with the target: a conflict is retried once on the  *)
(* cached Monitor, whatever target the server has recorded by then.        *)
StatusWritten ==
  /\ cur \/ msynced
  /\ mon' = [mon EXCEPT !.st = next] /\ msynced' = FALSE
  /\ lost' = (IF mon.st \in {copy.st, None} THEN lost ELSE lost \cup {mon.st}) \ {next}
  /\ UNCHANGED <<mcache, objs, ocache, osynced, budget>>

Unrecorded == IF pc = "sync" \/ next \in {None, mon.st} THEN lost ELSE lost \cup {next}

StatusLost ==
  /\ (IF cur \/ msynced THEN Spend ELSE UNCHANGED budget)
  /\ lost' = Unrecorded /\ UNCHANGED cluster

(* The write that follows the calls to the API: it carries the target the  *)
(* copy has, and publication is not reached without it.                    *)
Sync ==
  /\ pc = "sync"
  /\ \/ StatusWritten /\ GoOn(FirstCall(copy), next)
     \/ StatusLost /\ Return(TRUE)

(* The write that follows a publication or a removal. *)
Record ==
  /\ pc = "record"
  /\ \/ StatusWritten /\ GoOn("report", next)
     \/ StatusLost /\ Fail

(* The write every reconcile ends with: it carries the target as well. *)
Report ==
  /\ pc = "report"
  /\ \/ StatusWritten /\ Return(again)
     \/ StatusLost /\ Return(TRUE)

(* A call to the API server fails. *)
Fault ==
  /\ pc \in {"remove", "write"} /\ Spend /\ Fail
  /\ UNCHANGED <<cluster, lost>>
-----------------------------------------------------------------------------
(* The watches bring the caches up to date; only a new spec is queued. *)
DeliverMonitor ==
  /\ ~msynced /\ mcache' = mon /\ msynced' = TRUE
  /\ queued' = (queued \/ mcache.want # mon.want)
  /\ UNCHANGED <<mon, objs, ocache, osynced, worker, budget, lost>>

DeliverObject ==
  /\ \E o \in Objects :
       ~osynced[o] /\ ocache' = [ocache EXCEPT ![o] = objs[o]] /\ osynced' = [osynced EXCEPT ![o] = TRUE]
  /\ UNCHANGED <<mon, mcache, msynced, objs, worker, queued, budget, lost>>

Fresh == msynced /\ \A o \in Objects : osynced[o]

(* RequeueAfter: the sync interval.  A cache that is still old after it is *)
(* a fault.                                                                *)
Timer ==
  /\ pc = "idle" /\ ~queued /\ queued' = TRUE
  /\ (IF Fresh THEN UNCHANGED budget ELSE Spend)
  /\ UNCHANGED <<cluster, worker, lost>>

UserEdit ==
  /\ Spend /\ \E w \in (Places \cup {None}) \ {mon.want} : mon' = [mon EXCEPT !.want = w]
  /\ msynced' = FALSE /\ cur' = FALSE
  /\ UNCHANGED <<mcache, objs, ocache, osynced, pc, copy, next, again, queued, lost>>

(* The monitor is created anew, or the API returns its key in another      *)
(* form: the reconcile that learns of it has written the status before.    *)
UrlChanged ==
  /\ pc = "idle" /\ msynced /\ Spend
  /\ \E i \in MonitorIds, f \in Forms :
       <<i, f>> # <<mon.id, mon.form>> /\ mon' = [mon EXCEPT !.id = i, !.form = f]
  /\ msynced' = FALSE /\ queued' = TRUE
  /\ UNCHANGED <<mcache, objs, ocache, osynced, worker, lost>>

(* Someone creates, deletes or empties a Secret or ConfigMap. *)
UserObject ==
  /\ Spend
  /\ \E o \in Objects :
       \/ objs[o] = Absent /\ Put(o, [owner |-> "other", data |-> Empty])
       \/ objs[o] # Absent /\ Put(o, Absent)
       \/ objs[o].owner = "me" /\ objs[o].data # Empty /\ Put(o, [objs[o] EXCEPT !.data = Empty])
  /\ UNCHANGED <<mon, mcache, msynced, worker, queued, lost>>

(* The process stops and starts again, with fresh caches. *)
Restart ==
  /\ pc # "idle" /\ Spend
  /\ mcache' = mon /\ msynced' = TRUE /\ ocache' = objs /\ osynced' = [o \in Objects |-> TRUE]
  /\ Return(TRUE) /\ lost' = Unrecorded
  /\ UNCHANGED <<mon, objs>>

Step == Sync \/ RemoveSecret \/ RemoveConfigMap \/ WriteSecret \/ WriteConfigMap \/ Record \/ Report

Next ==
  \/ Begin \/ Step \/ Fault \/ DeliverMonitor \/ DeliverObject \/ Timer
  \/ UserEdit \/ UrlChanged \/ UserObject \/ Restart

(* The worker goes on, the watches deliver, and the key is at last taken   *)
(* with the caches up to date, since failed reconciles back off.           *)
Spec ==
  /\ Init /\ [][Next]_vars /\ WF_vars(Step) /\ WF_vars(DeliverObject) /\ WF_vars(Timer)
  /\ SF_vars(pc = "idle" /\ DeliverMonitor) /\ SF_vars(Fresh /\ Begin)
-----------------------------------------------------------------------------
(* The shape of every variable. *)
TypeOK ==
  /\ mon \in Monitors /\ mcache \in Monitors /\ msynced \in BOOLEAN
  /\ objs \in [Objects -> Object] /\ ocache \in [Objects -> Object] /\ osynced \in [Objects -> BOOLEAN]
  /\ pc \in {"idle", "sync", "remove", "write", "record", "report"} /\ copy \in Monitors /\ cur \in BOOLEAN
  /\ next \in Places \cup {None} /\ again \in BOOLEAN /\ queued \in BOOLEAN /\ budget \in 0 .. Budget /\ lost \subseteq Places

(* "The operator only publishes to targets it manages itself"              *)
(* (docs/monitors.md:110): no step of the worker changes or deletes an     *)
(* object of another owner.  The one exception is an object the cache      *)
(* still shows as the monitor's own while a user has replaced it: DELETE   *)
(* is not asked for a version.                                             *)
ForeignUntouched ==
  [][Step => \A o \in Objects : objs[o].owner = "other" =>
       objs'[o] = objs[o] \/ (pc = "remove" /\ ~osynced[o] /\ Managed(ocache[o]))]_vars

(* When users and faults come to rest, the URL is published where the spec *)
(* says and the status says so, or the place belongs to someone else.      *)
EventuallyPublished ==
  <>[](ShouldPublish(mon) =>
         \/ objs[mon.want.obj].owner = "other"
         \/ /\ mon.st = mon.want /\ objs[mon.want.obj].owner = "me"
            /\ objs[mon.want.obj].data[mon.want.key] = Url(mon))

(* "The previously managed publish target is deleted" (docs/monitors.md:114): *)
(* no key with a URL is left anywhere but at the recorded target, or where *)
(* the record of a target was lost or overwritten before it was read, or   *)
(* the cache did not show yet what there was to remove.                    *)
EventuallyClean ==
  <>[](\A p \in Places :
         objs[p.obj].owner = "me" /\ objs[p.obj].data[p.key] # NoUrl => p = mon.st \/ p \in lost)
=============================================================================
