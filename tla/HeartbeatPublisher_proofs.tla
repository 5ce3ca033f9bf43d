---------------------- MODULE HeartbeatPublisher_proofs ----------------------
(***************************************************************************)
(* The publisher leaves the Secrets and ConfigMaps of others alone, for    *)
(* all names, keys, identifiers and bounds.  The reason is the cache: a    *)
(* cached copy that has the server's version is the server's object, and   *)
(* an Update of any other copy conflicts.  And every variable keeps its    *)
(* type, since the worker names a target in every call that needs one.     *)
(***************************************************************************)
EXTENDS HeartbeatPublisher, TLAPS

DomainInv ==
  /\ objs = [o \in Objects |-> objs[o]] /\ ocache = [o \in Objects |-> ocache[o]]
  /\ osynced = [o \in Objects |-> osynced[o]]

CacheInv == \A o \in Objects : osynced[o] => ocache[o] = objs[o]

Inv == DomainInv /\ CacheInv

(* An object is written: its cached copy is old. *)
LEMMA PutKeeps ==
  ASSUME Inv, NEW o, NEW object, Put(o, object)
  PROVE  Inv'
<1>1. DomainInv' BY DEF Inv, DomainInv, Put
<1>2. ASSUME NEW p \in Objects, osynced'[p] PROVE ocache'[p] = objs'[p]
  <2>1. osynced[p] /\ p # o BY <1>2 DEF Inv, DomainInv, Put
  <2>2. objs'[p] = objs[p] /\ ocache' = ocache BY <2>1 DEF Inv, DomainInv, Put
  <2>. QED BY <2>1, <2>2 DEF Inv, CacheInv
<1>. QED BY <1>1, <1>2 DEF Inv, CacheInv

LEMMA UnchangedKeeps ==
  ASSUME Inv, UNCHANGED <<objs, ocache, osynced>>
  PROVE  Inv'
BY DEF Inv, DomainInv, CacheInv

(* Delivery makes a cached copy the server's object. *)
LEMMA DeliverKeeps ==
  ASSUME Inv, DeliverObject
  PROVE  Inv'
<1>. PICK o \in Objects : /\ ocache' = [ocache EXCEPT ![o] = objs[o]]
                          /\ osynced' = [osynced EXCEPT ![o] = TRUE]
  BY DEF DeliverObject
<1>1. objs' = objs BY DEF DeliverObject
<1>2. DomainInv' BY <1>1 DEF Inv, DomainInv
<1>3. ASSUME NEW p \in Objects, osynced'[p] PROVE ocache'[p] = objs'[p]
  <2>1. CASE p = o BY <1>1, <2>1 DEF Inv, DomainInv
  <2>2. CASE p # o
    <3>1. osynced[p] /\ ocache'[p] = ocache[p] BY <1>3, <2>2 DEF Inv, DomainInv
    <3>. QED BY <1>1, <3>1 DEF Inv, CacheInv
  <2>. QED BY <2>1, <2>2
<1>. QED BY <1>2, <1>3 DEF Inv, CacheInv

LEMMA InitInv == Init => Inv
<1>. SUFFICES ASSUME Init PROVE Inv OBVIOUS
<1>1. objs = [o \in Objects |-> Absent] /\ ocache = objs /\ osynced = [o \in Objects |-> TRUE] BY DEF Init
<1>. QED BY <1>1 DEF Inv, DomainInv, CacheInv

(* What the three writers of an object do to it. *)
LEMMA RemoveEffect ==
  ASSUME NEW type, Remove(type)
  PROVE  \/ UNCHANGED <<objs, ocache, osynced>>
         \/ pc = "remove" /\ Managed(ocache[copy.st.obj]) /\ Put(copy.st.obj, Absent)
BY DEF Remove

LEMMA WriteEffect ==
  ASSUME NEW type, Write(type)
  PROVE  LET o == copy.want.obj IN
         \/ UNCHANGED <<objs, ocache, osynced>>
         \/ /\ objs[o] = Absent \/ (Managed(ocache[o]) /\ osynced[o])
            /\ \E object : Put(o, object)
<1>. DEFINE o == copy.want.obj
<1>1. CASE CreateTarget(o) BY <1>1 DEF CreateTarget, Unwritten
<1>2. CASE RefuseTarget(o) BY <1>2 DEF RefuseTarget, Unwritten
<1>3. CASE UpdateTarget(o) BY <1>3 DEF UpdateTarget, Unwritten
<1>. QED BY <1>1, <1>2, <1>3 DEF Write

LEMMA StepInv == Inv /\ [Next]_vars => Inv'
<1>. SUFFICES ASSUME Inv, [Next]_vars PROVE Inv' OBVIOUS
<1>1. CASE Step
  <2>1. ASSUME NEW type, Remove(type) PROVE Inv' BY <2>1, RemoveEffect, PutKeeps, UnchangedKeeps
  <2>2. ASSUME NEW type, Write(type) PROVE Inv' BY <2>2, WriteEffect, PutKeeps, UnchangedKeeps
  <2>3. CASE Record BY <2>3, UnchangedKeeps DEF Record, StatusWritten, StatusLost, cluster
  <2>4. CASE Report BY <2>4, UnchangedKeeps DEF Report, StatusWritten, StatusLost, cluster
  <2>5. CASE Sync BY <2>5, UnchangedKeeps DEF Sync, StatusWritten, StatusLost, cluster
  <2>. QED BY <1>1, <2>1, <2>2, <2>3, <2>4, <2>5 DEF Step, RemoveSecret, RemoveConfigMap, WriteSecret, WriteConfigMap
<1>2. CASE UserObject BY <1>2, PutKeeps DEF UserObject
<1>3. CASE Restart
  <2>1. objs' = objs /\ ocache' = objs /\ osynced' = [o \in Objects |-> TRUE] BY <1>3 DEF Restart
  <2>. QED BY <2>1 DEF Inv, DomainInv, CacheInv
<1>4. CASE DeliverObject BY <1>4, DeliverKeeps
<1>5. CASE Begin \/ Fault BY <1>5, UnchangedKeeps DEF Begin, Fault, cluster
<1>6. CASE DeliverMonitor \/ Timer \/ UserEdit \/ UrlChanged
  BY <1>6, UnchangedKeeps DEF DeliverMonitor, Timer, UserEdit, UrlChanged, cluster
<1>7. CASE UNCHANGED vars BY <1>7, UnchangedKeeps DEF vars
<1>. QED BY <1>1, <1>2, <1>3, <1>4, <1>5, <1>6, <1>7 DEF Next

(* Cached copies that have the server's version are the server's objects   *)
(* (the informer's cache that the reconciler reads Secrets and ConfigMaps  *)
(* from).                                                                  *)
THEOREM CacheIsHonest == Spec => []Inv
<1>1. Init => Inv BY InitInv
<1>2. Inv /\ [Next]_vars => Inv' BY StepInv
<1>. QED BY <1>1, <1>2, PTL DEF Spec

(* One step of the worker and an object of another owner. *)
LEMMA OthersUntouched ==
  ASSUME Inv, Step, NEW o \in Objects, objs[o].owner = "other"
  PROVE  objs'[o] = objs[o] \/ (pc = "remove" /\ ~osynced[o] /\ Managed(ocache[o]))
<1>1. ASSUME NEW p, NEW object, Put(p, object), p # o PROVE objs'[o] = objs[o]
  BY <1>1 DEF Inv, DomainInv, Put
<1>2. ASSUME NEW type, Remove(type)
      PROVE  objs'[o] = objs[o] \/ (pc = "remove" /\ ~osynced[o] /\ Managed(ocache[o]))
  <2>1. CASE UNCHANGED <<objs, ocache, osynced>> BY <2>1
  <2>2. CASE pc = "remove" /\ Managed(ocache[copy.st.obj]) /\ Put(copy.st.obj, Absent)
    <3>1. CASE copy.st.obj # o BY <1>1, <2>2, <3>1
    <3>2. CASE copy.st.obj = o
      <4>1. osynced[o] => ocache[o] = objs[o] BY DEF Inv, CacheInv
      <4>2. Managed(ocache[o]) BY <2>2, <3>2
      <4>3. ~osynced[o] BY <4>1, <4>2 DEF Managed
      <4>. QED BY <2>2, <4>2, <4>3
    <3>. QED BY <3>1, <3>2
  <2>. QED BY <1>2, <2>1, <2>2, RemoveEffect
<1>3. ASSUME NEW type, Write(type) PROVE objs'[o] = objs[o]
  <2>1. CASE UNCHANGED <<objs, ocache, osynced>> BY <2>1
  <2>2. CASE /\ objs[copy.want.obj] = Absent \/ (Managed(ocache[copy.want.obj]) /\ osynced[copy.want.obj])
             /\ \E object : Put(copy.want.obj, object)
    <3>1. CASE copy.want.obj = o
      <4>1. objs[o] # Absent BY DEF Absent
      <4>2. osynced[o] => ocache[o] = objs[o] BY DEF Inv, CacheInv
      <4>. QED BY <2>2, <3>1, <4>1, <4>2 DEF Managed
    <3>2. CASE copy.want.obj # o BY <1>1, <2>2, <3>2
    <3>. QED BY <3>1, <3>2
  <2>. QED BY <1>3, <2>1, <2>2, WriteEffect
<1>4. CASE Record BY <1>4 DEF Record, StatusWritten, StatusLost, cluster
<1>5. CASE Report BY <1>5 DEF Report, StatusWritten, StatusLost, cluster
<1>6. CASE Sync BY <1>6 DEF Sync, StatusWritten, StatusLost, cluster
<1>. QED BY <1>2, <1>3, <1>4, <1>5, <1>6 DEF Step, RemoveSecret, RemoveConfigMap, WriteSecret, WriteConfigMap

(* "The operator only publishes to targets it manages itself"              *)
(* (docs/monitors.md:110), for every set of objects, keys and identifiers: *)
(* no step of the worker changes an object of another owner, but for the   *)
(* DELETE of one that the cache still shows as the monitor's own.          *)
THEOREM ForeignIsUntouched == Spec => ForeignUntouched
<1>1. Inv /\ [Next]_vars =>
        [Step => \A o \in Objects : objs[o].owner = "other" =>
           objs'[o] = objs[o] \/ (pc = "remove" /\ ~osynced[o] /\ Managed(ocache[o]))]_vars
  BY OthersUntouched
<1>. QED BY <1>1, CacheIsHonest, PTL DEF Spec, ForeignUntouched
-----------------------------------------------------------------------------
(* The types.  A target is removed or written only when there is one. *)
PlaceInv == (pc = "remove" => copy.st # None) /\ (pc = "write" => copy.want # None)

TypeInv == TypeOK /\ PlaceInv

ObjectTypes ==
  /\ objs \in [Objects -> Object] /\ ocache \in [Objects -> Object] /\ osynced \in [Objects -> BOOLEAN]

MonitorTypes == mon \in Monitors /\ mcache \in Monitors /\ msynced \in BOOLEAN

WorkerTypes ==
  /\ pc \in {"idle", "sync", "remove", "write", "record", "report"} /\ copy \in Monitors /\ cur \in BOOLEAN
  /\ next \in Places \cup {None} /\ again \in BOOLEAN /\ queued \in BOOLEAN /\ PlaceInv

LEMMA Types ==
  TypeInv <=> ObjectTypes /\ MonitorTypes /\ WorkerTypes /\ budget \in 0 .. Budget /\ lost \subseteq Places
BY DEF TypeInv, TypeOK, ObjectTypes, MonitorTypes, WorkerTypes

LEMMA TypesAfter ==
  ASSUME ObjectTypes', MonitorTypes', WorkerTypes', budget' \in 0 .. Budget, lost' \subseteq Places
  PROVE  TypeInv'
BY DEF TypeInv, TypeOK, ObjectTypes, MonitorTypes, WorkerTypes

LEMMA SpendTypes ==
  ASSUME budget \in 0 .. Budget, Spend
  PROVE  budget' \in 0 .. Budget
BY BudgetAssumption DEF Spend

(* Some identifier and some form exist, since a Monitor has them. *)
LEMMA BlankIsMonitor ==
  ASSUME mon \in Monitors
  PROVE  Blank \in Monitors
<1>1. \E i \in MonitorIds : TRUE BY DEF Monitors
<1>2. \E f \in Forms : TRUE BY FormsAssumption
<1>3. (CHOOSE i \in MonitorIds : TRUE) \in MonitorIds /\ (CHOOSE f \in Forms : TRUE) \in Forms
  BY <1>1, <1>2
<1>. QED BY <1>3 DEF Blank, Monitors

LEMMA MonitorFields ==
  ASSUME NEW m \in Monitors
  PROVE  /\ m.want \in Places \cup {None} /\ m.st \in Places \cup {None}
         /\ m.id \in MonitorIds /\ m.form \in Forms
         /\ \A p \in Places \cup {None} : [m EXCEPT !.want = p] \in Monitors /\ [m EXCEPT !.st = p] \in Monitors
         /\ \A i \in MonitorIds, f \in Forms : [m EXCEPT !.id = i, !.form = f] \in Monitors
BY DEF Monitors

LEMMA PlaceFields ==
  ASSUME NEW p \in Places
  PROVE  p.obj \in Objects /\ p.key \in Keys
BY DEF Places

LEMMA UrlIsUrl ==
  ASSUME NEW m \in Monitors
  PROVE  Url(m) \in Urls /\ NoUrl \in Urls
<1>1. m.id \in MonitorIds /\ m.form \in Forms BY MonitorFields
<1>. QED BY <1>1 DEF Url, Urls

LEMMA ObjectValues ==
  /\ Empty \in [Keys -> Urls] /\ Absent \in Object /\ [owner |-> "other", data |-> Empty] \in Object
  /\ \A o \in Object : o.data \in [Keys -> Urls]
  /\ \A o \in Object, d \in [Keys -> Urls] : [o EXCEPT !.data = d] \in Object
  /\ \A d \in [Keys -> Urls] : [owner |-> "me", data |-> d] \in Object
<1>1. NoUrl \in Urls BY DEF Urls
<1>2. Empty \in [Keys -> Urls] BY <1>1 DEF Empty
<1>. QED BY <1>2 DEF Object, Absent

LEMMA PutTypes ==
  ASSUME ObjectTypes, NEW o \in Objects, NEW object \in Object, Put(o, object)
  PROVE  ObjectTypes'
BY DEF ObjectTypes, Put

LEMMA ReturnTypes ==
  ASSUME MonitorTypes, WorkerTypes, NEW e \in BOOLEAN, Return(e)
  PROVE  WorkerTypes'
<1>1. Blank \in Monitors BY BlankIsMonitor DEF MonitorTypes
<1>2. /\ pc' = "idle" /\ copy' = Blank /\ cur' = FALSE /\ next' = None /\ again' = FALSE
      /\ queued' = (queued \/ e)
  BY DEF Return
<1>3. queued' \in BOOLEAN BY <1>2, Zenon DEF WorkerTypes
<1>. QED BY <1>1, <1>2, <1>3 DEF WorkerTypes, PlaceInv

LEMMA GoOnTypes ==
  ASSUME WorkerTypes, NEW call \in {"remove", "write", "record", "report"},
         NEW place \in Places \cup {None}, GoOn(call, place),
         call = "remove" => copy.st # None, call = "write" => copy.want # None
  PROVE  WorkerTypes'
BY DEF WorkerTypes, GoOn, PlaceInv

LEMMA FailTypes ==
  ASSUME WorkerTypes, Fail
  PROVE  WorkerTypes'
BY DEF WorkerTypes, Fail, PlaceInv

LEMMA BeginTypes ==
  ASSUME TypeInv, Begin
  PROVE  TypeInv'
<1>1. /\ pc' = "sync" /\ copy' = mcache /\ cur' = msynced /\ next' = mcache.st
      /\ queued' = FALSE /\ UNCHANGED <<again, mon, mcache, msynced, objs, ocache, osynced, budget, lost>>
  BY DEF Begin, cluster
<1>2. ObjectTypes /\ MonitorTypes /\ WorkerTypes /\ budget \in 0 .. Budget /\ lost \subseteq Places
  BY Types
<1>3. mcache.st \in Places \cup {None} BY <1>2, MonitorFields DEF MonitorTypes
<1>4. WorkerTypes' BY <1>1, <1>2, <1>3 DEF WorkerTypes, MonitorTypes, PlaceInv
<1>. QED BY <1>1, <1>2, <1>4, TypesAfter DEF ObjectTypes, MonitorTypes

(* The first call has the target it needs. *)
LEMMA FirstCallTypes ==
  ASSUME NEW m
  PROVE  /\ FirstCall(m) \in {"remove", "write", "record", "report"}
         /\ FirstCall(m) = "remove" => m.st # None
         /\ FirstCall(m) = "write" => m.want # None
BY DEF FirstCall, ShouldPublish

LEMMA RemoveTypes ==
  ASSUME TypeInv, NEW type, Remove(type)
  PROVE  TypeInv'
<1>1. pc = "remove" /\ AfterRemoval /\ UNCHANGED <<mon, mcache, msynced, budget>> BY DEF Remove
<1>2. ObjectTypes /\ MonitorTypes /\ WorkerTypes /\ budget \in 0 .. Budget /\ lost \subseteq Places
  BY Types
<1>3. copy \in Monitors /\ copy.st \in Places /\ copy.st.obj \in Objects
  <2>1. copy \in Monitors /\ copy.st # None BY <1>1, <1>2 DEF WorkerTypes, PlaceInv
  <2>2. copy.st \in Places BY <2>1, MonitorFields
  <2>. QED BY <2>1, <2>2, PlaceFields
<1>4. ObjectTypes'
  <2>1. CASE UNCHANGED <<objs, ocache, osynced>> BY <1>2, <2>1 DEF ObjectTypes
  <2>2. CASE Put(copy.st.obj, Absent) BY <1>2, <1>3, <2>2, ObjectValues, PutTypes
  <2>. QED BY <2>1, <2>2, RemoveEffect
<1>5. WorkerTypes'
  <2>1. next \in Places \cup {None} /\ None \in Places \cup {None} BY <1>2 DEF WorkerTypes
  <2>2. CASE ShouldPublish(copy) /\ GoOn("write", next)
    <3>1. copy.want # None BY <2>2 DEF ShouldPublish
    <3>. QED BY <1>2, <2>1, <2>2, <3>1, GoOnTypes
  <2>3. CASE GoOn("record", None) BY <1>2, <2>1, <2>3, GoOnTypes
  <2>. QED BY <1>1, <2>2, <2>3 DEF AfterRemoval
<1>6. lost' \subseteq Places BY <1>2 DEF Remove, Overlooked
<1>. QED BY <1>1, <1>2, <1>4, <1>5, <1>6, TypesAfter DEF MonitorTypes

LEMMA WriteTypes ==
  ASSUME TypeInv, NEW type, Write(type)
  PROVE  TypeInv'
<1>. DEFINE o == copy.want.obj
<1>1. pc = "write" /\ UNCHANGED <<mon, mcache, msynced, budget>> BY DEF Write
<1>2. ObjectTypes /\ MonitorTypes /\ WorkerTypes /\ budget \in 0 .. Budget /\ lost \subseteq Places
  BY Types
<1>3. copy \in Monitors /\ copy.want \in Places /\ o \in Objects /\ copy.want.key \in Keys
      /\ copy.st \in Places \cup {None} /\ Url(copy) \in Urls
  <2>1. copy \in Monitors /\ copy.want # None BY <1>1, <1>2 DEF WorkerTypes, PlaceInv
  <2>2. copy.want \in Places /\ copy.st \in Places \cup {None} BY <2>1, MonitorFields
  <2>. QED BY <2>1, <2>2, PlaceFields, UrlIsUrl
<1>4. Published \/ Fail => WorkerTypes'
  <2>1. Published => WorkerTypes' BY <1>2, <1>3, GoOnTypes DEF Published
  <2>. QED BY <1>2, <2>1, FailTypes
<1>5. Unwritten => ObjectTypes' /\ lost' = lost BY <1>2 DEF Unwritten, ObjectTypes
<1>6. CASE CreateTarget(o)
  <2>1. [Empty EXCEPT ![copy.want.key] = Url(copy)] \in [Keys -> Urls] BY <1>3, ObjectValues
  <2>2. [owner |-> "me", data |-> [Empty EXCEPT ![copy.want.key] = Url(copy)]] \in Object
    BY <2>1, ObjectValues
  <2>3. \/ /\ Put(o, [owner |-> "me", data |-> [Empty EXCEPT ![copy.want.key] = Url(copy)]])
           /\ Published /\ lost' = lost
        \/ Fail /\ Unwritten
    BY <1>6 DEF CreateTarget
  <2>4. ObjectTypes' /\ lost' = lost BY <1>2, <1>3, <1>5, <2>2, <2>3, PutTypes
  <2>5. WorkerTypes' BY <1>4, <2>3
  <2>. QED BY <1>1, <1>2, <2>4, <2>5, TypesAfter DEF MonitorTypes
<1>7. CASE RefuseTarget(o)
  BY <1>1, <1>2, <1>4, <1>5, <1>7, TypesAfter DEF RefuseTarget, MonitorTypes
<1>8. CASE UpdateTarget(o)
  <2>1. ocache[o] \in Object BY <1>2, <1>3 DEF ObjectTypes
  <2>2. Updated(ocache[o].data) \in [Keys -> Urls]
    <3>1. ocache[o].data \in [Keys -> Urls] /\ NoUrl \in Urls BY <2>1, ObjectValues DEF Urls
    <3>. QED BY <1>3, <3>1 DEF Updated
  <2>3. [ocache[o] EXCEPT !.data = Updated(ocache[o].data)] \in Object BY <2>1, <2>2, ObjectValues
  <2>4. \/ Published /\ lost' = Overlooked(o) /\ UNCHANGED <<objs, ocache, osynced>>
        \/ /\ Put(o, [ocache[o] EXCEPT !.data = Updated(ocache[o].data)])
           /\ Published /\ lost' = lost
        \/ Fail /\ Unwritten
    BY <1>8 DEF UpdateTarget
  <2>5. lost' \subseteq Places
    <3>1. Overlooked(o) \subseteq Places BY <1>2 DEF Overlooked
    <3>. QED BY <1>2, <1>5, <2>4, <3>1
  <2>6. ObjectTypes'
    <3>1. UNCHANGED <<objs, ocache, osynced>> => ObjectTypes' BY <1>2 DEF ObjectTypes
    <3>. QED BY <1>2, <1>3, <1>5, <2>3, <2>4, <3>1, PutTypes
  <2>7. WorkerTypes' BY <1>4, <2>4
  <2>. QED BY <1>1, <1>2, <2>5, <2>6, <2>7, TypesAfter DEF MonitorTypes
<1>. QED BY <1>6, <1>7, <1>8 DEF Write

LEMMA StatusTypes ==
  ASSUME TypeInv, StatusWritten \/ StatusLost
  PROVE  ObjectTypes' /\ MonitorTypes' /\ budget' \in 0 .. Budget /\ lost' \subseteq Places
<1>1. ObjectTypes /\ MonitorTypes /\ WorkerTypes /\ budget \in 0 .. Budget /\ lost \subseteq Places
  BY Types
<1>2. mon.st \in Places \cup {None} /\ next \in Places \cup {None}
  BY <1>1, MonitorFields DEF MonitorTypes, WorkerTypes
<1>3. CASE StatusWritten
  <2>1. mon' = [mon EXCEPT !.st = next] /\ msynced' = FALSE /\ UNCHANGED <<mcache, objs, ocache, osynced, budget>>
        /\ lost' = (IF mon.st \in {copy.st, None} THEN lost ELSE lost \cup {mon.st}) \ {next}
    BY <1>3 DEF StatusWritten
  <2>2. mon' \in Monitors BY <1>1, <1>2, <2>1, MonitorFields DEF MonitorTypes
  <2>3. lost' \subseteq Places BY <1>1, <1>2, <2>1
  <2>. QED BY <1>1, <2>1, <2>2, <2>3 DEF ObjectTypes, MonitorTypes
<1>4. CASE StatusLost
  <2>1. lost' \subseteq Places BY <1>1, <1>2, <1>4 DEF StatusLost, Unrecorded
  <2>2. budget' \in 0 .. Budget BY <1>1, <1>4, SpendTypes DEF StatusLost
  <2>. QED BY <1>1, <1>4, <2>1, <2>2 DEF StatusLost, cluster, ObjectTypes, MonitorTypes
<1>. QED BY <1>3, <1>4

LEMMA RecordTypes ==
  ASSUME TypeInv, Sync \/ Record \/ Report
  PROVE  TypeInv'
<1>1. WorkerTypes /\ MonitorTypes /\ next \in Places \cup {None} /\ again \in BOOLEAN
  BY Types DEF WorkerTypes
<1>2. ObjectTypes' /\ MonitorTypes' /\ budget' \in 0 .. Budget /\ lost' \subseteq Places
  BY StatusTypes DEF Sync, Record, Report
<1>3. WorkerTypes'
  <2>1. CASE GoOn("report", next) BY <1>1, <2>1, GoOnTypes
  <2>2. CASE Fail BY <1>1, <2>2, FailTypes
  <2>3. CASE Return(again) BY <1>1, <2>3, ReturnTypes
  <2>4. CASE Return(TRUE) BY <1>1, <2>4, ReturnTypes
  <2>5. CASE GoOn(FirstCall(copy), next) BY <1>1, <2>5, FirstCallTypes, GoOnTypes
  <2>. QED BY <2>1, <2>2, <2>3, <2>4, <2>5 DEF Sync, Record, Report
<1>. QED BY <1>2, <1>3, TypesAfter

LEMMA UserObjectTypes ==
  ASSUME TypeInv, UserObject
  PROVE  TypeInv'
<1>1. ObjectTypes /\ MonitorTypes /\ WorkerTypes /\ budget \in 0 .. Budget /\ lost \subseteq Places
  BY Types
<1>2. UNCHANGED <<mon, mcache, msynced, pc, copy, cur, next, again, queued, lost>> /\ Spend
  BY DEF UserObject, worker
<1>3. PICK o \in Objects : \/ Put(o, [owner |-> "other", data |-> Empty])
                           \/ Put(o, Absent)
                           \/ Put(o, [objs[o] EXCEPT !.data = Empty])
  BY DEF UserObject
<1>4. [objs[o] EXCEPT !.data = Empty] \in Object BY <1>1, ObjectValues DEF ObjectTypes
<1>5. ObjectTypes' BY <1>1, <1>3, <1>4, ObjectValues, PutTypes
<1>6. budget' \in 0 .. Budget BY <1>1, <1>2, SpendTypes
<1>. QED BY <1>1, <1>2, <1>5, <1>6, TypesAfter DEF MonitorTypes, WorkerTypes, PlaceInv

LEMMA RestTypes ==
  ASSUME TypeInv,
         \/ Fault \/ DeliverMonitor \/ DeliverObject \/ Timer \/ UserEdit \/ UrlChanged \/ Restart
         \/ UNCHANGED vars
  PROVE  TypeInv'
<1>1. ObjectTypes /\ MonitorTypes /\ WorkerTypes /\ budget \in 0 .. Budget /\ lost \subseteq Places
  BY Types
<1>2. CASE Fault
  <2>1. budget' \in 0 .. Budget /\ WorkerTypes' BY <1>1, <1>2, SpendTypes, FailTypes DEF Fault
  <2>. QED BY <1>1, <1>2, <2>1, TypesAfter DEF Fault, cluster, ObjectTypes, MonitorTypes
<1>3. CASE DeliverMonitor
  <2>1. /\ mcache' = mon /\ msynced' = TRUE /\ queued' = (queued \/ mcache.want # mon.want)
        /\ UNCHANGED <<mon, objs, ocache, osynced, pc, copy, cur, next, again, budget, lost>>
    BY <1>3 DEF DeliverMonitor, worker
  <2>2. queued' \in BOOLEAN BY <1>1, <2>1, Zenon DEF WorkerTypes
  <2>. QED BY <1>1, <2>1, <2>2, TypesAfter DEF ObjectTypes, MonitorTypes, WorkerTypes, PlaceInv
<1>4. CASE DeliverObject
  <2>1. UNCHANGED <<mon, mcache, msynced, objs, pc, copy, cur, next, again, queued, budget, lost>>
    BY <1>4 DEF DeliverObject, worker
  <2>2. ObjectTypes' BY <1>1, <1>4 DEF DeliverObject, ObjectTypes
  <2>. QED BY <1>1, <2>1, <2>2, TypesAfter DEF MonitorTypes, WorkerTypes, PlaceInv
<1>5. CASE Timer
  <2>1. budget' \in 0 .. Budget BY <1>1, <1>5, SpendTypes DEF Timer
  <2>. QED
    BY <1>1, <1>5, <2>1, TypesAfter DEF Timer, cluster, worker, ObjectTypes, MonitorTypes, WorkerTypes, PlaceInv
<1>6. CASE UserEdit
  <2>1. PICK w \in Places \cup {None} : mon' = [mon EXCEPT !.want = w] BY <1>6 DEF UserEdit
  <2>2. mon' \in Monitors BY <1>1, <2>1, MonitorFields DEF MonitorTypes
  <2>3. budget' \in 0 .. Budget BY <1>1, <1>6, SpendTypes DEF UserEdit
  <2>. QED BY <1>1, <1>6, <2>2, <2>3, TypesAfter DEF UserEdit, ObjectTypes, MonitorTypes, WorkerTypes, PlaceInv
<1>7. CASE UrlChanged
  <2>1. PICK i \in MonitorIds, f \in Forms : mon' = [mon EXCEPT !.id = i, !.form = f]
    BY <1>7 DEF UrlChanged
  <2>2. mon' \in Monitors BY <1>1, <2>1, MonitorFields DEF MonitorTypes
  <2>3. budget' \in 0 .. Budget BY <1>1, <1>7, SpendTypes DEF UrlChanged
  <2>. QED
    BY <1>1, <1>7, <2>2, <2>3, TypesAfter DEF UrlChanged, worker, ObjectTypes, MonitorTypes, WorkerTypes, PlaceInv
<1>8. CASE Restart
  <2>1. WorkerTypes' BY <1>1, <1>8, ReturnTypes DEF Restart
  <2>2. budget' \in 0 .. Budget BY <1>1, <1>8, SpendTypes DEF Restart
  <2>3. lost' \subseteq Places BY <1>1, <1>8 DEF Restart, Unrecorded, WorkerTypes
  <2>4. ObjectTypes' /\ MonitorTypes' BY <1>1, <1>8 DEF Restart, ObjectTypes, MonitorTypes
  <2>. QED BY <2>1, <2>2, <2>3, <2>4, TypesAfter
<1>9. CASE UNCHANGED vars
  BY <1>1, <1>9, TypesAfter DEF vars, ObjectTypes, MonitorTypes, WorkerTypes, PlaceInv
<1>. QED BY <1>2, <1>3, <1>4, <1>5, <1>6, <1>7, <1>8, <1>9

LEMMA InitTypes == Init => TypeInv
<1>. SUFFICES ASSUME Init PROVE TypeInv OBVIOUS
<1>1. mon \in Monitors BY DEF Init
<1>2. Blank \in Monitors BY <1>1, BlankIsMonitor
<1>3. ObjectTypes BY ObjectValues DEF Init, ObjectTypes
<1>4. MonitorTypes BY <1>1 DEF Init, MonitorTypes
<1>5. WorkerTypes BY <1>2 DEF Init, WorkerTypes, PlaceInv
<1>6. budget \in 0 .. Budget /\ lost \subseteq Places BY BudgetAssumption DEF Init
<1>. QED BY <1>3, <1>4, <1>5, <1>6, Types

LEMMA NextTypes == TypeInv /\ [Next]_vars => TypeInv'
<1>. SUFFICES ASSUME TypeInv, [Next]_vars PROVE TypeInv' OBVIOUS
<1>. QED
  BY BeginTypes, RemoveTypes, WriteTypes, RecordTypes, UserObjectTypes, RestTypes
     DEF Next, Step, RemoveSecret, RemoveConfigMap, WriteSecret, WriteConfigMap

(* Every variable keeps its type: what is published is a URL of the        *)
(* monitor, and a target is removed or written only when the worker's copy *)
(* names one.                                                              *)
THEOREM TypesHold == Spec => []TypeOK
<1>1. Init => TypeInv BY InitTypes
<1>2. TypeInv /\ [Next]_vars => TypeInv' BY NextTypes
<1>3. TypeInv => TypeOK BY DEF TypeInv
<1>. QED BY <1>1, <1>2, <1>3, PTL DEF Spec
=============================================================================
