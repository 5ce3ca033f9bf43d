----------------------- MODULE IngressController_proofs -----------------------
(***************************************************************************)
(* The reconciler of Ingress leaves the Monitors of users alone, for any   *)
(* namespaces and any bound.  The invariant: a cached Monitor that has the *)
(* server's version is the server's, and so is a copy in the worker's list *)
(* that still has it: one that stands for an ingress.  And every variable  *)
(* keeps its type.                                                         *)
(***************************************************************************)
EXTENDS IngressController, TLAPS

DomainInv ==
  /\ mons = [n \in Namespaces |-> mons[n]] /\ mcache = [n \in Namespaces |-> mcache[n]]
  /\ lcur \subseteq Namespaces

CacheInv == \A n \in Namespaces : Mon(n) \in synced => mcache[n] = mons[n]

ListInv == \A n \in lcur : mons[n].phase # "absent" /\ mons[n].mine

Inv == DomainInv /\ CacheInv /\ ListInv

(* The names of ingresses and Monitors do not clash. *)
LEMMA Names ==
  ASSUME NEW n, NEW m
  PROVE  Ing(n) # Mon(m) /\ (Mon(n) = Mon(m) => n = m)
BY DEF Ing, Mon

(* A Monitor is written, and copies of it lose their version. *)
LEMMA PutKeeps ==
  ASSUME Inv, NEW n, NEW m, PutMonitor(n, m), lcur' \subseteq lcur \ {n}
  PROVE  Inv'
<1>1. DomainInv' BY DEF Inv, DomainInv, PutMonitor
<1>2. ASSUME NEW p \in Namespaces, Mon(p) \in synced' PROVE mcache'[p] = mons'[p]
  <2>1. p # n /\ Mon(p) \in synced BY <1>2 DEF PutMonitor
  <2>2. mons'[p] = mons[p] /\ mcache' = mcache BY <2>1 DEF Inv, DomainInv, PutMonitor
  <2>. QED BY <2>1, <2>2 DEF Inv, CacheInv
<1>3. ASSUME NEW p \in lcur' PROVE mons'[p].phase # "absent" /\ mons'[p].mine
  <2>1. p \in lcur /\ p # n /\ p \in Namespaces BY <1>3 DEF Inv, DomainInv
  <2>2. mons'[p] = mons[p] BY <2>1 DEF Inv, DomainInv, PutMonitor
  <2>. QED BY <2>1, <2>2 DEF Inv, ListInv
<1>. QED BY <1>1, <1>2, <1>3 DEF Inv, CacheInv, ListInv

(* Monitors and their cached copies are left alone. *)
LEMMA SameMonitors ==
  ASSUME Inv, mons' = mons, mcache' = mcache, lcur' \subseteq lcur,
         \A n \in Namespaces : Mon(n) \in synced' => Mon(n) \in synced
  PROVE  Inv'
BY DEF Inv, DomainInv, CacheInv, ListInv

LEMMA BeginKeeps ==
  ASSUME Inv, NEW n \in Namespaces, Begin(n)
  PROVE  Inv'
<1>1. mons' = mons /\ mcache' = mcache /\ synced' = synced BY DEF Begin, objects
<1>2. ASSUME NEW m \in lcur'
      PROVE  m \in Namespaces /\ mons[m].phase # "absent" /\ mons[m].mine
  <2>1. CASE m \in lcur BY <2>1 DEF Inv, DomainInv, ListInv
  <2>2. CASE m \in FindMonitors /\ Mon(m) \in synced
    <3>1. m \in Namespaces /\ mcache[m].phase # "absent" /\ mcache[m].mine BY <2>2 DEF FindMonitors
    <3>2. mcache[m] = mons[m] BY <2>2, <3>1 DEF Inv, CacheInv
    <3>. QED BY <3>1, <3>2
  <2>3. lcur' = lcur \/ (lcur' = {q \in list' : Mon(q) \in synced} /\ list' \in {{}, FindMonitors})
    <3>1. \/ UNCHANGED worker
          \/ UNCHANGED <<queue, worker, missed>>
          \/ UNCHANGED <<key, copy, cur, list, lcur>>
          \/ /\ list' = IF pc' = "create" THEN {} ELSE FindMonitors
             /\ lcur' = {q \in list' : Mon(q) \in synced}
      BY DEF Begin
    <3>. QED BY <3>1 DEF worker
  <2>. QED BY <1>2, <2>1, <2>2, <2>3
<1>. QED BY <1>1, <1>2 DEF Inv, DomainInv, CacheInv, ListInv

LEMMA ReturnKeepsNothing ==
  ASSUME NEW error, Return(error)
  PROVE  lcur' = {}
BY DEF Return

(* The calls of the worker that write a Monitor. *)
LEMMA DeleteKeeps == Inv /\ DeleteMonitor => Inv'
<1>. SUFFICES ASSUME Inv, DeleteMonitor PROVE Inv' OBVIOUS
<1>. PICK n \in list : IF mons[n].phase = "absent" THEN Return(TRUE) /\ UNCHANGED objects
                       ELSE PutMonitor(n, Deleted(mons[n])) /\ lcur' = lcur \ {n}
  BY DEF DeleteMonitor
<1>1. CASE mons[n].phase = "absent" BY <1>1, SameMonitors, ReturnKeepsNothing DEF objects
<1>2. CASE mons[n].phase # "absent" BY <1>2, PutKeeps
<1>. QED BY <1>1, <1>2

LEMMA UpdateKeeps == Inv /\ UpdateMonitor => Inv'
<1>. SUFFICES ASSUME Inv, UpdateMonitor PROVE Inv' OBVIOUS
<1>. PICK n \in list : IF n \notin lcur \/ Refused(mons[n], copy) THEN Return(TRUE) /\ UNCHANGED objects
                       ELSE /\ PutMonitor(n, UpdateValues(mons[n], copy))
                            /\ AfterWrites \/ lcur' = lcur \ {n}
  BY DEF UpdateMonitor
<1>1. CASE n \notin lcur \/ Refused(mons[n], copy) BY <1>1, SameMonitors, ReturnKeepsNothing DEF objects
<1>2. CASE ~(n \notin lcur \/ Refused(mons[n], copy))
  <2>1. lcur' \subseteq lcur \ {n} BY <1>2, ReturnKeepsNothing DEF AfterWrites
  <2>. QED BY <1>2, <2>1, PutKeeps
<1>. QED BY <1>1, <1>2

LEMMA CreateKeeps == Inv /\ CreateMonitor => Inv'
<1>. SUFFICES ASSUME Inv, CreateMonitor PROVE Inv' OBVIOUS
<1>1. CASE Return(TRUE) /\ UNCHANGED objects BY <1>1, SameMonitors, ReturnKeepsNothing DEF objects
<1>2. CASE PutMonitor(key, NewMonitor(copy)) /\ AfterWrites
  <2>1. lcur' = {} BY <1>2, ReturnKeepsNothing DEF AfterWrites
  <2>. QED BY <1>2, <2>1, PutKeeps
<1>. QED BY <1>1, <1>2 DEF CreateMonitor

(* The calls that write the ingress. *)
LEMMA FinalizersKeep == Inv /\ (AddFinalizer \/ RemoveFinalizer) => Inv'
<1>. SUFFICES ASSUME Inv, AddFinalizer \/ RemoveFinalizer PROVE Inv' OBVIOUS
<1>1. lcur' = {} BY ReturnKeepsNothing DEF AddFinalizer, RemoveFinalizer
<1>2. mons' = mons /\ mcache' = mcache /\ synced' \subseteq synced
  BY DEF AddFinalizer, RemoveFinalizer, PutIngress, objects
<1>. QED BY <1>1, <1>2, SameMonitors

LEMMA DeliveriesKeep == Inv /\ (DeliverIngress \/ DeliverMonitor) => Inv'
<1>. SUFFICES ASSUME Inv, DeliverIngress \/ DeliverMonitor PROVE Inv' OBVIOUS
<1>1. CASE DeliverIngress
  <2>. PICK n \in Namespaces : synced' = synced \cup {Ing(n)} BY <1>1 DEF DeliverIngress
  <2>1. mons' = mons /\ mcache' = mcache /\ lcur' = lcur BY <1>1 DEF DeliverIngress, worker
  <2>. QED BY <2>1, SameMonitors, Names
<1>2. CASE DeliverMonitor
  <2>. PICK n \in Namespaces : synced' = synced \cup {Mon(n)} /\ mcache' = [mcache EXCEPT ![n] = mons[n]]
    BY <1>2 DEF DeliverMonitor
  <2>1. mons' = mons /\ lcur' = lcur BY <1>2 DEF DeliverMonitor, worker
  <2>2. ASSUME NEW p \in Namespaces, Mon(p) \in synced' PROVE mcache'[p] = mons[p]
    <3>1. CASE p = n BY <3>1 DEF Inv, DomainInv
    <3>2. CASE p # n
      <4>1. Mon(p) \in synced /\ mcache'[p] = mcache[p] BY <2>2, <3>2, Names DEF Inv, DomainInv
      <4>. QED BY <4>1 DEF Inv, CacheInv
    <3>. QED BY <3>1, <3>2
  <2>. QED BY <2>1, <2>2 DEF Inv, DomainInv, CacheInv, ListInv
<1>. QED BY <1>1, <1>2

LEMMA EnvironmentKeeps ==
  Inv /\ (MonitorHeld \/ MonitorGone \/ EditIngress \/ CreateIngress \/ DeleteIngress \/ UserMonitor \/ Restart) => Inv'
<1>. SUFFICES ASSUME Inv, MonitorHeld \/ MonitorGone \/ EditIngress \/ CreateIngress \/ DeleteIngress
                          \/ UserMonitor \/ Restart
              PROVE  Inv'
  OBVIOUS
<1>1. ASSUME NEW n, NEW m, Outside(n, m) PROVE Inv' BY <1>1, PutKeeps DEF Outside
<1>2. ASSUME NEW n, NEW i, UserIngress(n, i) PROVE Inv'
  BY <1>2, SameMonitors DEF UserIngress, PutIngress
<1>3. CASE MonitorHeld \/ MonitorGone \/ UserMonitor BY <1>1, <1>3 DEF MonitorHeld, MonitorGone, UserMonitor
<1>4. CASE EditIngress \/ CreateIngress \/ DeleteIngress
  BY <1>2, <1>4 DEF EditIngress, CreateIngress, DeleteIngress
<1>5. CASE Restart BY <1>5 DEF Restart, Inv, DomainInv, CacheInv, ListInv
<1>. QED BY <1>3, <1>4, <1>5

LEMMA InitInv == Init => Inv
<1>. SUFFICES ASSUME Init PROVE Inv OBVIOUS
<1>1. mons = [n \in Namespaces |-> mons[n]] /\ mcache = mons /\ lcur = {} BY DEF Init
<1>. QED BY <1>1 DEF Inv, DomainInv, CacheInv, ListInv

LEMMA StepInv == Inv /\ [Next]_vars => Inv'
<1>. SUFFICES ASSUME Inv, [Next]_vars PROVE Inv' OBVIOUS
<1>1. CASE Take BY <1>1, BeginKeeps DEF Take
<1>2. CASE Step BY <1>2, DeleteKeeps, UpdateKeeps, CreateKeeps, FinalizersKeep DEF Step
<1>3. CASE Fault BY <1>3, SameMonitors, ReturnKeepsNothing DEF Fault, objects
<1>4. CASE UNCHANGED vars BY <1>4, SameMonitors DEF vars, objects, worker
<1>. QED BY <1>1, <1>2, <1>3, <1>4, DeliveriesKeep, EnvironmentKeeps DEF Next

(* Cached Monitors and listed copies with the server's version are the     *)
(* server's Monitors (the informer's cache that findMonitors lists).       *)
THEOREM ListIsHonest == Spec => []Inv
<1>1. Init => Inv BY InitInv
<1>2. Inv /\ [Next]_vars => Inv' BY StepInv
<1>. QED BY <1>1, <1>2, PTL DEF Spec

(* One call of the worker and the Monitor of a user. *)
LEMMA OthersUntouched ==
  ASSUME Inv, Step, NEW n \in Namespaces, mons[n].phase # "absent", ~mons[n].mine
  PROVE  mons'[n] = mons[n] \/ (pc = "delete" /\ n \notin lcur)
<1>1. ASSUME NEW p, NEW m, PutMonitor(p, m), p # n PROVE mons'[n] = mons[n]
  BY <1>1 DEF Inv, DomainInv, PutMonitor
<1>2. n \notin lcur BY DEF Inv, ListInv
<1>3. CASE DeleteMonitor BY <1>2, <1>3 DEF DeleteMonitor
<1>4. CASE UpdateMonitor
  <2>. PICK p \in list : \/ UNCHANGED objects
                         \/ p \in lcur /\ PutMonitor(p, UpdateValues(mons[p], copy))
    BY <1>4 DEF UpdateMonitor
  <2>. QED BY <1>1, <1>2 DEF objects
<1>5. CASE CreateMonitor
  <2>1. \/ UNCHANGED objects
        \/ mons[key].phase = "absent" /\ PutMonitor(key, NewMonitor(copy))
    BY <1>5 DEF CreateMonitor
  <2>. QED BY <1>1, <2>1 DEF objects
<1>6. CASE AddFinalizer \/ RemoveFinalizer BY <1>6 DEF AddFinalizer, RemoveFinalizer, PutIngress, objects
<1>. QED BY <1>3, <1>4, <1>5, <1>6 DEF Step

(* For any namespaces and whatever users do: no step of the reconciler     *)
(* changes a Monitor that stands for no ingress, but for the DELETE by     *)
(* name of one that took the place of a listed Monitor                     *)
(* (ingress_controller.go:79, 111).                                        *)
THEOREM UserMonitorIsUntouched == Spec => UserMonitorUntouched
<1>1. Inv /\ [Next]_vars =>
        [Step => \A n \in Namespaces : mons[n].phase # "absent" /\ ~mons[n].mine =>
           mons'[n] = mons[n] \/ (pc = "delete" /\ n \notin lcur)]_vars
  BY OthersUntouched
<1>. QED BY <1>1, ListIsHonest, PTL DEF Spec, UserMonitorUntouched
-----------------------------------------------------------------------------
(* The types. *)
Objects == {Ing(n) : n \in Namespaces} \cup {Mon(n) : n \in Namespaces}

ObjectTypes ==
  /\ ing \in [Namespaces -> Ingress] /\ icache \in [Namespaces -> Ingress]
  /\ mons \in [Namespaces -> Monitor] /\ mcache \in [Namespaces -> Monitor] /\ synced \subseteq Objects

WorkerTypes ==
  /\ key \in Namespaces /\ copy \in Ingress /\ cur \in BOOLEAN
  /\ pc \in {"idle", "delete", "update", "create", "finalize", "unfinalize"}
  /\ list \subseteq Namespaces /\ lcur \subseteq list /\ spent \in BOOLEAN

OtherTypes ==
  /\ queue \subseteq Namespaces /\ budget \in 0 .. Budget /\ shared \in BOOLEAN /\ missed \subseteq Namespaces

LEMMA Types == TypeOK <=> ObjectTypes /\ WorkerTypes /\ OtherTypes
BY DEF TypeOK, ObjectTypes, WorkerTypes, OtherTypes, Objects

LEMMA TypesAfter ==
  ASSUME ObjectTypes', WorkerTypes', OtherTypes'
  PROVE  TypeOK'
BY DEF TypeOK, ObjectTypes, WorkerTypes, OtherTypes, Objects

LEMMA SpendTypes ==
  ASSUME budget \in 0 .. Budget, NEW e, Spend(e)
  PROVE  budget' \in 0 .. Budget
BY BudgetAssumption DEF Spend

LEMMA IngressValues ==
  /\ NoIngress \in Ingress
  /\ \A i \in Ingress : /\ \A f \in BOOLEAN : [i EXCEPT !.fin = f] \in Ingress
                        /\ \A f \in Flags : [i EXCEPT !.enabled = f] \in Ingress
                        /\ \A t \in Targets : [i EXCEPT !.target = t] \in Ingress
                        /\ \A r \in Rests : [i EXCEPT !.rest = r] \in Ingress
                        /\ [i EXCEPT !.phase = "deleting"] \in Ingress
  /\ [NoIngress EXCEPT !.phase = "live", !.enabled = "true"] \in Ingress
  /\ \A f \in BOOLEAN : [NoIngress EXCEPT !.phase = "live", !.enabled = "true", !.fin = f] \in Ingress
BY DEF Ingress, NoIngress, Flags, Targets, Rests

LEMMA MonitorValues ==
  /\ NoMonitor \in Monitor
  /\ \A m \in Monitor : [m EXCEPT !.held = TRUE] \in Monitor /\ Deleted(m) \in Monitor
  /\ [NoMonitor EXCEPT !.phase = "live", !.mine = TRUE] \in Monitor
  /\ [NoMonitor EXCEPT !.phase = "live", !.rest = "a"] \in Monitor
  /\ [NoMonitor EXCEPT !.phase = "live", !.held = TRUE, !.mine = TRUE, !.url = "rule"] \in Monitor
BY DEF Monitor, NoMonitor, Deleted

(* Annotations that the decoder takes make a Monitor of a Monitor. *)
LEMMA ValuesOfMonitor ==
  ASSUME NEW m \in Monitor, NEW i \in Ingress, i.rest # "bad"
  PROVE  UpdateValues(m, i) \in Monitor
<1>1. m.url \in {"none", "rule", "host"} /\ m.rest \in {"none", "a", "b"} BY DEF Monitor
<1>2. i.rest \in {"none", "a", "b"} BY DEF Ingress, Rests
<1>. DEFINE target == IF spent THEN "none" ELSE i.target
            url == CASE target = "url" -> m.url [] target = "host" -> "host" [] OTHER -> "rule"
            rest == IF i.rest = "none" THEN m.rest ELSE i.rest
<1>3. url \in {"none", "rule", "host"} BY <1>1
<1>4. rest \in {"none", "a", "b"} BY <1>1, <1>2
<1>5. UpdateValues(m, i) = [m EXCEPT !.url = url, !.rest = rest] BY DEF UpdateValues
<1>. HIDE DEF url, rest
<1>. QED BY <1>3, <1>4, <1>5 DEF Monitor

LEMMA PutMonitorTypes ==
  ASSUME ObjectTypes, NEW n \in Namespaces, NEW m \in Monitor, PutMonitor(n, m)
  PROVE  ObjectTypes'
BY DEF ObjectTypes, PutMonitor, Objects

LEMMA PutIngressTypes ==
  ASSUME ObjectTypes, NEW n \in Namespaces, NEW i \in Ingress, PutIngress(n, i),
         synced' = synced \ {Ing(n)}
  PROVE  ObjectTypes'
BY DEF ObjectTypes, PutIngress, Objects

LEMMA ReturnTypes ==
  ASSUME WorkerTypes, NEW error \in BOOLEAN, Return(error), queue \subseteq Namespaces
  PROVE  WorkerTypes' /\ queue' \subseteq Namespaces
BY IngressValues DEF WorkerTypes, Return

LEMMA BeginTypes ==
  ASSUME TypeOK, NEW n \in Namespaces, Begin(n)
  PROVE  TypeOK'
<1>1. ObjectTypes /\ WorkerTypes /\ OtherTypes BY Types
<1>2. UNCHANGED <<ing, icache, mons, mcache, synced, budget, shared>> BY DEF Begin, objects
<1>3. FindMonitors \subseteq Namespaces /\ Unlisted \subseteq Namespaces
  BY DEF FindMonitors, Unlisted
<1>4. icache[n] \in Ingress /\ (Ing(n) \in synced) \in BOOLEAN BY <1>1 DEF ObjectTypes
<1>5. CASE UNCHANGED <<worker, missed>> /\ (queue' = queue \ {n} \/ queue' = queue)
  <2>1. WorkerTypes' BY <1>1, <1>5 DEF WorkerTypes, worker
  <2>2. ObjectTypes' /\ OtherTypes' BY <1>1, <1>2, <1>5 DEF ObjectTypes, OtherTypes, Objects
  <2>. QED BY <2>1, <2>2, TypesAfter
<1>6. CASE /\ pc' = Decide(icache[n], FindMonitors) /\ queue' = queue \ {n}
           /\ IF pc' = "idle" THEN UNCHANGED <<key, copy, cur, list, lcur>>
              ELSE /\ key' = n /\ copy' = icache[n] /\ cur' = (Ing(n) \in synced)
                   /\ list' = IF pc' = "create" THEN {} ELSE FindMonitors
                   /\ lcur' = {m \in list' : Mon(m) \in synced}
           /\ missed' = missed \cup Unlisted /\ UNCHANGED spent
  <2>1. pc' \in {"idle", "delete", "update", "create", "finalize", "unfinalize"}
    BY <1>6 DEF Decide, AfterDeletes
  <2>2. cur' \in BOOLEAN
    <3>1. cur' = cur \/ cur' = (Ing(n) \in synced) BY <1>6
    <3>2. cur \in BOOLEAN BY <1>1 DEF WorkerTypes
    <3>3. CASE cur' = cur BY <3>2, <3>3
    <3>4. CASE cur' = (Ing(n) \in synced)
      <4>1. CASE Ing(n) \in synced
        <5>1. cur' = TRUE BY <3>4, <4>1
        <5>. QED BY <5>1
      <4>2. CASE Ing(n) \notin synced
        <5>1. (Ing(n) \in synced) = FALSE BY <4>2
        <5>2. cur' = FALSE BY <3>4, <5>1, Zenon
        <5>. QED BY <5>2
      <4>. QED BY <4>1, <4>2
    <3>. QED BY <3>1, <3>3, <3>4
  <2>3. WorkerTypes'
    <3>1. list' \subseteq Namespaces /\ lcur' \subseteq list' BY <1>1, <1>3, <1>6 DEF WorkerTypes
    <3>2. key' \in Namespaces /\ copy' \in Ingress /\ spent' \in BOOLEAN
      BY <1>1, <1>4, <1>6 DEF WorkerTypes
    <3>. QED BY <2>1, <2>2, <3>1, <3>2 DEF WorkerTypes
  <2>4. ObjectTypes' BY <1>1, <1>2 DEF ObjectTypes, Objects
  <2>5. OtherTypes' BY <1>1, <1>2, <1>3, <1>6 DEF OtherTypes
  <2>. QED BY <2>3, <2>4, <2>5, TypesAfter
<1>. QED BY <1>5, <1>6 DEF Begin

LEMMA DeleteTypes ==
  ASSUME TypeOK, DeleteMonitor
  PROVE  TypeOK'
<1>1. ObjectTypes /\ WorkerTypes /\ OtherTypes BY Types
<1>2. UNCHANGED <<budget, shared, missed>> BY DEF DeleteMonitor, history
<1>3. PICK n \in list : \/ Return(TRUE) /\ UNCHANGED objects
                        \/ /\ PutMonitor(n, Deleted(mons[n])) /\ list' = list \ {n}
                           /\ lcur' = lcur \ {n}
                           /\ pc' = AfterDeletes(list') /\ UNCHANGED <<key, copy, cur, spent, queue>>
  BY DEF DeleteMonitor
<1>4. n \in Namespaces /\ Deleted(mons[n]) \in Monitor
  BY <1>1, MonitorValues DEF WorkerTypes, ObjectTypes
<1>5. ObjectTypes'
  <2>1. UNCHANGED objects => ObjectTypes' BY <1>1 DEF objects, ObjectTypes, Objects
  <2>. QED BY <1>1, <1>3, <1>4, <2>1, PutMonitorTypes
<1>6. WorkerTypes' /\ queue' \subseteq Namespaces
  <2>1. queue \subseteq Namespaces BY <1>1 DEF OtherTypes
  <2>2. CASE Return(TRUE) BY <1>1, <2>1, <2>2, ReturnTypes
  <2>3. CASE /\ list' = list \ {n} /\ lcur' = lcur \ {n}
             /\ pc' = AfterDeletes(list') /\ UNCHANGED <<key, copy, cur, spent, queue>>
    BY <1>1, <2>1, <2>3 DEF WorkerTypes, AfterDeletes
  <2>. QED BY <1>3, <2>2, <2>3
<1>. QED BY <1>1, <1>2, <1>5, <1>6, TypesAfter DEF OtherTypes

LEMMA AfterWritesTypes ==
  ASSUME WorkerTypes, queue \subseteq Namespaces, AfterWrites
  PROVE  WorkerTypes' /\ queue' \subseteq Namespaces
<1>1. CASE Return(FALSE) BY <1>1, ReturnTypes
<1>2. CASE pc' = "finalize" /\ list' = {} /\ lcur' = {} /\ UNCHANGED <<key, copy, cur, spent, queue>>
  BY <1>2 DEF WorkerTypes
<1>. QED BY <1>1, <1>2 DEF AfterWrites

LEMMA UpdateTypes ==
  ASSUME TypeOK, UpdateMonitor
  PROVE  TypeOK'
<1>1. ObjectTypes /\ WorkerTypes /\ OtherTypes BY Types
<1>2. UNCHANGED <<budget, shared, missed>> BY DEF UpdateMonitor, history
<1>3. PICK n \in list :
        \/ Return(TRUE) /\ UNCHANGED objects
        \/ /\ ~Refused(mons[n], copy) /\ PutMonitor(n, UpdateValues(mons[n], copy))
           /\ \/ AfterWrites
              \/ /\ list' = list \ {n} /\ lcur' = lcur \ {n} /\ spent' = TRUE
                 /\ UNCHANGED <<pc, key, copy, cur, queue>>
  BY DEF UpdateMonitor
<1>4. n \in Namespaces /\ mons[n] \in Monitor /\ copy \in Ingress
  BY <1>1 DEF WorkerTypes, ObjectTypes
<1>5. ObjectTypes'
  <2>1. UNCHANGED objects => ObjectTypes' BY <1>1 DEF objects, ObjectTypes, Objects
  <2>2. ~Refused(mons[n], copy) => UpdateValues(mons[n], copy) \in Monitor
    BY <1>4, ValuesOfMonitor DEF Refused
  <2>. QED BY <1>1, <1>3, <1>4, <2>1, <2>2, PutMonitorTypes
<1>6. WorkerTypes' /\ queue' \subseteq Namespaces
  <2>1. queue \subseteq Namespaces BY <1>1 DEF OtherTypes
  <2>2. CASE Return(TRUE) BY <1>1, <2>1, <2>2, ReturnTypes
  <2>3. CASE AfterWrites BY <1>1, <2>1, <2>3, AfterWritesTypes
  <2>4. CASE /\ list' = list \ {n} /\ lcur' = lcur \ {n} /\ spent' = TRUE
             /\ UNCHANGED <<pc, key, copy, cur, queue>>
    BY <1>1, <2>1, <2>4 DEF WorkerTypes
  <2>. QED BY <1>3, <2>2, <2>3, <2>4
<1>. QED BY <1>1, <1>2, <1>5, <1>6, TypesAfter DEF OtherTypes

LEMMA CreateTypes ==
  ASSUME TypeOK, CreateMonitor
  PROVE  TypeOK'
<1>1. ObjectTypes /\ WorkerTypes /\ OtherTypes BY Types
<1>2. key \in Namespaces /\ copy \in Ingress /\ queue \subseteq Namespaces
  BY <1>1 DEF WorkerTypes, OtherTypes
<1>3. CASE Return(TRUE) /\ UNCHANGED <<objects, history, budget>>
  <2>1. ObjectTypes' BY <1>1, <1>3 DEF objects, ObjectTypes, Objects
  <2>2. WorkerTypes' /\ queue' \subseteq Namespaces BY <1>1, <1>2, <1>3, ReturnTypes
  <2>. QED BY <1>1, <1>3, <2>1, <2>2, TypesAfter DEF OtherTypes, history
<1>4. CASE /\ ~Refused(Blank, copy) /\ PutMonitor(key, NewMonitor(copy)) /\ AfterWrites
           /\ missed' = IF cur \/ ing[key].fin THEN missed ELSE missed \cup {key}
           /\ shared' = (shared \/ \E m \in Namespaces \ {key} : ing[m] # NoIngress)
           /\ UNCHANGED budget
  <2>1. NewMonitor(copy) \in Monitor
    BY <1>2, <1>4, MonitorValues, ValuesOfMonitor DEF NewMonitor, Blank, Refused
  <2>2. ObjectTypes' BY <1>1, <1>2, <1>4, <2>1, PutMonitorTypes
  <2>3. WorkerTypes' /\ queue' \subseteq Namespaces BY <1>1, <1>2, <1>4, AfterWritesTypes
  <2>4. shared' \in BOOLEAN BY <1>4, Zenon
  <2>5. missed' \subseteq Namespaces BY <1>1, <1>2, <1>4 DEF OtherTypes
  <2>. QED BY <1>1, <1>4, <2>2, <2>3, <2>4, <2>5, TypesAfter DEF OtherTypes
<1>. QED BY <1>3, <1>4 DEF CreateMonitor

LEMMA FinalizerTypes ==
  ASSUME TypeOK, AddFinalizer \/ RemoveFinalizer
  PROVE  TypeOK'
<1>1. ObjectTypes /\ WorkerTypes /\ OtherTypes BY Types
<1>2. UNCHANGED <<budget, shared, missed>> BY DEF AddFinalizer, RemoveFinalizer, history
<1>3. key \in Namespaces /\ copy \in Ingress /\ queue \subseteq Namespaces
  BY <1>1 DEF WorkerTypes, OtherTypes
<1>4. PICK e \in BOOLEAN : Return(e) BY DEF AddFinalizer, RemoveFinalizer
<1>5. WorkerTypes' /\ queue' \subseteq Namespaces BY <1>1, <1>3, <1>4, ReturnTypes
<1>6. ObjectTypes'
  <2>1. UNCHANGED objects => ObjectTypes' BY <1>1 DEF objects, ObjectTypes, Objects
  <2>2. \/ UNCHANGED objects
        \/ /\ \E i \in Ingress : PutIngress(key, i)
           /\ synced' = synced \ {Ing(key)}
    BY <1>3, IngressValues DEF AddFinalizer, RemoveFinalizer
  <2>. QED BY <1>1, <1>3, <2>1, <2>2, PutIngressTypes
<1>. QED BY <1>1, <1>2, <1>5, <1>6, TypesAfter DEF OtherTypes

(* A Monitor that someone else writes. *)
LEMMA OutsideTypes ==
  ASSUME ObjectTypes, WorkerTypes, NEW n \in Namespaces, NEW m \in Monitor, Outside(n, m)
  PROVE  ObjectTypes' /\ WorkerTypes'
<1>1. ObjectTypes' BY PutMonitorTypes DEF Outside
<1>2. WorkerTypes' BY DEF Outside, WorkerTypes
<1>. QED BY <1>1, <1>2

LEMMA MonitorTypes ==
  ASSUME TypeOK, MonitorHeld \/ MonitorGone \/ UserMonitor
  PROVE  TypeOK'
<1>1. ObjectTypes /\ WorkerTypes /\ OtherTypes BY Types
<1>2. ASSUME NEW n \in Namespaces, NEW m \in Monitor, Outside(n, m), UNCHANGED <<queue, shared>>,
             missed' \subseteq Namespaces, budget' \in 0 .. Budget
      PROVE  TypeOK'
  <2>1. ObjectTypes' /\ WorkerTypes' BY <1>1, <1>2, OutsideTypes
  <2>. QED BY <1>1, <1>2, <2>1, TypesAfter DEF OtherTypes
<1>3. \A n \in Namespaces : mons[n] \in Monitor BY <1>1 DEF ObjectTypes
<1>4. budget \in 0 .. Budget /\ missed \subseteq Namespaces BY <1>1 DEF OtherTypes
<1>5. CASE MonitorHeld
  <2>1. PICK n \in Namespaces : Outside(n, [mons[n] EXCEPT !.held = TRUE])
    BY <1>5 DEF MonitorHeld
  <2>2. [mons[n] EXCEPT !.held = TRUE] \in Monitor BY <1>3, MonitorValues
  <2>. QED BY <1>2, <1>4, <1>5, <2>1, <2>2 DEF MonitorHeld, history
<1>6. CASE MonitorGone
  <2>1. PICK n \in Namespaces :
          /\ Outside(n, NoMonitor)
          /\ missed' = IF ing[n].enabled # "false" THEN missed \cup {n} ELSE missed
    BY <1>6 DEF MonitorGone
  <2>2. missed' \subseteq Namespaces /\ NoMonitor \in Monitor BY <1>4, <2>1, MonitorValues
  <2>. QED BY <1>2, <1>4, <1>6, <2>1, <2>2 DEF MonitorGone
<1>7. CASE UserMonitor
  <2>1. PICK n \in Namespaces :
          /\ \/ Outside(n, Deleted(mons[n]))
             \/ Outside(n, [NoMonitor EXCEPT !.phase = "live", !.rest = "a"])
          /\ missed' = missed \cup {n}
    BY <1>7 DEF UserMonitor
  <2>2. missed' \subseteq Namespaces BY <1>4, <2>1
  <2>3. budget' \in 0 .. Budget BY <1>4, <1>7, SpendTypes DEF UserMonitor
  <2>4. UNCHANGED <<queue, shared>> BY <1>7 DEF UserMonitor
  <2>5. Deleted(mons[n]) \in Monitor BY <1>3, MonitorValues
  <2>. QED BY <1>2, <2>1, <2>2, <2>3, <2>4, <2>5, MonitorValues
<1>. QED BY <1>5, <1>6, <1>7

LEMMA UserIngressTypes ==
  ASSUME TypeOK, NEW n \in Namespaces, NEW i \in Ingress, UserIngress(n, i), budget' \in 0 .. Budget
  PROVE  TypeOK'
<1>1. ObjectTypes /\ WorkerTypes /\ OtherTypes BY Types
<1>2. ObjectTypes' BY <1>1, PutIngressTypes DEF UserIngress
<1>3. cur' \in BOOLEAN /\ shared' \in BOOLEAN
  <2>1. /\ cur' = (cur /\ key # n)
        /\ shared' = (shared \/ (i # NoIngress /\ \E m \in Namespaces \ {n} : ing[m] # NoIngress \/ mons[m] # NoMonitor))
    BY DEF UserIngress
  <2>. QED BY <2>1, Zenon
<1>4. WorkerTypes' BY <1>1, <1>3 DEF UserIngress, WorkerTypes
<1>5. OtherTypes' BY <1>1, <1>3 DEF UserIngress, OtherTypes
<1>. QED BY <1>2, <1>4, <1>5, TypesAfter

LEMMA UserTypes ==
  ASSUME TypeOK, EditIngress \/ CreateIngress \/ DeleteIngress
  PROVE  TypeOK'
<1>1. budget \in 0 .. Budget /\ \A n \in Namespaces : ing[n] \in Ingress BY DEF TypeOK
<1>2. budget' \in 0 .. Budget BY <1>1, SpendTypes DEF EditIngress, CreateIngress, DeleteIngress
<1>3. \E n \in Namespaces, i \in Ingress : UserIngress(n, i)
  <2>1. CASE EditIngress BY <1>1, <2>1, IngressValues DEF EditIngress
  <2>2. CASE CreateIngress BY <2>2, IngressValues DEF CreateIngress
  <2>3. CASE DeleteIngress BY <1>1, <2>3, IngressValues DEF DeleteIngress
  <2>. QED BY <2>1, <2>2, <2>3
<1>. QED BY <1>2, <1>3, UserIngressTypes

LEMMA RestTypes ==
  ASSUME TypeOK, Fault \/ DeliverIngress \/ DeliverMonitor \/ Restart \/ UNCHANGED vars
  PROVE  TypeOK'
<1>1. ObjectTypes /\ WorkerTypes /\ OtherTypes BY Types
<1>2. CASE Fault
  <2>1. ObjectTypes' BY <1>1, <1>2 DEF Fault, objects, ObjectTypes, Objects
  <2>2. WorkerTypes' /\ queue' \subseteq Namespaces BY <1>1, <1>2, ReturnTypes DEF Fault, OtherTypes
  <2>3. budget' \in 0 .. Budget BY <1>1, <1>2, SpendTypes DEF Fault, OtherTypes
  <2>. QED BY <1>1, <1>2, <2>1, <2>2, <2>3, TypesAfter DEF Fault, history, OtherTypes
<1>3. CASE DeliverIngress
  <2>1. PICK n \in Namespaces :
          /\ synced' = synced \cup {Ing(n)} /\ icache' = [icache EXCEPT ![n] = ing[n]]
          /\ queue' \in {queue \cup {n}, queue}
    BY <1>3 DEF DeliverIngress
  <2>2. UNCHANGED <<ing, mons, mcache, pc, key, copy, cur, list, lcur, spent, budget, shared, missed>>
    BY <1>3 DEF DeliverIngress, worker, history
  <2>3. ObjectTypes' BY <1>1, <2>1, <2>2 DEF ObjectTypes, Objects
  <2>4. WorkerTypes' /\ OtherTypes' BY <1>1, <2>1, <2>2 DEF WorkerTypes, OtherTypes
  <2>. QED BY <2>3, <2>4, TypesAfter
<1>4. CASE DeliverMonitor
  <2>1. PICK n \in Namespaces :
          synced' = synced \cup {Mon(n)} /\ mcache' = [mcache EXCEPT ![n] = mons[n]]
    BY <1>4 DEF DeliverMonitor
  <2>2. UNCHANGED <<ing, icache, mons, queue, pc, key, copy, cur, list, lcur, spent, budget, shared, missed>>
    BY <1>4 DEF DeliverMonitor, worker, history
  <2>3. ObjectTypes' BY <1>1, <2>1, <2>2 DEF ObjectTypes, Objects
  <2>4. WorkerTypes' /\ OtherTypes' BY <1>1, <2>1, <2>2 DEF WorkerTypes, OtherTypes
  <2>. QED BY <2>3, <2>4, TypesAfter
<1>5. CASE Restart
  <2>1. ObjectTypes' BY <1>1, <1>5 DEF Restart, ObjectTypes, Objects
  <2>2. WorkerTypes' BY <1>1, <1>5, IngressValues DEF Restart, WorkerTypes
  <2>3. budget' \in 0 .. Budget BY <1>1, <1>5, SpendTypes DEF Restart, OtherTypes
  <2>4. OtherTypes' BY <1>1, <1>5, <2>3 DEF Restart, history, OtherTypes
  <2>. QED BY <2>1, <2>2, <2>4, TypesAfter
<1>6. CASE UNCHANGED vars
  <2>1. ObjectTypes' BY <1>1, <1>6 DEF vars, objects, ObjectTypes, Objects
  <2>2. WorkerTypes' /\ OtherTypes' BY <1>1, <1>6 DEF vars, worker, history, WorkerTypes, OtherTypes
  <2>. QED BY <2>1, <2>2, TypesAfter
<1>. QED BY <1>2, <1>3, <1>4, <1>5, <1>6

LEMMA InitTypes == Init => TypeOK
<1>. SUFFICES ASSUME Init PROVE TypeOK OBVIOUS
<1>1. PICK n \in Namespaces, old \in BOOLEAN :
        /\ ing = [m \in Namespaces |-> IF m # n THEN NoIngress ELSE
                   [NoIngress EXCEPT !.phase = "live", !.enabled = "true", !.fin = old]]
        /\ mons = [m \in Namespaces |-> IF m # n \/ ~old THEN NoMonitor ELSE
                   [NoMonitor EXCEPT !.phase = "live", !.held = TRUE, !.mine = TRUE, !.url = "rule"]]
  BY DEF Init
<1>2. ing \in [Namespaces -> Ingress] /\ mons \in [Namespaces -> Monitor]
  BY <1>1, IngressValues, MonitorValues
<1>3. ObjectTypes BY <1>2 DEF Init, ObjectTypes, Objects
<1>4. WorkerTypes BY IngressValues DEF Init, WorkerTypes
<1>5. OtherTypes
  <2>1. queue = {m \in Namespaces : ing[m] # NoIngress} /\ budget = Budget /\ shared = FALSE /\ missed = {}
    BY DEF Init
  <2>2. queue \subseteq Namespaces BY <2>1
  <2>3. budget \in 0 .. Budget BY <2>1, BudgetAssumption
  <2>4. missed \subseteq Namespaces /\ shared \in BOOLEAN BY <2>1
  <2>. QED BY <2>2, <2>3, <2>4 DEF OtherTypes
<1>. QED BY <1>3, <1>4, <1>5, Types

LEMMA NextTypes == TypeOK /\ [Next]_vars => TypeOK'
<1>. SUFFICES ASSUME TypeOK, [Next]_vars PROVE TypeOK' OBVIOUS
<1>. QED
  BY BeginTypes, DeleteTypes, UpdateTypes, CreateTypes, FinalizerTypes, MonitorTypes, UserTypes, RestTypes
     DEF Next, Take, Step

(* Every variable keeps its type: in particular no annotation the decoder  *)
(* refuses gets into a Monitor, and a copy that has the server's version   *)
(* is one the worker has still to go through.                              *)
THEOREM TypesHold == Spec => []TypeOK
BY InitTypes, NextTypes, PTL DEF Spec
=============================================================================
