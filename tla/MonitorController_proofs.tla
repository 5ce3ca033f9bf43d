----------------------- MODULE MonitorController_proofs -----------------------
(***************************************************************************)
(* Theorems about MonitorController for every set of resources, every      *)
(* account and every budget: its variables keep their types, and a         *)
(* resource under deletion disappears only when that is justified.         *)
(***************************************************************************)
EXTENDS MonitorController, TLAPS

(***************************************************************************)
(* What the operations of the client return.                               *)
(***************************************************************************)
LEMMA ByFaultType ==
  ASSUME NEW S, S \subseteq Outcomes
  PROVE  ByFault(S) \subseteq Outcomes
BY DEF ByFault, Outcomes

LEMMA OutcomeType ==
  ASSUME NEW r \in Account, NEW i \in AnyId
  PROVE  Ok(r, i) \in Outcomes /\ Err(r) \in Outcomes
         /\ Outcome(r, "notFound", NoId) \in Outcomes
BY DEF Ok, Err, Outcome, Outcomes, AnyId

LEMMA LiveIsId ==
  ASSUME NEW r, NEW i, Live(r, i)
  PROVE  i \in Ids /\ i \in AnyId
BY DEF Live, AnyId

(* POST with a free identifier makes one monitor. *)
LEMMA PostType ==
  ASSUME NEW r \in Account, NEW n \in Names, NEW ty \in Types, Free(r) # {}
  PROVE  NextId(r) \in AnyId /\ Post(r, NextId(r), n, ty) \in Account
<1>1. NextId(r) \in Ids
  BY DEF NextId, Free
<1>2. [state |-> "live", name |-> n, type |-> ty, paused |-> FALSE] \in RemoteMonitor
  BY DEF RemoteMonitor
<1>3. QED
  BY <1>1, <1>2 DEF Post, Account, AnyId

LEMMA GoneType ==
  ASSUME NEW r \in Account, NEW i \in Ids
  PROVE  Gone(r, i) \in Account /\ ~Live(Gone(r, i), i)
<1>1. [r[i] EXCEPT !.state = "gone"] \in RemoteMonitor
  BY DEF Account, RemoteMonitor
<1>2. Gone(r, i) = [r EXCEPT ![i] = [r[i] EXCEPT !.state = "gone"]]
  BY DEF Gone
<1>3. QED
  BY <1>1, <1>2 DEF Account, RemoteMonitor, Live

LEMMA RenamedType ==
  ASSUME NEW r \in Account, NEW i \in Ids, NEW n \in Names
  PROVE  [r EXCEPT ![i].name = n] \in Account
<1>1. [r[i] EXCEPT !.name = n] \in RemoteMonitor
  BY DEF Account, RemoteMonitor
<1>2. QED
  BY <1>1 DEF Account

LEMMA PausedType ==
  ASSUME NEW r \in Account, NEW i \in Ids, NEW p \in BOOLEAN
  PROVE  [r EXCEPT ![i].paused = p] \in Account
<1>1. [r[i] EXCEPT !.paused = p] \in RemoteMonitor
  BY DEF Account, RemoteMonitor
<1>2. QED
  BY <1>1 DEF Account

LEMMA PostOnceType ==
  ASSUME NEW r \in Account, NEW n \in Names, NEW ty \in Types
  PROVE  PostOnce(r, n, ty) \subseteq Outcomes
<1>1. Resolve409(r, n) \subseteq Outcomes
  BY OutcomeType DEF Resolve409, SameName, AnyId
<1>2. Err(r) \in Outcomes
  BY OutcomeType DEF AnyId
<1>3. CASE Free(r) # {}
  BY <1>1, <1>2, <1>3, PostType, OutcomeType DEF PostOnce
<1>4. QED
  BY <1>1, <1>2, <1>3 DEF PostOnce

LEMMA CreateMonitorType ==
  ASSUME NEW r \in Account, NEW n \in Names, NEW ty \in Types
  PROVE  CreateMonitor(r, n, ty) \subseteq Outcomes
<1> DEFINE once == PostOnce(r, n, ty)
           lost == {o.remote : o \in {p \in once : p.res = "ok"}}
           again == {Err(r)} \cup {Err(s) : s \in lost}
                      \cup UNION {PostOnce(s, n, ty) : s \in lost}
<1>1. once \subseteq Outcomes
  BY PostOnceType
<1>2. lost \subseteq Account
  BY <1>1 DEF Outcomes
<1>3. \A s \in lost : Err(s) \in Outcomes /\ PostOnce(s, n, ty) \subseteq Outcomes
  <2> HIDE DEF lost
  <2> QED BY <1>2, PostOnceType, OutcomeType DEF AnyId
<1>4. again \subseteq Outcomes
  <2>1. Err(r) \in Outcomes
    BY OutcomeType DEF AnyId
  <2> HIDE DEF lost
  <2> QED BY <1>3, <2>1
<1>5. ByFault(again) \subseteq Outcomes
  <2> HIDE DEF again
  <2> QED BY <1>4, ByFaultType
<1>6. CreateMonitor(r, n, ty) = once \cup ByFault(again)
  BY DEF CreateMonitor
<1> HIDE DEF once, again
<1>7. QED
  BY <1>1, <1>5, <1>6

LEMMA GetMonitorType ==
  ASSUME NEW r \in Account, NEW i \in AnyId
  PROVE  GetMonitor(r, i) \subseteq Outcomes
BY OutcomeType, ByFaultType DEF GetMonitor, Misread

(* A successful DeleteMonitor leaves no monitor of that identifier, unless *)
(* an error was misread.                                                   *)
LEMMA DeleteMonitorType ==
  ASSUME NEW r \in Account, NEW i \in AnyId, NEW o \in DeleteMonitor(r, i)
  PROVE  o \in Outcomes /\ (o.res = "ok" => ~Live(o.remote, i) \/ i \in Confusable)
<1>1. CASE Live(r, i)
  <2> DEFINE failed == {Err(r), Err(Gone(r, i))}
  <2>1. Gone(r, i) \in Account /\ ~Live(Gone(r, i), i)
    BY <1>1, LiveIsId, GoneType
  <2>2. failed \subseteq Outcomes
    BY <2>1, OutcomeType
  <2>3. \/ o = Ok(Gone(r, i), i) \/ o \in ByFault(failed)
        \/ i \in Confusable /\ o \in ByFault({Ok(r, i)})
    BY <1>1 DEF DeleteMonitor, Misread
  <2>4. CASE o = Ok(Gone(r, i), i)
    BY <2>1, <2>4, OutcomeType DEF Ok, Outcome
  <2>5. CASE o \in ByFault(failed)
    <3>1. o.res = "err"
      BY <2>5 DEF ByFault, Err, Outcome
    <3>2. QED
      BY <2>2, <2>5, <3>1, ByFaultType
  <2>6. CASE i \in Confusable /\ o \in ByFault({Ok(r, i)})
    <3>1. {Ok(r, i)} \subseteq Outcomes
      BY OutcomeType
    <3>2. QED
      BY <2>6, <3>1, ByFaultType
  <2>7. QED
    BY <2>3, <2>4, <2>5, <2>6
<1>2. CASE ~Live(r, i)
  <2>1. o = Ok(r, NoId) \/ o \in ByFault({Err(r)})
    BY <1>2 DEF DeleteMonitor
  <2>2. CASE o = Ok(r, NoId)
    BY <1>2, <2>2, OutcomeType DEF Ok, Outcome, AnyId
  <2>3. CASE o \in ByFault({Err(r)})
    <3>1. o.res = "err"
      BY <2>3 DEF ByFault, Err, Outcome
    <3>2. {Err(r)} \subseteq Outcomes
      BY OutcomeType
    <3>3. QED
      BY <2>3, <3>1, <3>2, ByFaultType
  <2>4. QED
    BY <2>1, <2>2, <2>3
<1>3. QED
  BY <1>1, <1>2

LEMMA EditMonitorType ==
  ASSUME NEW r \in Account, NEW i \in AnyId, NEW n \in Names, NEW ty \in Types
  PROVE  EditMonitor(r, i, n, ty) \subseteq Outcomes
<1>1. Recreate(r, i, n, ty) \subseteq Outcomes
  BY CreateMonitorType, ByFaultType DEF Recreate, Misread
<1>2. Live(r, i) => [r EXCEPT ![i].name = n] \in Account
  BY LiveIsId, RenamedType
<1>3. {Err(r)} \cup (IF Live(r, i) THEN {Err([r EXCEPT ![i].name = n])} ELSE {})
        \subseteq Outcomes
  BY <1>2, OutcomeType
<1>4. QED
  BY <1>1, <1>2, <1>3, ByFaultType, OutcomeType DEF EditMonitor

LEMMA SetPausedType ==
  ASSUME NEW r \in Account, NEW i \in AnyId, NEW p \in BOOLEAN
  PROVE  SetPaused(r, i, p) \subseteq Outcomes
<1> DEFINE done == [r EXCEPT ![i].paused = p]
<1>1. Live(r, i) => done \in Account
  BY LiveIsId, PausedType
<1>2. Live(r, i) => {Err(r), Err(done)} \subseteq Outcomes /\ Ok(done, i) \in Outcomes
  <2> HIDE DEF done
  <2> QED BY <1>1, OutcomeType
<1>3. SetPaused(r, i, p) = IF Live(r, i) THEN {Ok(done, i)} \cup ByFault({Err(r), Err(done)})
                                         ELSE {Err(r)}
  BY DEF SetPaused
<1> HIDE DEF done
<1>4. QED
  BY <1>2, <1>3, ByFaultType, OutcomeType
-----------------------------------------------------------------------------
(***************************************************************************)
(* Type correctness.                                                       *)
(***************************************************************************)
LEMMA BlankType ==
  Blank \in Resource /\ NoStatus \in Status /\ SomeMonitor \in Monitors
  /\ SomeName \in Names /\ SomeType \in Types
<1>1. SomeMonitor \in Monitors /\ SomeName \in Names /\ SomeType \in Types
  BY MonitorsAssumption, NonEmptyAssumption DEF SomeMonitor, SomeName, SomeType
<1>2. NoStatus \in Status
  BY DEF NoStatus, Status, AnyId
<1>3. Blank \in Resource
  BY <1>1, <1>2 DEF Blank, New, Resource, AnyId
<1>4. QED
  BY <1>1, <1>2, <1>3

LEMMA NewType ==
  ASSUME NEW ty \in Types, NEW p \in BOOLEAN, NEW pr \in BOOLEAN, NEW a \in AnyId
  PROVE  New(ty, p, pr, a) \in Resource
BY BlankType DEF New, Resource

LEMMA WriteType ==
  ASSUME TypeOK, NEW m \in Monitors, NEW c \in Resource, Write(m, c)
  PROVE  cr' \in [Monitors -> Resource] /\ synced' \subseteq Monitors
BY DEF Write, TypeOK

LEMMA ReturnType ==
  ASSUME TypeOK, NEW exit \in Exits, Return(exit)
  PROVE  /\ pc' \in Calls \cup {"idle"} /\ key' \in Monitors /\ obj' \in Resource
         /\ cur' \in BOOLEAN /\ rid' \in AnyId /\ missing' \in BOOLEAN
         /\ then' \in Calls \cup Exits /\ spared' \in BOOLEAN /\ stale' \in BOOLEAN
         /\ queue' \subseteq Monitors
BY BlankType DEF Return, TypeOK, AnyId, Exits

LEMMA ReportType ==
  ASSUME TypeOK, NEW st \in Status, NEW next \in Calls \cup Exits, Report(st, next)
  PROVE  obj' \in Resource /\ pc' \in Calls \cup {"idle"} /\ then' \in Calls \cup Exits
BY DEF Report, TypeOK, Resource, Calls

LEMMA BudgetType ==
  ASSUME TypeOK
  PROVE  /\ Spend => budget' \in 0 .. Budget
         /\ \A o : Paying(o) => budget' \in 0 .. Budget
BY BudgetAssumption DEF Spend, Paying, TypeOK

LEMMA NotOkType ==
  ASSUME NEW st \in Status
  PROVE  NotOk(st) \in Status /\ NotReady(st) \in Status
BY DEF NotOk, NotReady, Status

LEMMA BranchType ==
  ASSUME NEW c \in Resource
  PROVE  SyncBranch(c) \in Calls /\ AfterFinalizer(c) \in Calls
BY DEF SyncBranch, AfterFinalizer, Calls

LEMMA InitType == Init => TypeOK
<1> SUFFICES ASSUME Init PROVE TypeOK
  OBVIOUS
<1>1. cr \in [Monitors -> Resource] /\ cache \in [Monitors -> Resource]
  BY BlankType DEF Init
<1>2. remote \in Account
  <2>1. PICK n \in Names, ty \in Types :
          remote = [i \in Ids |-> [state |-> IF i \in Foreign THEN "live" ELSE "free",
                                   name |-> IF i \in Foreign THEN n ELSE SomeName,
                                   type |-> IF i \in Foreign THEN ty ELSE SomeType,
                                   paused |-> FALSE]]
    BY DEF Init
  <2>2. QED
    BY <2>1, BlankType DEF Account, RemoteMonitor
<1>3. budget \in 0 .. Budget /\ pc \in Calls \cup {"idle"} /\ then \in Calls \cup Exits
  BY BudgetAssumption DEF Init, Exits
<1>4. /\ synced \subseteq Monitors /\ late \subseteq Monitors /\ queue \subseteq Monitors
      /\ key \in Monitors /\ obj \in Resource /\ rid \in AnyId
  BY BlankType DEF Init, AnyId
<1>5. /\ account \in BOOLEAN /\ cur \in BOOLEAN /\ missing \in BOOLEAN
      /\ spared \in BOOLEAN /\ stale \in BOOLEAN
  BY DEF Init
<1>6. QED
  BY <1>1, <1>2, <1>3, <1>4, <1>5 DEF TypeOK

LEMMA BeginType ==
  ASSUME TypeOK, NEW m \in Monitors, Begin(m)
  PROVE  TypeOK'
<1>1. cache[m] \in Resource /\ cache[m].st \in Status
  BY DEF TypeOK, Resource
<1>2. [cache[m] EXCEPT !.st = NotReady(cache[m].st)] \in Resource
  BY <1>1, NotOkType DEF Resource
<1>3. AfterFinalizer(cache[m]) \in Calls
  BY <1>1, BranchType
<1>4. cur' \in BOOLEAN /\ stale' \in BOOLEAN
  <2>1. CASE cache[m].phase = "absent"
    <3>1. cur' = cur /\ stale' = stale
      BY <2>1, Zenon DEF Begin
    <3>2. QED
      BY <3>1 DEF TypeOK
  <2>2. CASE cache[m].phase # "absent"
    <3>1. cur' = (m \in synced) /\ stale' = (cache[m].st # cr[m].st)
      BY <2>2 DEF Begin
    <3>2. QED
      BY <3>1
  <2>3. QED
    BY <2>1, <2>2
<1>5. pc' \in Calls \cup {"idle"} /\ then' \in Calls \cup Exits /\ obj' \in Resource
  BY <1>1, <1>2, <1>3 DEF Begin, TypeOK, Calls, Exits
<1>6. key' \in Monitors /\ queue' \subseteq Monitors
  BY DEF Begin, TypeOK
<1>7. QED
  BY <1>4, <1>5, <1>6 DEF Begin, TypeOK

LEMMA AddFinalizerType ==
  ASSUME TypeOK, AddFinalizer
  PROVE  TypeOK'
<1> DEFINE c == [obj EXCEPT !.fin = TRUE, !.st = cr[key].st]
<1>1. c \in Resource
  BY DEF TypeOK, Resource
<1>2. CASE cur
  <2> HIDE DEF c
  <2>1. Write(key, c) /\ obj' = c /\ pc' = AfterFinalizer(c)
    BY <1>2 DEF AddFinalizer, c
  <2>2. AfterFinalizer(c) \in Calls
    BY <1>1, BranchType
  <2>3. cr' \in [Monitors -> Resource] /\ synced' \subseteq Monitors
    BY <1>1, <2>1, WriteType DEF TypeOK
  <2>4. QED
    BY <1>1, <1>2, <2>1, <2>2, <2>3 DEF AddFinalizer, TypeOK
<1>3. CASE ~cur
  <2>1. Return("retry") /\ UNCHANGED <<cr, synced, cache, remote, account, late, budget>>
    BY <1>3 DEF AddFinalizer
  <2>2. QED
    BY <2>1, ReturnType DEF TypeOK, Exits
<1>4. QED
  BY <1>2, <1>3 DEF TypeOK

LEMMA DependencyMissingType ==
  ASSUME TypeOK, DependencyMissing
  PROVE  TypeOK'
BY ReturnType, BudgetType DEF DependencyMissing, TypeOK, Exits

LEMMA StatusWrittenType ==
  ASSUME TypeOK, StatusWritten
  PROVE  TypeOK'
<1>1. [cr[key] EXCEPT !.st = obj.st] \in Resource
  BY DEF TypeOK, Resource
<1>2. cr' \in [Monitors -> Resource] /\ synced' \subseteq Monitors
  BY <1>1, WriteType DEF StatusWritten, TypeOK
<1>3. CASE then \in Exits
  BY <1>2, <1>3, ReturnType DEF StatusWritten, TypeOK
<1>4. CASE then \notin Exits
  BY <1>2, <1>4 DEF StatusWritten, TypeOK, Exits
<1>5. QED
  BY <1>3, <1>4

LEMMA StatusLostType ==
  ASSUME TypeOK, StatusLost
  PROVE  TypeOK'
BY ReturnType, BudgetType DEF StatusLost, TypeOK, Exits

LEMMA TrackType ==
  ASSUME TypeOK, Track
  PROVE  TypeOK'
<1>1. [cr[key] EXCEPT !.tracked = TRUE] \in Resource
  BY DEF TypeOK, Resource
<1>2. CASE obj.tracked \/ cache[key].tracked
  BY <1>2 DEF Track, TypeOK, Calls
<1>3. CASE ~(obj.tracked \/ cache[key].tracked) /\ key \in synced /\ cr[key].phase # "absent"
  BY <1>1, <1>3, WriteType DEF Track, TypeOK, Calls
<1>4. CASE ~(obj.tracked \/ cache[key].tracked) /\ ~(key \in synced /\ cr[key].phase # "absent")
  BY <1>4, ReturnType DEF Track, TypeOK, Exits
<1>5. QED
  BY <1>2, <1>3, <1>4

LEMMA CleanupType ==
  ASSUME TypeOK, Cleanup
  PROVE  TypeOK'
<1>1. CASE cache[key].phase = "absent"
  BY <1>1, ReturnType DEF Cleanup, TypeOK, Exits
<1>2. CASE cache[key].phase # "absent"
  BY <1>2 DEF Cleanup, Adopter, TypeOK, Resource, Status, Calls
<1>3. QED
  BY <1>1, <1>2

LEMMA CleanupDeleteType ==
  ASSUME TypeOK, CleanupDelete
  PROVE  TypeOK'
<1>1. obj.st \in Status /\ obj.st.id \in AnyId
  BY DEF TypeOK, Resource, Status
<1>2. PICK o \in DeleteMonitor(remote, obj.st.id) :
        /\ remote' = o.remote /\ Paying(o)
        /\ Report(obj.st, IF o.res = "ok" THEN "unfinalize" ELSE "done")
  BY DEF CleanupDelete
<1>3. remote' \in Account
  BY <1>1, <1>2, DeleteMonitorType DEF TypeOK, Outcomes
<1>4. obj' \in Resource /\ pc' \in Calls \cup {"idle"} /\ then' \in Calls \cup Exits
  BY <1>1, <1>2, ReportType DEF Calls, Exits
<1>5. QED
  BY <1>2, <1>3, <1>4, BudgetType DEF CleanupDelete, TypeOK

LEMMA RemoveFinalizerType ==
  ASSUME TypeOK, RemoveFinalizer
  PROVE  TypeOK'
<1>1. CASE cur
  <2>1. Unfinalized(obj) \in Resource
    BY BlankType DEF Unfinalized, TypeOK, Resource
  <2>2. QED
    BY <1>1, <2>1, WriteType, ReturnType DEF RemoveFinalizer, TypeOK, Exits
<1>2. CASE ~cur
  BY <1>2, ReturnType DEF RemoveFinalizer, TypeOK, Exits
<1>3. QED
  BY <1>1, <1>2 DEF TypeOK

LEMMA RetypeType ==
  ASSUME TypeOK, Retype
  PROVE  TypeOK'
<1> DEFINE c == [obj EXCEPT !.st.ready = FALSE, !.st.id = NoId]
<1>1. obj.st \in Status /\ obj.st.id \in AnyId
  BY DEF TypeOK, Resource, Status
<1>2. c \in Resource
  BY DEF TypeOK, Resource, Status, AnyId
<1>3. PICK o \in DeleteMonitor(remote, obj.st.id) :
        /\ remote' = o.remote /\ Paying(o)
        /\ IF o.res = "ok" THEN obj' = c /\ pc' = SyncBranch(c) /\ UNCHANGED then
                           ELSE Report(NotOk(obj.st), "retry")
  BY DEF Retype
<1> HIDE DEF c
<1>4. remote' \in Account
  BY <1>1, <1>3, DeleteMonitorType DEF TypeOK, Outcomes
<1>5. obj' \in Resource /\ pc' \in Calls \cup {"idle"} /\ then' \in Calls \cup Exits
  <2>1. CASE o.res = "ok"
    BY <1>2, <1>3, <2>1, BranchType DEF TypeOK
  <2>2. CASE o.res # "ok"
    BY <1>1, <1>3, <2>2, NotOkType, ReportType DEF Exits
  <2>3. QED
    BY <2>1, <2>2
<1>6. QED
  BY <1>3, <1>4, <1>5, BudgetType DEF Retype, TypeOK

LEMMA SpecType ==
  ASSUME TypeOK
  PROVE  /\ NameOf[key] \in Names /\ obj.type \in Types /\ obj.paused \in BOOLEAN
         /\ obj.adopt \in AnyId /\ obj.st \in Status /\ obj.st.id \in AnyId /\ rid \in AnyId
BY MonitorsAssumption DEF TypeOK, Resource, Status

LEMMA CreateType ==
  ASSUME TypeOK, Create
  PROVE  TypeOK'
<1>1. PICK o \in CreateMonitor(remote, NameOf[key], obj.type) :
        /\ remote' = o.remote /\ Paying(o)
        /\ IF o.res # "ok" THEN Report(NotReady(obj.st), "retry") /\ UNCHANGED rid
           ELSE LET st == [obj.st EXCEPT !.ready = TRUE, !.id = o.id, !.type = obj.type] IN
                /\ rid' = o.id
                /\ IF obj.paused
                   THEN /\ obj' = [obj EXCEPT !.st = st] /\ pc' = "createPause"
                        /\ UNCHANGED then
                   ELSE Report([st EXCEPT !.paused = FALSE], "publish")
  BY DEF Create
<1>2. o \in Outcomes
  BY <1>1, CreateMonitorType, SpecType DEF TypeOK
<1>3. remote' \in Account /\ o.id \in AnyId
  BY <1>1, <1>2 DEF Outcomes
<1> DEFINE st == [obj.st EXCEPT !.ready = TRUE, !.id = o.id, !.type = obj.type]
<1>4. /\ st \in Status /\ [st EXCEPT !.paused = FALSE] \in Status
      /\ [obj EXCEPT !.st = st] \in Resource
  BY <1>3, SpecType DEF Status, TypeOK, Resource
<1>5. /\ obj' \in Resource /\ pc' \in Calls \cup {"idle"} /\ then' \in Calls \cup Exits
      /\ rid' \in AnyId
  <2>1. CASE o.res # "ok"
    BY <1>1, <2>1, NotOkType, SpecType, ReportType DEF Exits
  <2>2. CASE o.res = "ok" /\ obj.paused
    BY <1>1, <1>3, <1>4, <2>2 DEF TypeOK, Calls
  <2>3. CASE o.res = "ok" /\ ~obj.paused
    <3> HIDE DEF st
    <3>1. Report([st EXCEPT !.paused = FALSE], "publish") /\ rid' = o.id
      BY <1>1, <2>3 DEF st
    <3>2. QED
      BY <1>3, <1>4, <3>1, ReportType DEF Calls
  <2>4. QED
    BY <2>1, <2>2, <2>3
<1>6. QED
  BY <1>1, <1>3, <1>5, BudgetType DEF Create, TypeOK

LEMMA PauseResultType ==
  ASSUME TypeOK, NEW done \in Status, NEW failed \in Status, PauseResult(done, failed)
  PROVE  TypeOK'
<1>1. PICK o \in SetPaused(remote, rid, TRUE) :
        /\ remote' = o.remote /\ Paying(o)
        /\ IF o.res = "ok" THEN Report(done, "publish") ELSE Report(failed, "retry")
  BY DEF PauseResult
<1>2. remote' \in Account
  BY <1>1, SetPausedType DEF TypeOK, Outcomes
<1>3. obj' \in Resource /\ pc' \in Calls \cup {"idle"} /\ then' \in Calls \cup Exits
  BY <1>1, ReportType DEF Calls, Exits
<1>4. QED
  BY <1>1, <1>2, <1>3, BudgetType DEF PauseResult, TypeOK

LEMMA SyncedAsType ==
  ASSUME TypeOK, NEW i \in AnyId
  PROVE  SyncedAs(i) \in Status
BY SpecType DEF SyncedAs, Status

LEMMA EditResultType ==
  ASSUME TypeOK, NEW pausing \in Calls \cup {"none"}, NEW failed \in Status,
         EditResult(pausing, failed)
  PROVE  TypeOK'
<1>1. PICK o \in EditMonitor(remote, obj.st.id, NameOf[key], obj.type) :
        /\ remote' = o.remote /\ Paying(o)
        /\ IF o.res # "ok" THEN Report(failed, "retry") /\ UNCHANGED rid
           ELSE /\ rid' = o.id
                /\ IF pausing # "none" THEN pc' = pausing /\ UNCHANGED <<obj, then>>
                                       ELSE Report(SyncedAs(o.id), "publish")
  BY DEF EditResult
<1>2. o \in Outcomes
  BY <1>1, EditMonitorType, SpecType DEF TypeOK
<1>3. remote' \in Account /\ o.id \in AnyId
  BY <1>1, <1>2 DEF Outcomes
<1>4. /\ obj' \in Resource /\ pc' \in Calls \cup {"idle"} /\ then' \in Calls \cup Exits
      /\ rid' \in AnyId
  <2>1. CASE o.res # "ok"
    BY <1>1, <2>1, ReportType DEF Exits, TypeOK
  <2>2. CASE o.res = "ok" /\ pausing # "none"
    BY <1>1, <1>3, <2>2 DEF TypeOK
  <2>3. CASE o.res = "ok" /\ pausing = "none"
    BY <1>1, <1>3, <2>3, SyncedAsType, ReportType DEF Calls
  <2>4. QED
    BY <2>1, <2>2, <2>3
<1>5. QED
  BY <1>1, <1>3, <1>4, BudgetType DEF EditResult, TypeOK

LEMMA PauseStepsType ==
  ASSUME TypeOK, CreatePause \/ AdoptPause \/ RePause
  PROVE  TypeOK'
<1>1. /\ [obj.st EXCEPT !.paused = TRUE] \in Status
      /\ [NotReady(obj.st) EXCEPT !.paused = FALSE] \in Status
      /\ [NotOk(obj.st) EXCEPT !.paused = FALSE] \in Status
  BY SpecType DEF NotReady, NotOk, Status
<1>2. SyncedAs(rid) \in Status
  BY SpecType, SyncedAsType
<1>3. CASE CreatePause
  BY <1>1, <1>3, PauseResultType DEF CreatePause
<1>4. CASE AdoptPause
  BY <1>1, <1>2, <1>4, PauseResultType DEF AdoptPause
<1>5. CASE RePause
  BY <1>1, <1>2, <1>5, PauseResultType DEF RePause
<1>6. QED
  BY <1>3, <1>4, <1>5

LEMMA EditStepsType ==
  ASSUME TypeOK, AdoptEdit \/ Edit
  PROVE  TypeOK'
<1>1. NotReady(obj.st) \in Status /\ NotOk(obj.st) \in Status
  BY SpecType, NotOkType
<1>2. CASE AdoptEdit
  BY <1>1, <1>2, EditResultType DEF AdoptEdit, Calls
<1>3. CASE Edit
  BY <1>1, <1>3, EditResultType DEF Edit, Calls
<1>4. QED
  BY <1>2, <1>3

LEMMA AdoptGetType ==
  ASSUME TypeOK, AdoptGet
  PROVE  TypeOK'
<1>1. /\ [obj.st EXCEPT !.ready = TRUE, !.id = obj.adopt, !.type = obj.type,
                        !.paused = obj.paused] \in Status
      /\ NotReady(obj.st) \in Status
  BY SpecType, NotOkType DEF Status
<1>2. obj' \in Resource /\ pc' \in Calls \cup {"idle"} /\ then' \in Calls \cup Exits
  BY <1>1, ReportType DEF AdoptGet, Calls, Exits
<1>3. budget' \in 0 .. Budget
  BY BudgetType DEF AdoptGet
<1>4. QED
  BY <1>2, <1>3 DEF AdoptGet, TypeOK

LEMMA GetType ==
  ASSUME TypeOK, Get
  PROVE  TypeOK'
<1>1. PICK o \in GetMonitor(remote, obj.st.id) :
        /\ Paying(o)
        /\ missing' = (o.res = "notFound")
        /\ IF o.res = "err" THEN Report(NotOk(obj.st), "retry")
           ELSE /\ pc' = IF o.res = "ok" /\ remote[obj.st.id].paused # obj.paused
                         THEN "drift" ELSE "edit"
                /\ UNCHANGED <<obj, then>>
  BY DEF Get
<1>2. missing' \in BOOLEAN
  BY <1>1
<1>3. obj' \in Resource /\ pc' \in Calls \cup {"idle"} /\ then' \in Calls \cup Exits
  <2>1. CASE o.res = "err"
    BY <1>1, <2>1, SpecType, NotOkType, ReportType DEF Exits
  <2>2. CASE o.res # "err"
    BY <1>1, <2>2 DEF TypeOK, Calls
  <2>3. QED
    BY <2>1, <2>2
<1>4. QED
  BY <1>1, <1>2, <1>3, BudgetType DEF Get, TypeOK

LEMMA CorrectDriftType ==
  ASSUME TypeOK, CorrectDrift
  PROVE  TypeOK'
<1>1. PICK o \in SetPaused(remote, obj.st.id, obj.paused) :
        /\ remote' = o.remote /\ Paying(o)
        /\ IF o.res = "ok" THEN Report([obj.st EXCEPT !.paused = obj.paused], "edit")
           ELSE Report([NotOk(obj.st) EXCEPT !.paused = ~obj.paused], "retry")
  BY DEF CorrectDrift
<1>2. /\ [obj.st EXCEPT !.paused = obj.paused] \in Status
      /\ [NotOk(obj.st) EXCEPT !.paused = ~obj.paused] \in Status
  BY SpecType DEF NotOk, Status
<1>3. remote' \in Account
  BY <1>1, SpecType, SetPausedType DEF TypeOK, Outcomes
<1>4. obj' \in Resource /\ pc' \in Calls \cup {"idle"} /\ then' \in Calls \cup Exits
  BY <1>1, <1>2, ReportType DEF Calls, Exits
<1>5. QED
  BY <1>1, <1>3, <1>4, BudgetType DEF CorrectDrift, TypeOK

LEMMA PublishType ==
  ASSUME TypeOK, Publish
  PROVE  TypeOK'
<1>1. [obj.st EXCEPT !.ok = TRUE] \in Status /\ NotOk(obj.st) \in Status
  BY SpecType, NotOkType DEF Status
<1>2. obj' \in Resource /\ pc' \in Calls \cup {"idle"} /\ then' \in Calls \cup Exits
  BY <1>1, ReportType DEF Publish, Exits
<1>3. budget' \in 0 .. Budget
  BY BudgetType DEF Publish, TypeOK
<1>4. QED
  BY <1>2, <1>3 DEF Publish, TypeOK

LEMMA UserWriteType ==
  ASSUME TypeOK, NEW e, NEW m \in Monitors, NEW c \in Resource, UserWrite(e, m, c),
         late' \subseteq Monitors
  PROVE  TypeOK'
<1>1. cr' \in [Monitors -> Resource] /\ synced' \subseteq Monitors
  BY WriteType DEF UserWrite
<1>2. cur' \in BOOLEAN
  BY DEF UserWrite
<1>3. budget' \in 0 .. Budget
  BY BudgetType DEF UserWrite
<1>4. QED
  BY <1>1, <1>2, <1>3 DEF UserWrite, TypeOK

LEMMA UserType ==
  ASSUME TypeOK, NEW m \in Monitors, Apply(m) \/ EditSpec(m) \/ Annotate(m) \/ Delete(m)
  PROVE  TypeOK'
<1>1. CASE Apply(m)
  <2>1. PICK ty \in Types, p \in BOOLEAN, pr \in BOOLEAN, a \in {NoId} \cup Used(remote) :
          UserWrite("apply", m, New(ty, p, pr, a))
    BY <1>1 DEF Apply
  <2>2. New(ty, p, pr, a) \in Resource
    BY NewType DEF AnyId, Used
  <2>3. late' \subseteq Monitors
    BY <1>1 DEF Apply, TypeOK
  <2>4. QED
    BY <2>1, <2>2, <2>3, UserWriteType
<1>2. CASE EditSpec(m)
  <2>1. /\ \A ty \in Types : [cr[m] EXCEPT !.type = ty] \in Resource
        /\ [cr[m] EXCEPT !.paused = ~@] \in Resource
        /\ [cr[m] EXCEPT !.prune = ~@] \in Resource
    BY DEF TypeOK, Resource
  <2>2. late' \subseteq Monitors
    BY <1>2 DEF EditSpec, TypeOK
  <2>3. QED
    BY <1>2, <2>1, <2>2, UserWriteType DEF EditSpec
<1>3. CASE Annotate(m)
  <2>1. /\ \A i \in AnyId : [cr[m] EXCEPT !.adopt = i] \in Resource
        /\ [cr[m] EXCEPT !.skip = ~@] \in Resource
    BY DEF TypeOK, Resource
  <2>2. late' \subseteq Monitors
    BY <1>3 DEF Annotate, TypeOK
  <2>3. Used(remote) \cup {NoId} \subseteq AnyId
    BY DEF Used, AnyId
  <2>4. QED
    BY <1>3, <2>1, <2>2, <2>3, UserWriteType DEF Annotate
<1>4. CASE Delete(m)
  <2>1. [cr[m] EXCEPT !.phase = "deleting"] \in Resource /\ Blank \in Resource
    BY BlankType DEF TypeOK, Resource
  <2>2. late' \subseteq Monitors
    BY <1>4 DEF Delete, TypeOK
  <2>3. QED
    BY <1>4, <2>1, <2>2, UserWriteType DEF Delete
<1>5. QED
  BY <1>1, <1>2, <1>3, <1>4

LEMMA EnvironmentType ==
  ASSUME TypeOK, Environment
  PROVE  TypeOK'
<1>1. CASE \E m \in Monitors : Apply(m) \/ EditSpec(m) \/ Annotate(m) \/ Delete(m)
  BY <1>1, UserType
<1>2. CASE \E m \in Monitors : TimeOut(m)
  BY <1>2 DEF TimeOut, worker, TypeOK
<1>3. CASE AccountLost
  BY <1>3, BudgetType DEF AccountLost, worker, TypeOK
<1>4. CASE AccountRestored
  BY <1>4 DEF AccountRestored, worker, TypeOK
<1>5. CASE Dashboard
  <2>1. remote' \in Account
    <3>1. PICK i \in Ids : remote' = [remote EXCEPT ![i].paused = ~@] \/ remote' = Gone(remote, i)
      BY <1>5 DEF Dashboard
    <3>2. remote[i].paused \in BOOLEAN
      BY DEF TypeOK, Account, RemoteMonitor
    <3>3. QED
      BY <3>1, <3>2, GoneType, PausedType DEF TypeOK
  <2>2. QED
    BY <1>5, <2>1, BudgetType DEF Dashboard, worker, TypeOK
<1>6. CASE Restart
  BY <1>6, BlankType, BudgetType DEF Restart, TypeOK, AnyId, Exits
<1>7. CASE DependencyMissing
  BY <1>7, DependencyMissingType
<1>8. QED
  BY <1>1, <1>2, <1>3, <1>4, <1>5, <1>6, <1>7 DEF Environment

LEMMA StepType ==
  ASSUME TypeOK, Step
  PROVE  TypeOK'
BY AddFinalizerType, StatusWrittenType, StatusLostType, TrackType, CleanupType,
   CleanupDeleteType, RemoveFinalizerType, RetypeType, CreateType, AdoptGetType,
   PauseStepsType, EditStepsType, GetType, CorrectDriftType, PublishType DEF Step

LEMMA NextType == TypeOK /\ [Next]_vars => TypeOK'
<1> SUFFICES ASSUME TypeOK, [Next]_vars PROVE TypeOK'
  OBVIOUS
<1>1. CASE Deliver
  BY <1>1 DEF Deliver, worker, TypeOK
<1>2. CASE \E m \in Monitors : Begin(m)
  BY <1>2, BeginType
<1>3. CASE \E m \in Monitors : Timer(m)
  BY <1>3 DEF Timer, worker, TypeOK
<1>4. CASE UNCHANGED vars
  BY <1>4 DEF vars, TypeOK
<1>5. QED
  BY <1>1, <1>2, <1>3, <1>4, StepType, EnvironmentType DEF Next

(* Every variable keeps its type, whatever the environment and the faults  *)
(* of the client's calls do.                                               *)
THEOREM TypeCorrect == Spec => []TypeOK
BY InitType, NextType, PTL DEF Spec
-----------------------------------------------------------------------------
(***************************************************************************)
(* The inductive invariant behind RemovalJustified.                        *)
(***************************************************************************)

(* A cached copy with the server's version is the server's resource. *)
SyncInv == \A m \in synced : cache[m] = cr[m]

(* So is the worker's copy, but for the status it may have set.  Only the  *)
(* worker writes status, so the version shows every other difference.      *)
CopyInv ==
  cur => /\ obj = [cr[key] EXCEPT !.st = obj.st]
         /\ pc = "unfinalize" => obj = cr[key]

(* Cleanup has found the worker's copy free to go. *)
ClearedInv ==
  cur /\ (pc = "unfinalize" \/ (pc = "status" /\ then = "unfinalize")) =>
    \/ ~obj.prune \/ ~obj.st.ready \/ ~Live(remote, obj.st.id) \/ obj.st.id \in Confusable
    \/ obj.skip \/ (obj.tracked /\ key \in late) \/ spared

IInv == TypeOK /\ SyncInv /\ CopyInv /\ ClearedInv

LEMMA InitInv == Init => IInv
BY InitType DEF Init, IInv, SyncInv, CopyInv, ClearedInv

(* No write puts a cached copy that is kept in step out of step. *)
LEMMA WriteSync ==
  ASSUME TypeOK, SyncInv, NEW m \in Monitors, NEW c, Write(m, c), UNCHANGED cache
  PROVE  SyncInv'
BY DEF Write, SyncInv, TypeOK

(* Between two reconciles, and after one, there is no copy to be wrong about. *)
LEMMA ReturnInv ==
  ASSUME NEW exit, Return(exit)
  PROVE  CopyInv' /\ ClearedInv'
BY DEF Return, CopyInv, ClearedInv

(* What a call to the UptimeRobot API leaves of the invariant: the worker  *)
(* writes nothing to the API server and touches the status of its copy only. *)
CopyEdited ==
  /\ UNCHANGED <<cr, cache, synced, key, cur>>
  /\ obj' = [obj EXCEPT !.st = obj'.st]
  /\ pc' # "unfinalize" /\ ~(pc' = "status" /\ then' = "unfinalize")

LEMMA CopyEditedInv ==
  ASSUME TypeOK, SyncInv, CopyInv, CopyEdited
  PROVE  SyncInv' /\ CopyInv' /\ ClearedInv'
<1>1. SyncInv'
  BY DEF CopyEdited, SyncInv
<1>2. cur => obj' = [cr[key] EXCEPT !.st = obj'.st]
  BY DEF CopyInv, CopyEdited, TypeOK, Resource
<1>3. CopyInv' /\ ClearedInv'
  BY <1>2 DEF CopyInv, ClearedInv, CopyEdited
<1>4. QED
  BY <1>1, <1>3

LEMMA ReportEdits ==
  ASSUME TypeOK, NEW st, NEW next, Report(st, next), next # "unfinalize",
         UNCHANGED <<cr, cache, synced, key, cur>>
  PROVE  CopyEdited
BY DEF Report, CopyEdited, TypeOK, Resource

LEMMA SameCopy ==
  ASSUME TypeOK, UNCHANGED <<cr, cache, synced, key, cur, obj>>,
         pc' \notin {"unfinalize", "status"}
  PROVE  CopyEdited
BY DEF CopyEdited, TypeOK, Resource

LEMMA RetypeEdits ==
  ASSUME TypeOK, Retype
  PROVE  CopyEdited
<1> DEFINE c == [obj EXCEPT !.st.ready = FALSE, !.st.id = NoId]
<1>1. PICK o \in DeleteMonitor(remote, obj.st.id) :
        IF o.res = "ok" THEN obj' = c /\ pc' = SyncBranch(c)
                        ELSE Report(NotOk(obj.st), "retry")
  BY DEF Retype
<1>2. UNCHANGED <<cr, cache, synced, key, cur>>
  BY DEF Retype
<1>3. CASE o.res = "ok"
  <2>1. c = [obj EXCEPT !.st = c.st]
    BY DEF TypeOK, Resource
  <2>2. SyncBranch(c) \notin {"unfinalize", "status"}
    BY DEF SyncBranch
  <2> HIDE DEF c
  <2>3. QED
    BY <1>1, <1>2, <1>3, <2>1, <2>2 DEF CopyEdited
<1>4. CASE o.res # "ok"
  BY <1>1, <1>2, <1>4, ReportEdits
<1>5. QED
  BY <1>3, <1>4

LEMMA CreateEdits ==
  ASSUME TypeOK, Create
  PROVE  CopyEdited
<1>1. UNCHANGED <<cr, cache, synced, key, cur>>
  BY DEF Create
<1>2. PICK st :
        \/ Report(NotReady(obj.st), "retry")
        \/ obj' = [obj EXCEPT !.st = st] /\ pc' = "createPause"
        \/ Report([st EXCEPT !.paused = FALSE], "publish")
  <2>1. PICK o \in CreateMonitor(remote, NameOf[key], obj.type) :
          IF o.res # "ok" THEN Report(NotReady(obj.st), "retry")
          ELSE LET st == [obj.st EXCEPT !.ready = TRUE, !.id = o.id, !.type = obj.type] IN
               IF obj.paused THEN obj' = [obj EXCEPT !.st = st] /\ pc' = "createPause"
                             ELSE Report([st EXCEPT !.paused = FALSE], "publish")
    BY DEF Create
  <2>2. QED
    BY <2>1
<1>3. CASE obj' = [obj EXCEPT !.st = st] /\ pc' = "createPause"
  BY <1>1, <1>3 DEF CopyEdited, TypeOK, Resource
<1>4. QED
  BY <1>1, <1>2, <1>3, ReportEdits

LEMMA PauseResultEdits ==
  ASSUME TypeOK, NEW done, NEW failed, PauseResult(done, failed)
  PROVE  CopyEdited
<1>1. UNCHANGED <<cr, cache, synced, key, cur>>
  BY DEF PauseResult
<1>2. Report(done, "publish") \/ Report(failed, "retry")
  BY DEF PauseResult
<1>3. QED
  BY <1>1, <1>2, ReportEdits

LEMMA EditResultEdits ==
  ASSUME TypeOK, NEW pausing \in {"none", "adoptPause", "repause"}, NEW failed,
         EditResult(pausing, failed)
  PROVE  CopyEdited
<1>1. UNCHANGED <<cr, cache, synced, key, cur>>
  BY DEF EditResult
<1>2. PICK o \in EditMonitor(remote, obj.st.id, NameOf[key], obj.type) :
        \/ Report(failed, "retry")
        \/ pausing # "none" /\ pc' = pausing /\ UNCHANGED obj
        \/ Report(SyncedAs(o.id), "publish")
  BY DEF EditResult
<1>3. CASE pausing # "none" /\ pc' = pausing /\ UNCHANGED obj
  BY <1>1, <1>3, SameCopy
<1>4. QED
  BY <1>1, <1>2, <1>3, ReportEdits

LEMMA GetEdits ==
  ASSUME TypeOK, Get \/ AdoptGet
  PROVE  CopyEdited
<1>1. UNCHANGED <<cr, cache, synced, key, cur>>
  BY DEF Get, AdoptGet
<1>2. CASE AdoptGet
  BY <1>1, <1>2, ReportEdits DEF AdoptGet
<1>3. CASE Get
  <2>1. \/ Report(NotOk(obj.st), "retry")
        \/ pc' \in {"drift", "edit"} /\ UNCHANGED obj
    BY <1>3 DEF Get
  <2>2. QED
    BY <1>1, <2>1, ReportEdits, SameCopy
<1>4. QED
  BY <1>2, <1>3

LEMMA CallEdits ==
  ASSUME TypeOK,
         \/ Retype \/ Create \/ CreatePause \/ AdoptGet \/ AdoptEdit \/ AdoptPause
         \/ Get \/ CorrectDrift \/ Edit \/ RePause \/ Publish
  PROVE  CopyEdited
<1>1. CASE CreatePause \/ AdoptPause \/ RePause
  BY <1>1, PauseResultEdits DEF CreatePause, AdoptPause, RePause
<1>2. CASE AdoptEdit \/ Edit
  BY <1>2, EditResultEdits DEF AdoptEdit, Edit
<1>3. CASE CorrectDrift
  BY <1>3, ReportEdits DEF CorrectDrift
<1>4. CASE Publish
  BY <1>4, ReportEdits DEF Publish
<1>5. QED
  BY <1>1, <1>2, <1>3, <1>4, RetypeEdits, CreateEdits, GetEdits

LEMMA BeginInv ==
  ASSUME TypeOK, SyncInv, CopyInv, NEW m \in Monitors, Begin(m)
  PROVE  SyncInv' /\ CopyInv' /\ ClearedInv'
<1>1. UNCHANGED <<cr, cache, synced>>
  BY DEF Begin
<1>2. SyncInv'
  BY <1>1 DEF SyncInv
<1>3. CASE cache[m].phase = "absent"
  <2>1. pc' = "idle" /\ UNCHANGED <<key, cur, obj>>
    BY <1>3 DEF Begin
  <2>2. QED
    BY <1>1, <1>2, <2>1 DEF CopyInv, ClearedInv
<1>4. CASE cache[m].phase # "absent"
  <2>1. key' = m /\ cur' = (m \in synced)
    BY <1>4 DEF Begin
  <2>2. \/ /\ obj' = [cache[m] EXCEPT !.st = NotReady(cache[m].st)]
           /\ pc' = "status" /\ then' = "retry"
        \/ obj' = cache[m] /\ pc' \notin {"unfinalize", "status"}
    BY <1>4 DEF Begin, AfterFinalizer, SyncBranch
  <2>3. cur' => cache[m] = cr[m]
    BY <2>1 DEF SyncInv
  <2>4. obj' = [cache[m] EXCEPT !.st = obj'.st]
    BY <2>2 DEF TypeOK, Resource
  <2>5. CopyInv'
    BY <1>1, <2>1, <2>2, <2>3, <2>4 DEF CopyInv
  <2>6. ClearedInv'
    BY <2>2 DEF ClearedInv
  <2>7. QED
    BY <1>2, <2>5, <2>6
<1>5. QED
  BY <1>3, <1>4

LEMMA AddFinalizerInv ==
  ASSUME TypeOK, SyncInv, CopyInv, AddFinalizer
  PROVE  SyncInv' /\ CopyInv' /\ ClearedInv'
<1> DEFINE c == [obj EXCEPT !.fin = TRUE, !.st = cr[key].st]
<1>1. CASE cur
  <2>1. Write(key, c) /\ obj' = c /\ pc' = AfterFinalizer(c) /\ UNCHANGED <<key, cache, cur>>
    BY <1>1 DEF AddFinalizer
  <2>2. SyncInv'
    <3> HIDE DEF c
    <3> QED BY <2>1, WriteSync DEF TypeOK
  <2>3. cr'[key'] = c
    BY <2>1 DEF Write, TypeOK
  <2>4. pc' \notin {"unfinalize", "status"}
    BY <2>1 DEF AfterFinalizer, SyncBranch
  <2>5. c = [c EXCEPT !.st = c.st]
    BY DEF TypeOK, Resource
  <2>6. QED
    BY <2>1, <2>2, <2>3, <2>4, <2>5 DEF CopyInv, ClearedInv
<1>2. CASE ~cur
  <2>1. Return("retry") /\ UNCHANGED <<cr, cache, synced>>
    BY <1>2 DEF AddFinalizer
  <2>2. QED
    BY <2>1, ReturnInv DEF SyncInv
<1>3. QED
  BY <1>1, <1>2 DEF TypeOK

(* The step that makes a cleared copy the server's resource in full. *)
LEMMA StatusWrittenInv ==
  ASSUME TypeOK, SyncInv, CopyInv, ClearedInv, StatusWritten
  PROVE  SyncInv' /\ CopyInv' /\ ClearedInv'
<1>1. Write(key, [cr[key] EXCEPT !.st = obj.st]) /\ UNCHANGED <<cache, remote, late>>
  BY DEF StatusWritten
<1>2. SyncInv'
  BY <1>1, WriteSync DEF TypeOK
<1>3. CASE then \in Exits
  BY <1>2, <1>3, ReturnInv DEF StatusWritten
<1>4. CASE then \notin Exits
  <2>1. pc = "status" /\ pc' = then /\ then' = "done" /\ UNCHANGED <<key, obj, cur, spared>>
    BY <1>4 DEF StatusWritten
  <2>2. cr'[key'] = [cr[key] EXCEPT !.st = obj.st]
    BY <1>1, <2>1 DEF Write, TypeOK
  <2>3. cur' => obj' = cr'[key']
    BY <2>1, <2>2 DEF CopyInv
  <2>4. obj' = [obj' EXCEPT !.st = obj'.st]
    BY <2>1 DEF TypeOK, Resource
  <2>5. CopyInv'
    BY <2>3, <2>4 DEF CopyInv
  <2>6. ClearedInv'
    BY <1>1, <2>1 DEF ClearedInv
  <2>7. QED
    BY <1>2, <2>5, <2>6
<1>5. QED
  BY <1>3, <1>4

LEMMA TrackInv ==
  ASSUME TypeOK, SyncInv, CopyInv, Track
  PROVE  SyncInv' /\ CopyInv' /\ ClearedInv'
<1>1. CASE obj.tracked \/ cache[key].tracked
  <2>1. pc' = "cleanup" /\ UNCHANGED <<cr, cache, synced, key, cur, obj>>
    BY <1>1 DEF Track
  <2>2. QED
    BY <2>1, SameCopy, CopyEditedInv
<1>2. CASE ~(obj.tracked \/ cache[key].tracked) /\ key \in synced /\ cr[key].phase # "absent"
  <2>1. Write(key, [cr[key] EXCEPT !.tracked = TRUE]) /\ cur' = FALSE /\ UNCHANGED cache
    BY <1>2 DEF Track
  <2>2. QED
    BY <2>1, WriteSync DEF TypeOK, CopyInv, ClearedInv
<1>3. CASE ~(obj.tracked \/ cache[key].tracked) /\ ~(key \in synced /\ cr[key].phase # "absent")
  <2>1. Return("retry") /\ UNCHANGED <<cr, cache, synced>>
    BY <1>3 DEF Track
  <2>2. QED
    BY <2>1, ReturnInv DEF SyncInv
<1>4. QED
  BY <1>1, <1>2, <1>3

LEMMA CleanupInv ==
  ASSUME TypeOK, SyncInv, Cleanup
  PROVE  SyncInv' /\ CopyInv' /\ ClearedInv'
<1> DEFINE c == cache[key]
           leave == c.skip \/ (key \in late /\ c.tracked) \/ ~c.prune \/ ~c.st.ready
           spare == ~leave /\ Adopter(key, c.st.id)
<1>1. UNCHANGED <<cr, cache, synced, late>> /\ SyncInv'
  BY DEF Cleanup, SyncInv
<1>2. CASE c.phase = "absent"
  BY <1>1, <1>2, ReturnInv DEF Cleanup
<1>3. CASE c.phase # "absent"
  <2>1. /\ obj' = c /\ cur' = (key \in synced) /\ key' = key /\ spared' = spare
        /\ IF leave \/ spare THEN pc' = "status" /\ then' = "unfinalize"
                             ELSE pc' = "delete"
    BY <1>3 DEF Cleanup
  <2>2. cur' => obj' = cr'[key']
    BY <1>1, <2>1 DEF SyncInv
  <2>3. obj' = [obj' EXCEPT !.st = obj'.st]
    BY <2>1 DEF TypeOK, Resource
  <2>4. pc' # "unfinalize"
    BY <2>1
  <2>5. CopyInv'
    BY <2>2, <2>3, <2>4 DEF CopyInv
  <2>6. ClearedInv'
    <3>1. CASE leave
      BY <1>1, <2>1, <3>1 DEF ClearedInv
    <3>2. CASE spare
      BY <2>1, <3>2 DEF ClearedInv
    <3>3. CASE ~(leave \/ spare)
      <4>1. pc' = "delete"
        BY <2>1, <3>3
      <4>2. QED
        BY <4>1 DEF ClearedInv
    <3>4. QED
      BY <3>1, <3>2, <3>3
  <2>7. QED
    BY <1>1, <2>5, <2>6
<1>4. QED
  BY <1>2, <1>3

LEMMA CleanupDeleteInv ==
  ASSUME TypeOK, SyncInv, CopyInv, CleanupDelete
  PROVE  SyncInv' /\ CopyInv' /\ ClearedInv'
<1>1. UNCHANGED <<cr, cache, synced, key, cur>>
  BY DEF CleanupDelete
<1>2. PICK o \in DeleteMonitor(remote, obj.st.id) :
        remote' = o.remote /\ Report(obj.st, IF o.res = "ok" THEN "unfinalize" ELSE "done")
  BY DEF CleanupDelete
<1>3. o.res = "ok" => ~Live(remote', obj.st.id) \/ obj.st.id \in Confusable
  BY <1>2, SpecType, DeleteMonitorType DEF TypeOK
<1>4. obj' = obj /\ pc' = "status" /\ (then' = "unfinalize" => o.res = "ok")
  BY <1>2 DEF Report, TypeOK, Resource
<1>5. SyncInv' /\ CopyInv'
  BY <1>1, <1>4 DEF SyncInv, CopyInv
<1>6. ClearedInv'
  BY <1>3, <1>4 DEF ClearedInv
<1>7. QED
  BY <1>5, <1>6

LEMMA RemoveFinalizerInv ==
  ASSUME TypeOK, SyncInv, RemoveFinalizer
  PROVE  SyncInv' /\ CopyInv' /\ ClearedInv'
<1>1. CopyInv' /\ ClearedInv'
  BY ReturnInv DEF RemoveFinalizer
<1>2. SyncInv'
  <2>1. CASE cur
    BY <2>1, WriteSync DEF RemoveFinalizer, TypeOK
  <2>2. CASE ~cur
    BY <2>2 DEF RemoveFinalizer, SyncInv
  <2>3. QED
    BY <2>1, <2>2 DEF TypeOK
<1>3. QED
  BY <1>1, <1>2

(* A user's write makes the worker's copy of that resource a stale one. *)
LEMMA UserWriteInv ==
  ASSUME TypeOK, SyncInv, CopyInv, ClearedInv,
         NEW e, NEW m \in Monitors, NEW c, UserWrite(e, m, c), late \ {m} \subseteq late'
  PROVE  SyncInv' /\ CopyInv' /\ ClearedInv'
<1>1. /\ Write(m, c) /\ cur' = (cur /\ key # m)
      /\ UNCHANGED <<cache, remote, pc, key, obj, then, spared>>
  BY DEF UserWrite
<1>2. SyncInv'
  BY <1>1, WriteSync
<1>3. cur' => cur /\ key # m /\ cr'[key] = cr[key]
  BY <1>1 DEF Write, TypeOK
<1>4. QED
  BY <1>1, <1>2, <1>3 DEF CopyInv, ClearedInv, TypeOK

LEMMA EnvironmentInv ==
  ASSUME TypeOK, SyncInv, CopyInv, ClearedInv, Environment
  PROVE  SyncInv' /\ CopyInv' /\ ClearedInv'
<1>1. ASSUME NEW m \in Monitors, Apply(m) \/ EditSpec(m) \/ Annotate(m) \/ Delete(m)
      PROVE  SyncInv' /\ CopyInv' /\ ClearedInv'
  <2>1. late \ {m} \subseteq late' /\ \E e, c : UserWrite(e, m, c)
    BY <1>1 DEF Apply, EditSpec, Annotate, Delete
  <2>2. QED
    BY <2>1, UserWriteInv
<1>2. CASE \E m \in Monitors : TimeOut(m)
  BY <1>2 DEF TimeOut, worker, SyncInv, CopyInv, ClearedInv
<1>3. CASE AccountLost \/ AccountRestored
  BY <1>3 DEF AccountLost, AccountRestored, worker, SyncInv, CopyInv, ClearedInv
<1>4. CASE Dashboard
  <2>1. UNCHANGED <<cr, cache, synced, late, worker>>
    BY <1>4 DEF Dashboard
  <2>2. ~Live(remote, obj.st.id) => ~Live(remote', obj.st.id)
    BY <1>4 DEF Dashboard, Live, Gone, TypeOK, Account, RemoteMonitor
  <2>3. QED
    BY <2>1, <2>2 DEF worker, SyncInv, CopyInv, ClearedInv
<1>5. CASE Restart
  BY <1>5 DEF Restart, SyncInv, CopyInv, ClearedInv
<1>6. CASE DependencyMissing
  BY <1>6, ReturnInv DEF DependencyMissing, SyncInv
<1>7. QED
  BY <1>1, <1>2, <1>3, <1>4, <1>5, <1>6 DEF Environment

LEMMA NextInv == IInv /\ [Next]_vars => IInv'
<1> SUFFICES ASSUME TypeOK, SyncInv, CopyInv, ClearedInv, [Next]_vars
             PROVE  SyncInv' /\ CopyInv' /\ ClearedInv'
  BY NextType DEF IInv
<1>1. CASE Deliver
  BY <1>1 DEF Deliver, worker, SyncInv, CopyInv, ClearedInv
<1>2. CASE \E m \in Monitors : Begin(m)
  BY <1>2, BeginInv
<1>3. CASE \E m \in Monitors : Timer(m)
  BY <1>3 DEF Timer, worker, SyncInv, CopyInv, ClearedInv
<1>4. CASE Step
  <2>1. CASE StatusLost
    BY <2>1, ReturnInv DEF StatusLost, SyncInv
  <2>2. QED
    BY <1>4, <2>1, AddFinalizerInv, StatusWrittenInv, TrackInv, CleanupInv,
       CleanupDeleteInv, RemoveFinalizerInv, CallEdits, CopyEditedInv DEF Step
<1>5. CASE UNCHANGED vars
  BY <1>5 DEF vars, SyncInv, CopyInv, ClearedInv
<1>6. QED
  BY <1>1, <1>2, <1>3, <1>4, <1>5, EnvironmentInv DEF Next

(* The worker's copy, where it has the server's version, is the server's   *)
(* resource, and once cleared for removal it stays free to go.             *)
THEOREM Invariance == Spec => []IInv
BY InitInv, NextInv, PTL DEF Spec
-----------------------------------------------------------------------------
(***************************************************************************)
(* A resource leaves only when that is justified.                          *)
(***************************************************************************)
LEMMA KeptByWrite ==
  ASSUME TypeOK, NEW k \in Monitors, NEW c, Write(k, c),
         NEW m \in Monitors, cr[m].phase = "deleting",
         k = m => c.phase # "absent"
  PROVE  cr'[m].phase # "absent"
BY DEF Write, TypeOK

(* What the worker removes is what the server has at that moment. *)
LEMMA RemoveFinalizerJustified ==
  ASSUME IInv, RemoveFinalizer, NEW m \in Monitors, cr[m].phase = "deleting",
         cr'[m].phase = "absent"
  PROVE  Released(m)
<1>1. CASE cur
  <2>1. m = key
    BY <1>1 DEF RemoveFinalizer, Write, IInv, TypeOK
  <2>2. pc = "unfinalize" /\ obj = cr[key]
    BY <1>1 DEF RemoveFinalizer, IInv, CopyInv
  <2>3. QED
    BY <1>1, <2>1, <2>2 DEF IInv, ClearedInv, Released, Disposed
<1>2. CASE ~cur
  BY <1>2 DEF RemoveFinalizer
<1>3. QED
  BY <1>1, <1>2 DEF IInv, TypeOK

(* Nothing else removes a resource under deletion. *)
LEMMA OthersKeep ==
  ASSUME IInv, [Next]_vars, ~RemoveFinalizer,
         NEW m \in Monitors, cr[m].phase = "deleting"
  PROVE  cr'[m].phase # "absent"
<1> USE DEF IInv
<1>1. CASE UNCHANGED cr
  BY <1>1
<1>2. CASE AddFinalizer
  <2>1. CASE cur
    <3> DEFINE c == [obj EXCEPT !.fin = TRUE, !.st = cr[key].st]
    <3>1. Write(key, c)
      BY <1>2, <2>1 DEF AddFinalizer
    <3>2. c.phase = cr[key].phase
      BY <2>1 DEF CopyInv, TypeOK, Resource
    <3> HIDE DEF c
    <3>3. QED
      BY <3>1, <3>2, KeptByWrite DEF TypeOK
  <2>2. CASE ~cur
    BY <1>2, <2>2 DEF AddFinalizer
  <2>3. QED
    BY <2>1, <2>2 DEF TypeOK
<1>3. CASE StatusWritten
  BY <1>3, KeptByWrite DEF StatusWritten, TypeOK, Resource
<1>4. CASE Track
  BY <1>4, KeptByWrite DEF Track, TypeOK, Resource
<1>5. ASSUME NEW k \in Monitors, Apply(k) \/ EditSpec(k) \/ Annotate(k) \/ Delete(k)
      PROVE  cr'[m].phase # "absent"
  <2>1. PICK e, c : UserWrite(e, k, c) /\ (k = m => c.phase # "absent")
    <3>1. CASE Apply(k)
      <4>1. k # m /\ \E c : UserWrite("apply", k, c)
        BY <3>1 DEF Apply
      <4>2. QED
        BY <4>1
    <3>2. CASE EditSpec(k)
      <4>1. /\ \A ty : k = m => [cr[k] EXCEPT !.type = ty].phase # "absent"
            /\ k = m => [cr[k] EXCEPT !.paused = ~@].phase # "absent"
            /\ k = m => [cr[k] EXCEPT !.prune = ~@].phase # "absent"
        BY DEF TypeOK, Resource
      <4>2. QED
        BY <3>2, <4>1 DEF EditSpec
    <3>3. CASE Annotate(k)
      <4>1. /\ \A i : k = m => [cr[k] EXCEPT !.adopt = i].phase # "absent"
            /\ k = m => [cr[k] EXCEPT !.skip = ~@].phase # "absent"
        BY DEF TypeOK, Resource
      <4>2. QED
        BY <3>3, <4>1 DEF Annotate
    <3>4. CASE Delete(k)
      <4>1. k # m /\ \E c : UserWrite("delete", k, c)
        BY <3>4 DEF Delete
      <4>2. QED
        BY <4>1
    <3>5. QED
      BY <1>5, <3>1, <3>2, <3>3, <3>4
  <2>2. QED
    BY <2>1, KeptByWrite DEF UserWrite
<1>6. CASE Cleanup
  BY <1>6, <1>1 DEF Cleanup
<1>7. CASE \/ StatusLost \/ CleanupDelete \/ Retype \/ Create \/ CreatePause \/ AdoptGet
           \/ AdoptEdit \/ AdoptPause \/ Get \/ CorrectDrift \/ Edit \/ RePause \/ Publish
  BY <1>7, <1>1, CallEdits DEF StatusLost, CleanupDelete, CopyEdited
<1>8. CASE Deliver \/ \E k \in Monitors : Begin(k) \/ Timer(k) \/ TimeOut(k)
  BY <1>8, <1>1 DEF Deliver, Begin, Timer, TimeOut
<1>9. CASE DependencyMissing \/ AccountLost \/ AccountRestored \/ Dashboard \/ Restart
  BY <1>9, <1>1 DEF DependencyMissing, AccountLost, AccountRestored, Dashboard, Restart
<1>10. CASE UNCHANGED vars
  BY <1>10, <1>1 DEF vars
<1>11. QED
  BY <1>2, <1>3, <1>4, <1>5, <1>6, <1>7, <1>8, <1>9, <1>10 DEF Next, Step, Environment

(* A resource under deletion disappears only when its spec, its status and *)
(* the account justify it at that moment: what HandleFinalizerCleanup      *)
(* decided is still so when the finalizer's Update goes through.           *)
THEOREM RemovalIsJustified == Spec => RemovalJustified
<1>1. IInv /\ [Next]_vars =>
        [\A m \in Monitors :
           cr[m].phase = "deleting" /\ cr'[m].phase = "absent" => Released(m)]_vars
  BY RemoveFinalizerJustified, OthersKeep
<1>2. QED
  BY <1>1, Invariance, PTL DEF Spec, RemovalJustified
-----------------------------------------------------------------------------
(***************************************************************************)
(* What the client's operations do to identifiers.                         *)
(***************************************************************************)

(* An identifier that stands for no monitor yet is in no status. *)
Known(r, i) == i \in Ids => r[i].state # "free"

(* A status may forget this identifier: nothing lives under it, or its     *)
(* digits make the client see a 404 where there is none.                   *)
Forgettable(r, i) == i \in Ids \ Confusable => r[i].state = "gone"

(* From r to s no identifier is handed back, and no monitor returns. *)
Forward(r, s) ==
  \A i \in Ids : /\ r[i].state # "free" => s[i].state # "free"
                 /\ r[i].state = "gone" => s[i].state = "gone"

(* A call from r goes forward, and an identifier it returns is in use. *)
Sound(r, o) == Forward(r, o.remote) /\ (o.res = "ok" => Known(o.remote, o.id))

LEMMA ForwardFacts ==
  ASSUME NEW r, NEW s, Forward(r, s), NEW i
  PROVE  (Known(r, i) => Known(s, i)) /\ (Forgettable(r, i) => Forgettable(s, i))
BY DEF Forward, Known, Forgettable

LEMMA ForwardRefl == \A r : Forward(r, r)
BY DEF Forward

LEMMA ForwardTrans ==
  ASSUME NEW r, NEW s, NEW t, Forward(r, s), Forward(s, t)
  PROVE  Forward(r, t)
BY DEF Forward

(* A fault only marks an outcome. *)
LEMMA ByFaultSame ==
  ASSUME NEW S, S \subseteq Outcomes, NEW o \in ByFault(S)
  PROVE  \E p \in S : o.remote = p.remote /\ o.res = p.res /\ o.id = p.id
BY DEF ByFault, Outcomes

LEMMA FaultSound ==
  ASSUME NEW r, NEW S, S \subseteq Outcomes, \A p \in S : Sound(r, p), NEW o \in ByFault(S)
  PROVE  Sound(r, o)
BY ByFaultSame DEF Sound

LEMMA ErrSound ==
  ASSUME NEW r, NEW s, Forward(r, s)
  PROVE  Sound(r, Err(s))
BY DEF Sound, Err, Outcome

LEMMA ErrFacts ==
  ASSUME NEW r \in Account
  PROVE  Err(r) \in Outcomes /\ Err(r).remote = r /\ Err(r).res = "err" /\ Sound(r, Err(r))
<1>1. NoId \in AnyId
  BY DEF AnyId
<1>2. Err(r) \in Outcomes
  BY <1>1, OutcomeType
<1>3. Err(r).remote = r /\ Err(r).res = "err"
  BY DEF Err, Outcome
<1>4. QED
  BY <1>2, <1>3, ErrSound, ForwardRefl

(* Marking one monitor, or changing its name or pause, goes forward. *)
LEMMA ChangeForward ==
  ASSUME NEW r \in Account, NEW i \in Ids, NEW n, NEW p
  PROVE  /\ Forward(r, Gone(r, i)) /\ Gone(r, i)[i].state = "gone"
         /\ Forward(r, [r EXCEPT ![i].name = n]) /\ [r EXCEPT ![i].name = n][i].state = r[i].state
         /\ Forward(r, [r EXCEPT ![i].paused = p])
BY DEF Forward, Gone, Account, RemoteMonitor

LEMMA PostOnceSound ==
  ASSUME NEW r \in Account, NEW n \in Names, NEW ty \in Types, NEW o \in PostOnce(r, n, ty)
  PROVE  Sound(r, o)
<1>1. \A i \in SameName(r, n) : Sound(r, Ok(r, i))
  BY DEF Sound, Forward, Known, Ok, Outcome, SameName
<1>2. Sound(r, Err(r))
  BY ErrSound, ForwardRefl
<1>3. ASSUME Free(r) # {} PROVE Sound(r, Ok(Post(r, NextId(r), n, ty), NextId(r)))
  <2>1. NextId(r) \in Ids /\ r[NextId(r)].state = "free"
    BY <1>3 DEF NextId, Free
  <2>2. Forward(r, Post(r, NextId(r), n, ty)) /\ Known(Post(r, NextId(r), n, ty), NextId(r))
    BY <2>1 DEF Forward, Known, Post, Account
  <2>3. QED
    BY <2>2 DEF Sound, Ok, Outcome
<1>4. QED
  BY <1>1, <1>2, <1>3 DEF PostOnce, Resolve409

LEMMA CreateSound ==
  ASSUME NEW r \in Account, NEW n \in Names, NEW ty \in Types, NEW o \in CreateMonitor(r, n, ty)
  PROVE  Sound(r, o)
<1> DEFINE once == PostOnce(r, n, ty)
           lost == {p.remote : p \in {q \in once : q.res = "ok"}}
           again == {Err(r)} \cup {Err(s) : s \in lost}
                      \cup UNION {PostOnce(s, n, ty) : s \in lost}
<1>1. \A p \in once : Sound(r, p) /\ p \in Outcomes
  BY PostOnceSound, PostOnceType
<1>2. \A s \in lost : s \in Account /\ Forward(r, s)
  BY <1>1 DEF Outcomes, Sound
<1>3. ASSUME NEW p \in again PROVE Sound(r, p) /\ p \in Outcomes
  <2>1. CASE p = Err(r)
    BY <2>1, ErrSound, ForwardRefl, OutcomeType DEF AnyId
  <2>2. CASE \E s \in lost : p = Err(s)
    <3> HIDE DEF lost
    <3> QED BY <1>2, <2>2, ErrSound, OutcomeType DEF AnyId
  <2>3. ASSUME NEW s \in lost, p \in PostOnce(s, n, ty) PROVE Sound(r, p) /\ p \in Outcomes
    <3> HIDE DEF lost
    <3>1. Sound(s, p) /\ p \in Outcomes
      BY <1>2, <2>3, PostOnceSound, PostOnceType
    <3>2. QED
      BY <1>2, <3>1, ForwardTrans DEF Sound
  <2>4. QED
    <3> HIDE DEF lost
    <3> QED BY <2>1, <2>2, <2>3
<1>4. CreateMonitor(r, n, ty) = once \cup ByFault(again)
  BY DEF CreateMonitor
<1> HIDE DEF once, again
<1>5. CASE o \in once
  BY <1>1, <1>5
<1>6. CASE o \in ByFault(again)
  BY <1>3, <1>6, FaultSound
<1>7. QED
  BY <1>4, <1>5, <1>6

(* EditMonitor answers with the identifier it was given, unless nothing    *)
(* lives there.                                                            *)
LEMMA EditSound ==
  ASSUME NEW r \in Account, NEW i \in AnyId, Known(r, i), NEW n \in Names, NEW ty \in Types,
         NEW o \in EditMonitor(r, i, n, ty)
  PROVE  Sound(r, o) /\ (o.res = "ok" => o.id = i \/ Forgettable(r, i))
<1> DEFINE named == [r EXCEPT ![i].name = n]
           failed == {Err(r)} \cup (IF Live(r, i) THEN {Err(named)} ELSE {})
<1>1. Live(r, i) => i \in Ids /\ named \in Account /\ Forward(r, named) /\ Known(named, i)
  BY LiveIsId, RenamedType, ChangeForward DEF Live, Known
<1>2. CASE Live(r, i) /\ o = Ok(named, i)
  <2> HIDE DEF named
  <2> QED BY <1>1, <1>2 DEF Sound, Ok, Outcome
<1>3. ASSUME o \in Recreate(r, i, n, ty) PROVE Sound(r, o) /\ Forgettable(r, i)
  <2>1. o \in CreateMonitor(r, n, ty) \/ o \in ByFault(CreateMonitor(r, n, ty))
    BY <1>3 DEF Recreate, Misread
  <2>2. ~Live(r, i) \/ i \in Confusable
    BY <1>3 DEF Recreate, Misread
  <2>3. Forgettable(r, i)
    BY <2>2 DEF Forgettable, Live, Known, Account, RemoteMonitor
  <2>4. QED
    BY <2>1, <2>3, CreateSound, CreateMonitorType, FaultSound
<1>4. ASSUME o \in ByFault(failed) PROVE Sound(r, o) /\ o.res = "err"
  <2> HIDE DEF named
  <2>1. \A p \in failed : Sound(r, p) /\ p \in Outcomes /\ p.res = "err"
    BY <1>1, ErrFacts, ErrSound
  <2> HIDE DEF failed
  <2>2. QED
    BY <1>4, <2>1, FaultSound, ByFaultSame
<1>5. (Live(r, i) /\ o = Ok(named, i)) \/ o \in Recreate(r, i, n, ty) \/ o \in ByFault(failed)
  BY DEF EditMonitor
<1>6. QED
  BY <1>2, <1>3, <1>4, <1>5 DEF Ok, Outcome

LEMMA DeleteSound ==
  ASSUME NEW r \in Account, NEW i \in AnyId, Known(r, i), NEW o \in DeleteMonitor(r, i)
  PROVE  Forward(r, o.remote) /\ (o.res = "ok" => Forgettable(o.remote, i))
<1>1. CASE Live(r, i)
  <2>1. Gone(r, i) \in Account /\ Forward(r, Gone(r, i)) /\ Forgettable(Gone(r, i), i)
    BY <1>1, LiveIsId, GoneType, ChangeForward DEF Forgettable
  <2>2. CASE o = Ok(Gone(r, i), i)
    BY <2>1, <2>2 DEF Ok, Outcome
  <2>3. CASE o \in ByFault({Err(r), Err(Gone(r, i))})
    <3>1. \A p \in {Err(r), Err(Gone(r, i))} :
            p \in Outcomes /\ Forward(r, p.remote) /\ p.res = "err"
      BY <2>1, ForwardRefl, ErrFacts
    <3>2. QED
      BY <2>3, <3>1, ByFaultSame
  <2>4. CASE i \in Confusable /\ o \in ByFault({Ok(r, i)})
    <3>1. PICK p \in {Ok(r, i)} : o = [p EXCEPT !.fault = TRUE]
      BY <2>4 DEF ByFault
    <3>2. o.remote = r
      BY <3>1 DEF Ok, Outcome
    <3>3. QED
      BY <2>4, <3>2, ForwardRefl DEF Forgettable
  <2>5. QED
    BY <1>1, <2>2, <2>3, <2>4 DEF DeleteMonitor, Misread
<1>2. CASE ~Live(r, i)
  <2>1. Forgettable(r, i)
    BY <1>2 DEF Forgettable, Live, Known, Account, RemoteMonitor
  <2>2. o = Ok(r, NoId) \/ o \in ByFault({Err(r)})
    BY <1>2 DEF DeleteMonitor
  <2>3. o.remote = r
    <3>1. \A p \in {Err(r)} : p \in Outcomes /\ p.remote = r
      BY ErrFacts
    <3>2. QED
      BY <2>2, <3>1, ByFaultSame DEF Ok, Outcome
  <2>4. QED
    BY <2>1, <2>3, ForwardRefl
<1>3. QED
  BY <1>1, <1>2

LEMMA PauseForward ==
  ASSUME NEW r \in Account, NEW i \in AnyId, NEW p \in BOOLEAN, NEW o \in SetPaused(r, i, p)
  PROVE  Forward(r, o.remote)
<1> DEFINE done == [r EXCEPT ![i].paused = p]
<1>1. CASE Live(r, i)
  <2>1. done \in Account /\ Forward(r, done)
    BY <1>1, LiveIsId, PausedType, ChangeForward
  <2>2. o = Ok(done, i) \/ o \in ByFault({Err(r), Err(done)})
    BY <1>1 DEF SetPaused
  <2> HIDE DEF done
  <2>3. \A q \in {Err(r), Err(done)} : q \in Outcomes /\ Forward(r, q.remote)
    BY <2>1, ForwardRefl, ErrFacts
  <2>4. QED
    BY <2>1, <2>2, <2>3, ByFaultSame DEF Ok, Outcome
<1>2. CASE ~Live(r, i)
  BY <1>2, ForwardRefl DEF SetPaused, Err, Outcome
<1>3. QED
  BY <1>1, <1>2

LEMMA GetFinds ==
  ASSUME NEW r \in Account, NEW i \in AnyId, NEW o \in GetMonitor(r, i), o.res = "ok"
  PROVE  Known(r, i)
<1>1. CASE Live(r, i)
  BY <1>1 DEF Live, Known
<1>2. CASE ~Live(r, i)
  <2>1. \/ o = Outcome(r, "notFound", NoId) \/ o \in ByFault({Err(r)})
        \/ o \in ByFault({Outcome(r, "notFound", NoId)})
    BY <1>2 DEF GetMonitor, Misread
  <2>2. /\ Outcome(r, "notFound", NoId) \in Outcomes
        /\ Outcome(r, "notFound", NoId).res = "notFound"
    BY OutcomeType DEF Outcome
  <2>3. \A p \in {Err(r)} \cup {Outcome(r, "notFound", NoId)} : p \in Outcomes /\ p.res # "ok"
    BY <2>2, ErrFacts
  <2>4. QED
    BY <2>1, <2>2, <2>3, ByFaultSame
<1>3. QED
  BY <1>1, <1>2
-----------------------------------------------------------------------------
(***************************************************************************)
(* The inductive invariant behind IdKept.                                  *)
(***************************************************************************)

(* Every identifier in a status, a copy or a result is in use. *)
KnownInv ==
  /\ Known(remote, obj.st.id) /\ Known(remote, rid)
  /\ \A m \in Monitors : Known(remote, cr[m].st.id) /\ Known(remote, cache[m].st.id)

(* A resource that is not there has no identifier to lose. *)
AbsentInv == \A m \in Monitors : cr[m].phase = "absent" => cr[m].st.id = NoId

(* What the worker's next call takes for granted: a create or an adoption  *)
(* has no identifier to overwrite, and the result of an edit is the        *)
(* identifier it was made with, or that one is gone.                       *)
PlanInv ==
  /\ then \in {"adoptEdit", "edit", "publish", "unfinalize"} \cup Exits
  /\ pc # "idle" => obj.phase # "absent"
  /\ pc \in {"create", "adoptGet"} => obj.st.id = NoId
  /\ pc \in {"adoptPause", "repause"} => rid = obj.st.id \/ Forgettable(remote, obj.st.id)

(* A worker that did not begin with an outdated status holds the           *)
(* identifier of the server's, or has seen to it that it can go.           *)
SeenInv ==
  pc # "idle" /\ ~stale =>
    \/ cr[key].st.id \in {NoId, obj.st.id}
    \/ Forgettable(remote, cr[key].st.id)

IdInv == KnownInv /\ AbsentInv /\ PlanInv /\ SeenInv

LEMMA InitIds == Init => IdInv
<1> SUFFICES ASSUME Init PROVE IdInv
  OBVIOUS
<1>1. Blank.phase = "absent" /\ Blank.st.id = NoId /\ NoId \notin Ids
  BY IdsAssumption DEF Blank, New, NoStatus
<1>2. /\ cr = [m \in Monitors |-> Blank] /\ cache = cr /\ obj = Blank /\ rid = NoId
      /\ pc = "idle" /\ then = "done"
  BY DEF Init
<1>3. QED
  BY <1>1, <1>2 DEF IdInv, KnownInv, AbsentInv, PlanInv, SeenInv, Known, Exits

(* What a call leaves of the invariant: it writes nothing to the API       *)
(* server, goes forward in the account, and gives up the identifier of the *)
(* copy only when nothing lives under it.                                  *)
CallKeepsIds ==
  /\ pc # "idle" /\ UNCHANGED <<cr, cache, key, stale>>
  /\ Forward(remote, remote')
  /\ Known(remote', obj'.st.id) /\ Known(remote', rid')
  /\ obj'.st.id = obj.st.id \/ Forgettable(remote', obj.st.id)

LEMMA CallIds ==
  ASSUME KnownInv, AbsentInv, SeenInv, CallKeepsIds
  PROVE  KnownInv' /\ AbsentInv' /\ SeenInv'
<1> USE DEF CallKeepsIds
<1>1. KnownInv'
  BY ForwardFacts DEF KnownInv
<1>2. AbsentInv'
  BY DEF AbsentInv
<1>3. SeenInv'
  BY ForwardFacts DEF SeenInv
<1>4. QED
  BY <1>1, <1>2, <1>3

(* A call that ends in a status write with the copy's identifier. *)
LEMMA ReportIds ==
  ASSUME TypeOK, IdInv, pc # "idle", NEW st, NEW next, Report(st, next),
         UNCHANGED <<cr, cache, key, stale>>, Forward(remote, remote'),
         Known(remote', st.id), Known(remote', rid'),
         st.id = obj.st.id \/ Forgettable(remote', obj.st.id),
         next \in {"adoptEdit", "edit", "publish", "unfinalize"} \cup Exits
  PROVE  IdInv'
<1>1. /\ obj'.st = st /\ obj'.phase = obj.phase /\ pc' = "status" /\ then' = next
  BY DEF Report, TypeOK, Resource
<1>2. CallKeepsIds
  BY <1>1 DEF CallKeepsIds
<1>3. PlanInv'
  BY <1>1 DEF PlanInv, IdInv
<1>4. QED
  BY <1>2, <1>3, CallIds DEF IdInv

(* A call after which the copy is the same. *)
LEMMA SameIds ==
  ASSUME IdInv, pc # "idle", UNCHANGED <<cr, cache, key, stale, obj, then>>,
         Forward(remote, remote'), Known(remote', rid'),
         pc' \notin {"create", "adoptGet"},
         pc' \in {"adoptPause", "repause"} => rid' = obj.st.id \/ Forgettable(remote', obj.st.id)
  PROVE  IdInv'
<1>1. CallKeepsIds
  BY ForwardFacts DEF CallKeepsIds, IdInv, KnownInv
<1>2. PlanInv'
  BY DEF PlanInv, IdInv
<1>3. QED
  BY <1>1, <1>2, CallIds DEF IdInv

(* At the end of a reconcile there is no copy left. *)
LEMMA ReturnIds ==
  ASSUME KnownInv, AbsentInv, NEW exit, Return(exit), UNCHANGED <<cr, cache, remote>>
  PROVE  IdInv'
<1>1. Blank.st.id = NoId /\ NoId \notin Ids
  BY IdsAssumption DEF Blank, New, NoStatus
<1>2. pc' = "idle" /\ obj' = Blank /\ rid' = NoId /\ then' = "done"
  BY DEF Return
<1>3. QED
  BY <1>1, <1>2 DEF IdInv, KnownInv, AbsentInv, PlanInv, SeenInv, Known, Exits

LEMMA StatusIds ==
  ASSUME NEW st \in Status
  PROVE  NotOk(st).id = st.id /\ NotReady(st).id = st.id
BY DEF NotOk, NotReady, Status
-----------------------------------------------------------------------------
LEMMA RetypeIds ==
  ASSUME TypeOK, IdInv, Retype
  PROVE  IdInv'
<1> DEFINE c == [obj EXCEPT !.st.ready = FALSE, !.st.id = NoId]
<1>1. PICK o \in DeleteMonitor(remote, obj.st.id) :
        /\ remote' = o.remote
        /\ IF o.res = "ok" THEN obj' = c /\ pc' = SyncBranch(c) /\ UNCHANGED then
                           ELSE Report(NotOk(obj.st), "retry")
  BY DEF Retype
<1>2. pc # "idle" /\ UNCHANGED <<cr, cache, key, stale, rid>>
  BY DEF Retype
<1>3. Forward(remote, remote') /\ (o.res = "ok" => Forgettable(remote', obj.st.id))
  BY <1>1, SpecType, DeleteSound DEF TypeOK, IdInv, KnownInv
<1>4. Known(remote', obj.st.id) /\ Known(remote', rid')
  BY <1>2, <1>3, ForwardFacts DEF IdInv, KnownInv
<1>5. CASE o.res = "ok"
  <2>1. c.st.id = NoId /\ c.phase = obj.phase
    BY DEF TypeOK, Resource, Status
  <2>2. SyncBranch(c) \in {"adoptGet", "create"}
    BY <2>1 DEF SyncBranch
  <2> HIDE DEF c
  <2>3. obj' = c /\ pc' = SyncBranch(c) /\ UNCHANGED then
    BY <1>1, <1>5
  <2>4. CallKeepsIds
    BY <1>2, <1>3, <1>4, <1>5, <2>1, <2>3, IdsAssumption DEF CallKeepsIds, Known
  <2>5. PlanInv'
    BY <1>2, <2>1, <2>2, <2>3 DEF PlanInv, IdInv
  <2>6. QED
    BY <2>4, <2>5, CallIds DEF IdInv
<1>6. CASE o.res # "ok"
  BY <1>1, <1>2, <1>3, <1>4, <1>6, ReportIds, SpecType, StatusIds DEF Exits
<1>7. QED
  BY <1>5, <1>6

LEMMA CreateIds ==
  ASSUME TypeOK, IdInv, Create
  PROVE  IdInv'
<1>1. PICK o \in CreateMonitor(remote, NameOf[key], obj.type) :
        /\ remote' = o.remote
        /\ IF o.res # "ok" THEN Report(NotReady(obj.st), "retry") /\ UNCHANGED rid
           ELSE LET st == [obj.st EXCEPT !.ready = TRUE, !.id = o.id, !.type = obj.type] IN
                /\ rid' = o.id
                /\ IF obj.paused
                   THEN /\ obj' = [obj EXCEPT !.st = st] /\ pc' = "createPause"
                        /\ UNCHANGED then
                   ELSE Report([st EXCEPT !.paused = FALSE], "publish")
  BY DEF Create
<1>2. pc # "idle" /\ UNCHANGED <<cr, cache, key, stale>>
  BY DEF Create
<1>3. Sound(remote, o) /\ Forward(remote, remote')
  <2>1. Sound(remote, o)
    BY SpecType, CreateSound DEF TypeOK
  <2>2. QED
    BY <1>1, <2>1 DEF Sound
<1>4. obj.st.id = NoId /\ Forgettable(remote', obj.st.id)
  BY IdsAssumption DEF Create, IdInv, PlanInv, Forgettable
<1> DEFINE st == [obj.st EXCEPT !.ready = TRUE, !.id = o.id, !.type = obj.type]
<1>5. st.id = o.id /\ [st EXCEPT !.paused = FALSE].id = o.id
  BY SpecType DEF Status
<1>6. CASE o.res # "ok"
  <2>1. Report(NotReady(obj.st), "retry") /\ UNCHANGED rid
    BY <1>1, <1>6
  <2>2. Known(remote', obj.st.id) /\ Known(remote', rid')
    BY <1>3, <2>1, ForwardFacts DEF IdInv, KnownInv
  <2>3. QED
    BY <1>2, <1>3, <2>1, <2>2, ReportIds, SpecType, StatusIds DEF Exits
<1>7. CASE o.res = "ok"
  <2>1. rid' = o.id /\ Known(remote', o.id)
    BY <1>1, <1>3, <1>7 DEF Sound
  <2>2. CASE obj.paused
    <3>1. obj' = [obj EXCEPT !.st = st] /\ pc' = "createPause" /\ UNCHANGED then
      BY <1>1, <1>7, <2>2
    <3> HIDE DEF st
    <3>2. obj'.st = st /\ obj'.phase = obj.phase
      BY <3>1 DEF TypeOK, Resource
    <3>3. CallKeepsIds
      BY <1>2, <1>3, <1>4, <1>5, <2>1, <3>2 DEF CallKeepsIds
    <3>4. PlanInv'
      BY <1>2, <3>1, <3>2 DEF PlanInv, IdInv
    <3>5. QED
      BY <3>3, <3>4, CallIds DEF IdInv
  <2>3. CASE ~obj.paused
    <3>1. Report([st EXCEPT !.paused = FALSE], "publish")
      BY <1>1, <1>7, <2>3
    <3> HIDE DEF st
    <3>2. QED
      BY <1>2, <1>3, <1>4, <1>5, <2>1, <3>1, ReportIds
  <2>4. QED
    BY <2>2, <2>3
<1>8. QED
  BY <1>6, <1>7

LEMMA PauseIds ==
  ASSUME TypeOK, IdInv, CreatePause \/ AdoptPause \/ RePause
  PROVE  IdInv'
<1>1. ASSUME NEW done \in Status, NEW failed \in Status, PauseResult(done, failed), pc # "idle",
             failed.id = obj.st.id,
             done.id = obj.st.id \/ (done.id = rid /\ Forgettable(remote, obj.st.id))
      PROVE  IdInv'
  <2>1. PICK o \in SetPaused(remote, rid, TRUE) :
          /\ remote' = o.remote
          /\ IF o.res = "ok" THEN Report(done, "publish") ELSE Report(failed, "retry")
    BY <1>1 DEF PauseResult
  <2>2. Forward(remote, remote') /\ UNCHANGED <<cr, cache, key, stale, rid>>
    BY <1>1, <2>1, SpecType, PauseForward DEF PauseResult, TypeOK
  <2>3. Known(remote', obj.st.id) /\ Known(remote', rid')
    BY <2>2, ForwardFacts DEF IdInv, KnownInv
  <2>4. Known(remote', done.id) /\ (done.id = obj.st.id \/ Forgettable(remote', obj.st.id))
    BY <1>1, <2>2, <2>3, ForwardFacts
  <2>5. QED
    BY <1>1, <2>1, <2>2, <2>3, <2>4, ReportIds DEF Exits
<1>2. /\ [obj.st EXCEPT !.paused = TRUE] \in Status
      /\ [obj.st EXCEPT !.paused = TRUE].id = obj.st.id
      /\ [NotReady(obj.st) EXCEPT !.paused = FALSE] \in Status
      /\ [NotReady(obj.st) EXCEPT !.paused = FALSE].id = obj.st.id
      /\ [NotOk(obj.st) EXCEPT !.paused = FALSE] \in Status
      /\ [NotOk(obj.st) EXCEPT !.paused = FALSE].id = obj.st.id
  BY SpecType DEF NotReady, NotOk, Status
<1>3. SyncedAs(rid) \in Status /\ SyncedAs(rid).id = rid
  BY SpecType, SyncedAsType DEF SyncedAs, Status
<1>4. CASE CreatePause
  BY <1>1, <1>2, <1>4 DEF CreatePause
<1>5. CASE AdoptPause
  BY <1>1, <1>2, <1>3, <1>5 DEF AdoptPause, IdInv, PlanInv
<1>6. CASE RePause
  BY <1>1, <1>2, <1>3, <1>6 DEF RePause, IdInv, PlanInv
<1>7. QED
  BY <1>4, <1>5, <1>6

LEMMA EditIds ==
  ASSUME TypeOK, IdInv, AdoptEdit \/ Edit
  PROVE  IdInv'
<1>1. ASSUME NEW pausing \in {"none", "adoptPause", "repause"}, NEW failed \in Status,
             EditResult(pausing, failed), pc # "idle", failed.id = obj.st.id
      PROVE  IdInv'
  <2>1. PICK o \in EditMonitor(remote, obj.st.id, NameOf[key], obj.type) :
          /\ remote' = o.remote
          /\ IF o.res # "ok" THEN Report(failed, "retry") /\ UNCHANGED rid
             ELSE /\ rid' = o.id
                  /\ IF pausing # "none" THEN pc' = pausing /\ UNCHANGED <<obj, then>>
                                         ELSE Report(SyncedAs(o.id), "publish")
    BY <1>1 DEF EditResult
  <2>2. /\ Sound(remote, o) /\ Forward(remote, remote')
        /\ o.res = "ok" => o.id = obj.st.id \/ Forgettable(remote', obj.st.id)
    <3>1. Sound(remote, o) /\ (o.res = "ok" => o.id = obj.st.id \/ Forgettable(remote, obj.st.id))
      BY SpecType, EditSound DEF TypeOK, IdInv, KnownInv
    <3>2. QED
      BY <2>1, <3>1, ForwardFacts DEF Sound
  <2>3. UNCHANGED <<cr, cache, key, stale>> /\ Known(remote', obj.st.id)
    BY <1>1, <2>2, ForwardFacts DEF EditResult, IdInv, KnownInv
  <2>4. CASE o.res # "ok"
    <3>1. Known(remote', rid')
      BY <2>1, <2>2, <2>4, ForwardFacts DEF IdInv, KnownInv
    <3>2. QED
      BY <1>1, <2>1, <2>2, <2>3, <2>4, <3>1, ReportIds DEF Exits
  <2>5. CASE o.res = "ok"
    <3>1. rid' = o.id /\ Known(remote', o.id)
      BY <2>1, <2>2, <2>5 DEF Sound
    <3>2. CASE pausing # "none"
      BY <1>1, <2>1, <2>2, <2>3, <2>5, <3>1, <3>2, SameIds
    <3>3. CASE pausing = "none"
      <4>1. SyncedAs(o.id).id = o.id
        BY SpecType DEF SyncedAs, Status
      <4>2. QED
        BY <1>1, <2>1, <2>2, <2>3, <2>5, <3>1, <3>3, <4>1, ReportIds
    <3>4. QED
      BY <3>2, <3>3
  <2>6. QED
    BY <2>4, <2>5
<1>2. /\ NotReady(obj.st) \in Status /\ NotOk(obj.st) \in Status
      /\ NotReady(obj.st).id = obj.st.id /\ NotOk(obj.st).id = obj.st.id
  BY SpecType, NotOkType, StatusIds
<1>3. CASE AdoptEdit
  BY <1>1, <1>2, <1>3 DEF AdoptEdit
<1>4. CASE Edit
  BY <1>1, <1>2, <1>4 DEF Edit
<1>5. QED
  BY <1>3, <1>4

LEMMA GetIds ==
  ASSUME TypeOK, IdInv, AdoptGet \/ Get
  PROVE  IdInv'
<1>1. UNCHANGED <<cr, cache, key, stale, rid, remote>> /\ Forward(remote, remote') /\ pc # "idle"
  BY ForwardRefl DEF AdoptGet, Get
<1>2. Known(remote', obj.st.id) /\ Known(remote', rid')
  BY <1>1 DEF IdInv, KnownInv
<1>3. NotReady(obj.st).id = obj.st.id /\ NotOk(obj.st).id = obj.st.id
  BY SpecType, StatusIds
<1>4. CASE AdoptGet
  <2> DEFINE st == [obj.st EXCEPT !.ready = TRUE, !.id = obj.adopt, !.type = obj.type,
                                  !.paused = obj.paused]
  <2>1. PICK o \in GetMonitor(remote, obj.adopt) :
          IF o.res = "ok" /\ remote[obj.adopt].type = obj.type THEN Report(st, "adoptEdit")
          ELSE Report(NotReady(obj.st), "retry")
    BY <1>4 DEF AdoptGet
  <2>2. st.id = obj.adopt
    BY SpecType DEF Status
  <2>3. o.res = "ok" => Known(remote', obj.adopt)
    BY <1>1, SpecType, GetFinds DEF TypeOK
  <2>4. Forgettable(remote', obj.st.id)
    BY <1>4, IdsAssumption DEF AdoptGet, IdInv, PlanInv, Forgettable
  <2> HIDE DEF st
  <2>5. QED
    BY <1>1, <1>2, <1>3, <2>1, <2>2, <2>3, <2>4, ReportIds DEF Exits
<1>5. CASE Get
  <2>1. \/ Report(NotOk(obj.st), "retry")
        \/ pc' \in {"drift", "edit"} /\ UNCHANGED <<obj, then>>
    BY <1>5 DEF Get
  <2>2. QED
    BY <1>1, <1>2, <1>3, <2>1, ReportIds, SameIds DEF Exits
<1>6. QED
  BY <1>4, <1>5

LEMMA OtherCallIds ==
  ASSUME TypeOK, IdInv, CorrectDrift \/ Publish \/ CleanupDelete
  PROVE  IdInv'
<1>1. UNCHANGED <<cr, cache, key, stale, rid>> /\ pc # "idle"
  BY DEF CorrectDrift, Publish, CleanupDelete
<1>2. Forward(remote, remote')
  <2>1. CASE CorrectDrift
    BY <2>1, SpecType, PauseForward DEF CorrectDrift, TypeOK
  <2>2. CASE Publish
    BY <2>2, ForwardRefl DEF Publish
  <2>3. CASE CleanupDelete
    BY <2>3, SpecType, DeleteSound DEF CleanupDelete, TypeOK, IdInv, KnownInv
  <2>4. QED
    BY <2>1, <2>2, <2>3
<1>3. Known(remote', obj.st.id) /\ Known(remote', rid')
  BY <1>1, <1>2, ForwardFacts DEF IdInv, KnownInv
<1>4. \E st, next : /\ Report(st, next) /\ st.id = obj.st.id
                    /\ next \in {"adoptEdit", "edit", "publish", "unfinalize"} \cup Exits
  <2>1. /\ [obj.st EXCEPT !.paused = obj.paused].id = obj.st.id
        /\ [NotOk(obj.st) EXCEPT !.paused = ~obj.paused].id = obj.st.id
        /\ [obj.st EXCEPT !.ok = TRUE].id = obj.st.id /\ NotOk(obj.st).id = obj.st.id
    BY SpecType DEF NotOk, Status
  <2>2. CASE CorrectDrift
    BY <2>1, <2>2 DEF CorrectDrift, Exits
  <2>3. CASE Publish
    BY <2>1, <2>3 DEF Publish, Exits
  <2>4. CASE CleanupDelete
    BY <2>4 DEF CleanupDelete, Exits
  <2>5. QED
    BY <2>2, <2>3, <2>4
<1>5. QED
  BY <1>1, <1>2, <1>3, <1>4, ReportIds
-----------------------------------------------------------------------------
LEMMA BeginIds ==
  ASSUME TypeOK, IdInv, NEW m \in Monitors, Begin(m)
  PROVE  IdInv'
<1> USE DEF IdInv
<1>1. pc = "idle" /\ UNCHANGED <<cr, cache, remote, rid>>
  BY DEF Begin
<1>2. AbsentInv'
  BY <1>1 DEF AbsentInv
<1>3. CASE cache[m].phase = "absent"
  <2>1. pc' = "idle" /\ UNCHANGED <<obj, then>>
    BY <1>1, <1>3 DEF Begin
  <2>2. QED
    BY <1>1, <1>2, <2>1 DEF KnownInv, PlanInv, SeenInv
<1>4. CASE cache[m].phase # "absent"
  <2> DEFINE c == [cache[m] EXCEPT !.st = NotReady(cache[m].st)]
  <2>1. key' = m /\ stale' = (cache[m].st # cr[m].st)
    BY <1>4 DEF Begin
  <2>2. c.st.id = cache[m].st.id /\ c.phase = cache[m].phase
    BY StatusIds DEF TypeOK, Resource
  <2>3. \/ obj' = c /\ pc' = "status" /\ then' = "retry"
        \/ obj' = cache[m] /\ UNCHANGED then /\ pc' \in {"track", "finalize", "retype", "get"}
        \/ /\ obj' = cache[m] /\ UNCHANGED then /\ pc' \in {"adoptGet", "create"}
           /\ cache[m].st.id = NoId
    <3> HIDE DEF c
    <3>1. \/ AfterFinalizer(cache[m]) \in {"retype", "get"}
          \/ AfterFinalizer(cache[m]) \in {"adoptGet", "create"} /\ cache[m].st.id = NoId
      <4>1. CASE cache[m].st.id = NoId
        BY <4>1 DEF AfterFinalizer, TypeChanged, SyncBranch
      <4>2. CASE cache[m].st.id # NoId
        BY <4>2 DEF AfterFinalizer, SyncBranch
      <4>3. QED
        BY <4>1, <4>2
    <3>2. QED
      BY <1>4, <3>1 DEF Begin, c
  <2> HIDE DEF c
  <2>4. obj'.st.id = cache[m].st.id /\ obj'.phase # "absent"
    BY <1>4, <2>2, <2>3
  <2>5. KnownInv'
    BY <1>1, <2>4 DEF KnownInv
  <2>6. PlanInv'
    BY <1>1, <2>3, <2>4 DEF PlanInv, Exits
  <2>7. SeenInv'
    BY <1>1, <2>1, <2>4 DEF SeenInv
  <2>8. QED
    BY <1>2, <2>5, <2>6, <2>7
<1>5. QED
  BY <1>3, <1>4

(* A write whose status is the server's, the copy's, or empty. *)
LEMMA WriteIds ==
  ASSUME TypeOK, KnownInv, AbsentInv, NEW m \in Monitors, NEW c, Write(m, c),
         UNCHANGED <<remote, cache>>, Known(remote, obj'.st.id), Known(remote, rid'),
         c.st.id \in {NoId, cr[m].st.id, obj.st.id}, c.phase = "absent" => c.st.id = NoId
  PROVE  KnownInv' /\ AbsentInv'
<1>1. cr' = [cr EXCEPT ![m] = c]
  BY DEF Write
<1>2. Known(remote, NoId)
  BY IdsAssumption DEF Known
<1>3. Known(remote, c.st.id)
  BY <1>2 DEF KnownInv
<1>4. QED
  BY <1>1, <1>3 DEF KnownInv, AbsentInv, TypeOK

LEMMA AddFinalizerIds ==
  ASSUME TypeOK, CopyInv, IdInv, AddFinalizer
  PROVE  IdInv'
<1> DEFINE c == [obj EXCEPT !.fin = TRUE, !.st = cr[key].st]
<1>1. CASE cur
  <2>1. /\ Write(key, c) /\ obj' = c /\ pc' = AfterFinalizer(c)
        /\ UNCHANGED <<key, cache, remote, rid, then, stale>> /\ pc = "finalize"
    BY <1>1 DEF AddFinalizer
  <2>2. c.st = cr[key].st /\ c.phase = obj.phase /\ c.phase = cr[key].phase
    BY <1>1 DEF TypeOK, Resource, CopyInv
  <2>3. \/ pc' \notin {"idle", "create", "adoptGet", "adoptPause", "repause"}
        \/ pc' \in {"create", "adoptGet"} /\ c.st.id = NoId
    <3> HIDE DEF c
    <3> QED BY <2>1 DEF AfterFinalizer, SyncBranch
  <2> HIDE DEF c
  <2>4. KnownInv' /\ AbsentInv'
    BY <2>1, <2>2, WriteIds DEF TypeOK, IdInv, KnownInv, AbsentInv
  <2>5. PlanInv'
    BY <2>1, <2>2, <2>3 DEF PlanInv, IdInv
  <2>6. SeenInv'
    BY <2>1, <2>2 DEF SeenInv, Write, TypeOK
  <2>7. QED
    BY <2>4, <2>5, <2>6 DEF IdInv
<1>2. CASE ~cur
  BY <1>2, ReturnIds DEF AddFinalizer, IdInv
<1>3. QED
  BY <1>1, <1>2 DEF TypeOK

LEMMA StatusWrittenIds ==
  ASSUME TypeOK, SyncInv, CopyInv, IdInv, StatusWritten
  PROVE  IdInv'
<1> DEFINE c == [cr[key] EXCEPT !.st = obj.st]
<1>1. Write(key, c) /\ UNCHANGED <<cache, remote>> /\ pc = "status"
  BY DEF StatusWritten
<1>2. c.st = obj.st /\ c.phase = cr[key].phase
  BY DEF TypeOK, Resource
<1>3. cr[key].phase # "absent"
  <2>1. CASE cur
    BY <1>1, <2>1 DEF CopyInv, IdInv, PlanInv, TypeOK, Resource
  <2>2. CASE ~cur
    BY <2>2 DEF StatusWritten, SyncInv
  <2>3. QED
    BY <2>1, <2>2 DEF TypeOK
<1> HIDE DEF c
<1>4. CASE then \in Exits
  <2>1. Return(then)
    BY <1>4 DEF StatusWritten
  <2>2. pc' = "idle" /\ obj' = Blank /\ rid' = NoId /\ then' = "done"
    BY <2>1 DEF Return
  <2>3. Known(remote, obj'.st.id) /\ Known(remote, rid')
    BY <2>2, IdsAssumption DEF Known, Blank, New, NoStatus
  <2>4. KnownInv' /\ AbsentInv'
    BY <1>1, <1>2, <1>3, <2>3, WriteIds DEF TypeOK, IdInv
  <2>5. QED
    BY <2>2, <2>4 DEF IdInv, PlanInv, SeenInv, Exits
<1>5. CASE then \notin Exits
  <2>1. pc' = then /\ then' = "done" /\ UNCHANGED <<key, obj, rid, stale>>
    BY <1>5 DEF StatusWritten
  <2>2. KnownInv' /\ AbsentInv'
    BY <1>1, <1>2, <1>3, <2>1, WriteIds DEF TypeOK, IdInv, KnownInv
  <2>3. PlanInv'
    BY <1>1, <1>5, <2>1 DEF IdInv, PlanInv, Exits
  <2>4. SeenInv'
    BY <1>1, <1>2, <2>1 DEF SeenInv, Write, TypeOK
  <2>5. QED
    BY <2>2, <2>3, <2>4 DEF IdInv
<1>6. QED
  BY <1>4, <1>5

LEMMA TrackIds ==
  ASSUME TypeOK, IdInv, Track
  PROVE  IdInv'
<1>1. UNCHANGED <<cache, remote>> /\ pc = "track"
  BY DEF Track
<1>2. CASE obj.tracked \/ cache[key].tracked
  BY <1>1, <1>2, SameIds, ForwardRefl DEF Track, IdInv, KnownInv
<1>3. CASE ~(obj.tracked \/ cache[key].tracked) /\ key \in synced /\ cr[key].phase # "absent"
  <2> DEFINE c == [cr[key] EXCEPT !.tracked = TRUE]
  <2>1. Write(key, c) /\ pc' = "cleanup" /\ UNCHANGED <<key, obj, rid, then, stale>>
    BY <1>3 DEF Track
  <2>2. c.st = cr[key].st /\ c.phase # "absent"
    BY <1>3 DEF TypeOK, Resource
  <2> HIDE DEF c
  <2>3. KnownInv' /\ AbsentInv'
    BY <1>1, <2>1, <2>2, WriteIds DEF TypeOK, IdInv, KnownInv
  <2>4. PlanInv'
    BY <1>1, <2>1 DEF IdInv, PlanInv
  <2>5. SeenInv'
    BY <1>1, <2>1, <2>2 DEF IdInv, SeenInv, Write, TypeOK
  <2>6. QED
    BY <2>3, <2>4, <2>5 DEF IdInv
<1>4. CASE ~(obj.tracked \/ cache[key].tracked) /\ ~(key \in synced /\ cr[key].phase # "absent")
  BY <1>1, <1>4, ReturnIds DEF Track, IdInv
<1>5. QED
  BY <1>2, <1>3, <1>4

LEMMA CleanupIds ==
  ASSUME TypeOK, IdInv, Cleanup
  PROVE  IdInv'
<1>1. UNCHANGED <<cr, cache, remote>> /\ pc = "cleanup"
  BY DEF Cleanup
<1>2. CASE cache[key].phase = "absent"
  BY <1>1, <1>2, ReturnIds DEF Cleanup, IdInv
<1>3. CASE cache[key].phase # "absent"
  <2>1. /\ obj' = cache[key] /\ stale' = (cache[key].st # cr[key].st) /\ UNCHANGED <<key, rid>>
        /\ \/ pc' = "status" /\ then' = "unfinalize"
           \/ pc' = "delete" /\ UNCHANGED then
    BY <1>3 DEF Cleanup
  <2>2. QED
    BY <1>1, <1>3, <2>1 DEF IdInv, KnownInv, AbsentInv, PlanInv, SeenInv, TypeOK
<1>4. QED
  BY <1>2, <1>3

LEMMA RemoveFinalizerIds ==
  ASSUME TypeOK, CopyInv, IdInv, RemoveFinalizer
  PROVE  IdInv'
<1>1. UNCHANGED <<cache, remote>>
  BY DEF RemoveFinalizer
<1>2. CASE cur
  <2>1. Write(key, Unfinalized(obj)) /\ Return("done") /\ obj = cr[key]
    BY <1>2 DEF RemoveFinalizer, CopyInv
  <2>2. pc' = "idle" /\ obj' = Blank /\ rid' = NoId /\ then' = "done"
    BY <2>1 DEF Return
  <2>3. Blank.st.id = NoId /\ Known(remote, NoId)
    BY IdsAssumption DEF Blank, New, NoStatus, Known
  <2>4. \/ Unfinalized(obj) = Blank
        \/ Unfinalized(obj).st = obj.st /\ Unfinalized(obj).phase = obj.phase
    BY DEF Unfinalized, TypeOK, Resource
  <2>5. Unfinalized(obj).phase = "absent" => Unfinalized(obj).st.id = NoId
    BY <2>1, <2>3, <2>4 DEF IdInv, AbsentInv, TypeOK
  <2>6. KnownInv' /\ AbsentInv'
    BY <1>1, <2>1, <2>2, <2>3, <2>4, <2>5, WriteIds DEF TypeOK, IdInv
  <2>7. QED
    BY <2>2, <2>6 DEF IdInv, PlanInv, SeenInv, Exits
<1>3. CASE ~cur
  BY <1>1, <1>3, ReturnIds DEF RemoveFinalizer, IdInv
<1>4. QED
  BY <1>2, <1>3 DEF TypeOK

(* A user writes no status: a new resource has none, another keeps its own. *)
LEMMA UserKeepsStatus ==
  ASSUME TypeOK, NEW m \in Monitors, Apply(m) \/ EditSpec(m) \/ Annotate(m) \/ Delete(m)
  PROVE  \E e, c : /\ UserWrite(e, m, c)
                   /\ \/ c.st.id = NoId /\ (cr[m].phase = "absent" \/ c = Blank)
                      \/ c.st = cr[m].st /\ c.phase # "absent"
<1>1. CASE Apply(m)
  <2>1. PICK ty, p, pr, a : UserWrite("apply", m, New(ty, p, pr, a)) /\ cr[m].phase = "absent"
    BY <1>1 DEF Apply
  <2>2. New(ty, p, pr, a).st.id = NoId
    BY DEF New, NoStatus
  <2>3. QED
    BY <2>1, <2>2
<1>2. CASE EditSpec(m)
  <2>1. /\ \A ty : [cr[m] EXCEPT !.type = ty].st = cr[m].st
                   /\ [cr[m] EXCEPT !.type = ty].phase = cr[m].phase
        /\ [cr[m] EXCEPT !.paused = ~@].st = cr[m].st
        /\ [cr[m] EXCEPT !.paused = ~@].phase = cr[m].phase
        /\ [cr[m] EXCEPT !.prune = ~@].st = cr[m].st
        /\ [cr[m] EXCEPT !.prune = ~@].phase = cr[m].phase
    BY DEF TypeOK, Resource
  <2>2. QED
    BY <1>2, <2>1 DEF EditSpec
<1>3. CASE Annotate(m)
  <2>1. /\ \A i : [cr[m] EXCEPT !.adopt = i].st = cr[m].st
                  /\ [cr[m] EXCEPT !.adopt = i].phase = cr[m].phase
        /\ [cr[m] EXCEPT !.skip = ~@].st = cr[m].st
        /\ [cr[m] EXCEPT !.skip = ~@].phase = cr[m].phase
    BY DEF TypeOK, Resource
  <2>2. QED
    BY <1>3, <2>1 DEF Annotate
<1>4. CASE Delete(m)
  <2>1. /\ [cr[m] EXCEPT !.phase = "deleting"].st = cr[m].st
        /\ [cr[m] EXCEPT !.phase = "deleting"].phase = "deleting"
        /\ Blank.st.id = NoId
    BY DEF TypeOK, Resource, Blank, New, NoStatus
  <2>2. QED
    BY <1>4, <2>1 DEF Delete
<1>5. QED
  BY <1>1, <1>2, <1>3, <1>4

LEMMA UserIds ==
  ASSUME TypeOK, IdInv, NEW m \in Monitors, Apply(m) \/ EditSpec(m) \/ Annotate(m) \/ Delete(m)
  PROVE  IdInv'
<1>1. PICK e, c : /\ UserWrite(e, m, c)
                  /\ \/ c.st.id = NoId /\ (cr[m].phase = "absent" \/ c = Blank)
                     \/ c.st = cr[m].st /\ c.phase # "absent"
  BY UserKeepsStatus
<1>2. Write(m, c) /\ UNCHANGED <<cache, remote, pc, key, obj, rid, then, stale>>
  BY <1>1 DEF UserWrite
<1>3. KnownInv' /\ AbsentInv'
  BY <1>1, <1>2, WriteIds DEF IdInv, KnownInv
<1>4. PlanInv'
  BY <1>2 DEF IdInv, PlanInv
<1>5. SeenInv'
  BY <1>1, <1>2 DEF IdInv, SeenInv, Write, TypeOK
<1>6. QED
  BY <1>3, <1>4, <1>5 DEF IdInv

LEMMA EnvironmentIds ==
  ASSUME TypeOK, IdInv, Environment
  PROVE  IdInv'
<1> USE DEF IdInv, KnownInv, AbsentInv, PlanInv, SeenInv
<1>1. CASE \E m \in Monitors : TimeOut(m)
  BY <1>1 DEF TimeOut, worker
<1>2. CASE AccountLost \/ AccountRestored
  BY <1>2 DEF AccountLost, AccountRestored, worker
<1>3. CASE Dashboard
  <2>1. UNCHANGED <<cr, cache, worker>>
    BY <1>3 DEF Dashboard
  <2>2. PICK i \in Ids : remote' = [remote EXCEPT ![i].paused = ~@] \/ remote' = Gone(remote, i)
    BY <1>3 DEF Dashboard
  <2>3. \/ \E p : remote' = [remote EXCEPT ![i].paused = p]
        \/ remote' = Gone(remote, i)
    BY <2>2
  <2>4. Forward(remote, remote')
    <3>1. \A p : Forward(remote, [remote EXCEPT ![i].paused = p])
      BY ChangeForward DEF TypeOK
    <3>2. Forward(remote, Gone(remote, i))
      BY ChangeForward DEF TypeOK
    <3>3. QED
      BY <2>3, <3>1, <3>2
  <2>5. QED
    BY <2>1, <2>4, ForwardFacts DEF worker
<1>4. CASE Restart
  <2>1. Blank.st.id = NoId /\ Known(remote, NoId)
    BY IdsAssumption DEF Blank, New, NoStatus, Known
  <2>2. QED
    BY <1>4, <2>1 DEF Restart, Exits
<1>5. CASE DependencyMissing
  BY <1>5, ReturnIds DEF DependencyMissing
<1>6. CASE \E m \in Monitors : Apply(m) \/ EditSpec(m) \/ Annotate(m) \/ Delete(m)
  BY <1>6, UserIds
<1>7. QED
  BY <1>1, <1>2, <1>3, <1>4, <1>5, <1>6 DEF Environment

LEMMA NextIds == IInv /\ IdInv /\ [Next]_vars => IdInv'
<1> SUFFICES ASSUME TypeOK, SyncInv, CopyInv, IdInv, [Next]_vars PROVE IdInv'
  BY DEF IInv
<1>1. CASE Deliver
  BY <1>1 DEF Deliver, worker, IdInv, KnownInv, AbsentInv, PlanInv, SeenInv
<1>2. CASE \E m \in Monitors : Begin(m)
  BY <1>2, BeginIds
<1>3. CASE \E m \in Monitors : Timer(m)
  BY <1>3 DEF Timer, worker, IdInv, KnownInv, AbsentInv, PlanInv, SeenInv
<1>4. CASE Step
  <2>1. CASE StatusLost
    BY <2>1, ReturnIds DEF StatusLost, IdInv
  <2>2. QED
    BY <1>4, <2>1, AddFinalizerIds, StatusWrittenIds, TrackIds, CleanupIds, RemoveFinalizerIds,
       RetypeIds, CreateIds, PauseIds, EditIds, GetIds, OtherCallIds DEF Step
<1>5. CASE UNCHANGED vars
  BY <1>5 DEF vars, IdInv, KnownInv, AbsentInv, PlanInv, SeenInv
<1>6. QED
  BY <1>1, <1>2, <1>3, <1>4, <1>5, EnvironmentIds DEF Next

(* Every identifier in a status is in use, and a worker that did not begin *)
(* with an outdated status gives one up only when nothing lives under it.  *)
THEOREM IdentifiersKnown == Spec => []IdInv
<1>1. IInv /\ IdInv /\ [Next]_vars => IdInv'
  BY NextIds
<1>2. QED
  BY <1>1, InitIds, Invariance, PTL DEF Spec
-----------------------------------------------------------------------------
(* Only a status write changes the identifier of a resource that stays. *)
LEMMA OnlyStatusWrites ==
  ASSUME IInv, IdInv, [Next]_vars, NEW m \in Monitors, cr[m].st.id # NoId,
         cr'[m].phase # "absent", cr'[m].st.id # cr[m].st.id
  PROVE  StatusWritten /\ m = key
<1> USE DEF IInv
<1>1. cr'[m] # cr[m]
  OBVIOUS
<1>2. CASE AddFinalizer
  <2> DEFINE c == [obj EXCEPT !.fin = TRUE, !.st = cr[key].st]
  <2>1. Write(key, c)
    BY <1>1, <1>2 DEF AddFinalizer
  <2>2. c.st = cr[key].st
    BY DEF TypeOK, Resource
  <2> HIDE DEF c
  <2>3. QED
    BY <2>1, <2>2 DEF Write, TypeOK
<1>3. CASE StatusWritten
  BY <1>1, <1>3 DEF StatusWritten, Write, TypeOK
<1>4. CASE Track
  BY <1>1, <1>4 DEF Track, Write, TypeOK, Resource
<1>5. CASE RemoveFinalizer
  <2>1. cur /\ obj = cr[key] /\ Write(key, Unfinalized(obj))
    BY <1>1, <1>5 DEF RemoveFinalizer, CopyInv, TypeOK
  <2>2. m = key /\ cr'[key] = Unfinalized(obj)
    BY <1>1, <2>1 DEF Write, TypeOK
  <2>3. Blank.phase = "absent" /\ [obj EXCEPT !.fin = FALSE].st = obj.st
    BY DEF Blank, New, TypeOK, Resource
  <2>4. QED
    BY <2>1, <2>2, <2>3 DEF Unfinalized
<1>6. ASSUME NEW k \in Monitors, Apply(k) \/ EditSpec(k) \/ Annotate(k) \/ Delete(k) PROVE FALSE
  <2>1. PICK e, c : /\ UserWrite(e, k, c)
                    /\ \/ c.st.id = NoId /\ (cr[k].phase = "absent" \/ c = Blank)
                       \/ c.st = cr[k].st /\ c.phase # "absent"
    BY <1>6, UserKeepsStatus
  <2>2. m = k /\ cr'[k] = c
    BY <1>1, <2>1 DEF UserWrite, Write, TypeOK
  <2>3. Blank.phase = "absent"
    BY DEF Blank, New
  <2>4. QED
    BY <2>1, <2>2, <2>3 DEF IdInv, AbsentInv
<1>7. CASE UNCHANGED cr
  BY <1>1, <1>7
<1>8. CASE \/ StatusLost \/ Cleanup \/ CleanupDelete \/ Retype \/ Create \/ CreatePause
           \/ AdoptGet \/ AdoptEdit \/ AdoptPause \/ Get \/ CorrectDrift \/ Edit \/ RePause
           \/ Publish
  BY <1>7, <1>8, CallEdits DEF StatusLost, Cleanup, CleanupDelete, CopyEdited
<1>9. CASE Deliver \/ \E k \in Monitors : Begin(k) \/ Timer(k) \/ TimeOut(k)
  BY <1>7, <1>9 DEF Deliver, Begin, Timer, TimeOut
<1>10. CASE DependencyMissing \/ AccountLost \/ AccountRestored \/ Dashboard \/ Restart
  BY <1>7, <1>10 DEF DependencyMissing, AccountLost, AccountRestored, Dashboard, Restart
<1>11. CASE UNCHANGED vars
  BY <1>7, <1>11 DEF vars
<1>12. QED
  BY <1>2, <1>3, <1>4, <1>5, <1>6, <1>8, <1>9, <1>10, <1>11 DEF Next, Step, Environment

(* No reconcile that began with the server's status makes a resource       *)
(* forget the identifier of a living monitor, whatever recreations,        *)
(* retried POSTs, conflicts and users' edits happen in between.            *)
THEOREM IdIsKept == Spec => IdKept
<1>1. IInv /\ IdInv /\ [Next]_vars =>
        [~stale => \A m \in Monitors :
           LET i == cr[m].st.id IN
           i # NoId /\ i \notin Confusable /\ cr'[m].phase # "absent" /\ cr'[m].st.id # i
             => ~Live(remote, i)]_vars
  <2> SUFFICES ASSUME IInv, IdInv, [Next]_vars, ~stale, NEW m \in Monitors,
                      cr[m].st.id # NoId, cr[m].st.id \notin Confusable,
                      cr'[m].phase # "absent", cr'[m].st.id # cr[m].st.id
               PROVE  ~Live(remote, cr[m].st.id)
    OBVIOUS
  <2>1. StatusWritten /\ m = key
    BY OnlyStatusWrites
  <2>2. pc = "status" /\ cr'[key].st = obj.st
    BY <2>1 DEF StatusWritten, Write, IInv, TypeOK, Resource
  <2>3. Forgettable(remote, cr[key].st.id)
    BY <2>1, <2>2 DEF IdInv, SeenInv
  <2>4. QED
    BY <2>1, <2>3 DEF Forgettable, Live
<1>2. QED
  BY <1>1, Invariance, IdentifiersKnown, PTL DEF Spec, IdKept
=============================================================================
