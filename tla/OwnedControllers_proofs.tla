----------------------- MODULE OwnedControllers_proofs -----------------------
(***************************************************************************)
(* Theorems about the controllers of windows, groups and integrations for  *)
(* every account, every set of events and every budget: the variables keep *)
(* their types, and the controllers implement OwnershipLedger.             *)
(***************************************************************************)
EXTENDS OwnedControllers, TLAPS

(***************************************************************************)
(* What the operations of the client return.                               *)
(***************************************************************************)

(* No object appears and no identifier is free again. *)
Shrunk(r, s) ==
  /\ s \in Objects /\ Alive(s) \subseteq Alive(r)
  /\ \A i \in Ids : r[i].state # "free" => s[i].state # "free"

(* Objects appear with identifiers that were free. *)
Grown(r, s) ==
  /\ s \in Objects /\ Alive(r) \subseteq Alive(s)
  /\ \A i \in Ids : r[i].state # "free" => s[i].state = r[i].state

LEMMA ByFaultElim ==
  ASSUME NEW S, S \subseteq Outcomes, NEW o \in ByFault(S)
  PROVE  o \in Outcomes /\ \E q \in S : o.remote = q.remote /\ o.res = q.res /\ o.id = q.id
BY DEF ByFault, Outcomes

LEMMA OutcomeType ==
  ASSUME NEW r \in Objects, NEW i \in AnyId
  PROVE  Ok(r, i) \in Outcomes /\ Err(r) \in Outcomes
         /\ Outcome(r, "notFound", NoId) \in Outcomes
BY DEF Ok, Err, Outcome, Outcomes, AnyId

LEMMA SomePayloadType == SomePayload \in Payload
BY DataAssumption DEF SomePayload, Payload

LEMMA SameGrown ==
  ASSUME NEW r \in Objects
  PROVE  Grown(r, r) /\ Shrunk(r, r)
BY DEF Grown, Shrunk

LEMMA GrownTwice ==
  ASSUME NEW r, NEW s, NEW t, Grown(r, s), Grown(s, t)
  PROVE  Grown(r, t)
BY DEF Grown

LEMMA AddedFacts ==
  ASSUME NEW r \in Objects, NEW p \in Payload, Free(r) # {}
  PROVE  /\ NextId(r) \in Ids
         /\ Grown(r, Added(r, NextId(r), p))
         /\ Added(r, NextId(r), p)[NextId(r)].state = "live"
<1>1. NextId(r) \in Ids /\ r[NextId(r)].state = "free"
  BY DEF NextId, Free
<1>2. [state |-> "live", data |-> p] \in RemoteObject
  BY DEF RemoteObject
<1>3. Added(r, NextId(r), p) \in Objects
  BY <1>1, <1>2 DEF Added, Objects
<1>4. QED
  BY <1>1, <1>3 DEF Added, Grown, Alive, Objects

LEMMA GoneFacts ==
  ASSUME NEW r \in Objects, NEW i \in Ids
  PROVE  Shrunk(r, Gone(r, i)) /\ i \notin Alive(Gone(r, i))
<1>1. [r[i] EXCEPT !.state = "gone"] \in RemoteObject
  BY DEF Objects, RemoteObject
<1>2. Gone(r, i) = [r EXCEPT ![i] = [r[i] EXCEPT !.state = "gone"]]
  BY DEF Gone
<1>3. Gone(r, i) \in Objects
  BY <1>1, <1>2 DEF Objects
<1>4. \A j \in Ids : Gone(r, i)[j].state = IF j = i THEN "gone" ELSE r[j].state
  BY <1>2 DEF Objects, RemoteObject
<1>5. QED
  BY <1>3, <1>4 DEF Shrunk, Alive

(* Nothing but an object's data changes. *)
LEMMA ChangedFacts ==
  ASSUME NEW r \in Objects, NEW i \in Ids, NEW p \in Payload, r[i].state # "free"
  PROVE  Shrunk(r, [r EXCEPT ![i].data = p]) /\ Grown(r, [r EXCEPT ![i].data = p])
<1>1. [r[i] EXCEPT !.data = p] \in RemoteObject
  BY DEF Objects, RemoteObject
<1>2. [r EXCEPT ![i].data = p] = [r EXCEPT ![i] = [r[i] EXCEPT !.data = p]]
  OBVIOUS
<1>3. [r EXCEPT ![i].data = p] \in Objects
  BY <1>1, <1>2 DEF Objects
<1>4. \A j \in Ids : [r EXCEPT ![i].data = p][j].state = r[j].state
  BY <1>2 DEF Objects, RemoteObject
<1>5. QED
  BY <1>3, <1>4 DEF Shrunk, Grown, Alive

LEMMA PostOnceFacts ==
  ASSUME NEW r \in Objects, NEW p \in Payload, NEW o \in PostOnce(r, p)
  PROVE  /\ o \in Outcomes /\ Grown(r, o.remote)
         /\ o.res = "ok" => o.id \in Ids /\ o.remote[o.id].state = "live"
<1>1. CASE Free(r) = {}
  <2>1. o = Err(r)
    BY <1>1 DEF PostOnce
  <2>2. QED
    BY <2>1, OutcomeType, SameGrown DEF Err, Outcome, AnyId
<1>2. CASE Free(r) # {}
  <2>1. o = Ok(Added(r, NextId(r), p), NextId(r))
    BY <1>2 DEF PostOnce
  <2>2. Added(r, NextId(r), p) \in Objects
    BY <1>2, AddedFacts DEF Grown
  <2>3. NextId(r) \in AnyId
    BY <1>2, AddedFacts DEF AnyId
  <2>4. o \in Outcomes
    BY <2>1, <2>2, <2>3, OutcomeType
  <2>5. o.remote = Added(r, NextId(r), p) /\ o.id = NextId(r)
    BY <2>1 DEF Ok, Outcome
  <2>6. QED
    BY <1>2, <2>4, <2>5, AddedFacts
<1>3. QED
  BY <1>1, <1>2

LEMMA CreateFacts ==
  ASSUME NEW r \in Objects, NEW p \in Payload, NEW o \in CreateObject(r, p)
  PROVE  /\ o \in Outcomes /\ Grown(r, o.remote)
         /\ o.res = "ok" => o.id \in Ids /\ o.remote[o.id].state = "live"
<1> DEFINE once == PostOnce(r, p)
           lost == {q.remote : q \in {q \in once : q.res = "ok"}}
           Good(q) == /\ q \in Outcomes /\ Grown(r, q.remote)
                      /\ q.res = "ok" => q.id \in Ids /\ q.remote[q.id].state = "live"
<1>1. \A q \in once : Good(q)
  BY PostOnceFacts
<1>2. \A t \in lost : t \in Objects /\ Grown(r, t)
  BY <1>1 DEF Outcomes
<1>3. Good(Err(r)) /\ \A t \in lost : Good(Err(t))
  <2> HIDE DEF lost
  <2>1. \A t \in Objects : Err(t) \in Outcomes /\ Err(t).remote = t /\ Err(t).res = "err"
    BY OutcomeType DEF Err, Outcome, AnyId
  <2>2. QED
    BY <1>2, <2>1, SameGrown
<1>4. \A t \in lost : \A q \in PostOnce(t, p) : Good(q)
  <2> HIDE DEF lost
  <2> TAKE t \in lost
  <2> TAKE q \in PostOnce(t, p)
  <2>1. t \in Objects /\ Grown(r, t)
    BY <1>2
  <2>2. /\ q \in Outcomes /\ Grown(t, q.remote)
        /\ q.res = "ok" => q.id \in Ids /\ q.remote[q.id].state = "live"
    BY <2>1, PostOnceFacts
  <2>3. QED
    BY <2>1, <2>2, GrownTwice
<1> DEFINE again == {Err(r)} \cup {Err(t) : t \in lost} \cup UNION {PostOnce(t, p) : t \in lost}
<1>5. \A q \in again : Good(q)
  <2> HIDE DEF lost, Good
  <2> QED BY <1>3, <1>4
<1>6. o \in once \/ o \in ByFault(again)
  BY DEF CreateObject
<1>7. CASE o \in once
  BY <1>1, <1>7
<1>8. CASE o \in ByFault(again)
  <2> HIDE DEF again
  <2>1. again \subseteq Outcomes
    BY <1>5
  <2>2. PICK q \in again : o.remote = q.remote /\ o.res = q.res /\ o.id = q.id
    BY <1>8, <2>1, ByFaultElim
  <2>3. o \in Outcomes
    BY <1>8, <2>1, ByFaultElim
  <2>4. QED
    BY <1>5, <2>2, <2>3
<1>9. QED
  BY <1>6, <1>7, <1>8

LEMMA UpdateFacts ==
  ASSUME NEW r \in Objects, NEW i \in AnyId, NEW p \in Payload, NEW o \in UpdateObject(r, i, p)
  PROVE  /\ o \in Outcomes /\ Shrunk(r, o.remote)
         /\ o.res = "notFound" => i \notin Alive(o.remote) \/ i \in Confusable
<1> DEFINE done == [r EXCEPT ![i].data = p]
<1>1. CASE ~Live(r, i)
  <2>1. i \notin Alive(r)
    BY <1>1 DEF Live, Alive
  <2>2. o.remote = r
    BY <1>1 DEF UpdateObject, ByFault, Err, Outcome
  <2>3. {Err(r)} \subseteq Outcomes /\ Outcome(r, "notFound", NoId) \in Outcomes
    BY OutcomeType
  <2>4. o \in Outcomes
    BY <1>1, <2>3, ByFaultElim DEF UpdateObject
  <2>5. QED
    BY <2>1, <2>2, <2>4, SameGrown
<1>2. CASE Live(r, i)
  <2>1. i \in Ids /\ r[i].state = "live"
    BY <1>2 DEF Live
  <2>2. Shrunk(r, done) /\ done \in Objects
    BY <2>1, ChangedFacts DEF Shrunk
  <2> HIDE DEF done
  <2> DEFINE failed == {Err(r), Err(done)}
             lost == {Outcome(r, "notFound", NoId), Outcome(done, "notFound", NoId)}
  <2>3. failed \subseteq Outcomes /\ lost \subseteq Outcomes /\ Ok(done, i) \in Outcomes
    BY <2>2, OutcomeType
  <2>4. o = Ok(done, i) \/ o \in ByFault(failed) \/ (i \in Confusable /\ o \in ByFault(lost))
    BY <1>2 DEF UpdateObject, Confused, done
  <2>5. o \in Outcomes
    BY <2>3, <2>4, ByFaultElim
  <2>6. o.remote \in {r, done}
    BY <2>4 DEF ByFault, Ok, Err, Outcome
  <2>7. o.res = "notFound" => i \in Confusable
    BY <2>4 DEF ByFault, Ok, Err, Outcome
  <2>8. QED
    BY <2>2, <2>5, <2>6, <2>7, SameGrown
<1>3. QED
  BY <1>1, <1>2

LEMMA DeleteFacts ==
  ASSUME NEW r \in Objects, NEW i \in AnyId, NEW o \in DeleteObject(r, i)
  PROVE  /\ o \in Outcomes /\ Shrunk(r, o.remote)
         /\ o.res = "ok" => i \notin Alive(o.remote) \/ i \in Confusable
<1>1. CASE ~Live(r, i)
  <2>1. i \notin Alive(r)
    BY <1>1 DEF Live, Alive
  <2>2. o.remote = r
    BY <1>1 DEF DeleteObject, ByFault, Err, Ok, Outcome
  <2>3. {Err(r)} \subseteq Outcomes /\ Ok(r, NoId) \in Outcomes
    BY OutcomeType DEF AnyId
  <2>4. o \in Outcomes
    BY <1>1, <2>3, ByFaultElim DEF DeleteObject
  <2>5. QED
    BY <2>1, <2>2, <2>4, SameGrown
<1>2. CASE Live(r, i)
  <2>1. i \in Ids
    BY <1>2 DEF Live
  <2>2. Shrunk(r, Gone(r, i)) /\ i \notin Alive(Gone(r, i)) /\ Gone(r, i) \in Objects
    BY <2>1, GoneFacts DEF Shrunk
  <2> DEFINE failed == {Err(r), Err(Gone(r, i))}
  <2>3. /\ failed \subseteq Outcomes /\ Ok(Gone(r, i), i) \in Outcomes
        /\ {Ok(r, i)} \subseteq Outcomes
    BY <2>2, OutcomeType
  <2>4. \/ o = Ok(Gone(r, i), i) \/ o \in ByFault(failed)
        \/ (i \in Confusable /\ o \in ByFault({Ok(r, i)}))
    BY <1>2 DEF DeleteObject, Confused
  <2>5. o \in Outcomes
    BY <2>3, <2>4, ByFaultElim
  <2>6. o.remote \in {r, Gone(r, i)}
    BY <2>4 DEF ByFault, Ok, Err, Outcome
  <2>7. o.res = "ok" => o.remote = Gone(r, i) \/ i \in Confusable
    BY <2>4 DEF ByFault, Ok, Err, Outcome
  <2>8. QED
    BY <2>2, <2>5, <2>6, <2>7, SameGrown
<1>3. QED
  BY <1>1, <1>2

LEMMA FindFacts ==
  ASSUME NEW r, NEW i, NEW o \in FindObject(r, i)
  PROVE  o.remote = r
BY DEF FindObject, ByFault, Err, Ok, Outcome
-----------------------------------------------------------------------------
(***************************************************************************)
(* Type correctness.                                                       *)
(***************************************************************************)
LEMMA BlankType ==
  /\ \A s \in Specs, p \in BOOLEAN : New(s, p) \in Resource
  /\ Blank \in Resource
<1>1. \A s \in Specs, p \in BOOLEAN : New(s, p) \in Resource
  BY DEF New, Resource, Status, AnyId
<1>2. (CHOOSE s \in Specs : TRUE) \in Specs
  BY DataAssumption
<1>3. New(CHOOSE s \in Specs : TRUE, TRUE) \in Resource
  BY <1>1, <1>2
<1>4. QED
  BY <1>1, <1>3 DEF Blank, Resource

LEMMA StatusType ==
  ASSUME NEW c \in Resource
  PROVE  /\ c.st \in Status /\ c.st.id \in AnyId /\ NotReady(c.st) \in Status
         /\ Unreadable(c.st) \in Status
         /\ \A st \in Status : [c EXCEPT !.st = st] \in Resource
BY DEF Resource, Status, NotReady, Unreadable

LEMMA InitType == Init => TypeOK
<1> SUFFICES ASSUME Init PROVE TypeOK
  OBVIOUS
<1>1. cr \in Resource
  BY BlankType, SomePayloadType DEF Init, Payload
<1>2. remote \in Objects
  BY SomePayloadType DEF Init, Objects, RemoteObject
<1>3. budget \in 0 .. Budget
  BY BudgetAssumption DEF Init
<1>4. kind \in {"window", "group", "slack"}
  BY KindsAssumption DEF Init
<1>5. QED
  BY <1>1, <1>2, <1>3, <1>4, BlankType, SomePayloadType DEF Init, TypeOK, Exits

LEMMA SpendType ==
  ASSUME TypeOK
  PROVE  /\ Spend => budget' \in 0 .. Budget
         /\ UNCHANGED budget => budget' \in 0 .. Budget
         /\ \A o : Paying(o) => budget' \in 0 .. Budget
BY BudgetAssumption DEF TypeOK, Spend, Paying

(* The types of what a reconcile keeps in memory. *)
WorkerOK ==
  /\ pc \in Calls \cup {"idle"} /\ obj \in Resource /\ cur \in BOOLEAN
  /\ then \in Calls \cup Exits /\ payload \in Payload /\ stale \in BOOLEAN /\ queued \in BOOLEAN

LEMMA ReturnType ==
  ASSUME TypeOK, NEW exit, Return(exit)
  PROVE  WorkerOK'
BY BlankType, SomePayloadType DEF Return, TypeOK, WorkerOK, Exits

LEMMA ReportType ==
  ASSUME TypeOK, NEW st \in Status, NEW next \in Calls \cup Exits, Report(st, next)
  PROVE  WorkerOK'
BY StatusType DEF Report, TypeOK, WorkerOK, Calls

LEMMA GoOnType ==
  ASSUME TypeOK, NEW call \in Calls, GoOn(call)
  PROVE  WorkerOK'
BY DEF GoOn, TypeOK, WorkerOK

LEMMA BeginType ==
  ASSUME TypeOK, NEW blocked, Begin(blocked)
  PROVE  TypeOK'
<1>1. [cache EXCEPT !.st = Unreadable(cache.st)] \in Resource
  BY StatusType DEF TypeOK
<1>2. FirstCall(cache) \in Calls /\ "status" \in Calls
  BY DEF FirstCall, Calls
<1>3. QED
  BY <1>1, <1>2 DEF Begin, TypeOK, server, world, worker, Exits

LEMMA AddFinalizerType ==
  ASSUME TypeOK, AddFinalizer
  PROVE  TypeOK'
<1>1. [obj EXCEPT !.fin = TRUE, !.st = cr.st] \in Resource
  BY DEF TypeOK, Resource
<1>2. CASE cur
  BY <1>1, <1>2 DEF AddFinalizer, Write, TypeOK, world, Calls
<1>3. CASE ~cur
  BY <1>3, ReturnType DEF AddFinalizer, TypeOK, world, WorkerOK
<1>4. QED
  BY <1>2, <1>3 DEF TypeOK

LEMMA ResolveType ==
  ASSUME TypeOK, NEW next \in Calls, Resolve(next)
  PROVE  TypeOK'
<1>1. Wanted(obj.spec, dep) \in Payload
  BY DataAssumption DEF TypeOK, Resource, Wanted, Payload
<1>2. QED
  BY <1>1 DEF Resolve, TypeOK, server, world

LEMMA CreateType ==
  ASSUME TypeOK, NEW next \in Calls \cup Exits, Create(next)
  PROVE  TypeOK'
<1>1. PICK o \in CreateObject(remote, payload) :
        /\ remote' = o.remote /\ Paying(o)
        /\ IF o.res = "ok" THEN Report([ready |-> TRUE, id |-> o.id], next)
                           ELSE Report(NotReady(obj.st), "retry")
  BY DEF Create
<1>2. o \in Outcomes
  BY CreateFacts DEF TypeOK
<1>3. [ready |-> TRUE, id |-> o.id] \in Status /\ NotReady(obj.st) \in Status
  BY <1>2, StatusType DEF TypeOK, Outcomes, Status
<1>4. WorkerOK'
  BY <1>1, <1>3, ReportType DEF Exits
<1>5. QED
  BY <1>1, <1>2, <1>4, SpendType DEF Create, TypeOK, WorkerOK, server, world, Outcomes

LEMMA UpdateType ==
  ASSUME TypeOK, Update
  PROVE  TypeOK'
<1>1. PICK o \in UpdateObject(remote, obj.st.id, payload) :
        /\ remote' = o.remote /\ Paying(o)
        /\ IF o.res = "notFound" THEN GoOn("create")
           ELSE Report(obj.st, IF o.res = "ok" THEN "done" ELSE "retry")
  BY DEF Update
<1>2. o \in Outcomes
  BY UpdateFacts, StatusType DEF TypeOK
<1>3. WorkerOK'
  BY <1>1, StatusType, GoOnType, ReportType DEF TypeOK, Exits, Calls
<1>4. QED
  BY <1>1, <1>2, <1>3, SpendType DEF Update, TypeOK, WorkerOK, server, world, Outcomes

LEMMA TrackType ==
  ASSUME TypeOK, Track
  PROVE  TypeOK'
<1>1. [cr EXCEPT !.tracked = TRUE] \in Resource
  BY DEF TypeOK, Resource
<1>2. "cleanup" \in Calls
  BY DEF Calls
<1>3. CASE obj.tracked \/ cache.tracked
  BY <1>2, <1>3, GoOnType DEF Track, TypeOK, WorkerOK, world
<1>4. CASE ~(obj.tracked \/ cache.tracked) /\ synced /\ cr.phase # "absent"
  BY <1>1, <1>2, <1>4 DEF Track, Write, TypeOK, world
<1>5. CASE ~(obj.tracked \/ cache.tracked) /\ ~(synced /\ cr.phase # "absent")
  BY <1>5, ReturnType DEF Track, TypeOK, WorkerOK, world
<1>6. QED
  BY <1>3, <1>4, <1>5

LEMMA CleanupType ==
  ASSUME TypeOK, NEW empty, NEW blocked, Cleanup(empty, blocked)
  PROVE  TypeOK'
<1>1. CASE cache.phase = "absent"
  BY <1>1, ReturnType DEF Cleanup, TypeOK, WorkerOK, server, world
<1>2. CASE cache.phase # "absent"
  <2>1. obj' \in Resource /\ cur' \in BOOLEAN /\ stale' \in BOOLEAN
    BY <1>2 DEF Cleanup, TypeOK
  <2>2. pc' \in Calls /\ then' \in Calls \cup Exits
    BY <1>2 DEF Cleanup, TypeOK, Calls, Exits
  <2>3. QED
    BY <1>2, <2>1, <2>2 DEF Cleanup, TypeOK, server, world
<1>3. QED
  BY <1>1, <1>2

LEMMA CleanupDeleteType ==
  ASSUME TypeOK, CleanupDelete
  PROVE  TypeOK'
<1>1. PICK o \in DeleteObject(remote, obj.st.id) :
        /\ remote' = o.remote /\ Paying(o)
        /\ Report(obj.st, IF o.res = "ok" THEN "unfinalize" ELSE "done")
  BY DEF CleanupDelete
<1>2. o \in Outcomes
  BY DeleteFacts, StatusType DEF TypeOK
<1>3. WorkerOK'
  BY <1>1, StatusType, ReportType DEF TypeOK, Exits, Calls
<1>4. QED
  BY <1>1, <1>2, <1>3, SpendType DEF CleanupDelete, TypeOK, WorkerOK, server, world, Outcomes

LEMMA RemoveFinalizerType ==
  ASSUME TypeOK, RemoveFinalizer
  PROVE  TypeOK'
<1>1. Unfinalized(obj) \in Resource
  BY BlankType DEF Unfinalized, TypeOK, Resource
<1>2. WorkerOK'
  BY ReturnType DEF RemoveFinalizer
<1>3. QED
  BY <1>1, <1>2 DEF RemoveFinalizer, Write, TypeOK, WorkerOK, world

LEMMA StatusWrittenType ==
  ASSUME TypeOK, NEW retries, StatusWritten(retries)
  PROVE  TypeOK'
<1>1. [cr EXCEPT !.st = obj.st] \in Resource
  BY StatusType DEF TypeOK
<1>2. WorkerOK'
  <2>1. CASE then \in Exits
    BY <2>1, ReturnType DEF StatusWritten
  <2>2. CASE then \notin Exits
    BY <2>2 DEF StatusWritten, TypeOK, WorkerOK, Exits
  <2>3. QED
    BY <2>1, <2>2
<1>3. QED
  BY <1>1, <1>2 DEF StatusWritten, Write, TypeOK, WorkerOK, world

LEMMA StatusStepType ==
  ASSUME TypeOK, WindowStatus \/ GroupStatus \/ SlackStatus
  PROVE  TypeOK'
<1>1. CASE StatusWritten(FALSE) \/ StatusWritten(TRUE)
  BY <1>1, StatusWrittenType
<1>2. CASE StatusLost(Return("retry")) \/ StatusLost(SlackGiveUp)
  <2>1. WorkerOK'
    BY <1>2, ReturnType, ReportType, StatusType DEF StatusLost, SlackGiveUp, TypeOK, Exits
  <2>2. budget' \in 0 .. Budget
    BY <1>2, SpendType DEF StatusLost
  <2>3. QED
    BY <1>2, <2>1, <2>2 DEF StatusLost, TypeOK, WorkerOK, server, world
<1>3. QED
  BY <1>1, <1>2 DEF WindowStatus, GroupStatus, SlackStatus

LEMMA SlackStepType ==
  ASSUME TypeOK, SlackResolve \/ SlackList \/ SlackReplace \/ SlackConfirm
  PROVE  TypeOK'
<1>1. CASE SlackResolve
  <2>1. CASE NoWebhook(obj.spec)
    BY <1>1, <2>1, ReportType, StatusType
       DEF SlackResolve, TypeOK, WorkerOK, Exits, server, world
  <2>2. CASE ~NoWebhook(obj.spec)
    BY <1>1, <2>2, ResolveType DEF SlackResolve, Calls
  <2>3. QED
    BY <2>1, <2>2
<1>2. CASE SlackList
  <2>1. WorkerOK'
    BY <1>2, ReportType, GoOnType, StatusType DEF SlackList, TypeOK, Exits, Calls
  <2>2. budget' \in 0 .. Budget
    BY <1>2, SpendType DEF SlackList
  <2>3. QED
    BY <1>2, <2>1, <2>2 DEF SlackList, TypeOK, WorkerOK, server, world
<1>3. CASE SlackReplace
  <2>1. PICK o \in DeleteObject(remote, obj.st.id) :
          /\ remote' = o.remote /\ Paying(o)
          /\ IF o.res = "ok" THEN GoOn("create") ELSE Report(NotReady(obj.st), "retry")
    BY <1>3 DEF SlackReplace
  <2>2. o \in Outcomes
    BY DeleteFacts, StatusType DEF TypeOK
  <2>3. WorkerOK'
    BY <2>1, ReportType, GoOnType, StatusType DEF TypeOK, Exits, Calls
  <2>4. QED
    BY <1>3, <2>1, <2>2, <2>3, SpendType DEF SlackReplace, TypeOK, WorkerOK, server, world, Outcomes
<1>4. CASE SlackConfirm
  BY <1>4, ReportType, StatusType DEF SlackConfirm, TypeOK, WorkerOK, Exits, server, world
<1>5. QED
  BY <1>1, <1>2, <1>3, <1>4

LEMMA UserType ==
  ASSUME TypeOK, Apply \/ Edit \/ Delete
  PROVE  TypeOK'
<1>1. \A e, c : UserWrite(e, c) /\ c \in Resource /\ late' \in BOOLEAN => TypeOK'
  BY SpendType DEF UserWrite, Write, TypeOK
<1>2. CASE Apply
  BY <1>1, <1>2, BlankType DEF Apply
<1>3. CASE Edit
  <2>1. /\ \A s \in Specs : [cr EXCEPT !.spec = s] \in Resource
        /\ [cr EXCEPT !.prune = ~@] \in Resource /\ [cr EXCEPT !.skip = ~@] \in Resource
    BY DEF TypeOK, Resource
  <2>2. late' \in BOOLEAN
    BY <1>3 DEF Edit, TypeOK
  <2>3. QED
    BY <1>1, <1>3, <2>1, <2>2 DEF Edit
<1>4. CASE Delete
  <2>1. [cr EXCEPT !.phase = "deleting"] \in Resource
    BY DEF TypeOK, Resource
  <2>2. late' \in BOOLEAN
    BY <1>4 DEF Delete, TypeOK
  <2>3. QED
    BY <1>1, <1>4, <2>1, <2>2, BlankType DEF Delete
<1>5. QED
  BY <1>2, <1>3, <1>4

(* Someone at the dashboard makes nothing. *)
LEMMA DashboardFacts ==
  ASSUME TypeOK, Dashboard
  PROVE  Shrunk(remote, remote')
<1>1. PICK i \in Alive(remote) :
        \/ remote' = Gone(remote, i)
        \/ \E s \in Specs \ {remote[i].data.spec} : remote' = [remote EXCEPT ![i].data.spec = s]
  BY DEF Dashboard
<1>2. i \in Ids /\ remote[i].state = "live"
  BY DEF Alive
<1>3. ASSUME NEW s \in Specs, remote' = [remote EXCEPT ![i].data.spec = s]
      PROVE  Shrunk(remote, remote')
  <2>1. [remote[i].data EXCEPT !.spec = s] \in Payload
    BY <1>2 DEF TypeOK, Objects, RemoteObject, Payload
  <2>2. remote' = [remote EXCEPT ![i].data = [remote[i].data EXCEPT !.spec = s]]
    BY <1>3
  <2>3. QED
    BY <1>2, <2>1, <2>2, ChangedFacts DEF TypeOK
<1>4. QED
  BY <1>1, <1>2, <1>3, GoneFacts DEF TypeOK

LEMMA EnvironmentType ==
  ASSUME TypeOK, Environment
  PROVE  TypeOK'
<1>1. CASE Apply \/ Edit \/ Delete
  BY <1>1, UserType
<1>2. CASE TimeOut
  BY <1>2 DEF TimeOut, TypeOK, server, worker
<1>3. CASE AccountLost \/ AccountRestored
  BY <1>3, SpendType DEF AccountLost, AccountRestored, TypeOK, server, worker
<1>4. CASE DepChanged
  BY <1>4, SpendType DEF DepChanged, TypeOK, server, worker
<1>5. CASE Dashboard
  BY <1>5, SpendType, DashboardFacts DEF Dashboard, Shrunk, TypeOK, server, world, worker
<1>6. CASE Restart
  BY <1>6, SpendType, BlankType, SomePayloadType DEF Restart, TypeOK, world, Exits
<1>7. QED
  BY <1>1, <1>2, <1>3, <1>4, <1>5, <1>6 DEF Environment

LEMMA StepType ==
  ASSUME TypeOK, Step
  PROVE  TypeOK'
<1>1. CASE AddFinalizer \/ Update \/ Track \/ CleanupDelete \/ RemoveFinalizer
  BY <1>1, AddFinalizerType, UpdateType, TrackType, CleanupDeleteType, RemoveFinalizerType
<1>2. CASE WindowResolve \/ GroupResolve
  BY <1>2, ResolveType DEF WindowResolve, GroupResolve, Calls
<1>3. CASE WindowCreate \/ GroupCreate \/ SlackCreate
  BY <1>3, CreateType DEF WindowCreate, GroupCreate, SlackCreate, Calls, Exits
<1>4. CASE WindowCleanup \/ GroupCleanup \/ SlackCleanup
  BY <1>4, CleanupType DEF WindowCleanup, GroupCleanup, SlackCleanup
<1>5. CASE WindowStatus \/ GroupStatus \/ SlackStatus
  BY <1>5, StatusStepType
<1>6. CASE SlackResolve \/ SlackList \/ SlackReplace \/ SlackConfirm
  BY <1>6, SlackStepType
<1>7. QED
  BY <1>1, <1>2, <1>3, <1>4, <1>5, <1>6
     DEF Step, WindowStep, GroupStep, SlackStep, WindowAddFinalizer, GroupAddFinalizer,
         SlackAddFinalizer, WindowUpdate, GroupUpdate, WindowTrack, GroupTrack, SlackTrack,
         WindowCleanupDelete, GroupCleanupDelete, SlackCleanupDelete,
         WindowRemoveFinalizer, GroupRemoveFinalizer, SlackRemoveFinalizer

LEMMA NextType == TypeOK /\ [Next]_vars => TypeOK'
<1> SUFFICES ASSUME TypeOK, [Next]_vars PROVE TypeOK'
  OBVIOUS
<1>1. CASE Take
  BY <1>1, BeginType DEF Take, WindowBegin, GroupBegin, SlackBegin
<1>2. CASE Deliver
  BY <1>2 DEF Deliver, TypeOK, world, worker
<1>3. CASE Timer
  BY <1>3 DEF Timer, TypeOK, server, world, worker
<1>4. CASE UNCHANGED vars
  BY <1>4 DEF vars, TypeOK, server, world, worker
<1>5. QED
  BY <1>1, <1>2, <1>3, <1>4, StepType, EnvironmentType DEF Next

(* Every variable keeps its type, whatever the environment and the faults  *)
(* of the client's calls do.                                               *)
THEOREM TypeCorrect == Spec => []TypeOK
BY InitType, NextType, PTL DEF Spec
-----------------------------------------------------------------------------
(***************************************************************************)
(* The inductive invariant behind the refinement.                          *)
(***************************************************************************)

(* A cached copy with the server's version is the server's resource. *)
SyncInv == synced => cache = cr

(* So is the worker's copy, but for the status it may have set, and then   *)
(* its status was not behind when read.                                    *)
CopyInv ==
  cur => cr = [obj EXCEPT !.st = cr.st] /\ ~stale /\ (pc = "finalize" => synced)

(* The calls before which the resource has been seen live with the         *)
(* finalizer, and those that take the finalizer off.                       *)
Making == {"resolve", "create", "update", "list", "replace"}

Letting == pc \in {"track", "cleanup", "delete", "unfinalize"} \/ (pc = "status" /\ then = "unfinalize")

Held(c) == c.phase = "live" /\ c.fin

(* The finalizer seen in a copy is still on the server's resource. *)
FinalizerInv ==
  /\ cr.phase = "absent" => ~cr.fin
  /\ Held(cache) => cr.fin
  /\ cache.phase = "deleting" => ~Held(cr)
  /\ pc = "finalize" => obj.phase = "live"
  /\ pc \in Making => cr.fin
  /\ Letting => ~Held(cache) /\ ~Held(cr)
  /\ then \in {"retry", "done", "confirm", "unfinalize"}

(* An identifier in a status is not handed out again. *)
Known(i) == i \in Ids => remote[i].state # "free"

KnownInv == Known(cr.st.id) /\ Known(cache.st.id) /\ Known(obj.st.id)

(* Before its calls to the service the worker has the server's status,     *)
(* unless it read an older one.                                            *)
SeenInv ==
  pc \in Making \cup {"delete"} /\ ~stale /\ (cr.fin \/ cur) => obj.st = cr.st

NotMine(i) == i \notin Alive(remote) \/ i \in Confusable

Unowned == cr.st.id \notin Alive(remote) \/ Doubt

(* A POST is due only when no object is known, and so is a status that     *)
(* names another one.                                                      *)
OwnInv ==
  /\ pc = "create" => Unowned
  /\ pc \in {"status", "confirm"} /\ cr.fin => obj.st.id = cr.st.id \/ Unowned

(* Not ready means for windows and groups that the object is gone. *)
ReadyInv ==
  kind # "slack" => /\ cr.st.ready \/ NotMine(cr.st.id)
                    /\ pc = "status" /\ cur => obj.st.ready \/ NotMine(obj.st.id)

(* Cleanup has found the worker's copy free to go. *)
ClearedInv ==
  cur /\ (pc = "unfinalize" \/ (pc = "status" /\ then = "unfinalize")) =>
    obj.st = cr.st /\ (cr.st.id \notin Alive(remote) \/ Released)

Inv ==
  /\ SyncInv /\ CopyInv /\ FinalizerInv /\ KnownInv
  /\ SeenInv /\ OwnInv /\ ReadyInv /\ ClearedInv

IInv == TypeOK /\ Inv

LEMMA NoIdFacts == NoId \notin Ids /\ \A r : NoId \notin Alive(r)
BY IdsAssumption DEF Alive

(* A status set in memory leaves the rest of the copy as it was. *)
LEMMA ReportCopy ==
  ASSUME IInv, NEW st, NEW next, Report(st, next), UNCHANGED server
  PROVE  CopyInv' /\ SyncInv'
<1>1. SyncInv'
  BY DEF IInv, Inv, SyncInv, server
<1>2. [[obj EXCEPT !.st = st] EXCEPT !.st = cr.st] = [obj EXCEPT !.st = cr.st]
  BY DEF IInv, TypeOK, Resource
<1>3. QED
  BY <1>1, <1>2 DEF IInv, Inv, CopyInv, Report, server

LEMMA GoOnCopy ==
  ASSUME IInv, NEW call, call # "finalize", GoOn(call), UNCHANGED server
  PROVE  CopyInv' /\ SyncInv'
BY DEF IInv, Inv, CopyInv, SyncInv, GoOn, server

LEMMA ReturnCopy ==
  ASSUME NEW exit, Return(exit)
  PROVE  CopyInv' /\ Known(obj.st.id)'
<1>1. Blank.st.id = NoId
  BY DEF Blank, New
<1>2. QED
  BY <1>1, NoIdFacts DEF Return, CopyInv, Known

(* A call that leaves the service alone takes no identifier back. *)
LEMMA SameKnown ==
  ASSUME IInv, UNCHANGED remote,
         Known(obj.st.id)' \/ obj'.st.id \in {obj.st.id, cr.st.id, cache.st.id},
         cr'.st.id \in {obj.st.id, cr.st.id, NoId}, cache'.st.id \in {cr.st.id, cache.st.id}
  PROVE  KnownInv'
BY NoIdFacts DEF IInv, Inv, KnownInv, Known

LEMMA InitInv ==
  ASSUME Init
  PROVE  Inv
<1>1. SyncInv
  BY DEF IInv, Inv, TypeOK, SyncInv, Init
<1>2. CopyInv
  BY DEF IInv, Inv, TypeOK, CopyInv, SyncInv, Init
<1>3. FinalizerInv
  BY DEF FinalizerInv, Making, Held, Init, New
<1>4. KnownInv
  BY NoIdFacts DEF KnownInv, Known, Init, Blank, New
<1>5. SeenInv
  BY DEF SeenInv, Making, Init
<1>6. OwnInv
  BY DEF OwnInv, Init
<1>7. ReadyInv
  BY NoIdFacts DEF ReadyInv, NotMine, Init, New
<1>8. ClearedInv
  BY DEF ClearedInv, Init
<1>9. QED
  BY <1>1, <1>2, <1>3, <1>4, <1>5, <1>6, <1>7, <1>8 DEF Inv

LEMMA BeginInv ==
  ASSUME IInv, NEW blocked, Begin(blocked)
  PROVE  Inv'
<1>1. SyncInv'
  BY DEF IInv, Inv, SyncInv, Begin, server
<1>2. CopyInv'
  BY DEF IInv, Inv, TypeOK, CopyInv, SyncInv, Begin, Resource, server, world, worker
<1>3. FinalizerInv'
  BY DEF IInv, Inv, TypeOK, FinalizerInv, Letting, Making, Held, Begin, FirstCall, Resource,
         server, worker
<1>4. KnownInv'
  BY DEF IInv, Inv, TypeOK, KnownInv, Known, Begin, Unreadable, NotReady, Resource, Status,
         server, worker
<1>5. SeenInv'
  BY DEF SeenInv, Making, Begin, server, worker
<1>6. OwnInv'
  BY DEF IInv, TypeOK, OwnInv, Unowned, Doubt, Begin, FirstCall, Unreadable, NotReady,
         Resource, Status, server, worker
<1>7. ReadyInv'
  BY NoIdFacts
     DEF IInv, Inv, TypeOK, ReadyInv, SyncInv, NotMine, Begin, Unreadable, NotReady,
         Resource, Status, server, world, worker
<1>8. ClearedInv'
  BY DEF ClearedInv, Begin, FirstCall, worker
<1>9. QED
  BY <1>1, <1>2, <1>3, <1>4, <1>5, <1>6, <1>7, <1>8 DEF Inv

LEMMA AddFinalizerInv ==
  ASSUME IInv, AddFinalizer
  PROVE  Inv'
<1>1. SyncInv'
  BY DEF IInv, Inv, SyncInv, AddFinalizer, Write
<1>2. CopyInv'
  BY DEF IInv, Inv, CopyInv, AddFinalizer, Write, Return
<1>3. FinalizerInv'
  BY DEF IInv, Inv, TypeOK, FinalizerInv, CopyInv, SyncInv, Letting, Making, AddFinalizer,
         Write, Return, Resource
<1>4. KnownInv'
  <2>1. CASE cur
    <3>1. obj'.st = cr.st /\ cr'.st = cr.st
      BY <2>1 DEF AddFinalizer, Write, IInv, TypeOK, Resource
    <3>2. QED
      BY <2>1, <3>1, SameKnown DEF AddFinalizer
  <2>2. CASE ~cur
    BY <2>2, SameKnown, ReturnCopy DEF AddFinalizer
  <2>3. QED
    BY <2>1, <2>2
<1>5. SeenInv'
  BY DEF SeenInv, Making, AddFinalizer, Write, Return
<1>6. OwnInv'
  BY DEF OwnInv, AddFinalizer, Return
<1>7. ReadyInv'
  BY DEF IInv, Inv, TypeOK, ReadyInv, NotMine, AddFinalizer, Write, Return, Resource, world
<1>8. ClearedInv'
  BY DEF ClearedInv, AddFinalizer, Return
<1>9. QED
  BY <1>1, <1>2, <1>3, <1>4, <1>5, <1>6, <1>7, <1>8 DEF Inv

LEMMA ResolveInv ==
  ASSUME IInv, NEW next \in {"update", "create", "list"}, Resolve(next), kind # "slack" /\ next = "create" => ~obj.st.ready,  kind = "slack" /\ next = "create" => ~obj.st.ready \/ obj.st.id = NoId
  PROVE  Inv'
<1>1. SyncInv'
  BY DEF IInv, Inv, SyncInv, Resolve, server
<1>2. CopyInv'
  BY DEF IInv, Inv, CopyInv, Resolve, server
<1>3. FinalizerInv'
  BY DEF IInv, Inv, FinalizerInv, Letting, Making, Resolve, server
<1>4. KnownInv'
  BY DEF IInv, Inv, KnownInv, Known, Resolve, server
<1>5. SeenInv'
  BY DEF IInv, Inv, SeenInv, Making, Resolve, server
<1>6. OwnInv'
  BY IdsAssumption
     DEF IInv, Inv, OwnInv, SeenInv, ReadyInv, FinalizerInv, Making, Unowned, Doubt,
         NotMine, Resolve, server, world, Alive
<1>7. ReadyInv'
  BY DEF IInv, Inv, ReadyInv, NotMine, Resolve, server, world
<1>8. ClearedInv'
  BY DEF ClearedInv, Resolve
<1>9. QED
  BY <1>1, <1>2, <1>3, <1>4, <1>5, <1>6, <1>7, <1>8 DEF Inv

LEMMA UpdateInv ==
  ASSUME IInv, Update
  PROVE  Inv'
<1>1. SyncInv'
  BY DEF IInv, Inv, SyncInv, Update, server
<1>2. CopyInv'
  BY ReportCopy, GoOnCopy DEF Update
<1>3. FinalizerInv'
  BY DEF IInv, Inv, FinalizerInv, Letting, Making, Update, Report, GoOn, server
<1>4. KnownInv'
  BY UpdateFacts
     DEF IInv, Inv, TypeOK, KnownInv, Known, Update, Report, GoOn, Resource, Status, server,
         Shrunk
<1>5. SeenInv'
  BY DEF IInv, Inv, SeenInv, Making, Update, Report, GoOn, server
<1>6. OwnInv'
  BY UpdateFacts
     DEF IInv, Inv, TypeOK, OwnInv, SeenInv, FinalizerInv, Making, Unowned, Doubt, Update,
         Report, GoOn, Resource, Status, server
<1>7. ReadyInv'
  BY UpdateFacts, StatusType
     DEF IInv, Inv, TypeOK, ReadyInv, SeenInv, CopyInv, SyncInv, NotMine, Making, Update,
         Report, GoOn, Status, server, world, Shrunk
<1>8. ClearedInv'
  BY DEF ClearedInv, Update, Report, GoOn
<1>9. QED
  BY <1>1, <1>2, <1>3, <1>4, <1>5, <1>6, <1>7, <1>8 DEF Inv

LEMMA TrackInv ==
  ASSUME IInv, Track
  PROVE  Inv'
<1>1. SyncInv'
  BY DEF IInv, Inv, SyncInv, Track, Write
<1>2. CopyInv'
  BY DEF IInv, Inv, CopyInv, Track, GoOn, Return
<1>3. FinalizerInv'
  BY DEF IInv, Inv, TypeOK, FinalizerInv, Letting, Making, Held, Track, GoOn, Write, Return,
         Resource
<1>4. KnownInv'
  <2>1. UNCHANGED cr \/ cr' = [cr EXCEPT !.tracked = TRUE]
    BY DEF Track, Write
  <2>2. cr'.st.id = cr.st.id
    BY <2>1 DEF IInv, TypeOK, Resource
  <2>3. Known(obj.st.id)' \/ UNCHANGED obj
    BY ReturnCopy DEF Track, GoOn
  <2>4. QED
    BY <2>2, <2>3, SameKnown DEF Track
<1>5. SeenInv'
  BY DEF SeenInv, Making, Track, GoOn, Return
<1>6. OwnInv'
  BY DEF OwnInv, Track, GoOn, Return
<1>7. ReadyInv'
  BY DEF IInv, Inv, TypeOK, ReadyInv, NotMine, Track, GoOn, Write, Return, Resource, world
<1>8. ClearedInv'
  BY DEF ClearedInv, Track, GoOn, Return
<1>9. QED
  BY <1>1, <1>2, <1>3, <1>4, <1>5, <1>6, <1>7, <1>8 DEF Inv

LEMMA CleanupInv ==
  ASSUME IInv, NEW empty, NEW blocked, Cleanup(empty, blocked), empty => cache.st.id = NoId \/ (kind = "window" /\ ~cache.st.ready)
  PROVE  Inv'
<1>1. SyncInv'
  BY DEF IInv, Inv, SyncInv, Cleanup, server
<1>2. CopyInv'
  BY DEF IInv, Inv, TypeOK, CopyInv, SyncInv, Cleanup, Return, Resource, server
<1>3. FinalizerInv'
  BY DEF IInv, Inv, FinalizerInv, Letting, Making, Cleanup, Return, server
<1>4. KnownInv'
  BY SameKnown, ReturnCopy DEF Cleanup, server
<1>5. SeenInv'
  BY DEF SeenInv, Making, Cleanup, Return, server
<1>6. OwnInv'
  BY DEF OwnInv, Unowned, Doubt, Cleanup, Return, server
<1>7. ReadyInv'
  BY DEF IInv, Inv, ReadyInv, SyncInv, NotMine, Cleanup, Return, server, world
<1>8. ClearedInv'
  BY IdsAssumption
     DEF IInv, Inv, ClearedInv, ReadyInv, SyncInv, NotMine, Released, Cleanup, Return,
         Alive, server, world
<1>9. QED
  BY <1>1, <1>2, <1>3, <1>4, <1>5, <1>6, <1>7, <1>8 DEF Inv

LEMMA CleanupDeleteInv ==
  ASSUME IInv, CleanupDelete
  PROVE  Inv'
<1>1. SyncInv'
  BY DEF IInv, Inv, SyncInv, CleanupDelete, server
<1>2. CopyInv'
  BY ReportCopy DEF CleanupDelete
<1>3. FinalizerInv'
  BY DEF IInv, Inv, FinalizerInv, Letting, Making, CleanupDelete, Report, server
<1>4. KnownInv'
  BY DeleteFacts
     DEF IInv, Inv, TypeOK, KnownInv, Known, CleanupDelete, Report, Resource, Status,
         server, Shrunk
<1>5. SeenInv'
  BY DEF SeenInv, Making, CleanupDelete, Report
<1>6. OwnInv'
  BY DEF IInv, Inv, OwnInv, SeenInv, Unowned, Doubt, CleanupDelete, Report, server
<1>7. ReadyInv'
  BY DeleteFacts
     DEF IInv, Inv, TypeOK, ReadyInv, SeenInv, CopyInv, NotMine, CleanupDelete, Report,
         Resource, Status, server, world, Shrunk
<1>8. ClearedInv'
  BY DeleteFacts
     DEF IInv, Inv, TypeOK, ClearedInv, SeenInv, CopyInv, Released, CleanupDelete, Report,
         Resource, Status, server
<1>9. QED
  BY <1>1, <1>2, <1>3, <1>4, <1>5, <1>6, <1>7, <1>8 DEF Inv

LEMMA RemoveFinalizerInv ==
  ASSUME IInv, RemoveFinalizer
  PROVE  Inv'
<1>1. SyncInv'
  BY DEF IInv, Inv, SyncInv, RemoveFinalizer, Write
<1>2. CopyInv'
  BY DEF CopyInv, RemoveFinalizer, Return
<1>3. FinalizerInv'
  BY DEF IInv, Inv, TypeOK, FinalizerInv, Letting, Making, Held, RemoveFinalizer,
         Unfinalized, Write, Return, Blank, New, Resource
<1>4. KnownInv'
  <2>1. cr'.st.id \in {cr.st.id, obj.st.id, NoId}
    <3>1. Blank.st.id = NoId
      BY DEF Blank, New
    <3>2. [obj EXCEPT !.fin = FALSE].st = obj.st
      BY DEF IInv, TypeOK, Resource
    <3>3. QED
      BY <3>1, <3>2 DEF RemoveFinalizer, Write, Unfinalized
  <2>2. QED
    BY <2>1, SameKnown, ReturnCopy DEF RemoveFinalizer
<1>5. SeenInv'
  BY DEF SeenInv, Making, RemoveFinalizer, Return
<1>6. OwnInv'
  BY DEF OwnInv, RemoveFinalizer, Return
<1>7. ReadyInv'
  <2>1. CASE cur
    <3>1. cr' = Blank \/ cr'.st = obj.st
      BY <2>1 DEF RemoveFinalizer, Write, Unfinalized, IInv, TypeOK, Resource
    <3>2. Blank.st.id = NoId /\ pc' = "idle"
      BY DEF RemoveFinalizer, Return, Blank, New
    <3>3. obj.st = cr.st
      BY <2>1 DEF RemoveFinalizer, IInv, Inv, ClearedInv
    <3>4. QED
      BY <3>1, <3>2, <3>3, NoIdFacts
         DEF RemoveFinalizer, IInv, Inv, ReadyInv, NotMine, world
  <2>2. CASE ~cur
    BY <2>2 DEF RemoveFinalizer, Return, IInv, Inv, ReadyInv, NotMine, world
  <2>3. QED
    BY <2>1, <2>2
<1>8. ClearedInv'
  BY DEF ClearedInv, RemoveFinalizer, Return
<1>9. QED
  BY <1>1, <1>2, <1>3, <1>4, <1>5, <1>6, <1>7, <1>8 DEF Inv

LEMMA StatusWrittenInv ==
  ASSUME IInv, NEW retries, StatusWritten(retries), retries => kind = "slack"
  PROVE  Inv'
<1>1. SyncInv'
  BY DEF SyncInv, StatusWritten, Write
<1>2. CopyInv'
  <2>1. CASE then \in Exits
    BY <2>1, ReturnCopy DEF StatusWritten
  <2>2. CASE then \notin Exits
    <3>1. then # "finalize"
      BY <2>2 DEF IInv, Inv, FinalizerInv, Exits
    <3>2. cur => [cr EXCEPT !.st = obj.st] = obj
      BY DEF IInv, Inv, CopyInv, TypeOK, Resource
    <3>3. [obj EXCEPT !.st = obj.st] = obj
      BY DEF IInv, TypeOK, Resource
    <3>4. QED
      BY <2>2, <3>1, <3>2, <3>3 DEF StatusWritten, Write, IInv, Inv, CopyInv
  <2>3. QED
    BY <2>1, <2>2
<1>3. FinalizerInv'
  BY DEF IInv, Inv, FinalizerInv, Letting, Making, Held, StatusWritten, Write, Return, New
<1>4. KnownInv'
  <2>1. cr'.st.id = obj.st.id
    BY DEF StatusWritten, Write, IInv, TypeOK, Resource
  <2>2. Known(obj.st.id)' \/ UNCHANGED obj
    BY ReturnCopy DEF StatusWritten
  <2>3. QED
    BY <2>1, <2>2, SameKnown DEF StatusWritten
<1>5. SeenInv'
  BY DEF IInv, Inv, SeenInv, FinalizerInv, Making, StatusWritten, Return
<1>6. OwnInv'
  BY DEF IInv, Inv, OwnInv, FinalizerInv, StatusWritten, Write, Return, New
<1>7. ReadyInv'
  BY DEF IInv, Inv, ReadyInv, NotMine, StatusWritten, Write, Return, world
<1>8. ClearedInv'
  BY DEF IInv, Inv, ClearedInv, CopyInv, Released, StatusWritten, Write, Return, world
<1>9. QED
  BY <1>1, <1>2, <1>3, <1>4, <1>5, <1>6, <1>7, <1>8 DEF Inv

LEMMA StatusLostInv ==
  ASSUME IInv, StatusLost(Return("retry")) \/ (kind = "slack" /\ StatusLost(SlackGiveUp))
  PROVE  Inv'
<1>1. SyncInv'
  BY DEF IInv, Inv, SyncInv, StatusLost, server
<1>2. CopyInv'
  BY ReportCopy, ReturnCopy DEF StatusLost, SlackGiveUp
<1>3. FinalizerInv'
  BY DEF IInv, Inv, FinalizerInv, Letting, Making, StatusLost, SlackGiveUp, Report, Return,
         server
<1>4. KnownInv'
  <2>1. Known(obj.st.id)' \/ obj'.st.id = obj.st.id
    BY ReturnCopy
       DEF StatusLost, SlackGiveUp, Report, NotReady, IInv, TypeOK, Resource, Status
  <2>2. QED
    BY <2>1, SameKnown DEF StatusLost, server
<1>5. SeenInv'
  BY DEF SeenInv, Making, StatusLost, SlackGiveUp, Report, Return
<1>6. OwnInv'
  BY DEF IInv, Inv, TypeOK, OwnInv, Unowned, Doubt, StatusLost, SlackGiveUp, Report,
         NotReady, Return, New, Resource, Status, server, world
<1>7. ReadyInv'
  BY DEF IInv, Inv, ReadyInv, NotMine, StatusLost, Return, server, world
<1>8. ClearedInv'
  BY DEF ClearedInv, StatusLost, SlackGiveUp, Report, Return
<1>9. QED
  BY <1>1, <1>2, <1>3, <1>4, <1>5, <1>6, <1>7, <1>8 DEF Inv

LEMMA SlackMissingInv ==
  ASSUME IInv, SlackResolve, NoWebhook(obj.spec)
  PROVE  Inv'
<1>1. SyncInv'
  BY DEF IInv, Inv, SyncInv, SlackResolve, server
<1>2. CopyInv'
  BY ReportCopy DEF SlackResolve
<1>3. FinalizerInv'
  BY DEF IInv, Inv, FinalizerInv, Letting, Making, SlackResolve, Report, server
<1>4. KnownInv'
  BY DEF IInv, Inv, TypeOK, KnownInv, Known, SlackResolve, Report, NotReady, Resource,
         Status, server
<1>5. SeenInv'
  BY DEF SeenInv, Making, SlackResolve, Report
<1>6. OwnInv'
  BY DEF IInv, Inv, TypeOK, OwnInv, SeenInv, Making, Unowned, Doubt, SlackResolve, Report,
         NotReady, Resource, Status, server
<1>7. ReadyInv'
  BY DEF ReadyInv, SlackResolve, world
<1>8. ClearedInv'
  BY DEF ClearedInv, SlackResolve, Report
<1>9. QED
  BY <1>1, <1>2, <1>3, <1>4, <1>5, <1>6, <1>7, <1>8 DEF Inv

LEMMA SlackListInv ==
  ASSUME IInv, SlackList
  PROVE  Inv'
<1>1. SyncInv'
  BY DEF IInv, Inv, SyncInv, SlackList, server
<1>2. CopyInv'
  BY DEF IInv, Inv, CopyInv, SlackList, Report, GoOn, server
<1>3. FinalizerInv'
  BY DEF IInv, Inv, FinalizerInv, Letting, Making, SlackList, Report, GoOn, server
<1>4. KnownInv'
  BY DEF IInv, Inv, TypeOK, KnownInv, Known, SlackList, Report, GoOn, Resource, server
<1>5. SeenInv'
  BY DEF IInv, Inv, SeenInv, Making, SlackList, Report, GoOn, server
<1>6. OwnInv'
  BY DEF IInv, Inv, TypeOK, OwnInv, SeenInv, Making, Unowned, Doubt, SlackList, Report,
         GoOn, Resource, server
<1>7. ReadyInv'
  BY DEF ReadyInv, SlackList, world
<1>8. ClearedInv'
  BY DEF ClearedInv, SlackList, Report, GoOn
<1>9. QED
  BY <1>1, <1>2, <1>3, <1>4, <1>5, <1>6, <1>7, <1>8 DEF Inv

LEMMA SlackReplaceInv ==
  ASSUME IInv, SlackReplace
  PROVE  Inv'
<1>1. SyncInv'
  BY DEF IInv, Inv, SyncInv, SlackReplace, server
<1>2. CopyInv'
  BY ReportCopy, GoOnCopy DEF SlackReplace
<1>3. FinalizerInv'
  BY DEF IInv, Inv, FinalizerInv, Letting, Making, SlackReplace, Report, GoOn, server
<1>4. KnownInv'
  BY DeleteFacts
     DEF IInv, Inv, TypeOK, KnownInv, Known, SlackReplace, Report, NotReady, GoOn, Resource,
         Status, server, Shrunk
<1>5. SeenInv'
  BY DEF IInv, Inv, SeenInv, Making, SlackReplace, Report, GoOn, server
<1>6. OwnInv'
  BY DeleteFacts
     DEF IInv, Inv, TypeOK, OwnInv, SeenInv, FinalizerInv, Making, Unowned, Doubt,
         SlackReplace, Report, NotReady, GoOn, Resource, Status, server
<1>7. ReadyInv'
  BY DEF ReadyInv, SlackReplace, world
<1>8. ClearedInv'
  BY DEF ClearedInv, SlackReplace, Report, GoOn
<1>9. QED
  BY <1>1, <1>2, <1>3, <1>4, <1>5, <1>6, <1>7, <1>8 DEF Inv

LEMMA SlackConfirmInv ==
  ASSUME IInv, SlackConfirm
  PROVE  Inv'
<1>1. SyncInv'
  BY DEF IInv, Inv, SyncInv, SlackConfirm, server
<1>2. CopyInv'
  BY DEF IInv, Inv, CopyInv, SlackConfirm, Report, server
<1>3. FinalizerInv'
  BY DEF IInv, Inv, FinalizerInv, Letting, Making, SlackConfirm, Report, server
<1>4. KnownInv'
  BY DEF IInv, Inv, KnownInv, Known, SlackConfirm, Report, server
<1>5. SeenInv'
  BY DEF SeenInv, Making, SlackConfirm, Report
<1>6. OwnInv'
  BY DEF IInv, Inv, OwnInv, Unowned, Doubt, SlackConfirm, Report, server, world
<1>7. ReadyInv'
  BY DEF ReadyInv, SlackConfirm, world
<1>8. ClearedInv'
  BY DEF ClearedInv, SlackConfirm, Report
<1>9. QED
  BY <1>1, <1>2, <1>3, <1>4, <1>5, <1>6, <1>7, <1>8 DEF Inv

LEMMA CreateInv ==
  ASSUME IInv, NEW next \in {"done", "confirm"}, Create(next)
  PROVE  Inv'
<1>1. SyncInv'
  BY DEF IInv, Inv, SyncInv, Create, server
<1>2. CopyInv'
  BY ReportCopy DEF Create
<1>3. FinalizerInv'
  BY DEF IInv, Inv, FinalizerInv, Letting, Making, Create, Report, server
<1>4. KnownInv'
  BY CreateFacts
     DEF IInv, Inv, TypeOK, KnownInv, Known, Create, Report, NotReady, Resource, Status,
         server, Grown
<1>5. SeenInv'
  BY DEF SeenInv, Making, Create, Report
<1>6. OwnInv'
  BY CreateFacts
     DEF IInv, Inv, TypeOK, OwnInv, Unowned, Doubt, KnownInv, Known, Create, Report, server,
         world, Grown, Alive
<1>7. ReadyInv'
  BY CreateFacts, StatusType
     DEF IInv, Inv, TypeOK, ReadyInv, OwnInv, SeenInv, CopyInv, NotMine, Making, Unowned,
         Doubt, KnownInv, Known, Create, Report, NotReady, Status, server, world, Grown,
         Alive
<1>8. ClearedInv'
  BY DEF ClearedInv, Create, Report
<1>9. QED
  BY <1>1, <1>2, <1>3, <1>4, <1>5, <1>6, <1>7, <1>8 DEF Inv

(* Users write specs, annotations and deletion timestamps, no statuses. *)
LEMMA UserInv ==
  ASSUME IInv, NEW c \in Resource, NEW e, UserWrite(e, c),
         \/ c.st = cr.st /\ c.fin = cr.fin /\ cr.phase # "absent" /\ UNCHANGED late
            /\ c.phase \in {cr.phase, "deleting"}
         \/ ~cr.fin /\ ~c.fin /\ c.st = Blank.st
  PROVE  Inv'
<1>1. Blank.st.id = NoId /\ Blank.st.id \notin Ids /\ ~Blank.st.ready
  BY NoIdFacts DEF Blank, New
<1>2. SyncInv' /\ CopyInv'
  BY DEF UserWrite, Write, SyncInv, CopyInv
<1>3. FinalizerInv'
  BY DEF IInv, Inv, FinalizerInv, Letting, Held, UserWrite, Write
<1>4. KnownInv'
  BY <1>1 DEF IInv, Inv, KnownInv, Known, UserWrite, Write
<1>5. SeenInv'
  BY DEF IInv, Inv, SeenInv, UserWrite, Write
<1>6. OwnInv'
  BY DEF IInv, Inv, OwnInv, FinalizerInv, Making, Unowned, Doubt, UserWrite, Write
<1>7. ReadyInv'
  BY <1>1, NoIdFacts DEF IInv, Inv, ReadyInv, NotMine, UserWrite, Write
<1>8. ClearedInv'
  BY DEF ClearedInv, UserWrite
<1>9. QED
  BY <1>2, <1>3, <1>4, <1>5, <1>6, <1>7, <1>8 DEF Inv

LEMMA UserActionsInv ==
  ASSUME IInv, Apply \/ Edit \/ Delete
  PROVE  Inv'
<1>1. CASE Apply
  <2>1. PICK s \in Specs, p \in BOOLEAN : UserWrite("apply", New(s, p))
    BY <1>1 DEF Apply
  <2>2. New(s, p) \in Resource /\ ~New(s, p).fin /\ New(s, p).st = Blank.st
    BY BlankType DEF New, Blank
  <2>3. ~cr.fin
    BY <1>1 DEF Apply, IInv, Inv, FinalizerInv
  <2>4. QED
    BY <2>1, <2>2, <2>3, UserInv
<1>2. CASE Edit
  <2>1. PICK e, c : /\ UserWrite(e, c)
                    /\ \/ \E s \in Specs : c = [cr EXCEPT !.spec = s]
                       \/ c = [cr EXCEPT !.prune = ~@]
                       \/ c = [cr EXCEPT !.skip = ~@]
    BY <1>2 DEF Edit
  <2>2. c \in Resource /\ c.st = cr.st /\ c.fin = cr.fin /\ c.phase = cr.phase
    BY <2>1 DEF IInv, TypeOK, Resource
  <2>3. QED
    BY <1>2, <2>1, <2>2, UserInv DEF Edit
<1>3. CASE Delete
  <2>1. CASE cr.fin
    <3> DEFINE c == [cr EXCEPT !.phase = "deleting"]
    <3>1. c \in Resource /\ c.st = cr.st /\ c.fin = cr.fin /\ c.phase = "deleting"
      BY DEF IInv, TypeOK, Resource
    <3>2. UserWrite("delete", c) /\ cr.phase # "absent" /\ UNCHANGED late
      BY <1>3, <2>1 DEF Delete
    <3> HIDE DEF c
    <3>3. QED
      BY <3>1, <3>2, UserInv
  <2>2. CASE ~cr.fin
    <3>1. ~Blank.fin
      BY DEF Blank, New
    <3>2. QED
      BY <1>3, <2>2, <3>1, BlankType, UserInv DEF Delete
  <2>3. QED
    BY <2>1, <2>2
<1>4. QED
  BY <1>1, <1>2, <1>3

(* Nothing of the resource or the worker changes, and no object appears. *)
LEMMA WorldInv ==
  ASSUME IInv, UNCHANGED <<server, worker, kind>>, late => late', Shrunk(remote, remote')
  PROVE  Inv'
<1>1. Alive(remote') \subseteq Alive(remote)
  BY DEF Shrunk
<1>2. SyncInv' /\ CopyInv' /\ FinalizerInv' /\ SeenInv'
  BY DEF IInv, Inv, SyncInv, CopyInv, FinalizerInv, Letting, SeenInv, server, worker
<1>3. KnownInv'
  BY DEF IInv, Inv, KnownInv, Known, Shrunk, server, worker
<1>4. OwnInv' /\ ReadyInv'
  BY <1>1 DEF IInv, Inv, OwnInv, ReadyInv, NotMine, Unowned, Doubt, server, worker
<1>5. ClearedInv'
  BY <1>1 DEF IInv, Inv, ClearedInv, Released, server, worker
<1>6. QED
  BY <1>2, <1>3, <1>4, <1>5 DEF Inv

LEMMA RestartInv ==
  ASSUME IInv, Restart
  PROVE  Inv'
<1>1. Blank.st.id = NoId
  BY DEF Blank, New
<1>2. SyncInv' /\ CopyInv' /\ SeenInv' /\ ClearedInv'
  BY DEF Restart, SyncInv, CopyInv, SeenInv, Making, ClearedInv
<1>3. FinalizerInv'
  BY DEF Restart, IInv, Inv, FinalizerInv, Letting, Making, Held
<1>4. KnownInv'
  BY <1>1, NoIdFacts DEF Restart, IInv, Inv, KnownInv, Known
<1>5. OwnInv' /\ ReadyInv'
  BY DEF Restart, IInv, Inv, OwnInv, ReadyInv, NotMine, world
<1>6. QED
  BY <1>2, <1>3, <1>4, <1>5 DEF Inv

LEMMA DeliverInv ==
  ASSUME IInv, Deliver
  PROVE  Inv'
<1>1. SyncInv' /\ CopyInv' /\ SeenInv' /\ ClearedInv'
  BY DEF Deliver, IInv, Inv, SyncInv, CopyInv, SeenInv, ClearedInv, Released, world, worker
<1>2. FinalizerInv'
  BY DEF Deliver, IInv, Inv, FinalizerInv, Letting, Held, worker
<1>3. KnownInv' /\ OwnInv' /\ ReadyInv'
  BY DEF Deliver, IInv, Inv, KnownInv, Known, OwnInv, Unowned, Doubt, ReadyInv, NotMine,
         world, worker
<1>4. QED
  BY <1>1, <1>2, <1>3 DEF Inv

LEMMA EnvironmentInv ==
  ASSUME IInv, Environment
  PROVE  Inv'
<1>1. Shrunk(remote, remote)
  BY SameGrown DEF IInv, TypeOK
<1>2. CASE Apply \/ Edit \/ Delete
  BY <1>2, UserActionsInv
<1>3. CASE TimeOut \/ AccountLost \/ AccountRestored \/ DepChanged
  <2>1. UNCHANGED <<server, worker, kind, remote>> /\ (late => late')
    BY <1>3 DEF TimeOut, AccountLost, AccountRestored, DepChanged
  <2>2. QED
    BY <1>1, <2>1, WorldInv
<1>4. CASE Dashboard
  <2>1. UNCHANGED <<server, worker, kind>> /\ (late => late')
    BY <1>4 DEF Dashboard, world
  <2>2. QED
    BY <1>4, <2>1, DashboardFacts, WorldInv DEF IInv
<1>5. CASE Restart
  BY <1>5, RestartInv
<1>6. QED
  BY <1>2, <1>3, <1>4, <1>5 DEF Environment

LEMMA StepInv ==
  ASSUME IInv, Step
  PROVE  Inv'
<1>1. CASE AddFinalizer \/ Update \/ Track \/ CleanupDelete \/ RemoveFinalizer
  BY <1>1, AddFinalizerInv, UpdateInv, TrackInv, CleanupDeleteInv, RemoveFinalizerInv
<1>2. CASE WindowResolve \/ GroupResolve
  BY <1>2, ResolveInv DEF WindowResolve, GroupResolve
<1>3. CASE SlackResolve
  <2>1. CASE NoWebhook(obj.spec)
    BY <1>3, <2>1, SlackMissingInv
  <2>2. CASE ~NoWebhook(obj.spec)
    BY <1>3, <2>2, ResolveInv DEF SlackResolve
  <2>3. QED
    BY <2>1, <2>2
<1>4. CASE WindowCreate \/ GroupCreate \/ SlackCreate
  BY <1>4, CreateInv DEF WindowCreate, GroupCreate, SlackCreate
<1>5. CASE WindowCleanup \/ GroupCleanup \/ SlackCleanup
  BY <1>5, CleanupInv DEF WindowCleanup, GroupCleanup, SlackCleanup
<1>6. CASE WindowStatus \/ GroupStatus \/ SlackStatus
  BY <1>6, StatusWrittenInv, StatusLostInv DEF WindowStatus, GroupStatus, SlackStatus
<1>7. CASE SlackList \/ SlackReplace \/ SlackConfirm
  BY <1>7, SlackListInv, SlackReplaceInv, SlackConfirmInv
<1>8. QED
  BY <1>1, <1>2, <1>3, <1>4, <1>5, <1>6, <1>7
     DEF Step, WindowStep, GroupStep, SlackStep, WindowAddFinalizer, GroupAddFinalizer,
         SlackAddFinalizer, WindowUpdate, GroupUpdate, WindowTrack, GroupTrack, SlackTrack,
         WindowCleanupDelete, GroupCleanupDelete, SlackCleanupDelete, WindowRemoveFinalizer,
         GroupRemoveFinalizer, SlackRemoveFinalizer

LEMMA NextInv == IInv /\ [Next]_vars => IInv'
<1> SUFFICES ASSUME IInv, [Next]_vars PROVE Inv'
  BY NextType DEF IInv
<1>1. CASE Take
  BY <1>1, BeginInv DEF Take, WindowBegin, GroupBegin, SlackBegin
<1>2. CASE Timer \/ UNCHANGED vars
  <2>1. UNCHANGED <<server, worker, kind, late, remote>>
    BY <1>2 DEF Timer, vars, world
  <2>2. Shrunk(remote, remote)
    BY SameGrown DEF IInv, TypeOK
  <2>3. QED
    BY <2>1, <2>2, WorldInv
<1>3. QED
  BY <1>1, <1>2, StepInv, DeliverInv, EnvironmentInv DEF Next

(* The inductive invariant: what the cached copy, the worker's copy and    *)
(* the server's resource have to do with each other, and with the object.  *)
THEOREM Invariance == Spec => []IInv
<1>1. Init => IInv
  BY InitType, InitInv DEF IInv
<1>2. QED
  BY <1>1, NextInv, PTL DEF Spec
-----------------------------------------------------------------------------
(***************************************************************************)
(* The refinement: every step of the controllers is a step of              *)
(* OwnershipLedger, or changes nothing of it.                              *)
(***************************************************************************)
LEMMA SameIsStutter ==
  ASSUME cr'.fin = cr.fin, cr.fin => cr'.st.id = cr.st.id, Alive(remote') = Alive(remote)
  PROVE  UNCHANGED Ledger!ledger
BY DEF Ledger!ledger

LEMMA InitRefines == Init => Ledger!Init
BY DEF Init, Ledger!Init, New, Alive

LEMMA LoseRefines ==
  ASSUME UNCHANGED cr, Shrunk(remote, remote')
  PROVE  [Ledger!Next]_(Ledger!ledger)
BY DEF Shrunk, Ledger!Next, Ledger!Lose, Ledger!ledger

LEMMA CreateRefines ==
  ASSUME IInv, NEW next, Create(next)
  PROVE  [Ledger!Next]_(Ledger!ledger)
<1>1. Grown(remote, remote')
  BY CreateFacts DEF Create, IInv, TypeOK
<1>2. cr.fin /\ Unowned /\ UNCHANGED cr
  BY DEF Create, IInv, Inv, FinalizerInv, OwnInv, Making, server
<1>3. Alive(remote') \in SUBSET Ids
  BY DEF Alive
<1>4. Ledger!Acquire
  BY <1>1, <1>2, <1>3 DEF Grown, Unowned, Ledger!Acquire, Ledger!Unowned
<1>5. QED
  BY <1>4 DEF Ledger!Next

LEMMA StatusRefines ==
  ASSUME IInv, NEW retries, StatusWritten(retries)
  PROVE  [Ledger!Next]_(Ledger!ledger)
<1>1. cr' = [cr EXCEPT !.st = obj.st] /\ UNCHANGED remote
  BY DEF StatusWritten, Write
<1>2. cr'.fin = cr.fin /\ cr'.st.id = obj.st.id /\ obj.st.id \in Ids \cup {NoId}
  BY <1>1, StatusType DEF IInv, TypeOK, Resource, AnyId
<1>3. CASE cr.fin /\ obj.st.id # cr.st.id
  <2>1. Unowned
    BY <1>3 DEF StatusWritten, IInv, Inv, OwnInv
  <2>2. Ledger!Record
    BY <1>1, <1>2, <1>3, <2>1 DEF Unowned, Ledger!Record, Ledger!Unowned
  <2>3. QED
    BY <2>2 DEF Ledger!Next
<1>4. CASE ~(cr.fin /\ obj.st.id # cr.st.id)
  BY <1>1, <1>2, <1>4, SameIsStutter
<1>5. QED
  BY <1>3, <1>4

LEMMA AddFinalizerRefines ==
  ASSUME IInv, AddFinalizer
  PROVE  [Ledger!Next]_(Ledger!ledger)
<1>1. CASE cur
  <2>1. cr'.fin /\ cr'.st = cr.st /\ UNCHANGED remote
    BY <1>1 DEF AddFinalizer, Write, IInv, TypeOK, Resource
  <2>2. cr.st.id \in Ids \cup {NoId}
    BY StatusType DEF IInv, TypeOK, AnyId
  <2>3. CASE cr.fin
    BY <2>1, <2>3, SameIsStutter
  <2>4. CASE ~cr.fin
    BY <2>1, <2>2, <2>4 DEF Ledger!Next, Ledger!Sign, IInv, TypeOK, Resource
  <2>5. QED
    BY <2>3, <2>4
<1>2. CASE ~cur
  BY <1>2, SameIsStutter DEF AddFinalizer
<1>3. QED
  BY <1>1, <1>2

LEMMA RemoveFinalizerRefines ==
  ASSUME IInv, RemoveFinalizer
  PROVE  [Ledger!Next]_(Ledger!ledger)
<1>1. CASE cur
  <2>1. cr' = Unfinalized(obj) /\ UNCHANGED remote
    BY <1>1 DEF RemoveFinalizer, Write
  <2>2. ~cr'.fin
    BY <2>1 DEF Unfinalized, Blank, New, IInv, TypeOK, Resource
  <2>3. cr.st.id \notin Alive(remote) \/ Released
    BY <1>1 DEF RemoveFinalizer, IInv, Inv, ClearedInv
  <2>4. CASE cr.fin
    BY <2>1, <2>2, <2>3, <2>4 DEF Ledger!Next, Ledger!Leave
  <2>5. CASE ~cr.fin
    <3>1. cr.fin = FALSE /\ cr'.fin = FALSE
      BY <2>1, <2>5 DEF Unfinalized, Blank, New, IInv, TypeOK, Resource
    <3>2. QED
      BY <2>1, <3>1, SameIsStutter
  <2>6. QED
    BY <2>4, <2>5
<1>2. CASE ~cur
  BY <1>2, SameIsStutter DEF RemoveFinalizer
<1>3. QED
  BY <1>1, <1>2

LEMMA UserRefines ==
  ASSUME IInv, Apply \/ Edit \/ Delete
  PROVE  [Ledger!Next]_(Ledger!ledger)
<1>1. cr.phase = "absent" => ~cr.fin
  BY DEF IInv, Inv, FinalizerInv
<1>2. cr'.fin = cr.fin /\ (cr.fin => cr'.st = cr.st)
  <2>1. CASE Apply
    <3>1. PICK s \in Specs, p \in BOOLEAN : cr' = New(s, p)
      BY <2>1 DEF Apply, UserWrite, Write
    <3>2. cr.fin = FALSE /\ cr'.fin = FALSE
      BY <1>1, <2>1, <3>1 DEF Apply, New, IInv, TypeOK, Resource
    <3>3. QED
      BY <3>2
  <2>2. CASE Edit
    BY <2>2 DEF Edit, UserWrite, Write, IInv, TypeOK, Resource
  <2>3. CASE Delete
    BY <2>3 DEF Delete, UserWrite, Write, Blank, New, IInv, TypeOK, Resource
  <2>4. QED
    BY <2>1, <2>2, <2>3
<1>3. UNCHANGED remote
  BY DEF Apply, Edit, Delete, UserWrite
<1>4. QED
  BY <1>2, <1>3, SameIsStutter

LEMMA StepRefines ==
  ASSUME IInv, Step
  PROVE  [Ledger!Next]_(Ledger!ledger)
<1>1. CASE AddFinalizer
  BY <1>1, AddFinalizerRefines
<1>2. CASE \E next : Create(next)
  BY <1>2, CreateRefines
<1>3. CASE Update \/ CleanupDelete \/ SlackReplace
  <2>1. UNCHANGED cr
    BY <1>3 DEF Update, CleanupDelete, SlackReplace, server
  <2>2. Shrunk(remote, remote')
    BY <1>3, UpdateFacts, DeleteFacts, StatusType
       DEF Update, CleanupDelete, SlackReplace, IInv, TypeOK
  <2>3. QED
    BY <2>1, <2>2, LoseRefines
<1>4. CASE RemoveFinalizer
  BY <1>4, RemoveFinalizerRefines
<1>5. CASE Track
  <2>1. cr'.fin = cr.fin /\ cr'.st = cr.st /\ UNCHANGED remote
    BY <1>5 DEF Track, Write, IInv, TypeOK, Resource
  <2>2. QED
    BY <2>1, SameIsStutter
<1>6. CASE UNCHANGED <<cr, remote>>
  BY <1>6, SameIsStutter
<1>7. CASE \E retries : StatusWritten(retries)
  BY <1>7, StatusRefines
<1>8. WindowResolve \/ GroupResolve \/ SlackResolve \/ SlackList \/ SlackConfirm
        => UNCHANGED <<cr, remote>>
  BY DEF WindowResolve, GroupResolve, SlackResolve, SlackList, SlackConfirm, Resolve, server
<1>9. WindowCleanup \/ GroupCleanup \/ SlackCleanup => UNCHANGED <<cr, remote>>
  BY DEF WindowCleanup, GroupCleanup, SlackCleanup, Cleanup, server
<1>10. WindowStatus \/ GroupStatus \/ SlackStatus =>
         UNCHANGED <<cr, remote>> \/ \E retries : StatusWritten(retries)
  BY DEF WindowStatus, GroupStatus, SlackStatus, StatusLost, server
<1>11. WindowCreate \/ GroupCreate \/ SlackCreate => \E next : Create(next)
  BY DEF WindowCreate, GroupCreate, SlackCreate
<1>12. QED
  BY <1>1, <1>2, <1>3, <1>4, <1>5, <1>6, <1>7, <1>8, <1>9, <1>10, <1>11
     DEF Step, WindowStep, GroupStep, SlackStep, WindowAddFinalizer, GroupAddFinalizer,
         SlackAddFinalizer, WindowUpdate, GroupUpdate, WindowTrack, GroupTrack, SlackTrack,
         WindowCleanupDelete, GroupCleanupDelete, SlackCleanupDelete, WindowRemoveFinalizer,
         GroupRemoveFinalizer, SlackRemoveFinalizer

LEMMA NextRefines == IInv /\ [Next]_vars => [Ledger!Next]_(Ledger!ledger)
<1> SUFFICES ASSUME IInv, [Next]_vars PROVE [Ledger!Next]_(Ledger!ledger)
  OBVIOUS
<1>1. CASE Take \/ Deliver \/ Timer \/ UNCHANGED vars
  <2>1. UNCHANGED <<cr, remote>>
    BY <1>1
       DEF Take, WindowBegin, GroupBegin, SlackBegin, Begin, Deliver, Timer, vars, server
  <2>2. QED
    BY <2>1, SameIsStutter
<1>2. CASE Apply \/ Edit \/ Delete
  BY <1>2, UserRefines
<1>3. CASE Dashboard
  BY <1>3, DashboardFacts, LoseRefines DEF Dashboard, IInv, server
<1>4. CASE TimeOut \/ AccountLost \/ AccountRestored \/ DepChanged \/ Restart
  <2>1. UNCHANGED <<cr, remote>>
    BY <1>4 DEF TimeOut, AccountLost, AccountRestored, DepChanged, Restart, server
  <2>2. QED
    BY <2>1, SameIsStutter
<1>5. QED
  BY <1>1, <1>2, <1>3, <1>4, StepRefines DEF Next, Environment

(* The controllers keep the ledger, for every account, any events and any  *)
(* number of them.                                                         *)
THEOREM LedgerIsKept == Spec => KeepsLedger
<1>1. Spec => []IInv
  BY Invariance
<1>2. QED
  BY <1>1, InitRefines, NextRefines, PTL DEF Spec, KeepsLedger, Ledger!Spec
=============================================================================
