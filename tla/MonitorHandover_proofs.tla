------------------------ MODULE MonitorHandover_proofs ------------------------
(***************************************************************************)
(* For any number of resources: a monitor that another resource claimed    *)
(* before the deletion of its owner, and claims still, survives the        *)
(* owner's cleanup.                                                        *)
(***************************************************************************)
EXTENDS MonitorHandover, MonitorController_proofs

(* The claims of a resource under deletion stand on the server. *)
ClaimsInv ==
  \A m \in Monitors : /\ firm[m] \subseteq Claims
                      /\ firm[m] # {} => cr[m].phase = "deleting"

(* A resource gets its finalizer only after the cache has seen this very   *)
(* resource, so that a deletion the cache shows is the present one.        *)
NotYetInv ==
  /\ \A m \in Monitors : cr[m].phase = "live" /\ cr[m].fin => cache[m].phase # "deleting"
  /\ pc = "finalize" => obj.phase = "live" /\ (cur => cache[key].phase = "live")

(* A cache that shows the deletion shows the claims older than it. *)
SeenClaimsInv ==
  \A m \in Monitors : cache[m].phase = "deleting" =>
    \A c \in firm[m] : cache[c[1]].phase = "live" /\ cache[c[1]].adopt = c[2]

(* While the worker cleans up, its resource is not one that could be       *)
(* deleted anew, and the cache goes on showing the deletion.               *)
CleaningInv ==
  pc \in {"track", "cleanup", "delete"} =>
    /\ ~(cr[key].phase = "live" /\ cr[key].fin)
    /\ cr[key].phase = "deleting" => cache[key].phase = "deleting"

(* The monitor about to be deleted is none that is claimed. *)
UnclaimedInv == pc = "delete" => \A c \in firm[key] : c[1] # key => c[2] # obj.st.id

HandInv == ClaimsInv /\ NotYetInv /\ SeenClaimsInv /\ CleaningInv /\ UnclaimedInv

LEMMA InitHand == ClaimInit => HandInv
<1> SUFFICES ASSUME ClaimInit PROVE HandInv
  OBVIOUS
<1>1. Blank.phase = "absent" /\ pc = "idle"
  BY DEF Blank, New, ClaimInit, Init
<1>2. cr = [m \in Monitors |-> Blank] /\ firm = [m \in Monitors |-> {}]
  BY DEF ClaimInit, Init
<1>3. QED
  BY <1>1, <1>2 DEF HandInv, ClaimsInv, NotYetInv, SeenClaimsInv, CleaningInv, UnclaimedInv
-----------------------------------------------------------------------------
(***************************************************************************)
(* What a step does to phases, finalizers and the cache.                   *)
(***************************************************************************)

(* Only AddFinalizer sets a finalizer, only a resource that has one goes   *)
(* into deletion, and nothing comes out of it alive.                       *)
PhaseStep(m) ==
  /\ cr'[m].phase = "live" /\ cr'[m].fin =>
       /\ cr[m].phase = "live"
       /\ cr[m].fin \/ (pc = "finalize" /\ cur /\ m = key)
  /\ cr'[m].phase = "deleting" =>
       cr[m].phase = "deleting" \/ (cr[m].phase = "live" /\ cr[m].fin)

LEMMA WritePhase ==
  ASSUME TypeOK, NEW k \in Monitors, NEW c \in Resource, Write(k, c), NEW m \in Monitors,
         \/ c.phase = cr[k].phase /\ (c.fin => cr[k].fin)
         \/ c.phase = "absent"
         \/ c.phase = "live" /\ ~c.fin
         \/ c.phase = "deleting" /\ cr[k].phase = "live" /\ cr[k].fin
  PROVE  PhaseStep(m)
<1>1. cr'[m] = IF m = k THEN c ELSE cr[m]
  BY DEF Write, TypeOK
<1>2. CASE m = k
  BY <1>1, <1>2 DEF PhaseStep
<1>3. CASE m # k
  BY <1>1, <1>3 DEF PhaseStep
<1>4. QED
  BY <1>2, <1>3

LEMMA AddFinalizerPhase ==
  ASSUME TypeOK, CopyInv, AddFinalizer, NEW m \in Monitors
  PROVE  PhaseStep(m)
<1>1. CASE cur
  <2> DEFINE c == [obj EXCEPT !.fin = TRUE, !.st = cr[key].st]
  <2>1. Write(key, c)
    BY <1>1 DEF AddFinalizer
  <2>2. c.phase = cr[key].phase
    BY <1>1 DEF CopyInv, TypeOK, Resource
  <2>3. pc = "finalize"
    BY DEF AddFinalizer
  <2> HIDE DEF c
  <2>4. cr'[m] = IF m = key THEN c ELSE cr[m]
    BY <2>1 DEF Write, TypeOK
  <2>5. CASE m = key
    BY <1>1, <2>2, <2>3, <2>4, <2>5 DEF PhaseStep
  <2>6. CASE m # key
    BY <2>4, <2>6 DEF PhaseStep
  <2>7. QED
    BY <2>5, <2>6
<1>2. CASE ~cur
  BY <1>2 DEF AddFinalizer, PhaseStep
<1>3. QED
  BY <1>1, <1>2 DEF TypeOK

LEMMA WorkerPhase ==
  ASSUME TypeOK, CopyInv, StatusWritten \/ Track \/ RemoveFinalizer, NEW m \in Monitors
  PROVE  PhaseStep(m)
<1>1. CASE StatusWritten
  <2>1. /\ [cr[key] EXCEPT !.st = obj.st] \in Resource
        /\ [cr[key] EXCEPT !.st = obj.st].phase = cr[key].phase
        /\ [cr[key] EXCEPT !.st = obj.st].fin = cr[key].fin
    BY DEF TypeOK, Resource
  <2>2. QED
    BY <1>1, <2>1, WritePhase DEF StatusWritten, TypeOK
<1>2. CASE Track
  <2>1. /\ [cr[key] EXCEPT !.tracked = TRUE] \in Resource
        /\ [cr[key] EXCEPT !.tracked = TRUE].phase = cr[key].phase
        /\ [cr[key] EXCEPT !.tracked = TRUE].fin = cr[key].fin
    BY DEF TypeOK, Resource
  <2>2. UNCHANGED cr \/ Write(key, [cr[key] EXCEPT !.tracked = TRUE])
    BY <1>2 DEF Track
  <2>3. QED
    BY <2>1, <2>2, WritePhase DEF PhaseStep, TypeOK
<1>3. CASE RemoveFinalizer
  <2>1. \/ UNCHANGED cr
        \/ Write(key, Unfinalized(obj)) /\ obj = cr[key]
    <3>1. IF cur THEN Write(key, Unfinalized(obj)) ELSE UNCHANGED cr
      BY <1>3 DEF RemoveFinalizer
    <3>2. pc = "unfinalize" /\ (cur => obj = cr[key])
      BY <1>3 DEF RemoveFinalizer, CopyInv
    <3>3. QED
      BY <3>1, <3>2
  <2>2. /\ Unfinalized(obj) \in Resource
        /\ \/ Unfinalized(obj).phase = "absent"
           \/ Unfinalized(obj).phase = obj.phase /\ ~Unfinalized(obj).fin
    <3>1. Blank \in Resource /\ Blank.phase = "absent"
      BY BlankType DEF Blank, New
    <3>2. QED
      BY <3>1 DEF Unfinalized, TypeOK, Resource
  <2>3. QED
    BY <2>1, <2>2, WritePhase DEF PhaseStep, TypeOK
<1>4. QED
  BY <1>1, <1>2, <1>3

LEMMA UserPhase ==
  ASSUME TypeOK, NEW k \in Monitors, Apply(k) \/ EditSpec(k) \/ Annotate(k) \/ Delete(k),
         NEW m \in Monitors
  PROVE  PhaseStep(m)
<1>1. CASE Apply(k)
  <2>1. PICK ty \in Types, p \in BOOLEAN, pr \in BOOLEAN, a \in {NoId} \cup Used(remote) :
          UserWrite("apply", k, New(ty, p, pr, a))
    BY <1>1 DEF Apply
  <2>2. New(ty, p, pr, a) \in Resource
    BY NewType DEF AnyId, Used
  <2>3. New(ty, p, pr, a).phase = "live" /\ ~New(ty, p, pr, a).fin
    BY DEF New
  <2>4. QED
    BY <2>1, <2>2, <2>3, WritePhase DEF UserWrite
<1>2. CASE EditSpec(k)
  <2>1. PICK c \in Resource, e \in {"type", "pause", "prune"} : UserWrite(e, k, c) /\ c.phase = cr[k].phase /\ c.fin = cr[k].fin
    <3>1. /\ \A ty \in Types : /\ [cr[k] EXCEPT !.type = ty] \in Resource
                               /\ [cr[k] EXCEPT !.type = ty].phase = cr[k].phase
                               /\ [cr[k] EXCEPT !.type = ty].fin = cr[k].fin
          /\ [cr[k] EXCEPT !.paused = ~@] \in Resource
          /\ [cr[k] EXCEPT !.paused = ~@].phase = cr[k].phase
          /\ [cr[k] EXCEPT !.paused = ~@].fin = cr[k].fin
          /\ [cr[k] EXCEPT !.prune = ~@] \in Resource
          /\ [cr[k] EXCEPT !.prune = ~@].phase = cr[k].phase
          /\ [cr[k] EXCEPT !.prune = ~@].fin = cr[k].fin
      BY DEF TypeOK, Resource
    <3>2. QED
      BY <1>2, <3>1 DEF EditSpec
  <2>2. QED
    BY <2>1, WritePhase DEF UserWrite
<1>3. CASE Annotate(k)
  <2>1. PICK c \in Resource, e \in {"adopt", "skip"} : UserWrite(e, k, c) /\ c.phase = cr[k].phase /\ c.fin = cr[k].fin
    <3>1. /\ \A i \in AnyId : /\ [cr[k] EXCEPT !.adopt = i] \in Resource
                              /\ [cr[k] EXCEPT !.adopt = i].phase = cr[k].phase
                              /\ [cr[k] EXCEPT !.adopt = i].fin = cr[k].fin
          /\ [cr[k] EXCEPT !.skip = ~@] \in Resource
          /\ [cr[k] EXCEPT !.skip = ~@].phase = cr[k].phase
          /\ [cr[k] EXCEPT !.skip = ~@].fin = cr[k].fin
      BY DEF TypeOK, Resource
    <3>2. Used(remote) \cup {NoId} \subseteq AnyId
      BY DEF Used, AnyId
    <3>3. QED
      BY <1>3, <3>1, <3>2 DEF Annotate
  <2>2. QED
    BY <2>1, WritePhase DEF UserWrite
<1>4. CASE Delete(k)
  <2>1. /\ [cr[k] EXCEPT !.phase = "deleting"] \in Resource
        /\ [cr[k] EXCEPT !.phase = "deleting"].phase = "deleting"
        /\ Blank \in Resource /\ Blank.phase = "absent"
    BY BlankType DEF TypeOK, Resource, Blank, New
  <2>2. QED
    BY <1>4, <2>1, WritePhase DEF Delete, UserWrite
<1>5. QED
  BY <1>1, <1>2, <1>3, <1>4

LEMMA Phases ==
  ASSUME TypeOK, CopyInv, [Next]_vars, NEW m \in Monitors
  PROVE  PhaseStep(m)
<1>1. CASE UNCHANGED cr
  BY <1>1 DEF PhaseStep
<1>2. CASE \E k \in Monitors : Apply(k) \/ EditSpec(k) \/ Annotate(k) \/ Delete(k)
  BY <1>2, UserPhase
<1>3. CASE \/ StatusLost \/ Cleanup \/ CleanupDelete \/ Retype \/ Create \/ CreatePause
           \/ AdoptGet \/ AdoptEdit \/ AdoptPause \/ Get \/ CorrectDrift \/ Edit \/ RePause
           \/ Publish
  BY <1>1, <1>3, CallEdits DEF StatusLost, Cleanup, CleanupDelete, CopyEdited
<1>4. CASE Deliver \/ \E k \in Monitors : Begin(k) \/ Timer(k) \/ TimeOut(k)
  BY <1>1, <1>4 DEF Deliver, Begin, Timer, TimeOut
<1>5. CASE DependencyMissing \/ AccountLost \/ AccountRestored \/ Dashboard \/ Restart
  BY <1>1, <1>5 DEF DependencyMissing, AccountLost, AccountRestored, Dashboard, Restart
<1>6. CASE UNCHANGED vars
  BY <1>1, <1>6 DEF vars
<1>7. QED
  BY <1>2, <1>3, <1>4, <1>5, <1>6, AddFinalizerPhase, WorkerPhase DEF Next, Step, Environment

(* The cache stays, or becomes the server's state. *)
LEMMA CacheStep ==
  ASSUME [Next]_vars
  PROVE  UNCHANGED cache \/ (cache' = cr /\ UNCHANGED cr)
BY DEF Next, Step, Environment, Deliver, Begin, Timer, AddFinalizer, StatusWritten, StatusLost, Track,
       Cleanup, CleanupDelete, RemoveFinalizer, Retype, Create, CreatePause, PauseResult, AdoptGet,
       AdoptEdit, EditResult, AdoptPause, Get, CorrectDrift, Edit, RePause, Publish,
       DependencyMissing, AccountLost, AccountRestored, Dashboard, Restart, Apply, EditSpec,
       Annotate, Delete, UserWrite, TimeOut, vars

(***************************************************************************)
(* What a step does to the worker and to the claims.                       *)
(***************************************************************************)

(* The steps that end, or go elsewhere, after a call. *)
LEMMA CallPlaces ==
  ASSUME \/ StatusLost \/ CleanupDelete \/ Retype \/ Create \/ CreatePause \/ AdoptGet
         \/ AdoptEdit \/ AdoptPause \/ Get \/ CorrectDrift \/ Edit \/ RePause \/ Publish
         \/ DependencyMissing \/ Restart \/ RemoveFinalizer
  PROVE  pc' \notin {"finalize", "track", "cleanup", "delete"}
<1>1. \A c : SyncBranch(c) \notin {"finalize", "track", "cleanup", "delete"}
  BY DEF SyncBranch
<1>2. \A exit : Return(exit) => pc' = "idle"
  BY DEF Return
<1>3. \A st, next : Report(st, next) => pc' = "status"
  BY DEF Report
<1>4. CASE StatusLost \/ DependencyMissing \/ RemoveFinalizer \/ Restart
  BY <1>2, <1>4 DEF StatusLost, DependencyMissing, RemoveFinalizer, Restart
<1>5. CASE CleanupDelete \/ CorrectDrift \/ Publish \/ AdoptGet
  BY <1>3, <1>5 DEF CleanupDelete, CorrectDrift, Publish, AdoptGet
<1>6. CASE Retype
  <2>1. PICK c : pc' = SyncBranch(c) \/ pc' = "status"
    BY <1>3, <1>6 DEF Retype
  <2>2. QED
    BY <1>1, <2>1
<1>7. CASE Create
  BY <1>3, <1>7 DEF Create
<1>8. CASE CreatePause \/ AdoptPause \/ RePause
  BY <1>3, <1>8 DEF CreatePause, AdoptPause, RePause, PauseResult
<1>9. CASE AdoptEdit \/ Edit
  BY <1>3, <1>9 DEF AdoptEdit, Edit, EditResult
<1>10. CASE Get
  BY <1>3, <1>10 DEF Get
<1>11. QED
  BY <1>4, <1>5, <1>6, <1>7, <1>8, <1>9, <1>10

(* The worker comes to "finalize" from a cached resource that lives, to    *)
(* its cleanup from one under deletion, and to the DELETE from a look for  *)
(* an adopter.                                                             *)
WorkerStep ==
  /\ pc' = "finalize" =>
       \/ pc = "finalize" /\ UNCHANGED <<key, obj>> /\ (cur' => cur)
       \/ obj' = cache[key'] /\ cache[key'].phase = "live" /\ UNCHANGED <<cr, cache>>
  /\ pc' \in {"track", "cleanup", "delete"} =>
       \/ pc \in {"track", "cleanup", "delete"} /\ UNCHANGED key
       \/ cache[key'].phase = "deleting" /\ UNCHANGED <<cr, cache>>
  /\ pc' = "delete" =>
       \/ pc = "delete" /\ UNCHANGED <<key, obj>>
       \/ /\ pc = "cleanup" /\ UNCHANGED <<cr, cache, key>>
          /\ obj' = cache[key] /\ ~Adopter(key, obj'.st.id)

LEMMA BeginWorker ==
  ASSUME TypeOK, NEW m \in Monitors, Begin(m)
  PROVE  WorkerStep
<1>1. pc = "idle" /\ UNCHANGED <<cr, cache>>
  BY DEF Begin
<1>2. CASE cache[m].phase = "absent"
  BY <1>1, <1>2 DEF Begin, WorkerStep
<1>3. CASE cache[m].phase # "absent"
  <2>1. key' = m /\ cache[m].phase \in {"live", "deleting"}
    BY <1>3 DEF Begin, TypeOK, Resource
  <2>2. AfterFinalizer(cache[m]) \notin {"finalize", "track", "cleanup", "delete"}
    BY DEF AfterFinalizer, SyncBranch
  <2>3. \/ pc' \notin {"finalize", "track", "cleanup", "delete"}
        \/ pc' = "track" /\ cache[m].phase = "deleting"
        \/ pc' = "finalize" /\ obj' = cache[m] /\ cache[m].phase # "deleting"
    BY <1>3, <2>2 DEF Begin
  <2>4. QED
    BY <1>1, <2>1, <2>3 DEF WorkerStep
<1>4. QED
  BY <1>2, <1>3

LEMMA CleanupWorker ==
  ASSUME Cleanup
  PROVE  WorkerStep
<1> DEFINE c == cache[key]
           leave == c.skip \/ (key \in late /\ c.tracked) \/ ~c.prune \/ ~c.st.ready
           spare == ~leave /\ Adopter(key, c.st.id)
<1>1. pc = "cleanup" /\ UNCHANGED <<cr, cache>>
  BY DEF Cleanup
<1>2. CASE c.phase = "absent"
  BY <1>2 DEF Cleanup, Return, WorkerStep
<1>3. CASE c.phase # "absent"
  <2>1. obj' = c /\ UNCHANGED key /\ (IF leave \/ spare THEN pc' = "status" ELSE pc' = "delete")
    BY <1>3 DEF Cleanup
  <2>2. pc' = "delete" => ~Adopter(key, c.st.id)
    BY <2>1
  <2>3. pc' \in {"status", "delete"}
    BY <2>1
  <2>4. QED
    BY <1>1, <2>1, <2>2, <2>3 DEF WorkerStep
<1>4. QED
  BY <1>2, <1>3

LEMMA Workers ==
  ASSUME TypeOK, PlanInv, [Next]_vars
  PROVE  WorkerStep
<1>1. CASE \/ StatusLost \/ CleanupDelete \/ Retype \/ Create \/ CreatePause \/ AdoptGet
           \/ AdoptEdit \/ AdoptPause \/ Get \/ CorrectDrift \/ Edit \/ RePause \/ Publish
           \/ DependencyMissing \/ Restart \/ RemoveFinalizer
  BY <1>1, CallPlaces DEF WorkerStep
<1>2. CASE AddFinalizer
  <2>1. \A c : AfterFinalizer(c) \notin {"finalize", "track", "cleanup", "delete"}
    BY DEF AfterFinalizer, SyncBranch
  <2>2. QED
    BY <1>2, <2>1 DEF AddFinalizer, Return, WorkerStep
<1>3. CASE StatusWritten
  <2>1. then \notin {"finalize", "track", "cleanup", "delete"}
    BY DEF PlanInv, Exits
  <2>2. QED
    BY <1>3, <2>1 DEF StatusWritten, Return, WorkerStep
<1>4. CASE Track
  BY <1>4 DEF Track, Return, WorkerStep
<1>5. CASE \E k \in Monitors : Apply(k) \/ EditSpec(k) \/ Annotate(k) \/ Delete(k)
  BY <1>5 DEF Apply, EditSpec, Annotate, Delete, UserWrite, WorkerStep
<1>6. CASE Deliver \/ AccountLost \/ AccountRestored \/ Dashboard
           \/ \E k \in Monitors : Timer(k) \/ TimeOut(k)
  BY <1>6 DEF Deliver, AccountLost, AccountRestored, Dashboard, Timer, TimeOut, worker, WorkerStep
<1>7. CASE UNCHANGED vars
  BY <1>7 DEF vars, WorkerStep
<1>8. QED
  BY <1>1, <1>2, <1>3, <1>4, <1>5, <1>6, <1>7, BeginWorker, CleanupWorker DEF Next, Step, Environment

LEMMA Firm ==
  ASSUME ClaimsInv, [ClaimNext]_claimVars, NEW m \in Monitors
  PROVE  /\ firm'[m] \subseteq Claims'
         /\ firm'[m] # {} => cr'[m].phase = "deleting"
         /\ cr[m].phase = "deleting" => firm'[m] \subseteq firm[m]
<1>1. CASE ClaimNext
  BY <1>1 DEF ClaimNext, Deleted, ClaimsInv
<1>2. CASE UNCHANGED claimVars
  BY <1>2 DEF claimVars, vars, ClaimsInv, Claims
<1>3. QED
  BY <1>1, <1>2

LEMMA NotYetKept ==
  ASSUME TypeOK, CopyInv, NotYetInv, [Next]_vars,
         \A m \in Monitors : PhaseStep(m), WorkerStep
  PROVE  NotYetInv'
<1>1. ASSUME NEW m \in Monitors, cr'[m].phase = "live", cr'[m].fin
      PROVE  cache'[m].phase # "deleting"
  <2>1. cr[m].phase = "live" /\ (cr[m].fin \/ (pc = "finalize" /\ cur /\ m = key))
    BY <1>1 DEF PhaseStep
  <2>2. cache[m].phase # "deleting"
    BY <2>1 DEF NotYetInv
  <2>3. QED
    BY <2>1, <2>2, CacheStep
<1>2. ASSUME pc' = "finalize"
      PROVE  obj'.phase = "live" /\ (cur' => cache'[key'].phase = "live")
  <2>1. CASE obj' = cache[key'] /\ cache[key'].phase = "live" /\ UNCHANGED <<cr, cache>>
    BY <2>1
  <2>2. CASE pc = "finalize" /\ UNCHANGED <<key, obj>> /\ (cur' => cur)
    <3>1. obj'.phase = "live"
      BY <2>2 DEF NotYetInv
    <3>2. [cr[key] EXCEPT !.st = obj.st].phase = cr[key].phase
      BY DEF TypeOK, Resource
    <3>3. cur => cache[key].phase = "live" /\ cr[key].phase = obj.phase
      BY <2>2, <3>2 DEF NotYetInv, CopyInv
    <3>4. QED
      BY <2>2, <3>1, <3>3, CacheStep DEF NotYetInv
  <2>3. QED
    BY <1>2, <2>1, <2>2 DEF WorkerStep
<1>3. QED
  BY <1>1, <1>2 DEF NotYetInv

LEMMA SeenClaimsKept ==
  ASSUME TypeOK, ClaimsInv, NotYetInv, SeenClaimsInv, [Next]_vars, [ClaimNext]_claimVars,
         \A m \in Monitors : PhaseStep(m)
  PROVE  SeenClaimsInv'
<1> SUFFICES ASSUME NEW m \in Monitors, cache'[m].phase = "deleting", NEW c \in firm'[m]
             PROVE  cache'[c[1]].phase = "live" /\ cache'[c[1]].adopt = c[2]
  BY DEF SeenClaimsInv
<1>1. c \in Claims' /\ cr'[m].phase = "deleting" /\ (cr[m].phase = "deleting" => c \in firm[m])
  BY Firm
<1>2. CASE cache' = cr /\ UNCHANGED cr
  BY <1>1, <1>2 DEF Claims
<1>3. CASE UNCHANGED cache
  <2>1. ~(cr[m].phase = "live" /\ cr[m].fin)
    BY <1>3 DEF NotYetInv
  <2>2. cr[m].phase = "deleting"
    BY <1>1, <2>1 DEF PhaseStep
  <2>3. QED
    BY <1>1, <1>3, <2>2 DEF SeenClaimsInv
<1>4. QED
  BY <1>2, <1>3, CacheStep

LEMMA CleaningKept ==
  ASSUME TypeOK, NotYetInv, CleaningInv, [Next]_vars,
         \A m \in Monitors : PhaseStep(m), WorkerStep, key' \in Monitors
  PROVE  CleaningInv'
<1> SUFFICES ASSUME pc' \in {"track", "cleanup", "delete"}
             PROVE  /\ ~(cr'[key'].phase = "live" /\ cr'[key'].fin)
                    /\ cr'[key'].phase = "deleting" => cache'[key'].phase = "deleting"
  BY DEF CleaningInv
<1>1. CASE cache[key'].phase = "deleting" /\ UNCHANGED <<cr, cache>>
  BY <1>1 DEF NotYetInv
<1>2. CASE pc \in {"track", "cleanup", "delete"} /\ UNCHANGED key
  <2>1. /\ ~(cr[key].phase = "live" /\ cr[key].fin)
        /\ cr[key].phase = "deleting" => cache[key].phase = "deleting"
    BY <1>2 DEF CleaningInv
  <2>2. PhaseStep(key) /\ pc # "finalize"
    BY <1>2 DEF TypeOK
  <2>3. /\ ~(cr'[key].phase = "live" /\ cr'[key].fin)
        /\ cr'[key].phase = "deleting" => cr[key].phase = "deleting"
    BY <2>1, <2>2 DEF PhaseStep
  <2>4. QED
    BY <1>2, <2>1, <2>3, CacheStep
<1>3. QED
  BY <1>1, <1>2 DEF WorkerStep

LEMMA UnclaimedKept ==
  ASSUME TypeOK, ClaimsInv, SeenClaimsInv, CleaningInv, UnclaimedInv, [ClaimNext]_claimVars,
         PhaseStep(key), WorkerStep
  PROVE  UnclaimedInv'
<1> SUFFICES ASSUME pc' = "delete", NEW c \in firm'[key'], c[1] # key'
             PROVE  c[2] # obj'.st.id
  BY DEF UnclaimedInv
<1>1. CASE pc = "delete" /\ UNCHANGED <<key, obj>>
  <2>1. cr'[key].phase = "deleting"
    BY <1>1, Firm DEF TypeOK
  <2>2. cr[key].phase = "deleting"
    BY <1>1, <2>1 DEF PhaseStep, CleaningInv
  <2>3. c \in firm[key]
    BY <1>1, <2>2, Firm DEF TypeOK
  <2>4. QED
    BY <1>1, <2>3 DEF UnclaimedInv
<1>2. CASE /\ pc = "cleanup" /\ UNCHANGED <<cr, cache, key>>
           /\ obj' = cache[key] /\ ~Adopter(key, obj'.st.id)
  <2>1. cr[key].phase = "deleting" /\ c \in Claims'
    BY <1>2, Firm DEF TypeOK
  <2>2. c \in firm[key]
    BY <1>2, <2>1, Firm DEF TypeOK
  <2>3. cache[key].phase = "deleting"
    BY <1>2, <2>1 DEF CleaningInv
  <2>4. cache[c[1]].phase = "live" /\ cache[c[1]].adopt = c[2] /\ c[1] \in Monitors
    BY <2>1, <2>2, <2>3 DEF SeenClaimsInv, TypeOK, Claims
  <2>5. QED
    BY <1>2, <2>4 DEF Adopter
<1>3. QED
  BY <1>1, <1>2 DEF WorkerStep

LEMMA NextHand == IInv /\ IInv' /\ IdInv /\ HandInv /\ [ClaimNext]_claimVars => HandInv'
<1> SUFFICES ASSUME IInv, IInv', IdInv, HandInv, [ClaimNext]_claimVars PROVE HandInv'
  OBVIOUS
<1> USE DEF HandInv
<1>1. [Next]_vars
  BY DEF ClaimNext, claimVars
<1>2. TypeOK /\ CopyInv /\ PlanInv /\ key' \in Monitors
  BY DEF IInv, IdInv, TypeOK
<1>3. \A m \in Monitors : PhaseStep(m)
  BY <1>1, <1>2, Phases
<1>4. WorkerStep
  BY <1>1, <1>2, Workers
<1>5. NotYetInv'
  BY <1>1, <1>2, <1>3, <1>4, NotYetKept
<1>6. SeenClaimsInv'
  BY <1>1, <1>2, <1>3, SeenClaimsKept
<1>7. CleaningInv'
  BY <1>1, <1>2, <1>3, <1>4, CleaningKept
<1>8. UnclaimedInv'
  BY <1>2, <1>3, <1>4, UnclaimedKept DEF TypeOK
<1>9. ClaimsInv'
  BY Firm DEF ClaimsInv
<1>10. QED
  BY <1>5, <1>6, <1>7, <1>8, <1>9

LEMMA ClaimSpecIsSpec == ClaimSpec => Spec
<1>1. ClaimInit => Init
  BY DEF ClaimInit
<1>2. [ClaimNext]_claimVars => [Next]_vars
  BY DEF ClaimNext, claimVars
<1>3. QED
  BY <1>1, <1>2, PTL DEF ClaimSpec, Spec

(* The claims that stood when a resource was deleted are known to whoever  *)
(* knows of the deletion (monitor_controller.go lines 141-188).            *)
THEOREM ClaimsAreSeen == ClaimSpec => []HandInv
BY InitHand, NextHand, ClaimSpecIsSpec, Invariance, IdentifiersKnown, PTL DEF ClaimSpec

(* The only call a worker at its DELETE makes, and whose monitor it is. *)
LEMMA DeleteTouches ==
  ASSUME TypeOK, [Next]_vars, pc = "delete", pc' # "delete", NEW i, i # obj.st.id, Live(remote, i)
  PROVE  Live(remote', i)
<1>1. CASE CleanupDelete
  <2>1. PICK o \in DeleteMonitor(remote, obj.st.id) : remote' = o.remote
    BY <1>1 DEF CleanupDelete
  <2>2. o.remote \in {remote, Gone(remote, obj.st.id)}
    BY <2>1 DEF DeleteMonitor, Misread, ByFault, Ok, Err, Outcome
  <2>3. QED
    BY <2>1, <2>2 DEF Gone, Live, TypeOK, Account
<1>2. CASE Restart
  BY <1>2 DEF Restart
<1>3. CASE \E m \in Monitors : Begin(m) \/ Timer(m) \/ TimeOut(m)
  BY <1>3 DEF Begin, Timer, TimeOut, worker
<1>4. CASE Deliver \/ AccountLost \/ AccountRestored \/ Dashboard \/ DependencyMissing
  BY <1>4 DEF Deliver, AccountLost, AccountRestored, Dashboard, DependencyMissing, worker
<1>5. CASE \E m \in Monitors : Apply(m) \/ EditSpec(m) \/ Annotate(m) \/ Delete(m)
  BY <1>5 DEF Apply, EditSpec, Annotate, Delete, UserWrite
<1>6. CASE UNCHANGED vars
  BY <1>6 DEF vars
<1>7. QED
  BY <1>1, <1>2, <1>3, <1>4, <1>5, <1>6
     DEF Next, Step, Environment, AddFinalizer, StatusWritten, StatusLost, Track, Cleanup,
         RemoveFinalizer, Retype, Create, CreatePause, AdoptGet, AdoptEdit, AdoptPause, Get,
         CorrectDrift, Edit, RePause, Publish

(* No cleanup deletes a monitor that was claimed before the deletion and   *)
(* is claimed still, however far the cache lags behind and whatever fails. *)
THEOREM ClaimIsRespected == ClaimSpec => ClaimRespected
<1>1. IInv /\ HandInv /\ [ClaimNext]_claimVars =>
        [pc = "delete" /\ pc' # "delete" =>
           \A c \in firm[key] : c[1] # key /\ Live(remote, c[2]) => Live(remote', c[2])]_claimVars
  <2> SUFFICES ASSUME IInv, HandInv, [ClaimNext]_claimVars, pc = "delete", pc' # "delete",
                      NEW c \in firm[key], c[1] # key, Live(remote, c[2])
               PROVE  Live(remote', c[2])
    OBVIOUS
  <2>1. [Next]_vars
    BY DEF ClaimNext, claimVars
  <2>2. c[2] # obj.st.id
    BY DEF HandInv, UnclaimedInv
  <2>3. QED
    BY <2>1, <2>2, DeleteTouches DEF IInv
<1>2. QED
  BY <1>1, ClaimsAreSeen, ClaimSpecIsSpec, Invariance, PTL DEF ClaimSpec, ClaimRespected
=============================================================================
