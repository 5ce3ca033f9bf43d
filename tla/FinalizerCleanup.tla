--------------------------- MODULE FinalizerCleanup ---------------------------
(***************************************************************************)
(* HandleFinalizerCleanup and InitializeCleanupTracking                    *)
(* (internal/controller/finalizer.go) against the clock, for one resource  *)
(* under deletion whose cleanup has something to delete: the start time in *)
(* its annotation, the timeout, the DELETE and, for a Monitor, the lookup  *)
(* after it, with their retries (HttpRetry), the backoff, and the          *)
(* reconciler around them.  Time is in whole seconds and passes where the  *)
(* code waits.                                                             *)
(***************************************************************************)
EXTENDS HttpRetry, Integers

CONSTANTS
  Timeout,        \* DefaultCleanupTimeout, in seconds
  Durations,      \* seconds one HTTP attempt can take
  Skew,           \* seconds the clock can be set back
  Budget,         \* BOUND: environment events and API server faults
  Tick,           \* BOUND: the delays of the queue are rounded up to its multiples
  Horizon         \* BOUND: ages are counted up to here

ASSUME TimeoutAssumption == Timeout \in Nat \ {0} /\ Horizon \in Nat /\ Horizon > Timeout
ASSUME DurationsAssumption ==
  Durations \subseteq Nat /\ \E longest \in Durations : \A d \in Durations : d <= longest
ASSUME SkewAssumption == Skew \in Nat /\ Budget \in Nat
ASSUME TickAssumption == Tick \in 1 .. 1000 /\ Tick <= Timeout

VARIABLES
  fin,          \* the resource is there, with its finalizer
  skip,         \* its skip-cleanup annotation
  mark,         \* cleanup-start-time: "none", "set", or text that is no time
  age,          \* seconds since the start time
  remote,       \* the object it stands for still exists
  account,      \* the account and its key can be read
  kind,         \* "monitor", "group", or "other": a maintenance window, an integration
  pc,           \* "idle", "check", "delete", "lookup", "status" or "remove"
  fresh,        \* the worker's copy has the server's version
  elapsed,      \* what HandleFinalizerCleanup measured
  due,          \* seconds until the key is taken again
  fails,        \* consecutive errors, as the queue's rate limiter counts them
  result,       \* what HandleFinalizerCleanup decided; "mistaken": to release, for an
                \* error of DELETE that has "404" in its text
  blocked,      \* history: a reconcile ended because of the account
  budget

resource == <<fin, skip, mark, remote, kind>>
cleanupVars == <<resource, age, account, pc, fresh, elapsed, due, fails, result, blocked, budget>>
vars == <<cleanupVars, callVars>>

Marks == {"none", "set", "bad"}

Kinds == {"monitor", "group", "other"}

(* All reconcilers but the one of groups read the account and its key      *)
(* before they look at the deletion.                                       *)
LookupFirst == kind # "group"

Init ==
  /\ CallInit /\ fin = TRUE /\ skip = FALSE /\ mark = "none" /\ age = 0 /\ remote = TRUE
  /\ account = TRUE /\ kind \in Kinds /\ pc = "idle" /\ fresh = FALSE
  /\ elapsed = 0 /\ due = 0 /\ fails = 0 /\ result = "none" /\ blocked = FALSE
  /\ budget = Budget

Spend == budget > 0 /\ budget' = budget - 1

Later(d) == IF mark # "set" THEN 0 ELSE AtMost(age + d, Horizon)

(* The workqueue's rate limiter: 5 ms, doubled with every failure in a     *)
(* row, at most 1000 s.                                                    *)
Penalty(n) == AtMost(Tick * (2^n \div (200 * Tick) + 1), 1000)

(* The reconcile ends with an error, or with RequeueAfter. *)
Failed ==
  /\ pc' = "idle" /\ due' = Penalty(fails) /\ fails' = AtMost(fails + 1, 18)
  /\ fresh' = FALSE /\ elapsed' = 0 /\ result' = "none" /\ NoCall

Requeued(seconds) ==
  /\ pc' = "idle" /\ due' = seconds /\ fails' = 0
  /\ fresh' = FALSE /\ elapsed' = 0 /\ result' = "none" /\ NoCall
-----------------------------------------------------------------------------
(* The key is due.  An account that cannot be read ends the reconcile if   *)
(* it is read first; then the start time is written, once, and the         *)
(* resource read again, from a cache that may not have it.                 *)
Blocked ==
  /\ LookupFirst /\ ~account /\ blocked' = TRUE /\ age' = Later(due)
  /\ Failed /\ UNCHANGED <<mark, budget>>

Track ==
  /\ mark = "none" /\ UNCHANGED blocked
  /\ \/ mark' = "set" /\ age' = 0 /\ fresh' \in BOOLEAN /\ pc' = "check" /\ due' = 0
        /\ UNCHANGED <<elapsed, fails, result, budget, callVars>>
     \/ Spend /\ Failed /\ UNCHANGED <<mark, age>>

(* Mutant of Resume: every reconcile writes the start time anew. *)
Resume_Afresh ==
  /\ mark # "none" /\ age' = 0 /\ elapsed' = 0 /\ fresh' = TRUE /\ pc' = "check" /\ due' = 0
  /\ UNCHANGED <<mark, fails, result, blocked, budget, callVars>>

(* time.Since the annotation; since now, when it does not parse.  By the   *)
(* time the key is taken again, the cache has the worker's last write.     *)
Resume ==
  /\ mark # "none" /\ age' = Later(due) /\ elapsed' = age' /\ fresh' = TRUE /\ pc' = "check"
  /\ due' = 0 /\ UNCHANGED <<mark, fails, result, blocked, budget, callVars>>

Begin ==
  /\ pc = "idle" /\ fin
  /\ Blocked \/ ((LookupFirst => account) /\ (Track \/ Resume))
  /\ UNCHANGED <<fin, skip, remote, kind, account>>

Expired(seconds) == seconds > Timeout

Decide(how) == pc' = "status" /\ result' = how /\ NoCall /\ UNCHANGED <<elapsed, due, fails, fresh>>

(* math.Round(3 * elapsed / timeout), the shift count of the backoff, is   *)
(* negative when the start time is far enough in the future, and the shift *)
(* panics.                                                                 *)
Negative(seconds) == 6 * seconds <= -Timeout

(* Mutant of TryAgain: a failed cleanup is good enough. *)
TryAgain_Release == Decide("release")

(* The CleanupFunc has failed. *)
TryAgain == IF Negative(elapsed) THEN Failed ELSE Decide("retry")

(* Skip annotation, timeout, and then the CleanupFunc: in the group        *)
(* controller it looks the account up, and fails without one.              *)
Check ==
  /\ pc = "check"
  /\ IF skip \/ Expired(elapsed) THEN Decide("release")
     ELSE IF ~account /\ ~LookupFirst THEN TryAgain
     ELSE pc' = "delete" /\ StartCall /\ UNCHANGED <<elapsed, result, due, fails, fresh>>
  /\ UNCHANGED <<resource, age, account, blocked, budget>>

(* One request of the DELETE; an object that is gone answers 404. *)
Delete ==
  /\ pc = "delete"
  /\ \E reply \in Replies, effect \in {0, 1}, d \in Durations :
       /\ reply = "ok" => remote
       /\ reply = "missing" => ~remote
       /\ effect = 1 => remote
       /\ Attempt(reply, effect)
       /\ remote' = (remote /\ effect = 0) /\ age' = Later(d)
  /\ UNCHANGED <<fin, skip, mark, kind, account, pc, fresh, elapsed, due, fails, result, blocked,
                 budget>>

(* One request of FindMonitorID, the GET of the list by identifier that    *)
(* follows every DELETE of a Monitor that has failed.  Whether a GET       *)
(* without an answer was carried out makes no difference.                  *)
Lookup ==
  /\ pc = "lookup"
  /\ \E reply \in Replies, d \in Durations :
       Attempt(reply, IF reply = "ok" THEN 1 ELSE 0) /\ age' = Later(d)
  /\ UNCHANGED <<resource, account, pc, fresh, elapsed, due, fails, result, blocked, budget>>

Wait ==
  /\ pc \in {"delete", "lookup"} /\ TimerFires /\ age' = Later(delay)
  /\ UNCHANGED <<resource, account, pc, fresh, elapsed, due, fails, result, blocked, budget>>

Shift(seconds) == AtMost((6 * seconds + Timeout) \div (2 * Timeout), 10)

(* Mutant of Backoff: no upper limit, and a steeper curve. *)
Backoff_Steep(seconds) == 30 * 2^(3 * Shift(seconds))

Backoff(seconds) == AtMost(30 * 2^Shift(seconds), 300)

(* The errors in whose text "404" is taken for the status: of a Monitor    *)
(* that of a refusal, which quotes the body of the answer; of the others   *)
(* (IsNotFound) also that of a network error, which quotes the URL.        *)
Misleading == IF kind = "monitor" THEN {"rejected"} ELSE {"rejected", "fatal", "exhausted"}

(* DELETE has failed, and its error does not look like a 404.  The lookup  *)
(* fails at once when the context is cancelled.                            *)
NotDeleted ==
  IF kind = "monitor" /\ answer # "cancelled"
  THEN pc' = "lookup" /\ StartCall /\ UNCHANGED <<elapsed, result, due, fails, fresh>>
  ELSE TryAgain

(* The DELETE has ended. *)
Judge ==
  /\ pc = "delete" /\ ~calling
  /\ \/ answer \in {"ok", "missing"} /\ Decide("release")
     \/ answer \in Misleading /\ Decide("mistaken")
     \/ answer \notin {"ok", "missing"} /\ NotDeleted
  /\ UNCHANGED <<resource, age, account, blocked, budget>>

(* The lookup has ended: only an empty list is success. *)
JudgeLookup ==
  /\ pc = "lookup" /\ ~calling
  /\ IF answer = "ok" /\ ~remote THEN Decide("release") ELSE TryAgain
  /\ UNCHANGED <<resource, age, account, blocked, budget>>

(* The status write, which fails for a stale copy; then RequeueAfter, or   *)
(* on to the finalizer.                                                    *)
Status ==
  /\ pc = "status"
  /\ \/ /\ fresh /\ UNCHANGED budget
        /\ IF result = "retry" THEN Requeued(Backoff(elapsed))
           ELSE pc' = "remove" /\ UNCHANGED <<fresh, elapsed, due, fails, result, callVars>>
     \/ (IF fresh THEN Spend ELSE UNCHANGED budget) /\ Failed
  /\ UNCHANGED <<resource, age, account, blocked>>

Remove ==
  /\ pc = "remove"
  /\ \/ fresh /\ fin' = FALSE /\ Requeued(0) /\ UNCHANGED budget
     \/ (IF fresh THEN Spend ELSE UNCHANGED budget) /\ Failed /\ UNCHANGED fin
  /\ UNCHANGED <<skip, mark, remote, kind, age, account, blocked>>
-----------------------------------------------------------------------------
(* A user sets or takes away the skip annotation, or spoils the start      *)
(* time: the worker's copy is stale.                                       *)
Annotate ==
  /\ fin /\ Spend /\ fresh' = FALSE
  /\ \/ skip' = ~skip /\ UNCHANGED <<mark, age>>
     \/ mark = "set" /\ mark' = "bad" /\ age' = 0 /\ UNCHANGED skip
  /\ UNCHANGED <<fin, remote, kind, account, pc, elapsed, due, fails, result, blocked, callVars>>

(* The clock of the node is set back, or the operator moves to a node      *)
(* whose clock is behind.                                                  *)
ClockSetBack ==
  /\ fin /\ mark = "set" /\ pc = "idle" /\ age < Horizon /\ Spend /\ age' = age - Skew
  /\ UNCHANGED <<resource, account, pc, fresh, elapsed, due, fails, result, blocked, callVars>>

AccountLost ==
  /\ fin /\ account /\ Spend /\ account' = FALSE
  /\ UNCHANGED <<resource, age, pc, fresh, elapsed, due, fails, result, blocked, callVars>>

AccountRestored ==
  /\ ~account /\ account' = TRUE
  /\ UNCHANGED <<resource, age, pc, fresh, elapsed, due, fails, result, blocked, budget, callVars>>

(* The process is told to stop while it waits, or just stops; another one  *)
(* takes the key at once.                                                  *)
Shutdown ==
  /\ pc \in {"delete", "lookup"} /\ Spend /\ Cancel
  /\ UNCHANGED <<resource, age, account, pc, fresh, elapsed, due, fails, result, blocked>>

Restart ==
  /\ fin /\ pc # "idle" /\ Spend /\ Requeued(0)
  /\ UNCHANGED <<resource, age, account, blocked>>

Step ==
  \/ Begin \/ Check \/ Delete \/ Judge \/ Lookup \/ JudgeLookup \/ Wait \/ Status \/ Remove

Environment == Annotate \/ ClockSetBack \/ AccountLost \/ AccountRestored \/ Shutdown \/ Restart

Next == Step \/ Environment

(* The worker goes on, and a lost account is put back; no request need     *)
(* ever succeed.                                                           *)
Spec == Init /\ [][Next]_vars /\ WF_vars(Step) /\ WF_vars(AccountRestored)
-----------------------------------------------------------------------------
(* The shape of every variable. *)
TypeOK ==
  /\ CallTypeOK /\ fin \in BOOLEAN /\ skip \in BOOLEAN /\ mark \in Marks /\ age \in Int
  /\ remote \in BOOLEAN /\ account \in BOOLEAN /\ kind \in Kinds
  /\ pc \in {"idle", "check", "delete", "lookup", "status", "remove"} /\ fresh \in BOOLEAN
  /\ elapsed \in Int /\ due \in Nat /\ fails \in 0 .. 18
  /\ result \in {"none", "retry", "release", "mistaken"} /\ blocked \in BOOLEAN /\ budget \in 0 .. Budget

(* The call of a client is sent at most six times, succeeds only if the    *)
(* service did what it was asked, and promises nothing on an error         *)
(* (doWithRetry).                                                          *)
KeepsCall == Call!Spec

(* The longest one call can take, and the longest backoff. *)
Longest == CHOOSE d \in Durations : \A e \in Durations : e <= d
MaxWait == MaxDelay + (MaxDelay * Jitter) \div 100
MaxCall == (MaxRetries + 1) * Longest + MaxRetries * MaxWait

(* What a cleanup calls: DELETE, and for a Monitor the lookup. *)
MaxCleanup == IF kind = "monitor" THEN MaxCall + MaxCall ELSE MaxCall

LastBackoff == 240

(* Failures in a row: one for every event, one for a cache behind the      *)
(* start time just written, and as many as fit into the time before a      *)
(* start time that the clock has put into the future.                      *)
MostFails == AtMost(Budget + 2 + (Skew * Budget) \div Tick, 18)

(* "The maximum duration to attempt cleanup before forcing finalizer       *)
(* removal" (finalizer.go:36): no resource keeps its finalizer for longer  *)
(* after the recorded start than the timeout, the calls under way at that  *)
(* moment (for a Monitor two, each with all of its attempts), one backoff, *)
(* and a penalty for every failed write, unless the start time was spoilt  *)
(* or the account lookup came first and failed.                            *)
Deadline ==
  fin /\ mark = "set" /\ ~blocked =>
    age <= Timeout + MaxCleanup + LastBackoff + Budget * Penalty(MostFails)

(* The finalizer goes for a reason that still holds: the object is gone,   *)
(* the annotation asks for it, or the timeout has passed; except where     *)
(* DELETE failed with an error that merely has "404" in its text, which    *)
(* client.go (661, 872, 905, 948) takes for an object that is not there.   *)
RemovalEarned ==
  [][fin /\ ~fin' => ~remote \/ skip \/ elapsed > Timeout \/ result = "mistaken"]_vars

(* A deletion ends whatever the service answers, even if it never answers  *)
(* a DELETE with success, unless someone spoils the start time.            *)
CleanupEnds == fin ~> ~fin \/ mark = "bad"
=============================================================================
