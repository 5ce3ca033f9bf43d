----------------------- MODULE FinalizerCleanup_proofs -----------------------
(***************************************************************************)
(* For every timeout, retry count, delay and clock: the retried call keeps *)
(* what HttpCall promises, the finalizer goes for a reason, every variable *)
(* keeps its type, and no finalizer outlives its deadline.                 *)
(***************************************************************************)
EXTENDS FinalizerCleanup, TLAPS

(* The requests of a call are the attempts the loop has counted, and one   *)
(* more while it waits.                                                    *)
CallInv ==
  /\ calling \in BOOLEAN /\ waiting \in BOOLEAN /\ attempt \in Nat /\ executed \in Nat
  /\ calling => attempt <= MaxRetries /\ answer = "none"
  /\ calling /\ ~waiting => sends = attempt
  /\ waiting => calling /\ attempt < MaxRetries /\ sends = attempt + 1

(* A call is made, and ends, only while the cleanup deletes or looks the   *)
(* Monitor up; success of DELETE means that the object is gone.            *)
PlaceInv ==
  /\ remote \in BOOLEAN
  /\ pc \notin {"delete", "lookup"} => ~calling
  /\ pc = "delete" /\ ~calling /\ answer \in {"ok", "missing"} => ~remote

(* What was decided with a copy that is still current has its reason.      *)
ReasonInv ==
  /\ pc = "status" => result \in {"retry", "release", "mistaken"}
  /\ pc = "remove" => result \in {"release", "mistaken"}
  /\ pc \in {"status", "remove"} /\ result = "release" /\ fresh =>
       ~remote \/ skip \/ elapsed > Timeout

Inv == CallInv /\ PlaceInv /\ ReasonInv
-----------------------------------------------------------------------------
(* Starting, attempting, waiting and giving up keep the count. *)
LEMMA CallSteps ==
  ASSUME CallInv,
         \/ StartCall \/ NoCall \/ TimerFires \/ Cancel \/ UNCHANGED callVars
         \/ \E reply \in Replies, effect \in {0, 1} : Attempt(reply, effect)
  PROVE  CallInv'
<1>. USE RetriesAssumption
<1>1. CASE StartCall
  <2>1. calling' = TRUE /\ waiting' = FALSE /\ answer' = "none" /\ attempt' = 0 /\ sends' = 0 /\ executed' = 0
    BY <1>1 DEF StartCall
  <2>2. attempt' \in Nat /\ attempt' <= MaxRetries /\ sends' = attempt' /\ executed' \in Nat BY <2>1
  <2>. QED BY <2>1, <2>2 DEF CallInv
<1>2. CASE NoCall
  <2>1. calling' = FALSE /\ waiting' = FALSE /\ attempt' = 0 /\ executed' = 0 BY <1>2 DEF NoCall
  <2>. QED BY <2>1 DEF CallInv
<1>3. CASE TimerFires
  <2>1. /\ waiting /\ ~waiting' /\ waiting' \in BOOLEAN /\ attempt' = attempt + 1
        /\ calling' = calling /\ answer' = answer /\ sends' = sends /\ executed' = executed
    BY <1>3 DEF TimerFires
  <2>2. attempt' \in Nat /\ attempt' <= MaxRetries /\ sends' = attempt' BY <2>1 DEF CallInv
  <2>. QED BY <2>1, <2>2 DEF CallInv
<1>4. CASE Cancel BY <1>4 DEF Cancel, Finish, CallInv
<1>5. CASE UNCHANGED callVars BY <1>5 DEF callVars, CallInv
<1>6. ASSUME NEW reply \in Replies, NEW effect \in {0, 1}, Attempt(reply, effect) PROVE CallInv'
  <2>1. calling /\ ~waiting /\ sends' = sends + 1 /\ executed' = executed + effect /\ attempt' = attempt
    BY <1>6 DEF Attempt, Finish
  <2>2. sends' = attempt' + 1 /\ attempt' \in Nat /\ executed' \in Nat BY <2>1 DEF CallInv
  <2>3. \/ calling' = FALSE /\ waiting' = FALSE
        \/ /\ calling' = calling /\ waiting' = TRUE /\ answer' = answer /\ ~(attempt >= MaxRetries)
    <3>1. CASE ~IsRetryable(reply) \/ attempt >= MaxRetries BY <1>6, <3>1 DEF Attempt, Finish
    <3>2. CASE IsRetryable(reply) /\ ~(attempt >= MaxRetries) BY <1>6, <3>2 DEF Attempt
    <3>. QED BY <3>1, <3>2
  <2>4. CASE calling' = FALSE /\ waiting' = FALSE BY <2>2, <2>4 DEF CallInv
  <2>5. CASE /\ calling' = calling /\ waiting' = TRUE /\ answer' = answer /\ ~(attempt >= MaxRetries)
    <3>1. attempt' < MaxRetries /\ attempt' <= MaxRetries BY <2>1, <2>5 DEF CallInv
    <3>. QED BY <2>1, <2>2, <2>5, <3>1 DEF CallInv
  <2>. QED BY <2>3, <2>4, <2>5
<1>. QED BY <1>1, <1>2, <1>3, <1>4, <1>5, <1>6

(* Each of them is a step of HttpCall, or none. *)
LEMMA CallRefines ==
  ASSUME CallInv,
         \/ StartCall /\ ~calling
         \/ NoCall \/ TimerFires \/ Cancel \/ UNCHANGED callVars
         \/ \E reply \in Replies, effect \in {0, 1} : Attempt(reply, effect)
  PROVE  [Call!Next]_(Call!call)
<1>1. CASE StartCall /\ ~calling BY <1>1 DEF StartCall, Call!Next, Call!Start
<1>2. CASE NoCall BY <1>2 DEF NoCall, Call!Next, Call!Forget
<1>3. CASE TimerFires \/ UNCHANGED callVars BY <1>3 DEF TimerFires, callVars, Call!call
<1>4. CASE Cancel BY <1>4 DEF Cancel, Finish, CallInv, Call!Next, Call!Abandon
<1>5. ASSUME NEW reply \in Replies, NEW effect \in {0, 1}, Attempt(reply, effect) PROVE Call!Send
  <2>1. /\ calling /\ sends < MaxRetries + 1 /\ sends' = sends + 1
        /\ executed' \in {executed, executed + 1}
    BY <1>5, RetriesAssumption DEF Attempt, CallInv
  <2>2. CASE waiting'
    <3>1. calling' /\ (answer' = "ok") = FALSE BY <1>5, <2>2 DEF Attempt, Finish, CallInv
    <3>. QED BY <2>1, <3>1 DEF Call!Send, CallInv
  <2>3. CASE ~waiting'
    <3>1. calling' = FALSE /\ answer' \in {reply, "exhausted"}
      BY <1>5, <2>3 DEF Attempt, Finish
    <3>2. answer' = "ok" => executed' > executed
      BY <1>5, <3>1 DEF Attempt, Executions, Replies, CallInv
    <3>3. (answer' = "ok") \in {FALSE, executed' > executed} BY <3>2
    <3>. QED BY <2>1, <3>1, <3>3 DEF Call!Send
  <2>. QED BY <1>5, <2>2, <2>3 DEF Attempt, Finish
<1>. QED BY <1>1, <1>2, <1>3, <1>4, <1>5 DEF Call!Next
-----------------------------------------------------------------------------
(* What each step does to the call. *)
LEMMA StepsCall ==
  ASSUME Inv, [Next]_vars
  PROVE  \/ StartCall /\ ~calling
         \/ NoCall \/ TimerFires \/ Cancel \/ UNCHANGED callVars
         \/ \E reply \in Replies, effect \in {0, 1} : Attempt(reply, effect)
<1>1. CASE Begin BY <1>1 DEF Begin, Blocked, Track, Resume, Failed
<1>2. CASE Check BY <1>2 DEF Check, Decide, TryAgain, Failed, Inv, PlaceInv
<1>3. CASE Delete BY <1>3 DEF Delete
<1>4. CASE Wait BY <1>4 DEF Wait
<1>5. CASE Judge BY <1>5 DEF Judge, NotDeleted, Decide, TryAgain, Failed
<1>6. CASE Status BY <1>6 DEF Status, Requeued, Failed
<1>7. CASE Remove BY <1>7 DEF Remove, Requeued, Failed
<1>10. CASE Lookup
  <2>1. PICK reply \in Replies : Attempt(reply, IF reply = "ok" THEN 1 ELSE 0) BY <1>10 DEF Lookup
  <2>2. (IF reply = "ok" THEN 1 ELSE 0) \in {0, 1} OBVIOUS
  <2>. QED BY <2>1, <2>2
<1>11. CASE JudgeLookup BY <1>11 DEF JudgeLookup, Decide, TryAgain, Failed
<1>8. CASE Environment
  BY <1>8 DEF Environment, Annotate, ClockSetBack, AccountLost, AccountRestored, Shutdown, Restart, Requeued
<1>9. CASE UNCHANGED vars BY <1>9 DEF vars
<1>. QED BY <1>1, <1>2, <1>3, <1>4, <1>5, <1>6, <1>7, <1>8, <1>9, <1>10, <1>11 DEF Next, Step

(* A success is known only of an object that is gone. *)
LEMMA DeletedIsGone ==
  ASSUME Inv, Delete
  PROVE  PlaceInv'
<1>. PICK reply \in Replies, effect \in {0, 1} :
       /\ reply = "ok" => remote
       /\ reply = "missing" => ~remote
       /\ Attempt(reply, effect)
       /\ remote' = (remote /\ effect = 0)
  BY DEF Delete
<1>1. pc' = "delete" /\ remote' \in BOOLEAN BY DEF Delete
<1>2. ~calling' => answer' \in {reply, "exhausted"} BY DEF Attempt, Finish
<1>3. ASSUME reply = "ok" PROVE ~remote'
  <2>1. Executions(reply) = {1} BY <1>3 DEF Executions
  <2>2. effect \in Executions(reply) BY DEF Attempt
  <2>3. effect # 0 BY <2>1, <2>2
  <2>. QED BY <2>3
<1>4. reply = "missing" => ~remote' OBVIOUS
<1>. QED BY <1>1, <1>2, <1>3, <1>4 DEF PlaceInv

LEMMA PlaceKept ==
  ASSUME Inv, [Next]_vars
  PROVE  PlaceInv'
<1>. USE DEF Inv, PlaceInv
<1>1. CASE Begin BY <1>1 DEF Begin, Blocked, Track, Resume, Failed, NoCall, callVars
<1>2. CASE Check
  BY <1>2 DEF Check, Decide, TryAgain, Failed, NoCall, StartCall, callVars, resource
<1>3. CASE Delete BY <1>3, DeletedIsGone
<1>4. CASE Wait BY <1>4 DEF Wait, TimerFires, CallInv, resource
<1>5. CASE Judge BY <1>5 DEF Judge, NotDeleted, Decide, TryAgain, Failed, NoCall, StartCall, resource
<1>6. CASE Status BY <1>6 DEF Status, Requeued, Failed, NoCall, callVars, resource
<1>7. CASE Remove BY <1>7 DEF Remove, Requeued, Failed, NoCall
<1>8. CASE Shutdown BY <1>8 DEF Shutdown, Cancel, Finish, resource
<1>9. CASE Restart BY <1>9 DEF Restart, Requeued, NoCall, resource
<1>10. CASE Annotate \/ ClockSetBack \/ AccountLost \/ AccountRestored
  BY <1>10 DEF Annotate, ClockSetBack, AccountLost, AccountRestored, callVars, resource
<1>11. CASE UNCHANGED vars BY <1>11 DEF vars, cleanupVars, callVars, resource
<1>12. CASE Lookup BY <1>12 DEF Lookup, resource
<1>13. CASE JudgeLookup BY <1>13 DEF JudgeLookup, Decide, TryAgain, Failed, NoCall, resource
<1>. QED
  BY <1>1, <1>2, <1>3, <1>4, <1>5, <1>6, <1>7, <1>8, <1>9, <1>10, <1>11, <1>12, <1>13
  DEF Next, Step, Environment

LEMMA ReasonKept ==
  ASSUME Inv, [Next]_vars
  PROVE  ReasonInv'
<1>. USE DEF Inv, ReasonInv
<1>1. CASE Begin BY <1>1 DEF Begin, Blocked, Track, Resume, Failed
<1>2. CASE Check BY <1>2 DEF Check, Decide, TryAgain, Failed, Expired, StartCall, resource
<1>3. CASE Delete \/ Lookup \/ Wait BY <1>3 DEF Delete, Lookup, Wait
<1>4. CASE Judge BY <1>4 DEF Judge, NotDeleted, Decide, TryAgain, Failed, PlaceInv, resource
<1>11. CASE JudgeLookup BY <1>11 DEF JudgeLookup, Decide, TryAgain, Failed, resource
<1>5. CASE Status BY <1>5 DEF Status, Requeued, Failed, resource
<1>6. CASE Remove BY <1>6 DEF Remove, Requeued, Failed
<1>7. CASE Shutdown \/ Restart BY <1>7 DEF Shutdown, Restart, Requeued
<1>8. CASE Annotate BY <1>8 DEF Annotate
<1>9. CASE ClockSetBack \/ AccountLost \/ AccountRestored
  BY <1>9 DEF ClockSetBack, AccountLost, AccountRestored, resource
<1>10. CASE UNCHANGED vars BY <1>10 DEF vars, cleanupVars, resource
<1>. QED
  BY <1>1, <1>2, <1>3, <1>4, <1>5, <1>6, <1>7, <1>8, <1>9, <1>10, <1>11 DEF Next, Step, Environment

LEMMA InitInv == Init => Inv
<1>. SUFFICES ASSUME Init PROVE Inv OBVIOUS
<1>1. CallInv
  <2>1. calling = FALSE /\ waiting = FALSE /\ attempt = 0 /\ executed = 0 BY DEF Init, CallInit
  <2>. QED BY <2>1 DEF CallInv
<1>2. PlaceInv /\ ReasonInv BY DEF Init, CallInit, PlaceInv, ReasonInv
<1>. QED BY <1>1, <1>2 DEF Inv

LEMMA NextInv == Inv /\ [Next]_vars => Inv'
<1>. SUFFICES ASSUME Inv, [Next]_vars PROVE Inv' OBVIOUS
<1>1. CallInv' BY StepsCall, CallSteps DEF Inv
<1>. QED BY <1>1, PlaceKept, ReasonKept DEF Inv

(* What the count of requests, the answer of the call and the decision of  *)
(* the cleanup have to do with each other (retry.go, finalizer.go).        *)
THEOREM CountAndReason == Spec => []Inv
BY InitInv, NextInv, PTL DEF Spec

(* A call of the client is sent at most MaxRetries + 1 times and succeeds  *)
(* only if the service did what it was asked: the loop of doWithRetry      *)
(* implements HttpCall.                                                    *)
THEOREM RetriesKeepCall == Spec => KeepsCall
<1>1. Init => Call!Init BY DEF Init, CallInit, Call!Init
<1>2. Inv /\ [Next]_vars => [Call!Next]_(Call!call) BY StepsCall, CallRefines DEF Inv
<1>. QED BY <1>1, <1>2, CountAndReason, PTL DEF Spec, KeepsCall, Call!Spec

(* No finalizer is removed while the object it guards exists, the skip     *)
(* annotation is off and the timeout has not passed (finalizer.go), unless *)
(* an error of DELETE was taken for a 404 (client.go:661, 872, 905, 948).  *)
THEOREM ReleaseIsEarned == Spec => RemovalEarned
<1>1. Inv /\ [Next]_vars => [fin /\ ~fin' => ~remote \/ skip \/ elapsed > Timeout \/ result = "mistaken"]_vars
  <2>. SUFFICES ASSUME Inv, Next, fin, ~fin'
                  PROVE  ~remote \/ skip \/ elapsed > Timeout \/ result = "mistaken"
    OBVIOUS
  <2>1. Remove
    BY DEF Next, Step, Environment, Begin, Check, Delete, Wait, Judge, Lookup, JudgeLookup, Status, Annotate,
           ClockSetBack, AccountLost, AccountRestored, Shutdown, Restart, resource
  <2>. QED BY <2>1 DEF Remove, Inv, ReasonInv
<1>. QED BY <1>1, CountAndReason, PTL DEF Spec, RemovalEarned
-----------------------------------------------------------------------------
(***************************************************************************)
(* Delays: the penalty of the queue, the backoff of a cleanup, the waits   *)
(* of a call.  All of them double; a power stays folded in Power, so that  *)
(* the provers see a function they need not evaluate.                      *)
(***************************************************************************)
Power(n) == 2^n

LEMMA PowerTable ==
  /\ Power(0) = 1 /\ Power(1) = 2 /\ Power(2) = 4 /\ Power(3) = 8 /\ Power(4) = 16
  /\ Power(5) = 32 /\ Power(6) = 64 /\ Power(7) = 128 /\ Power(8) = 256 /\ Power(9) = 512
  /\ Power(10) = 1024 /\ Power(11) = 2048 /\ Power(12) = 4096 /\ Power(13) = 8192 /\ Power(14) = 16384
  /\ Power(15) = 32768 /\ Power(16) = 65536 /\ Power(17) = 131072 /\ Power(18) = 262144 /\ Power(19) = 524288
  /\ Power(20) = 1048576 /\ Power(21) = 2097152 /\ Power(22) = 4194304 /\ Power(23) = 8388608 /\ Power(24) = 16777216
  /\ Power(25) = 33554432 /\ Power(26) = 67108864 /\ Power(27) = 134217728 /\ Power(28) = 268435456 /\ Power(29) = 536870912
  /\ Power(30) = 1073741824
BY DEF Power

LEMMA PowersNat == \A n \in 0 .. 30 : Power(n) \in Nat
BY PowerTable

(* Up to the eighteen failures that the limiter tells apart. *)
LEMMA PowersRise ==
  ASSUME NEW i \in 0 .. 18, NEW j \in 0 .. 18, i <= j
  PROVE  Power(i) <= Power(j)
BY PowerTable

LEMMA DivRises ==
  ASSUME NEW x \in Nat, NEW y \in Nat, x <= y, NEW d \in Nat \ {0}
  PROVE  x \div d \in Nat /\ x \div d <= y \div d
OBVIOUS

LEMMA TimesRises ==
  ASSUME NEW x \in Nat, NEW y \in Nat, x <= y, NEW d \in Nat
  PROVE  d * x \in Nat /\ d * x <= d * y
OBVIOUS

LEMMA PenaltyFacts ==
  ASSUME NEW i \in 0 .. 18, NEW j \in 0 .. 18, i <= j
  PROVE  /\ Penalty(i) \in Nat /\ Penalty(i) >= Tick
         /\ Penalty(i) <= Penalty(j)
         /\ Penalty(0) = Tick
<1>. USE TickAssumption
<1>. DEFINE share(n) == Power(n) \div (200 * Tick)
<1>1. 200 * Tick \in Nat \ {0} OBVIOUS
<1>2. \A n \in 0 .. 18 : Power(n) \in Nat BY PowersNat
<1>3. share(i) \in Nat /\ share(j) \in Nat /\ share(i) <= share(j)
  <2>1. Power(i) \in Nat /\ Power(j) \in Nat /\ Power(i) <= Power(j) BY <1>2, PowersRise
  <2>2. \A x, y \in Nat : x <= y => x \div (200 * Tick) \in Nat /\ x \div (200 * Tick) <= y \div (200 * Tick)
    BY <1>1, DivRises
  <2>. QED BY <2>1, <2>2
<1>4. share(0) = 0 BY <1>1, PowerTable
<1>5. \A n \in 0 .. 18 : Penalty(n) = AtMost(Tick * (share(n) + 1), 1000)
  BY DEF Penalty, Power
<1>. HIDE DEF share
<1>6. /\ Tick * (share(i) + 1) \in Nat /\ Tick * (share(i) + 1) >= Tick
      /\ Tick * (share(i) + 1) <= Tick * (share(j) + 1)
  <2>1. 1 \in Nat /\ share(i) + 1 \in Nat /\ share(j) + 1 \in Nat /\ 1 <= share(i) + 1
        /\ share(i) + 1 <= share(j) + 1
    BY <1>3
  <2>. QED BY <2>1, TimesRises
<1>7. Tick * (share(0) + 1) = Tick BY <1>4
<1>8. Penalty(i) = AtMost(Tick * (share(i) + 1), 1000) /\ Penalty(0) = AtMost(Tick * (share(0) + 1), 1000)
      /\ Penalty(j) = AtMost(Tick * (share(j) + 1), 1000)
  BY <1>5
<1>. DEFINE pi == Tick * (share(i) + 1)
            pj == Tick * (share(j) + 1)
<1>9. pj \in Nat BY <1>3, TimesRises
<1>10. pi \in Nat /\ pi >= Tick /\ pi <= pj /\ Penalty(i) = AtMost(pi, 1000) /\ Penalty(j) = AtMost(pj, 1000)
       /\ Penalty(0) = AtMost(Tick, 1000)
  BY <1>6, <1>7, <1>8
<1>. HIDE DEF pi, pj
<1>. QED BY <1>9, <1>10 DEF AtMost

(* No backoff before the timeout is longer than the last one. *)
LEMMA BackoffFacts ==
  ASSUME NEW seconds \in Int, ~Negative(seconds)
  PROVE  /\ Backoff(seconds) \in Nat
         /\ seconds <= Timeout => Backoff(seconds) <= LastBackoff
<1>. USE TimeoutAssumption
<1>1. /\ Shift(seconds) \in 0 .. 10
      /\ seconds <= Timeout => Shift(seconds) \in 0 .. 3
  BY DEF Negative, Shift, AtMost
<1>2. Backoff(seconds) = AtMost(30 * Power(Shift(seconds)), 300) BY DEF Backoff, Power
<1>3. Power(Shift(seconds)) \in Nat BY <1>1, PowersNat
<1>4. \A n \in 0 .. 3 : Power(n) <= 8 BY PowerTable
<1>. QED BY <1>1, <1>2, <1>3, <1>4 DEF AtMost, LastBackoff

LEMMA LongestFacts ==
  /\ Longest \in Nat
  /\ \A d \in Durations : d \in Nat /\ d <= Longest
<1>1. Longest \in Durations /\ \A d \in Durations : d <= Longest
  BY DurationsAssumption DEF Longest
<1>. QED BY <1>1, DurationsAssumption

LEMMA Share ==
  ASSUME NEW d \in Nat
  PROVE  (d * Jitter) \div 100 \in 0 .. d
BY DelaysAssumption

LEMMA MaxWaitNat == MaxWait \in Nat /\ MaxDelay <= MaxWait
BY DelaysAssumption, Share DEF MaxWait

LEMMA WaitFacts ==
  ASSUME NEW reply, NEW n \in 0 .. MaxRetries, NEW d \in Delays(reply, n)
  PROVE  d \in Nat /\ d <= MaxWait
<1>. USE DelaysAssumption
<1>1. PICK h \in RetryAfters : d \in IF reply = "busy" /\ h > 0 THEN {ParseRetryAfter(h)} ELSE CalculateBackoff(n)
  BY DEF Delays
<1>2. h \in Nat BY RetryAftersAssumption
<1>3. CASE d = ParseRetryAfter(h)
  BY <1>2, <1>3, MaxWaitNat DEF ParseRetryAfter, AtMost
<1>4. CASE d \in CalculateBackoff(n)
  <2>. DEFINE b == AtMost(BaseDelay * Power(n), MaxDelay)
  <2>1. Power(n) \in Nat BY PowersNat, RetriesAssumption, DoublingsAssumption
  <2>2. BaseDelay * Power(n) \in Nat BY <2>1
  <2>3. b \in Nat /\ b <= MaxDelay BY <2>2 DEF AtMost
  <2>4. d \in Jittered(b) BY <1>4 DEF CalculateBackoff, Power
  <2>. HIDE DEF b
  <2>5. (b * Jitter) \div 100 \in 0 .. b BY <2>3, Share
  <2>6. (b * Jitter) \div 100 <= (MaxDelay * Jitter) \div 100
    <3>1. b * Jitter \in Nat /\ MaxDelay * Jitter \in Nat /\ b * Jitter <= MaxDelay * Jitter BY <2>3
    <3>. QED BY <3>1, DivRises
  <2>7. d = b - (b * Jitter) \div 100 \/ d = b + (b * Jitter) \div 100 BY <2>4 DEF Jittered
  <2>8. (MaxDelay * Jitter) \div 100 \in Nat BY Share
  <2>9. d \in Nat BY <2>3, <2>5, <2>7
  <2>. QED BY <2>3, <2>5, <2>6, <2>7, <2>8, <2>9 DEF MaxWait
<1>. QED BY <1>1, <1>3, <1>4
-----------------------------------------------------------------------------
(***************************************************************************)
(* Types.                                                                  *)
(***************************************************************************)

(* A cleanup is tried before the timeout, and tried again by a backoff     *)
(* only where its shift count is no negative number; only a Monitor is     *)
(* looked up.                                                              *)
RetryInv ==
  /\ pc \in {"delete", "lookup"} => elapsed <= Timeout
  /\ pc = "lookup" => kind = "monitor"
  /\ pc = "status" /\ result = "retry" => elapsed <= Timeout /\ ~Negative(elapsed)

TypeInv == TypeOK /\ RetryInv

LEMMA CallTypes ==
  ASSUME CallTypeOK, CallInv,
         \/ StartCall \/ NoCall \/ TimerFires \/ Cancel \/ UNCHANGED callVars
         \/ \E reply \in Replies, effect \in {0, 1} : Attempt(reply, effect)
  PROVE  CallTypeOK'
<1>. USE RetriesAssumption
<1>1. CASE StartCall
  <2>1. attempt' \in 0 .. MaxRetries /\ delay' \in Nat /\ sends' \in Nat /\ executed' \in Nat
    BY <1>1 DEF StartCall
  <2>2. calling' \in BOOLEAN /\ waiting' \in BOOLEAN /\ answer' \in Answers
    BY <1>1, Zenon DEF StartCall, Answers
  <2>. QED BY <2>1, <2>2 DEF CallTypeOK
<1>2. CASE NoCall
  <2>1. attempt' \in 0 .. MaxRetries /\ delay' \in Nat /\ sends' \in Nat /\ executed' \in Nat
    BY <1>2 DEF NoCall
  <2>2. calling' \in BOOLEAN /\ waiting' \in BOOLEAN /\ answer' \in Answers
    BY <1>2, Zenon DEF NoCall, Answers
  <2>. QED BY <2>1, <2>2 DEF CallTypeOK
<1>3. CASE TimerFires
  <2>1. attempt' \in 0 .. MaxRetries /\ delay' \in Nat /\ sends' \in Nat /\ executed' \in Nat
    BY <1>3 DEF TimerFires, CallTypeOK, CallInv
  <2>2. calling' \in BOOLEAN /\ waiting' \in BOOLEAN /\ answer' \in Answers
    BY <1>3, Zenon DEF TimerFires, CallTypeOK
  <2>. QED BY <2>1, <2>2 DEF CallTypeOK
<1>4. CASE Cancel BY <1>4 DEF Cancel, Finish, CallTypeOK, Answers
<1>5. CASE UNCHANGED callVars BY <1>5 DEF callVars, CallTypeOK
<1>6. ASSUME NEW reply \in Replies, NEW effect \in {0, 1}, Attempt(reply, effect) PROVE CallTypeOK'
  <2>1. sends' \in Nat /\ executed' \in Nat BY <1>6 DEF Attempt, CallTypeOK
  <2>2. CASE IsRetryable(reply) /\ ~(attempt >= MaxRetries)
    <3>1. delay' \in Delays(reply, attempt) /\ waiting' = TRUE /\ UNCHANGED <<calling, attempt, answer>>
      BY <1>6, <2>2 DEF Attempt
    <3>2. delay' \in Nat BY <3>1, WaitFacts DEF CallTypeOK
    <3>. QED BY <2>1, <3>1, <3>2 DEF CallTypeOK
  <2>3. CASE ~(IsRetryable(reply) /\ ~(attempt >= MaxRetries))
    <3>1. (Finish(reply) /\ ~IsRetryable(reply)) \/ Finish("exhausted")
      BY <1>6, <2>3 DEF Attempt
    <3>2. reply \in Answers \/ IsRetryable(reply) BY DEF Replies, Answers, IsRetryable
    <3>3. "exhausted" \in Answers BY DEF Answers
    <3>4. /\ calling' = FALSE /\ waiting' = FALSE /\ delay' = 0 /\ UNCHANGED attempt
          /\ answer' \in Answers
      BY <3>1, <3>2, <3>3 DEF Finish
    <3>. QED BY <2>1, <3>4 DEF CallTypeOK
  <2>. QED BY <2>2, <2>3
<1>. QED BY <1>1, <1>2, <1>3, <1>4, <1>5, <1>6

(* The clock of a start time only stands still at the horizon. *)
LEMMA LaterType ==
  ASSUME age \in Int, NEW d \in Nat
  PROVE  Later(d) \in Int
BY TimeoutAssumption DEF Later, AtMost

(* A reconcile ends with a delay for the queue. *)
LEMMA EndTypes ==
  ASSUME TypeInv, CallInv, Failed \/ (\E d \in Nat : Requeued(d)),
         fin' \in BOOLEAN, UNCHANGED <<skip, remote, kind, account>>, mark' \in Marks,
         age' \in Int, blocked' \in BOOLEAN, budget' \in 0 .. Budget
  PROVE  TypeInv'
<1>. USE DEF TypeInv, TypeOK, RetryInv
<1>1. /\ pc' = "idle" /\ due' \in Nat /\ fails' \in 0 .. 18 /\ fresh' = FALSE
      /\ elapsed' = 0 /\ result' = "none"
  <2>1. CASE Failed
    <3>1. Penalty(fails) \in Nat BY PenaltyFacts
    <3>. QED BY <2>1, <3>1 DEF Failed, AtMost
  <2>2. CASE \E d \in Nat : Requeued(d) BY <2>2 DEF Requeued
  <2>. QED BY <2>1, <2>2
<1>2. CallTypeOK' BY CallTypes DEF Failed, Requeued
<1>3. RetryInv' BY <1>1
<1>4. fresh' \in BOOLEAN /\ pc' \in {"idle", "check", "delete", "lookup", "status", "remove"}
  BY <1>1, Zenon
<1>. QED BY <1>1, <1>2, <1>3, <1>4

LEMMA SpendType ==
  ASSUME budget \in 0 .. Budget, Spend
  PROVE  budget' \in 0 .. Budget
BY SkewAssumption DEF Spend

LEMMA BeginTypes ==
  ASSUME TypeInv, CallInv, Begin
  PROVE  TypeInv'
<1>. USE DEF TypeInv, TypeOK, RetryInv
<1>1. UNCHANGED <<fin, skip, remote, kind, account>> BY DEF Begin
<1>2. CASE Blocked
  <2>1. age' \in Int BY <1>2, LaterType DEF Blocked
  <2>2. Failed /\ UNCHANGED <<mark, budget>> /\ blocked' = TRUE BY <1>2 DEF Blocked
  <2>. QED BY <1>1, <2>1, <2>2, EndTypes
<1>3. CASE Track
  <2>1. CASE Spend /\ Failed /\ UNCHANGED <<mark, age>>
    <3>. QED BY <1>1, <1>3, <2>1, EndTypes, SpendType DEF Track
  <2>2. CASE /\ mark' = "set" /\ age' = 0 /\ fresh' \in BOOLEAN /\ pc' = "check"
             /\ due' = 0 /\ UNCHANGED <<elapsed, fails, result, budget, callVars>>
    <3>1. CallTypeOK' BY <2>2, CallTypes
    <3>. QED BY <1>1, <1>3, <2>2, <3>1 DEF Track, Marks
  <2>. QED BY <1>3, <2>1, <2>2 DEF Track
<1>4. CASE Resume
  <2>1. age' \in Int /\ elapsed' \in Int BY <1>4, LaterType DEF Resume
  <2>2. CallTypeOK' BY <1>4, CallTypes DEF Resume
  <2>. QED BY <1>1, <1>4, <2>1, <2>2 DEF Resume
<1>. QED BY <1>2, <1>3, <1>4 DEF Begin

LEMMA CleanupTypes ==
  ASSUME TypeInv, CallInv, Check \/ Delete \/ Lookup \/ Wait \/ Judge \/ JudgeLookup
  PROVE  TypeInv'
<1>. USE DEF TypeInv, TypeOK, RetryInv
<1>1. CASE Check
  <2>1. UNCHANGED <<fin, skip, mark, remote, kind, age, account, blocked, budget>>
    BY <1>1 DEF Check, resource
  <2>2. CASE Decide("release")
    <3>1. CallTypeOK' BY <2>2, CallTypes DEF Decide
    <3>. QED BY <2>1, <2>2, <3>1 DEF Decide
  <2>3. CASE elapsed <= Timeout /\ TryAgain
    <3>1. CASE Failed
      <4>. QED BY <2>1, <3>1, EndTypes
    <3>2. CASE ~Negative(elapsed) /\ Decide("retry")
      <4>1. CallTypeOK' BY <3>2, CallTypes DEF Decide
      <4>2. pc' = "status" /\ UNCHANGED <<elapsed, fails, due, fresh>> /\ result' = "retry"
        BY <3>2 DEF Decide
      <4>. QED BY <2>1, <2>3, <3>2, <4>1, <4>2 DEF Negative
    <3>. QED BY <2>3, <3>1, <3>2 DEF TryAgain
  <2>4. CASE /\ elapsed <= Timeout
             /\ pc' = "delete" /\ StartCall /\ UNCHANGED <<elapsed, result, due, fails, fresh>>
    <3>1. CallTypeOK' BY <2>4, CallTypes
    <3>. QED BY <2>1, <2>4, <3>1
  <2>5. elapsed <= Timeout \/ Expired(elapsed) BY TimeoutAssumption DEF Expired
  <2>. QED BY <1>1, <2>2, <2>3, <2>4, <2>5 DEF Check
<1>2. CASE Delete
  <2>1. PICK reply \in Replies, effect \in {0, 1}, d \in Durations :
          Attempt(reply, effect) /\ remote' = (remote /\ effect = 0) /\ age' = Later(d)
    BY <1>2 DEF Delete
  <2>2. age' \in Int /\ remote' \in BOOLEAN BY <2>1, LaterType, LongestFacts
  <2>3. CallTypeOK' BY <2>1, CallTypes
  <2>4. UNCHANGED <<fin, skip, mark, kind, account, pc, fresh, elapsed, due, fails, result,
                    blocked, budget>>
    BY <1>2 DEF Delete
  <2>. QED BY <2>2, <2>3, <2>4 DEF Negative
<1>3. CASE Wait
  <2>1. age' \in Int BY <1>3, LaterType DEF Wait, CallTypeOK
  <2>2. CallTypeOK' BY <1>3, CallTypes DEF Wait
  <2>3. UNCHANGED <<resource, account, pc, fresh, elapsed, due, fails, result, blocked, budget>>
    BY <1>3 DEF Wait
  <2>. QED BY <2>1, <2>2, <2>3 DEF resource, Negative
<1>4. CASE Judge \/ JudgeLookup
  <2>1. /\ UNCHANGED <<fin, skip, mark, remote, kind, age, account, blocked, budget>>
        /\ elapsed <= Timeout
    BY <1>4 DEF Judge, JudgeLookup, resource
  <2>2. CASE Decide("release") \/ Decide("mistaken")
    <3>1. CallTypeOK' BY <2>2, CallTypes DEF Decide
    <3>. QED BY <2>1, <2>2, <3>1 DEF Decide
  <2>3. CASE Failed
    <3>. QED BY <2>1, <2>3, EndTypes
  <2>4. CASE ~Negative(elapsed) /\ Decide("retry")
    <3>1. CallTypeOK' BY <2>4, CallTypes DEF Decide
    <3>2. pc' = "status" /\ UNCHANGED <<elapsed, fails, due, fresh>> /\ result' = "retry"
      BY <2>4 DEF Decide
    <3>. QED BY <2>1, <2>4, <3>1, <3>2 DEF Negative
  <2>5. CASE kind = "monitor" /\ pc' = "lookup" /\ StartCall /\ UNCHANGED <<elapsed, result, due, fails, fresh>>
    <3>1. CallTypeOK' BY <2>5, CallTypes
    <3>. QED BY <2>1, <2>5, <3>1
  <2>. QED BY <1>4, <2>2, <2>3, <2>4, <2>5 DEF Judge, JudgeLookup, NotDeleted, TryAgain
<1>5. CASE Lookup
  <2>1. PICK reply \in Replies, d \in Durations :
          Attempt(reply, IF reply = "ok" THEN 1 ELSE 0) /\ age' = Later(d)
    BY <1>5 DEF Lookup
  <2>2. age' \in Int BY <2>1, LaterType, LongestFacts
  <2>3. (IF reply = "ok" THEN 1 ELSE 0) \in {0, 1} OBVIOUS
  <2>4. CallTypeOK' BY <2>1, <2>3, CallTypes
  <2>5. UNCHANGED <<resource, account, pc, fresh, elapsed, due, fails, result, blocked, budget>>
    BY <1>5 DEF Lookup
  <2>. QED BY <2>2, <2>4, <2>5 DEF resource, Negative
<1>. QED BY <1>1, <1>2, <1>3, <1>4, <1>5

LEMMA EndingTypes ==
  ASSUME TypeInv, CallInv, Status \/ Remove \/ Restart
  PROVE  TypeInv'
<1>. USE DEF TypeInv, TypeOK, RetryInv
<1>1. CASE Status
  <2>1. UNCHANGED <<fin, skip, mark, remote, kind, age, account, blocked>>
    BY <1>1 DEF Status, resource
  <2>2. CASE Failed /\ (UNCHANGED budget \/ Spend)
    <3>. QED BY <2>1, <2>2, EndTypes, SpendType
  <2>3. CASE UNCHANGED budget /\ result = "retry" /\ Requeued(Backoff(elapsed))
    <3>1. Backoff(elapsed) \in Nat BY <1>1, <2>3, BackoffFacts DEF Status
    <3>. QED BY <2>1, <2>3, <3>1, EndTypes
  <2>4. CASE UNCHANGED budget /\ pc' = "remove" /\ UNCHANGED <<fresh, elapsed, due, fails, result, callVars>>
    <3>1. CallTypeOK' BY <2>4, CallTypes
    <3>. QED BY <2>1, <2>4, <3>1
  <2>. QED BY <1>1, <2>2, <2>3, <2>4 DEF Status
<1>2. CASE Remove
  <2>1. UNCHANGED <<skip, mark, remote, kind, age, account, blocked>> BY <1>2 DEF Remove
  <2>2. CASE fin' = FALSE /\ Requeued(0) /\ UNCHANGED budget
    <3>. QED BY <2>1, <2>2, EndTypes
  <2>3. CASE Failed /\ (UNCHANGED budget \/ Spend) /\ UNCHANGED fin
    <3>. QED BY <2>1, <2>3, EndTypes, SpendType
  <2>. QED BY <1>2, <2>2, <2>3 DEF Remove
<1>3. CASE Restart
  <2>1. UNCHANGED <<fin, skip, mark, remote, kind, age, account, blocked>> /\ Requeued(0) /\ Spend
    BY <1>3 DEF Restart, resource
  <2>. QED BY <2>1, EndTypes, SpendType
<1>. QED BY <1>1, <1>2, <1>3

LEMMA EnvironmentTypes ==
  ASSUME TypeInv, CallInv, Annotate \/ ClockSetBack \/ AccountLost \/ AccountRestored \/ Shutdown
  PROVE  TypeInv'
<1>. USE DEF TypeInv, TypeOK, RetryInv
<1>1. CallTypeOK'
  BY CallTypes DEF Annotate, ClockSetBack, AccountLost, AccountRestored, Shutdown
<1>2. CASE Annotate
  <2>1. budget' \in 0 .. Budget BY <1>2, SpendType DEF Annotate
  <2>2. UNCHANGED <<fin, remote, kind, account, pc, elapsed, due, fails, result, blocked>>
    BY <1>2 DEF Annotate
  <2>3. age' \in Int /\ mark' \in Marks BY <1>2 DEF Annotate, Marks
  <2>4. skip' \in BOOLEAN /\ fresh' \in BOOLEAN BY <1>2, Zenon DEF Annotate
  <2>. QED BY <1>1, <2>1, <2>2, <2>3, <2>4 DEF Negative
<1>3. CASE ClockSetBack
  <2>1. budget' \in 0 .. Budget BY <1>3, SpendType DEF ClockSetBack
  <2>2. age' \in Int BY <1>3, SkewAssumption DEF ClockSetBack
  <2>. QED BY <1>1, <1>3, <2>1, <2>2 DEF ClockSetBack, resource
<1>4. CASE AccountLost
  <2>1. budget' \in 0 .. Budget BY <1>4, SpendType DEF AccountLost
  <2>. QED BY <1>1, <1>4, <2>1 DEF AccountLost, resource, Negative
<1>5. CASE AccountRestored BY <1>1, <1>5 DEF AccountRestored, resource, Negative
<1>6. CASE Shutdown
  <2>1. budget' \in 0 .. Budget BY <1>6, SpendType DEF Shutdown
  <2>. QED BY <1>1, <1>6, <2>1 DEF Shutdown, resource
<1>. QED BY <1>2, <1>3, <1>4, <1>5, <1>6

LEMMA InitTypes == Init => TypeInv
<1>. SUFFICES ASSUME Init PROVE TypeInv OBVIOUS
<1>1. CallTypeOK
  <2>1. attempt \in 0 .. MaxRetries /\ delay \in Nat /\ sends \in Nat /\ executed \in Nat
    BY RetriesAssumption DEF Init, CallInit
  <2>2. calling \in BOOLEAN /\ waiting \in BOOLEAN /\ answer \in Answers
    BY Zenon DEF Init, CallInit, Answers
  <2>. QED BY <2>1, <2>2 DEF CallTypeOK
<1>2. RetryInv BY DEF Init, RetryInv
<1>3. age \in Int /\ elapsed \in Int /\ due \in Nat /\ fails \in 0 .. 18 /\ budget \in 0 .. Budget
  BY SkewAssumption DEF Init
<1>4. /\ fin \in BOOLEAN /\ skip \in BOOLEAN /\ mark \in Marks /\ remote \in BOOLEAN
      /\ account \in BOOLEAN /\ kind \in Kinds /\ blocked \in BOOLEAN /\ fresh \in BOOLEAN
      /\ pc \in {"idle", "check", "delete", "lookup", "status", "remove"} /\ result \in {"none", "retry", "release", "mistaken"}
  BY Zenon DEF Init, Marks
<1>. QED BY <1>1, <1>2, <1>3, <1>4 DEF TypeInv, TypeOK

LEMMA NextTypes == Inv /\ TypeInv /\ [Next]_vars => TypeInv'
<1>. SUFFICES ASSUME Inv, TypeInv, [Next]_vars PROVE TypeInv' OBVIOUS
<1>1. CASE UNCHANGED vars
  <2>1. CallTypeOK' BY <1>1, CallTypes DEF vars, Inv, TypeInv, TypeOK
  <2>. QED BY <1>1, <2>1 DEF vars, cleanupVars, resource, TypeInv, TypeOK, RetryInv, Negative
<1>. QED
  BY <1>1, BeginTypes, CleanupTypes, EndingTypes, EnvironmentTypes DEF Inv, Next, Step, Environment

(* Every variable keeps its type: in particular every delay of the queue   *)
(* is a number of seconds, and no backoff shifts by a negative count.      *)
THEOREM TypeCorrect == Spec => []TypeInv
BY InitTypes, NextTypes, CountAndReason, PTL DEF Spec

(* The same for the shape of the variables alone.                          *)
THEOREM TypesHold == Spec => []TypeOK
BY TypeCorrect, PTL DEF TypeInv
-----------------------------------------------------------------------------
(***************************************************************************)
(* The deadline.                                                           *)
(***************************************************************************)
Spent   == Budget - budget
Slowest == Penalty(MostFails)
Limit   == Timeout + MaxCleanup + LastBackoff + Budget * Slowest

(* The start time is one whose age Deadline bounds. *)
Counted == mark = "set" /\ ~blocked

(* n failures in a row after s events, at a time a after the start: each   *)
(* one but the first has cost an event or, before the start time, a tick.  *)
Few(n, s, a) ==
  /\ Tick * (n - s - 1) <= Skew * s + Tick
  /\ a < 0 => Tick * (n - s - 1) <= a + Skew * s

(* Only an event puts the start time into the future. *)
ClockInv ==
  /\ age >= -(Skew * Spent) /\ age <= Horizon
  /\ elapsed >= -(Skew * Spent) /\ (pc = "idle" => elapsed = 0)

(* The failures so far; a stale copy stands for the one it leads to. *)
FailsInv ==
  /\ mark = "none" => pc = "idle" /\ (~blocked => fails <= Spent)
  /\ Counted /\ pc = "idle" => Few(fails, Spent, age + due)
  /\ Counted /\ pc # "idle" => Few(IF fresh THEN fails ELSE fails + 1, Spent, elapsed)

(* The most time that has passed since the reconcile measured it: what the *)
(* attempts of the call under way have taken, after the DELETE if that     *)
(* call is the lookup.                                                     *)
Before == IF pc = "lookup" THEN MaxCall ELSE 0

CallTime ==
  CASE pc = "check" -> 0
    [] pc \in {"delete", "lookup"} /\ waiting -> Before + ((attempt + 1) * (Longest + MaxWait) - delay)
    [] pc \in {"delete", "lookup"} /\ calling /\ ~waiting -> Before + attempt * (Longest + MaxWait)
    [] pc = "delete" /\ ~calling /\ ~waiting -> MaxCall
    [] OTHER -> MaxCleanup

(* After the timeout no call is made, and a stale copy of the worker has   *)
(* cost an event, unless the cache was behind the start time itself.       *)
BusyInv ==
  /\ age >= elapsed
  /\ elapsed <= Timeout => age <= elapsed + CallTime
  /\ elapsed > Timeout => /\ age = elapsed
                          /\ age + (IF fresh THEN budget ELSE budget + 1) * Slowest <= Limit
  /\ ~fresh => budget < Budget \/ (elapsed = 0 /\ fails = 0)

(* The events left still have room below the limit. *)
RoomInv ==
  /\ Counted /\ pc = "idle" => age + due + budget * Slowest <= Limit
  /\ Counted /\ pc # "idle" => BusyInv

TimeInv == ClockInv /\ FailsInv /\ RoomInv

LEMMA MostFailsType == MostFails \in 0 .. 18
<1>1. (Skew * Budget) \div Tick \in Nat
  <2>1. Skew * Budget \in Nat BY SkewAssumption
  <2>. QED BY <2>1, TickAssumption
<1>. QED BY <1>1, SkewAssumption DEF MostFails, AtMost

LEMMA SlowestFacts ==
  /\ Slowest \in Nat
  /\ \A n \in 0 .. MostFails : Penalty(n) \in Nat /\ Tick <= Penalty(n) /\ Penalty(n) <= Slowest
  /\ Penalty(0) = Tick
<1>1. \A i, j \in 0 .. 18 : i <= j =>
        Penalty(i) \in Nat /\ Penalty(i) >= Tick /\ Penalty(i) <= Penalty(j) /\ Penalty(0) = Tick
  BY PenaltyFacts
<1>2. MostFails \in 0 .. 18 /\ \A n \in 0 .. MostFails : n \in 0 .. 18 /\ n <= MostFails
  BY MostFailsType
<1>. QED BY <1>1, <1>2, TickAssumption DEF Slowest

LEMMA MaxCallNat ==
  /\ MaxCall \in Nat /\ MaxCleanup \in Nat /\ Limit \in Int
  /\ MaxCall <= MaxCleanup /\ (kind = "monitor" => MaxCleanup = MaxCall + MaxCall)
  /\ \A n \in 0 .. MaxRetries :
       n * (Longest + MaxWait) \in Nat /\ n * (Longest + MaxWait) + Longest <= MaxCall
<1>. USE RetriesAssumption, LongestFacts, MaxWaitNat
<1>1. MaxCall = MaxRetries * (Longest + MaxWait) + Longest BY DEF MaxCall
<1>2. \A n \in 0 .. MaxRetries :
        n * (Longest + MaxWait) \in Nat /\ n * (Longest + MaxWait) <= MaxRetries * (Longest + MaxWait)
  <2>1. Longest + MaxWait \in Nat OBVIOUS
  <2>2. \A n \in 0 .. MaxRetries : (Longest + MaxWait) * n = n * (Longest + MaxWait) OBVIOUS
  <2>3. MaxRetries \in 0 .. MaxRetries OBVIOUS
  <2>. QED BY <2>1, <2>2, <2>3, TimesRises
<1>3. MaxRetries * (Longest + MaxWait) \in Nat BY <1>2
<1>. DEFINE all == MaxRetries * (Longest + MaxWait)
<1>. HIDE DEF all
<1>4. MaxCall \in Nat BY <1>1, <1>3 DEF all
<1>5. Budget * Slowest \in Nat BY SlowestFacts, SkewAssumption
<1>7. /\ MaxCleanup \in Nat /\ MaxCall <= MaxCleanup
      /\ kind = "monitor" => MaxCleanup = MaxCall + MaxCall
  BY <1>4 DEF MaxCleanup
<1>6. Limit \in Int BY <1>5, <1>7, TimeoutAssumption DEF Limit, LastBackoff
<1>. QED BY <1>1, <1>2, <1>3, <1>4, <1>6, <1>7 DEF all

(* What is deleted stays what it is, and with it the limit. *)
LEMMA LimitStays ==
  ASSUME UNCHANGED kind
  PROVE  Limit' = Limit /\ Slowest' = Slowest /\ MaxCleanup' = MaxCleanup
BY DEF Limit, Slowest, MaxCleanup, MaxCall, Longest, MaxWait

(* Room for the events that are left. *)
LEMMA Rooms ==
  ASSUME NEW b \in 0 .. Budget
  PROVE  /\ b * Slowest \in Nat /\ Budget * Slowest \in Nat /\ b * Slowest <= Budget * Slowest
         /\ (b + 1) * Slowest = b * Slowest + Slowest
         /\ (b - 1) * Slowest = b * Slowest - Slowest
         /\ b < Budget => b * Slowest + Slowest <= Budget * Slowest
<1>. USE SkewAssumption, SlowestFacts
<1>1. \A c, d \in Nat : c <= d => Slowest * c \in Nat /\ Slowest * c <= Slowest * d BY TimesRises
<1>2. \A c \in Int : Slowest * c = c * Slowest OBVIOUS
<1>3. (b + 1) * Slowest = b * Slowest + Slowest /\ (b - 1) * Slowest = b * Slowest - Slowest OBVIOUS
<1>4. b < Budget => b + 1 <= Budget OBVIOUS
<1>5. b * Slowest \in Nat /\ Budget * Slowest \in Nat /\ b * Slowest <= Budget * Slowest
  BY <1>1, <1>2
<1>6. b < Budget => (b + 1) * Slowest <= Budget * Slowest BY <1>1, <1>2, <1>4
<1>. QED BY <1>3, <1>5, <1>6

LEMMA SkewRises ==
  ASSUME NEW c \in 0 .. Budget, NEW d \in 0 .. Budget, c <= d
  PROVE  Skew * c \in Nat /\ Skew * c <= Skew * d
BY SkewAssumption, TimesRises
-----------------------------------------------------------------------------
(* Counting failures. *)
LEMMA FewBounded ==
  ASSUME NEW n \in 0 .. 18, NEW s \in 0 .. Budget, NEW a \in Int, Few(n, s, a)
  PROVE  n <= MostFails
<1>. USE SkewAssumption, TickAssumption
<1>1. Skew * s \in Nat /\ Skew * s <= Skew * Budget BY SkewRises
<1>2. Skew * Budget \in Nat OBVIOUS
<1>3. Tick * (n - s - 2) = Tick * (n - s - 1) - Tick OBVIOUS
<1>4. Tick * (n - s - 1) \in Int OBVIOUS
<1>5. Tick * (n - s - 2) <= Skew * Budget
  <2>. DEFINE x == Tick * (n - s - 1)
              y == Skew * s
              z == Skew * Budget
  <2>1. x \in Int /\ y \in Nat /\ z \in Nat /\ y <= z /\ x <= y + Tick BY <1>1, <1>2, <1>4 DEF Few
  <2>. HIDE DEF x, y, z
  <2>2. x - Tick <= z BY <2>1
  <2>. QED BY <1>3, <2>2 DEF x, z
<1>6. \A k \in Int : Tick * k <= Skew * Budget => k <= (Skew * Budget) \div Tick
  <2>1. \A t \in Nat \ {0}, p \in Nat, k \in Int : t * k <= p => k <= p \div t OBVIOUS
  <2>. QED BY <1>2, <2>1
<1>7. n - s - 2 <= (Skew * Budget) \div Tick BY <1>5, <1>6
<1>8. (Skew * Budget) \div Tick \in Int BY <1>2
<1>. QED BY <1>7, <1>8 DEF MostFails, AtMost

(* No more failures than events and one. *)
LEMMA FewFirst ==
  ASSUME NEW n \in Nat, NEW s \in 0 .. Budget, NEW a \in Int, n <= s + 1, a >= -(Skew * s)
  PROVE  Few(n, s, a)
<1>1. Skew * s \in Nat BY SkewRises
<1>2. Tick * (n - s - 1) \in Int /\ Tick * (n - s - 1) <= 0 BY TickAssumption
<1>. QED BY <1>1, <1>2, TickAssumption DEF Few

(* Fewer failures, or later. *)
LEMMA FewLater ==
  ASSUME NEW n \in Nat, NEW m \in Nat, NEW s \in 0 .. Budget, NEW a \in Int, NEW b \in Int,
         Few(n, s, a), m <= n, b < 0 => b >= a
  PROVE  Few(m, s, b)
<1>1. Skew * s \in Nat BY SkewRises
<1>2. /\ Tick * (n - s - 1) \in Int /\ Tick * (m - s - 1) \in Int
      /\ Tick * (m - s - 1) <= Tick * (n - s - 1)
  BY TickAssumption
<1>. QED BY <1>1, <1>2, TickAssumption DEF Few

(* One more before the start time, and the tick it costs. *)
LEMMA FewNegative ==
  ASSUME NEW n \in Nat, NEW m \in Nat, NEW s \in 0 .. Budget, NEW a \in Int, NEW b \in Int,
         Few(n, s, a), a < 0, m <= n + 1, b >= a + Tick
  PROVE  Few(m, s, b)
<1>1. Skew * s \in Nat BY SkewRises
<1>2. /\ Tick * (n - s - 1) \in Int /\ Tick * (m - s - 1) \in Int
      /\ Tick * (m - s - 1) <= Tick * (n - s - 1) + Tick
  BY TickAssumption
<1>. QED BY <1>1, <1>2, TickAssumption DEF Few

(* One more for an event. *)
LEMMA FewSpent ==
  ASSUME NEW n \in Nat, NEW m \in Nat, NEW s \in 0 .. Budget, s < Budget, NEW a \in Int, NEW b \in Int,
         Few(n, s, a), \/ m <= n + 1 /\ b >= a
                       \/ m <= n /\ b >= a - Skew
  PROVE  Few(m, s + 1, b)
<1>. USE SkewAssumption
<1>1. Skew * s \in Nat /\ Skew * (s + 1) = Skew * s + Skew BY SkewRises
<1>2. Tick * (n - s - 1) \in Int /\ Tick * (m - (s + 1) - 1) \in Int BY TickAssumption
<1>3. CASE m <= n + 1 /\ b >= a
  <2>1. Tick * (m - (s + 1) - 1) <= Tick * (n - s - 1) BY <1>3, TickAssumption
  <2>. QED BY <1>1, <1>2, <1>3, <2>1, TickAssumption DEF Few
<1>4. CASE m <= n /\ b >= a - Skew
  <2>1. Tick * (m - (s + 1) - 1) <= Tick * (n - s - 1) - Tick BY <1>4, TickAssumption
  <2>. QED BY <1>1, <1>2, <1>4, <2>1, TickAssumption DEF Few
<1>. QED BY <1>3, <1>4
-----------------------------------------------------------------------------
(* The numbers of a state. *)
LEMMA Numbers ==
  ASSUME TypeInv
  PROVE  /\ age \in Int /\ elapsed \in Int /\ due \in Nat /\ fails \in 0 .. 18
         /\ budget \in 0 .. Budget /\ Spent \in 0 .. Budget /\ Spent \in Nat
         /\ Skew * Spent \in Nat /\ (budget = Budget => Spent = 0 /\ Skew * Spent = 0)
         /\ fresh \in BOOLEAN /\ attempt \in 0 .. MaxRetries /\ delay \in Nat
<1>1. Spent \in 0 .. Budget /\ (budget = Budget => Spent = 0)
  BY SkewAssumption DEF TypeInv, TypeOK, Spent
<1>2. Skew * Spent \in Nat BY <1>1, SkewRises
<1>. QED BY <1>1, <1>2, SkewAssumption DEF TypeInv, TypeOK, CallTypeOK

(* Events are spent one at a time. *)
LEMMA Events ==
  ASSUME TypeInv, TypeInv', UNCHANGED budget \/ Spend
  PROVE  /\ UNCHANGED budget => Spent' = Spent
         /\ Spend => budget' = budget - 1 /\ Spent' = Spent + 1 /\ Spent < Budget
         /\ Skew * Spent <= Skew * Spent' /\ Skew * Spent' \in Nat
         /\ Spent' \in 0 .. Budget
<1>0. budget \in 0 .. Budget /\ budget' \in 0 .. Budget BY DEF TypeInv, TypeOK
<1>e. Spent = Budget - budget /\ Spent' = Budget - budget' BY DEF Spent
<1>f. \A b \in 0 .. Budget : \A t : t = Budget - b => t \in 0 .. Budget
  BY SkewAssumption
<1>g. \A b, c \in 0 .. Budget : \A t, u :
        t = Budget - b /\ u = Budget - c /\ b > 0 /\ c = b - 1 => u = t + 1 /\ t < Budget
  BY SkewAssumption
<1>1. Spent \in 0 .. Budget /\ Spent' \in 0 .. Budget
  BY <1>0, <1>e, <1>f, Zenon
<1>2. /\ UNCHANGED budget => Spent' = Spent
      /\ Spend => budget' = budget - 1 /\ Spent' = Spent + 1 /\ Spent < Budget
  <2>1. UNCHANGED budget => Spent' = Spent BY DEF Spent
  <2>2. Spend => budget > 0 /\ budget' = budget - 1 BY DEF Spend
  <2>3. Spend => Spent' = Spent + 1 /\ Spent < Budget BY <1>0, <1>e, <1>g, <2>2, Zenon
  <2>. QED BY <2>1, <2>2, <2>3
<1>3. Spent <= Spent' BY <1>1, <1>2
<1>. QED BY <1>1, <1>2, <1>3, SkewRises

LEMMA NegativeIsNegative ==
  ASSUME elapsed \in Int, Negative(elapsed)
  PROVE  elapsed < 0
BY TimeoutAssumption DEF Negative

LEMMA CallTimeFacts ==
  ASSUME TypeInv, CallInv, pc # "idle"
  PROVE  CallTime \in Int /\ CallTime <= MaxCleanup /\ (pc = "delete" => CallTime <= MaxCall)
<1>. USE MaxCallNat, Numbers, LongestFacts, MaxWaitNat, RetriesAssumption
<1>0. /\ Before \in Nat /\ (pc \in {"delete", "lookup"} => Before + MaxCall <= MaxCleanup)
      /\ pc = "delete" => Before = 0
  BY DEF Before, TypeInv, RetryInv
<1>1. CASE pc \in {"delete", "lookup"} /\ waiting
  <2>1. attempt + 1 \in 0 .. MaxRetries BY <1>1 DEF CallInv
  <2>2. (attempt + 1) * (Longest + MaxWait) \in Nat /\ (attempt + 1) * (Longest + MaxWait) <= MaxCall
    BY <2>1
  <2>3. CallTime = Before + ((attempt + 1) * (Longest + MaxWait) - delay) BY <1>1 DEF CallTime
  <2>. DEFINE x == (attempt + 1) * (Longest + MaxWait)
  <2>. HIDE DEF x
  <2>4. x \in Nat /\ x <= MaxCall /\ CallTime = Before + (x - delay) BY <2>2, <2>3 DEF x
  <2>. QED BY <1>0, <1>1, <2>4
<1>2. CASE pc \in {"delete", "lookup"} /\ calling /\ ~waiting
  <2>. DEFINE x == attempt * (Longest + MaxWait)
  <2>1. x \in Nat /\ x <= MaxCall
    <3>1. attempt \in 0 .. MaxRetries OBVIOUS
    <3>2. x \in Nat /\ x + Longest <= MaxCall BY <3>1, MaxCallNat
    <3>. HIDE DEF x
    <3>. QED BY <3>2
  <2>2. CallTime = Before + x BY <1>2 DEF CallTime
  <2>. HIDE DEF x
  <2>. QED BY <1>0, <1>2, <2>1, <2>2
<1>3. CASE ~(pc \in {"delete", "lookup"} /\ (waiting \/ calling))
  BY <1>3 DEF CallTime
<1>. QED BY <1>1, <1>2, <1>3

(* The worker gives up, for a fault, a stale copy or a negative count, and *)
(* the queue makes the key wait for its penalty.                           *)
LEMMA FailedTime ==
  ASSUME TypeInv, TypeInv', CallInv, TimeInv, pc # "idle", Failed, UNCHANGED <<mark, blocked, age, kind>>,
         Spend \/ (UNCHANGED budget /\ (~fresh \/ Negative(elapsed)))
  PROVE  TimeInv'
<1>. USE Numbers, Events
<1>1. pc' = "idle" /\ elapsed' = 0 /\ due' = Penalty(fails) /\ fails' \in Nat /\ fails' <= fails + 1
  BY DEF Failed, AtMost
<1>2. UNCHANGED budget \/ Spend OBVIOUS
<1>3. ClockInv'
  BY <1>1, <1>2 DEF TimeInv, ClockInv
<1>4. mark' # "none" BY DEF TimeInv, FailsInv
<1>5. ASSUME Counted PROVE Few(fails', Spent', age' + due') /\ age' + due' + budget' * Slowest <= Limit
  <2>. DEFINE n == IF fresh THEN fails ELSE fails + 1
  <2>1. Few(n, Spent, elapsed) /\ BusyInv BY <1>5 DEF TimeInv, FailsInv, RoomInv
  <2>2. n \in Nat /\ fails \in Nat /\ fails <= n /\ (~fresh => n = fails + 1)
    OBVIOUS
  <2>. HIDE DEF n
  <2>3. Few(fails, Spent, elapsed) BY <2>1, <2>2, FewLater
  <2>4. fails <= MostFails BY <2>3, FewBounded
  <2>5. due' \in Nat /\ Tick <= due' /\ due' <= Slowest /\ (fails = 0 => due' = Tick)
    <3>1. fails \in 0 .. MostFails BY <2>4, MostFailsType
    <3>. QED BY <1>1, <3>1, SlowestFacts
  <2>6. age' + due' \in Int /\ age' + due' >= elapsed + Tick
    BY <2>1, <2>5, TickAssumption DEF BusyInv
  <2>7. Few(fails', Spent', age' + due')
    <3>1. CASE Spend
      <4>1. fails' <= fails + 1 /\ age' + due' >= elapsed BY <1>1, <2>6, TickAssumption
      <4>2. Few(fails', Spent + 1, age' + due') BY <1>1, <2>2, <2>3, <2>6, <3>1, <4>1, FewSpent
      <4>. QED BY <3>1, <4>2
    <3>2. CASE UNCHANGED budget /\ ~fresh
      <4>1. fails' <= n /\ age' + due' >= elapsed BY <1>1, <2>2, <2>6, <3>2, TickAssumption
      <4>2. Few(fails', Spent, age' + due') BY <1>1, <2>1, <2>2, <2>6, <4>1, FewLater
      <4>. QED BY <3>2, <4>2
    <3>3. CASE UNCHANGED budget /\ Negative(elapsed)
      <4>1. elapsed < 0 BY <3>3, NegativeIsNegative
      <4>2. Few(fails', Spent, age' + due') BY <1>1, <2>2, <2>3, <2>6, <4>1, FewNegative
      <4>. QED BY <3>3, <4>2
    <3>. QED BY <3>1, <3>2, <3>3
  <2>8. age' + due' + budget' * Slowest <= Limit
    <3>1. /\ budget * Slowest \in Nat /\ Budget * Slowest \in Nat
          /\ (budget + 1) * Slowest = budget * Slowest + Slowest
          /\ (budget - 1) * Slowest = budget * Slowest - Slowest
          /\ budget * Slowest <= Budget * Slowest
          /\ budget < Budget => budget * Slowest + Slowest <= Budget * Slowest
      BY Rooms
    <3>2. Slowest \in Nat /\ MaxCleanup \in Nat BY SlowestFacts, MaxCallNat
    <3>3. budget' * Slowest = IF Spend THEN budget * Slowest - Slowest ELSE budget * Slowest
      BY <1>2, <3>1 DEF Spend
    <3>. DEFINE room == budget * Slowest
                all  == Budget * Slowest
                left == budget' * Slowest
    <3>4. /\ room \in Nat /\ all \in Nat /\ room <= all /\ left = IF Spend THEN room - Slowest ELSE room
          /\ budget < Budget => room + Slowest <= all
          /\ Limit = Timeout + MaxCleanup + LastBackoff + all
      BY <3>1, <3>3 DEF Limit
    <3>5. CASE elapsed > Timeout
      <4>1. /\ age = elapsed
            /\ age + (IF fresh THEN room ELSE room + Slowest) <= Limit
        BY <2>1, <3>1, <3>5 DEF BusyInv
      <4>2. ~Negative(elapsed) BY <3>5, NegativeIsNegative, TimeoutAssumption
      <4>3. Spend \/ ~fresh BY <4>2
      <4>. HIDE DEF room, all, left
      <4>4. age' + due' + left <= Limit BY <2>5, <3>2, <3>4, <4>1, <4>3
      <4>. QED BY <4>4 DEF left
    <3>6. CASE elapsed <= Timeout
      <4>1. age <= elapsed + MaxCleanup BY <2>1, <3>6, CallTimeFacts, MaxCallNat DEF BusyInv
      <4>2. Spend \/ budget < Budget \/ (elapsed = 0 /\ fails = 0)
        <5>1. CASE Negative(elapsed)
          <6>1. elapsed < 0 /\ elapsed >= -(Skew * Spent) BY <5>1, NegativeIsNegative DEF TimeInv, ClockInv
          <6>2. Skew * Spent # 0 BY <6>1
          <6>3. budget \in 0 .. Budget /\ budget # Budget BY <6>2, Zenon
          <6>4. budget < Budget BY <6>3, SkewAssumption
          <6>. QED BY <6>4
        <5>2. CASE ~fresh BY <2>1, <5>2 DEF BusyInv
        <5>. QED BY <5>1, <5>2
      <4>3. Spend \/ budget < Budget \/ (elapsed = 0 /\ due' <= Timeout)
        BY <2>5, <4>2, TickAssumption
      <4>. HIDE DEF room, all, left
      <4>4. age' + due' + left <= Limit
        BY <2>5, <3>2, <3>4, <3>6, <4>1, <4>3, TimeoutAssumption DEF LastBackoff
      <4>. QED BY <4>4 DEF left
    <3>. QED BY <3>5, <3>6, TimeoutAssumption
  <2>. QED BY <2>7, <2>8
<1>6. Limit' = Limit /\ Slowest' = Slowest BY LimitStays
<1>. QED
  BY <1>1, <1>3, <1>4, <1>5, <1>6 DEF TimeInv, FailsInv, RoomInv, Counted

(* The worker ends, or is ended, and takes the key again after a backoff   *)
(* or at once.                                                             *)
LEMMA RequeuedTime ==
  ASSUME TypeInv, TypeInv', CallInv, TimeInv, pc # "idle", UNCHANGED <<mark, blocked, age, kind>>,
         UNCHANGED budget \/ Spend, NEW d \in Nat, Requeued(d),
         d = 0 \/ (elapsed <= Timeout /\ d <= LastBackoff)
  PROVE  TimeInv'
<1>. USE Numbers, Events
<1>1. pc' = "idle" /\ elapsed' = 0 /\ due' = d /\ fails' = 0
  BY DEF Requeued
<1>2. ClockInv'
  BY <1>1 DEF TimeInv, ClockInv
<1>3. mark' # "none" BY DEF TimeInv, FailsInv
<1>4. Few(fails', Spent', age' + due')
  <2>1. /\ fails' \in Nat /\ Spent' \in 0 .. Budget /\ age' + due' \in Int
        /\ fails' <= Spent' + 1 /\ age' + due' >= -(Skew * Spent')
    <3>1. Spent' \in 0 .. Budget /\ Skew * Spent' \in Nat OBVIOUS
    <3>2. age' \in Int /\ due' \in Nat /\ age' >= -(Skew * Spent') BY <1>1, <1>2 DEF ClockInv
    <3>3. age' + due' >= -(Skew * Spent') BY <3>1, <3>2
    <3>4. fails' \in Nat /\ fails' <= Spent' + 1
      <4>1. \A t \in 0 .. Budget : 0 \in Nat /\ 0 <= t + 1 BY SkewAssumption
      <4>. QED BY <1>1, <3>1, <4>1, Zenon
    <3>5. age' + due' \in Int BY <3>2
    <3>. QED BY <3>1, <3>3, <3>4, <3>5, Zenon
  <2>. QED BY <2>1, FewFirst
<1>5. ASSUME Counted PROVE age' + due' + budget' * Slowest <= Limit
  <2>. DEFINE room == budget * Slowest
              all  == Budget * Slowest
              left == budget' * Slowest
  <2>1. Slowest \in Nat /\ MaxCleanup \in Nat BY SlowestFacts, MaxCallNat
  <2>2. /\ room \in Nat /\ all \in Nat /\ room <= all /\ left \in Int /\ left <= room
        /\ (budget + 1) * Slowest = room + Slowest
        /\ Limit = Timeout + MaxCleanup + LastBackoff + all
    <3>1. budget' * Slowest = IF Spend THEN budget * Slowest - Slowest ELSE budget * Slowest
      BY Rooms DEF Spend
    <3>. QED BY <2>1, <3>1, Rooms DEF Limit
  <2>3. BusyInv BY <1>5 DEF TimeInv, RoomInv
  <2>4. CASE elapsed > Timeout
    <3>1. age + (IF fresh THEN room ELSE room + Slowest) <= Limit BY <2>2, <2>3, <2>4 DEF BusyInv
    <3>2. due' = 0 BY <1>1, <2>4, TimeoutAssumption
    <3>. HIDE DEF room, all, left
    <3>3. age' + due' + left <= Limit BY <2>1, <2>2, <3>1, <3>2
    <3>. QED BY <3>3 DEF left
  <2>5. CASE elapsed <= Timeout
    <3>1. age <= elapsed + MaxCleanup BY <2>3, <2>5, CallTimeFacts, MaxCallNat DEF BusyInv
    <3>. HIDE DEF room, all, left
    <3>2. age' + due' + left <= Limit
      BY <1>1, <2>1, <2>2, <2>5, <3>1, TimeoutAssumption DEF LastBackoff
    <3>. QED BY <3>2 DEF left
  <2>. QED BY <2>4, <2>5, TimeoutAssumption
<1>6. Limit' = Limit /\ Slowest' = Slowest BY LimitStays
<1>. QED
  BY <1>1, <1>2, <1>3, <1>4, <1>5, <1>6 DEF TimeInv, FailsInv, RoomInv, Counted

(* The worker goes on with what it measured and counted. *)
LEMMA GoesOn ==
  ASSUME TypeInv, TypeInv', TimeInv, pc # "idle", pc' # "idle",
         UNCHANGED <<mark, blocked, budget, fresh, elapsed, fails, kind>>,
         age' \in Int, age' >= -(Skew * Spent), age' <= Horizon,
         Counted => /\ age' >= elapsed
                    /\ elapsed <= Timeout => age' <= elapsed + CallTime'
                    /\ elapsed > Timeout => age' = age
  PROVE  TimeInv'
<1>. USE Numbers
<1>1. Spent' = Spent /\ Slowest' = Slowest /\ Limit' = Limit BY LimitStays DEF Spent
<1>2. ClockInv' BY <1>1 DEF TimeInv, ClockInv
<1>3. FailsInv' BY <1>1 DEF TimeInv, FailsInv, Counted
<1>4. ASSUME Counted' PROVE BusyInv'
  <2>1. Counted /\ BusyInv BY <1>4 DEF TimeInv, RoomInv, Counted
  <2>. QED BY <1>1, <2>1 DEF BusyInv
<1>. QED BY <1>2, <1>3, <1>4 DEF TimeInv, RoomInv

(* How far the clock moves in a while. *)
LEMMA LaterFacts ==
  ASSUME TypeInv, ClockInv, NEW d \in Nat
  PROVE  /\ Later(d) \in Int /\ Later(d) >= -(Skew * Spent) /\ Later(d) <= Horizon
         /\ mark = "set" => /\ age <= Later(d) /\ Later(d) <= age + d
                            /\ Later(d) < 0 => Later(d) = age + d
BY Numbers, TimeoutAssumption DEF Later, AtMost, ClockInv

LEMMA BeginTime ==
  ASSUME TypeInv, TypeInv', TimeInv, Begin
  PROVE  TimeInv'
<1>. USE Numbers, Events
<1>1. pc = "idle" BY DEF Begin
<1>2. CASE Blocked
  <2>1. /\ age' = Later(due) /\ UNCHANGED <<mark, budget>> /\ blocked' = TRUE
        /\ pc' = "idle" /\ elapsed' = 0
    BY <1>2 DEF Blocked, Failed
  <2>2. Spent' = Spent BY <2>1
  <2>3. age' \in Int /\ age' >= -(Skew * Spent) /\ age' <= Horizon
    BY <2>1, LaterFacts DEF TimeInv
  <2>4. ClockInv' BY <2>1, <2>2, <2>3 DEF ClockInv
  <2>. QED BY <2>1, <2>4 DEF TimeInv, FailsInv, RoomInv, Counted
<1>3. CASE Track /\ Spend /\ Failed /\ UNCHANGED <<mark, age>>
  <2>1. mark' = "none" /\ pc' = "idle" /\ elapsed' = 0 /\ UNCHANGED blocked /\ fails' <= fails + 1
    BY <1>3 DEF Track, Failed, AtMost
  <2>2. ClockInv' BY <1>3, <2>1 DEF TimeInv, ClockInv
  <2>3. ~blocked' => fails' <= Spent'
    <3>1. ~blocked => fails <= Spent BY <1>3 DEF Track, TimeInv, FailsInv
    <3>2. Spent' = Spent + 1 BY <1>3
    <3>3. fails' \in 0 .. 18 BY DEF TypeInv, TypeOK
    <3>. QED BY <2>1, <3>1, <3>2, <3>3
  <2>. QED BY <2>1, <2>2, <2>3 DEF TimeInv, FailsInv, RoomInv, Counted
<1>4. CASE /\ Track /\ mark' = "set" /\ age' = 0 /\ fresh' \in BOOLEAN /\ pc' = "check"
           /\ UNCHANGED <<elapsed, fails, result, budget, callVars>>
  <2>1. mark = "none" /\ elapsed = 0 /\ UNCHANGED blocked /\ (~blocked => fails <= Spent)
    BY <1>1, <1>4 DEF Track, TimeInv, ClockInv, FailsInv
  <2>2. Spent' = Spent BY <1>4
  <2>3. ClockInv' BY <1>4, <2>1, <2>2, TimeoutAssumption DEF ClockInv
  <2>4. ASSUME ~blocked PROVE Few(IF fresh' THEN fails' ELSE fails' + 1, Spent', elapsed')
    <3>. DEFINE n == IF fresh' THEN fails ELSE fails + 1
    <3>1. n \in Nat /\ n <= Spent + 1 BY <2>1, <2>4
    <3>. HIDE DEF n
    <3>2. Few(n, Spent, 0) BY <3>1, FewFirst
    <3>. QED BY <1>4, <2>1, <2>2, <3>2 DEF n
  <2>5. ASSUME ~blocked PROVE BusyInv'
    <3>1. age' = 0 /\ elapsed' = 0 /\ CallTime' = 0 BY <1>4, <2>1 DEF CallTime
    <3>2. budget' < Budget \/ fails' = 0
      <4>1. budget = Budget => fails = 0 BY <2>1, <2>5
      <4>2. budget < Budget \/ budget = Budget BY SkewAssumption
      <4>. QED BY <1>4, <4>1, <4>2
    <3>. QED BY <3>1, <3>2, TimeoutAssumption DEF BusyInv
  <2>. QED BY <1>4, <2>1, <2>3, <2>4, <2>5 DEF TimeInv, FailsInv, RoomInv, Counted
<1>5. CASE Resume
  <2>1. /\ mark # "none" /\ age' = Later(due) /\ elapsed' = age' /\ fresh' = TRUE /\ pc' = "check"
        /\ UNCHANGED <<mark, fails, blocked, budget, kind>>
    BY <1>5 DEF Resume, Begin
  <2>2. Spent' = Spent /\ Slowest' = Slowest /\ Limit' = Limit
    BY <2>1, LimitStays DEF Spent
  <2>3. age' \in Int /\ age' >= -(Skew * Spent) /\ age' <= Horizon
    BY <2>1, LaterFacts DEF TimeInv
  <2>4. ClockInv' BY <2>1, <2>2, <2>3 DEF ClockInv
  <2>5. ASSUME Counted
        PROVE  /\ Few(fails, Spent, age + due) /\ age + due + budget * Slowest <= Limit
               /\ age' <= age + due /\ (age' < 0 => age' >= age + due)
    <3>1. mark = "set" BY <2>5 DEF Counted
    <3>2. age' <= age + due /\ (age' < 0 => age' >= age + due)
      BY <2>1, <2>3, <3>1, LaterFacts DEF TimeInv
    <3>. QED BY <1>1, <2>5, <3>2 DEF TimeInv, FailsInv, RoomInv
  <2>6. ASSUME Counted PROVE Few(fails', Spent', elapsed')
    <3>1. fails \in Nat /\ age + due \in Int /\ fails <= fails OBVIOUS
    <3>2. Few(fails, Spent, age') BY <2>3, <2>5, <2>6, <3>1, FewLater
    <3>. QED BY <2>1, <2>2, <3>2
  <2>7. ASSUME Counted PROVE BusyInv'
    <3>1. CallTime' = 0 BY <2>1 DEF CallTime
    <3>2. age' + budget * Slowest <= Limit
      <4>1. budget * Slowest \in Nat /\ Limit \in Int BY Rooms, MaxCallNat
      <4>. QED BY <2>3, <2>5, <2>7, <4>1
    <3>. QED BY <2>1, <2>2, <2>3, <3>1, <3>2 DEF BusyInv
  <2>. QED BY <2>1, <2>4, <2>6, <2>7 DEF TimeInv, FailsInv, RoomInv, Counted
<1>. QED BY <1>2, <1>3, <1>4, <1>5 DEF Begin, Track

LEMMA CheckTime ==
  ASSUME TypeInv, TypeInv', CallInv, TimeInv, Check
  PROVE  TimeInv'
<1>. USE Numbers
<1>1. pc = "check" /\ UNCHANGED <<mark, age, blocked, budget, kind>> BY DEF Check, resource
<1>2. age >= -(Skew * Spent) /\ age <= Horizon BY DEF TimeInv, ClockInv
<1>3. Counted => age >= elapsed /\ (elapsed <= Timeout => age <= elapsed)
  BY <1>1 DEF TimeInv, RoomInv, BusyInv, CallTime
<1>4. ASSUME Decide("release") \/ Decide("retry") PROVE TimeInv'
  <2>1. pc' = "status" /\ UNCHANGED <<elapsed, due, fails, fresh>> BY <1>4 DEF Decide
  <2>2. CallTime' = MaxCleanup' BY <2>1 DEF CallTime
  <2>4. CallTime' = MaxCleanup BY <1>1, <2>2, LimitStays
  <2>3. Counted /\ elapsed <= Timeout => age' <= elapsed + CallTime' BY <1>1, <1>3, <2>4, MaxCallNat
  <2>. QED BY <1>1, <1>2, <1>3, <2>1, <2>3, GoesOn
<1>5. CASE pc' = "delete" /\ StartCall /\ UNCHANGED <<elapsed, result, due, fails, fresh>>
  <2>1. CallTime' = 0 + 0 * (Longest + MaxWait)
    BY <1>5 DEF CallTime, Before, StartCall, Longest, MaxWait
  <2>2. CallTime' = 0 BY <2>1, LongestFacts, MaxWaitNat
  <2>. QED BY <1>1, <1>2, <1>3, <1>5, <2>2, GoesOn
<1>6. CASE Failed /\ Negative(elapsed) BY <1>1, <1>6, FailedTime
<1>. QED BY <1>4, <1>5, <1>6 DEF Check, TryAgain

(* The time of a request, and of the wait after it. *)
LEMMA CallingTime ==
  ASSUME TypeInv, TypeInv', CallInv, CallInv', TimeInv, Delete \/ Lookup \/ Wait
  PROVE  TimeInv'
<1>. USE Numbers, MaxCallNat, LongestFacts, MaxWaitNat
<1>. DEFINE L == Longest + MaxWait
<1>1. /\ pc \in {"delete", "lookup"} /\ elapsed <= Timeout
      /\ UNCHANGED <<mark, kind, pc, fresh, elapsed, due, fails, blocked, budget>>
  BY DEF Delete, Lookup, Wait, resource, TypeInv, RetryInv
<1>2. Counted => age >= elapsed /\ age <= elapsed + CallTime /\ mark = "set"
  BY <1>1 DEF TimeInv, RoomInv, BusyInv, Counted
<1>3. L \in Nat /\ attempt * L \in Nat /\ attempt * L + Longest <= MaxCall
      /\ (attempt + 1) * L = attempt * L + L
  <2>1. L \in Nat OBVIOUS
  <2>2. attempt \in 0 .. MaxRetries /\ attempt \in Nat BY RetriesAssumption
  <2>3. attempt * L \in Nat /\ attempt * L + Longest <= MaxCall BY <2>2, MaxCallNat
  <2>. HIDE DEF L
  <2>4. (attempt + 1) * L = attempt * L + L BY <2>1, <2>2
  <2>. QED BY <2>1, <2>3, <2>4
<1>4. /\ Before \in Nat /\ Before' = Before
      /\ pc = "delete" => Before = 0
      /\ pc = "lookup" => Before = MaxCall /\ MaxCleanup = MaxCall + MaxCall
  BY <1>1 DEF Before, MaxCall, Longest, MaxWait, TypeInv, RetryInv
<1>5. CASE Delete \/ Lookup
  <2>1. PICK reply \in Replies, effect \in {0, 1}, d \in Durations :
          Attempt(reply, effect) /\ age' = Later(d)
    BY <1>5 DEF Delete, Lookup
  <2>2. calling /\ ~waiting /\ UNCHANGED attempt
        /\ \/ waiting' /\ delay' \in Delays(reply, attempt)
           \/ ~waiting' /\ ~calling'
    BY <2>1 DEF Attempt, Finish
  <2>3. d \in Nat /\ d <= Longest OBVIOUS
  <2>4. CallTime = Before + attempt * L BY <1>1, <2>2 DEF CallTime
  <2>5. CallTime' \in Int /\ CallTime' >= Before + (attempt * L + Longest)
    <3>1. CASE waiting' /\ delay' \in Delays(reply, attempt)
      <4>1. delay' \in Nat /\ delay' <= MaxWait BY <3>1, WaitFacts
      <4>2. CallTime' = Before + ((attempt + 1) * L - delay')
        BY <1>1, <1>4, <2>2, <3>1 DEF CallTime, Longest, MaxWait
      <4>. DEFINE x == attempt * L
      <4>3. /\ x \in Nat /\ CallTime' = Before + ((x + L) - delay')
            /\ L = Longest + MaxWait /\ Longest \in Nat /\ MaxWait \in Nat
        BY <1>3, <4>2
      <4>. HIDE DEF x, L
      <4>4. CallTime' \in Int /\ CallTime' >= Before + (x + Longest)
        <5>1. \A b, y, l, w, e \in Nat : \A t :
                e <= w /\ t = b + ((y + (l + w)) - e) => t \in Int /\ t >= b + (y + l)
          OBVIOUS
        <5>2. Before \in Nat BY <1>4
        <5>3. CallTime' = Before + ((x + (Longest + MaxWait)) - delay') BY <4>3
        <5>. QED BY <4>1, <4>3, <5>1, <5>2, <5>3, Zenon
      <4>. QED BY <4>4 DEF x
    <3>2. CASE ~waiting' /\ ~calling'
      <4>1. CallTime' = IF pc = "delete" THEN MaxCall ELSE MaxCleanup'
        BY <1>1, <3>2 DEF CallTime, MaxCall, Longest, MaxWait
      <4>2. CallTime' = Before + MaxCall BY <1>1, <1>4, <4>1, LimitStays
      <4>. DEFINE x == attempt * L
      <4>3. x \in Nat /\ x + Longest <= MaxCall BY <1>3
      <4>. HIDE DEF x
      <4>4. CallTime' \in Int /\ CallTime' >= Before + (x + Longest) BY <1>4, <4>2, <4>3
      <4>. QED BY <4>4 DEF x
    <3>. QED BY <2>2, <3>1, <3>2
  <2>6. /\ age' \in Int /\ age' >= -(Skew * Spent) /\ age' <= Horizon
        /\ mark = "set" => age <= age' /\ age' <= age + d
    BY <2>1, <2>3, LaterFacts DEF TimeInv
  <2>7. Counted => age' >= elapsed /\ age' <= elapsed + CallTime'
    <3>. DEFINE x == attempt * L
    <3>1. x \in Nat /\ CallTime = Before + x /\ CallTime' >= Before + (x + Longest)
      BY <1>3, <2>4, <2>5
    <3>. HIDE DEF x, L
    <3>. QED BY <1>2, <1>4, <2>3, <2>5, <2>6, <3>1
  <2>. QED BY <1>1, <2>6, <2>7, TimeoutAssumption, GoesOn
<1>6. CASE Wait
  <2>1. waiting /\ ~waiting' /\ attempt' = attempt + 1 /\ calling' = calling /\ age' = Later(delay)
    BY <1>6 DEF Wait, TimerFires
  <2>2. calling BY <2>1 DEF CallInv
  <2>3. CallTime = Before + (attempt * L + L - delay) BY <1>1, <1>3, <2>1 DEF CallTime
  <2>4. CallTime' = Before + attempt' * L
    BY <1>1, <1>4, <2>1, <2>2 DEF CallTime, Longest, MaxWait
  <2>5. CallTime' = Before + (attempt * L + L) BY <1>3, <2>1, <2>4
  <2>6. /\ age' \in Int /\ age' >= -(Skew * Spent) /\ age' <= Horizon
        /\ mark = "set" => age <= age' /\ age' <= age + delay
    BY <2>1, LaterFacts DEF TimeInv
  <2>7. Counted => age' >= elapsed /\ age' <= elapsed + CallTime'
    <3>. DEFINE x == attempt * L
    <3>1. /\ x \in Nat /\ L \in Nat /\ CallTime = Before + (x + L - delay)
          /\ CallTime' = Before + (x + L)
      BY <1>3, <2>3, <2>5
    <3>. HIDE DEF x, L
    <3>. QED BY <1>2, <1>4, <2>6, <3>1
  <2>. QED BY <1>1, <2>6, <2>7, TimeoutAssumption, GoesOn
<1>. QED BY <1>5, <1>6

LEMMA EndingTime ==
  ASSUME TypeInv, TypeInv', CallInv, TimeInv, Judge \/ JudgeLookup \/ Status \/ Remove
  PROVE  TimeInv'
<1>. USE Numbers, MaxCallNat
<1>1. /\ pc \in {"delete", "lookup", "status", "remove"} /\ UNCHANGED <<mark, age, blocked, kind>>
      /\ (pc \in {"delete", "lookup"} => ~calling /\ ~waiting)
  BY DEF Judge, JudgeLookup, Status, Remove, resource, CallInv
<1>2. age >= -(Skew * Spent) /\ age <= Horizon BY DEF TimeInv, ClockInv
<1>3. Counted => /\ age >= elapsed
                 /\ elapsed <= Timeout => age <= elapsed + MaxCleanup
                 /\ elapsed <= Timeout /\ pc = "delete" => age <= elapsed + MaxCall
  BY <1>1 DEF TimeInv, RoomInv, BusyInv, CallTime
<1>4. ASSUME UNCHANGED <<budget, elapsed, due, fails, fresh>>, pc' \in {"status", "remove"}
      PROVE  TimeInv'
  <2>1. CallTime' = MaxCleanup' BY <1>4 DEF CallTime
  <2>2. CallTime' = MaxCleanup BY <1>1, <2>1, LimitStays
  <2>. QED BY <1>1, <1>2, <1>3, <1>4, <2>2, GoesOn
<1>5. ASSUME Failed, Spend \/ (UNCHANGED budget /\ (~fresh \/ Negative(elapsed)))
      PROVE  TimeInv'
  BY <1>1, <1>5, FailedTime
<1>9. ASSUME Judge, pc' = "lookup", StartCall, UNCHANGED <<budget, elapsed, due, fails, fresh>>
      PROVE  TimeInv'
  <2>1. CallTime' = MaxCall + 0 * (Longest + MaxWait)
    BY <1>9 DEF CallTime, Before, StartCall, MaxCall, Longest, MaxWait
  <2>2. CallTime' = MaxCall BY <2>1, LongestFacts, MaxWaitNat
  <2>3. elapsed <= Timeout /\ pc = "delete" BY <1>9 DEF Judge, TypeInv, RetryInv
  <2>. QED BY <1>1, <1>2, <1>3, <1>9, <2>2, <2>3, TimeoutAssumption, GoesOn
<1>6. CASE Judge \/ JudgeLookup
  BY <1>4, <1>5, <1>6, <1>9 DEF Judge, JudgeLookup, NotDeleted, Decide, TryAgain
<1>7. CASE Status
  <2>1. ASSUME UNCHANGED budget, result = "retry", Requeued(Backoff(elapsed)) PROVE TimeInv'
    <3>1. elapsed <= Timeout /\ ~Negative(elapsed) BY <1>7, <2>1 DEF Status, TypeInv, RetryInv
    <3>2. Backoff(elapsed) \in Nat /\ Backoff(elapsed) <= LastBackoff BY <3>1, BackoffFacts
    <3>. QED BY <1>1, <2>1, <3>1, <3>2, RequeuedTime
  <2>. QED BY <1>4, <1>5, <1>7, <2>1 DEF Status
<1>8. CASE Remove
  <2>1. ASSUME UNCHANGED budget, Requeued(0) PROVE TimeInv'
    <3>1. 0 \in Nat OBVIOUS
    <3>. QED BY <1>1, <2>1, <3>1, RequeuedTime
  <2>. QED BY <1>5, <1>8, <2>1 DEF Remove
<1>. QED BY <1>6, <1>7, <1>8

(* An event that moves neither the clock nor the worker. *)
LEMMA SpentTime ==
  ASSUME TypeInv, TypeInv', CallInv, CallInv', TimeInv, Spend,
         UNCHANGED <<mark, blocked, age, pc, elapsed, due, fails, kind>>,
         fresh' = fresh \/ fresh' = FALSE,
         pc # "idle" => CallTime' \in Int /\ CallTime <= CallTime'
  PROVE  TimeInv'
<1>. USE Numbers, Events
<1>1. ClockInv' BY DEF TimeInv, ClockInv
<1>2. mark' = "none" => pc' = "idle" /\ (~blocked' => fails' <= Spent')
  BY DEF TimeInv, FailsInv
<1>3. Counted /\ pc = "idle" => Few(fails', Spent', age' + due')
  <2>1. SUFFICES ASSUME Counted, pc = "idle" PROVE Few(fails, Spent + 1, age + due) OBVIOUS
  <2>2. Few(fails, Spent, age + due) BY <2>1 DEF TimeInv, FailsInv
  <2>3. age + due \in Int /\ age + due >= age + due /\ fails \in Nat /\ fails <= fails + 1 OBVIOUS
  <2>. QED BY <2>2, <2>3, FewSpent
<1>4. Counted /\ pc # "idle" => Few(IF fresh' THEN fails' ELSE fails' + 1, Spent', elapsed')
  <2>1. SUFFICES ASSUME Counted, pc # "idle"
                 PROVE  Few(IF fresh' THEN fails ELSE fails + 1, Spent + 1, elapsed)
    OBVIOUS
  <2>. DEFINE n == IF fresh THEN fails ELSE fails + 1
              m == IF fresh' THEN fails ELSE fails + 1
  <2>2. Few(n, Spent, elapsed) BY <2>1 DEF TimeInv, FailsInv
  <2>3. n \in Nat /\ m \in Nat /\ m <= n + 1 OBVIOUS
  <2>. HIDE DEF n, m
  <2>4. Few(m, Spent + 1, elapsed) BY <2>2, <2>3, FewSpent
  <2>. QED BY <2>4 DEF m
<1>5. /\ budget' \in Int /\ budget = budget' + 1 /\ budget' < Budget
      /\ Slowest \in Nat /\ Limit \in Int
  <2>1. budget \in 0 .. Budget /\ budget' = budget - 1 /\ Budget \in Nat BY SkewAssumption
  <2>2. \A b \in 0 .. Budget : \A c : c = b - 1 => c \in Int /\ b = c + 1 /\ c < Budget
    BY SkewAssumption
  <2>. QED BY <2>1, <2>2, SlowestFacts, MaxCallNat, Zenon
<1>6. budget' * Slowest = budget * Slowest - Slowest /\ budget * Slowest \in Nat
      /\ (budget + 1) * Slowest = budget * Slowest + Slowest
      /\ (budget' + 1) * Slowest = budget * Slowest
  <2>1. budget' * Slowest = (budget - 1) * Slowest OBVIOUS
  <2>2. (budget' + 1) * Slowest = budget * Slowest BY <1>5, Zenon
  <2>. QED BY <2>1, <2>2, Rooms
<1>7. Counted /\ pc = "idle" => age' + due' + budget' * Slowest <= Limit
  <2>1. SUFFICES ASSUME Counted, pc = "idle" PROVE age + due + budget' * Slowest <= Limit OBVIOUS
  <2>. DEFINE room == budget * Slowest
              left == budget' * Slowest
  <2>2. age + due + room <= Limit BY <2>1 DEF TimeInv, RoomInv
  <2>3. room \in Nat /\ left = room - Slowest BY <1>6
  <2>. HIDE DEF room, left
  <2>4. age + due + left <= Limit BY <1>5, <2>2, <2>3
  <2>. QED BY <2>4 DEF left
<1>8. Counted /\ pc # "idle" => BusyInv'
  <2>1. SUFFICES ASSUME Counted, pc # "idle" PROVE BusyInv' OBVIOUS
  <2>2. BusyInv BY <2>1 DEF TimeInv, RoomInv
  <2>3. elapsed' <= Timeout => age' <= elapsed' + CallTime'
    <3>1. CallTime \in Int BY <2>1, CallTimeFacts
    <3>2. CallTime' \in Int /\ CallTime <= CallTime' BY <2>1
    <3>. QED BY <2>1, <2>2, <3>1, <3>2 DEF BusyInv
  <2>4. ASSUME elapsed > Timeout
        PROVE  age + (IF fresh' THEN budget' ELSE budget' + 1) * Slowest <= Limit
    <3>. DEFINE room == budget * Slowest
                left == budget' * Slowest
                more == (budget + 1) * Slowest
                keep == (budget' + 1) * Slowest
    <3>1. age + (IF fresh THEN room ELSE more) <= Limit BY <2>2, <2>4 DEF BusyInv
    <3>2. room \in Nat /\ left = room - Slowest /\ more = room + Slowest /\ keep = room BY <1>6
    <3>. HIDE DEF room, left, more, keep
    <3>3. age + (IF fresh' THEN left ELSE keep) <= Limit BY <1>5, <3>1, <3>2
    <3>. QED BY <3>3 DEF left, keep
  <2>5. Slowest' = Slowest /\ Limit' = Limit BY LimitStays
  <2>. QED BY <1>5, <2>2, <2>3, <2>4, <2>5 DEF BusyInv
<1>9. Limit' = Limit /\ Slowest' = Slowest BY LimitStays
<1>. QED
  BY <1>1, <1>2, <1>3, <1>4, <1>7, <1>8, <1>9 DEF TimeInv, FailsInv, RoomInv, Counted

LEMMA SameTime ==
  ASSUME TimeInv,
         UNCHANGED <<mark, blocked, age, pc, elapsed, due, fails, fresh, budget, kind, callVars>>
  PROVE  TimeInv'
BY LimitStays DEF TimeInv, ClockInv, FailsInv, RoomInv, BusyInv, Counted, Spent, CallTime, Before,
                  callVars, MaxCall, Longest, MaxWait

LEMMA AnnotateTime ==
  ASSUME TypeInv, TypeInv', CallInv, CallInv', TimeInv, Annotate
  PROVE  TimeInv'
<1>1. Spend /\ fresh' = FALSE /\ UNCHANGED <<pc, elapsed, due, fails, blocked, kind, callVars>>
  BY DEF Annotate
<1>2. CASE UNCHANGED <<mark, age>>
  <2>1. CallTime' = CallTime
    BY <1>1, LimitStays DEF callVars, CallTime, Before, Longest, MaxWait, MaxCall
  <2>2. pc # "idle" => CallTime' \in Int /\ CallTime <= CallTime' BY <2>1, CallTimeFacts
  <2>. QED BY <1>1, <1>2, <2>2, SpentTime
<1>3. CASE mark' = "bad" /\ age' = 0
  <2>1. ClockInv' BY <1>1, <1>3, Numbers, Events, TimeoutAssumption DEF TimeInv, ClockInv
  <2>. QED BY <1>3, <2>1 DEF TimeInv, FailsInv, RoomInv, Counted
<1>. QED BY <1>2, <1>3 DEF Annotate

(* The start time moves ahead of the clock by no more than the events      *)
(* allow, and so does the number of failures that fit before it.           *)
LEMMA ClockTime ==
  ASSUME TypeInv, TypeInv', TimeInv, ClockSetBack
  PROVE  TimeInv'
<1>. USE Numbers, Events, SkewAssumption
<1>1. /\ mark = "set" /\ pc = "idle" /\ Spend /\ age' = age - Skew
      /\ UNCHANGED <<mark, pc, elapsed, due, fails, blocked, kind>>
  BY DEF ClockSetBack, resource
<1>2. Skew * Spent' = Skew * Spent + Skew /\ Spent' = Spent + 1
  <2>1. \A t \in Nat : \A u : u = t + 1 => Skew * u = Skew * t + Skew OBVIOUS
  <2>2. Spent' = Spent + 1 /\ Spent \in Nat BY <1>1
  <2>. QED BY <2>1, <2>2, Zenon
<1>3. age' >= -(Skew * Spent') /\ age' <= Horizon /\ age >= -(Skew * Spent)
  <2>. DEFINE x == Skew * Spent
              y == Skew * Spent'
  <2>1. x \in Nat /\ y = x + Skew BY <1>2
  <2>2. age >= -x /\ age <= Horizon BY DEF TimeInv, ClockInv
  <2>. HIDE DEF x, y
  <2>3. age' >= -y /\ age' <= Horizon BY <1>1, <2>1, <2>2, TimeoutAssumption
  <2>. QED BY <2>2, <2>3 DEF x, y
<1>4. ClockInv'
  <2>1. elapsed = 0 BY <1>1 DEF TimeInv, ClockInv
  <2>2. 0 >= -(Skew * Spent') BY <1>1
  <2>. QED BY <1>1, <1>3, <2>1, <2>2 DEF ClockInv
<1>5. Counted => Few(fails', Spent', age' + due')
  <2>1. SUFFICES ASSUME Counted PROVE Few(fails, Spent', age' + due') BY <1>1
  <2>2. Few(fails, Spent, age + due) BY <1>1, <2>1 DEF TimeInv, FailsInv
  <2>3. /\ age + due \in Int /\ age' + due' \in Int /\ age' + due' >= (age + due) - Skew
        /\ fails \in Nat /\ fails <= fails
    BY <1>1
  <2>4. Few(fails, Spent + 1, age' + due') BY <1>1, <2>2, <2>3, FewSpent
  <2>. QED BY <1>2, <2>4
<1>6. Counted => age' + due' + budget' * Slowest <= Limit
  <2>1. SUFFICES ASSUME Counted PROVE age' + due + budget' * Slowest <= Limit BY <1>1
  <2>2. budget' * Slowest = budget * Slowest - Slowest /\ budget * Slowest \in Nat
    <3>1. budget' * Slowest = (budget - 1) * Slowest BY <1>1
    <3>. QED BY <3>1, Rooms
  <2>. DEFINE room == budget * Slowest
              left == budget' * Slowest
  <2>3. room \in Nat /\ left = room - Slowest /\ Slowest \in Nat /\ Limit \in Int
    BY <2>2, SlowestFacts, MaxCallNat
  <2>4. age + due + room <= Limit BY <1>1, <2>1 DEF TimeInv, RoomInv
  <2>. HIDE DEF room, left
  <2>5. age' + due + left <= Limit BY <1>1, <2>3, <2>4
  <2>. QED BY <2>5 DEF left
<1>7. Limit' = Limit /\ Slowest' = Slowest BY <1>1, LimitStays
<1>. QED BY <1>1, <1>4, <1>5, <1>6, <1>7 DEF TimeInv, FailsInv, RoomInv, Counted

LEMMA EnvironmentTime ==
  ASSUME TypeInv, TypeInv', CallInv, CallInv', TimeInv, Environment
  PROVE  TimeInv'
<1>1. CASE Annotate BY <1>1, AnnotateTime
<1>2. CASE ClockSetBack BY <1>2, ClockTime
<1>3. CASE AccountLost
  <2>1. /\ Spend /\ UNCHANGED <<mark, blocked, age, pc, elapsed, due, fails, fresh, kind>>
        /\ UNCHANGED callVars
    BY <1>3 DEF AccountLost, resource
  <2>2. CallTime' = CallTime
    BY <2>1, LimitStays DEF callVars, CallTime, Before, Longest, MaxWait, MaxCall
  <2>3. pc # "idle" => CallTime' \in Int /\ CallTime <= CallTime' BY <2>2, CallTimeFacts
  <2>. QED BY <2>1, <2>3, SpentTime
<1>4. CASE AccountRestored
  <2>1. UNCHANGED <<mark, blocked, age, pc, elapsed, due, fails, fresh, budget, kind, callVars>>
    BY <1>4 DEF AccountRestored, resource
  <2>. QED BY <2>1, SameTime
<1>5. CASE Shutdown
  <2>1. /\ Spend /\ UNCHANGED <<mark, blocked, age, pc, elapsed, due, fails, fresh, kind>>
        /\ pc \in {"delete", "lookup"} /\ waiting' = FALSE /\ calling' = FALSE
    BY <1>5 DEF Shutdown, Cancel, Finish, resource
  <2>2. CallTime' = IF pc = "delete" THEN MaxCall ELSE MaxCleanup
    BY <2>1, LimitStays DEF CallTime, MaxCall, Longest, MaxWait
  <2>3. CallTime' \in Int /\ CallTime <= CallTime' BY <2>1, <2>2, CallTimeFacts, MaxCallNat
  <2>. QED BY <2>1, <2>3, SpentTime
<1>6. CASE Restart
  <2>1. Spend /\ Requeued(0) /\ pc # "idle" /\ UNCHANGED <<mark, age, blocked, kind>> /\ 0 \in Nat
    BY <1>6 DEF Restart, resource
  <2>. QED BY <2>1, RequeuedTime
<1>. QED BY <1>1, <1>2, <1>3, <1>4, <1>5, <1>6 DEF Environment

LEMMA InitTime == Init => TimeInv
<1>. SUFFICES ASSUME Init PROVE TimeInv OBVIOUS
<1>1. mark = "none" /\ pc = "idle" /\ age = 0 /\ elapsed = 0 /\ fails = 0 /\ budget = Budget
  BY DEF Init
<1>2. Spent = 0 /\ Skew * Spent = 0 BY <1>1, SkewAssumption DEF Spent
<1>. QED BY <1>1, <1>2, TimeoutAssumption DEF TimeInv, ClockInv, FailsInv, RoomInv, Counted

LEMMA NextTime ==
  Inv /\ Inv' /\ TypeInv /\ TypeInv' /\ TimeInv /\ [Next]_vars => TimeInv'
<1>. SUFFICES ASSUME Inv, Inv', TypeInv, TypeInv', TimeInv, [Next]_vars PROVE TimeInv' OBVIOUS
<1>1. CallInv /\ CallInv' BY DEF Inv
<1>2. CASE UNCHANGED vars BY <1>2, SameTime DEF vars, cleanupVars, resource
<1>3. CASE Step
  BY <1>1, <1>3, BeginTime, CheckTime, CallingTime, EndingTime DEF Step
<1>4. CASE Environment BY <1>1, <1>4, EnvironmentTime
<1>. QED BY <1>2, <1>3, <1>4 DEF Next

(* What the clock, the queue and the environment can still add to the age  *)
(* of a start time fits below the limit, in every state.                   *)
THEOREM TimeIsBudgeted == Spec => []TimeInv
BY InitTime, NextTime, CountAndReason, TypeCorrect, PTL DEF Spec

LEMMA TimeIsEnough ==
  ASSUME TypeInv, CallInv, TimeInv
  PROVE  Deadline
<1>. USE Numbers, MaxCallNat, SlowestFacts
<1>1. SUFFICES ASSUME Counted PROVE age <= Limit
  BY DEF Deadline, Counted, Limit, Slowest
<1>. DEFINE room == budget * Slowest
            more == (budget + 1) * Slowest
            all  == Budget * Slowest
<1>2. room \in Nat /\ all \in Nat /\ more = room + Slowest /\ Limit = Timeout + MaxCleanup + LastBackoff + all
  BY Rooms DEF Limit
<1>3. CASE pc = "idle"
  <2>1. age + due + room <= Limit BY <1>1, <1>3 DEF TimeInv, RoomInv
  <2>. HIDE DEF room, more, all
  <2>. QED BY <1>2, <2>1
<1>4. CASE pc # "idle"
  <2>1. BusyInv BY <1>1, <1>4 DEF TimeInv, RoomInv
  <2>2. CASE elapsed <= Timeout
    <3>1. age <= elapsed + MaxCleanup BY <1>4, <2>1, <2>2, CallTimeFacts DEF BusyInv
    <3>. HIDE DEF room, more, all
    <3>. QED BY <1>2, <2>2, <3>1, TimeoutAssumption DEF LastBackoff
  <2>3. CASE elapsed > Timeout
    <3>1. age + (IF fresh THEN room ELSE more) <= Limit BY <2>1, <2>3 DEF BusyInv
    <3>. HIDE DEF room, more, all
    <3>. QED BY <1>2, <3>1
  <2>. QED BY <2>2, <2>3, TimeoutAssumption
<1>. QED BY <1>3, <1>4

(* "The maximum duration to attempt cleanup before forcing finalizer       *)
(* removal" (finalizer.go:36), for every timeout, set of request times,    *)
(* number of faults and setback of the clock.                              *)
THEOREM DeadlineHolds == Spec => []Deadline
<1>1. Inv /\ TypeInv /\ TimeInv => Deadline BY TimeIsEnough DEF Inv
<1>. QED BY <1>1, CountAndReason, TypeCorrect, TimeIsBudgeted, PTL
=============================================================================
