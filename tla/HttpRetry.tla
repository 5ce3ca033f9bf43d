------------------------------ MODULE HttpRetry ------------------------------
(***************************************************************************)
(* doWithRetry (internal/uptimerobot/retry.go): the attempts of one client *)
(* call, the delays between them, and how the call ends.  The bodies of    *)
(* requests and answers are left out; an answer is a member of Replies.    *)
(***************************************************************************)
EXTENDS Naturals

CONSTANTS
  MaxRetries,   \* DefaultMaxRetries
  BaseDelay,    \* DefaultBaseDelay, in seconds
  MaxDelay,     \* DefaultMaxDelay, in seconds
  Jitter,       \* DefaultJitterFraction, in percent
  RetryAfters   \* seconds a Retry-After header asks for; 0: none or unusable

ASSUME RetriesAssumption == MaxRetries \in Nat
(* calculateBackoff doubles a time.Duration, which holds 2^33 seconds.     *)
ASSUME DoublingsAssumption == MaxRetries <= 30
ASSUME DelaysAssumption == BaseDelay \in Nat \ {0} /\ MaxDelay \in Nat \ {0} /\ Jitter \in 0 .. 100
ASSUME RetryAftersAssumption == RetryAfters \subseteq Nat /\ 0 \in RetryAfters

VARIABLES
  calling,    \* a call is in progress
  attempt,    \* the loop counter
  waiting,    \* the loop waits for its timer before the next attempt
  delay,      \* seconds on that timer
  answer,     \* how the last call ended
  sends,      \* history: requests of the call
  executed    \* history: requests the service has carried out

callVars == <<calling, attempt, waiting, delay, answer, sends, executed>>

(* An answer below 400; 429; 500, 502, 503 or 504; 404; another status; a  *)
(* timeout, a refused or broken connection; another network error.         *)
Replies == {"ok", "busy", "server", "missing", "rejected", "network", "fatal"}

Answers == {"none", "ok", "missing", "rejected", "fatal", "exhausted", "cancelled"}

IsRetryable(reply) == reply \in {"busy", "server", "network"}

(* Whether the service may have carried out what it answers like this. *)
Executions(reply) ==
  CASE reply = "ok" -> {1} [] reply \in {"server", "network"} -> {0, 1} [] OTHER -> {0}

AtMost(n, max) == IF n > max THEN max ELSE n

(* The random part of a delay: its two extremes. *)
Jittered(d) == {d - (d * Jitter) \div 100, d + (d * Jitter) \div 100}

CalculateBackoff(n) == Jittered(AtMost(BaseDelay * 2^n, MaxDelay))

ParseRetryAfter(seconds) == AtMost(seconds, MaxDelay)

Delays(reply, n) ==
  UNION {IF reply = "busy" /\ h > 0 THEN {ParseRetryAfter(h)} ELSE CalculateBackoff(n) : h \in RetryAfters}

CallInit ==
  /\ calling = FALSE /\ attempt = 0 /\ waiting = FALSE /\ delay = 0 /\ answer = "none"
  /\ sends = 0 /\ executed = 0

StartCall ==
  /\ calling' = TRUE /\ attempt' = 0 /\ waiting' = FALSE /\ delay' = 0 /\ answer' = "none"
  /\ sends' = 0 /\ executed' = 0

(* Mutant of Finish: giving up is no error. *)
Finish_Swallowed(how) ==
  /\ calling' = FALSE /\ waiting' = FALSE /\ delay' = 0 /\ UNCHANGED attempt
  /\ answer' = IF how = "exhausted" THEN "ok" ELSE how

Finish(how) ==
  /\ calling' = FALSE /\ waiting' = FALSE /\ delay' = 0 /\ UNCHANGED attempt
  /\ answer' = how

(* Mutant of Attempt: the check for the last attempt is one too late. *)
Attempt_OneMore(reply, effect) ==
  /\ calling /\ ~waiting /\ effect \in Executions(reply)
  /\ sends' = sends + 1 /\ executed' = executed + effect
  /\ IF ~IsRetryable(reply) THEN Finish(reply)
     ELSE IF attempt > MaxRetries THEN Finish("exhausted")
     ELSE waiting' = TRUE /\ delay' \in Delays(reply, attempt) /\ UNCHANGED <<calling, attempt, answer>>

(* One request, and what the loop makes of its answer. *)
Attempt(reply, effect) ==
  /\ calling /\ ~waiting /\ effect \in Executions(reply)
  /\ sends' = sends + 1 /\ executed' = executed + effect
  /\ IF ~IsRetryable(reply) THEN Finish(reply)
     ELSE IF attempt >= MaxRetries THEN Finish("exhausted")
     ELSE waiting' = TRUE /\ delay' \in Delays(reply, attempt) /\ UNCHANGED <<calling, attempt, answer>>

TimerFires ==
  /\ waiting /\ waiting' = FALSE /\ delay' = 0 /\ attempt' = attempt + 1
  /\ UNCHANGED <<calling, answer, sends, executed>>

(* The context is cancelled while the loop waits. *)
Cancel == waiting /\ Finish("cancelled") /\ UNCHANGED <<sends, executed>>

(* The caller's locals are gone. *)
NoCall ==
  /\ calling' = FALSE /\ attempt' = 0 /\ waiting' = FALSE /\ delay' = 0 /\ answer' = "none"
  /\ sends' = 0 /\ executed' = 0

CallTypeOK ==
  /\ calling \in BOOLEAN /\ attempt \in 0 .. MaxRetries /\ waiting \in BOOLEAN /\ delay \in Nat
  /\ answer \in Answers /\ sends \in Nat /\ executed \in Nat

Call == INSTANCE HttpCall WITH
  Limit <- MaxRetries + 1, open <- calling, sent <- sends, success <- answer = "ok"
=============================================================================
