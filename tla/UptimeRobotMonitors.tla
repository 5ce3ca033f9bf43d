------------------------- MODULE UptimeRobotMonitors -------------------------
(***************************************************************************)
(* The /monitors part of the UptimeRobot account and the client operations *)
(* that internal/uptimerobot/client.go builds on it.  A client operation   *)
(* is the SET of its possible outcomes: what is left in the account, what  *)
(* the caller is told, and whether the outcome needed a fault (a lost      *)
(* response, an error status, a timeout that outlived every retry).        *)
(*                                                                         *)
(* The service itself is external: the model keeps what the client relies  *)
(* on, that an identifier is never reused, that PATCH changes neither type *)
(* nor pause, and (constant Dedupe) whether POST refuses a second monitor  *)
(* of the same name and URL with 409.                                      *)
(*                                                                         *)
(* The client takes every error with "404" in its text for a missing       *)
(* object.  The text of a network error quotes the URL, identifier and     *)
(* port included, and that of an error status quotes the body: Confusable  *)
(* are the identifiers in whose requests this can happen, be it that they  *)
(* contain the digits or that a port or a body does.                       *)
(***************************************************************************)
EXTENDS FiniteSets

CONSTANTS
  Ids,          \* identifiers the service can hand out (the account's quota)
  NoId,         \* status.id == ""
  Names,        \* (friendlyName, url) pairs
  Types,        \* monitor types
  Dedupe,       \* the service answers 409 to a second POST of a name and URL
  Confusable    \* identifiers whose errors can have "404" in their text

ASSUME IdsAssumption == NoId \notin Ids
ASSUME DedupeAssumption == Dedupe \in BOOLEAN
ASSUME ConfusableAssumption == Confusable \subseteq Ids
ASSUME NonEmptyAssumption == Names # {} /\ Types # {}

AnyId == Ids \cup {NoId}

(* One monitor of the account: never created yet, live, or deleted. *)
RemoteMonitor ==
  [state : {"free", "live", "gone"}, name : Names, type : Types, paused : BOOLEAN]

Account == [Ids -> RemoteMonitor]

Live(r, i) == i \in Ids /\ r[i].state = "live"

Outcomes == [remote : Account, res : {"ok", "err", "notFound"}, id : AnyId, fault : BOOLEAN]

Outcome(r, res, i) == [remote |-> r, res |-> res, id |-> i, fault |-> FALSE]

(* Mutant of Ok: the response has no id, and its zero value is used. *)
Ok_ZeroId(r, i) == Outcome(r, "ok", 0)

Ok(r, i) == Outcome(r, "ok", i)

Err(r) == Outcome(r, "err", NoId)

(* The same outcomes, reached only through a fault. *)
ByFault(outs) == {[o EXCEPT !.fault = TRUE] : o \in outs}

(* Outcomes of an error that is read as a missing monitor. *)
Misread(i, outs) == IF i \in Confusable THEN ByFault(outs) ELSE {}

(* POST /monitors as the service executes it, with a fresh identifier.    *)
Post(r, i, n, ty) ==
  [r EXCEPT ![i] = [state |-> "live", name |-> n, type |-> ty, paused |-> FALSE]]

Free(r) == {i \in Ids : r[i].state = "free"}

Used(r) == Ids \ Free(r)

NextId(r) == CHOOSE i \in Free(r) : TRUE

SameName(r, n) == {i \in Ids : r[i].state = "live" /\ r[i].name = n}

Gone(r, i) == [r EXCEPT ![i].state = "gone"]
-----------------------------------------------------------------------------
(* CreateMonitor's answer to 409: the identifier in the body when there is *)
(* one, else the only monitor of the list with this name and URL, else the *)
(* error.  The type of the monitor it resolves to is not looked at.        *)
Resolve409(r, n) ==
  {Ok(r, i) : i \in SameName(r, n)}
    \cup (IF Cardinality(SameName(r, n)) = 1 THEN {} ELSE {Err(r)})

(* One POST whose answer arrives. *)
PostOnce(r, n, ty) ==
  IF Dedupe /\ SameName(r, n) # {} THEN Resolve409(r, n)
  ELSE IF Free(r) = {} THEN {Err(r)}
  ELSE {Ok(Post(r, NextId(r), n, ty), NextId(r))}

(* doWithRetry also resends a POST whose response was lost, so the monitor *)
(* it already made is met a second time, or stays behind an error.         *)
CreateMonitor(r, n, ty) ==
  LET once == PostOnce(r, n, ty)
      lost == {o.remote : o \in {p \in once : p.res = "ok"}}
  IN once \cup ByFault({Err(r)}
                       \cup {Err(s) : s \in lost}
                       \cup UNION {PostOnce(s, n, ty) : s \in lost})

(* Mutant of GetMonitor: a 404 is an error like any other. *)
GetMonitor_404IsError(r, i) ==
  (IF Live(r, i) THEN {Ok(r, i)} ELSE {Err(r)}) \cup ByFault({Err(r)})

(* GetMonitor reports not found for every error whose text has "404". *)
GetMonitor(r, i) ==
  (IF Live(r, i) THEN {Ok(r, i)} ELSE {Outcome(r, "notFound", NoId)})
    \cup ByFault({Err(r)}) \cup Misread(i, {Outcome(r, "notFound", NoId)})

(* Mutant of DeleteMonitor: what is already gone cannot be deleted. *)
DeleteMonitor_404IsError(r, i) ==
  IF Live(r, i) THEN {Ok(Gone(r, i), i)} \cup ByFault({Err(r), Err(Gone(r, i))}) ELSE {Err(r)}

(* DeleteMonitor: an error status with "404" in its text is success; after *)
(* any other error the monitor is looked up, and its absence is success    *)
(* too.                                                                    *)
DeleteMonitor(r, i) ==
  IF Live(r, i)
  THEN {Ok(Gone(r, i), i)} \cup ByFault({Err(r), Err(Gone(r, i))}) \cup Misread(i, {Ok(r, i)})
  ELSE {Ok(r, NoId)} \cup ByFault({Err(r)})

(* Mutant of Recreate: a failed PATCH is taken for a missing monitor. *)
Recreate_Unchecked(r, i, n, ty) ==
  IF Live(r, i) THEN ByFault(CreateMonitor(r, n, ty)) ELSE CreateMonitor(r, n, ty)

(* EditMonitor: PATCH, and when that fails and GET then says not found, a  *)
(* new monitor by CreateMonitor.                                           *)
Recreate(r, i, n, ty) ==
  IF ~Live(r, i) THEN CreateMonitor(r, n, ty)
  ELSE Misread(i, CreateMonitor(r, n, ty))

EditMonitor(r, i, n, ty) ==
  (IF Live(r, i) THEN {Ok([r EXCEPT ![i].name = n], i)} ELSE {})
    \cup Recreate(r, i, n, ty)
    \cup ByFault({Err(r)} \cup (IF Live(r, i) THEN {Err([r EXCEPT ![i].name = n])} ELSE {}))

(* PauseMonitor and StartMonitor: POST /monitors/{id}/pause and /start. *)
SetPaused(r, i, p) ==
  IF Live(r, i)
  THEN LET done == [r EXCEPT ![i].paused = p] IN {Ok(done, i)} \cup ByFault({Err(r), Err(done)})
  ELSE {Err(r)}
=============================================================================
