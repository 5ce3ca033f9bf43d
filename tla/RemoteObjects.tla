---------------------------- MODULE RemoteObjects ----------------------------
(***************************************************************************)
(* Maintenance windows, monitor groups and integrations of the UptimeRobot *)
(* account, and the client operations on them.  As in UptimeRobotMonitors, *)
(* an operation is the SET of its possible outcomes.  Unlike monitors,     *)
(* these objects have no duplicate check: the service executes every POST. *)
(*                                                                         *)
(* An object's payload is what the controllers send: the fields of the     *)
(* spec, and what they resolve in the cluster, the ids of the referenced   *)
(* monitors or the webhook URL of a secret.                                *)
(***************************************************************************)
EXTENDS FiniteSets

CONSTANTS
  Ids,          \* identifiers the service can hand out (the account's quota)
  NoId,         \* status.id == ""
  Specs,        \* the values of a spec
  Deps,         \* what a reference in the spec resolves to
  NoDep,        \* it resolves to nothing
  Confusable    \* identifiers whose errors can have "404" in their text

ASSUME IdsAssumption == NoId \notin Ids
ASSUME DataAssumption == Specs # {} /\ NoDep \in Deps
ASSUME ConfusableAssumption == Confusable \subseteq Ids

AnyId == Ids \cup {NoId}

Payload == [spec : Specs, ref : Deps]

SomePayload == [spec |-> CHOOSE s \in Specs : TRUE, ref |-> NoDep]

(* One object of the account: never created yet, live, or deleted. *)
RemoteObject == [state : {"free", "live", "gone"}, data : Payload]

Objects == [Ids -> RemoteObject]

Live(r, i) == i \in Ids /\ r[i].state = "live"

Alive(r) == {i \in Ids : r[i].state = "live"}

Free(r) == {i \in Ids : r[i].state = "free"}

NextId(r) == CHOOSE i \in Free(r) : TRUE

Outcomes == [remote : Objects, res : {"ok", "err", "notFound"}, id : AnyId, fault : BOOLEAN]

Outcome(r, res, i) == [remote |-> r, res |-> res, id |-> i, fault |-> FALSE]

(* Mutant of Ok: the response has no id, and its zero value is used. *)
Ok_ZeroId(r, i) == Outcome(r, "ok", 0)

Ok(r, i) == Outcome(r, "ok", i)

Err(r) == Outcome(r, "err", NoId)

(* The same outcomes, reached only through a fault. *)
ByFault(outs) == {[o EXCEPT !.fault = TRUE] : o \in outs}

(* IsNotFound is asked about an error's text, which quotes the URL of a    *)
(* network error and the body of an error status: the digits of an         *)
(* identifier, of a port or in a body can make any error "not found".      *)
Confused(i, outs) == IF i \in Confusable THEN ByFault(outs) ELSE {}

Added(r, i, p) == [r EXCEPT ![i] = [state |-> "live", data |-> p]]

Gone(r, i) == [r EXCEPT ![i].state = "gone"]
-----------------------------------------------------------------------------
(* One POST whose answer arrives. *)
PostOnce(r, p) ==
  IF Free(r) = {} THEN {Err(r)} ELSE {Ok(Added(r, NextId(r), p), NextId(r))}

(* CreateMaintenanceWindow, SpawnGroupInBackend, CreateSlackIntegration: a *)
(* POST whose answer is lost is sent again, and then there are two.        *)
CreateObject(r, p) ==
  LET once == PostOnce(r, p)
      lost == {o.remote : o \in {q \in once : q.res = "ok"}}
  IN once \cup ByFault({Err(r)} \cup {Err(s) : s \in lost}
                       \cup UNION {PostOnce(s, p) : s \in lost})

(* Mutant of UpdateObject: a 404 is an error like any other. *)
UpdateObject_404IsError(r, i, p) ==
  IF Live(r, i) THEN {Ok([r EXCEPT ![i].data = p], i)} ELSE {Err(r)}

(* Mutant of UpdateObject: every failed PATCH is taken for a 404. *)
UpdateObject_AnyErrorIs404(r, i, p) ==
  IF Live(r, i) THEN {Ok([r EXCEPT ![i].data = p], i)} \cup ByFault({Outcome(r, "notFound", NoId)})
                ELSE {Outcome(r, "notFound", NoId)}

(* UpdateMaintenanceWindow and MutateGroupInBackend, and what IsNotFound   *)
(* says of their error.                                                    *)
UpdateObject(r, i, p) ==
  IF ~Live(r, i) THEN {Outcome(r, "notFound", NoId)} \cup ByFault({Err(r)})
  ELSE LET done == [r EXCEPT ![i].data = p] IN
       {Ok(done, i)} \cup ByFault({Err(r), Err(done)})
         \cup Confused(i, {Outcome(r, "notFound", NoId), Outcome(done, "notFound", NoId)})

(* Mutant of DeleteObject: what is already gone cannot be deleted. *)
DeleteObject_404IsError(r, i) ==
  IF Live(r, i) THEN {Ok(Gone(r, i), i)} \cup ByFault({Err(r), Err(Gone(r, i))}) ELSE {Err(r)}

(* DeleteMaintenanceWindow, PurgeGroupFromBackend, DeleteIntegration: an   *)
(* error that IsNotFound recognises is success.                            *)
DeleteObject(r, i) ==
  IF ~Live(r, i) THEN {Ok(r, NoId)} \cup ByFault({Err(r)})
  ELSE {Ok(Gone(r, i), i)} \cup ByFault({Err(r), Err(Gone(r, i))}) \cup Confused(i, {Ok(r, i)})

(* ListIntegrations, searched for one identifier. *)
FindObject(r, i) ==
  {IF Live(r, i) THEN Ok(r, i) ELSE Outcome(r, "notFound", NoId)} \cup ByFault({Err(r)})
=============================================================================
