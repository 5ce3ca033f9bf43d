--------------------------- MODULE DefaultObjects ---------------------------
(***************************************************************************)
(* The resources of a kind that has a default, Account or Contact          *)
(* (api/v1alpha1/account_webhook.go, contact_webhook.go): the API server's *)
(* objects, the manager's cached copies, and the requests the validating   *)
(* webhook has allowed that the API server has still to store.  The        *)
(* webhook looks into the cache, and the request is stored later.          *)
(***************************************************************************)
EXTENDS Naturals, FiniteSets

CONSTANTS
  Names,
  Specs,    \* records with a field default
  None

VARIABLES
  objs,     \* name -> specification or None
  cache,    \* the cached copies
  synced,   \* the names whose cached copy has the server's version
  allowed,  \* name -> the request the webhook has allowed, or None
  made,     \* the names created anew since the last delivery
  raced     \* history: a default was stored after a look at an old list

objectVars == <<objs, cache, synced, allowed, made, raced>>

Request == [spec : Specs, fresh : BOOLEAN]

Start(initial) ==
  /\ objs = initial /\ cache = initial /\ synced = Names
  /\ allowed = [n \in Names |-> None] /\ made = {} /\ raced = FALSE

Live == {n \in Names : objs[n] # None}

DefaultsIn(list) == {n \in Names : list[n] # None /\ list[n].default}
-----------------------------------------------------------------------------
(* Mutant of ValidateUniqueDefault: updates are not validated. *)
ValidateUniqueDefault_CreateOnly(n, s) ==
  cache[n] = None /\ s.default => DefaultsIn(cache) \ {n} = {}

(* validateUniqueDefault: the other objects of the cached list. *)
ValidateUniqueDefault(n, s) == s.default => DefaultsIn(cache) \ {n} = {}

(* ValidateCreate and ValidateUpdate. *)
Validate(n, s) ==
  /\ allowed[n] = None /\ objs[n] # s /\ ValidateUniqueDefault(n, s)
  /\ allowed' = [allowed EXCEPT ![n] = [spec |-> s, fresh |-> DefaultsIn(cache) = DefaultsIn(objs)]]
  /\ UNCHANGED <<objs, cache, synced, made, raced>>

(* The API server stores what was allowed. *)
Store(n) ==
  /\ allowed[n] # None
  /\ objs' = [objs EXCEPT ![n] = allowed[n].spec] /\ synced' = synced \ {n}
  /\ allowed' = [m \in Names |-> IF m = n \/ allowed[m] = None THEN None
                                 ELSE [spec |-> allowed[m].spec, fresh |-> FALSE]]
  /\ made' = (IF objs[n] = None THEN made \cup {n} ELSE made)
  /\ raced' = (raced \/ (allowed[n].spec.default /\ ~allowed[n].fresh))
  /\ UNCHANGED cache

(* ValidateDelete allows everything. *)
Remove(n) ==
  /\ objs[n] # None
  /\ objs' = [objs EXCEPT ![n] = None] /\ synced' = synced \ {n}
  /\ allowed' = [allowed EXCEPT ![n] = None] /\ made' = made \ {n}
  /\ UNCHANGED <<cache, raced>>

(* A status update gives the object another version. *)
NewVersion(n) == synced' = synced \ {n} /\ UNCHANGED <<objs, cache, allowed, made, raced>>

(* The watch brings the cached copy up to date.  A new specification or a  *)
(* new object is an event.                                                 *)
Event(n) == cache[n] # objs[n] \/ n \in made

Deliver(n) ==
  /\ n \notin synced /\ synced' = synced \cup {n} /\ made' = made \ {n}
  /\ cache' = [cache EXCEPT ![n] = objs[n]] /\ UNCHANGED <<objs, allowed, raced>>

Resync == cache' = objs /\ synced' = Names /\ made' = {} /\ UNCHANGED <<objs, allowed, raced>>

(* All that can happen to the objects of the kind. *)
Change ==
  \/ \E n \in Names : \/ \E s \in Specs : Validate(n, s)
                      \/ Store(n) \/ Remove(n) \/ NewVersion(n) \/ Deliver(n)
  \/ Resync

(* GetAccount and GetContact: by name, or the one default of a list; None  *)
(* stands for their errors.                                                *)
Lookup(list, name) ==
  IF name # None THEN IF list[name] # None THEN name ELSE None
  ELSE IF Cardinality(DefaultsIn(list)) = 1 THEN CHOOSE n \in DefaultsIn(list) : TRUE ELSE None
-----------------------------------------------------------------------------
ObjectsOK ==
  /\ objs \in [Names -> Specs \cup {None}] /\ cache \in [Names -> Specs \cup {None}]
  /\ synced \subseteq Names /\ allowed \in [Names -> Request \cup {None}] 
  /\ made \subseteq Names /\ raced \in BOOLEAN

AtMostOneDefault == raced \/ \A m, n \in DefaultsIn(objs) : m = n
=============================================================================
