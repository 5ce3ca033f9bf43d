------------------------ MODULE DefaultObjects_proofs ------------------------
(***************************************************************************)
(* At most one default: what the validating webhook guarantees for any     *)
(* names and specifications.  A request that was judged by a list with the *)
(* server's defaults, and has seen no other request stored since, is the   *)
(* only one that may name a default; once one is stored that was judged    *)
(* otherwise, nothing is promised any more.                                *)
(***************************************************************************)
EXTENDS DefaultObjects, FiniteSetTheorems, TLAPS

ShapeInv ==
  /\ objs = [n \in Names |-> objs[n]] /\ allowed = [n \in Names |-> allowed[n]]
  /\ \A n \in Names : allowed[n] # None =>
       allowed[n] = [spec |-> allowed[n].spec, fresh |-> allowed[n].fresh]

(* The defaults of the server, and those of the requests that count. *)
OneDefault == \A m, n \in DefaultsIn(objs) : m = n

FreshInv ==
  \A n \in Names : allowed[n] # None /\ allowed[n].fresh /\ allowed[n].spec.default =>
    DefaultsIn(objs) \subseteq {n}

DefaultsInv == ShapeInv /\ (raced \/ (OneDefault /\ FreshInv))

LEMMA StartInv ==
  ASSUME NEW initial, Start(initial), initial = [n \in Names |-> None]
  PROVE  DefaultsInv
BY DEF Start, DefaultsInv, ShapeInv, OneDefault, FreshInv, DefaultsIn

(* Only a store adds a default. *)
LEMMA ValidateKeeps ==
  ASSUME DefaultsInv, NEW n \in Names, NEW s, Validate(n, s)
  PROVE  DefaultsInv'
<1>. DEFINE q == [spec |-> s, fresh |-> DefaultsIn(cache) = DefaultsIn(objs)]
<1>1. allowed' = [allowed EXCEPT ![n] = q] /\ objs' = objs /\ raced' = raced BY DEF Validate
<1>2. allowed'[n] = q BY <1>1 DEF DefaultsInv, ShapeInv
<1>3. \A m \in Names : m # n => allowed'[m] = allowed[m] BY <1>1 DEF DefaultsInv, ShapeInv
<1>4. ShapeInv' BY <1>1, <1>2, <1>3 DEF DefaultsInv, ShapeInv
<1>5. DefaultsIn(objs)' = DefaultsIn(objs) BY <1>1 DEF DefaultsIn
<1>6. q.fresh /\ q.spec.default => DefaultsIn(objs) \subseteq {n} BY DEF Validate, ValidateUniqueDefault
<1>7. ASSUME ~raced PROVE OneDefault' /\ FreshInv'
  <2>1. OneDefault' BY <1>5, <1>7 DEF DefaultsInv, OneDefault
  <2>2. ASSUME NEW m \in Names, allowed'[m] # None, allowed'[m].fresh, allowed'[m].spec.default
        PROVE  DefaultsIn(objs)' \subseteq {m}
    <3>1. CASE m = n BY <1>2, <1>5, <1>6, <2>2, <3>1
    <3>2. CASE m # n BY <1>3, <1>5, <1>7, <2>2, <3>2 DEF DefaultsInv, FreshInv
    <3>. QED BY <3>1, <3>2
  <2>. QED BY <2>1, <2>2 DEF FreshInv
<1>. QED BY <1>1, <1>4, <1>7 DEF DefaultsInv

LEMMA StoreKeeps ==
  ASSUME DefaultsInv, NEW n \in Names, Store(n)
  PROVE  DefaultsInv'
<1>. DEFINE s == allowed[n].spec
<1>1. objs' = [objs EXCEPT ![n] = s] BY DEF Store
<1>2. allowed' = [m \in Names |-> IF m = n \/ allowed[m] = None THEN None
                                  ELSE [spec |-> allowed[m].spec, fresh |-> FALSE]]
  BY DEF Store
<1>3. \A m \in Names : allowed'[m] # None =>
        /\ allowed[m] # None
        /\ allowed'[m] = [spec |-> allowed[m].spec, fresh |-> FALSE]
  BY <1>2
<1>4. ShapeInv' BY <1>1, <1>2, <1>3 DEF DefaultsInv, ShapeInv
<1>5. \A m \in Names : objs'[m] = IF m = n THEN s ELSE objs[m] BY <1>1 DEF DefaultsInv, ShapeInv
<1>6. ASSUME ~raced' PROVE OneDefault' /\ FreshInv'
  <2>1. ~raced /\ (s.default => allowed[n].fresh) /\ allowed[n] # None BY <1>6 DEF Store
  <2>4. FreshInv'
    <3>1. ASSUME NEW m \in Names, allowed'[m] # None PROVE ~allowed'[m].fresh
      <4>1. allowed'[m] = [spec |-> allowed[m].spec, fresh |-> FALSE] BY <1>3, <3>1
      <4>. QED BY <4>1
    <3>. QED BY <3>1 DEF FreshInv
  <2>2. CASE s.default
    <3>1. DefaultsIn(objs) \subseteq {n} BY <2>1, <2>2 DEF DefaultsInv, FreshInv
    <3>2. DefaultsIn(objs)' \subseteq {n} BY <1>5, <3>1 DEF DefaultsIn
    <3>. QED BY <2>4, <3>2 DEF OneDefault
  <2>3. CASE ~s.default
    <3>1. DefaultsIn(objs)' \subseteq DefaultsIn(objs) BY <1>5, <2>3 DEF DefaultsIn
    <3>2. OneDefault BY <2>1 DEF DefaultsInv
    <3>. QED BY <2>4, <3>1, <3>2 DEF OneDefault
  <2>. QED BY <2>2, <2>3
<1>. QED BY <1>4, <1>6 DEF DefaultsInv

LEMMA RemoveKeeps ==
  ASSUME DefaultsInv, NEW n \in Names, Remove(n)
  PROVE  DefaultsInv'
<1>1. objs' = [objs EXCEPT ![n] = None] /\ allowed' = [allowed EXCEPT ![n] = None] /\ raced' = raced
  BY DEF Remove
<1>2. \A m \in Names : /\ objs'[m] = IF m = n THEN None ELSE objs[m]
                       /\ allowed'[m] = IF m = n THEN None ELSE allowed[m]
  BY <1>1 DEF DefaultsInv, ShapeInv
<1>3. ShapeInv' BY <1>1, <1>2 DEF DefaultsInv, ShapeInv
<1>4. DefaultsIn(objs)' \subseteq DefaultsIn(objs) BY <1>2 DEF DefaultsIn
<1>5. raced \/ (OneDefault' /\ FreshInv')
  BY <1>2, <1>4 DEF DefaultsInv, OneDefault, FreshInv
<1>. QED BY <1>1, <1>3, <1>5 DEF DefaultsInv

(* Deliveries, status updates and restarts leave objects and requests. *)
LEMMA RestKeeps ==
  ASSUME DefaultsInv, UNCHANGED <<objs, allowed, raced>>
  PROVE  DefaultsInv'
BY DEF DefaultsInv, ShapeInv, OneDefault, FreshInv, DefaultsIn

(* Whatever happens to the objects of a kind. *)
LEMMA ChangeKeeps ==
  ASSUME DefaultsInv, Change \/ UNCHANGED objectVars
  PROVE  DefaultsInv'
<1>1. CASE Change
  <2>1. CASE Resync BY <2>1, RestKeeps DEF Resync
  <2>2. ASSUME NEW n \in Names, NewVersion(n) \/ Deliver(n) PROVE DefaultsInv'
    BY <2>2, RestKeeps DEF NewVersion, Deliver
  <2>. QED BY <1>1, <2>1, <2>2, ValidateKeeps, StoreKeeps, RemoveKeeps DEF Change
<1>2. CASE UNCHANGED objectVars BY <1>2, RestKeeps DEF objectVars
<1>. QED BY <1>1, <1>2

(* What the invariant says about the defaults. *)
LEMMA InvImpliesOne ==
  ASSUME DefaultsInv
  PROVE  AtMostOneDefault
BY DEF DefaultsInv, OneDefault, AtMostOneDefault
-----------------------------------------------------------------------------
(* The types of the objects of a kind, operator by operator. *)
LEMMA StartTypes ==
  ASSUME NEW initial \in [Names -> Specs \cup {None}], Start(initial)
  PROVE  ObjectsOK
BY DEF Start, ObjectsOK

LEMMA ValidateTypes ==
  ASSUME ObjectsOK, NEW n \in Names, NEW s \in Specs, Validate(n, s)
  PROVE  ObjectsOK'
<1>. DEFINE fresh == DefaultsIn(cache) = DefaultsIn(objs)
<1>1. fresh \in BOOLEAN OBVIOUS
<1>2. allowed' = [allowed EXCEPT ![n] = [spec |-> s, fresh |-> fresh]] BY DEF Validate
<1>3. [spec |-> s, fresh |-> fresh] \in Request BY <1>1 DEF Request
<1>. HIDE DEF fresh
<1>4. allowed' \in [Names -> Request \cup {None}] BY <1>2, <1>3 DEF ObjectsOK
<1>. QED BY <1>4 DEF Validate, ObjectsOK

LEMMA StoreTypes ==
  ASSUME ObjectsOK, NEW n \in Names, Store(n)
  PROVE  ObjectsOK'
<1>1. \A m \in Names : allowed[m] # None => allowed[m] \in Request /\ allowed[m].spec \in Specs
  BY DEF ObjectsOK, Request
<1>2. objs' \in [Names -> Specs \cup {None}] BY <1>1 DEF Store, ObjectsOK
<1>3. allowed' \in [Names -> Request \cup {None}] BY <1>1 DEF Store, Request
<1>4. raced' \in BOOLEAN
  <2>1. raced' = (raced \/ (allowed[n].spec.default /\ ~allowed[n].fresh)) BY DEF Store
  <2>. QED BY <2>1, Zenon
<1>. QED BY <1>2, <1>3, <1>4 DEF Store, ObjectsOK

LEMMA RemoveTypes ==
  ASSUME ObjectsOK, NEW n \in Names, Remove(n)
  PROVE  ObjectsOK'
BY DEF Remove, ObjectsOK

LEMMA RestTypes ==
  ASSUME ObjectsOK,
         \/ Resync \/ UNCHANGED objectVars
         \/ \E n \in Names : NewVersion(n) \/ Deliver(n)
  PROVE  ObjectsOK'
<1>1. CASE Resync BY <1>1 DEF Resync, ObjectsOK
<1>2. CASE UNCHANGED objectVars BY <1>2 DEF objectVars, ObjectsOK
<1>3. ASSUME NEW n \in Names, NewVersion(n) PROVE ObjectsOK' BY <1>3 DEF NewVersion, ObjectsOK
<1>4. ASSUME NEW n \in Names, Deliver(n) PROVE ObjectsOK' BY <1>4 DEF Deliver, ObjectsOK
<1>. QED BY <1>1, <1>2, <1>3, <1>4

(* What is looked up is there, or nothing is: the one default is chosen    *)
(* from a set that is not empty.                                           *)
LEMMA LookupType ==
  ASSUME NEW list, NEW name \in Names \cup {None}
  PROVE  /\ Lookup(list, name) \in Names \cup {None}
         /\ Lookup(list, name) # None => list[Lookup(list, name)] # None
<1>1. CASE name # None BY <1>1 DEF Lookup
<1>2. CASE name = None /\ Cardinality(DefaultsIn(list)) = 1
  <2>1. DefaultsIn(list) # {} BY <1>2, FS_EmptySet
  <2>2. (CHOOSE n \in DefaultsIn(list) : TRUE) \in DefaultsIn(list) BY <2>1
  <2>. QED BY <1>2, <2>2 DEF Lookup, DefaultsIn
<1>3. CASE name = None /\ Cardinality(DefaultsIn(list)) # 1 BY <1>3 DEF Lookup
<1>. QED BY <1>1, <1>2, <1>3
=============================================================================
