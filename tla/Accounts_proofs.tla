--------------------------- MODULE Accounts_proofs ---------------------------
(***************************************************************************)
(* At most one default account and one default contact, for any names,     *)
(* secrets and bounds: every step of the two controllers and their users   *)
(* is one of DefaultObjects to the accounts and contacts, or none.  And    *)
(* every variable keeps its type.                                          *)
(***************************************************************************)
EXTENDS Accounts, TLAPS

AP == INSTANCE DefaultObjects_proofs WITH Names <- AccountNames, Specs <- AccountSpecs,
  objs <- accounts, cache <- acache, synced <- asynced, allowed <- aallowed, made <- amade, raced <- araced

CP == INSTANCE DefaultObjects_proofs WITH Names <- ContactNames, Specs <- ContactSpecs,
  objs <- contacts, cache <- ccache, synced <- csynced, allowed <- callowed, made <- cmade, raced <- craced

Inv == AP!DefaultsInv /\ CP!DefaultsInv

(* The operators of Accounts keep what DefaultObjects_proofs shows them to keep. *)
LEMMA AccountOperations ==
  ASSUME AP!DefaultsInv, NEW n \in AccountNames,
         \/ \E s : A!Validate(n, s)
         \/ A!Store(n) \/ A!Remove(n)
  PROVE  AP!DefaultsInv'
<1>1. ASSUME NEW s, A!Validate(n, s) PROVE AP!Validate(n, s)
  BY <1>1 DEF A!Validate, AP!Validate, A!ValidateUniqueDefault, AP!ValidateUniqueDefault,
              A!DefaultsIn, AP!DefaultsIn
<1>2. A!Store(n) => AP!Store(n) BY DEF A!Store, AP!Store
<1>3. A!Remove(n) => AP!Remove(n) BY DEF A!Remove, AP!Remove
<1>4. CASE \E s : A!Validate(n, s) BY <1>1, <1>4, AP!ValidateKeeps
<1>5. CASE A!Store(n) BY <1>2, <1>5, AP!StoreKeeps
<1>6. CASE A!Remove(n) BY <1>3, <1>6, AP!RemoveKeeps
<1>. QED BY <1>4, <1>5, <1>6

LEMMA AccountsKept ==
  ASSUME AP!DefaultsInv, [Next]_vars
  PROVE  AP!DefaultsInv'
<1>. DEFINE Quiet == UNCHANGED <<accounts, aallowed, araced>>
<1>1. CASE Quiet BY <1>1, AP!RestKeeps
<1>2. CASE TakeAccount \/ TakeContact
  BY <1>1, <1>2 DEF TakeAccount, TakeContact, BeginAccount, BeginContact, accountVars
<1>3. CASE AccountStep BY <1>1, <1>3 DEF AccountStep, AskDetails, WriteAccount, A!NewVersion, accountVars
<1>4. CASE ContactStep BY <1>1, <1>4 DEF ContactStep, FindContactID, WriteContact, accountVars
<1>5. CASE AccountFault \/ ContactFault BY <1>1, <1>5 DEF AccountFault, ContactFault, accountVars
<1>6. CASE Stored
  <2>1. ASSUME NEW n \in AccountNames, StoreAccount(n) PROVE AP!DefaultsInv'
    BY <2>1, AccountOperations DEF StoreAccount
  <2>2. ASSUME NEW n \in ContactNames, StoreContact(n) PROVE AP!DefaultsInv'
    BY <1>1, <2>2 DEF StoreContact, accountVars
  <2>. QED BY <1>6, <2>1, <2>2 DEF Stored
<1>7. CASE Delivered
  <2>1. ASSUME NEW n \in AccountNames, DeliverAccount(n) PROVE Quiet BY <2>1 DEF DeliverAccount, A!Deliver
  <2>2. ASSUME NEW n \in ContactNames, DeliverContact(n) PROVE Quiet BY <2>2 DEF DeliverContact, accountVars
  <2>3. DeliverSecret => Quiet BY DEF DeliverSecret, accountVars
  <2>4. Quiet BY <1>7, <2>1, <2>2, <2>3 DEF Delivered
  <2>. QED BY <1>1, <2>4
<1>8. CASE AskAccount BY <1>8, AccountOperations DEF AskAccount
<1>9. CASE AskContact BY <1>1, <1>9 DEF AskContact, accountVars
<1>10. CASE RemoveAccount BY <1>10, AccountOperations DEF RemoveAccount
<1>11. CASE RemoveContact BY <1>1, <1>11 DEF RemoveContact, accountVars
<1>12. CASE EditSecret \/ ServiceChanges BY <1>1, <1>12 DEF EditSecret, ServiceChanges, accountVars
<1>13. CASE Restart BY <1>1, <1>13 DEF Restart, A!Resync
<1>14. CASE UNCHANGED vars BY <1>1, <1>14 DEF vars, accountVars
<1>. QED BY <1>2, <1>3, <1>4, <1>5, <1>6, <1>7, <1>8, <1>9, <1>10, <1>11, <1>12, <1>13, <1>14 DEF Next

(* The operators of Accounts keep what DefaultObjects_proofs shows them to keep. *)
LEMMA ContactOperations ==
  ASSUME CP!DefaultsInv, NEW n \in ContactNames,
         \/ \E s : C!Validate(n, s)
         \/ C!Store(n) \/ C!Remove(n)
  PROVE  CP!DefaultsInv'
<1>1. ASSUME NEW s, C!Validate(n, s) PROVE CP!Validate(n, s)
  BY <1>1 DEF C!Validate, CP!Validate, C!ValidateUniqueDefault, CP!ValidateUniqueDefault,
              C!DefaultsIn, CP!DefaultsIn
<1>2. C!Store(n) => CP!Store(n) BY DEF C!Store, CP!Store
<1>3. C!Remove(n) => CP!Remove(n) BY DEF C!Remove, CP!Remove
<1>4. CASE \E s : C!Validate(n, s) BY <1>1, <1>4, CP!ValidateKeeps
<1>5. CASE C!Store(n) BY <1>2, <1>5, CP!StoreKeeps
<1>6. CASE C!Remove(n) BY <1>3, <1>6, CP!RemoveKeeps
<1>. QED BY <1>4, <1>5, <1>6

LEMMA ContactsKept ==
  ASSUME CP!DefaultsInv, [Next]_vars
  PROVE  CP!DefaultsInv'
<1>. DEFINE Quiet == UNCHANGED <<contacts, callowed, craced>>
<1>1. CASE Quiet BY <1>1, CP!RestKeeps
<1>2. CASE TakeContact \/ TakeAccount
  BY <1>1, <1>2 DEF TakeAccount, TakeContact, BeginAccount, BeginContact, contactVars
<1>3. CASE ContactStep BY <1>1, <1>3 DEF ContactStep, FindContactID, WriteContact, C!NewVersion, contactVars
<1>4. CASE AccountStep BY <1>1, <1>4 DEF AccountStep, AskDetails, WriteAccount, contactVars
<1>5. CASE AccountFault \/ ContactFault BY <1>1, <1>5 DEF AccountFault, ContactFault, contactVars
<1>6. CASE Stored
  <2>1. ASSUME NEW n \in ContactNames, StoreContact(n) PROVE CP!DefaultsInv'
    BY <2>1, ContactOperations DEF StoreContact
  <2>2. ASSUME NEW n \in AccountNames, StoreAccount(n) PROVE CP!DefaultsInv'
    BY <1>1, <2>2 DEF StoreAccount, contactVars
  <2>. QED BY <1>6, <2>1, <2>2 DEF Stored
<1>7. CASE Delivered
  <2>1. ASSUME NEW n \in ContactNames, DeliverContact(n) PROVE Quiet BY <2>1 DEF DeliverContact, C!Deliver
  <2>2. ASSUME NEW n \in AccountNames, DeliverAccount(n) PROVE Quiet BY <2>2 DEF DeliverAccount, contactVars
  <2>3. DeliverSecret => Quiet BY DEF DeliverSecret, contactVars
  <2>4. Quiet BY <1>7, <2>1, <2>2, <2>3 DEF Delivered
  <2>. QED BY <1>1, <2>4
<1>8. CASE AskContact BY <1>8, ContactOperations DEF AskContact
<1>9. CASE AskAccount BY <1>1, <1>9 DEF AskAccount, contactVars
<1>10. CASE RemoveContact BY <1>10, ContactOperations DEF RemoveContact
<1>11. CASE RemoveAccount BY <1>1, <1>11 DEF RemoveAccount, contactVars
<1>12. CASE EditSecret \/ ServiceChanges BY <1>1, <1>12 DEF EditSecret, ServiceChanges, contactVars
<1>13. CASE Restart BY <1>1, <1>13 DEF Restart, C!Resync
<1>14. CASE UNCHANGED vars BY <1>1, <1>14 DEF vars, contactVars
<1>. QED BY <1>2, <1>3, <1>4, <1>5, <1>6, <1>7, <1>8, <1>9, <1>10, <1>11, <1>12, <1>13, <1>14 DEF Next

LEMMA InitInv == Init => Inv
<1>. SUFFICES ASSUME Init PROVE Inv OBVIOUS
<1>1. AP!Start([a \in AccountNames |-> None]) BY DEF Init, A!Start, AP!Start
<1>2. CP!Start([c \in ContactNames |-> None]) BY DEF Init, C!Start, CP!Start
<1>. QED BY <1>1, <1>2, AP!StartInv, CP!StartInv DEF Inv

(* What the webhook's decisions and the stored objects have to do with     *)
(* each other (account_webhook.go, contact_webhook.go).                    *)
THEOREM DecisionsHold == Spec => []Inv
<1>1. Init => Inv BY InitInv
<1>2. Inv /\ [Next]_vars => Inv' BY AccountsKept, ContactsKept DEF Inv
<1>. QED BY <1>1, <1>2, PTL DEF Spec

(* "at most one Account can have spec.isDefault=true"                      *)
(* (account_webhook.go:105), and the same of Contact, for any number of    *)
(* them: as long as no request is stored that was judged by an old list.   *)
THEOREM DefaultsAreUnique == Spec => []UniqueDefaults
<1>1. Inv => UniqueDefaults
  <2>. SUFFICES ASSUME Inv PROVE UniqueDefaults OBVIOUS
  <2>1. AP!AtMostOneDefault BY AP!InvImpliesOne DEF Inv
  <2>2. CP!AtMostOneDefault BY CP!InvImpliesOne DEF Inv
  <2>3. A!DefaultsIn(accounts) = AP!DefaultsIn(accounts) BY DEF A!DefaultsIn, AP!DefaultsIn
  <2>4. C!DefaultsIn(contacts) = CP!DefaultsIn(contacts) BY DEF C!DefaultsIn, CP!DefaultsIn
  <2>5. A!AtMostOneDefault BY <2>1, <2>3 DEF A!AtMostOneDefault, AP!AtMostOneDefault
  <2>6. C!AtMostOneDefault BY <2>2, <2>4 DEF C!AtMostOneDefault, CP!AtMostOneDefault
  <2>. QED BY <2>5, <2>6 DEF UniqueDefaults
<1>. QED BY <1>1, DecisionsHold, PTL
-----------------------------------------------------------------------------
(* The types.  A worker that is not idle works on a name of its kind, and  *)
(* the contacts' one asks the service with the key of an account.          *)
AccountTypes ==
  /\ aready \in [AccountNames -> BOOLEAN] /\ aqueue \subseteq AccountNames /\ awork \in Work
  /\ awork.at # "idle" => awork.name \in AccountNames

ContactTypes ==
  /\ cready \in [ContactNames -> BOOLEAN] /\ cid \in [ContactNames -> Ids \cup {None}]
  /\ cqueue \subseteq ContactNames /\ cwork \in Work
  /\ cwork.at # "idle" => cwork.name \in ContactNames
  /\ cwork.at = "ask" => cwork.account \in AccountNames

ServiceTypes ==
  /\ secrets \in [Secrets -> Contents] /\ scache \in [Secrets -> Contents]
  /\ refused \subseteq Secrets /\ listed \in BOOLEAN

OtherTypes == budget \in 0 .. Budget /\ moved \subseteq ContactNames

TypeInv ==
  /\ A!ObjectsOK /\ C!ObjectsOK
  /\ AccountTypes /\ ContactTypes /\ ServiceTypes /\ OtherTypes

(* What leaves a group of variables alone keeps its types. *)
LEMMA SameTypes ==
  ASSUME TypeInv
  PROVE  /\ UNCHANGED accountVars => A!ObjectsOK'
         /\ UNCHANGED contactVars => C!ObjectsOK'
         /\ UNCHANGED accountSide => AccountTypes'
         /\ UNCHANGED contactSide => ContactTypes'
         /\ UNCHANGED <<secrets, scache, service>> => ServiceTypes'
         /\ UNCHANGED moved => moved' \subseteq ContactNames
         /\ UNCHANGED budget => budget' \in 0 .. Budget
         /\ \A e : Spend(e) => budget' \in 0 .. Budget
<1>1. UNCHANGED accountVars => A!ObjectsOK' BY DEF TypeInv, accountVars, A!ObjectsOK
<1>2. UNCHANGED contactVars => C!ObjectsOK' BY DEF TypeInv, contactVars, C!ObjectsOK
<1>3. UNCHANGED accountSide => AccountTypes' BY DEF TypeInv, accountSide, AccountTypes
<1>4. UNCHANGED contactSide => ContactTypes' BY DEF TypeInv, contactSide, ContactTypes
<1>5. UNCHANGED <<secrets, scache, service>> => ServiceTypes' BY DEF TypeInv, service, ServiceTypes
<1>6. UNCHANGED moved => moved' \subseteq ContactNames BY DEF TypeInv, OtherTypes
<1>7. UNCHANGED budget => budget' \in 0 .. Budget BY DEF TypeInv, OtherTypes
<1>8. \A e : Spend(e) => budget' \in 0 .. Budget BY BudgetAssumption DEF TypeInv, OtherTypes, Spend
<1>. QED BY <1>1, <1>2, <1>3, <1>4, <1>5, <1>6, <1>7, <1>8

(* The operators of the two instances are those of DefaultObjects_proofs. *)
LEMMA AccountObjectTypes ==
  ASSUME A!ObjectsOK,
         \/ A!Resync
         \/ \E n \in AccountNames : \/ \E s \in AccountSpecs : A!Validate(n, s)
                                    \/ A!Store(n) \/ A!Remove(n) \/ A!NewVersion(n) \/ A!Deliver(n)
  PROVE  A!ObjectsOK'
<1>1. AP!ObjectsOK BY DEF A!ObjectsOK, AP!ObjectsOK, A!Request, AP!Request
<1>2. AP!ObjectsOK' => A!ObjectsOK' BY DEF A!ObjectsOK, AP!ObjectsOK, A!Request, AP!Request
<1>3. CASE A!Resync
  <2>1. AP!Resync BY <1>3 DEF A!Resync, AP!Resync
  <2>. QED BY <1>1, <1>2, <2>1, AP!RestTypes
<1>4. ASSUME NEW n \in AccountNames, NEW s \in AccountSpecs, A!Validate(n, s) PROVE A!ObjectsOK'
  <2>1. AP!Validate(n, s)
    BY <1>4 DEF A!Validate, AP!Validate, A!ValidateUniqueDefault, AP!ValidateUniqueDefault,
                A!DefaultsIn, AP!DefaultsIn
  <2>. QED BY <1>1, <1>2, <2>1, AP!ValidateTypes
<1>5. ASSUME NEW n \in AccountNames, A!Store(n) PROVE A!ObjectsOK'
  <2>1. AP!Store(n) BY <1>5 DEF A!Store, AP!Store
  <2>. QED BY <1>1, <1>2, <2>1, AP!StoreTypes
<1>6. ASSUME NEW n \in AccountNames, A!Remove(n) PROVE A!ObjectsOK'
  <2>1. AP!Remove(n) BY <1>6 DEF A!Remove, AP!Remove
  <2>. QED BY <1>1, <1>2, <2>1, AP!RemoveTypes
<1>7. ASSUME NEW n \in AccountNames, A!NewVersion(n) \/ A!Deliver(n) PROVE A!ObjectsOK'
  <2>1. AP!NewVersion(n) \/ AP!Deliver(n)
    BY <1>7 DEF A!NewVersion, AP!NewVersion, A!Deliver, AP!Deliver
  <2>. QED BY <1>1, <1>2, <2>1, AP!RestTypes
<1>. QED BY <1>3, <1>4, <1>5, <1>6, <1>7

LEMMA ContactObjectTypes ==
  ASSUME C!ObjectsOK,
         \/ C!Resync
         \/ \E n \in ContactNames : \/ \E s \in ContactSpecs : C!Validate(n, s)
                                    \/ C!Store(n) \/ C!Remove(n) \/ C!NewVersion(n) \/ C!Deliver(n)
  PROVE  C!ObjectsOK'
<1>1. CP!ObjectsOK BY DEF C!ObjectsOK, CP!ObjectsOK, C!Request, CP!Request
<1>2. CP!ObjectsOK' => C!ObjectsOK' BY DEF C!ObjectsOK, CP!ObjectsOK, C!Request, CP!Request
<1>3. CASE C!Resync
  <2>1. CP!Resync BY <1>3 DEF C!Resync, CP!Resync
  <2>. QED BY <1>1, <1>2, <2>1, CP!RestTypes
<1>4. ASSUME NEW n \in ContactNames, NEW s \in ContactSpecs, C!Validate(n, s) PROVE C!ObjectsOK'
  <2>1. CP!Validate(n, s)
    BY <1>4 DEF C!Validate, CP!Validate, C!ValidateUniqueDefault, CP!ValidateUniqueDefault,
                C!DefaultsIn, CP!DefaultsIn
  <2>. QED BY <1>1, <1>2, <2>1, CP!ValidateTypes
<1>5. ASSUME NEW n \in ContactNames, C!Store(n) PROVE C!ObjectsOK'
  <2>1. CP!Store(n) BY <1>5 DEF C!Store, CP!Store
  <2>. QED BY <1>1, <1>2, <2>1, CP!StoreTypes
<1>6. ASSUME NEW n \in ContactNames, C!Remove(n) PROVE C!ObjectsOK'
  <2>1. CP!Remove(n) BY <1>6 DEF C!Remove, CP!Remove
  <2>. QED BY <1>1, <1>2, <2>1, CP!RemoveTypes
<1>7. ASSUME NEW n \in ContactNames, C!NewVersion(n) \/ C!Deliver(n) PROVE C!ObjectsOK'
  <2>1. CP!NewVersion(n) \/ CP!Deliver(n)
    BY <1>7 DEF C!NewVersion, CP!NewVersion, C!Deliver, CP!Deliver
  <2>. QED BY <1>1, <1>2, <2>1, CP!RestTypes
<1>. QED BY <1>3, <1>4, <1>5, <1>6, <1>7

LEMMA AccountLookup ==
  ASSUME NEW list, NEW name \in AccountNames \cup {None}
  PROVE  /\ A!Lookup(list, name) \in AccountNames \cup {None}
         /\ A!Lookup(list, name) # None => list[A!Lookup(list, name)] # None
<1>1. /\ AP!Lookup(list, name) \in AccountNames \cup {None}
      /\ AP!Lookup(list, name) # None => list[AP!Lookup(list, name)] # None
  BY AP!LookupType
<1>. QED BY <1>1 DEF A!Lookup, AP!Lookup, A!DefaultsIn, AP!DefaultsIn

LEMMA IdleIsWork == Idle \in Work /\ Idle.at = "idle"
BY DEF Idle, Work

LEMMA WorkFields ==
  ASSUME NEW w \in Work
  PROVE  /\ w.at \in {"idle", "ask", "write"} /\ w.name \in AccountNames \cup ContactNames \cup {None}
         /\ w.ok \in BOOLEAN /\ w.account \in AccountNames \cup {None} /\ w.id \in Ids \cup {None}
         /\ [w EXCEPT !.at = "write"] \in Work
         /\ \A ok \in BOOLEAN : [w EXCEPT !.at = "write", !.ok = ok] \in Work
         /\ \A ok \in BOOLEAN, id \in Ids \cup {None} :
              [w EXCEPT !.at = "write", !.ok = ok, !.id = id] \in Work
BY DEF Work

(* A copy that is no longer current is the same copy. *)
LEMMA TouchTypes ==
  ASSUME NEW w \in Work, NEW n
  PROVE  /\ Touch(w, n) \in Work /\ Touch(w, n).at = w.at /\ Touch(w, n).name = w.name
         /\ Touch(w, n).account = w.account
<1>. DEFINE cur == w.cur /\ w.name # n
<1>1. cur \in BOOLEAN BY Zenon
<1>2. Touch(w, n) = [w EXCEPT !.cur = cur] BY DEF Touch
<1>. HIDE DEF cur
<1>. QED BY <1>1, <1>2 DEF Work

LEMMA OutdatedType == \A accs, conts : Outdated(accs, conts) \subseteq ContactNames
BY DEF Outdated
-----------------------------------------------------------------------------
(* The worker of accounts. *)
LEMMA BeginAccountTypes ==
  ASSUME TypeInv, NEW a \in AccountNames, BeginAccount(a)
  PROVE  TypeInv'
<1>1. AccountTypes'
  <2>1. aready' = aready /\ aqueue' = aqueue \ {a} BY DEF BeginAccount
  <2>2. CASE acache[a] = None
    BY <2>1, <2>2, IdleIsWork DEF BeginAccount, TypeInv, AccountTypes
  <2>3. CASE acache[a] # None
    <3>. DEFINE at == IF HasKey(a) THEN "ask" ELSE "write"
                cur == a \in asynced
    <3>1. acache[a].secret \in Secrets BY <2>3 DEF TypeInv, A!ObjectsOK, AccountSpecs
    <3>2. at \in {"ask", "write"} /\ cur \in BOOLEAN OBVIOUS
    <3>3. awork' = [Idle EXCEPT !.at = at, !.name = a, !.cur = cur, !.secret = acache[a].secret]
      BY <2>3 DEF BeginAccount
    <3>. HIDE DEF at, cur
    <3>4. awork' \in Work /\ awork'.name = a BY <3>1, <3>2, <3>3 DEF Idle, Work
    <3>. QED BY <2>1, <3>4 DEF TypeInv, AccountTypes
  <2>. QED BY <2>2, <2>3
<1>. QED BY <1>1, SameTypes DEF BeginAccount, TypeInv, OtherTypes

LEMMA AccountStepTypes ==
  ASSUME TypeInv, AccountStep
  PROVE  TypeInv'
<1>1. awork \in Work /\ (awork.at # "idle" => awork.name \in AccountNames)
      /\ aready \in [AccountNames -> BOOLEAN] /\ aqueue \subseteq AccountNames
  BY DEF TypeInv, AccountTypes
<1>2. CASE AskDetails
  <2>. DEFINE ok == awork.secret \notin refused
  <2>1. ok \in BOOLEAN /\ awork' = [awork EXCEPT !.at = "write", !.ok = ok] /\ awork.at = "ask"
        /\ UNCHANGED <<aready, aqueue>>
    BY <1>2 DEF AskDetails
  <2>. HIDE DEF ok
  <2>2. awork' \in Work /\ awork'.name = awork.name BY <1>1, <2>1, WorkFields DEF Work
  <2>3. AccountTypes' BY <1>1, <2>1, <2>2 DEF AccountTypes
  <2>. QED BY <1>2, <2>3, SameTypes DEF AskDetails, TypeInv, OtherTypes
<1>3. CASE WriteAccount
  <2>1. awork.name \in AccountNames /\ awork.ok \in BOOLEAN /\ awork' = Idle
    BY <1>1, <1>3, WorkFields DEF WriteAccount
  <2>2. aready' \in [AccountNames -> BOOLEAN] /\ aqueue' \subseteq AccountNames
    BY <1>1, <1>3, <2>1 DEF WriteAccount
  <2>3. AccountTypes' BY <2>1, <2>2, IdleIsWork DEF AccountTypes
  <2>4. A!ObjectsOK'
    <3>1. A!NewVersion(awork.name) => A!ObjectsOK' BY <2>1, AccountObjectTypes DEF TypeInv
    <3>. QED BY <1>3, <3>1, SameTypes DEF WriteAccount
  <2>. QED BY <1>3, <2>3, <2>4, SameTypes DEF WriteAccount, TypeInv, OtherTypes
<1>. QED BY <1>2, <1>3 DEF AccountStep

(* The worker of contacts. *)
LEMMA BeginContactTypes ==
  ASSUME TypeInv, NEW c \in ContactNames, BeginContact(c)
  PROVE  TypeInv'
<1>. DEFINE i == ccache[c]
            a == A!Lookup(acache, i.account)
            cur == c \in csynced
            read == [Idle EXCEPT !.at = "write", !.name = c, !.cur = cur, !.account = a, !.id = cid[c]]
<1>1. UNCHANGED <<cready, cid>> /\ cqueue' = cqueue \ {c} /\ moved' \in {moved \cup {c}, moved}
  BY DEF BeginContact
<1>2. cid[c] \in Ids \cup {None} /\ cur \in BOOLEAN BY DEF TypeInv, ContactTypes
<1>3. cwork' = IF i = None THEN Idle
               ELSE IF a = None \/ ~HasKey(a) THEN read
               ELSE IF cid[c] # None THEN [read EXCEPT !.ok = TRUE]
               ELSE IF i.by = "id" THEN [read EXCEPT !.ok = TRUE, !.id = <<"id", a>>]
               ELSE [read EXCEPT !.at = "ask", !.secret = acache[a].secret]
  BY DEF BeginContact
<1>4. CASE i = None
  <2>1. cwork' = Idle BY <1>3, <1>4
  <2>2. ContactTypes' BY <1>1, <2>1, IdleIsWork DEF TypeInv, ContactTypes
  <2>. QED BY <1>1, <2>2, SameTypes DEF BeginContact, TypeInv, OtherTypes
<1>5. CASE i # None
  <2>1. i \in ContactSpecs BY <1>5 DEF TypeInv, C!ObjectsOK
  <2>2. a \in AccountNames \cup {None} /\ (a # None => acache[a] # None)
    <3>1. i.account \in AccountNames \cup {None} BY <2>1 DEF ContactSpecs
    <3>. HIDE DEF i
    <3>. QED BY <3>1, AccountLookup
  <2>. HIDE DEF i, a, cur
  <2>3. read \in Work /\ read.name = c /\ read.at = "write" BY <1>2, <2>2 DEF Idle, Work
  <2>. HIDE DEF read
  <2>4. /\ cwork' \in Work /\ cwork'.name = c /\ cwork'.at \in {"ask", "write"}
        /\ cwork'.at = "ask" => cwork'.account \in AccountNames
    <3>1. CASE cwork' = read BY <2>3, <3>1
    <3>2. CASE cwork' = [read EXCEPT !.ok = TRUE] BY <2>3, <3>2 DEF Work
    <3>3. CASE a # None /\ cwork' = [read EXCEPT !.ok = TRUE, !.id = <<"id", a>>]
      <4>1. <<"id", a>> \in Ids BY <2>2, <3>3 DEF Ids
      <4>. QED BY <2>3, <3>3, <4>1 DEF Work
    <3>4. CASE a # None /\ cwork' = [read EXCEPT !.at = "ask", !.secret = acache[a].secret]
      <4>1. a \in AccountNames /\ acache[a] \in AccountSpecs
        BY <2>2, <3>4 DEF TypeInv, A!ObjectsOK
      <4>2. acache[a].secret \in Secrets BY <4>1 DEF AccountSpecs
      <4>3. read.account = a BY DEF read, Idle
      <4>. QED BY <2>3, <3>4, <4>1, <4>2, <4>3 DEF Work
    <3>. QED BY <1>3, <1>5, <3>1, <3>2, <3>3, <3>4
  <2>5. ContactTypes' BY <1>1, <2>4 DEF TypeInv, ContactTypes
  <2>. QED BY <1>1, <2>5, SameTypes DEF BeginContact, TypeInv, OtherTypes
<1>. QED BY <1>4, <1>5

LEMMA ContactStepTypes ==
  ASSUME TypeInv, ContactStep
  PROVE  TypeInv'
<1>1. /\ cwork \in Work /\ (cwork.at # "idle" => cwork.name \in ContactNames)
      /\ (cwork.at = "ask" => cwork.account \in AccountNames)
      /\ cready \in [ContactNames -> BOOLEAN] /\ cid \in [ContactNames -> Ids \cup {None}]
      /\ cqueue \subseteq ContactNames
  BY DEF TypeInv, ContactTypes
<1>2. CASE FindContactID
  <2>. DEFINE found == listed /\ cwork.secret \notin refused
              id == IF found THEN <<"name", cwork.account>> ELSE None
  <2>1. cwork.at = "ask" /\ cwork' = [cwork EXCEPT !.at = "write", !.ok = found, !.id = id]
        /\ UNCHANGED <<cready, cid, cqueue>>
    BY <1>2 DEF FindContactID
  <2>2. found \in BOOLEAN BY Zenon
  <2>3. id \in Ids \cup {None} BY <1>1, <2>1 DEF Ids
  <2>. HIDE DEF found, id
  <2>4. cwork' \in Work /\ cwork'.name = cwork.name /\ cwork'.at = "write"
    BY <1>1, <2>1, <2>2, <2>3, WorkFields DEF Work
  <2>5. ContactTypes' BY <1>1, <2>1, <2>4 DEF ContactTypes
  <2>. QED BY <1>2, <2>5, SameTypes DEF FindContactID, TypeInv, OtherTypes
<1>3. CASE WriteContact
  <2>1. /\ cwork.name \in ContactNames /\ cwork.ok \in BOOLEAN /\ cwork.id \in Ids \cup {None}
        /\ cwork' = Idle
    BY <1>1, <1>3, WorkFields DEF WriteContact
  <2>2. /\ cready' \in [ContactNames -> BOOLEAN] /\ cid' \in [ContactNames -> Ids \cup {None}]
        /\ cqueue' \subseteq ContactNames
    BY <1>1, <1>3, <2>1 DEF WriteContact
  <2>3. ContactTypes' BY <2>1, <2>2, IdleIsWork DEF ContactTypes
  <2>4. C!ObjectsOK'
    <3>1. C!NewVersion(cwork.name) => C!ObjectsOK' BY <2>1, ContactObjectTypes DEF TypeInv
    <3>. QED BY <1>3, <3>1, SameTypes DEF WriteContact
  <2>. QED BY <1>3, <2>3, <2>4, SameTypes DEF WriteContact, TypeInv, OtherTypes
<1>. QED BY <1>2, <1>3 DEF ContactStep

LEMMA FaultTypes ==
  ASSUME TypeInv, AccountFault \/ ContactFault
  PROVE  TypeInv'
<1>1. CASE AccountFault
  <2>1. AccountTypes'
    <3>1. CASE awork.at = "ask" /\ awork' = [awork EXCEPT !.at = "write"] /\ UNCHANGED <<aqueue, aready>>
      <4>1. awork \in Work BY DEF TypeInv, AccountTypes
      <4>2. awork' \in Work /\ awork'.name = awork.name BY <3>1, <4>1, WorkFields DEF Work
      <4>. QED BY <3>1, <4>2 DEF TypeInv, AccountTypes
    <3>2. CASE /\ awork.at = "write" /\ awork' = Idle /\ aqueue' = aqueue \cup {awork.name}
               /\ UNCHANGED aready
      BY <3>2, IdleIsWork DEF TypeInv, AccountTypes
    <3>. QED BY <1>1, <3>1, <3>2 DEF AccountFault
  <2>. QED BY <1>1, <2>1, SameTypes DEF AccountFault, TypeInv, OtherTypes
<1>2. CASE ContactFault
  <2>1. ContactTypes'
    <3>1. CASE cwork.at = "ask" /\ cwork' = [cwork EXCEPT !.at = "write"] /\ UNCHANGED <<cqueue, cready, cid>>
      <4>1. cwork \in Work BY DEF TypeInv, ContactTypes
      <4>2. cwork' \in Work /\ cwork'.name = cwork.name /\ cwork'.at = "write"
        BY <3>1, <4>1, WorkFields DEF Work
      <4>. QED BY <3>1, <4>2 DEF TypeInv, ContactTypes
    <3>2. CASE /\ cwork.at = "write" /\ cwork' = Idle /\ cqueue' = cqueue \cup {cwork.name}
               /\ UNCHANGED <<cready, cid>>
      BY <3>2, IdleIsWork DEF TypeInv, ContactTypes
    <3>. QED BY <1>2, <3>1, <3>2 DEF ContactFault
  <2>. QED BY <1>2, <2>1, SameTypes DEF ContactFault, TypeInv, OtherTypes
<1>. QED BY <1>1, <1>2

(* Requests are stored and watches deliver. *)
LEMMA StoredTypes ==
  ASSUME TypeInv, Stored
  PROVE  TypeInv'
<1>1. ASSUME NEW a \in AccountNames, StoreAccount(a) PROVE TypeInv'
  <2>1. A!ObjectsOK' BY <1>1, AccountObjectTypes DEF StoreAccount, TypeInv
  <2>2. awork \in Work BY DEF TypeInv, AccountTypes
  <2>3. awork' = Touch(awork, a) /\ UNCHANGED <<aready, aqueue>> BY <1>1 DEF StoreAccount
  <2>4. AccountTypes' BY <2>2, <2>3, TouchTypes DEF TypeInv, AccountTypes
  <2>5. moved' \subseteq ContactNames BY <1>1, OutdatedType DEF StoreAccount, TypeInv, OtherTypes
  <2>. QED BY <1>1, <2>1, <2>4, <2>5, SameTypes DEF StoreAccount, TypeInv, OtherTypes
<1>2. ASSUME NEW c \in ContactNames, StoreContact(c) PROVE TypeInv'
  <2>1. C!ObjectsOK' BY <1>2, ContactObjectTypes DEF StoreContact, TypeInv
  <2>2. cwork \in Work BY DEF TypeInv, ContactTypes
  <2>3. cwork' = Touch(cwork, c) /\ UNCHANGED <<cready, cid, cqueue>> BY <1>2 DEF StoreContact
  <2>4. ContactTypes' BY <2>2, <2>3, TouchTypes DEF TypeInv, ContactTypes
  <2>5. moved' \subseteq ContactNames BY <1>2, OutdatedType DEF StoreContact, TypeInv, OtherTypes
  <2>. QED BY <1>2, <2>1, <2>4, <2>5, SameTypes DEF StoreContact, TypeInv, OtherTypes
<1>. QED BY <1>1, <1>2 DEF Stored

LEMMA DeliveredTypes ==
  ASSUME TypeInv, Delivered
  PROVE  TypeInv'
<1>1. ASSUME NEW a \in AccountNames, DeliverAccount(a) PROVE TypeInv'
  <2>1. A!ObjectsOK' BY <1>1, AccountObjectTypes DEF DeliverAccount, TypeInv
  <2>2. AccountTypes' BY <1>1 DEF DeliverAccount, TypeInv, AccountTypes
  <2>. QED BY <1>1, <2>1, <2>2, SameTypes DEF DeliverAccount, TypeInv, OtherTypes
<1>2. ASSUME NEW c \in ContactNames, DeliverContact(c) PROVE TypeInv'
  <2>1. C!ObjectsOK' BY <1>2, ContactObjectTypes DEF DeliverContact, TypeInv
  <2>2. ContactTypes' BY <1>2 DEF DeliverContact, TypeInv, ContactTypes
  <2>. QED BY <1>2, <2>1, <2>2, SameTypes DEF DeliverContact, TypeInv, OtherTypes
<1>3. CASE DeliverSecret
  <2>1. PICK s \in Secrets : /\ scache' = [scache EXCEPT ![s] = secrets[s]]
                             /\ aqueue' = aqueue \cup MapSecretToAccounts(s)
    BY <1>3 DEF DeliverSecret
  <2>2. UNCHANGED <<secrets, refused, listed, aready, awork>> BY <1>3 DEF DeliverSecret, service
  <2>3. ServiceTypes' BY <2>1, <2>2 DEF TypeInv, ServiceTypes
  <2>4. AccountTypes' BY <2>1, <2>2 DEF TypeInv, AccountTypes, MapSecretToAccounts
  <2>. QED BY <1>3, <2>3, <2>4, SameTypes DEF DeliverSecret, TypeInv, OtherTypes
<1>. QED BY <1>1, <1>2, <1>3 DEF Delivered

LEMMA AskTypes ==
  ASSUME TypeInv, AskAccount \/ AskContact
  PROVE  TypeInv'
<1>1. CASE AskAccount
  <2>1. A!ObjectsOK' BY <1>1, AccountObjectTypes DEF AskAccount, TypeInv
  <2>. QED BY <1>1, <2>1, SameTypes DEF AskAccount, TypeInv, OtherTypes
<1>2. CASE AskContact
  <2>1. C!ObjectsOK' BY <1>2, ContactObjectTypes DEF AskContact, TypeInv
  <2>. QED BY <1>2, <2>1, SameTypes DEF AskContact, TypeInv, OtherTypes
<1>. QED BY <1>1, <1>2

LEMMA RemovedTypes ==
  ASSUME TypeInv, RemoveAccount \/ RemoveContact
  PROVE  TypeInv'
<1>1. CASE RemoveAccount
  <2>1. PICK a \in AccountNames :
          A!Remove(a) /\ awork' = Touch(awork, a) /\ aready' = [aready EXCEPT ![a] = FALSE]
    BY <1>1 DEF RemoveAccount
  <2>2. A!ObjectsOK' BY <2>1, AccountObjectTypes DEF TypeInv
  <2>3. awork \in Work BY DEF TypeInv, AccountTypes
  <2>4. aqueue' = aqueue BY <1>1 DEF RemoveAccount
  <2>5. AccountTypes' BY <2>1, <2>3, <2>4, TouchTypes DEF TypeInv, AccountTypes
  <2>6. moved' \subseteq ContactNames BY <1>1, OutdatedType DEF RemoveAccount, TypeInv, OtherTypes
  <2>. QED BY <1>1, <2>2, <2>5, <2>6, SameTypes DEF RemoveAccount, TypeInv, OtherTypes
<1>2. CASE RemoveContact
  <2>1. PICK c \in ContactNames :
          /\ C!Remove(c) /\ cwork' = Touch(cwork, c) /\ moved' = moved \ {c}
          /\ cready' = [cready EXCEPT ![c] = FALSE] /\ cid' = [cid EXCEPT ![c] = None]
    BY <1>2 DEF RemoveContact
  <2>2. C!ObjectsOK' BY <2>1, ContactObjectTypes DEF TypeInv
  <2>3. cwork \in Work BY DEF TypeInv, ContactTypes
  <2>4. cqueue' = cqueue BY <1>2 DEF RemoveContact
  <2>5. ContactTypes' BY <2>1, <2>3, <2>4, TouchTypes DEF TypeInv, ContactTypes
  <2>6. moved' \subseteq ContactNames BY <2>1 DEF TypeInv, OtherTypes
  <2>. QED BY <1>2, <2>2, <2>5, <2>6, SameTypes DEF RemoveContact, TypeInv, OtherTypes
<1>. QED BY <1>1, <1>2

LEMMA OutsideTypes ==
  ASSUME TypeInv, EditSecret \/ ServiceChanges
  PROVE  TypeInv'
<1>1. CASE EditSecret
  <2>1. ServiceTypes' BY <1>1 DEF EditSecret, service, TypeInv, ServiceTypes
  <2>. QED BY <1>1, <2>1, SameTypes DEF EditSecret, TypeInv, OtherTypes
<1>2. CASE ServiceChanges
  <2>1. ServiceTypes'
    <3>1. UNCHANGED <<secrets, scache>> BY <1>2 DEF ServiceChanges
    <3>2. CASE UNCHANGED listed BY <1>2, <3>1, <3>2 DEF ServiceChanges, TypeInv, ServiceTypes
    <3>3. CASE listed' = ~listed /\ UNCHANGED refused
      <4>1. listed' \in BOOLEAN BY <3>3, Zenon
      <4>. QED BY <3>1, <3>3, <4>1 DEF TypeInv, ServiceTypes
    <3>. QED BY <1>2, <3>2, <3>3 DEF ServiceChanges
  <2>. QED BY <1>2, <2>1, SameTypes DEF ServiceChanges, TypeInv, OtherTypes
<1>. QED BY <1>1, <1>2

LEMMA RestartTypes ==
  ASSUME TypeInv, Restart
  PROVE  TypeInv'
<1>1. A!ObjectsOK' /\ C!ObjectsOK'
  BY AccountObjectTypes, ContactObjectTypes DEF Restart, TypeInv
<1>2. A!Live \subseteq AccountNames /\ C!Live \subseteq ContactNames BY DEF A!Live, C!Live
<1>3. AccountTypes' BY <1>2, IdleIsWork DEF Restart, TypeInv, AccountTypes
<1>4. ContactTypes' BY <1>2, IdleIsWork DEF Restart, TypeInv, ContactTypes
<1>5. ServiceTypes' BY DEF Restart, service, TypeInv, ServiceTypes
<1>. QED BY <1>1, <1>3, <1>4, <1>5, SameTypes DEF Restart, TypeInv, OtherTypes

LEMMA InitTypes == Init => TypeInv
<1>. SUFFICES ASSUME Init PROVE TypeInv OBVIOUS
<1>1. A!ObjectsOK
  <2>1. AP!Start([a \in AccountNames |-> None]) BY DEF Init, A!Start, AP!Start
  <2>2. [a \in AccountNames |-> None] \in [AccountNames -> AccountSpecs \cup {None}] OBVIOUS
  <2>3. AP!ObjectsOK BY <2>1, <2>2, AP!StartTypes
  <2>. QED BY <2>3 DEF A!ObjectsOK, AP!ObjectsOK, A!Request, AP!Request
<1>2. C!ObjectsOK
  <2>1. CP!Start([c \in ContactNames |-> None]) BY DEF Init, C!Start, CP!Start
  <2>2. [c \in ContactNames |-> None] \in [ContactNames -> ContactSpecs \cup {None}] OBVIOUS
  <2>3. CP!ObjectsOK BY <2>1, <2>2, CP!StartTypes
  <2>. QED BY <2>3 DEF C!ObjectsOK, CP!ObjectsOK, C!Request, CP!Request
<1>3. AccountTypes /\ ContactTypes BY IdleIsWork DEF Init, AccountTypes, ContactTypes
<1>4. ServiceTypes BY DEF Init, ServiceTypes
<1>5. OtherTypes BY BudgetAssumption DEF Init, OtherTypes
<1>. QED BY <1>1, <1>2, <1>3, <1>4, <1>5 DEF TypeInv

LEMMA NextTypes == TypeInv /\ [Next]_vars => TypeInv'
<1>. SUFFICES ASSUME TypeInv, [Next]_vars PROVE TypeInv' OBVIOUS
<1>1. CASE UNCHANGED vars BY <1>1, SameTypes DEF vars, TypeInv, OtherTypes
<1>2. CASE Next
  BY <1>2, BeginAccountTypes, BeginContactTypes, AccountStepTypes, ContactStepTypes, FaultTypes,
     StoredTypes, DeliveredTypes, AskTypes, RemovedTypes, OutsideTypes, RestartTypes
     DEF Next, TakeAccount, TakeContact
<1>. QED BY <1>1, <1>2

(* Every variable keeps its type: in particular an id in the status of a   *)
(* contact names an account that was found, by name or as the one default. *)
THEOREM TypesHold == Spec => []TypeOK
<1>1. Init => TypeInv BY InitTypes
<1>2. TypeInv /\ [Next]_vars => TypeInv' BY NextTypes
<1>3. TypeInv => TypeOK
  BY DEF TypeInv, TypeOK, AccountTypes, ContactTypes, ServiceTypes, OtherTypes
<1>. QED BY <1>1, <1>2, <1>3, PTL DEF Spec
=============================================================================
