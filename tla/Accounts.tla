------------------------------ MODULE Accounts ------------------------------
(***************************************************************************)
(* The reconcilers of Account and Contact                                  *)
(* (internal/controller/account_controller.go, contact_controller.go) over *)
(* the resources of DefaultObjects and the secrets with the API keys.      *)
(* Each controller has one worker.  An account's status is whether it is   *)
(* ready, a contact's also the alert contact it stands for.  The service   *)
(* is a set of keys it takes and whether it lists an alert contact of the  *)
(* name the contacts ask for.                                              *)
(***************************************************************************)
EXTENDS Naturals, FiniteSets

CONSTANTS
  AccountNames, ContactNames, Secrets, None,
  Events,     \* what users and faults do in this instance
  Budget      \* BOUND: how often

ASSUME BudgetAssumption == Budget \in Nat

VARIABLES
  accounts, acache, asynced, aallowed, amade, araced,   \* DefaultObjects, for accounts
  contacts, ccache, csynced, callowed, cmade, craced,   \* DefaultObjects, for contacts
  secrets, scache,     \* what the secrets hold: "key" or "none"
  refused,             \* the secrets whose key the service does not take
  listed,              \* the service lists the alert contact by its name
  aready, cready,      \* status.ready
  cid,                 \* a contact's status.id
  aqueue, cqueue,      \* the names due
  awork, cwork,        \* the two workers
  budget,
  moved                \* history: contacts whose id was chosen for other wishes

accountVars == <<accounts, acache, asynced, aallowed, amade, araced>>
contactVars == <<contacts, ccache, csynced, callowed, cmade, craced>>
service == <<refused, listed>>
accountSide == <<aready, aqueue, awork>>
contactSide == <<cready, cid, cqueue, cwork>>
vars == <<accountVars, contactVars, secrets, scache, service, accountSide, contactSide, budget, moved>>

AccountSpecs == [default : BOOLEAN, secret : Secrets]

ContactSpecs == [default : BOOLEAN, account : AccountNames \cup {None}, by : {"id", "name"}]

A == INSTANCE DefaultObjects WITH Names <- AccountNames, Specs <- AccountSpecs,
  objs <- accounts, cache <- acache, synced <- asynced, allowed <- aallowed, made <- amade, raced <- araced

C == INSTANCE DefaultObjects WITH Names <- ContactNames, Specs <- ContactSpecs,
  objs <- contacts, cache <- ccache, synced <- csynced, allowed <- callowed, made <- cmade, raced <- craced

(* A secret that is absent, lacks the key or has a blank one holds none. *)
Contents == {"none", "key"}

Ids == {"id", "name"} \X AccountNames

(* A worker: at call, for name, whose copy has the server's version or     *)
(* not; the account and the secret of the key, and what it will write.     *)
Idle == [at |-> "idle", name |-> None, cur |-> FALSE, account |-> None, secret |-> None,
         ok |-> FALSE, id |-> None]

Work == [at : {"idle", "ask", "write"}, name : AccountNames \cup ContactNames \cup {None}, cur : BOOLEAN,
         account : AccountNames \cup {None}, secret : Secrets \cup {None}, ok : BOOLEAN, id : Ids \cup {None}]

Init ==
  /\ A!Start([a \in AccountNames |-> None]) /\ C!Start([c \in ContactNames |-> None])
  /\ secrets \in [Secrets -> Contents] /\ scache = secrets
  /\ refused = {} /\ listed = TRUE
  /\ aready = [a \in AccountNames |-> FALSE] /\ cready = [c \in ContactNames |-> FALSE]
  /\ cid = [c \in ContactNames |-> None]
  /\ aqueue = {} /\ cqueue = {} /\ awork = Idle /\ cwork = Idle /\ budget = Budget /\ moved = {}

Spend(e) == e \in Events /\ budget > 0 /\ budget' = budget - 1

(* GetApiKey. *)
HasKey(a) == scache[acache[a].secret] = "key"

(* History: what the service would say of the server's account. *)
Takes(a) == accounts[a] # None /\ secrets[accounts[a].secret] = "key" /\ accounts[a].secret \notin refused
-----------------------------------------------------------------------------
(* AccountReconciler.Reconcile. *)
BeginAccount(a) ==
  /\ awork.at = "idle" /\ a \in aqueue /\ aqueue' = aqueue \ {a}
  /\ awork' = IF acache[a] = None THEN Idle
              ELSE [Idle EXCEPT !.at = IF HasKey(a) THEN "ask" ELSE "write", !.name = a,
                                !.cur = a \in asynced, !.secret = acache[a].secret]
  /\ UNCHANGED <<accountVars, contactVars, secrets, scache, service, aready, contactSide, budget, moved>>

(* GetAccountDetails, with the key of the copy.  GetAlertContacts follows, *)
(* whose failure is only logged.                                           *)
AskDetails ==
  /\ awork.at = "ask"
  /\ awork' = [awork EXCEPT !.at = "write", !.ok = awork.secret \notin refused]
  /\ UNCHANGED <<accountVars, contactVars, secrets, scache, service, aready, aqueue, contactSide, budget, moved>>

(* The status update needs the version of the copy.  A conflict, or an     *)
(* account that is not ready, is tried again.                              *)
WriteAccount ==
  /\ awork.at = "write" /\ awork' = Idle
  /\ IF awork.cur THEN aready' = [aready EXCEPT ![awork.name] = awork.ok] /\ A!NewVersion(awork.name)
                  ELSE UNCHANGED <<aready, accountVars>>
  /\ aqueue' = (IF awork.cur /\ awork.ok THEN aqueue ELSE aqueue \cup {awork.name})
  /\ UNCHANGED <<contactVars, secrets, scache, service, contactSide, budget, moved>>

(* Mutant of BeginContact: an id in the specification needs no account. *)
BeginContact_IdFirst(c) ==
  /\ cwork.at = "idle" /\ c \in cqueue /\ cqueue' = cqueue \ {c}
  /\ LET i == ccache[c]
         a == A!Lookup(acache, i.account)
         read == [Idle EXCEPT !.at = "write", !.name = c, !.cur = c \in csynced, !.account = a, !.id = cid[c]] IN
     cwork' = IF i = None THEN Idle
              ELSE IF cid[c] # None THEN [read EXCEPT !.ok = TRUE]
              ELSE IF i.by = "id" THEN [read EXCEPT !.ok = TRUE, !.id = <<"id", a>>]
              ELSE IF a = None \/ ~HasKey(a) THEN read
              ELSE [read EXCEPT !.at = "ask", !.secret = acache[a].secret]
  /\ moved' = IF acache # accounts THEN moved \cup {c} ELSE moved
  /\ UNCHANGED <<accountVars, contactVars, secrets, scache, service, accountSide, cready, cid, budget>>

(* ContactReconciler.Reconcile.  An id in the status is never resolved     *)
(* again.  A copy that is not current ends in a conflict, whatever its     *)
(* status said.  The error for a contact with neither id nor name is out   *)
(* of reach: the API server stores none (contact_types.go 75).             *)
BeginContact(c) ==
  /\ cwork.at = "idle" /\ c \in cqueue /\ cqueue' = cqueue \ {c}
  /\ LET i == ccache[c]
         a == A!Lookup(acache, i.account)
         read == [Idle EXCEPT !.at = "write", !.name = c, !.cur = c \in csynced, !.account = a, !.id = cid[c]] IN
     cwork' = IF i = None THEN Idle
              ELSE IF a = None \/ ~HasKey(a) THEN read
              ELSE IF cid[c] # None THEN [read EXCEPT !.ok = TRUE]
              ELSE IF i.by = "id" THEN [read EXCEPT !.ok = TRUE, !.id = <<"id", a>>]
              ELSE [read EXCEPT !.at = "ask", !.secret = acache[a].secret]
  /\ moved' = IF acache # accounts THEN moved \cup {c} ELSE moved
  /\ UNCHANGED <<accountVars, contactVars, secrets, scache, service, accountSide, cready, cid, budget>>

(* FindContactID, in the account that was found. *)
FindContactID ==
  /\ cwork.at = "ask"
  /\ LET found == listed /\ cwork.secret \notin refused IN
     cwork' = [cwork EXCEPT !.at = "write", !.ok = found, !.id = IF found THEN <<"name", cwork.account>> ELSE None]
  /\ UNCHANGED <<accountVars, contactVars, secrets, scache, service, accountSide, cready, cid, cqueue, budget, moved>>

(* Mutant of WriteContact: an error in the status is enough. *)
WriteContact_NoError ==
  /\ cwork.at = "write" /\ cwork' = Idle
  /\ IF cwork.cur THEN /\ cready' = [cready EXCEPT ![cwork.name] = cwork.ok]
                       /\ cid' = [cid EXCEPT ![cwork.name] = cwork.id] /\ C!NewVersion(cwork.name)
                  ELSE UNCHANGED <<cready, cid, contactVars>>
  /\ cqueue' = (IF cwork.cur THEN cqueue ELSE cqueue \cup {cwork.name})
  /\ UNCHANGED <<accountVars, secrets, scache, service, accountSide, budget, moved>>

WriteContact ==
  /\ cwork.at = "write" /\ cwork' = Idle
  /\ IF cwork.cur THEN /\ cready' = [cready EXCEPT ![cwork.name] = cwork.ok]
                       /\ cid' = [cid EXCEPT ![cwork.name] = cwork.id] /\ C!NewVersion(cwork.name)
                  ELSE UNCHANGED <<cready, cid, contactVars>>
  /\ cqueue' = (IF cwork.cur /\ cwork.ok THEN cqueue ELSE cqueue \cup {cwork.name})
  /\ UNCHANGED <<accountVars, secrets, scache, service, accountSide, budget, moved>>

(* The service fails, or the API server does. *)
AccountFault ==
  /\ Spend("fault")
  /\ \/ awork.at = "ask" /\ awork' = [awork EXCEPT !.at = "write"] /\ UNCHANGED aqueue
     \/ awork.at = "write" /\ awork' = Idle /\ aqueue' = aqueue \cup {awork.name}
  /\ UNCHANGED <<accountVars, contactVars, secrets, scache, service, aready, contactSide, moved>>

ContactFault ==
  /\ Spend("fault")
  /\ \/ cwork.at = "ask" /\ cwork' = [cwork EXCEPT !.at = "write"] /\ UNCHANGED cqueue
     \/ cwork.at = "write" /\ cwork' = Idle /\ cqueue' = cqueue \cup {cwork.name}
  /\ UNCHANGED <<accountVars, contactVars, secrets, scache, service, accountSide, cready, cid, moved>>
-----------------------------------------------------------------------------
(* The watches: an event queues its object. *)
DeliverAccount(a) ==
  /\ A!Deliver(a) /\ aqueue' = (IF A!Event(a) THEN aqueue \cup {a} ELSE aqueue)
  /\ UNCHANGED <<contactVars, secrets, scache, service, aready, awork, contactSide, budget, moved>>

DeliverContact(c) ==
  /\ C!Deliver(c) /\ cqueue' = (IF C!Event(c) THEN cqueue \cup {c} ELSE cqueue)
  /\ UNCHANGED <<accountVars, secrets, scache, service, accountSide, cready, cid, cwork, budget, moved>>

(* Mutant of mapSecretToAccounts: the default account only. *)
MapSecretToAccounts_DefaultOnly(s) == {a \in AccountNames : acache[a] # None /\ acache[a].secret = s /\ acache[a].default}

(* mapSecretToAccounts: a secret queues the accounts that name it, and no  *)
(* contact.                                                                *)
MapSecretToAccounts(s) == {a \in AccountNames : acache[a] # None /\ acache[a].secret = s}

DeliverSecret ==
  /\ \E s \in Secrets :
       /\ scache[s] # secrets[s] /\ scache' = [scache EXCEPT ![s] = secrets[s]]
       /\ aqueue' = aqueue \cup MapSecretToAccounts(s)
  /\ UNCHANGED <<accountVars, contactVars, secrets, service, aready, awork, contactSide, budget, moved>>

(* What a contact stands for, by the server's objects. *)
Wish(accs, i) == IF i = None THEN None ELSE <<i.by, A!Lookup(accs, i.account)>>

(* Its id was chosen already, or is being chosen, when its wish changes. *)
Outdated(accs, conts) ==
  {c \in ContactNames : /\ cid[c] # None \/ (cwork.at # "idle" /\ cwork.name = c)
                        /\ Wish(accs, conts[c]) # Wish(accounts, contacts[c])}

(* Users ask for accounts, contacts and secrets. *)
AskAccount ==
  /\ Spend("account") /\ \E a \in AccountNames, s \in AccountSpecs : A!Validate(a, s)
  /\ UNCHANGED <<contactVars, secrets, scache, service, accountSide, contactSide, moved>>

AskContact ==
  /\ Spend("contact") /\ \E c \in ContactNames, s \in ContactSpecs : C!Validate(c, s)
  /\ UNCHANGED <<accountVars, secrets, scache, service, accountSide, contactSide, moved>>

Touch(work, n) == [work EXCEPT !.cur = @ /\ work.name # n]

StoreAccount(a) ==
  /\ A!Store(a) /\ awork' = Touch(awork, a) /\ moved' = moved \cup Outdated(accounts', contacts)
  /\ UNCHANGED <<contactVars, secrets, scache, service, aready, aqueue, contactSide, budget>>

StoreContact(c) ==
  /\ C!Store(c) /\ cwork' = Touch(cwork, c) /\ moved' = moved \cup Outdated(accounts, contacts')
  /\ UNCHANGED <<accountVars, secrets, scache, service, accountSide, cready, cid, cqueue, budget>>

RemoveAccount ==
  /\ Spend("account")
  /\ \E a \in AccountNames :
       A!Remove(a) /\ awork' = Touch(awork, a) /\ aready' = [aready EXCEPT ![a] = FALSE]
  /\ moved' = moved \cup Outdated(accounts', contacts)
  /\ UNCHANGED <<contactVars, secrets, scache, service, aqueue, contactSide>>

RemoveContact ==
  /\ Spend("contact")
  /\ \E c \in ContactNames :
       /\ C!Remove(c) /\ cwork' = Touch(cwork, c) /\ moved' = moved \ {c}
       /\ cready' = [cready EXCEPT ![c] = FALSE] /\ cid' = [cid EXCEPT ![c] = None]
  /\ UNCHANGED <<accountVars, secrets, scache, service, accountSide, cqueue>>

EditSecret ==
  /\ Spend("secret")
  /\ \E s \in Secrets : \E v \in Contents \ {secrets[s]} : secrets' = [secrets EXCEPT ![s] = v]
  /\ UNCHANGED <<accountVars, contactVars, scache, service, accountSide, contactSide, moved>>

(* At UptimeRobot a key is revoked or taken again, the alert contact named *)
(* or renamed.                                                             *)
ServiceChanges ==
  /\ Spend("service")
  /\ \/ \E s \in Secrets : refused' = (IF s \in refused THEN refused \ {s} ELSE refused \cup {s}) /\ UNCHANGED listed
     \/ listed' = ~listed /\ UNCHANGED refused
  /\ UNCHANGED <<accountVars, contactVars, secrets, scache, accountSide, contactSide, moved>>

(* The process stops and starts again: every object is queued. *)
Restart ==
  /\ Spend("crash") /\ awork' = Idle /\ cwork' = Idle
  /\ A!Resync /\ C!Resync /\ scache' = secrets /\ aqueue' = A!Live /\ cqueue' = C!Live
  /\ UNCHANGED <<secrets, service, aready, cready, cid, moved>>

TakeAccount == \E a \in AccountNames : BeginAccount(a)
TakeContact == \E c \in ContactNames : BeginContact(c)
Stored == (\E a \in AccountNames : StoreAccount(a)) \/ (\E c \in ContactNames : StoreContact(c))
Delivered == DeliverSecret \/ (\E a \in AccountNames : DeliverAccount(a)) \/ (\E c \in ContactNames : DeliverContact(c))
AccountStep == AskDetails \/ WriteAccount
ContactStep == FindContactID \/ WriteContact

Next ==
  \/ TakeAccount \/ TakeContact \/ AccountStep \/ ContactStep \/ AccountFault \/ ContactFault
  \/ Stored \/ Delivered
  \/ AskAccount \/ AskContact \/ RemoveAccount \/ RemoveContact \/ EditSecret \/ ServiceChanges \/ Restart

(* The workers go on, requests are stored, the watches deliver, and a      *)
(* queue serves every name: one that fails backs off while others go on.   *)
Spec ==
  /\ Init /\ [][Next]_vars
  /\ WF_vars(AccountStep) /\ WF_vars(ContactStep) /\ WF_vars(Stored) /\ WF_vars(DeliverSecret)
  /\ \A a \in AccountNames : WF_vars(DeliverAccount(a)) /\ SF_vars(BeginAccount(a))
  /\ \A c \in ContactNames : WF_vars(DeliverContact(c)) /\ SF_vars(BeginContact(c))
-----------------------------------------------------------------------------
(* The shape of every variable. *)
TypeOK ==
  /\ A!ObjectsOK /\ C!ObjectsOK
  /\ secrets \in [Secrets -> Contents] /\ scache \in [Secrets -> Contents]
  /\ refused \subseteq Secrets /\ listed \in BOOLEAN
  /\ aready \in [AccountNames -> BOOLEAN] /\ cready \in [ContactNames -> BOOLEAN]
  /\ cid \in [ContactNames -> Ids \cup {None}]
  /\ aqueue \subseteq AccountNames /\ cqueue \subseteq ContactNames
  /\ awork \in Work /\ cwork \in Work /\ budget \in 0 .. Budget /\ moved \subseteq ContactNames

(* "at most one Account can have spec.isDefault=true"                      *)
(* (account_webhook.go:105) and the same of Contact: two requests at once, *)
(* or one that was judged by an old list, are the only way to a second     *)
(* default.                                                                *)
UniqueDefaults == A!AtMostOneDefault /\ C!AtMostOneDefault

(* When users and faults rest, an account is ready if the service takes    *)
(* its key, and not ready if its secret holds none.  (A key that is        *)
(* revoked later is not noticed: nothing asks again.)                      *)
AccountsSettle ==
  <>[](\A a \in A!Live : /\ Takes(a) => aready[a]
                         /\ secrets[accounts[a].secret] # "key" => ~aready[a])

(* When users and faults rest, a contact whose account is found, takes its *)
(* key and lists the alert contact is ready, and stands for the one it     *)
(* asks for in that account -- unless it was resolved for something else   *)
(* before: an id is never resolved again (contact_controller.go:86).       *)
ContactsSettle ==
  <>[](\A c \in C!Live :
         LET a == A!Lookup(accounts, contacts[c].account) IN
         (a # None /\ Takes(a) /\ (contacts[c].by = "id" \/ listed)) =>
           cready[c] /\ (c \in moved \/ cid[c] = <<contacts[c].by, a>>))
=============================================================================
