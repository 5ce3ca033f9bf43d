-------------------------- MODULE IngressController --------------------------
(***************************************************************************)
(* The reconciler of Ingress (internal/controller/ingress_controller.go):  *)
(* it makes, updates and deletes the Monitor resources of an ingress.      *)
(* Ingresses of one name in several namespaces are modelled: their         *)
(* Monitors are looked up by the name alone.  What happens to a Monitor    *)
(* afterwards is MonitorController's; here it takes its finalizer and, one *)
(* day, lets go.                                                           *)
(*                                                                         *)
(* An ingress' annotations are `enabled', `target', the part that decides  *)
(* about the URL, and `rest', the others.  A target is "none": the first   *)
(* rule gives the URL; "host": monitor.host does; "url": there is          *)
(* monitor.url, which keeps the rule out of it; or "nohttp": the first     *)
(* rule has no paths.                                                      *)
(***************************************************************************)
EXTENDS Naturals, FiniteSets

CONSTANTS
  Namespaces,
  Events,     \* what users and faults do in this instance
  Budget      \* BOUND: how often

ASSUME BudgetAssumption == Budget \in Nat

VARIABLES
  ing,      \* the ingresses in the API server
  icache,   \* the cached copies
  mons,     \* the Monitors in the API server
  mcache,   \* the cached copies
  synced,   \* the objects whose cached copy has the server's version
  queue,    \* the keys due
  pc,       \* "idle", "delete", "update", "create", "finalize" or "unfinalize"
  key,      \* the key in work
  copy,     \* the worker's ingress
  cur,      \* it has the server's version
  list,     \* the Monitors it has still to go through
  lcur,     \* those of them that have the server's version
  spent,    \* the annotations about the URL have been used up
  budget,
  shared,   \* history: two namespaces have had the ingress
  missed    \* history: Monitors the reconciler could not know of or wait for

objects == <<ing, icache, mons, mcache, synced>>
worker == <<pc, key, copy, cur, list, lcur, spent>>
history == <<shared, missed>>
vars == <<objects, queue, worker, budget, history>>

Flags == {"true", "false", "bad"}

Targets == {"none", "host", "url", "nohttp"}

Rests == {"none", "a", "b", "bad"}

Ingress == [phase : {"absent", "live", "deleting"}, fin : BOOLEAN, enabled : Flags,
            target : Targets, rest : Rests]

Monitor == [phase : {"absent", "live", "deleting"}, held : BOOLEAN, mine : BOOLEAN,
            url : {"none", "rule", "host"}, rest : {"none", "a", "b"}]

NoIngress == [phase |-> "absent", fin |-> FALSE, enabled |-> "false", target |-> "none", rest |-> "none"]

NoMonitor == [phase |-> "absent", held |-> FALSE, mine |-> FALSE, url |-> "none", rest |-> "none"]

Ing(n) == <<"ingress", n>>

Mon(n) == <<"monitor", n>>

(* The operator starts: an enabled ingress is there, new or with the       *)
(* Monitor of an earlier time.                                             *)
Init ==
  /\ \E n \in Namespaces, old \in BOOLEAN :
       /\ ing = [m \in Namespaces |-> IF m # n THEN NoIngress ELSE
                  [NoIngress EXCEPT !.phase = "live", !.enabled = "true", !.fin = old]]
       /\ mons = [m \in Namespaces |-> IF m # n \/ ~old THEN NoMonitor ELSE
                  [NoMonitor EXCEPT !.phase = "live", !.held = TRUE, !.mine = TRUE, !.url = "rule"]]
  /\ icache = ing /\ mcache = mons
  /\ synced = {Ing(n) : n \in Namespaces} \cup {Mon(n) : n \in Namespaces}
  /\ queue = {n \in Namespaces : ing[n] # NoIngress}
  /\ pc = "idle" /\ key = (CHOOSE n \in Namespaces : TRUE) /\ copy = NoIngress /\ cur = FALSE
  /\ list = {} /\ lcur = {} /\ spent = FALSE /\ budget = Budget /\ shared = FALSE /\ missed = {}

Spend(e) == e \in Events /\ budget > 0 /\ budget' = budget - 1

Return(error) ==
  /\ pc' = "idle" /\ UNCHANGED key /\ copy' = NoIngress /\ cur' = FALSE
  /\ list' = {} /\ lcur' = {} /\ spent' = FALSE
  /\ queue' = (IF error THEN queue \cup {key} ELSE queue)

PutIngress(n, i) == ing' = [ing EXCEPT ![n] = i] /\ UNCHANGED <<icache, mons, mcache>>

PutMonitor(n, m) ==
  /\ mons' = [mons EXCEPT ![n] = m] /\ synced' = synced \ {Mon(n)}
  /\ UNCHANGED <<ing, icache, mcache>>
-----------------------------------------------------------------------------
(* Mutant of FindMonitors: by the name of the Monitor. *)
FindMonitors_ByName == {n \in Namespaces : mcache[n].phase # "absent"}

(* findMonitors: by the index on spec.sourceRef, in all namespaces. *)
FindMonitors == {n \in Namespaces : mcache[n].phase # "absent" /\ mcache[n].mine}

(* History: Monitors of the ingress that the cache does not list yet. *)
Unlisted == {n \in Namespaces : mons[n].phase # "absent" /\ mons[n].mine /\ Mon(n) \notin synced} \ FindMonitors

AfterDeletes(left) == IF left = {} THEN "unfinalize" ELSE "delete"

(* Mutant of Decide: an ingress that is disabled keeps its Monitors. *)
Decide_Keeps(i, found) ==
  IF i.phase = "deleting" THEN IF i.fin THEN AfterDeletes(found) ELSE "idle"
  ELSE IF i.enabled # "true" THEN "idle"
  ELSE IF found = {} THEN "create" ELSE "update"

(* Deletion, then the enabled annotation, then the Monitors found. *)
Decide(i, found) ==
  IF i.phase = "deleting" \/ i.enabled = "false" THEN IF i.fin THEN AfterDeletes(found) ELSE "idle"
  ELSE IF found = {} THEN "create" ELSE "update"

Begin(n) ==
  /\ pc = "idle" /\ n \in queue
  /\ LET i == icache[n] IN
     IF i.phase = "absent" THEN queue' = queue \ {n} /\ UNCHANGED <<worker, missed>>
     ELSE IF i.phase = "live" /\ i.enabled = "bad" THEN UNCHANGED <<queue, worker, missed>>
     ELSE /\ pc' = Decide(i, FindMonitors) /\ queue' = queue \ {n}
          /\ IF pc' = "idle" THEN UNCHANGED <<key, copy, cur, list, lcur>>
             ELSE /\ key' = n /\ copy' = i /\ cur' = (Ing(n) \in synced)
                  /\ list' = IF pc' = "create" THEN {} ELSE FindMonitors
                  /\ lcur' = {m \in list' : Mon(m) \in synced}
          /\ missed' = missed \cup Unlisted /\ UNCHANGED spent
  /\ UNCHANGED <<objects, budget, shared>>

(* kubectl delete, or the reconciler's: a finalizer keeps the resource. *)
Deleted(m) == IF m.held THEN [m EXCEPT !.phase = "deleting"] ELSE NoMonitor

(* Mutant of DeleteMonitor: after an error the reconcile just ends. *)
DeleteMonitor_GivesUp ==
  /\ pc = "delete"
  /\ \E n \in list :
       IF mons[n].phase = "absent" THEN Return(FALSE) /\ UNCHANGED objects
       ELSE /\ PutMonitor(n, Deleted(mons[n])) /\ list' = list \ {n}
            /\ lcur' = lcur \ {n}
            /\ pc' = AfterDeletes(list') /\ UNCHANGED <<key, copy, cur, spent, queue>>
  /\ UNCHANGED <<budget, history>>

(* One DELETE: by name, whatever version the list had.  Not found is an    *)
(* error here.                                                             *)
DeleteMonitor ==
  /\ pc = "delete"
  /\ \E n \in list :
       IF mons[n].phase = "absent" THEN Return(TRUE) /\ UNCHANGED objects
       ELSE /\ PutMonitor(n, Deleted(mons[n])) /\ list' = list \ {n}
            /\ lcur' = lcur \ {n}
            /\ pc' = AfterDeletes(list') /\ UNCHANGED <<key, copy, cur, spent, queue>>
  /\ UNCHANGED <<budget, history>>

(* updateValues: what the annotations make of a Monitor.  An annotation    *)
(* that is absent leaves the field as it was; the ones about the URL serve *)
(* the first Monitor only, and monitor.url keeps the URL there is.         *)
UpdateValues(m, i) ==
  LET target == IF spent THEN "none" ELSE i.target IN
  [m EXCEPT !.url = CASE target = "url" -> m.url [] target = "host" -> "host" [] OTHER -> "rule",
            !.rest = IF i.rest = "none" THEN m.rest ELSE i.rest]

(* Mutant of Refused: what the decoder makes of an annotation is logged    *)
(* only.                                                                   *)
Refused_LoggedOnly(m, i) == i.target = "nohttp" \/ UpdateValues(m, i).url = "none"

(* A write that fails at every attempt: the decoder refuses an annotation  *)
(* it does not know, updateValues panics at a rule without paths, and the  *)
(* API server takes no Monitor without a URL (monitor_types.go:143).       *)
Refused(m, i) == i.rest = "bad" \/ i.target = "nohttp" \/ UpdateValues(m, i).url = "none"

AfterWrites == IF copy.fin THEN Return(FALSE) ELSE
  pc' = "finalize" /\ list' = {} /\ lcur' = {} /\ UNCHANGED <<key, copy, cur, spent, queue>>

(* An update needs the version of the list. *)
UpdateMonitor ==
  /\ pc = "update"
  /\ \E n \in list :
       IF n \notin lcur \/ Refused(mons[n], copy)
       THEN Return(TRUE) /\ UNCHANGED objects
       ELSE /\ PutMonitor(n, UpdateValues(mons[n], copy))
            /\ IF list = {n} THEN AfterWrites
               ELSE list' = list \ {n} /\ lcur' = lcur \ {n} /\ spent' = TRUE /\ UNCHANGED <<pc, key, copy, cur, queue>>
  /\ UNCHANGED <<budget, history>>

Blank == [NoMonitor EXCEPT !.phase = "live", !.mine = TRUE]

(* A new Monitor has no URL of its own: monitor.url leaves it with none.   *)
NewMonitor(i) == UpdateValues(Blank, i)

CreateMonitor ==
  /\ pc = "create"
  /\ IF Refused(Blank, copy) \/ mons[key].phase # "absent" THEN Return(TRUE) /\ UNCHANGED <<objects, history>>
     ELSE /\ PutMonitor(key, NewMonitor(copy)) /\ AfterWrites
          /\ missed' = IF cur \/ ing[key].fin THEN missed ELSE missed \cup {key}
          /\ shared' = (shared \/ \E m \in Namespaces \ {key} : ing[m] # NoIngress)
  /\ UNCHANGED budget

(* The finalizer of the ingress comes last, and needs its version. *)
AddFinalizer ==
  /\ pc = "finalize"
  /\ IF cur THEN /\ PutIngress(key, [copy EXCEPT !.fin = TRUE]) /\ synced' = synced \ {Ing(key)}
                 /\ Return(FALSE)
            ELSE Return(TRUE) /\ UNCHANGED objects
  /\ UNCHANGED <<budget, history>>

RemoveFinalizer ==
  /\ pc = "unfinalize"
  /\ IF cur THEN /\ PutIngress(key, IF copy.phase = "deleting" THEN NoIngress ELSE [copy EXCEPT !.fin = FALSE])
                 /\ synced' = synced \ {Ing(key)} /\ Return(FALSE)
            ELSE Return(TRUE) /\ UNCHANGED objects
  /\ UNCHANGED <<budget, history>>

(* A call to the API server fails. *)
Fault == pc # "idle" /\ Spend("k8s") /\ Return(TRUE) /\ UNCHANGED <<objects, history>>
-----------------------------------------------------------------------------
(* The watches.  A new generation or new annotations queue an ingress; no  *)
(* watch tells the reconciler of a Monitor.                                *)
Visible(i) == [i EXCEPT !.fin = FALSE]

DeliverIngress ==
  /\ \E n \in Namespaces :
       /\ Ing(n) \notin synced /\ synced' = synced \cup {Ing(n)}
       /\ icache' = [icache EXCEPT ![n] = ing[n]]
       /\ queue' = IF Visible(icache[n]) # Visible(ing[n]) THEN queue \cup {n} ELSE queue
  /\ UNCHANGED <<ing, mons, mcache, worker, budget, history>>

DeliverMonitor ==
  /\ \E n \in Namespaces :
       /\ Mon(n) \notin synced /\ synced' = synced \cup {Mon(n)}
       /\ mcache' = [mcache EXCEPT ![n] = mons[n]]
  /\ UNCHANGED <<ing, icache, mons, queue, worker, budget, history>>

(* A Monitor is changed by someone else: copies are stale. *)
Outside(n, m) == PutMonitor(n, m) /\ lcur' = lcur \ {n} /\ UNCHANGED <<pc, key, copy, cur, list, spent>>

(* MonitorController: the finalizer of a new Monitor, and the end of one   *)
(* that is deleted.  An ingress that wants it is not told.                 *)
MonitorHeld ==
  /\ \E n \in Namespaces :
       mons[n].phase = "live" /\ ~mons[n].held /\ Outside(n, [mons[n] EXCEPT !.held = TRUE])
  /\ UNCHANGED <<queue, budget, history>>

MonitorGone ==
  /\ \E n \in Namespaces :
       /\ mons[n].phase = "deleting" /\ Outside(n, NoMonitor)
       /\ missed' = IF ing[n].enabled # "false" THEN missed \cup {n} ELSE missed
  /\ UNCHANGED <<queue, budget, shared>>

(* Users edit, create and delete ingresses.  A Monitor whose ingress has   *)
(* no finalizer yet is not cleaned up with it.                             *)
UserIngress(n, i) ==
  /\ PutIngress(n, i) /\ synced' = synced \ {Ing(n)} /\ cur' = (cur /\ key # n)
  /\ missed' = IF ~ing[n].fin /\ mons[n] # NoMonitor THEN missed \cup {n} ELSE missed
  /\ shared' = (shared \/ (i # NoIngress /\ \E m \in Namespaces \ {n} : ing[m] # NoIngress \/ mons[m] # NoMonitor))
  /\ UNCHANGED <<queue, pc, key, copy, list, lcur, spent>>

EditIngress ==
  /\ Spend("edit")
  /\ \E n \in Namespaces :
       /\ ing[n].phase # "absent"
       /\ \/ \E f \in Flags \ {ing[n].enabled} : UserIngress(n, [ing[n] EXCEPT !.enabled = f])
          \/ \E t \in Targets \ {ing[n].target} : UserIngress(n, [ing[n] EXCEPT !.target = t])
          \/ \E r \in Rests \ {ing[n].rest} : UserIngress(n, [ing[n] EXCEPT !.rest = r])

CreateIngress ==
  /\ Spend("create")
  /\ \E n \in Namespaces :
       ing[n].phase = "absent" /\ UserIngress(n, [NoIngress EXCEPT !.phase = "live", !.enabled = "true"])

DeleteIngress ==
  /\ Spend("delete")
  /\ \E n \in Namespaces :
       /\ ing[n].phase = "live"
       /\ UserIngress(n, IF ing[n].fin THEN [ing[n] EXCEPT !.phase = "deleting"] ELSE NoIngress)

(* Users delete a Monitor, or make one of their own in its place. *)
UserMonitor ==
  /\ Spend("monitor")
  /\ \E n \in Namespaces :
       /\ \/ mons[n].phase = "live" /\ Outside(n, Deleted(mons[n]))
          \/ mons[n].phase = "absent" /\ Outside(n, [NoMonitor EXCEPT !.phase = "live", !.rest = "a"])
       /\ missed' = missed \cup {n}
  /\ UNCHANGED <<queue, shared>>

(* The process stops and starts again: every ingress is queued. *)
Restart ==
  /\ pc # "idle" /\ Spend("crash")
  /\ icache' = ing /\ mcache' = mons
  /\ synced' = {Ing(n) : n \in Namespaces} \cup {Mon(n) : n \in Namespaces}
  /\ pc' = "idle" /\ copy' = NoIngress /\ cur' = FALSE /\ list' = {} /\ lcur' = {} /\ spent' = FALSE
  /\ queue' = {n \in Namespaces : ing[n] # NoIngress}
  /\ UNCHANGED <<ing, mons, key, history>>

Take == \E n \in Namespaces : Begin(n)

Step == DeleteMonitor \/ UpdateMonitor \/ CreateMonitor \/ AddFinalizer \/ RemoveFinalizer

Next ==
  \/ Take \/ Step \/ Fault \/ DeliverIngress \/ DeliverMonitor \/ MonitorHeld \/ MonitorGone
  \/ EditIngress \/ CreateIngress \/ DeleteIngress \/ UserMonitor \/ Restart

(* The worker goes on, the watches deliver, Monitors that are deleted go   *)
(* one day, and failed reconciles back off until the caches are current.   *)
Spec ==
  /\ Init /\ [][Next]_vars
  /\ WF_vars(Step) /\ WF_vars(DeliverMonitor) /\ WF_vars(MonitorGone) /\ WF_vars(MonitorHeld)
  /\ SF_vars(pc = "idle" /\ DeliverIngress)
  /\ \A n \in Namespaces : SF_vars(Ing(n) \in synced /\ (\A m \in Namespaces : Mon(m) \in synced) /\ Begin(n))
-----------------------------------------------------------------------------
(* The shape of every variable. *)
TypeOK ==
  /\ ing \in [Namespaces -> Ingress] /\ icache \in [Namespaces -> Ingress]
  /\ mons \in [Namespaces -> Monitor] /\ mcache \in [Namespaces -> Monitor]
  /\ synced \subseteq {Ing(n) : n \in Namespaces} \cup {Mon(n) : n \in Namespaces}
  /\ queue \subseteq Namespaces /\ key \in Namespaces /\ copy \in Ingress /\ cur \in BOOLEAN
  /\ pc \in {"idle", "delete", "update", "create", "finalize", "unfinalize"}
  /\ list \subseteq Namespaces /\ lcur \subseteq list /\ spent \in BOOLEAN /\ budget \in 0 .. Budget
  /\ shared \in BOOLEAN /\ missed \subseteq Namespaces

(* A Monitor that no ingress stands for belongs to its user: the           *)
(* reconciler changes none, unless it takes one for the Monitor its list   *)
(* had under that name (ingress_controller.go:80, 108).                    *)
UserMonitorUntouched ==
  [][Step => \A n \in Namespaces : mons[n].phase # "absent" /\ ~mons[n].mine =>
       mons'[n] = mons[n] \/ (pc = "delete" /\ n \notin lcur)]_vars

(* What the ingress asks of its Monitor can be written: see Refused.  A    *)
(* Monitor that is there already has a URL to keep.                        *)
Servable(n) ==
  /\ ing[n].rest # "bad" /\ ing[n].target # "nohttp"
  /\ ing[n].target = "url" => mons[n].phase # "absent"

Enabled(n) == ing[n].phase = "live" /\ ing[n].enabled = "true" /\ Servable(n)

Disabled(n) == ing[n].phase = "absent" \/ (ing[n].phase = "live" /\ ing[n].enabled = "false")

(* "creates/updates/deletes Monitor resources only when ingress            *)
(* annotations (...) include enabled=true" (docs/architecture.md:128), a   *)
(* promise: when users and faults rest, an enabled ingress has its Monitor *)
(* and a disabled or deleted one has none.  Excepted are enabled ingresses *)
(* that ask for what is refused at every attempt: an unknown annotation, a *)
(* rule without paths, or monitor.url before there is a Monitor, for that  *)
(* annotation is never read and the new Monitor has no URL; ingresses of   *)
(* one name in two namespaces; and Monitors in missed: created before the  *)
(* finalizer and not recorded by it, not yet in the cached list, or gone   *)
(* behind the reconciler's back.                                           *)
EventuallyMirrored ==
  <>[](shared \/ \A n \in Namespaces \ missed :
         /\ Enabled(n) => /\ mons[n].phase = "live" /\ mons[n].mine
                          /\ ing[n].rest # "none" => mons[n].rest = ing[n].rest
                          /\ ing[n].target = "host" => mons[n].url = "host"
                          /\ ing[n].target = "none" => mons[n].url = "rule"
         /\ Disabled(n) => mons[n].phase = "absent")

(* A deleted ingress goes, although its Monitors may have gone before and  *)
(* not-found is an error to the reconciler.                                *)
DeletionEnds == \A n \in Namespaces : ing[n].phase = "deleting" ~> ing[n].phase # "deleting"
=============================================================================
