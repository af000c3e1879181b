----------------------------- MODULE Controller -----------------------------
(***************************************************************************)
(* The controller (pkg/controller): five workers, each with a queue of its   *)
(* own, and their sync handlers, step by step between the remote calls.  A   *)
(* handler reads the informers' caches, writes labels and status to the API  *)
(* server and asks the BIG-IP for one request of TenantStore, which As3Client *)
(* shows to take effect at once.  Informers has the other side.              *)
(***************************************************************************)
EXTENDS Informers, TenantStore

CONSTANTS
    Refused,    \* external services that verifyExtenalService refuses
    Routed,     \* tenants whose route domain is not 0
    In10,       \* In10[a]: address a in route domain 10, "a%10"
    UsersWait   \* what users wait for (a bound): "quiet", "up", or "nothing"

\* "api": an API call fails; "answer": only its answer is lost; "as3": As3Request
\* fails; "bind": it fails after its post.
ControllerFaults == {"api", "answer", "as3", "bind", "missed", "crash"}

ASSUME ControllerAssumption ==
    /\ Faults \subseteq ControllerFaults
    /\ Refused \subseteq ExtSpecs
    /\ Routed \subseteq Tenants
    /\ In10 \in [Addrs -> Addrs]
    /\ UsersWait \in {"quiet", "up", "nothing"}
    /\ \A r \in Rules, s \in Lists, f \in UNION {[S -> ExtSpecs] : S \in SUBSET Exts},
          ep \in Services, A \in SUBSET Addrs, a \in Actions, c \in Confs, d \in BOOLEAN :
            LET q == [rule |-> r, exts |-> s, spec |-> f, ep |-> ep, src |-> A,
                      action |-> a, conf |-> c, isDelete |-> d]
            IN  WellFormed(q) => q \in Requests

VARIABLES
    pc,         \* pc[w]: the next step of worker w
    item,       \* item[w]: the queue's entry it works on
    req,        \* req[w]: the request its handler builds
    todo,       \* todo[w]: the external services the handler has not looked up yet
    announced   \* announced[w]: the rule's phase was Syncing when it was read

workers == <<pc, item, req, todo, announced>>
vars == <<informers, store, workers>>

Steps == {"idle", "exts", "nothing", "status", "post", "done", "patch"}
NoItem == <<>>

Idle(w) ==
    /\ pc' = [pc EXCEPT ![w] = "idle"]
    /\ item' = [item EXCEPT ![w] = NoItem]
    /\ req' = [req EXCEPT ![w] = NoItem]
    /\ todo' = [todo EXCEPT ![w] = <<>>]
    /\ announced' = [announced EXCEPT ![w] = FALSE]
    /\ object' = [r \in Rules |-> IF RuleType[r] = w THEN "none" ELSE object[r]]

\* The handler returns nil or an error: Forget, or AddRateLimited.  Mutant of
\* Requeue: the handler's error is dropped.
Forget(w)  == Idle(w) /\ UNCHANGED queue
Requeue_Forgets(w) == Idle(w) /\ UNCHANGED queue
Requeue(w) == Idle(w) /\ queue' = queue \cup {item[w]}

Init ==
    /\ InformersInit
    /\ StoreInit
    /\ pc = [w \in Workers |-> "idle"]
    /\ item = [w \in Workers |-> NoItem]
    /\ req = [w \in Workers |-> NoItem]
    /\ todo = [w \in Workers |-> <<>>]
    /\ announced = [w \in Workers |-> FALSE]

\* The next entry of its queue, in any order: an entry that failed comes again
\* after a delay.
Takes(w, i) == Up /\ pc[w] = "idle" /\ i \in queue /\ WorkerOf(i.key) = w

\* The version of an external service its handler works on: the cached one, or the
\* queue's.
ExtOf(i) ==
    LET e == i.key
    IN  IF cache[e].live THEN [spec |-> cache[e].spec, label |-> cache[e].mark]
        ELSE [spec |-> i.spec, label |-> i.label]

\* Nothing is left to do, but for external services that are refused again and again.
Quiet ==
    /\ Up /\ fresh = Cached
    /\ \A i \in queue : i.key \in Exts /\ ExtOf(i).spec \in Refused
    /\ \A w \in Workers : pc[w] = "idle"

-----------------------------------------------------------------------------
(* The three handlers of rules: f5ClusterEgressRuleSyncHandler,              *)
(* namespaceEgressRuleSyncHandler, serviceEgressRuleSyncHandler.             *)

\* Where the source addresses come from; without it a handler returns an error,
\* and the entry stays in the queue.  Mutant: they are found by the rule in the cache.
SourceKnown_LiveRule(r, spec) ==
    /\ cache[r].live
    /\ RuleType[r] = "ns" => api[Namespace].live
    /\ RuleType[r] = "svc" => cache[spec.svc].live
SourceKnown(r, spec) ==
    /\ RuleType[r] = "ns" => api[Namespace].live
    /\ RuleType[r] = "svc" => cache[spec.svc].live
SourceOf(r, spec) ==
    CASE RuleType[r] = "global" -> {}
      [] RuleType[r] = "ns"     -> api[Namespace].spec
      [] RuleType[r] = "svc"    -> Ready(cache[spec.svc].spec)

InRange(r) == RuleType[r] = "global" \/ r \in Watched

\* The request for rule r as the handler reads it, with no external service yet.
Asked(r, spec, isDelete, c) ==
    [rule |-> r, exts |-> <<>>, spec |-> <<>>, ep |-> spec.svc, src |-> SourceOf(r, spec),
     action |-> spec.action, conf |-> c, isDelete |-> isDelete]

\* What a handler does after it looked up an external service.
After(q, rest, known) ==
    IF rest # <<>> THEN "exts"
    ELSE IF q.exts = <<>> THEN "nothing"
    ELSE IF q.isDelete \/ known THEN "post" ELSE "status"

\* The rule is read from the lister; if it is not there it was deleted, and the
\* queue's object is used.
\* Mutant: the handler trusts the queue's object, as an edge-triggered one would.
SpecRead_Queued(i) == i.spec
SpecRead(i) == IF cache[i.key].live THEN cache[i.key].spec ELSE i.spec

RuleStart(w, i) ==
    LET r        == i.key
        isDelete == ~cache[r].live
        spec     == SpecRead(i)
        known    == ~isDelete /\ cache[r].mark = "syncing"
    IN  /\ Takes(w, i) /\ r \in Rules
        /\ InRange(r)
        /\ SourceKnown(r, spec)
        /\ queue' = queue \ {i}
        /\ item' = [item EXCEPT ![w] = i]
        /\ \E c \in Confs : req' = [req EXCEPT ![w] = Asked(r, spec, isDelete, c)]
        /\ todo' = [todo EXCEPT ![w] = spec.exts]
        /\ announced' = [announced EXCEPT ![w] = known]
        /\ pc' = [pc EXCEPT ![w] = After(req'[w], spec.exts, known)]
        /\ object' = [object EXCEPT ![r] = "cached"]
        /\ UNCHANGED <<api, cache, fresh, synced, store>>

\* A rule outside the watch range: return nil.
RuleIgnored(w, i) ==
    /\ Takes(w, i) /\ i.key \in Rules
    /\ ~InRange(i.key)
    /\ queue' = queue \ {i}
    /\ UNCHANGED <<api, cache, fresh, synced, object, store, workers>>

\* The loop over Spec.ExternalServices goes on, with or without e.
Proceed(w, q) ==
    LET rest == Tail(todo[w])
    IN  /\ req' = [req EXCEPT ![w] = q]
        /\ todo' = [todo EXCEPT ![w] = rest]
        /\ pc' = [pc EXCEPT ![w] = After(q, rest, announced[w])]
        /\ UNCHANGED <<synced, queue, object, store, item, announced>>

\* Mutant of With: what the service declares is left out.
With_NameOnly(q, e) == [q EXCEPT !.exts = Append(@, e)]
With(q, e) == [q EXCEPT !.exts = Append(@, e),
                        !.spec = Override([x \in {e} |-> cache[e].spec], @)]

\* "externalService does not exist".
ExtMissing(w) ==
    /\ pc[w] = "exts"
    /\ ~cache[Head(todo[w])].live
    /\ Proceed(w, req[w])
    /\ UNCHANGED <<api, cache, fresh>>

\* Mutant of NewLabel: it is always taken away.
NewLabel_None(w) == "none"
NewLabel(w) == IF req[w].isDelete THEN "none" ELSE w

\* The label is right already; a deletion updates it all the same.
ExtLabelled(w) ==
    LET e == Head(todo[w])
    IN  /\ pc[w] = "exts"
        /\ cache[e].live /\ ~req[w].isDelete /\ cache[e].mark = w
        /\ Proceed(w, With(req[w], e))
        /\ UNCHANGED <<api, cache, fresh>>

\* The label is set in the cached object, and then in the API server.
LabelCall(w, e) ==
    /\ pc[w] = "exts" /\ e = Head(todo[w])
    /\ cache[e].live
    /\ req[w].isDelete \/ cache[e].mark # w
    /\ cache' = Mutated(e, NewLabel(w))

ExtLabel(w) ==
    \E e \in Exts :
        /\ LabelCall(w, e)
        /\ WriteLabel(e, NewLabel(w))
        /\ Proceed(w, With(req[w], e))

\* Update returns an error: a conflict, or it failed, or its answer is lost.
ExtLabelFails(w) ==
    \E e \in Exts :
        /\ LabelCall(w, e)
        /\ \/ (e \notin fresh \/ "api" \in Faults) /\ UNCHANGED <<api, fresh>>
           \/ "answer" \in Faults /\ WriteLabel(e, NewLabel(w))
        /\ Requeue(w)
        /\ UNCHANGED <<synced, store>>

\* "ExternalServices is not found ..., no need synchronize".
NothingToDo(w) ==
    /\ pc[w] = "nothing"
    /\ Forget(w)
    /\ UNCHANGED <<api, cache, fresh, synced, store>>

\* Status.Phase is set in the object the handler has; what UpdateStatus returns
\* takes its place.
Phased(r, phase) == IF object[r] = "cached" THEN Mutated(r, phase) ELSE cache

Announce(w) ==
    LET r == req[w].rule
    IN  /\ pc[w] = "status"
        /\ WritePhase(r, "syncing")
        /\ cache' = Phased(r, "syncing")
        /\ object' = [object EXCEPT ![r] = "current"]
        /\ pc' = [pc EXCEPT ![w] = "post"]
        /\ UNCHANGED <<synced, queue, store, item, req, todo, announced>>

\* UpdateStatus before ("syncing") or after ("success") the request, with an error.
PhaseFails(w, step, phase) ==
    LET r == req[w].rule
    IN  /\ pc[w] = step
        /\ \/ (~Current(r) \/ "api" \in Faults) /\ UNCHANGED <<api, fresh>>
           \/ "answer" \in Faults /\ WritePhase(r, phase)
        /\ cache' = Phased(r, phase)
        /\ Requeue(w)
        /\ UNCHANGED <<synced, store>>

\* Mutant of Succeed: no resourceVersion is compared, as if it were cleared.
Succeed_AnyVersion(w) ==
    LET r == req[w].rule
    IN  /\ pc[w] = "done"
        /\ api' = [api EXCEPT ![r].mark = "success"]
        /\ fresh' = fresh \ {r}
        /\ cache' = Phased(r, "success")
        /\ Forget(w)
        /\ UNCHANGED <<synced, store>>

Succeed(w) ==
    LET r == req[w].rule
    IN  /\ pc[w] = "done"
        /\ WritePhase(r, "success")
        /\ cache' = Phased(r, "success")
        /\ Forget(w)
        /\ UNCHANGED <<synced, store>>

-----------------------------------------------------------------------------
(* As3Request, for the workers of rules and of external services. *)

\* Mutant of Posted: what is generated is posted as it is, and replaces the tenant.
Posted_NotMerged(w) ==
    store' = [store EXCEPT ![TenantOf[req[w].rule]] = Delta(req[w])]

Posted(w) ==
    LET q == req[w]
    IN  IF UpToDate(store[TenantOf[q.rule]], q) THEN UNCHANGED store ELSE Apply(q)

Post(w) ==
    /\ pc[w] = "post"
    /\ Posted(w)
    /\ IF w = "ext" \/ req[w].isDelete
       THEN Forget(w)
       ELSE /\ pc' = [pc EXCEPT ![w] = "done"]
            /\ UNCHANGED <<queue, object, item, req, todo, announced>>
    /\ UNCHANGED <<api, cache, fresh, synced>>

PostFails(w) ==
    /\ pc[w] = "post"
    /\ \/ "as3" \in Faults /\ UNCHANGED store
       \/ "bind" \in Faults /\ Posted(w)
    /\ Requeue(w)
    /\ UNCHANGED <<api, cache, fresh, synced>>

-----------------------------------------------------------------------------
(* externalServiceSyncHandler. *)

\* The rules of the label's type that list e, in the watched namespace unless they are
\* global; the handler takes the first one the lister returns, in any order.
\* Mutant: the rules are not searched.
RulesListing_None(e, label) == {}
RulesListing(e, label) ==
    {r \in Rules : /\ cache[r].live /\ InRange(r)
                   /\ RuleType[r] = label
                   /\ e \in Range(cache[r].spec.exts)}

\* A service with a bandwidth that is not configured is refused with an error.
ExtStart(i) ==
    LET e == i.key
    IN  /\ Takes("ext", i)
        /\ ExtOf(i).spec \notin Refused
        /\ \E r \in RulesListing(e, ExtOf(i).label), c \in Confs :
                /\ SourceKnown(r, cache[r].spec)
                /\ req' = [req EXCEPT !["ext"] =
                             [Asked(r, cache[r].spec, ~cache[e].live, c) EXCEPT
                                !.exts = <<e>>, !.spec = [x \in {e} |-> ExtOf(i).spec]]]
        /\ queue' = queue \ {i}
        /\ item' = [item EXCEPT !["ext"] = i]
        /\ pc' = [pc EXCEPT !["ext"] = "post"]
        /\ UNCHANGED <<api, cache, fresh, synced, object, store, todo, announced>>

\* No label, or "not found Associated rules".
ExtIgnored(i) ==
    /\ Takes("ext", i)
    /\ ExtOf(i).spec \notin Refused
    /\ RulesListing(i.key, ExtOf(i).label) = {}
    /\ ExtOf(i).label = "ns" => api[Namespace].live
    /\ queue' = queue \ {i}
    /\ UNCHANGED <<api, cache, fresh, synced, object, store, workers>>

-----------------------------------------------------------------------------
(* endpointsSyncHandler. *)

RulesOf(s) ==
    {r \in Rules \cap Watched : cache[r].live /\ RuleType[r] = "svc" /\ cache[r].spec.svc = s}

\* No address of a pod that is ready is an error, and the entry stays in the queue.
EndpointsStart(i) ==
    LET s == i.key
    IN  /\ Takes("ep", i)
        /\ s \in Watched /\ cache[s].live /\ Ready(cache[s].spec) # {}
        /\ \E r \in RulesOf(s), c \in Confs :
                req' = [req EXCEPT !["ep"] = Asked(r, cache[r].spec, FALSE, c)]
        /\ queue' = queue \ {i}
        /\ item' = [item EXCEPT !["ep"] = i]
        /\ pc' = [pc EXCEPT !["ep"] = "patch"]
        /\ UNCHANGED <<api, cache, fresh, synced, object, store, todo, announced>>

EndpointsIgnored(i) ==
    LET s == i.key
    IN  /\ Takes("ep", i)
        /\ s \notin Watched \/ ~cache[s].live \/ RulesOf(s) = {}
        /\ queue' = queue \ {i}
        /\ UNCHANGED <<api, cache, fresh, synced, object, store, workers>>

\* UpdateBigIPSourceAddress.  It marks addresses for route domain 10, whichever it is;
\* a declaration leaves them to the tenant's own.
Patched(q) ==
    IF TenantOf[q.rule] \in Routed THEN {In10[a] : a \in q.src} ELSE q.src

EndpointsPatch ==
    /\ pc["ep"] = "patch"
    /\ PatchSource(req["ep"].rule, req["ep"].ep, Patched(req["ep"]))
    /\ Forget("ep")
    /\ UNCHANGED <<api, cache, fresh, synced>>

\* Its error, for instance because the list is not there, is not looked at.
EndpointsPatchFails ==
    LET r == req["ep"].rule
        t == TenantOf[r]
    IN  /\ pc["ep"] = "patch"
        /\ \/ "as3" \in Faults
           \/ ~(store[t] # Absent /\ <<r, req["ep"].ep>> \in DOMAIN store[t].src)
        /\ Forget("ep")
        /\ UNCHANGED <<api, cache, fresh, synced, store>>

-----------------------------------------------------------------------------
User ==
    /\ UsersWait = "quiet" => Quiet
    /\ UsersWait = "up" => Up
    /\ \E o \in Objects : \E ch \in Changes[o] : Edit(o, ch[2])
    /\ UNCHANGED <<store, workers>>

WatchOf(k) ==
    /\ \/ \E o \in {o \in Cached : WorkerOf(o) = k} : Deliver(o) \/ Missed(o)
       \/ List(k)
    /\ UNCHANGED <<store, workers>>

Watch == \E k \in Workers : WatchOf(k)

\* What a worker of rules does once it has an entry.
RuleStep(w) ==
    \/ ExtMissing(w) \/ ExtLabelled(w) \/ ExtLabel(w) \/ ExtLabelFails(w)
    \/ NothingToDo(w)
    \/ Announce(w) \/ PhaseFails(w, "status", "syncing")
    \/ Post(w) \/ PostFails(w)
    \/ Succeed(w) \/ PhaseFails(w, "done", "success")

RuleWorker(w) == RuleStep(w) \/ \E i \in queue : RuleStart(w, i) \/ RuleIgnored(w, i)

ClusterEgressRuleWorker   == RuleWorker("global")
NamespaceEgressRuleWorker == RuleWorker("ns")
ServiceEgressRuleWorker   == RuleWorker("svc")

ExternalServiceWorker ==
    \/ \E i \in queue : ExtStart(i) \/ ExtIgnored(i)
    \/ Post("ext") \/ PostFails("ext")

EndpointsWorker ==
    \/ \E i \in queue : EndpointsStart(i) \/ EndpointsIgnored(i)
    \/ EndpointsPatch \/ EndpointsPatchFails

\* The process ends, at the stop signal too: main does not wait for the workers.
Crash ==
    /\ "crash" \in Faults
    /\ Restarted
    /\ pc' = [w \in Workers |-> "idle"]
    /\ item' = [w \in Workers |-> NoItem]
    /\ req' = [w \in Workers |-> NoItem]
    /\ todo' = [w \in Workers |-> <<>>]
    /\ announced' = [w \in Workers |-> FALSE]
    /\ UNCHANGED store

Next ==
    \/ User \/ Watch
    \/ ClusterEgressRuleWorker \/ NamespaceEgressRuleWorker \/ ServiceEgressRuleWorker
    \/ ExternalServiceWorker \/ EndpointsWorker
    \/ Crash

Spec == Init /\ [][Next]_vars

\* The informers and the workers run; what users do, crashes and faults are not fair.
Fairness ==
    /\ \A k \in Workers : WF_vars(WatchOf(k))
    /\ WF_vars(ClusterEgressRuleWorker)
    /\ WF_vars(NamespaceEgressRuleWorker)
    /\ WF_vars(ServiceEgressRuleWorker)
    /\ WF_vars(ExternalServiceWorker)
    /\ WF_vars(EndpointsWorker)

FairSpec == Spec /\ Fairness

-----------------------------------------------------------------------------
TypeOK ==
    /\ InformersTypeOK
    /\ StoreTypeOK
    /\ pc \in [Workers -> Steps]
    /\ \A w \in Workers :
        /\ item[w] = NoItem \/ (item[w].key \in Cached /\ WorkerOf(item[w].key) = w)
        /\ req[w] = NoItem \/ IsRequest(req[w])
        /\ todo[w] \in Lists \cup {<<>>}
    /\ announced \in [Workers -> BOOLEAN]

\* What is declared for rule r and external service e.
Holds(r, e) ==
    /\ store[TenantOf[r]] # Absent
    /\ <<r, e>> \in DOMAIN store[TenantOf[r]].rules
DeclaredFor(r, e) == store[TenantOf[r]].rules[<<r, e>>]

LiveRules == {r \in Rules : api[r].live /\ InRange(r)}
LiveExts(r) == {e \in Range(api[r].spec.exts) : api[e].live}

\* Once everything is quiet, every rule has a rule list for each of its external
\* services, with the action of the rule (README.md, "automatcially create policy rules").
RulesDeclared ==
    Quiet => \A r \in LiveRules : \A e \in LiveExts(r) :
                Holds(r, e) /\ DeclaredFor(r, e).action = api[r].spec.action

\* ... with the addresses the external service has by now, if they are not refused,
ContentsCurrent ==
    Quiet => \A r \in LiveRules : \A e \in LiveExts(r) :
                (Holds(r, e) /\ api[e].spec \notin Refused) => store[TenantOf[r]].dst[<<r, e>>] = api[e].spec.content

\* ... with the addresses that the ready pods of the service have by now,
SourcesCurrent ==
    Quiet => \A r \in LiveRules : \A e \in LiveExts(r) :
                (RuleType[r] = "svc" /\ Holds(r, e)) =>
                    /\ DeclaredFor(r, e).from = {api[r].spec.svc}
                    /\ store[TenantOf[r]].src[<<r, api[r].spec.svc>>] = Ready(api[api[r].spec.svc].spec)

\* ... and nothing is left of rules and external services that were deleted.
NothingLeft ==
    Quiet => \A r \in Rules, e \in Exts :
                Holds(r, e) => r \in LiveRules /\ e \in LiveExts(r)

\* Once everything is quiet, the status of every rule that is declared says so.
PhaseSuccess ==
    Quiet => \A r \in LiveRules : LiveExts(r) # {} => api[r].mark = "success"

\* Once everything is quiet, an external service has the label of a rule that lists
\* it, by which the handler of the external service finds the rule; otherwise none.
LabelsMatch ==
    Quiet => \A e \in Exts :
                api[e].live =>
                    LET types == {RuleType[r] : r \in {r \in LiveRules : e \in LiveExts(r)}}
                    IN  IF types = {} THEN api[e].mark = "none" ELSE api[e].mark \in types

\* The status of a rule becomes "success" only when what is declared is the current
\* version of the rule, although users edit, delete and create it at any time.  It compares
\* the action, of the rule lists that are declared: that all are is for RulesDeclared.
SuccessIsTrue ==
    [][\A r \in Rules :
        (api'[r].mark = "success" /\ api[r].mark # "success") =>
            /\ api[r].live
            /\ \A e \in Range(api[r].spec.exts) :
                    Holds(r, e) => DeclaredFor(r, e).action = api[r].spec.action]_vars

\* A remote call fails although nothing is in its way.
CallFails ==
    \/ \E w \in Types :
        \/ ExtLabelFails(w) /\ Head(todo[w]) \in fresh
        \/ PhaseFails(w, "status", "syncing") /\ Current(req[w].rule)
        \/ PhaseFails(w, "done", "success") /\ Current(req[w].rule)
    \/ \E w \in Types \cup {"ext"} : PostFails(w)

\* When users leave it alone, the process stays up and calls stop failing, everything
\* gets done: all versions are delivered, all entries handled, no worker is stuck.
Settles == <>[][~User /\ ~Crash /\ ~CallFails]_vars => <>[]Quiet
=============================================================================
