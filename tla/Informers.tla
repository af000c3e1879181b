----------------------------- MODULE Informers -----------------------------
(***************************************************************************)
(* What the controller sees of the API server (pkg/controller/controller.go *)
(* and the generated informers): the objects, the informers' caches with    *)
(* the event handlers that NewController registers, and the work queues.    *)
(*                                                                         *)
(* A version of an object is never numbered: fresh and object say which     *)
(* copies are the current one, which is all that a resourceVersion is       *)
(* compared for.  An informer that has fallen behind catches up at once, as *)
(* it does when it lists again.                                             *)
(***************************************************************************)
EXTENDS As3Declaration

CONSTANTS
    Namespace,  \* the Namespace object; it has no informer
    Lists,      \* what Spec.ExternalServices can be, and what is left of it
    ExtSpecs,   \* what the external services can be
    NotReady,   \* addresses of pods that are not ready, which Endpoints list apart
    Watched,    \* rules and Endpoints in a namespace that has a TenantConfig
    Initial,    \* Initial[o]: the object at first, as [live, spec]
    Gone,       \* an object that does not exist
    Changes,    \* Changes[o]: what users do to o, as pairs <<from, to>>
    Faults      \* what can go wrong, see ControllerFaults

Objects == Rules \cup Exts \cup Services \cup {Namespace}
Cached  == Objects \ {Namespace}

\* The workers, one per work queue; each queue has an informer.
Workers == Types \cup {"ext", "ep"}
WorkerOf(o) == IF o \in Rules THEN RuleType[o] ELSE IF o \in Exts THEN "ext" ELSE "ep"

\* The mark of a rule is its Status.Phase, that of an external service its label.
Phases == {"none", "syncing", "success"}
Labels == {"none"} \cup Types
Marks  == Phases \cup Labels

\* Endpoints and namespaces come down to addresses: the pods', the cidr annotation.
\* An Endpoints object without any address has no subsets.
RuleSpec == [exts : Lists, action : Actions, svc : Services]
SpecsOf(o) == IF o \in Rules THEN RuleSpec
              ELSE IF o \in Exts THEN ExtSpecs
              ELSE IF o \in Services THEN SUBSET (Addrs \cup NotReady)
              ELSE (SUBSET Addrs) \ {{}}
\* subset.Addresses, which alone are looked at by the handlers.
Ready(addresses) == addresses \cap Addrs

Forms(o) == [live : BOOLEAN, spec : SpecsOf(o), mark : Marks]

\* A queue holds objects, not keys: spec and label count once the object is gone;
\* of Endpoints the key alone is used.
Entry(o, v) == [key   |-> o,
                spec  |-> IF o \in Services THEN <<>> ELSE v.spec,
                label |-> IF o \in Exts THEN v.mark ELSE "none"]

ASSUME InformersAssumption ==
    /\ Namespace \notin Rules \cup Exts \cup Services
    /\ Rules \cap Exts = {} /\ Rules \cap Services = {} /\ Exts \cap Services = {}
    /\ NotReady \cap Addrs = {}
    /\ Lists \subseteq Seq(Exts)
    /\ \A s \in Lists : IsInjective(s) /\ \A i \in DOMAIN s : RemoveAt(s, i) \in Lists
    /\ \A e \in Exts : <<e>> \in Lists
    /\ ExtSpecs \subseteq ExtSpec
    /\ \A s \in ExtSpecs : IsInjective(s.ports)
    /\ \A o \in Objects : Initial[o].live \in BOOLEAN /\ Initial[o].spec \in SpecsOf(o)
    /\ \A o \in Objects : \A ch \in Changes[o] : \A i \in 1..2 : ch[i] = Gone \/ ch[i] \in SpecsOf(o)
    /\ \A o \in Objects : \A v \in SpecsOf(o) : v # Gone

VARIABLES
    api,        \* api[o]: the object in the API server, or what it was last
    cache,      \* cache[o]: the object the informer holds
    fresh,      \* objects whose cached version is the current one
    synced,     \* informers that have listed since the process started
    queue,      \* the entries of the five work queues
    object      \* object[r]: where the handler of rule r has its copy from

informers == <<api, cache, fresh, synced, queue, object>>

\* The handler, while it runs, works on the cache's own object, or on a copy: the
\* answer of UpdateStatus, which is the current version, or an object since replaced.
Copies == {"none", "cached", "current", "old"}

InformersTypeOK ==
    /\ DOMAIN api = Objects /\ \A o \in Objects : api[o] \in Forms(o)
    /\ DOMAIN cache = Cached /\ \A o \in Cached : cache[o] \in Forms(o)
    /\ fresh \subseteq Cached
    /\ synced \subseteq Workers
    /\ \A i \in queue : /\ i.key \in Cached
                        /\ i = [key |-> i.key, spec |-> i.spec, label |-> i.label]
                        /\ i.key \in Rules \cup Exts => i.spec \in SpecsOf(i.key)
                        /\ i.label \in Marks
    /\ object \in [Rules -> Copies]

Unseen(o) == [live |-> FALSE, spec |-> Initial[o].spec, mark |-> "none"]

InformersInit ==
    /\ api = [o \in Objects |->
                [live |-> Initial[o].live, spec |-> Initial[o].spec, mark |-> "none"]]
    /\ cache = [o \in Cached |-> Unseen(o)]
    /\ fresh = {} /\ synced = {} /\ queue = {}
    /\ object = [r \in Rules |-> "none"]

\* The workers run once every informer has listed (WaitForCacheSync).
Up == synced = Workers

-----------------------------------------------------------------------------
(* The API server. *)

\* The handler's copy of the rule is the current version.
Current(r) == object[r] = "current" \/ (object[r] = "cached" /\ r \in fresh)

\* A user (kubectl, or the Endpoints controller) creates, edits or deletes o; the
\* label of an external service is all that matters of a mark after that.
Edited(v, to) ==
    IF to = Gone THEN [v EXCEPT !.live = FALSE, !.mark = IF @ \in Phases THEN "none" ELSE @]
    ELSE [v EXCEPT !.live = TRUE, !.spec = to, !.mark = IF v.live THEN @ ELSE "none"]

\* The watch brings a deletion before the object's next creation, unless it misses
\* it; to wait for it is no restriction, as all that writes to a deleted object fails.
DeletionSeen(o) == o \in fresh \cup {Namespace} \/ WorkerOf(o) \notin synced

Edit(o, to) ==
    /\ ~api[o].live => DeletionSeen(o) \/ "missed" \in Faults
    /\ <<IF api[o].live THEN api[o].spec ELSE Gone, to>> \in Changes[o]
    /\ api' = [api EXCEPT ![o] = Edited(@, to)]
    /\ fresh' = fresh \ {o}
    /\ object' = [r \in Rules |-> IF r = o /\ object[r] = "current" THEN "old" ELSE object[r]]
    /\ UNCHANGED <<cache, synced, queue>>

\* Update of an external service, from the cached object; an update that
\* changes nothing makes no new version.
WriteLabel(e, label) ==
    /\ e \in fresh
    /\ api' = [api EXCEPT ![e].mark = label]
    /\ fresh' = IF api[e].mark = label THEN fresh ELSE fresh \ {e}

\* UpdateStatus of a rule.
WritePhase(r, phase) ==
    /\ Current(r)
    /\ api' = [api EXCEPT ![r].mark = phase]
    /\ fresh' = IF api[r].mark = phase THEN fresh ELSE fresh \ {r}

\* The handlers set label and phase in the object they got from the lister.
Mutated(o, mark) == [cache EXCEPT ![o].mark = mark]

-----------------------------------------------------------------------------
(* The informers. *)

\* isUpdate, for an object of each kind.  The services of a rule are compared
\* old with old, and Endpoints without subsets are no update.
RuleUpdate(r, old, new) ==
    /\ r \in Watched \/ RuleType[r] = "global"
    /\ old.action # new.action \/ old.exts # new.exts

\* Mutant of EndpointsUpdate: only new addresses count.
EndpointsUpdate_Grows(s, old, new) == s \in Watched /\ ~(new \subseteq old)

EndpointsUpdate(s, old, new) == s \in Watched /\ new # {} /\ old # new

\* Mutant of IsUpdate: changes of a rule's action are overlooked.
IsUpdate_NoAction(o, old, new) ==
    IF o \in Rules THEN old.exts # new.exts
    ELSE IF o \in Exts THEN old # new
    ELSE EndpointsUpdate(o, old, new)

IsUpdate(o, old, new) ==
    IF o \in Rules THEN RuleUpdate(o, old, new)
    ELSE IF o \in Exts THEN old # new
    ELSE EndpointsUpdate(o, old, new)

\* AddFunc, UpdateFunc and DeleteFunc; rules alone have an AddFunc.
Notified(o) ==
    \/ ~cache[o].live /\ api[o].live /\ o \in Rules
    \/ cache[o].live /\ api[o].live /\ IsUpdate(o, cache[o].spec, api[o].spec)
    \/ cache[o].live /\ ~api[o].live

\* What an informer that is up to date holds for o.
Listed(o) == IF api[o].live THEN api[o] ELSE Unseen(o)

Replace(o) ==
    /\ WorkerOf(o) \in synced /\ o \notin fresh
    /\ cache' = [cache EXCEPT ![o] = Listed(o)]
    /\ fresh' = fresh \cup {o}
    /\ object' = [r \in Rules |-> IF r = o /\ object[r] = "cached" THEN "old" ELSE object[r]]
    /\ UNCHANGED <<api, synced>>

\* Mutant of Deliver: no DeleteFunc is registered.
Deliver_NoDelete(o) ==
    /\ Replace(o)
    /\ queue' = IF Notified(o) /\ api[o].live THEN queue \cup {Entry(o, api[o])} ELSE queue

\* The watch brings a new version.
Deliver(o) ==
    /\ Replace(o)
    /\ queue' = IF Notified(o) THEN queue \cup {Entry(o, api[o])} ELSE queue

\* The watch missed a deletion: DeleteFunc is called with a
\* DeletedFinalStateUnknown, for which MetaNamespaceKeyFunc has no key.
Missed(o) ==
    /\ "missed" \in Faults
    /\ cache[o].live /\ ~api[o].live
    /\ Replace(o)
    /\ UNCHANGED queue

\* An informer lists for the first time: a rule is an Add.
List(k) ==
    LET objects == {o \in Cached : WorkerOf(o) = k}
    IN  /\ k \notin synced
        /\ synced' = synced \cup {k}
        /\ cache' = [o \in Cached |-> IF o \in objects THEN Listed(o) ELSE cache[o]]
        /\ fresh' = fresh \cup objects
        /\ queue' = queue \cup {Entry(r, api[r]) : r \in {r \in Rules \cap objects : api[r].live}}
        /\ UNCHANGED <<api, object>>

\* The process ends: what it held in memory is gone.
Restarted ==
    /\ cache' = [o \in Cached |-> Unseen(o)]
    /\ fresh' = {} /\ synced' = {} /\ queue' = {}
    /\ object' = [r \in Rules |-> "none"]
    /\ UNCHANGED api
=============================================================================
