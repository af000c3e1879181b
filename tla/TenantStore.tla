---------------------------- MODULE TenantStore ----------------------------
(***************************************************************************)
(* What the BIG-IP's AS3 store is meant to go through: the declaration of   *)
(* each tenant changes one whole request at a time.  Each step is a call of *)
(* As3Request (request.go) whose GET and POST happen at once, a patch of a  *)
(* source address list (UpdateBigIPSourceAddress), or the initialisation    *)
(* of Common (InitAs3Tenant).  As3Client shows that the real calls, with    *)
(* their separate remote steps, implement this module.                      *)
(***************************************************************************)
EXTENDS As3Declaration

CONSTANTS
    Requests    \* the requests the handlers can make

VARIABLES
    store       \* store[t]: the declaration of tenant t, or Absent

ASSUME RequestsAssumption == \A q \in Requests : WellFormed(q)

StoreTypeOK ==
    /\ DOMAIN store = Tenants
    /\ \A t \in Tenants :
            store[t] # Absent => IsApp(store[t]) /\ DOMAIN store[t].policy = PolicyTypes(t)

\* Nothing is declared, or Common is since an earlier start.
StoreInit ==
    store \in {[t \in Tenants |-> IF t = Common THEN app ELSE Absent] :
                   app \in {Absent, DefaultApp(Common)}}

\* InitAs3Tenant: the controller of the master cluster declares Common.
InitCommon ==
    /\ store[Common] = Absent
    /\ store' = [store EXCEPT ![Common] = DefaultApp(Common)]

\* As3Request, when there is something to post.
Apply(q) ==
    LET t == TenantOf[q.rule]
    IN  /\ ~UpToDate(store[t], q)
        /\ store' = [store EXCEPT ![t] = Body(store[t], q)]

\* UpdateBigIPSourceAddress: the address list of the rule must be there.
PatchSource(r, s, A) ==
    LET t == TenantOf[r]
    IN  /\ store[t] # Absent
        /\ <<r, s>> \in DOMAIN store[t].src
        /\ store' = [store EXCEPT ![t].src[<<r, s>>] = A]

StoreNext ==
    \/ InitCommon
    \/ \E q \in Requests : Apply(q)
    \/ \E r \in Rules, s \in Services, A \in (SUBSET Addrs) \ {{}} :
            RuleType[r] = "svc" /\ PatchSource(r, s, A)

StoreSpec == StoreInit /\ [][StoreNext]_store

-----------------------------------------------------------------------------
Declared == {t \in Tenants : store[t] # Absent}
NonDeny(s) == Range(s) \ {Deny}

\* The deny-all rule list is the last of the service policy, once, and is in no
\* other policy: no service rule is ever behind it (policyMergeFullJson).
DenyLast ==
    \A t \in Declared, y \in Types :
        y \in DOMAIN store[t].policy =>
            LET s == store[t].policy[y]
            IN  {i \in DOMAIN s : s[i] = Deny} = IF y = "svc" THEN {Len(s)} ELSE {}

\* A policy lists each rule list of its type exactly once, and nothing else:
\* no enforced rule list is left without a use and no use is left behind.
PolicyListsRules ==
    \A t \in Declared : \A y \in DOMAIN store[t].policy :
        /\ IsInjective(store[t].policy[y])
        /\ NonDeny(store[t].policy[y]) = {k \in DOMAIN store[t].rules : RuleType[k[1]] = y}

NoOrphans(app) ==
    /\ DOMAIN app.dst \subseteq DOMAIN app.rules
    /\ DOMAIN app.ports \subseteq ReferencedPorts(app)
    /\ DOMAIN app.src \subseteq ReferencedSrc(app)

Resolves(app) ==
    /\ DOMAIN app.rules \subseteq DOMAIN app.dst
    /\ ReferencedPorts(app) \subseteq DOMAIN app.ports

\* clearUpUnreferencePolicy leaves no address list and no port list behind
\* that no rule list uses.
NoOrphanLists == \A t \in Declared : NoOrphans(store[t])

\* Every destination list and every port list a rule list uses is declared.
RefsResolve == \A t \in Declared : Resolves(store[t])

\* Requests of an external service are not concerned with source addresses (the
\* comment in newRulesDecl, "exsvc update, need not focus on"): every source address
\* list a rule list uses, one for all services of the rule, stays declared.
SrcResolves ==
    \A t \in Declared : ReferencedSrc(store[t]) \subseteq DOMAIN store[t].src

\* The virtual server names the log profile if the configuration it was declared with
\* has one.
LogResolves(app) == (app.conf # NoConf /\ Logging[app.conf]) => app.log

\* A deletion is meant to leave the virtual server and what it needs alone ("poll and
\* vs don,t delete, only add or modify" in fullResource): its log profile is there.
LogProfileThere == \A t \in Declared : LogResolves(store[t])

\* It is lost to a deletion under a configuration that has no profile any more, or
\* because of the template: the profile was not read for the declaration, or it was read
\* for a deletion and not when the deletion looked for what to skip.
LosesProfile(q) ==
    IF q.isDelete THEN ~Logging[Version[q.conf]] \/ q.conf \in Profile \ KeptProfile
    ELSE Logging[Version[q.conf]] /\ q.conf \notin Profile

LogProfileKept ==
    [][\A t \in Tenants :
        LET there(app) == app = Absent \/ LogResolves(app)
        IN  (there(store[t]) /\ ~there(store'[t])) =>
                \E q \in Requests : /\ TenantOf[q.rule] = t /\ LosesProfile(q)
                                    /\ store'[t] = Body(store[t], q)]_store

\* Two requests the handlers make of the same objects: they differ in the order in
\* which newRulesDecl came upon the port groups at most.
SameRequest(q1, q2) ==
    /\ \A f \in {"rule", "exts", "ep", "src", "action", "conf", "isDelete"} : q1[f] = q2[f]
    /\ \A e \in Range(q1.exts) : /\ q1.spec[e].content = q2.spec[e].content
                                 /\ Range(q1.spec[e].ports) = Range(q2.spec[e].ports)

\* What can be made of the same objects again.
Retries == [q \in Requests |-> {q2 \in Requests : SameRequest(q, q2)}]

\* A request that is made again after it succeeded, and finds another order of the
\* port groups, leaves what the second one alone would; it posts nothing if it is
\* no deletion and no external service has two port groups.
RetryIsQuiet ==
    \A q \in Requests : \A again \in Retries[q] :
        LET app  == store[TenantOf[q.rule]]
            once == Body(app, q)
        IN  /\ Body(once, again) = Body(app, again)
            /\ (~q.isDelete /\ \A e \in Range(q.exts) : Len(q.spec[e].ports) < 2) =>
                    UpToDate(once, again)

\* Two declarations that differ in the order of their policies at most.
SameUpToOrder(a, b) ==
    /\ a.rules = b.rules /\ a.dst = b.dst /\ a.ports = b.ports /\ a.src = b.src
    /\ a.conf = b.conf /\ a.log = b.log
    /\ DOMAIN a.policy = DOMAIN b.policy
    /\ \A y \in DOMAIN a.policy : Range(a.policy[y]) = Range(b.policy[y])

\* The workers of two rules can run in either order: their requests commute up
\* to the order in which the policies list the rules.  Both have the configuration
\* from the same version of ces-conf.yaml, with a template that is read the same way twice:
\* otherwise the virtual server and the log profile are those of the last one.
RequestsCommute ==
    \A q1 \in Requests : q1.conf \notin Profile \ KeptProfile =>
        LET app   == store[TenantOf[q1.rule]]
            first == Body(app, q1)
        IN  app # Absent =>
                \A q2 \in Requests :
                    /\ q1.rule # q2.rule /\ TenantOf[q1.rule] = TenantOf[q2.rule]
                    /\ q1.conf = q2.conf
                    => SameUpToOrder(Body(first, q2), Body(Body(app, q2), q1))

\* Before(s, u, v): s lists u before v.
Before(s, u, v) == \E i, j \in DOMAIN s : i < j /\ s[i] = u /\ s[j] = v

\* The BIG-IP takes the first rule list that matches, so a step never changes
\* the order of two rule lists that stay in a policy.
OrderStable ==
    [][\A t \in Declared : store'[t] # Absent =>
        \A y \in DOMAIN store[t].policy :
            \A u, v \in Range(store[t].policy[y]) \cap Range(store'[t].policy[y]) :
                Before(store[t].policy[y], u, v) => Before(store'[t].policy[y], u, v)]_store

\* What tenant t declares for rule r.
PartOf(app, r) ==
    [rules |-> Restrict(app.rules, {k \in DOMAIN app.rules : k[1] = r}),
     dst   |-> Restrict(app.dst,   {k \in DOMAIN app.dst   : k[1] = r}),
     ports |-> Restrict(app.ports, {k \in DOMAIN app.ports : k[1] = r}),
     src   |-> Restrict(app.src,   {k \in DOMAIN app.src   : k[1] = r})]

\* A step changes what is declared for one rule at most, although it posts the
\* declaration of the whole tenant.
OneRuleAtATime ==
    [][\A t \in Declared : store'[t] # Absent =>
        \A r1, r2 \in Rules :
            (/\ PartOf(store[t], r1) # PartOf(store'[t], r1)
             /\ PartOf(store[t], r2) # PartOf(store'[t], r2)) => r1 = r2]_store
=============================================================================
