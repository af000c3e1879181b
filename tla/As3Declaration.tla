--------------------------- MODULE As3Declaration ---------------------------
(***************************************************************************)
(* The AS3 declaration of one BIG-IP tenant (partition) and the pure       *)
(* functions of pkg/as3/utils.go that compute its next value: the delta    *)
(* that a request generates (newAs3Post, generateAS3ResourceDeclaration,   *)
(* dealRule, newRulesDecl, newPoliciesDecl) and the merge of that delta    *)
(* into the declaration the BIG-IP returned (fullResource,                 *)
(* policyMergeFullJson, clearUpUnreferencePolicy, isDiff).                 *)
(*                                                                         *)
(* An attribute of the tenant's "Shared" application is a string built     *)
(* from the rule, the external service, ...; it is modelled by the tuple   *)
(* of the names it is built from.  The application is a record with one    *)
(* partial function per class of attribute.                                *)
(***************************************************************************)
EXTENDS Naturals, Sequences, FiniteSets, SequencesExt

CONSTANTS
    Rules,      \* Cluster-, Namespace- and ServiceEgressRules
    RuleType,   \* RuleType[r] is "global", "ns" or "svc"
    Tenants,    \* BIG-IP partitions
    Common,     \* DefaultPartition, the one that carries the global policy
    TenantOf,   \* TenantOf[r]: the partition GetTenantConfigFor... picks for r
    Exts,       \* ExternalServices
    Ports,      \* port groups of an external service: key, protocol, irule (dealExsvc)
    Contents,   \* what a destination address list and the port lists can hold
    Services,   \* names a source address list is built from (epName)
    Addrs,      \* source addresses (pod addresses, or a namespace's cidr)
    Actions,    \* Spec.Action and Spec.Logging of a rule
    Versions,   \* of ces-conf.yaml
    Logging,    \* Logging[v]: isConfigLogProfile() under version v
    Confs,      \* what a request finds in it: a version, and what becomes of its log
    Version,    \* template when newLogPoolDecl is called for the delta, and again by
    Profile,    \* skipDeleteShareApplicationClassOrAttr: the first call declares the log
    KeptProfile,\* profile under Profile, the second one under KeptProfile
    NoConf,     \* initDefaultAS3 declares no pool, virtual server or log profile
    Deny        \* the use of the deny-all rule list, in the "svc" policy

Types == {"global", "ns", "svc"}

\* The policies a tenant has: only Common has the global one.
PolicyTypes(t) == IF t = Common THEN Types ELSE Types \ {"global"}

ASSUME DeclarationAssumption ==
    /\ RuleType \in [Rules -> Types]
    /\ TenantOf \in [Rules -> Tenants]
    /\ Common \in Tenants
    /\ \A r \in Rules : RuleType[r] = "global" => TenantOf[r] = Common
    /\ Logging \in [Versions -> BOOLEAN]
    /\ Version \in [Confs -> Versions]
    /\ Profile \cup KeptProfile \subseteq {c \in Confs : Logging[Version[c]]}
    /\ NoConf \notin Versions
    /\ Deny \notin Rules \X Exts

-----------------------------------------------------------------------------
(* The application of a tenant. *)

RuleKeys == Rules \X Exts               \* ..._ext_<e>_rule_list, ..._address
PortKeys == Rules \X Exts \X Ports      \* ..._ext_<e>_ports_<p>
SrcKeys  == Rules \X Services           \* ..._src_address
Uses     == RuleKeys \cup {Deny}        \* what a policy can list

\* A rule list: its firewall rules in order, one per port group of the
\* external service (the empty sequence is the single rule "any", which uses
\* no port list), the source address list it uses (none or one), its action.
RuleList == [ports : Seq(Ports), from : SUBSET Services, action : Actions]

\* GET answered "{}": the tenant is not declared.
Absent == <<>>

\* f is a function from some elements of S to elements of T.
Partial(f, S, T) ==
    /\ DOMAIN f \subseteq S
    /\ f \in [DOMAIN f -> T]

IsApp(app) ==
    /\ app = [policy |-> app.policy, rules |-> app.rules, dst |-> app.dst,
              ports |-> app.ports, src |-> app.src, conf |-> app.conf, log |-> app.log]
    /\ Partial(app.policy, Types, Seq(Uses))
    /\ Partial(app.rules, RuleKeys, RuleList)
    /\ Partial(app.dst, RuleKeys, Contents)
    /\ Partial(app.ports, PortKeys, Contents)
    /\ Partial(app.src, SrcKeys, SUBSET Addrs)
    /\ app.conf \in Versions \cup {NoConf}
    /\ app.log \in BOOLEAN

\* as3Application.initDefault: the policies of a tenant before any rule.
\* Mutant: the test for the Common partition is missing.
InitPolicies_NoGuard(t) == [y \in Types |-> IF y = "svc" THEN <<Deny>> ELSE <<>>]
InitPolicies(t) == [y \in PolicyTypes(t) |-> IF y = "svc" THEN <<Deny>> ELSE <<>>]

\* What InitAs3Tenant posts when Common is not declared (initDefaultAS3).
DefaultApp(t) ==
    [policy |-> InitPolicies(t),
     rules  |-> <<>>, dst |-> <<>>, ports |-> <<>>, src |-> <<>>,
     conf   |-> NoConf, log |-> FALSE]

-----------------------------------------------------------------------------
(* A request: the arguments of As3Request, reduced to what the generated   *)
(* declaration depends on.  exts lists, in the order of                     *)
(* Spec.ExternalServices, those that are also in externalServiceList; spec *)
(* is what those services declare, their port groups in the order in which *)
(* newRulesDecl comes upon them (a Go map: any order, each time anew); src  *)
(* are the addresses found for the rule (endpoints, or the namespace's cidr). *)

ExtSpec == [content : Contents, ports : Seq(Ports)]

IsRequest(q) ==
    /\ q.rule \in Rules
    /\ q.exts \in Seq(Exts)
    /\ q.spec \in [Range(q.exts) -> ExtSpec]
    /\ q.ep \in Services
    /\ q.src \subseteq Addrs
    /\ q.action \in Actions
    /\ q.conf \in Confs
    /\ q.isDelete \in BOOLEAN

\* External services are listed once, port groups have one firewall rule each,
\* the handler of a cluster rule passes neither namespaces nor endpoints, and
\* the source of a namespace rule is the namespace's cidr annotation.
WellFormed(q) ==
    /\ IsRequest(q)
    /\ q.exts # <<>>
    /\ IsInjective(q.exts)
    /\ \A e \in Range(q.exts) : IsInjective(q.spec[e].ports)
    /\ RuleType[q.rule] = "global" => q.src = {}
    /\ RuleType[q.rule] = "ns" => q.src # {}

\* Mutants of the two definitions below: a rule list that is named after the
\* external service alone, and port lists of the last service only.
KeysOf_NoRuleName(q) == Rules \X Range(q.exts)
PortKeysOf_LastService(q) ==
    {<<q.rule, Last(q.exts), p>> : p \in Range(q.spec[Last(q.exts)].ports)}

\* newRulesDecl: keys of the rule lists, port lists and source list of q.
\* No source list is generated when no address was found.
KeysOf(q)     == {<<q.rule, e>> : e \in Range(q.exts)}
PortKeysOf(q) == UNION {{<<q.rule, e, p>> : p \in Range(q.spec[e].ports)} :
                            e \in Range(q.exts)}
FromOf(q)     == IF q.src = {} THEN {} ELSE {q.ep}
SrcKeysOf(q)  == {<<q.rule, s>> : s \in FromOf(q)}

\* newPoliciesDecl: the new rule lists, in order, in front of the policy that
\* initDefault prepared.
DeltaPolicies(q) ==
    LET uses == [i \in DOMAIN q.exts |-> <<q.rule, q.exts[i]>>]
        none == InitPolicies(TenantOf[q.rule])
    IN  [y \in DOMAIN none |-> (IF y = RuleType[q.rule] THEN uses ELSE <<>>) \o none[y]]

\* newGWPoolDecl, newVirtualAddressDecl and newServiceDecl: the pool, the virtual
\* address and the virtual server, which depend on the configuration alone.
ServiceDeclared(q) == Version[q.conf]

\* newLogPoolDecl declares the log profile, and its publisher and pool.  It returns
\* without an error when the template is no JSON, and at the first entry that is no
\* object: a Go map, so what it has declared by then differs from call to call.  A
\* deletion skips what another call declares.
\* Mutant: the profile is left to someone else.
LogDeclared_Never(q) == FALSE
LogDeclared(q) == q.conf \in Profile /\ (q.isDelete => q.conf \notin KeptProfile)

\* generateAS3ResourceDeclaration: the application that declares q alone.
Delta(q) ==
    [policy |-> DeltaPolicies(q),
     rules  |-> [k \in KeysOf(q) |-> [ports  |-> q.spec[k[2]].ports,
                                      from   |-> FromOf(q),
                                      action |-> q.action]],
     dst    |-> [k \in KeysOf(q) |-> q.spec[k[2]].content],
     ports  |-> [k \in PortKeysOf(q) |-> q.spec[k[2]].content],
     src    |-> [k \in SrcKeysOf(q) |-> q.src],
     conf   |-> ServiceDeclared(q),
     log    |-> LogDeclared(q)]

-----------------------------------------------------------------------------
(* The merge. *)

\* Mutants of DenyToEnd: it is forgotten, or moves the deny-all one place only.
DenyToEnd_Never(s) == s
DenyToEnd_OnePlace(s) ==
    IF ~ \E i \in DOMAIN s : i < Len(s) /\ s[i] = Deny THEN s
    ELSE LET i == CHOOSE i \in DOMAIN s : s[i] = Deny
         IN  [s EXCEPT ![i] = s[i+1], ![i+1] = Deny]

\* The deny-all use, wherever it is, changes places with the last use.
DenyToEnd(s) ==
    IF Deny \notin Range(s) THEN s
    ELSE LET i == CHOOSE i \in DOMAIN s :
                    s[i] = Deny /\ \A j \in DOMAIN s : s[j] = Deny => j <= i
         IN  [s EXCEPT ![i] = s[Len(s)], ![Len(s)] = Deny]

\* The elements of s that are not in S, in order.
Without(s, S) ==
    LET left[n \in 0..Len(s)] ==
            IF n = 0 THEN <<>>
            ELSE IF s[n] \in S THEN left[n-1] ELSE Append(left[n-1], s[n])
    IN  left[Len(s)]

\* Mutants of PolicyMerge: a use that is already in the policy is added again,
\* or is moved to the front.
PolicyMerge_AddsAgain(s, delta, isDelete) ==
    DenyToEnd(IF isDelete THEN Without(s, Range(delta) \ {Deny}) ELSE s \o delta)
PolicyMerge_MovesToFront(s, delta, isDelete) ==
    LET others == Without(s, Range(delta) \ {Deny})
    IN  DenyToEnd(IF isDelete THEN others ELSE Without(delta, {Deny}) \o others)

\* policyMergeFullJson: a deletion takes the delta's uses out of the policy
\* (never the deny-all), anything else appends the uses that are not in it.
PolicyMerge(s, delta, isDelete) ==
    DenyToEnd(IF isDelete THEN Without(s, Range(delta) \ {Deny})
              ELSE s \o Without(delta, Range(s)))

\* The attributes of d in front of those of f.
Override(d, f) ==
    [k \in DOMAIN d \cup DOMAIN f |-> IF k \in DOMAIN d THEN d[k] ELSE f[k]]

\* The loop of fullResource over the attributes of the delta, for one class.
\* Mutant: the attributes that the request does not mention are not kept.
MergeAttrs_Replaces(f, d, isDelete) ==
    IF isDelete THEN Restrict(f, DOMAIN f \ DOMAIN d) ELSE d
MergeAttrs(f, d, isDelete) ==
    IF isDelete THEN Restrict(f, DOMAIN f \ DOMAIN d) ELSE Override(d, f)

\* The whole loop: a deletion keeps the pool, the virtual server and its
\* address.
Merged(app, d, isDelete) ==
    [policy |-> [y \in DOMAIN app.policy |->
                    PolicyMerge(app.policy[y], d.policy[y], isDelete)],
     rules  |-> MergeAttrs(app.rules, d.rules, isDelete),
     dst    |-> MergeAttrs(app.dst, d.dst, isDelete),
     ports  |-> MergeAttrs(app.ports, d.ports, isDelete),
     src    |-> MergeAttrs(app.src, d.src, isDelete),
     conf   |-> IF isDelete THEN app.conf ELSE d.conf,
     log    |-> IF isDelete THEN app.log /\ ~d.log ELSE app.log \/ d.log]

\* clearUpUnreferencePolicy: address and port lists that no rule list uses are
\* dropped, and the log profile when the configuration has none.
ReferencedPorts(app) ==
    UNION {{<<k[1], k[2], p>> : p \in Range(app.rules[k].ports)} : k \in DOMAIN app.rules}
ReferencedSrc(app) ==
    UNION {{<<k[1], s>> : s \in app.rules[k].from} : k \in DOMAIN app.rules}

\* Mutant of Used: unreferenced lists are not collected.
Used_All(f, S) == f
Used(f, S) == Restrict(f, DOMAIN f \cap S)

ClearUp(app, conf) ==
    [policy |-> app.policy,
     rules  |-> app.rules,
     dst    |-> Used(app.dst, DOMAIN app.rules),
     ports  |-> Used(app.ports, ReferencedPorts(app)),
     src    |-> Used(app.src, ReferencedSrc(app)),
     conf   |-> app.conf,
     log    |-> app.log /\ Logging[Version[conf]]]

\* isDiff looks only at the attributes of the new application: an attribute
\* that is gone is no difference.
Kept(old, new) == \A k \in DOMAIN new : k \in DOMAIN old /\ new[k] = old[k]

IsDiff(old, new) ==
    ~(/\ new.policy = old.policy
      /\ Kept(old.rules, new.rules)
      /\ Kept(old.dst, new.dst)
      /\ Kept(old.ports, new.ports)
      /\ Kept(old.src, new.src)
      /\ new.conf = old.conf
      /\ new.log => old.log)

\* fullResource: the application that is posted for request q when the BIG-IP
\* returned app.  Deleting from a tenant that is not declared posts a tenant
\* whose Shared application is null, which leaves it as undeclared as it was.
Body(app, q) ==
    IF app = Absent
    THEN IF q.isDelete THEN Absent ELSE Delta(q)
    ELSE ClearUp(Merged(app, Delta(q), q.isDelete), q.conf)

\* fullResource returned nil: "as3 is not update".
UpToDate(app, q) ==
    app # Absent /\ ~q.isDelete /\ ~IsDiff(app, Body(app, q))
=============================================================================
