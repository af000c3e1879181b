--------------------------- MODULE MCTenantStore ---------------------------
(***************************************************************************)
(* TenantStore on a small cluster: a cluster-wide rule, and a namespace     *)
(* rule of a namespace that is kept in Common too, and two service rules   *)
(* of a namespace with a partition of its own.                             *)
(***************************************************************************)
EXTENDS TenantStore

CONSTANTS
    rg, rn, rs1, rs2, e1, e2, p1, p2, x1, x2, svc, a1, a2, allow, common, part,
    c1, c2, c3, c4, v1, v2, v3,
    BadTemplates,   \* whether there are versions of ces-conf.yaml with a bad log template
    EsDeletions     \* whether external services are deleted while in use

MCRules == {rg, rn, rs1, rs2}
MCRuleType == [r \in MCRules |-> IF r = rg THEN "global" ELSE IF r = rn THEN "ns" ELSE "svc"]
MCTenantOf == [r \in MCRules |-> IF r \in {rg, rn} THEN common ELSE part]

\* The log is configured in v1 and not in v2.  In v3 it has a template with which the
\* profile is never declared, or not each time.
MCConfs == IF BadTemplates THEN {c1, c2, c3, c4} ELSE {c1, c2}
MCVersion == [c \in MCConfs |-> IF c = c1 THEN v1 ELSE IF c = c2 THEN v2 ELSE v3]
MCLogging == [v \in {v1, v2, v3} |-> v # v2]
MCProfile == MCConfs \ {c2, c3}

\* What e1 and e2 declare; e1 is edited from two port groups, which come in either
\* order, to no port; only the requests of rs1 tell these apart.
Declares(r, e) ==
    IF e = e2 THEN {[content |-> x1, ports |-> <<p1>>]}
    ELSE {[content |-> x1, ports |-> <<p1, p2>>]} \cup
         (IF r = rs1 THEN {[content |-> x1, ports |-> <<p2, p1>>], [content |-> x2, ports |-> <<>>]}
                    ELSE {})

\* Spec.ExternalServices, before and after the rule is edited.
ListsOf(r) == IF r = rs1 THEN {<<e1, e2>>, <<e1>>} ELSE {<<e1>>}

SourcesOf(r) == CASE r = rg  -> {{}}
                  [] r = rn  -> {{a1}}
                  [] r = rs1 -> {{a1}}
                  [] r = rs2 -> {{}, {a2}}

ConfsOf(r) == IF r = rs2 THEN MCConfs ELSE {c1}

\* The handler of a rule passes all its external services, the handler of an
\* external service passes that one alone.
Calls(r) ==
    {[exts |-> s, isDelete |-> d] : s \in ListsOf(r), d \in BOOLEAN} \cup
    {[exts |-> <<e>>, isDelete |-> d] : e \in UNION {Range(s) : s \in ListsOf(r)},
                                        d \in IF EsDeletions THEN BOOLEAN ELSE {FALSE}}

RequestsOf(r) ==
    UNION {{[rule |-> r, exts |-> k.exts, spec |-> sp, ep |-> svc, src |-> A,
             action |-> allow, conf |-> c, isDelete |-> k.isDelete] :
                sp \in {f \in [Range(k.exts) -> UNION {Declares(r, e) : e \in Range(k.exts)}] :
                            \A e \in Range(k.exts) : f[e] \in Declares(r, e)},
                A \in SourcesOf(r), c \in ConfsOf(r)} : k \in Calls(r)}

MCRequests == UNION {RequestsOf(r) : r \in MCRules}
=============================================================================
