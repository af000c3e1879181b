---------------------------- MODULE MCAs3Client ----------------------------
(***************************************************************************)
(* As3Client with a namespace rule rn, whose policy has to be enforced, and *)
(* a service rule rs in one partition.  An external service e is edited.    *)
(***************************************************************************)
EXTENDS As3Client

CONSTANTS
    rn, rs, e, x1, x2, svc, a1, a2, allow, common, part, conf,
    w1, w2, w3, k1, k2,
    TwoClusters,    \* rs belongs to a cluster of its own
    InCommon,       \* the namespaces of rn and rs are kept in Common
    Patching        \* the endpoints of rs change

MCRules == {rn, rs}
MCRuleType == [r \in MCRules |-> IF r = rn THEN "ns" ELSE "svc"]
MCTenantOf == [r \in MCRules |-> IF InCommon THEN common ELSE part]
MCVersion == [c \in {conf} |-> c]
MCLogging == [c \in {conf} |-> TRUE]

Ask(r, x, A, d) ==
    [rule |-> r, exts |-> <<e>>, spec |-> [s \in {e} |-> [content |-> x, ports |-> <<>>]],
     ep |-> svc, src |-> A, action |-> allow, conf |-> conf, isDelete |-> d]

\* One worker per queue: namespace rules, service rules, external services.
MCWorkers == IF TwoClusters THEN {w1, w2} ELSE {w1, w2, w3}
MCClusterOf == [w \in MCWorkers |-> IF TwoClusters /\ w = w2 THEN k2 ELSE k1]
MCClusters == {MCClusterOf[w] : w \in MCWorkers}
MCRequestsOf ==
    [w \in MCWorkers |-> CASE w = w1 -> {Ask(rn, x1, {a1}, FALSE), Ask(rn, x1, {a1}, TRUE)}
                           [] w = w2 -> {Ask(rs, x1, {a1}, FALSE), Ask(rs, x1, {a1}, TRUE)}
                           [] w = w3 -> {Ask(rn, x2, {a1}, FALSE)}]
MCRequests == UNION {MCRequestsOf[w] : w \in MCWorkers}
MCPatches == IF Patching THEN {<<rs, svc, {a1, a2}>>} ELSE {}
=============================================================================
