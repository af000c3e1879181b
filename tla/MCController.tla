---------------------------- MODULE MCController ----------------------------
(***************************************************************************)
(* Controller on small clusters.  Each run chooses the rules and external   *)
(* services there are, what users do to them, and what goes wrong.          *)
(***************************************************************************)
EXTENDS RulePromise

CONSTANTS
    rg, rn, rs, ru,     \* a cluster, a namespace and a service rule; one not watched
    e1, e2, svc, ns, a1, a2, a10, n2, x1, x2, allow, deny, c1, common, part

MCRuleType == [r \in Rules |-> CASE r = rg -> "global" [] r = rn -> "ns" [] OTHER -> "svc"]
MCTenantOf == [r \in Rules |-> common]
PartOfService == [r \in Rules |-> IF RuleType[r] = "svc" THEN part ELSE common]
MCIn10 == [a \in Addrs |-> IF a10 \in Addrs THEN a10 ELSE a]
MCVersion == [c \in {c1} |-> c]
MCLogging == [c \in {c1} |-> FALSE]
MCWatched == (Rules \ {ru}) \cup Services
AllWatched == Rules \cup Services

OneList == {<<>>, <<e1>>}
TwoLists == {<<>>, <<e1>>, <<e2>>, <<e1, e2>>}

Old == [content |-> x1, ports |-> <<>>]
New == [content |-> x2, ports |-> <<>>]
OldOnly == {Old}
OldAndNew == {Old, New}
NewOnly == {New}

Rule(list, action) == [exts |-> list, action |-> action, svc |-> svc]

\* What there is at first: the first of the specifications below.
First(o) == IF o \in Rules THEN Rule(<<e1>>, allow)
            ELSE IF o \in Exts THEN Old ELSE {a1}

AllLive == [o \in Objects |-> [live |-> TRUE, spec |-> First(o)]]
Either(a, b) == {<<a, b>>, <<b, a>>}
No == {}

\* Rules are edited, deleted and created again.
RuleChanges ==
    [o \in Objects |->
        CASE o \in Rules -> Either(Rule(<<e1>>, allow), Rule(<<e1>>, deny)) \cup
                           Either(Rule(<<e1>>, allow), Gone)
          [] OTHER -> No]

\* Rules are edited once; then they are deleted and created again.
EditedOnce ==
    [o \in Objects |->
        IF o \in Rules
        THEN {<<Rule(<<e1>>, allow), Rule(<<e1>>, deny)>>} \cup Either(Rule(<<e1>>, deny), Gone)
        ELSE No]

\* External services, pods and lists of external services, which are empty at first,
\* change; nothing is deleted.  A second pod, n2 until it is ready, replaces the first.
NoneListed == [o \in Objects |->
    [live |-> TRUE, spec |-> IF o \in Rules THEN Rule(<<>>, allow) ELSE First(o)]]
Updates ==
    [o \in Objects |->
        CASE o = rs -> {<<Rule(<<>>, allow), Rule(<<e1>>, allow)>>,
                        <<Rule(<<e1>>, allow), Rule(<<e1, e2>>, allow)>>}
          [] o = e1 -> Either(Old, New)
          [] o = svc -> {<<{a1}, {a1, n2}>>, <<{a1, n2}, {a1, a2}>>, <<{a1, a2}, {a2}>>}
          [] OTHER -> No]

\* The rules of the other kinds: rg and rn share e1, and rg lists e2 too.  External
\* services are deleted, or edited to what is refused; ru is in a namespace that is
\* not watched.
OneEach == [o \in Objects |->
    [live |-> TRUE, spec |-> IF o = rg THEN Rule(<<e1, e2>>, allow) ELSE First(o)]]
Kinds ==
    [o \in Objects |->
        CASE o = rg -> Either(Rule(<<e1, e2>>, allow), Gone)
          [] o = rn -> Either(Rule(<<e1>>, allow), Gone)
          [] o = ru -> {<<Rule(<<e1>>, allow), Gone>>}
          [] o = e1 -> Either(Old, New)
          [] o = e2 -> {<<Old, Gone>>}
          [] o = svc -> {<<{a1}, {a2}>>, <<{a2}, Gone>>}
          [] OTHER -> No]

(* One thing changes: an external service is edited; a service is scaled to zero, or has a
   pod left that is not ready; pods are replaced; an external service is created after the rule that lists it; or a rule and
   its external service are edited. *)
Just(o1, changes) == [o \in Objects |-> IF o = o1 THEN changes ELSE No]
ExtEdits   == Just(e1, {<<Old, New>>})
ScaleDown  == Just(svc, {<<{a1}, {}>>})
NoneReady  == Just(svc, {<<{a1}, {n2}>>})
PodChange  == Just(svc, {<<{a1}, {a2}>>})
RuleAndExt == [o \in Objects |->
    CASE o = rs -> {<<Rule(<<e1>>, allow), Rule(<<e1>>, deny)>>}
      [] o = e1 -> {<<Old, New>>}
      [] OTHER -> No]
ExtLater   == [AllLive EXCEPT ![e1].live = FALSE]
ExtCreated == Just(e1, {<<Gone, Old>>})

MCRequests ==
    {q \in UNION {[rule : Rules, exts : {s}, spec : [Range(s) -> ExtSpecs], ep : Services,
                   src : SUBSET Addrs, action : Actions, conf : Confs, isDelete : BOOLEAN] :
                      s \in Lists} :
        WellFormed(q)}

=============================================================================
