---------------------------- MODULE RulePromise ----------------------------
(***************************************************************************)
(* Controller as EgressRules sees it: the value of a rule list is the action *)
(* it is declared with.                                                      *)
(***************************************************************************)
EXTENDS Controller

Values == Actions \cup {Gone}

\* What a version of rule r asks for: of a rule that nobody watches, nothing.
Asks(r, e, version) ==
    IF version.live /\ InRange(r) /\ e \in Range(version.spec.exts)
    THEN version.spec.action ELSE Gone

\* Worker w has a request for r under way which is about e, or may come to be.
Works(w, r, e) ==
    /\ pc[w] # "idle" /\ req[w].rule = r
    /\ e \in Range(req[w].exts) \cup Range(todo[w])

Effect(q) == IF q.isDelete THEN Gone ELSE q.action

OnBigIP(r, e) == IF Holds(r, e) THEN DeclaredFor(r, e).action ELSE Gone

\* The workers that make requests for the rule list k.
Makers(k) == {w \in Types \cup {"ext"} : Works(w, k[1], k[2])}

Wanted   == [k \in RuleKeys |-> Asks(k[1], k[2], api[k[1]])]
Offered  == {k \in RuleKeys : api[k[2]].live}
Seen     == [k \in RuleKeys |-> Asks(k[1], k[2], cache[k[1]])]
Found    == {k \in RuleKeys : cache[k[2]].live}
Taken    == [k \in RuleKeys |-> {Effect(req[w]) : w \in Makers(k)}]
OnBigIPs == [k \in RuleKeys |-> OnBigIP(k[1], k[2])]

Promise == INSTANCE EgressRules WITH
    Keys <- RuleKeys, None <- Gone, wanted <- Wanted, offered <- Offered, seen <- Seen,
    found <- Found, taken <- Taken, declared <- OnBigIPs

\* Each rule list is declared as the controller saw its rule when it began to work on it,
\* however edits, deletions, retries of former versions and restarts follow each other.
Promised == Promise!Spec

\* Once users leave the rules alone and calls stop failing, the BIG-IP has what they
\* want for good.
Converges == <>[][~User /\ ~CallFails]_vars => <>[]Promise!Kept
=============================================================================
