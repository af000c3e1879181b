---------------------------- MODULE EgressRules ----------------------------
(***************************************************************************)
(* What the controller promises for each rule list, whatever it does on the *)
(* way: what is declared on the BIG-IP is what the egress rule asked for when *)
(* the controller looked at it to work on it, or nothing, after the          *)
(* controller saw no such rule or external service.  Controller implements   *)
(* it, see RulePromise.                                                      *)
(***************************************************************************)
CONSTANTS
    Keys,       \* the rule lists: pairs of a rule and an external service
    Values,     \* what can be declared for one
    None        \* the one that means: nothing

VARIABLES
    wanted,     \* wanted[k]: what the rule in the API server asks for
    offered,    \* the keys whose external service is in the API server
    seen,       \* seen[k]: what the rule asks for as the controller sees it
    found,      \* the keys whose external service the controller sees
    taken,      \* taken[k]: what the controller works on
    declared    \* declared[k]: what is on the BIG-IP

vars == <<wanted, offered, seen, found, taken, declared>>

Init ==
    /\ wanted \in [Keys -> Values]
    /\ offered \in SUBSET Keys
    /\ seen = [k \in Keys |-> None]
    /\ found = {}
    /\ taken = [k \in Keys |-> {}]
    /\ declared = [k \in Keys |-> None]

\* Users create, edit and delete rules and external services.
Change ==
    /\ wanted' \in [Keys -> Values]
    /\ offered' \in SUBSET Keys
    /\ UNCHANGED <<seen, found, taken, declared>>

\* A watch brings one rule or external service, a list brings several.
See ==
    /\ \E K \in SUBSET Keys : seen' = [k \in Keys |-> IF k \in K THEN wanted[k] ELSE seen[k]]
    /\ \E K \in SUBSET Keys : found' = (found \ K) \cup (offered \cap K)
    /\ UNCHANGED <<wanted, offered, taken, declared>>

\* What there is to be done for k, as far as the controller sees.
Known(k) == {seen[k]} \cup (IF k \in found THEN {} ELSE {None})

Take ==
    /\ taken' \in [Keys -> SUBSET Values]
    /\ \A k \in Keys : taken'[k] \subseteq taken[k] \cup Known(k)
    /\ UNCHANGED <<wanted, offered, seen, found, declared>>

\* Some of it is declared; what is done, or failed, is dropped.
Declare ==
    /\ declared' \in [Keys -> Values]
    /\ \A k \in Keys : declared'[k] \in {declared[k]} \cup taken[k]
    /\ taken' \in [Keys -> SUBSET Values]
    /\ \A k \in Keys : taken'[k] \subseteq taken[k]
    /\ UNCHANGED <<wanted, offered, seen, found>>

\* The controller starts again.
Forget ==
    /\ seen' = [k \in Keys |-> None]
    /\ found' = {}
    /\ taken' = [k \in Keys |-> {}]
    /\ UNCHANGED <<wanted, offered, declared>>

Next == Change \/ See \/ Take \/ Declare \/ Forget

Spec == Init /\ [][Next]_vars

-----------------------------------------------------------------------------
\* The BIG-IP has what users want of the external services there are.
Kept == declared = [k \in Keys |-> IF k \in offered THEN wanted[k] ELSE None]
=============================================================================
