------------------------- MODULE RuleDeliveryProofs -------------------------
(***************************************************************************)
(* What Controller does for its rules, for any rules, edits of rules,        *)
(* namespaces and endpoints, crashes and faults: a rule is declared as the   *)
(* controller sees it, or that is still owed to it.  External services stay  *)
(* as they are for that: their worker makes requests for rules it read       *)
(* earlier, and a late one can take back what a rule's own worker declared.  *)
(* Whatever users do, Controller implements EgressRules: what is declared    *)
(* for a rule is never older than what the controller saw when it began to   *)
(* work on it.                                                               *)
(***************************************************************************)
EXTENDS ControllerProofs, RulePromise

\* Nobody creates, edits or deletes an external service.
ExtsStay == \A e \in Exts : Changes[e] = {}

-----------------------------------------------------------------------------
(* The invariant. *)

\* The worker of r has an entry of r; an entry of r waits in the queue.
Busy(r) == pc[RuleType[r]] # "idle" /\ item[RuleType[r]].key = r
Pending(r) == \E i \in queue : i.key = r

\* What spec asks for is declared for r,
Enforced(r, spec) ==
    \A e \in Range(spec.exts) :
        api[e].live => Holds(r, e) /\ DeclaredFor(r, e).action = spec.action

\* ... or the handler of r is about to declare it.
OnIt(r, spec) ==
    LET w == RuleType[r]
    IN  /\ ~req[w].isDelete /\ req[w].action = spec.action
        /\ \A e \in Range(spec.exts) :
                api[e].live => e \in Range(req[w].exts) \cup Range(todo[w])
        /\ pc[w] = "done" => Enforced(r, spec)

\* A cached object that is up to date is; what a running controller knows of the
\* external services is what there is.
CopiesOK ==
    /\ \A o \in fresh : /\ cache[o].live = api[o].live
                        /\ api[o].live => cache[o].spec = api[o].spec
    /\ "ext" \in synced => \A e \in Exts : /\ cache[e].live = api[e].live
                                           /\ api[e].live => cache[e].spec = api[e].spec

\* The worker of external services has nothing to do, and the others declare only what
\* lives.
WorkersOK ==
    /\ \A w \in Workers : pc[w] # "idle" => Up
    /\ pc["ext"] = "idle" /\ \A i \in queue : i.key \notin Exts
    /\ \A w \in Types : pc[w] # "idle" =>
            /\ req[w].rule = item[w].key
            /\ pc[w] \in {"status", "done"} => ~req[w].isDelete
            /\ pc[w] = "nothing" => req[w].exts = <<>> /\ todo[w] = <<>>
            /\ \A e \in Range(req[w].exts) : api[e].live

DeclaredLives == \A r \in Rules, e \in Exts : Holds(r, e) => api[e].live

\* A rule is declared as the controller sees it, or that is still to be done.
Owed(r) ==
    (cache[r].live /\ InRange(r)) =>
        \/ Pending(r)
        \/ Busy(r) /\ OnIt(r, cache[r].spec)
        \/ ~Busy(r) /\ Enforced(r, cache[r].spec)

\* While the handler's copy of a rule is the cache's object, or the current version, the
\* handler is about to declare what it says.
CopyTrue(r) ==
    (Busy(r) /\ ~req[RuleType[r]].isDelete) =>
        /\ object[r] = "cached"  => cache[r].live /\ OnIt(r, cache[r].spec)
        /\ object[r] = "current" => api[r].live /\ OnIt(r, api[r].spec)

DeliveryInv ==
    /\ CopiesOK /\ WorkersOK /\ DeclaredLives
    /\ \A r \in Rules : Owed(r) /\ CopyTrue(r)

-----------------------------------------------------------------------------
(* What a post declares. *)

\* A tenant b declares the rule lists of request q,
Declares(q, b) ==
    /\ b # Absent
    /\ \A e \in Range(q.exts) : /\ <<q.rule, e>> \in DOMAIN b.rules
                                /\ b.rules[<<q.rule, e>>].action = q.action

\* ... or has none of them,
Lacks(q, b) == \A e \in Range(q.exts) : b = Absent \/ <<q.rule, e>> \notin DOMAIN b.rules

\* ... and the same others as app.
KeepsOthers(q, app, b) ==
    \A r, e : (r # q.rule \/ e \notin Range(q.exts)) =>
        /\ (b # Absent /\ <<r, e>> \in DOMAIN b.rules)
             <=> (app # Absent /\ <<r, e>> \in DOMAIN app.rules)
        /\ (app # Absent /\ <<r, e>> \in DOMAIN app.rules) =>
                b.rules[<<r, e>>] = app.rules[<<r, e>>]

LEMMA PostedApp ==
    ASSUME NEW app, NEW q \in Requests,
           NEW b, b = (IF UpToDate(app, q) THEN app ELSE Body(app, q))
    PROVE  (IF q.isDelete THEN Lacks(q, b) ELSE Declares(q, b)) /\ KeepsOthers(q, app, b)
<1> USE DEF Declares, Lacks, KeepsOthers
<1> DEFINE d == Delta(q)
           h == Body(app, q)
<1>1. /\ DOMAIN d.rules = KeysOf(q)
      /\ \A k \in KeysOf(q) : d.rules[k].action = q.action
  BY DEF Delta
<1>2. \A r, e : <<r, e>> \in KeysOf(q) <=> (r = q.rule /\ e \in Range(q.exts))
  BY DEF KeysOf
<1>3. q.isDelete \in BOOLEAN
  BY RequestsAssumption DEF WellFormed, IsRequest
<1>4. app # Absent => h # Absent /\ h.rules = MergeAttrs(app.rules, d.rules, q.isDelete)
  BY BodyIs, BodyThere DEF IsBody
<1>5. app = Absent => h = (IF q.isDelete THEN Absent ELSE d)
  BY DEF Body
<1>6. d # Absent
  BY DEF Delta, Absent
<1> HIDE DEF d, h
<1>7. CASE UpToDate(app, q)
  <2>1. b = app /\ app # Absent /\ ~q.isDelete /\ Kept(app.rules, h.rules)
    BY <1>7 DEF UpToDate, IsDiff, h
  <2>2. h.rules = Override(d.rules, app.rules)
    BY <1>4, <2>1 DEF MergeAttrs
  <2>3. \A k \in KeysOf(q) : k \in DOMAIN app.rules /\ app.rules[k] = d.rules[k]
    BY <1>1, <2>1, <2>2 DEF Kept, Override
  <2> QED
    BY <1>1, <1>2, <2>1, <2>3
<1>8. CASE ~UpToDate(app, q)
  <2>1. b = h
    BY <1>8 DEF h
  <2>2. CASE app = Absent
    BY <1>1, <1>2, <1>3, <1>5, <1>6, <2>1, <2>2
  <2>3. CASE app # Absent
    <3>1. \A r, e : (r # q.rule \/ e \notin Range(q.exts)) =>
                /\ (<<r, e>> \in DOMAIN h.rules <=> <<r, e>> \in DOMAIN app.rules)
                /\ <<r, e>> \in DOMAIN app.rules => h.rules[<<r, e>>] = app.rules[<<r, e>>]
      BY <1>1, <1>2, <1>3, <1>4, <2>3, OtherAttrs
    <3>2. ~q.isDelete => \A k \in KeysOf(q) : k \in DOMAIN h.rules /\ h.rules[k] = d.rules[k]
      BY <1>1, <1>4, <2>3 DEF MergeAttrs, Override
    <3>3. q.isDelete => \A k \in KeysOf(q) : k \notin DOMAIN h.rules
      BY <1>1, <1>4, <2>3 DEF MergeAttrs, Restrict
    <3> QED
      BY <1>1, <1>2, <1>3, <1>4, <2>1, <2>3, <3>1, <3>2, <3>3
  <2> QED
    BY <2>2, <2>3
<1> QED
  BY <1>7, <1>8

\* As3Request.
LEMMA PostedHolds ==
    ASSUME Typed, StoreTypeOK, NEW w \in Types \cup {"ext"}, pc[w] = "post", Posted(w),
           NEW q, q = req[w]
    PROVE  /\ ~q.isDelete =>
                \A e \in Range(q.exts) :
                    Holds(q.rule, e)' /\ DeclaredFor(q.rule, e)'.action = q.action
           /\ q.isDelete => \A e \in Range(q.exts) : ~Holds(q.rule, e)'
           /\ \A r \in Rules, e \in Exts : (r # q.rule \/ e \notin Range(q.exts)) =>
                /\ Holds(r, e)' <=> Holds(r, e)
                /\ Holds(r, e) => DeclaredFor(r, e)' = DeclaredFor(r, e)
<1> PICK t : t = TenantOf[q.rule]
  OBVIOUS
<1>1. q \in Requests
  BY BusyWorker, RulePostable, PostableRequest DEF Workers, Typed
<1>2. q.rule \in Rules /\ t \in Tenants
  BY <1>1, RequestsAssumption, DeclarationAssumption DEF WellFormed, IsRequest
<1>3. DOMAIN store = Tenants
  BY DEF StoreTypeOK
<1>4. /\ store'[t] = IF UpToDate(store[t], q) THEN store[t] ELSE Body(store[t], q)
      /\ \A u \in Tenants : u # t => store'[u] = store[u]
  <2>1. CASE UpToDate(store[t], q)
    BY <2>1 DEF Posted
  <2>2. CASE ~UpToDate(store[t], q)
    <3> PICK b : b = Body(store[t], q)
      OBVIOUS
    <3>1. store' = [store EXCEPT ![t] = b]
      BY <2>2 DEF Posted, Apply
    <3> QED
      BY <1>2, <1>3, <2>2, <3>1
  <2> QED
    BY <2>1, <2>2
<1> PICK app : app = store[t]
  OBVIOUS
<1> PICK b : b = store'[t]
  OBVIOUS
<1>5. b = (IF UpToDate(app, q) THEN app ELSE Body(app, q))
  BY <1>4
<1>6. \A r \in Rules : TenantOf[r] \in Tenants
  BY DeclarationAssumption
<1>7. IF q.isDelete THEN Lacks(q, b) ELSE Declares(q, b)
  BY <1>1, <1>5, PostedApp
<1>8. KeepsOthers(q, app, b)
  BY <1>1, <1>5, PostedApp
<1>9. IF q.isDelete THEN \A e \in Range(q.exts) : ~Holds(q.rule, e)'
      ELSE \A e \in Range(q.exts) : /\ Holds(q.rule, e)'
                                     /\ DeclaredFor(q.rule, e)'.action = q.action
  BY <1>7 DEF Declares, Lacks, Holds, DeclaredFor
<1>10. ASSUME NEW r \in Rules, NEW e \in Exts, r # q.rule \/ e \notin Range(q.exts)
       PROVE  /\ Holds(r, e)' <=> Holds(r, e)
              /\ Holds(r, e) => DeclaredFor(r, e)' = DeclaredFor(r, e)
  <2>1. CASE TenantOf[r] = t
    BY <1>8, <1>10, <2>1 DEF KeepsOthers, Holds, DeclaredFor
  <2>2. CASE TenantOf[r] # t
    BY <1>4, <1>6, <2>2 DEF Holds, DeclaredFor
  <2> QED
    BY <2>1, <2>2
<1> QED
  BY <1>9, <1>10

-----------------------------------------------------------------------------
(* What the steps leave alone. *)

\* Labels and phases are all that a worker changes of objects.
MarksOnly ==
    /\ synced' = synced /\ fresh' \subseteq fresh
    /\ \A o \in Objects : api'[o].live = api[o].live /\ api'[o].spec = api[o].spec
    /\ \A o \in Cached : cache'[o].live = cache[o].live /\ cache'[o].spec = cache[o].spec

\* The worker w touches neither the others nor their rules.
OthersWait(w) ==
    /\ \A v \in Workers \ {w} : /\ pc'[v] = pc[v] /\ item'[v] = item[v]
                                /\ req'[v] = req[v] /\ todo'[v] = todo[v]
    /\ \A r \in Rules : RuleType[r] # w => object'[r] = object[r]

\* What is declared for r stays, with its action.
HeldStays(r) ==
    \A e \in Exts : Holds(r, e) => /\ Holds(r, e)'
                                   /\ DeclaredFor(r, e)'.action = DeclaredFor(r, e).action

LEMMA ListsTyped ==
    ASSUME InformersTypeOK, NEW r \in Rules
    PROVE  /\ Range(cache[r].spec.exts) \subseteq Exts
           /\ Range(api[r].spec.exts) \subseteq Exts
<1>1. cache[r].spec.exts \in Lists
  BY CachedRule
<1>2. api[r].spec.exts \in Lists
  <2>1. api[r].spec \in RuleSpec
    BY KindsOfObjects DEF InformersTypeOK, Forms
  <2> QED
    BY <2>1 DEF RuleSpec
<1>3. \A s \in Lists : s \in Seq(Exts)
  BY InformersAssumption
<1> QED
  BY <1>1, <1>2, <1>3 DEF Range

LEMMA SameMarks ==
    ASSUME UNCHANGED <<api, cache, fresh, synced>> PROVE MarksOnly
BY DEF MarksOnly

LEMMA CacheMark ==
    ASSUME InformersTypeOK, NEW o \in Cached, NEW mark, cache' = Mutated(o, mark)
    PROVE  \A x \in Cached : cache'[x].live = cache[x].live /\ cache'[x].spec = cache[x].spec
<1>1. \A x \in Cached : cache[x] = [live |-> cache[x].live, spec |-> cache[x].spec,
                                    mark |-> cache[x].mark]
  BY DEF InformersTypeOK, Forms
<1>2. cache' = [cache EXCEPT ![o] = [cache[o] EXCEPT !.mark = mark]]
  BY DEF Mutated
<1>3. cache'[o] = [cache[o] EXCEPT !.mark = mark] /\ \A x \in Cached \ {o} : cache'[x] = cache[x]
  BY <1>2 DEF InformersTypeOK
<1>4. cache'[o].live = cache[o].live /\ cache'[o].spec = cache[o].spec
  BY <1>1, <1>3
<1> QED
  BY <1>3, <1>4

LEMMA ApiMark ==
    ASSUME InformersTypeOK, NEW o \in Objects, NEW mark, api' = [api EXCEPT ![o].mark = mark]
    PROVE  \A x \in Objects : api'[x].live = api[x].live /\ api'[x].spec = api[x].spec
<1>1. \A x \in Objects : api[x] = [live |-> api[x].live, spec |-> api[x].spec,
                                   mark |-> api[x].mark]
  BY DEF InformersTypeOK, Forms
<1>2. api' = [api EXCEPT ![o] = [api[o] EXCEPT !.mark = mark]]
  OBVIOUS
<1>3. api'[o] = [api[o] EXCEPT !.mark = mark] /\ \A x \in Objects \ {o} : api'[x] = api[x]
  BY <1>2 DEF InformersTypeOK
<1>4. api'[o].live = api[o].live /\ api'[o].spec = api[o].spec
  BY <1>1, <1>3
<1> QED
  BY <1>3, <1>4

LEMMA LabelMarks ==
    ASSUME InformersTypeOK, NEW e \in Exts, NEW mark, cache' = Mutated(e, mark), synced' = synced,
           UNCHANGED <<api, fresh>> \/ WriteLabel(e, mark)
    PROVE  MarksOnly
<1>1. e \in Cached /\ e \in Objects
  BY KindsOfObjects
<1>2. fresh' \subseteq fresh
  BY DEF WriteLabel
<1>3. \A x \in Objects : api'[x].live = api[x].live /\ api'[x].spec = api[x].spec
  BY <1>1, ApiMark DEF WriteLabel
<1> QED
  BY <1>1, <1>2, <1>3, CacheMark DEF MarksOnly

LEMMA PhaseMarks ==
    ASSUME InformersTypeOK, NEW r \in Rules, NEW phase, cache' = Phased(r, phase), synced' = synced,
           UNCHANGED <<api, fresh>> \/ WritePhase(r, phase)
    PROVE  MarksOnly
<1>1. r \in Cached /\ r \in Objects
  BY KindsOfObjects
<1>2. fresh' \subseteq fresh
  BY DEF WritePhase
<1>3. \A x \in Objects : api'[x].live = api[x].live /\ api'[x].spec = api[x].spec
  BY <1>1, ApiMark DEF WritePhase
<1>4. \A x \in Cached : cache'[x].live = cache[x].live /\ cache'[x].spec = cache[x].spec
  BY <1>1, CacheMark DEF Phased
<1> QED
  BY <1>2, <1>3, <1>4 DEF MarksOnly

\* A step of a worker of rules.
LEMMA StepMarks ==
    ASSUME Typed, NEW w \in Types, RuleStep(w)
    PROVE  MarksOnly
<1> USE DEF Typed
<1>1. pc[w] # "idle" => req[w].rule \in Rules
  BY BusyWorker DEF Workers, RuleOK, Built
<1>2. CASE ExtMissing(w) \/ ExtLabelled(w)
  BY <1>2, SameMarks DEF ExtMissing, ExtLabelled, Proceed
<1>3. CASE ExtLabel(w)
  BY <1>3, LabelMarks DEF ExtLabel, LabelCall, Proceed
<1>4. CASE ExtLabelFails(w)
  BY <1>4, LabelMarks DEF ExtLabelFails, LabelCall
<1>5. CASE NothingToDo(w) \/ Post(w) \/ PostFails(w)
  BY <1>5, SameMarks DEF NothingToDo, Post, PostFails
<1>6. CASE Announce(w)
  BY <1>1, <1>6, PhaseMarks DEF Announce
<1>7. ASSUME NEW step \in {"status", "done"}, NEW phase, PhaseFails(w, step, phase)
      PROVE  MarksOnly
  BY <1>1, <1>7, PhaseMarks DEF PhaseFails
<1>8. CASE Succeed(w)
  BY <1>1, <1>8, PhaseMarks DEF Succeed
<1> QED
  BY <1>2, <1>3, <1>4, <1>5, <1>6, <1>7, <1>8 DEF RuleStep

LEMMA CopiesStay ==
    ASSUME InformersTypeOK, CopiesOK, MarksOnly PROVE CopiesOK'
<1>1. \A o \in fresh : o \in Cached /\ o \in Objects
  BY KindsOfObjects DEF InformersTypeOK
<1>2. \A e \in Exts : e \in Cached /\ e \in Objects
  BY KindsOfObjects
<1> QED
  BY <1>1, <1>2 DEF CopiesOK, MarksOnly

LEMMA EnforcedStays ==
    ASSUME MarksOnly, NEW r, HeldStays(r), NEW spec, Range(spec.exts) \subseteq Exts,
           Enforced(r, spec)
    PROVE  Enforced(r, spec)'
<1>1. \A e \in Exts : api'[e].live = api[e].live
  BY KindsOfObjects DEF MarksOnly, Objects
<1> QED
  BY <1>1 DEF Enforced, HeldStays

LEMMA OnItStays ==
    ASSUME MarksOnly, NEW r, HeldStays(r), NEW spec, Range(spec.exts) \subseteq Exts,
           NEW w, w = RuleType[r], pc'[w] = pc[w], req'[w] = req[w], todo'[w] = todo[w],
           OnIt(r, spec)
    PROVE  OnIt(r, spec)'
<1>1. \A e \in Exts : api'[e].live = api[e].live
  BY KindsOfObjects DEF MarksOnly, Objects
<1>2. pc[w] = "done" => Enforced(r, spec)'
  BY EnforcedStays DEF OnIt
<1> QED
  BY <1>1, <1>2 DEF OnIt

\* A rule that the step is not about.
LEMMA OtherRuleStays ==
    ASSUME Typed, NEW w \in Workers, MarksOnly, OthersWait(w), NEW r \in Rules,
           RuleType[r] = w => ~Busy(r) /\ ~Busy(r)',
           InRange(r) /\ Pending(r) => Pending(r)', HeldStays(r), Owed(r), CopyTrue(r)
    PROVE  Owed(r)' /\ CopyTrue(r)'
<1> PICK v : v = RuleType[r]
  OBVIOUS
<1> PICK seen : seen = cache[r].spec
  OBVIOUS
<1> PICK now : now = api[r].spec
  OBVIOUS
<1>1. v \in Workers /\ r \in Cached /\ r \in Objects
  BY KindsOfObjects DEF Workers
<1>2. /\ cache'[r].spec = seen /\ cache'[r].live = cache[r].live
      /\ api'[r].spec = now /\ api'[r].live = api[r].live
  BY <1>1 DEF MarksOnly
<1>3. Range(seen.exts) \subseteq Exts /\ Range(now.exts) \subseteq Exts
  BY ListsTyped DEF Typed
<1>4. Enforced(r, seen) => Enforced(r, seen)'
  BY <1>3, EnforcedStays
<1>5. CASE v = w
  <2>1. ~Busy(r) /\ ~Busy(r)'
    BY <1>5
  <2>2. Enforced(r, cache[r].spec)' <=> Enforced(r, seen)'
    BY <1>2 DEF Enforced
  <2> QED
    BY <1>2, <1>4, <2>1, <2>2 DEF Owed, CopyTrue, InRange
<1>6. CASE v # w
  <2>1. pc'[v] = pc[v] /\ item'[v] = item[v] /\ req'[v] = req[v] /\ todo'[v] = todo[v]
        /\ object'[r] = object[r]
    BY <1>1, <1>6 DEF OthersWait
  <2>2. /\ OnIt(r, seen) => OnIt(r, seen)'
        /\ OnIt(r, now) => OnIt(r, now)'
    BY <1>3, <2>1, OnItStays
  <2>3. Busy(r)' <=> Busy(r)
    BY <2>1 DEF Busy
  <2>4. Enforced(r, cache[r].spec)' <=> Enforced(r, seen)'
    BY <1>2 DEF Enforced
  <2>5. OnIt(r, cache[r].spec)' <=> OnIt(r, seen)'
    BY <1>2, <2>4 DEF OnIt
  <2>6. OnIt(r, api[r].spec)' <=> OnIt(r, now)'
    <3>1. Enforced(r, api[r].spec)' <=> Enforced(r, now)'
      BY <1>2 DEF Enforced
    <3> QED
      BY <1>2, <3>1 DEF OnIt
  <2> QED
    BY <1>2, <1>4, <2>1, <2>2, <2>3, <2>4, <2>5, <2>6 DEF Owed, CopyTrue, InRange
<1> QED
  BY <1>5, <1>6
-----------------------------------------------------------------------------
(* A worker of rules goes on with the rule it has. *)

LEMMA IdleWaits ==
    ASSUME WorkInv, InformersTypeOK, NEW w \in Types, Idle(w)
    PROVE  /\ OthersWait(w) /\ pc'[w] = "idle"
           /\ \A r \in Rules : RuleType[r] = w => ~Busy(r)'
<1>1. w \in Workers
  BY DEF Workers
<1>2. \A v \in Workers \ {w} : pc'[v] = pc[v] /\ item'[v] = item[v]
                              /\ req'[v] = req[v] /\ todo'[v] = todo[v]
  BY DEF Idle, WorkInv
<1>3. pc'[w] = "idle"
  BY <1>1 DEF Idle, WorkInv
<1>4. \A r \in Rules : RuleType[r] # w => object'[r] = object[r]
  BY DEF Idle
<1> QED
  BY <1>2, <1>3, <1>4 DEF OthersWait, Busy

\* The rule a worker has is one of its own.
LEMMA OwnItem ==
    ASSUME Typed, NEW w \in Types, pc[w] # "idle", item[w].key = req[w].rule
    PROVE  /\ w \in Workers /\ RuleOK(pc[w], req[w], todo[w])
           /\ req[w].rule \in Rules /\ RuleType[req[w].rule] = w
           /\ item[w].key = req[w].rule /\ Busy(req[w].rule)
           /\ \A r \in Rules : (RuleType[r] = w /\ r # req[w].rule) => ~Busy(r)
<1>1. w \in Workers
  BY DEF Workers
<1>2. EntryOf(w, item[w]) /\ RuleOK(pc[w], req[w], todo[w])
  BY <1>1, BusyWorker DEF Typed
<1>3. req[w].rule \in Rules
  BY <1>2 DEF RuleOK, Built
<1>4. RuleType[req[w].rule] = w
  BY <1>2, <1>3, KindsOfObjects DEF EntryOf
<1> QED
  BY <1>1, <1>2, <1>3, <1>4 DEF Busy

LEMMA OwnEntry ==
    ASSUME Typed, WorkersOK, NEW w \in Types, pc[w] # "idle"
    PROVE  /\ w \in Workers /\ RuleOK(pc[w], req[w], todo[w])
           /\ req[w].rule \in Rules /\ RuleType[req[w].rule] = w
           /\ item[w].key = req[w].rule /\ Busy(req[w].rule)
           /\ \A r \in Rules : (RuleType[r] = w /\ r # req[w].rule) => ~Busy(r)
BY OwnItem DEF WorkersOK

\* Where a step leaves its worker.
Ended(w)    == Requeue(w) \/ Forget(w)
Continued(w) ==
    /\ item' = item /\ queue' = queue /\ pc'[w] # "idle"
    /\ \A v \in Workers \ {w} : pc'[v] = pc[v] /\ req'[v] = req[v] /\ todo'[v] = todo[v]
    /\ \A r \in Rules : RuleType[r] # w => object'[r] = object[r]

LEMMA ProceedContinues ==
    ASSUME Typed, NEW w \in Types, NEW q, Proceed(w, q)
    PROVE  /\ Continued(w) /\ req'[w] = q /\ todo'[w] = Tail(todo[w])
           /\ pc'[w] = After(q, Tail(todo[w]), announced[w])
<1>1. w \in Workers
  BY DEF Workers
<1>2. /\ pc' = [pc EXCEPT ![w] = After(q, Tail(todo[w]), announced[w])]
      /\ req' = [req EXCEPT ![w] = q] /\ todo' = [todo EXCEPT ![w] = Tail(todo[w])]
      /\ item' = item /\ queue' = queue /\ object' = object
  BY DEF Proceed
<1>3. After(q, Tail(todo[w]), announced[w]) # "idle"
  BY DEF After
<1> HIDE DEF Proceed
<1> QED
  BY <1>1, <1>2, <1>3 DEF Continued, Typed, WorkInv

LEMMA StepLeaves ==
    ASSUME Typed, NEW w \in Types, RuleStep(w), pc[w] # "idle" => item[w].key = req[w].rule
    PROVE  /\ pc[w] # "idle"
           /\ Ended(w) \/ Continued(w)
<1>1. w \in Workers
  BY DEF Workers
<1>2. CASE ExtMissing(w) \/ ExtLabelled(w) \/ ExtLabel(w)
  <2>1. pc[w] = "exts" /\ \E q : Proceed(w, q)
    BY <1>2 DEF ExtMissing, ExtLabelled, ExtLabel, LabelCall
  <2> QED
    BY <2>1, ProceedContinues
<1>3. CASE ExtLabelFails(w) \/ PostFails(w)
  BY <1>3 DEF ExtLabelFails, LabelCall, PostFails, Ended
<1>4. CASE NothingToDo(w) \/ Succeed(w)
  BY <1>4 DEF NothingToDo, Succeed, Ended
<1>5. ASSUME NEW step \in {"status", "done"}, NEW phase, PhaseFails(w, step, phase)
      PROVE  pc[w] # "idle" /\ Ended(w)
  BY <1>5 DEF PhaseFails, Ended
<1>6. CASE Announce(w)
  <2>1. pc[w] = "status" /\ RuleType[req[w].rule] = w
    BY <1>6, OwnItem DEF Announce
  <2>2. /\ pc' = [pc EXCEPT ![w] = "post"]
        /\ object' = [object EXCEPT ![req[w].rule] = "current"]
        /\ UNCHANGED <<queue, item, req, todo>>
    BY <1>6 DEF Announce
  <2>3. \A r \in Rules : RuleType[r] # w => object'[r] = object[r]
    BY <2>1, <2>2 DEF Typed, InformersTypeOK
  <2> QED
    BY <1>1, <2>1, <2>2, <2>3 DEF Continued, Typed, WorkInv
<1>7. CASE Post(w)
  <2>1. CASE Forget(w)
    BY <1>7, <2>1 DEF Post, Ended
  <2>2. CASE ~Forget(w)
    <3>1. pc[w] = "post" /\ pc' = [pc EXCEPT ![w] = "done"]
          /\ UNCHANGED <<queue, object, item, req, todo>>
      BY <1>7, <2>2 DEF Post
    <3> QED
      BY <1>1, <3>1 DEF Continued, Typed, WorkInv
  <2> QED
    BY <2>1, <2>2
<1> QED
  BY <1>2, <1>3, <1>4, <1>5, <1>6, <1>7 DEF RuleStep

LEMMA StepEnds ==
    ASSUME Typed, WorkersOK, NEW w \in Types, RuleStep(w)
    PROVE  /\ pc[w] # "idle"
           /\ Ended(w) \/ Continued(w)
BY StepLeaves DEF WorkersOK

\* Both ways leave the other workers and the entries of the queue alone.
LEMMA StepApart ==
    ASSUME Typed, NEW w \in Types, pc[w] # "idle", item[w].key = req[w].rule,
           Ended(w) \/ Continued(w)
    PROVE  /\ OthersWait(w)
           /\ queue' \in {queue, queue \cup {item[w]}}
           /\ \A r \in Rules : (RuleType[r] = w /\ r # req[w].rule) => ~Busy(r)'
<1>1. CASE Ended(w)
  <2>1. Idle(w) /\ queue' \in {queue, queue \cup {item[w]}}
    BY <1>1 DEF Ended, Requeue, Forget
  <2> QED
    BY <2>1, IdleWaits DEF Typed
<1>2. CASE Continued(w)
  BY <1>2 DEF Continued, OthersWait, Busy
<1> QED
  BY <1>1, <1>2

LEMMA StepFrame ==
    ASSUME Typed, WorkersOK, NEW w \in Types, pc[w] # "idle", Ended(w) \/ Continued(w)
    PROVE  /\ OthersWait(w)
           /\ queue' \in {queue, queue \cup {item[w]}}
           /\ \A r \in Rules : (RuleType[r] = w /\ r # req[w].rule) => ~Busy(r)'
BY StepApart DEF WorkersOK

LEMMA SameStore ==
    ASSUME store' = store
    PROVE  \A r, e : /\ Holds(r, e)' <=> Holds(r, e)
                     /\ DeclaredFor(r, e)' = DeclaredFor(r, e)
BY DEF Holds, DeclaredFor

\* A step declares, or takes away, rule lists of its own rule only, and declares only for
\* external services that live.
LEMMA StepStore ==
    ASSUME Typed, StoreTypeOK, WorkersOK, DeclaredLives, NEW w \in Types, RuleStep(w)
    PROVE  /\ \A r \in Rules : r # req[w].rule => HeldStays(r)
           /\ DeclaredLives'
<1> PICK q : q = req[w]
  OBVIOUS
<1>1. MarksOnly
  BY StepMarks
<1>2. \A e \in Exts : api'[e].live = api[e].live
  BY <1>1, KindsOfObjects DEF MarksOnly, Objects
<1>3. CASE store' = store
  BY <1>2, <1>3, SameStore DEF HeldStays, DeclaredLives
<1>4. CASE Posted(w) /\ pc[w] = "post"
  <2>1. \A r \in Rules, e \in Exts : (r # q.rule \/ e \notin Range(q.exts)) =>
                /\ Holds(r, e)' <=> Holds(r, e)
                /\ Holds(r, e) => DeclaredFor(r, e)' = DeclaredFor(r, e)
    BY <1>4, PostedHolds
  <2>2. \A e \in Range(q.exts) : api[e].live
    BY <1>4 DEF WorkersOK
  <2> QED
    BY <1>2, <2>1, <2>2 DEF HeldStays, DeclaredLives
<1>5. store' = store \/ (Posted(w) /\ pc[w] = "post")
  <2>1. ExtLabelFails(w) => store' = store
    BY DEF ExtLabelFails
  <2>2. \A step, phase : PhaseFails(w, step, phase) => store' = store
    BY DEF PhaseFails
  <2>3. Post(w) \/ PostFails(w) => store' = store \/ (Posted(w) /\ pc[w] = "post")
    BY DEF Post, PostFails
  <2> QED
    BY <2>1, <2>2, <2>3 DEF RuleStep, ExtMissing, ExtLabelled, ExtLabel, Proceed,
       NothingToDo, Announce, Succeed
<1> QED
  BY <1>3, <1>4, <1>5

\* The worker is done with its rule,
LEMMA OwnRuleEnds ==
    ASSUME Typed, WorkersOK, NEW w \in Types, pc[w] # "idle", MarksOnly, NEW r, r = req[w].rule,
           \/ Requeue(w)
           \/ Forget(w) /\ (OnIt(r, cache[r].spec) => Enforced(r, cache[r].spec)'),
           Owed(r)
    PROVE  Owed(r)' /\ CopyTrue(r)'
<1> PICK seen : seen = cache[r].spec
  OBVIOUS
<1>1. /\ r \in Rules /\ RuleType[r] = w /\ r \in Cached /\ Busy(r) /\ item[w].key = r
  BY OwnEntry, KindsOfObjects
<1>2. ~Busy(r)'
  BY <1>1, IdleWaits DEF Requeue, Forget, Typed
<1>3. CopyTrue(r)'
  BY <1>2 DEF CopyTrue
<1>4. CASE Requeue(w)
  <2>1. Pending(r)'
    BY <1>1, <1>4 DEF Requeue, Pending
  <2> QED
    BY <1>3, <2>1 DEF Owed
<1>5. CASE Forget(w) /\ (OnIt(r, cache[r].spec) => Enforced(r, cache[r].spec)')
  <2>1. Pending(r)' <=> Pending(r)
    BY <1>5 DEF Forget, Pending
  <2>2. cache'[r].live = cache[r].live
    BY <1>1 DEF MarksOnly
  <2> QED
    BY <1>1, <1>2, <1>3, <1>5, <2>1, <2>2 DEF Owed, InRange
<1> QED
  BY <1>4, <1>5

\* ... or goes on with what it still has to do for it.
LEMMA OwnRuleGoesOn ==
    ASSUME Typed, WorkersOK, NEW w \in Types, pc[w] # "idle", MarksOnly, NEW r, r = req[w].rule,
           Continued(w), req'[w].isDelete = req[w].isDelete, req'[w].action = req[w].action,
           \A e \in Exts : (api[e].live /\ e \in Range(req[w].exts) \cup Range(todo[w])) =>
                                e \in Range(req'[w].exts) \cup Range(todo'[w]),
           \A spec : (Range(spec.exts) \subseteq Exts /\ OnIt(r, spec) /\ pc'[w] = "done") =>
                        Enforced(r, spec)'
    PROVE  /\ \A spec : (Range(spec.exts) \subseteq Exts /\ OnIt(r, spec)) => OnIt(r, spec)'
           /\ Owed(r) => Owed(r)'
           /\ (CopyTrue(r) /\ object'[r] = object[r]) => CopyTrue(r)'
<1>1. /\ r \in Rules /\ RuleType[r] = w /\ r \in Cached /\ r \in Objects /\ Busy(r)
      /\ item[w].key = r
  BY OwnEntry, KindsOfObjects
<1>2. Busy(r)' /\ (Pending(r)' <=> Pending(r))
  BY <1>1 DEF Continued, Busy, Pending
<1>3. \A e \in Exts : api'[e].live = api[e].live
  BY KindsOfObjects DEF MarksOnly, Objects
<1>4. ASSUME NEW spec, Range(spec.exts) \subseteq Exts, OnIt(r, spec)
      PROVE  OnIt(r, spec)'
  <2>1. pc'[w] = "done" => Enforced(r, spec)'
    BY <1>4
  <2> QED
    BY <1>1, <1>3, <1>4, <2>1 DEF OnIt
<1> PICK seen : seen = cache[r].spec
  OBVIOUS
<1> PICK now : now = api[r].spec
  OBVIOUS
<1>5. /\ cache'[r].spec = seen /\ cache'[r].live = cache[r].live
      /\ api'[r].spec = now /\ api'[r].live = api[r].live
  BY <1>1 DEF MarksOnly
<1>6. Range(seen.exts) \subseteq Exts /\ Range(now.exts) \subseteq Exts
  BY <1>1, ListsTyped DEF Typed
<1>7. OnIt(r, cache[r].spec)' <=> OnIt(r, seen)'
  <2>1. Enforced(r, cache[r].spec)' <=> Enforced(r, seen)'
    BY <1>5 DEF Enforced
  <2> QED
    BY <1>5, <2>1 DEF OnIt
<1>8. OnIt(r, api[r].spec)' <=> OnIt(r, now)'
  <2>1. Enforced(r, api[r].spec)' <=> Enforced(r, now)'
    BY <1>5 DEF Enforced
  <2> QED
    BY <1>5, <2>1 DEF OnIt
<1>9. Owed(r) => Owed(r)'
  BY <1>1, <1>2, <1>4, <1>5, <1>6, <1>7 DEF Owed, InRange
<1>10. (CopyTrue(r) /\ object'[r] = object[r]) => CopyTrue(r)'
  BY <1>1, <1>4, <1>5, <1>6, <1>7, <1>8 DEF CopyTrue
<1> QED
  BY <1>4, <1>9, <1>10

LEMMA RangeOfLists ==
    ASSUME NEW s \in Seq(Exts)
    PROVE  /\ s # <<>> => Range(s) = {Head(s)} \cup Range(Tail(s))
           /\ \A e \in Exts : Range(Append(s, e)) = Range(s) \cup {e}
<1>1. ASSUME s # <<>> PROVE Range(s) = {Head(s)} \cup Range(Tail(s))
  <2>1. /\ Len(s) \in Nat \ {0} /\ DOMAIN s = 1..Len(s) /\ Head(s) = s[1]
        /\ DOMAIN Tail(s) = 1..(Len(s) - 1)
        /\ \A i \in 1..(Len(s) - 1) : Tail(s)[i] = s[i + 1]
    BY <1>1
  <2>2. Range(s) \subseteq {Head(s)} \cup Range(Tail(s))
    <3> SUFFICES ASSUME NEW i \in 1..Len(s), i # 1 PROVE s[i] \in Range(Tail(s))
      BY <2>1 DEF Range
    <3>1. i - 1 \in 1..(Len(s) - 1) /\ Tail(s)[i - 1] = s[(i - 1) + 1]
      BY <2>1
    <3>2. (i - 1) + 1 = i
      BY <2>1
    <3> QED
      BY <2>1, <3>1, <3>2 DEF Range
  <2>3. {Head(s)} \cup Range(Tail(s)) \subseteq Range(s)
    BY <2>1 DEF Range
  <2> QED
    BY <2>2, <2>3
<1>2. ASSUME NEW e \in Exts PROVE Range(Append(s, e)) = Range(s) \cup {e}
  <2>1. /\ DOMAIN Append(s, e) = DOMAIN s \cup {Len(s) + 1}
        /\ \A i \in DOMAIN s : Append(s, e)[i] = s[i]
        /\ Append(s, e)[Len(s) + 1] = e
    OBVIOUS
  <2> QED
    BY <2>1 DEF Range
<1> QED
  BY <1>1, <1>2

\* The loop over the external services passes over those that do not live only.
LEMMA LookedUp ==
    ASSUME Typed, WorkersOK, CopiesOK, NEW w \in Types,
           ExtMissing(w) \/ ExtLabelled(w) \/ ExtLabel(w),
           NEW q, q = req[w], NEW t, t = todo[w]
    PROVE  /\ pc[w] = "exts" /\ q.exts \in Seq(Exts) /\ t \in Seq(Exts) /\ t # <<>>
           /\ \E q2 : /\ Proceed(w, q2)
                      /\ q2.rule = q.rule /\ q2.isDelete = q.isDelete /\ q2.action = q.action
                      /\ \/ q2.exts = q.exts /\ ~api[Head(t)].live
                         \/ q2.exts = Append(q.exts, Head(t)) /\ api[Head(t)].live
<1> PICK e : e = Head(t)
  OBVIOUS
<1>1. pc[w] = "exts"
  BY DEF ExtMissing, ExtLabelled, ExtLabel, LabelCall
<1>2. RuleOK("exts", q, t) /\ "ext" \in synced /\ w \in Workers
  BY <1>1, OwnEntry DEF WorkersOK, Up, Workers
<1>3. q.exts \in Seq(Exts) /\ t \in Seq(Exts) /\ t # <<>> /\ Built(q) /\ e \in Exts
  BY <1>2 DEF RuleOK, Specified
<1>4. cache[e].live = api[e].live
  BY <1>2, <1>3 DEF CopiesOK
<1>5. CASE ExtMissing(w)
  <2>1. ~api[e].live /\ Proceed(w, q)
    BY <1>4, <1>5 DEF ExtMissing
  <2> QED
    BY <1>1, <1>3, <2>1
<1>6. CASE ExtLabelled(w) \/ ExtLabel(w)
  <2>1. Proceed(w, With(q, e)) /\ api[e].live
    <3>1. CASE ExtLabelled(w)
      BY <1>4, <3>1 DEF ExtLabelled
    <3>2. CASE ExtLabel(w)
      BY <1>4, <3>2 DEF ExtLabel, LabelCall
    <3> QED
      BY <1>6, <3>1, <3>2
  <2> PICK q2 : q2 = With(q, e)
    OBVIOUS
  <2> PICK s : s = Append(q.exts, e)
    OBVIOUS
  <2> PICK g : g = Override([x \in {e} |-> cache[e].spec], q.spec)
    OBVIOUS
  <2>2. q2 = [rule |-> q.rule, exts |-> s, spec |-> g, ep |-> q.ep, src |-> q.src,
              action |-> q.action, conf |-> q.conf, isDelete |-> q.isDelete]
    BY <1>3, WithFields
  <2>3. /\ q2.isDelete = q.isDelete /\ q2.action = q.action
        /\ q2.exts = Append(q.exts, e) /\ q2.rule = q.rule
    BY <2>2
  <2> QED
    BY <1>1, <1>3, <2>1, <2>3
<1> QED
  BY <1>5, <1>6

LEMMA OwnRuleLooks ==
    ASSUME Typed, WorkersOK, CopiesOK, NEW w \in Types,
           ExtMissing(w) \/ ExtLabelled(w) \/ ExtLabel(w),
           NEW r, r = req[w].rule, Owed(r), CopyTrue(r)
    PROVE  Owed(r)' /\ CopyTrue(r)'
<1> PICK q : q = req[w]
  OBVIOUS
<1> PICK t : t = todo[w]
  OBVIOUS
<1> PICK e : e = Head(t)
  OBVIOUS
<1>1. pc[w] = "exts" /\ q.exts \in Seq(Exts) /\ t \in Seq(Exts) /\ t # <<>> /\ MarksOnly
  BY LookedUp, StepMarks DEF RuleStep
<1>2. PICK q2 : /\ Proceed(w, q2)
                /\ q2.isDelete = q.isDelete /\ q2.action = q.action
                /\ \/ q2.exts = q.exts /\ ~api[e].live
                   \/ q2.exts = Append(q.exts, e)
  BY LookedUp
<1>3. e \in Exts /\ Range(t) = {e} \cup Range(Tail(t))
      /\ Range(Append(q.exts, e)) = Range(q.exts) \cup {e}
  BY <1>1, RangeOfLists
<1>4. /\ Continued(w) /\ req'[w] = q2 /\ todo'[w] = Tail(t)
      /\ pc'[w] # "done" /\ object' = object
  <2>1. pc'[w] = After(q2, Tail(t), announced[w])
    BY <1>2, ProceedContinues
  <2>2. object' = object
    BY <1>2 DEF Proceed
  <2> QED
    BY <1>2, <2>1, <2>2, ProceedContinues DEF After
<1>5. \A x \in Exts : (api[x].live /\ x \in Range(q.exts) \cup Range(t)) =>
                        x \in Range(q2.exts) \cup Range(Tail(t))
  BY <1>2, <1>3
<1> QED
  BY <1>1, <1>2, <1>4, <1>5, OwnRuleGoesOn

\* What the current version says is what the handler is about to declare.
LEMMA CurrentTrue ==
    ASSUME CopiesOK, NEW r, Busy(r), ~req[RuleType[r]].isDelete, Current(r), CopyTrue(r)
    PROVE  api[r].live /\ OnIt(r, api[r].spec)
<1>1. CASE object[r] = "current"
  BY <1>1 DEF CopyTrue
<1>2. CASE object[r] = "cached" /\ r \in fresh
  <2>1. cache[r].live /\ OnIt(r, cache[r].spec)
    BY <1>2 DEF CopyTrue
  <2>2. cache[r].live = api[r].live /\ (api[r].live => cache[r].spec = api[r].spec)
    BY <1>2 DEF CopiesOK
  <2> QED
    BY <2>1, <2>2
<1> QED
  BY <1>1, <1>2 DEF Current

\* The handler's copy becomes the current version, which says the same.
LEMMA OwnRuleAnnounced ==
    ASSUME Typed, WorkersOK, CopiesOK, NEW w \in Types, Announce(w),
           NEW r, r = req[w].rule, Owed(r), CopyTrue(r)
    PROVE  Owed(r)' /\ CopyTrue(r)'
<1>1. pc[w] = "status" /\ MarksOnly
  BY StepMarks DEF RuleStep, Announce
<1>2. /\ r \in Rules /\ RuleType[r] = w /\ r \in Cached /\ r \in Objects /\ Busy(r)
      /\ w \in Workers /\ ~req[w].isDelete
  BY <1>1, OwnEntry, KindsOfObjects DEF WorkersOK
<1>3. Continued(w)
  <2>1. Announce(w) => ~Ended(w)
    BY <1>2 DEF Announce, Ended, Requeue, Forget, Idle, Typed, WorkInv
  <2> QED
    BY <2>1, StepEnds DEF RuleStep
<1>4. req'[w] = req[w] /\ todo'[w] = todo[w] /\ pc'[w] = "post" /\ object'[r] = "current"
  BY <1>2 DEF Announce, Typed, WorkInv, InformersTypeOK
<1>5. /\ \A spec : (Range(spec.exts) \subseteq Exts /\ OnIt(r, spec)) => OnIt(r, spec)'
      /\ Owed(r)'
  BY <1>1, <1>3, <1>4, OwnRuleGoesOn
<1> PICK now : now = api[r].spec
  OBVIOUS
<1>6. api[r].live /\ OnIt(r, now)
  <2>1. Current(r)
    BY DEF Announce, WritePhase
  <2> QED
    BY <1>2, <2>1, CurrentTrue
<1>7. Range(now.exts) \subseteq Exts /\ api'[r].spec = now /\ api'[r].live = api[r].live
  BY <1>1, <1>2, ListsTyped DEF Typed, MarksOnly
<1>8. OnIt(r, now)'
  BY <1>5, <1>6, <1>7
<1>9. OnIt(r, api[r].spec)' <=> OnIt(r, now)'
  <2>1. Enforced(r, api[r].spec)' <=> Enforced(r, now)'
    BY <1>7 DEF Enforced
  <2> QED
    BY <1>7, <2>1 DEF OnIt
<1> QED
  BY <1>4, <1>5, <1>6, <1>7, <1>8, <1>9 DEF CopyTrue

\* What is posted is what there was to do.
LEMMA OwnRulePosted ==
    ASSUME Typed, StoreTypeOK, WorkersOK, NEW w \in Types, Post(w),
           NEW r, r = req[w].rule, Owed(r), CopyTrue(r)
    PROVE  Owed(r)' /\ CopyTrue(r)'
<1> PICK q : q = req[w]
  OBVIOUS
<1>1. pc[w] = "post" /\ MarksOnly /\ Posted(w)
  BY StepMarks DEF RuleStep, Post
<1>2. r \in Rules /\ RuleType[r] = w /\ w \in Workers /\ RuleOK("post", q, todo[w])
  BY <1>1, OwnEntry
<1>3. todo[w] = <<>>
  BY <1>2 DEF RuleOK
<1>4. CASE q.isDelete
  <2>1. Forget(w)
    BY <1>4 DEF Post
  <2>2. ~OnIt(r, cache[r].spec)
    BY <1>2, <1>4 DEF OnIt
  <2> QED
    BY <1>1, <2>1, <2>2, OwnRuleEnds
<1>5. CASE ~q.isDelete
  <2>1. /\ pc' = [pc EXCEPT ![w] = "done"] /\ UNCHANGED <<queue, object, item, req, todo>>
    BY <1>5 DEF Post, Types
  <2>2. Continued(w) /\ req'[w] = q /\ todo'[w] = todo[w] /\ object'[r] = object[r]
    BY <1>2, <2>1 DEF Continued, Typed, WorkInv
  <2>3. \A e \in Range(q.exts) : Holds(r, e)' /\ DeclaredFor(r, e)'.action = q.action
    BY <1>1, <1>5, PostedHolds
  <2>4. ASSUME NEW spec, Range(spec.exts) \subseteq Exts, OnIt(r, spec)
        PROVE  Enforced(r, spec)'
    <3>1. \A e \in Exts : api'[e].live = api[e].live
      BY <1>1, KindsOfObjects DEF MarksOnly, Objects
    <3>2. Range(todo[w]) = {}
      BY <1>3 DEF Range
    <3>3. q.action = spec.action
          /\ \A e \in Range(spec.exts) : api[e].live => e \in Range(q.exts)
      BY <1>2, <2>4, <3>2 DEF OnIt
    <3> QED
      BY <2>3, <2>4, <3>1, <3>3 DEF Enforced
  <2> QED
    BY <1>1, <2>2, <2>4, OwnRuleGoesOn
<1> QED
  BY <1>4, <1>5

LEMMA OwnRuleStep ==
    ASSUME Typed, StoreTypeOK, WorkersOK, CopiesOK, NEW w \in Types, RuleStep(w),
           NEW r, r = req[w].rule, Owed(r), CopyTrue(r)
    PROVE  Owed(r)' /\ CopyTrue(r)'
<1>1. pc[w] # "idle" /\ MarksOnly
  BY StepEnds, StepMarks
<1>2. r \in Rules /\ RuleType[r] = w /\ r \in Cached
  BY <1>1, OwnEntry, KindsOfObjects
<1>3. CASE ExtLabelFails(w) \/ PostFails(w)
  BY <1>1, <1>3, OwnRuleEnds DEF ExtLabelFails, PostFails
<1>4. ASSUME NEW step \in {"status", "done"}, NEW phase, PhaseFails(w, step, phase)
      PROVE  Owed(r)' /\ CopyTrue(r)'
  BY <1>1, <1>4, OwnRuleEnds DEF PhaseFails
<1> PICK seen : seen = cache[r].spec
  OBVIOUS
<1>5. Range(seen.exts) \subseteq Exts /\ cache'[r].spec = seen
  BY <1>1, <1>2, ListsTyped DEF Typed, MarksOnly
<1>6. Enforced(r, cache[r].spec)' <=> Enforced(r, seen)'
  BY <1>5 DEF Enforced
<1>7. CASE NothingToDo(w)
  <2>1. req[w].exts = <<>> /\ todo[w] = <<>>
    BY <1>7 DEF NothingToDo, WorkersOK
  <2>2. \A e \in Exts : api'[e].live = api[e].live
    BY <1>1, KindsOfObjects DEF MarksOnly, Objects
  <2>3. OnIt(r, seen) => \A e \in Range(seen.exts) : ~api[e].live
    BY <1>2, <2>1 DEF OnIt, Range
  <2>4. OnIt(r, seen) => Enforced(r, seen)'
    BY <1>5, <2>2, <2>3 DEF Enforced
  <2> QED
    BY <1>1, <1>6, <1>7, <2>4, OwnRuleEnds DEF NothingToDo
<1>8. CASE Succeed(w)
  <2>1. pc[w] = "done" /\ Forget(w) /\ store' = store
    BY <1>8 DEF Succeed
  <2>2. HeldStays(r)
    BY <2>1, SameStore DEF HeldStays
  <2>3. OnIt(r, seen) => Enforced(r, seen)'
    BY <1>1, <1>2, <1>5, <2>1, <2>2, EnforcedStays DEF OnIt
  <2> QED
    BY <1>1, <1>6, <2>1, <2>3, OwnRuleEnds
<1> QED
  BY <1>3, <1>4, <1>7, <1>8, OwnRuleLooks, OwnRuleAnnounced, OwnRulePosted DEF RuleStep

-----------------------------------------------------------------------------
(* A step of a worker of rules. *)

\* What the invariant says of worker v.
WorkerTrue(v) ==
    pc[v] # "idle" =>
        /\ req[v].rule = item[v].key
        /\ pc[v] \in {"status", "done"} => ~req[v].isDelete
        /\ pc[v] = "nothing" => req[v].exts = <<>> /\ todo[v] = <<>>
        /\ \A e \in Range(req[v].exts) : api[e].live

LEMMA OwnWorkerStep ==
    ASSUME Typed, CopiesOK, WorkersOK, NEW w \in Types, RuleStep(w)
    PROVE  WorkerTrue(w)'
<1> PICK q : q = req[w]
  OBVIOUS
<1> PICK t : t = todo[w]
  OBVIOUS
<1>1. pc[w] # "idle" /\ MarksOnly /\ w \in Workers
  BY StepEnds, StepMarks DEF Workers
<1>2. RuleOK(pc[w], q, t) /\ Range(q.exts) \subseteq Exts
  <2>1. RuleOK(pc[w], q, t)
    BY <1>1, OwnEntry
  <2>2. q.exts \in Seq(Exts)
    BY <2>1 DEF RuleOK, Specified
  <2> QED
    BY <2>1, <2>2 DEF Range
<1>3. \A e \in Exts : api'[e].live = api[e].live
  BY <1>1, KindsOfObjects DEF MarksOnly, Objects
<1>4. q.rule = item[w].key /\ (pc[w] \in {"status", "done"} => ~q.isDelete)
      /\ \A e \in Range(q.exts) : api[e].live
  BY <1>1 DEF WorkersOK
<1>5. CASE Ended(w)
  <2>1. pc'[w] = "idle"
    BY <1>5, IdleWaits DEF Ended, Requeue, Forget, Typed
  <2> QED
    BY <2>1 DEF WorkerTrue
<1>6. CASE ExtMissing(w) \/ ExtLabelled(w) \/ ExtLabel(w)
  <2> PICK e : e = Head(t)
    OBVIOUS
  <2>1. q.exts \in Seq(Exts) /\ t \in Seq(Exts) /\ t # <<>>
    BY <1>6, LookedUp
  <2>2. PICK q2 : /\ Proceed(w, q2) /\ q2.rule = q.rule /\ q2.isDelete = q.isDelete
                  /\ q2.exts = q.exts \/ (q2.exts = Append(q.exts, e) /\ api[e].live)
    BY <1>6, LookedUp
  <2>3. e \in Exts /\ Range(Append(q.exts, e)) = Range(q.exts) \cup {e}
    BY <2>1, RangeOfLists
  <2>4. /\ item' = item /\ req'[w] = q2 /\ todo'[w] = Tail(t)
        /\ pc'[w] = After(q2, Tail(t), announced[w])
    BY <2>2, ProceedContinues DEF Continued
  <2>5. \A x \in Range(q2.exts) : api'[x].live
    BY <1>2, <1>3, <1>4, <2>2, <2>3
  <2>6. /\ pc'[w] # "done"
        /\ pc'[w] = "status" => ~q2.isDelete
        /\ pc'[w] = "nothing" => q2.exts = <<>> /\ Tail(t) = <<>>
    BY <2>4 DEF After
  <2> QED
    BY <1>4, <2>2, <2>4, <2>5, <2>6 DEF WorkerTrue
<1>7. CASE ~Ended(w) /\ (Announce(w) \/ Post(w))
  <2>1. /\ item' = item /\ req' = req /\ pc'[w] \in {"post", "done"}
        /\ pc'[w] = "done" => ~q.isDelete
    BY <1>1, <1>7 DEF Announce, Post, Ended, Typed, WorkInv
  <2> QED
    BY <1>2, <1>3, <1>4, <2>1 DEF WorkerTrue
<1>8. ASSUME NEW step, NEW phase, PhaseFails(w, step, phase) PROVE Ended(w)
  BY <1>8 DEF PhaseFails, Ended
<1> QED
  BY <1>5, <1>6, <1>7, <1>8 DEF RuleStep, ExtLabelFails, PostFails, NothingToDo, Succeed, Ended

LEMMA OtherWorkers ==
    ASSUME Typed, WorkersOK, MarksOnly, NEW w \in Workers \ {"ext"}, OthersWait(w),
           w \in Types => WorkerTrue(w)', pc'[w] # "idle" => Up, \A i \in queue' : i.key \notin Exts
    PROVE  WorkersOK'
<1>1. "ext" \in Workers \ {w} /\ Types \subseteq Workers
  BY DEF Workers, Types
<1>2. Up' = Up
  BY DEF MarksOnly, Up
<1>3. \A v \in Workers : pc'[v] # "idle" => Up'
  BY <1>2 DEF OthersWait, WorkersOK
<1>4. ASSUME NEW v \in Types PROVE WorkerTrue(v)'
  <2>1. CASE v = w
    BY <2>1
  <2>2. CASE v # w
    <3>1. pc'[v] = pc[v] /\ item'[v] = item[v] /\ req'[v] = req[v] /\ todo'[v] = todo[v]
      BY <1>1, <2>2 DEF OthersWait
    <3>2. pc[v] # "idle" => Range(req[v].exts) \subseteq Exts
      <4>1. pc[v] # "idle" => RuleOK(pc[v], req[v], todo[v])
        BY OwnEntry
      <4> QED
        BY <4>1 DEF RuleOK, Specified, Range
    <3>3. \A e \in Exts : api'[e].live = api[e].live
      BY KindsOfObjects DEF MarksOnly, Objects
    <3>4. WorkerTrue(v)
      BY DEF WorkersOK, WorkerTrue
    <3> QED
      BY <3>1, <3>2, <3>3, <3>4 DEF WorkerTrue
  <2> QED
    BY <2>1, <2>2
<1>5. pc'["ext"] = "idle"
  BY <1>1 DEF OthersWait, WorkersOK
<1> QED
  BY <1>3, <1>4, <1>5 DEF WorkersOK, WorkerTrue

LEMMA RuleStepKeeps ==
    ASSUME Typed, StoreTypeOK, DeliveryInv, NEW w \in Types, RuleStep(w)
    PROVE  DeliveryInv'
<1> USE DEF DeliveryInv
<1>1. pc[w] # "idle" /\ (Ended(w) \/ Continued(w)) /\ MarksOnly
  BY StepEnds, StepMarks
<1>2. /\ OthersWait(w) /\ queue' \in {queue, queue \cup {item[w]}}
      /\ \A r \in Rules : (RuleType[r] = w /\ r # req[w].rule) => ~Busy(r)'
  BY <1>1, StepFrame
<1>3. /\ \A r \in Rules : r # req[w].rule => HeldStays(r)
      /\ DeclaredLives'
  BY StepStore
<1>4. /\ req[w].rule \in Rules /\ item[w].key = req[w].rule
      /\ \A r \in Rules : (RuleType[r] = w /\ r # req[w].rule) => ~Busy(r)
  BY <1>1, OwnEntry
<1>5. CopiesOK'
  BY <1>1, CopiesStay DEF Typed
<1>6. WorkersOK'
  <2>1. \A i \in queue' : i.key \notin Exts
    BY <1>2, <1>4, InformersAssumption DEF WorkersOK
  <2>2. Up /\ w \in Workers \ {"ext"}
    BY <1>1 DEF WorkersOK, Workers, Types
  <2> QED
    BY <1>1, <1>2, <2>1, <2>2, OwnWorkerStep, OtherWorkers
<1>7. ASSUME NEW r \in Rules PROVE Owed(r)' /\ CopyTrue(r)'
  <2>1. CASE r = req[w].rule
    BY <2>1, OwnRuleStep
  <2>2. CASE r # req[w].rule
    <3>1. Pending(r) => Pending(r)'
      BY <1>2 DEF Pending
    <3> QED
      BY <1>1, <1>2, <1>3, <1>4, <2>2, <3>1, OtherRuleStays DEF Workers
  <2> QED
    BY <2>1, <2>2
<1> QED
  BY <1>3, <1>5, <1>6, <1>7

\* A worker of rules takes an entry.
\* What a handler of rules begins with.
LEMMA RuleStarted ==
    ASSUME Typed, NEW w \in Types, NEW i \in queue, RuleStart(w, i),
           NEW r, r = i.key, NEW spec, spec = SpecRead(i)
    PROVE  /\ r \in Rules /\ RuleType[r] = w /\ w \in Workers /\ pc[w] = "idle" /\ Up
           /\ InRange(r) /\ UNCHANGED <<api, cache, fresh, synced, store>>
           /\ queue' = queue \ {i} /\ item'[w] = i /\ todo'[w] = spec.exts
           /\ req'[w].rule = r /\ req'[w].exts = <<>> /\ req'[w].action = spec.action
           /\ req'[w].isDelete <=> ~cache[r].live
           /\ pc'[w] \in {"exts", "nothing"}
           /\ pc'[w] = "nothing" => spec.exts = <<>>
           /\ OthersWait(w) /\ object'[r] = "cached"
<1> PICK known : known = (cache[r].live /\ cache[r].mark = "syncing")
  OBVIOUS
<1>1. /\ r \in Rules /\ RuleType[r] = w /\ w \in Workers /\ pc[w] = "idle" /\ Up
      /\ r \in Cached /\ cache[r].live \in BOOLEAN
  <2>1. r \in Rules /\ WorkerOf(r) = w /\ pc[w] = "idle" /\ Up
    BY DEF RuleStart, Takes
  <2> QED
    BY <2>1, KindsOfObjects DEF Workers, Typed, InformersTypeOK, Forms
<1>2. /\ UNCHANGED <<api, cache, fresh, synced, store>> /\ InRange(r)
      /\ queue' = queue \ {i}
      /\ item' = [item EXCEPT ![w] = i] /\ todo' = [todo EXCEPT ![w] = spec.exts]
      /\ object' = [object EXCEPT ![r] = "cached"]
  BY DEF RuleStart
<1>3. PICK c \in Confs : req' = [req EXCEPT ![w] = Asked(r, spec, ~cache[r].live, c)]
  BY DEF RuleStart
<1> PICK q : q = Asked(r, spec, ~cache[r].live, c)
  OBVIOUS
<1>4. /\ q.rule = r /\ q.exts = <<>> /\ q.action = spec.action
      /\ q.isDelete = ~cache[r].live
  BY DEF Asked
<1>5. /\ req'[w] = q /\ todo'[w] = spec.exts /\ item'[w] = i
      /\ \A v \in Workers \ {w} : item'[v] = item[v] /\ req'[v] = req[v] /\ todo'[v] = todo[v]
  BY <1>1, <1>2, <1>3 DEF Typed, WorkInv
<1>6. /\ pc'[w] = After(q, spec.exts, known) /\ \A v \in Workers \ {w} : pc'[v] = pc[v]
  <2>1. pc' = [pc EXCEPT ![w] = After(req'[w], spec.exts, known)]
    BY <1>1 DEF RuleStart
  <2> QED
    BY <1>1, <1>5, <2>1 DEF Typed, WorkInv
<1>7. pc'[w] \in {"exts", "nothing"} /\ (pc'[w] = "nothing" => spec.exts = <<>>)
  BY <1>4, <1>6 DEF After
<1>8. OthersWait(w) /\ object'[r] = "cached"
  BY <1>1, <1>2, <1>5, <1>6 DEF OthersWait, Typed, InformersTypeOK
<1> QED
  BY <1>1, <1>2, <1>4, <1>5, <1>7, <1>8

LEMMA RuleStartKeeps ==
    ASSUME Typed, DeliveryInv, NEW w \in Types, NEW i \in queue, RuleStart(w, i)
    PROVE  DeliveryInv'
<1> USE DEF DeliveryInv
<1> PICK r : r = i.key
  OBVIOUS
<1> PICK spec : spec = SpecRead(i)
  OBVIOUS
<1>1. /\ r \in Rules /\ RuleType[r] = w /\ w \in Workers /\ pc[w] = "idle" /\ Up
      /\ UNCHANGED <<api, cache, fresh, synced, store>>
      /\ queue' = queue \ {i} /\ item'[w] = i /\ todo'[w] = spec.exts
      /\ pc'[w] \in {"exts", "nothing"} /\ (pc'[w] = "nothing" => spec.exts = <<>>)
      /\ OthersWait(w) /\ object'[r] = "cached"
  BY RuleStarted
<1>2. /\ req'[w].rule = r /\ req'[w].exts = <<>> /\ req'[w].action = spec.action
      /\ req'[w].isDelete <=> ~cache[r].live
  BY RuleStarted
<1>3. MarksOnly
  BY <1>1, SameMarks
<1>4. CopiesOK'
  BY <1>3, CopiesStay DEF Typed
<1>5. DeclaredLives'
  BY <1>1, SameStore DEF DeclaredLives
<1>6. WorkersOK'
  <2>1. WorkerTrue(w)'
    BY <1>1, <1>2 DEF WorkerTrue, Range
  <2>2. \A j \in queue' : j.key \notin Exts
    BY <1>1 DEF WorkersOK
  <2>3. w # "ext"
    BY DEF Types
  <2> QED
    BY <1>1, <1>3, <2>1, <2>2, <2>3, OtherWorkers
<1>7. ASSUME NEW x \in Rules PROVE Owed(x)' /\ CopyTrue(x)'
  <2>1. CASE x # r
    <3>1. RuleType[x] = w => ~Busy(x) /\ ~Busy(x)'
      BY <1>1, <2>1 DEF Busy
    <3>2. Pending(x) => Pending(x)'
      BY <1>1, <2>1 DEF Pending
    <3>3. HeldStays(x)
      BY <1>1, SameStore DEF HeldStays
    <3> QED
      BY <1>1, <1>3, <3>1, <3>2, <3>3, OtherRuleStays
  <2>2. CASE x = r
    <3>1. Busy(r)'
      BY <1>1 DEF Busy
    <3>2. ASSUME cache[r].live
          PROVE  OnIt(r, cache[r].spec)'
      <4>1. spec = cache[r].spec
        BY <3>2 DEF SpecRead
      <4> QED
        BY <1>1, <1>2, <3>2, <4>1 DEF OnIt
    <3> QED
      BY <1>1, <1>2, <2>2, <3>1, <3>2 DEF Owed, CopyTrue
  <2> QED
    BY <2>1, <2>2
<1> QED
  BY <1>4, <1>5, <1>6, <1>7

\* The other workers, and entries of rules outside the watch range.
LEMMA OthersKeep ==
    ASSUME Typed, DeliveryInv, MarksOnly, OthersWait("ep"), pc'["ep"] # "idle" => Up,
           queue' \subseteq queue,
           \A i \in queue : i \in queue' \/ (i.key \in Rules => ~InRange(i.key)),
           \A r \in Rules, e \in Exts :
                /\ Holds(r, e)' <=> Holds(r, e)
                /\ Holds(r, e) => DeclaredFor(r, e)'.action = DeclaredFor(r, e).action
    PROVE  DeliveryInv'
<1> USE DEF DeliveryInv
<1>1. "ep" \in Workers \ {"ext"} /\ "ep" \notin Types
  BY DEF Workers, Types
<1>2. CopiesOK'
  BY CopiesStay DEF Typed
<1>3. WorkersOK'
  <2>1. \A i \in queue' : i.key \notin Exts
    BY DEF WorkersOK
  <2> QED
    BY <1>1, <2>1, OtherWorkers
<1>4. DeclaredLives'
  BY KindsOfObjects DEF DeclaredLives, MarksOnly, Objects
<1>5. ASSUME NEW r \in Rules PROVE Owed(r)' /\ CopyTrue(r)'
  <2>1. InRange(r) /\ Pending(r) => Pending(r)'
    BY DEF Pending
  <2>2. HeldStays(r) /\ RuleType[r] # "ep"
    BY <1>1, KindsOfObjects DEF HeldStays
  <2> QED
    BY <1>1, <2>1, <2>2, OtherRuleStays
<1> QED
  BY <1>2, <1>3, <1>4, <1>5

LEMMA WorkersWait ==
    ASSUME UNCHANGED <<workers, object>> PROVE OthersWait("ep") /\ pc'["ep"] = pc["ep"]
BY DEF OthersWait, workers

LEMMA PatchHolds ==
    ASSUME StoreTypeOK, NEW p, NEW s, NEW A, PatchSource(p, s, A)
    PROVE  \A r \in Rules, e \in Exts : /\ Holds(r, e)' <=> Holds(r, e)
                                        /\ DeclaredFor(r, e)' = DeclaredFor(r, e)
<1> SUFFICES ASSUME NEW r \in Rules, NEW e \in Exts
             PROVE  /\ Holds(r, e)' <=> Holds(r, e)
                    /\ DeclaredFor(r, e)' = DeclaredFor(r, e)
  OBVIOUS
<1> PICK t \in Tenants : t = TenantOf[r]
  BY DeclarationAssumption
<1>1. CASE store'[t] = store[t]
  BY <1>1 DEF Holds, DeclaredFor
<1>2. CASE store'[t] # store[t]
  <2> PICK app : app = store[t]
    OBVIOUS
  <2>1. /\ app # Absent /\ store'[t] = [app EXCEPT !.src[<<p, s>>] = A]
        /\ store'[t].rules = app.rules
    <3>1. DOMAIN store = Tenants
      BY DEF StoreTypeOK
    <3> QED
      BY <1>2, <3>1, PatchFrame
  <2>2. "rules" \in DOMAIN app
    BY <2>1 DEF StoreTypeOK, IsApp
  <2>3. store'[t] # Absent
    <3>1. DOMAIN store'[t] = DOMAIN app
      BY <2>1
    <3>2. DOMAIN Absent = {}
      BY DEF Absent
    <3> QED
      BY <2>2, <3>1, <3>2
  <2> QED
    BY <2>1, <2>3 DEF Holds, DeclaredFor
<1> QED
  BY <1>1, <1>2

-----------------------------------------------------------------------------
(* Users, informers and crashes: what is declared and the workers stay. *)

StillThere == \A e \in Exts : api'[e].live = api[e].live

LEMMA WorkStays ==
    ASSUME UNCHANGED <<store, workers>>, StillThere, NEW r, NEW spec, Range(spec.exts) \subseteq Exts
    PROVE  /\ Enforced(r, spec) => Enforced(r, spec)'
           /\ OnIt(r, spec) => OnIt(r, spec)'
<1>1. Enforced(r, spec) => Enforced(r, spec)'
  BY SameStore DEF Enforced, StillThere
<1>2. pc' = pc /\ req' = req /\ todo' = todo
  BY DEF workers
<1> QED
  BY <1>1, <1>2 DEF OnIt, StillThere

LEMMA WorkersStay ==
    ASSUME Typed, WorkersOK, UNCHANGED workers, StillThere, Up => Up', \A i \in queue' : i.key \notin Exts
    PROVE  WorkersOK'
<1>1. pc' = pc /\ item' = item /\ req' = req /\ todo' = todo
  BY DEF workers
<1>2. ASSUME NEW w \in Types, pc[w] # "idle"
      PROVE  Range(req[w].exts) \subseteq Exts
  <2>1. RuleOK(pc[w], req[w], todo[w])
    BY <1>2, OwnEntry
  <2> QED
    BY <2>1 DEF RuleOK, Specified, Range
<1> QED
  BY <1>1, <1>2 DEF WorkersOK, StillThere

\* What a step has to do to keep what is said of rule r: a version that the cache gets
\* asks for the same, or comes with an entry.
LEMMA RuleSeen ==
    ASSUME Typed, UNCHANGED <<store, workers>>, StillThere, NEW r \in Rules, Owed(r), CopyTrue(r),
           InRange(r) =>
                \/ Pending(r)'
                \/ ~cache'[r].live
                \/ /\ ~Pending(r) /\ cache[r].live
                   /\ cache'[r].spec.exts = cache[r].spec.exts
                   /\ cache'[r].spec.action = cache[r].spec.action,
           Busy(r) =>
                /\ object'[r] = "cached"  => object[r] = "cached" /\ cache'[r] = cache[r]
                /\ object'[r] = "current" => object[r] = "current" /\ api'[r] = api[r]
    PROVE  Owed(r)' /\ CopyTrue(r)'
<1> PICK seen : seen = cache[r].spec
  OBVIOUS
<1> PICK seen2 : seen2 = cache'[r].spec
  OBVIOUS
<1> PICK now : now = api[r].spec
  OBVIOUS
<1>1. Range(seen.exts) \subseteq Exts /\ Range(now.exts) \subseteq Exts
  BY ListsTyped DEF Typed
<1>2. (Busy(r)' <=> Busy(r)) /\ req' = req
  BY DEF Busy, workers
<1>3. /\ OnIt(r, seen) => OnIt(r, seen)'
      /\ OnIt(r, now) => OnIt(r, now)'
      /\ Enforced(r, seen) => Enforced(r, seen)'
  BY <1>1, WorkStays
<1>4. Owed(r)'
  <2> SUFFICES ASSUME InRange(r), cache'[r].live, ~Pending(r)'
               PROVE  \/ Busy(r)' /\ OnIt(r, seen2)'
                      \/ ~Busy(r)' /\ Enforced(r, seen2)'
    <3>1. OnIt(r, cache[r].spec)' <=> OnIt(r, seen2)'
      <4>1. Enforced(r, cache[r].spec)' <=> Enforced(r, seen2)'
        BY DEF Enforced
      <4> QED
        BY <4>1 DEF OnIt
    <3>2. Enforced(r, cache[r].spec)' <=> Enforced(r, seen2)'
      BY DEF Enforced
    <3> QED
      BY <3>1, <3>2 DEF Owed, InRange
  <2>1. /\ ~Pending(r) /\ cache[r].live
        /\ seen2.exts = seen.exts /\ seen2.action = seen.action
    OBVIOUS
  <2>2. (Enforced(r, seen)' => Enforced(r, seen2)') /\ (OnIt(r, seen)' => OnIt(r, seen2)')
    <3>1. Enforced(r, seen)' => Enforced(r, seen2)'
      BY <2>1 DEF Enforced
    <3> QED
      BY <2>1, <3>1 DEF OnIt
  <2> QED
    BY <1>2, <1>3, <2>1, <2>2 DEF Owed
<1>5. CopyTrue(r)'
  <2>1. ASSUME Busy(r), ~req[RuleType[r]].isDelete, object'[r] = "cached"
        PROVE  cache'[r].live /\ OnIt(r, cache[r].spec)'
    <3>1. cache'[r] = cache[r] /\ cache[r].live /\ OnIt(r, seen)
      BY <2>1 DEF CopyTrue
    <3>2. OnIt(r, cache[r].spec)' <=> OnIt(r, seen)'
      <4>1. Enforced(r, cache[r].spec)' <=> Enforced(r, seen)'
        BY <3>1 DEF Enforced
      <4> QED
        BY <3>1, <4>1 DEF OnIt
    <3> QED
      BY <1>3, <3>1, <3>2
  <2>2. ASSUME Busy(r), ~req[RuleType[r]].isDelete, object'[r] = "current"
        PROVE  api'[r].live /\ OnIt(r, api[r].spec)'
    <3>1. api'[r] = api[r] /\ api[r].live /\ OnIt(r, now)
      BY <2>2 DEF CopyTrue
    <3>2. OnIt(r, api[r].spec)' <=> OnIt(r, now)'
      <4>1. Enforced(r, api[r].spec)' <=> Enforced(r, now)'
        BY <3>1 DEF Enforced
      <4> QED
        BY <3>1, <4>1 DEF OnIt
    <3> QED
      BY <1>3, <3>1, <3>2
  <2> QED
    BY <1>2, <2>1, <2>2 DEF CopyTrue
<1> QED
  BY <1>4, <1>5

LEMMA DeclaredStays ==
    ASSUME store' = store, StillThere, DeclaredLives PROVE DeclaredLives'
BY SameStore DEF DeclaredLives, StillThere

LEMMA UserKeeps ==
    ASSUME ExtsStay, Typed, DeliveryInv, User
    PROVE  DeliveryInv'
<1> USE DEF DeliveryInv
<1>1. PICK o \in Objects : o \notin Exts /\ \E to : Edit(o, to)
  <2>1. \E o \in Objects : \E ch \in Changes[o] : Edit(o, ch[2])
    BY DEF User
  <2> QED
    BY <2>1 DEF ExtsStay
<1> PICK to : Edit(o, to)
  BY <1>1
<1>2. /\ api' = [api EXCEPT ![o] = Edited(api[o], to)] /\ fresh' = fresh \ {o}
      /\ object' = [r \in Rules |->
                        IF r = o /\ object[r] = "current" THEN "old" ELSE object[r]]
      /\ UNCHANGED <<cache, synced, queue, store, workers>>
  BY <1>1 DEF Edit, User
<1>3. \A x \in Objects \ {o} : api'[x] = api[x]
  BY <1>2 DEF Typed, InformersTypeOK
<1>4. \A e \in Exts : api'[e] = api[e]
  BY <1>1, <1>3, KindsOfObjects
<1>5. StillThere
  BY <1>4 DEF StillThere
<1>6. CopiesOK'
  <2>1. \A x \in fresh' : x \in Objects \ {o} /\ x \in fresh
    BY <1>2, KindsOfObjects DEF Typed, InformersTypeOK
  <2> QED
    BY <1>2, <1>3, <1>4, <2>1 DEF CopiesOK
<1>7. WorkersOK'
  BY <1>2, <1>5, WorkersStay DEF WorkersOK, Up
<1>8. ASSUME NEW r \in Rules PROVE Owed(r)' /\ CopyTrue(r)'
  <2>1. r \in Objects /\ cache' = cache /\ (Pending(r)' <=> Pending(r))
    BY <1>2, KindsOfObjects DEF Pending
  <2>2. /\ object'[r] = "cached" => object[r] = "cached"
        /\ object'[r] = "current" => object[r] = "current" /\ r # o
    BY <1>2
  <2> QED
    BY <1>2, <1>3, <1>5, <2>1, <2>2, RuleSeen
<1> QED
  BY <1>2, <1>5, <1>6, <1>7, <1>8, DeclaredStays

\* The watch brings a version, or finds that it missed a deletion.
LEMMA ReplaceKeeps ==
    ASSUME Typed, DeliveryInv, UNCHANGED <<store, workers>>,
           NEW o \in Cached, Deliver(o) \/ Missed(o)
    PROVE  DeliveryInv'
<1> USE DEF DeliveryInv
<1>1. /\ Replace(o) /\ queue \subseteq queue'
      /\ \/ Notified(o) /\ queue' = queue \cup {Entry(o, api[o])}
         \/ queue' = queue /\ (~Notified(o) \/ (cache[o].live /\ ~api[o].live))
  BY DEF Deliver, Missed
<1>2. /\ cache' = [cache EXCEPT ![o] = Listed(o)] /\ fresh' = fresh \cup {o}
      /\ object' = [r \in Rules |-> IF r = o /\ object[r] = "cached" THEN "old" ELSE object[r]]
      /\ api' = api /\ synced' = synced /\ WorkerOf(o) \in synced
  BY <1>1 DEF Replace
<1>3. cache'[o] = Listed(o) /\ \A x \in Cached \ {o} : cache'[x] = cache[x]
  BY <1>2 DEF Typed, InformersTypeOK
<1>4. Listed(o).live = api[o].live /\ (api[o].live => Listed(o).spec = api[o].spec)
  <2>1. api[o].live \in BOOLEAN
    BY KindsOfObjects DEF Typed, InformersTypeOK, Forms
  <2> QED
    BY <2>1 DEF Listed, Unseen
<1>5. o \in Exts => ~Notified(o) /\ ~(cache[o].live /\ ~api[o].live)
  <2> SUFFICES ASSUME o \in Exts PROVE ~Notified(o) /\ ~(cache[o].live /\ ~api[o].live)
    OBVIOUS
  <2>1. o \notin Rules /\ WorkerOf(o) = "ext"
    BY InformersAssumption, KindsOfObjects
  <2>2. cache[o].live = api[o].live /\ (api[o].live => cache[o].spec = api[o].spec)
    BY <1>2, <2>1 DEF CopiesOK
  <2> QED
    BY <2>1, <2>2 DEF Notified, IsUpdate
<1>6. StillThere
  BY <1>2 DEF StillThere
<1>7. CopiesOK'
  <2>1. \A x \in fresh' : x = o \/ (x \in fresh /\ x \in Cached \ {o})
    BY <1>2 DEF Typed, InformersTypeOK
  <2>2. \A e \in Exts : e = o \/ e \in Cached \ {o}
    BY KindsOfObjects
  <2> QED
    BY <1>2, <1>3, <1>4, <2>1, <2>2 DEF CopiesOK
<1>8. WorkersOK'
  <2>1. Entry(o, api[o]).key = o
    BY DEF Entry
  <2>2. \A i \in queue' : i.key \notin Exts
    BY <1>1, <1>5, <2>1 DEF WorkersOK
  <2> QED
    BY <1>2, <1>6, <2>2, WorkersStay DEF Up
<1>9. ASSUME NEW r \in Rules PROVE Owed(r)' /\ CopyTrue(r)'
  <2>1. r \in Cached /\ (Pending(r) => Pending(r)')
    BY <1>1, KindsOfObjects DEF Pending
  <2>2. /\ object'[r] = "current" => object[r] = "current"
        /\ object'[r] = "cached" => object[r] = "cached" /\ r # o
    BY <1>2
  <2>3. CASE r # o
    BY <1>2, <1>3, <1>6, <2>1, <2>2, <2>3, RuleSeen
  <2>4. CASE r = o
    <3>1. queue' = queue \cup {Entry(r, api[r])} => Pending(r)'
      <4>1. Entry(r, api[r]).key = r
        BY DEF Entry
      <4> QED
        BY <4>1 DEF Pending
    <3>2. ASSUME ~Notified(r), api[r].live, InRange(r)
          PROVE  /\ cache[r].live
                 /\ cache[r].spec.exts = api[r].spec.exts
                 /\ cache[r].spec.action = api[r].spec.action
      <4>1. cache[r].live
        BY <3>2 DEF Notified
      <4>2. ~RuleUpdate(r, cache[r].spec, api[r].spec)
        BY <3>2, <4>1 DEF Notified, IsUpdate
      <4> QED
        BY <3>2, <4>1, <4>2 DEF RuleUpdate, InRange
    <3>3. cache'[r].live = api[r].live /\ (api[r].live => cache'[r].spec = api[r].spec)
      BY <1>3, <1>4, <2>4
    <3> QED
      BY <1>1, <1>2, <1>6, <2>1, <2>2, <2>4, <3>1, <3>2, <3>3, RuleSeen
  <2> QED
    BY <2>3, <2>4
<1> QED
  BY <1>2, <1>6, <1>7, <1>8, <1>9, DeclaredStays

\* An informer lists: no worker runs yet.
LEMMA ListKeeps ==
    ASSUME Typed, DeliveryInv, UNCHANGED <<store, workers>>, NEW k \in Workers, List(k)
    PROVE  DeliveryInv'
<1> USE DEF DeliveryInv
<1>1. /\ k \notin synced /\ synced' = synced \cup {k}
      /\ cache' = [o \in Cached |-> IF WorkerOf(o) = k THEN Listed(o) ELSE cache[o]]
      /\ fresh' = fresh \cup {o \in Cached : WorkerOf(o) = k}
      /\ queue' = queue \cup {Entry(r, api[r]) : r \in {r \in Rules : /\ r \in Cached /\ WorkerOf(r) = k
                                                                      /\ api[r].live}}
      /\ api' = api /\ object' = object
  BY DEF List
<1>2. ~Up /\ \A w \in Workers : pc[w] = "idle"
  BY <1>1 DEF Up, WorkersOK
<1>3. \A o \in Cached : /\ Listed(o).live = api[o].live
                        /\ api[o].live => Listed(o).spec = api[o].spec
  <2>1. \A o \in Cached : api[o].live \in BOOLEAN
    BY KindsOfObjects DEF Typed, InformersTypeOK, Forms
  <2> QED
    BY <2>1 DEF Listed, Unseen
<1>4. StillThere
  BY <1>1 DEF StillThere
<1>5. CopiesOK'
  <2>1. \A o \in fresh' : o \in Cached /\ (o \in fresh \/ WorkerOf(o) = k)
    BY <1>1 DEF Typed, InformersTypeOK
  <2>2. \A o \in Cached : cache'[o] = IF WorkerOf(o) = k THEN Listed(o) ELSE cache[o]
    BY <1>1
  <2>3. (\A o \in fresh : /\ cache[o].live = api[o].live
                          /\ api[o].live => cache[o].spec = api[o].spec)'
    BY <1>1, <1>3, <2>1, <2>2 DEF CopiesOK
  <2>4. ("ext" \in synced => \A e \in Exts : /\ cache[e].live = api[e].live
                                             /\ api[e].live => cache[e].spec = api[e].spec)'
    BY <1>1, <1>3, <2>2, KindsOfObjects DEF CopiesOK
  <2> HIDE DEF DeliveryInv
  <2> QED
    BY <2>3, <2>4 DEF CopiesOK
<1>6. WorkersOK'
  <2>1. \A r : Entry(r, api[r]).key = r
    BY DEF Entry
  <2>2. \A i \in queue' : i.key \notin Exts
    BY <1>1, <2>1, InformersAssumption DEF WorkersOK
  <2> QED
    BY <1>2, <1>4, <2>2, WorkersStay
<1>7. ASSUME NEW r \in Rules PROVE Owed(r)' /\ CopyTrue(r)'
  <2>1. r \in Cached /\ RuleType[r] \in Workers /\ ~Busy(r) /\ (Pending(r) => Pending(r)')
    BY <1>1, <1>2, KindsOfObjects DEF Pending, Busy, Workers
  <2>2. CASE WorkerOf(r) = k /\ api[r].live
    <3>1. Entry(r, api[r]) \in queue' /\ Entry(r, api[r]).key = r
      BY <1>1, <2>1, <2>2 DEF Entry
    <3>2. Pending(r)'
      BY <3>1 DEF Pending
    <3> QED
      BY <1>4, <2>1, <3>2, RuleSeen
  <2>3. CASE WorkerOf(r) = k /\ ~api[r].live
    <3>1. ~cache'[r].live
      BY <1>1, <1>3, <2>1, <2>3
    <3> QED
      BY <1>4, <2>1, <3>1, RuleSeen
  <2>4. CASE WorkerOf(r) # k
    <3>1. cache'[r] = cache[r]
      BY <1>1, <2>1, <2>4
    <3> QED
      BY <1>1, <1>4, <2>1, <3>1, RuleSeen DEF Owed
  <2> QED
    BY <2>2, <2>3, <2>4
<1> QED
  BY <1>4, <1>5, <1>6, <1>7, DeclaredStays

\* The process forgets all it knows, and owes nothing until it lists again.
LEMMA NothingKnown ==
    ASSUME DeclaredLives', \A o \in Cached : ~cache'[o].live, fresh' = {}, synced' = {}, queue' = {},
           \A w \in Workers : pc'[w] = "idle"
    PROVE  DeliveryInv'
<1>1. \A w \in Types : w \in Workers
  BY DEF Workers
<1>2. "ext" \in Workers
  BY DEF Workers
<1>3. CopiesOK' /\ WorkersOK'
  BY <1>1, <1>2 DEF CopiesOK, WorkersOK
<1>4. ASSUME NEW r \in Rules PROVE Owed(r)' /\ CopyTrue(r)'
  <2>1. r \in Cached /\ RuleType[r] \in Workers
    BY KindsOfObjects DEF Workers
  <2>2. ~Busy(r)'
    BY <2>1 DEF Busy
  <2> QED
    BY <2>1, <2>2 DEF Owed, CopyTrue
<1> QED
  BY <1>3, <1>4 DEF DeliveryInv

LEMMA CrashKeeps ==
    ASSUME DeliveryInv, Crash PROVE DeliveryInv'
<1>1. /\ cache' = [o \in Cached |-> Unseen(o)] /\ fresh' = {} /\ synced' = {} /\ queue' = {}
      /\ api' = api /\ store' = store /\ pc' = [w \in Workers |-> "idle"]
  BY DEF Crash, Restarted
<1>2. DeclaredLives'
  BY <1>1, DeclaredStays DEF DeliveryInv, StillThere
<1>3. \A o \in Cached : ~cache'[o].live
  BY <1>1 DEF Unseen
<1> QED
  BY <1>1, <1>2, <1>3, NothingKnown

-----------------------------------------------------------------------------
(* The workers of endpoints and of external services. *)

LEMMA EndpointsEnds ==
    ASSUME Typed, Forget("ep")
    PROVE  OthersWait("ep") /\ pc'["ep"] = "idle" /\ queue' = queue
<1>1. \A r \in Rules : RuleType[r] # "ep"
  BY KindsOfObjects DEF Types
<1>2. "ep" \in Workers
  BY DEF Workers
<1>3. /\ pc'["ep"] = "idle"
      /\ \A v \in Workers \ {"ep"} : pc'[v] = pc[v] /\ item'[v] = item[v]
                                     /\ req'[v] = req[v] /\ todo'[v] = todo[v]
  BY <1>2 DEF Forget, Idle, Typed, WorkInv
<1>4. \A r \in Rules : object'[r] = object[r]
  BY <1>1 DEF Forget, Idle
<1> QED
  BY <1>3, <1>4 DEF OthersWait, Forget

\* An entry that is dropped is not of a rule that counts.
LEMMA IgnoredKeeps ==
    ASSUME Typed, DeliveryInv, NEW i \in queue, queue' = queue \ {i},
           i.key \in Rules => ~InRange(i.key),
           UNCHANGED <<api, cache, fresh, synced, object, store, workers>>
    PROVE  DeliveryInv'
<1>1. OthersWait("ep") /\ pc'["ep"] = pc["ep"]
  BY WorkersWait
<1>2. pc'["ep"] # "idle" => Up
  BY <1>1 DEF DeliveryInv, WorkersOK, Workers
<1>3. MarksOnly
  BY SameMarks
<1> QED
  BY <1>1, <1>2, <1>3, SameStore, OthersKeep

LEMMA EndpointsKeep ==
    ASSUME Typed, StoreTypeOK, DeliveryInv, EndpointsWorker
    PROVE  DeliveryInv'
<1>1. \A i \in queue : Takes("ep", i) => i.key \notin Rules
  BY InformersAssumption, KindsOfObjects, QueueTyped DEF Takes, Typed, IsEntry
<1>2. ASSUME NEW i \in queue, EndpointsStart(i) PROVE DeliveryInv'
  <2>1. /\ Takes("ep", i) /\ queue' = queue \ {i}
        /\ UNCHANGED <<api, cache, fresh, synced, object, store, todo>>
        /\ item' = [item EXCEPT !["ep"] = i] /\ pc' = [pc EXCEPT !["ep"] = "patch"]
        /\ \E q : req' = [req EXCEPT !["ep"] = q]
    BY <1>2 DEF EndpointsStart
  <2>2. OthersWait("ep") /\ Up
    BY <2>1 DEF OthersWait, Takes, Typed, WorkInv
  <2>3. MarksOnly
    BY <2>1, SameMarks
  <2> QED
    BY <1>1, <2>1, <2>2, <2>3, SameStore, OthersKeep
<1>3. ASSUME NEW i \in queue, EndpointsIgnored(i) PROVE DeliveryInv'
  BY <1>1, <1>3, IgnoredKeeps DEF EndpointsIgnored
<1>4. CASE EndpointsPatch
  <2>1. Forget("ep") /\ UNCHANGED <<api, cache, fresh, synced>>
    BY <1>4 DEF EndpointsPatch
  <2>2. \A r \in Rules, e \in Exts : /\ Holds(r, e)' <=> Holds(r, e)
                                     /\ DeclaredFor(r, e)' = DeclaredFor(r, e)
    BY <1>4, PatchHolds DEF EndpointsPatch
  <2>3. MarksOnly
    BY <2>1, SameMarks
  <2> QED
    BY <2>1, <2>2, <2>3, EndpointsEnds, OthersKeep
<1>5. CASE EndpointsPatchFails
  <2>1. Forget("ep") /\ UNCHANGED <<api, cache, fresh, synced, store>>
    BY <1>5 DEF EndpointsPatchFails
  <2>2. MarksOnly
    BY <2>1, SameMarks
  <2> QED
    BY <2>1, <2>2, EndpointsEnds, SameStore, OthersKeep
<1> QED
  BY <1>2, <1>3, <1>4, <1>5 DEF EndpointsWorker

LEMMA NoExternalService ==
    ASSUME Typed, DeliveryInv PROVE ~ExternalServiceWorker
<1>1. \A i \in queue : ~Takes("ext", i)
  BY KindsOfObjects, QueueTyped DEF Takes, Typed, IsEntry, DeliveryInv, WorkersOK
<1>2. pc["ext"] # "post"
  BY DEF DeliveryInv, WorkersOK
<1> QED
  BY <1>1, <1>2 DEF ExternalServiceWorker, ExtStart, ExtIgnored, Post, PostFails

-----------------------------------------------------------------------------
(* The invariant holds. *)

LEMMA DeliveryInit == Init => DeliveryInv
<1> SUFFICES ASSUME Init PROVE DeliveryInv
  OBVIOUS
<1>1. /\ fresh = {} /\ synced = {} /\ queue = {} /\ pc = [w \in Workers |-> "idle"]
      /\ \A o \in Cached : ~cache[o].live
  BY DEF Init, InformersInit, Unseen
<1>2. DeclaredLives
  <2>1. \A t \in Tenants : store[t] = Absent \/ store[t] = DefaultApp(Common)
    BY DEF Init, StoreInit
  <2>2. DefaultApp(Common).rules = <<>>
    BY DEF DefaultApp
  <2>3. \A r \in Rules : TenantOf[r] \in Tenants
    BY DeclarationAssumption
  <2> QED
    BY <2>1, <2>2, <2>3 DEF DeclaredLives, Holds
<1>3. CopiesOK /\ WorkersOK
  <2>1. \A w \in Types : w \in Workers
    BY DEF Workers
  <2>2. "ext" \in Workers
    BY DEF Workers
  <2> QED
    BY <1>1, <2>1, <2>2 DEF CopiesOK, WorkersOK
<1>4. ASSUME NEW r \in Rules PROVE Owed(r) /\ CopyTrue(r)
  <2>1. r \in Cached /\ RuleType[r] \in Workers
    BY KindsOfObjects DEF Workers
  <2>2. ~Busy(r)
    BY <1>1, <2>1 DEF Busy
  <2> QED
    BY <1>1, <2>1, <2>2 DEF Owed, CopyTrue
<1> QED
  BY <1>2, <1>3, <1>4 DEF DeliveryInv

LEMMA StutterKeeps ==
    ASSUME Typed, DeliveryInv, UNCHANGED vars PROVE DeliveryInv'
<1>1. /\ UNCHANGED <<store, workers, object>> /\ UNCHANGED <<api, cache, fresh, synced>>
      /\ queue' = queue
  BY DEF vars, informers
<1>2. OthersWait("ep") /\ pc'["ep"] = pc["ep"]
  BY <1>1, WorkersWait
<1>3. pc'["ep"] # "idle" => Up
  BY <1>2 DEF DeliveryInv, WorkersOK, Workers
<1>4. MarksOnly
  BY <1>1, SameMarks
<1> QED
  BY <1>1, <1>2, <1>3, <1>4, SameStore, OthersKeep

LEMMA DeliveryStep ==
    ASSUME ExtsStay, Typed, StoreTypeOK, DeliveryInv, [Next]_vars
    PROVE  DeliveryInv'
<1>1. CASE UNCHANGED vars
  BY <1>1, StutterKeeps
<1>2. CASE User
  BY <1>2, UserKeeps
<1>3. CASE Watch
  <2>1. UNCHANGED <<store, workers>>
    BY <1>3 DEF Watch, WatchOf
  <2>2. ASSUME NEW k \in Workers, WatchOf(k) PROVE DeliveryInv'
    BY <2>1, <2>2, ReplaceKeeps, ListKeeps DEF WatchOf
  <2> QED
    BY <1>3, <2>2 DEF Watch
<1>4. ASSUME NEW w \in Types, RuleWorker(w) PROVE DeliveryInv'
  <2>1. CASE RuleStep(w)
    BY <2>1, RuleStepKeeps
  <2>2. ASSUME NEW i \in queue, RuleStart(w, i) PROVE DeliveryInv'
    BY <2>2, RuleStartKeeps
  <2>3. ASSUME NEW i \in queue, RuleIgnored(w, i) PROVE DeliveryInv'
    BY <2>3, IgnoredKeeps DEF RuleIgnored
  <2> QED
    BY <1>4, <2>1, <2>2, <2>3 DEF RuleWorker
<1>5. CASE ClusterEgressRuleWorker \/ NamespaceEgressRuleWorker \/ ServiceEgressRuleWorker
  BY <1>4, <1>5 DEF ClusterEgressRuleWorker, NamespaceEgressRuleWorker, ServiceEgressRuleWorker, Types
<1>6. CASE ExternalServiceWorker
  BY <1>6, NoExternalService
<1>7. CASE EndpointsWorker
  BY <1>7, EndpointsKeep
<1>8. CASE Crash
  BY <1>8, CrashKeeps
<1> QED
  BY <1>1, <1>2, <1>3, <1>5, <1>6, <1>7, <1>8 DEF Next

\* While nobody touches an external service, every rule is declared as the controller
\* sees it, or an entry of the queue or its handler is about to declare it.
THEOREM Delivers == ExtsStay /\ Spec => []DeliveryInv
<1>1. Spec => []StoreTypeOK
  BY ImplementsStore, StoreTyped
<1> SUFFICES ASSUME ExtsStay PROVE Spec => []DeliveryInv
  OBVIOUS
<1>2. Typed /\ StoreTypeOK /\ DeliveryInv /\ [Next]_vars => DeliveryInv'
  BY DeliveryStep
<1> QED
  BY <1>1, <1>2, DeliveryInit, HandlersTyped, PTL DEF Spec

-----------------------------------------------------------------------------
(* What users see. *)

\* However users edit rules, and whatever fails or crashes: once everything is quiet, every
\* rule has its rule lists, with its action.
THEOREM RulesAreDeclared == ExtsStay /\ Spec => []RulesDeclared
<1>1. Typed /\ DeliveryInv => RulesDeclared
  <2> SUFFICES ASSUME Typed, DeliveryInv, Quiet, NEW r \in LiveRules, NEW e \in LiveExts(r)
               PROVE  Holds(r, e) /\ DeclaredFor(r, e).action = api[r].spec.action
    BY DEF RulesDeclared
  <2>1. r \in Rules /\ api[r].live /\ InRange(r) /\ e \in Range(api[r].spec.exts) /\ api[e].live
    BY DEF LiveRules, LiveExts
  <2>2. r \in Cached /\ r \in fresh /\ RuleType[r] \in Workers
    BY <2>1, KindsOfObjects DEF Quiet, Workers
  <2>3. cache[r].live /\ cache[r].spec = api[r].spec
    BY <2>1, <2>2 DEF DeliveryInv, CopiesOK
  <2>4. ~Busy(r)
    BY <2>2 DEF Quiet, Busy
  <2>5. ~Pending(r)
    BY <2>1, InformersAssumption DEF Quiet, Pending
  <2>6. Enforced(r, api[r].spec)
    BY <2>1, <2>3, <2>4, <2>5 DEF DeliveryInv, Owed
  <2> QED
    BY <2>1, <2>6 DEF Enforced
<1> QED
  BY <1>1, Delivers, HandlersTyped, PTL

\* A step makes the status of a rule "success".
Succeeds(r) == api'[r].mark = "success" /\ api[r].mark # "success"

\* Only the worker of a rule does, when it is done and its copy is the current version.
LEMMA OnlyItsWorker ==
    ASSUME Typed, DeliveryInv, [Next]_vars, NEW r \in Rules, Succeeds(r)
    PROVE  LET w == RuleType[r]
           IN  w \in Types /\ pc[w] = "done" /\ req[w].rule = r /\ Current(r)
<1>1. r \in Objects /\ r \notin Exts /\ RuleType[r] \in Types
  BY KindsOfObjects, InformersAssumption DEF Cached
<1>2. api' # api
  BY DEF Succeeds
<1>3. ~User
  <2> SUFFICES ASSUME User PROVE FALSE
    OBVIOUS
  <2>1. PICK o \in Objects : \E to : Edit(o, to)
    BY DEF User
  <2>2. PICK to : api' = [api EXCEPT ![o] = Edited(api[o], to)]
    BY <2>1 DEF Edit
  <2>3. api'[r] = IF r = o THEN Edited(api[r], to) ELSE api[r]
    BY <1>1, <2>2 DEF Typed, InformersTypeOK
  <2>4. api[r] = [live |-> api[r].live, spec |-> api[r].spec, mark |-> api[r].mark]
    BY <1>1 DEF Typed, InformersTypeOK, Forms
  <2>5. Edited(api[r], to).mark = "success" => api[r].mark = "success"
    BY <2>4 DEF Edited, Phases
  <2> QED
    BY <2>3, <2>5 DEF Succeeds
<1>4. ~(Watch \/ Crash \/ EndpointsWorker \/ UNCHANGED vars)
  BY <1>2 DEF Watch, WatchOf, Deliver, Missed, Replace, List, Crash, Restarted, EndpointsWorker,
     EndpointsStart, EndpointsIgnored, EndpointsPatch, EndpointsPatchFails, vars, informers
<1>5. \A w \in Types : \A i \in queue : ~RuleStart(w, i) /\ ~RuleIgnored(w, i)
  BY <1>2 DEF RuleStart, RuleIgnored
<1>6. PICK w \in Types : RuleStep(w)
  BY <1>3, <1>4, <1>5, NoExternalService
     DEF Next, RuleWorker, ClusterEgressRuleWorker, NamespaceEgressRuleWorker,
         ServiceEgressRuleWorker, Types
<1>7. \A e \in Exts : \A label : ~WriteLabel(e, label)
  BY <1>1 DEF WriteLabel, Typed, InformersTypeOK, Succeeds
<1>8. ASSUME NEW x, NEW phase, WritePhase(x, phase) PROVE x = r /\ phase = "success" /\ Current(r)
  <2>1. api' = [api EXCEPT ![x].mark = phase] /\ Current(x)
    BY <1>8 DEF WritePhase
  <2>2. api[r] = [live |-> api[r].live, spec |-> api[r].spec, mark |-> api[r].mark]
    BY <1>1 DEF Typed, InformersTypeOK, Forms
  <2>3. x = r
    BY <1>1, <2>1 DEF Succeeds, Typed, InformersTypeOK
  <2>4. api'[r] = [api[r] EXCEPT !.mark = phase]
    BY <1>1, <2>1, <2>3 DEF Typed, InformersTypeOK
  <2>5. api'[r].mark = phase
    BY <2>2, <2>4
  <2> QED
    BY <2>1, <2>3, <2>5 DEF Succeeds
<1>9. Succeed(w) \/ PhaseFails(w, "done", "success")
  <2>1. ~(ExtMissing(w) \/ ExtLabelled(w) \/ NothingToDo(w) \/ Post(w) \/ PostFails(w))
    BY <1>2 DEF ExtMissing, ExtLabelled, NothingToDo, Post, PostFails
  <2>2. ~(ExtLabel(w) \/ ExtLabelFails(w))
    BY <1>2, <1>7 DEF ExtLabel, ExtLabelFails
  <2>3. ~(Announce(w) \/ PhaseFails(w, "status", "syncing"))
    BY <1>2, <1>8 DEF Announce, PhaseFails
  <2> QED
    BY <1>6, <2>1, <2>2, <2>3 DEF RuleStep
<1>10. pc[w] = "done" /\ \E phase : WritePhase(req[w].rule, phase)
  BY <1>2, <1>9 DEF Succeed, PhaseFails
<1>11. req[w].rule = r /\ Current(r)
  BY <1>8, <1>10
<1>12. RuleType[r] = w
  BY <1>10, <1>11, OwnEntry DEF DeliveryInv
<1> QED
  BY <1>10, <1>11, <1>12

\* However users edit rules, and whatever fails or crashes: the status of a rule becomes
\* "success" only when its current version is what is declared.
THEOREM SuccessIsReal == ExtsStay /\ Spec => SuccessIsTrue
<1> DEFINE True(r) == /\ api[r].live
                      /\ \A e \in Range(api[r].spec.exts) :
                            Holds(r, e) => DeclaredFor(r, e).action = api[r].spec.action
<1>1. ASSUME Typed, DeliveryInv, [Next]_vars, NEW r \in Rules, Succeeds(r)
      PROVE  True(r)
  <2> PICK w : w = RuleType[r]
    OBVIOUS
  <2>1. w \in Types /\ pc[w] = "done" /\ req[w].rule = r /\ Current(r)
    BY <1>1, OnlyItsWorker
  <2>2. Busy(r) /\ ~req[w].isDelete /\ CopyTrue(r) /\ CopiesOK /\ DeclaredLives
    BY <1>1, <2>1 DEF DeliveryInv, WorkersOK, Busy
  <2>3. api[r].live /\ OnIt(r, api[r].spec)
    BY <2>1, <2>2, CurrentTrue
  <2>4. Enforced(r, api[r].spec) /\ Range(api[r].spec.exts) \subseteq Exts
    BY <1>1, <2>1, <2>3, ListsTyped DEF OnIt, Typed
  <2> QED
    BY <2>2, <2>3, <2>4 DEF Enforced, DeclaredLives
<1>2. Typed /\ DeliveryInv /\ [Next]_vars => [\A r \in Rules : Succeeds(r) => True(r)]_vars
  BY <1>1
<1>3. ExtsStay /\ Spec => [][\A r \in Rules : Succeeds(r) => True(r)]_vars
  BY <1>2, Delivers, HandlersTyped, PTL DEF Spec
<1> QED
  BY <1>3 DEF SuccessIsTrue, Succeeds

-----------------------------------------------------------------------------
(* The status of a rule. *)

\* The controller and the API server have rule r, with an external service that exists.
Expected(r) ==
    /\ cache[r].live /\ api[r].live /\ InRange(r)
    /\ \E e \in Range(cache[r].spec.exts) : api[e].live

\* If nothing is left to do for it, its status says so.
Told(r) == (Expected(r) /\ ~Pending(r) /\ ~Busy(r)) => api[r].mark = "success"

\* An informer holds nothing before it lists.
ListedFirst == \A o \in Cached : cache[o].live => WorkerOf(o) \in synced

PhaseInv == ListedFirst /\ \A r \in Rules : Told(r)

LEMMA ListedFirstStep ==
    ASSUME Typed, ListedFirst, [Next]_vars
    PROVE  ListedFirst'
<1>1. CASE \/ UNCHANGED vars \/ User \/ EndpointsWorker \/ ExternalServiceWorker
           \/ \E w \in Types : \E i \in queue : RuleStart(w, i) \/ RuleIgnored(w, i)
  <2>1. CASE UNCHANGED vars
    BY <2>1 DEF vars, informers, ListedFirst
  <2>5. CASE User
    <3>1. UNCHANGED <<cache, synced>>
      BY <2>5 DEF User, Edit
    <3> QED
      BY <3>1 DEF ListedFirst
  <2>2. CASE EndpointsWorker
    BY <2>2 DEF EndpointsWorker, EndpointsStart, EndpointsIgnored, EndpointsPatch,
       EndpointsPatchFails, ListedFirst
  <2>3. CASE ExternalServiceWorker
    BY <2>3 DEF ExternalServiceWorker, ExtStart, ExtIgnored, Post, PostFails, ListedFirst
  <2>4. CASE \E w \in Types : \E i \in queue : RuleStart(w, i) \/ RuleIgnored(w, i)
    BY <2>4 DEF RuleStart, RuleIgnored, ListedFirst
  <2> QED
    BY <1>1, <2>1, <2>2, <2>3, <2>4, <2>5
<1>2. ASSUME NEW w \in Types, RuleStep(w) PROVE ListedFirst'
  <2>1. MarksOnly
    BY <1>2, StepMarks
  <2> QED
    BY <2>1 DEF MarksOnly, ListedFirst
<1>3. ASSUME NEW o \in Cached, Deliver(o) \/ Missed(o) PROVE ListedFirst'
  <2>1. /\ WorkerOf(o) \in synced /\ synced' = synced
        /\ cache' = [cache EXCEPT ![o] = Listed(o)]
    BY <1>3 DEF Deliver, Missed, Replace
  <2>2. \A x \in Cached \ {o} : cache'[x] = cache[x]
    BY <2>1 DEF Typed, InformersTypeOK
  <2> QED
    BY <2>1, <2>2 DEF ListedFirst
<1>4. ASSUME NEW k, List(k) PROVE ListedFirst'
  <2>1. /\ synced' = synced \cup {k}
        /\ \A o \in Cached : WorkerOf(o) # k => cache'[o] = cache[o]
    BY <1>4 DEF List
  <2> QED
    BY <2>1 DEF ListedFirst
<1>5. CASE Crash
  <2>1. cache' = [o \in Cached |-> Unseen(o)]
    BY <1>5 DEF Crash, Restarted
  <2> QED
    BY <2>1 DEF ListedFirst, Unseen
<1>6. CASE Watch
  BY <1>3, <1>4, <1>6 DEF Watch, WatchOf
<1> QED
  BY <1>1, <1>2, <1>5, <1>6 DEF Next, RuleWorker, ClusterEgressRuleWorker,
     NamespaceEgressRuleWorker, ServiceEgressRuleWorker, Types

LEMMA UserTells ==
    ASSUME ExtsStay, "missed" \notin Faults, Typed, CopiesOK, ListedFirst, User,
           NEW r \in Rules, Told(r), Expected(r)', ~Pending(r)', ~Busy(r)'
    PROVE  api'[r].mark = "success"
<1>1. PICK o \in Objects : o \notin Exts /\ \E to : Edit(o, to)
  <2>1. \E o \in Objects : \E ch \in Changes[o] : Edit(o, ch[2])
    BY DEF User
  <2> QED
    BY <2>1 DEF ExtsStay
<1> PICK to : Edit(o, to)
  BY <1>1
<1>2. /\ api' = [api EXCEPT ![o] = Edited(api[o], to)]
      /\ UNCHANGED <<cache, synced, queue, pc, item>>
      /\ ~api[o].live => DeletionSeen(o)
  BY <1>1 DEF Edit, User, workers
<1>3. /\ \A x \in Objects \ {o} : api'[x] = api[x]
      /\ api'[o] = Edited(api[o], to)
  BY <1>1, <1>2 DEF Typed, InformersTypeOK
<1>4. /\ r \in Objects /\ r \in Cached /\ r # Namespace
      /\ \A e \in Exts : api'[e] = api[e]
  BY <1>1, <1>3, KindsOfObjects, InformersAssumption
<1>5. Range(cache[r].spec.exts) \subseteq Exts
  BY ListsTyped DEF Typed
<1>6. /\ cache[r].live /\ InRange(r) /\ ~Pending(r) /\ ~Busy(r)
      /\ \E e \in Range(cache[r].spec.exts) : api[e].live
  BY <1>2, <1>4, <1>5 DEF Expected, InRange, Pending, Busy
<1>7. CASE o # r
  <2>1. api'[r] = api[r] /\ api[r].live
    BY <1>3, <1>4, <1>7 DEF Expected
  <2> QED
    BY <1>6, <2>1 DEF Told, Expected
<1>8. CASE o = r
  <2> PICK v : v = api[r]
    OBVIOUS
  <2>1. v = [live |-> v.live, spec |-> v.spec, mark |-> v.mark]
    BY <1>4 DEF Typed, InformersTypeOK, Forms
  <2>2. api[r].live
    <3> SUFFICES ASSUME ~api[r].live PROVE FALSE
      OBVIOUS
    <3>1. DeletionSeen(r)
      BY <1>2, <1>8
    <3>2. r \in fresh \/ WorkerOf(r) \notin synced
      BY <1>4, <3>1 DEF DeletionSeen
    <3> QED
      BY <1>4, <1>6, <3>2 DEF CopiesOK, ListedFirst
  <2>3. api'[r].live /\ api'[r] = Edited(v, to)
    BY <1>3, <1>8 DEF Expected
  <2>4. to # Gone
    BY <2>1, <2>3 DEF Edited
  <2>5. api'[r].mark = v.mark
    BY <2>1, <2>2, <2>3, <2>4 DEF Edited
  <2> QED
    BY <1>6, <2>2, <2>5 DEF Told, Expected
<1> QED
  BY <1>7, <1>8

LEMMA WatchTells ==
    ASSUME "missed" \notin Faults, Typed, Watch,
           NEW r \in Rules, Told(r), Expected(r)', ~Pending(r)', ~Busy(r)'
    PROVE  api'[r].mark = "success"
<1>1. /\ UNCHANGED <<pc, item>>
  BY DEF Watch, WatchOf, workers
<1>2. r \in Cached /\ InRange(r) /\ ~Busy(r)
  BY <1>1, KindsOfObjects DEF Expected, InRange, Busy
<1>3. ASSUME NEW o \in Cached, Deliver(o) PROVE api'[r].mark = "success"
  <2>1. /\ cache' = [cache EXCEPT ![o] = Listed(o)] /\ api' = api
        /\ queue' = IF Notified(o) THEN queue \cup {Entry(o, api[o])} ELSE queue
    BY <1>3 DEF Deliver, Replace
  <2>2. ~Pending(r) /\ api[r].live
    BY <2>1 DEF Pending, Expected
  <2>3. CASE o # r
    <3>1. cache'[r] = cache[r]
      BY <1>2, <2>1, <2>3 DEF Typed, InformersTypeOK
    <3> QED
      BY <1>2, <2>1, <2>2, <3>1 DEF Told, Expected
  <2>4. CASE o = r
    <3>1. cache'[r] = api[r]
      BY <1>2, <2>1, <2>2, <2>4 DEF Typed, InformersTypeOK, Listed
    <3>2. ~Notified(r)
      <4>1. Entry(r, api[r]).key = r
        BY DEF Entry
      <4> QED
        BY <2>1, <2>4, <4>1 DEF Pending
    <3>3. cache[r].live /\ ~RuleUpdate(r, cache[r].spec, api[r].spec)
      BY <2>2, <3>2 DEF Notified, IsUpdate
    <3>4. cache[r].spec.exts = api[r].spec.exts
      BY <1>2, <3>3 DEF RuleUpdate, InRange
    <3>5. Expected(r)
      BY <1>2, <2>1, <2>2, <3>1, <3>3, <3>4 DEF Expected
    <3> QED
      BY <1>2, <2>1, <2>2, <3>5 DEF Told
  <2> QED
    BY <2>3, <2>4
<1>4. ASSUME NEW k, List(k) PROVE api'[r].mark = "success"
  <2>1. api' = api /\ queue \subseteq queue'
    BY <1>4 DEF List
  <2>2. ~Pending(r) /\ api[r].live
    BY <2>1 DEF Pending, Expected
  <2>3. WorkerOf(r) # k
    <3> SUFFICES ASSUME WorkerOf(r) = k PROVE FALSE
      OBVIOUS
    <3>1. Entry(r, api[r]) \in queue'
      BY <1>2, <1>4, <2>2 DEF List
    <3>2. Entry(r, api[r]).key = r
      BY DEF Entry
    <3> QED
      BY <3>1, <3>2 DEF Pending
  <2>4. cache'[r] = cache[r]
    BY <1>2, <1>4, <2>3 DEF List
  <2> QED
    BY <1>2, <2>1, <2>2, <2>4 DEF Told, Expected
<1>5. ASSUME NEW o, Missed(o) PROVE FALSE
  BY <1>5 DEF Missed
<1> QED
  BY <1>3, <1>4, <1>5 DEF Watch, WatchOf

\* A worker that takes an entry, drops it, or is not one of rules.
LEMMA OthersTell ==
    ASSUME NEW r \in Rules, Told(r), Expected(r)', ~Pending(r)', ~Busy(r)',
           api' = api, cache' = cache, InRange(r) => (Pending(r) => Pending(r)'),
           Busy(r) => Busy(r)'
    PROVE  api'[r].mark = "success"
<1>1. Expected(r) /\ InRange(r)
  BY DEF Expected, InRange
<1> QED
  BY <1>1 DEF Told

\* A step of a worker of rules leaves the status of every other rule alone.
LEMMA OtherMark ==
    ASSUME Typed, WorkersOK, NEW w \in Types, RuleStep(w), NEW r \in Rules, r # req[w].rule
    PROVE  api'[r] = api[r]
<1>1. r \in Objects /\ r \notin Exts
  BY KindsOfObjects, InformersAssumption
<1>2. \A e \in Exts : \A label : WriteLabel(e, label) => api'[r] = api[r]
  BY <1>1 DEF WriteLabel, Typed, InformersTypeOK
<1>3. \A phase : WritePhase(req[w].rule, phase) => api'[r] = api[r]
  BY <1>1 DEF WritePhase, Typed, InformersTypeOK
<1>4. CASE ExtMissing(w) \/ ExtLabelled(w) \/ NothingToDo(w) \/ Post(w) \/ PostFails(w)
  BY <1>4 DEF ExtMissing, ExtLabelled, NothingToDo, Post, PostFails
<1>5. CASE ExtLabel(w) \/ ExtLabelFails(w)
  BY <1>2, <1>5 DEF ExtLabel, ExtLabelFails
<1>6. CASE Announce(w) \/ Succeed(w)
  BY <1>3, <1>6 DEF Announce, Succeed
<1>7. ASSUME NEW step, NEW phase, PhaseFails(w, step, phase) PROVE api'[r] = api[r]
  BY <1>3, <1>7 DEF PhaseFails
<1> QED
  BY <1>4, <1>5, <1>6, <1>7 DEF RuleStep

\* A worker that is done with a rule has set its status, or puts its entry back.
LEMMA OwnRuleTells ==
    ASSUME Typed, DeliveryInv, NEW w \in Types, RuleStep(w), NEW r, r = req[w].rule,
           Expected(r), ~Pending(r), ~Pending(r)', ~Busy(r)'
    PROVE  api'[r].mark = "success"
<1>1. pc[w] # "idle"
  BY StepEnds DEF DeliveryInv
<1>2. /\ w \in Workers /\ r \in Rules /\ RuleType[r] = w /\ item[w].key = r /\ Busy(r)
      /\ r \in Objects
  BY <1>1, OwnEntry, KindsOfObjects DEF DeliveryInv
<1>3. OnIt(r, cache[r].spec)
  BY <1>2 DEF DeliveryInv, Owed, Expected
<1>4. ~Requeue(w)
  BY <1>2 DEF Requeue, Pending
<1>5. ~Continued(w)
  BY <1>2 DEF Continued, Busy
<1>6. \A q : ~Proceed(w, q)
  BY <1>5, ProceedContinues
<1>7. ~NothingToDo(w)
  <2> SUFFICES ASSUME NothingToDo(w) PROVE FALSE
    OBVIOUS
  <2>1. req[w].exts = <<>> /\ todo[w] = <<>>
    BY <1>1 DEF NothingToDo, DeliveryInv, WorkersOK
  <2>2. Range(req[w].exts) \cup Range(todo[w]) = {}
    BY <2>1 DEF Range
  <2> QED
    BY <1>2, <1>3, <2>2 DEF OnIt, Expected
<1>8. ~Post(w)
  <2> SUFFICES ASSUME Post(w) PROVE FALSE
    OBVIOUS
  <2>1. w # "ext" /\ ~req[w].isDelete
    BY <1>2, <1>3 DEF Types, OnIt
  <2>2. pc' = [pc EXCEPT ![w] = "done"] /\ item' = item
    BY <2>1 DEF Post
  <2>3. pc'[w] = "done"
    BY <1>2, <2>2 DEF Typed, WorkInv
  <2> QED
    BY <1>2, <2>2, <2>3 DEF Busy
<1>9. ~Announce(w)
  <2> SUFFICES ASSUME Announce(w) PROVE FALSE
    OBVIOUS
  <2>1. pc' = [pc EXCEPT ![w] = "post"] /\ item' = item
    BY DEF Announce
  <2>2. pc'[w] = "post"
    BY <1>2, <2>1 DEF Typed, WorkInv
  <2> QED
    BY <1>2, <2>1, <2>2 DEF Busy
<1>10. Succeed(w)
  BY <1>4, <1>6, <1>7, <1>8, <1>9 DEF RuleStep, ExtMissing, ExtLabelled, ExtLabel,
     ExtLabelFails, PhaseFails, PostFails
<1>11. api' = [api EXCEPT ![r].mark = "success"]
  BY <1>10 DEF Succeed, WritePhase
<1>12. api[r] = [live |-> api[r].live, spec |-> api[r].spec, mark |-> api[r].mark]
  BY <1>2 DEF Typed, InformersTypeOK, Forms
<1>13. api'[r] = [api[r] EXCEPT !.mark = "success"]
  BY <1>2, <1>11 DEF Typed, InformersTypeOK
<1> QED
  BY <1>12, <1>13

LEMMA RuleStepTells ==
    ASSUME Typed, DeliveryInv, NEW w \in Types, RuleStep(w),
           NEW r \in Rules, Told(r), Expected(r)', ~Pending(r)', ~Busy(r)'
    PROVE  api'[r].mark = "success"
<1>1. pc[w] # "idle" /\ (Ended(w) \/ Continued(w)) /\ MarksOnly
  BY StepEnds, StepMarks DEF DeliveryInv
<1>2. /\ OthersWait(w) /\ queue' \in {queue, queue \cup {item[w]}}
  BY <1>1, StepFrame DEF DeliveryInv
<1>3. r \in Cached /\ r \in Objects /\ RuleType[r] \in Workers
  BY KindsOfObjects DEF Workers
<1>4. Expected(r)
  <2>1. Range(cache[r].spec.exts) \subseteq Exts
    BY ListsTyped DEF Typed
  <2>2. \A e \in Exts : api'[e].live = api[e].live
    BY <1>1, KindsOfObjects DEF MarksOnly, Objects
  <2>3. /\ cache'[r].live = cache[r].live /\ cache'[r].spec = cache[r].spec
        /\ api'[r].live = api[r].live
    BY <1>1, <1>3 DEF MarksOnly
  <2> QED
    BY <2>1, <2>2, <2>3 DEF Expected, InRange
<1>5. ~Pending(r)
  BY <1>2 DEF Pending
<1>6. CASE r = req[w].rule
  BY <1>4, <1>5, <1>6, OwnRuleTells
<1>7. CASE r # req[w].rule
  <2>1. ~Busy(r)
    <3>1. CASE RuleType[r] = w
      BY <1>1, <1>7, <3>1, OwnEntry DEF DeliveryInv
    <3>2. CASE RuleType[r] # w
      BY <1>2, <1>3, <3>2 DEF OthersWait, Busy
    <3> QED
      BY <3>1, <3>2
  <2>2. api'[r] = api[r]
    BY <1>7, OtherMark DEF DeliveryInv
  <2> QED
    BY <1>4, <1>5, <2>1, <2>2 DEF Told
<1> QED
  BY <1>6, <1>7

LEMMA RuleStartTells ==
    ASSUME Typed, NEW w \in Types, NEW i \in queue, RuleStart(w, i) \/ RuleIgnored(w, i),
           NEW r \in Rules, Told(r), Expected(r)', ~Pending(r)', ~Busy(r)'
    PROVE  api'[r].mark = "success"
<1>1. /\ pc[w] = "idle" /\ WorkerOf(i.key) = w /\ queue' = queue \ {i}
      /\ api' = api /\ cache' = cache
  BY DEF RuleStart, RuleIgnored, Takes
<1>2. w \in Workers /\ WorkerOf(r) = RuleType[r]
  BY KindsOfObjects DEF Workers
<1>3. CASE RuleIgnored(w, i)
  <2>1. pc' = pc /\ item' = item
    BY <1>3 DEF RuleIgnored, workers
  <2>2. InRange(r) => i.key # r
    BY <1>3 DEF RuleIgnored
  <2> QED
    BY <1>1, <2>1, <2>2, OthersTell DEF Pending, Busy
<1>4. CASE RuleStart(w, i)
  <2>1. /\ item' = [item EXCEPT ![w] = i]
        /\ \E known, spec : pc' = [pc EXCEPT ![w] = After(req'[w], spec.exts, known)]
    BY <1>4 DEF RuleStart
  <2>2. /\ item'[w] = i /\ pc'[w] # "idle"
        /\ \A v \in Workers \ {w} : pc'[v] = pc[v] /\ item'[v] = item[v]
    BY <1>2, <2>1 DEF After, Typed, WorkInv
  <2>3. i.key # r
    BY <1>1, <1>2, <2>2 DEF Busy
  <2>4. RuleType[r] \in Workers
    BY KindsOfObjects DEF Workers
  <2>5. Busy(r) => Busy(r)'
    BY <1>1, <2>2, <2>4 DEF Busy
  <2> QED
    BY <1>1, <2>3, <2>5, OthersTell DEF Pending
<1> QED
  BY <1>3, <1>4

LEMMA EndpointsTell ==
    ASSUME Typed, EndpointsWorker,
           NEW r \in Rules, Told(r), Expected(r)', ~Pending(r)', ~Busy(r)'
    PROVE  api'[r].mark = "success"
<1>1. RuleType[r] # "ep" /\ RuleType[r] \in Workers /\ "ep" \in Workers
  BY KindsOfObjects DEF Types, Workers
<1>2. api' = api /\ cache' = cache
  BY DEF EndpointsWorker, EndpointsStart, EndpointsIgnored, EndpointsPatch, EndpointsPatchFails
<1>3. \A v \in Workers \ {"ep"} : pc'[v] = pc[v] /\ item'[v] = item[v]
  <2>1. CASE EndpointsPatch \/ EndpointsPatchFails
    BY <2>1, EndpointsEnds DEF EndpointsPatch, EndpointsPatchFails, OthersWait
  <2>2. CASE \E i \in queue : EndpointsStart(i) \/ EndpointsIgnored(i)
    BY <2>2 DEF EndpointsStart, EndpointsIgnored, workers, Typed, WorkInv
  <2> QED
    BY <2>1, <2>2 DEF EndpointsWorker
<1>4. \A i \in queue : i.key = r => i \in queue'
  <2>1. \A i \in queue : Takes("ep", i) => i.key \notin Rules
    BY InformersAssumption, KindsOfObjects, QueueTyped DEF Takes, Typed, IsEntry
  <2> QED
    BY <2>1 DEF EndpointsWorker, EndpointsStart, EndpointsIgnored, EndpointsPatch,
       EndpointsPatchFails, Forget
<1>5. Busy(r) => Busy(r)'
  BY <1>1, <1>3 DEF Busy
<1> QED
  BY <1>2, <1>4, <1>5, OthersTell DEF Pending

LEMMA PhaseInvStep ==
    ASSUME ExtsStay, "missed" \notin Faults, Typed, DeliveryInv, PhaseInv, [Next]_vars
    PROVE  PhaseInv'
<1>1. ASSUME NEW r \in Rules, Expected(r)', ~Pending(r)', ~Busy(r)'
      PROVE  api'[r].mark = "success"
  <2>0. Told(r) /\ ListedFirst /\ CopiesOK
    BY DEF PhaseInv, DeliveryInv
  <2>1. CASE UNCHANGED vars
    <3>1. Expected(r)' = Expected(r) /\ Pending(r)' = Pending(r) /\ Busy(r)' = Busy(r) /\ api' = api
      BY <2>1 DEF vars, informers, workers, Expected, InRange, Pending, Busy
    <3> QED
      BY <1>1, <2>0, <3>1 DEF Told
  <2>2. CASE User
    BY <1>1, <2>0, <2>2, UserTells
  <2>3. CASE Watch
    BY <1>1, <2>0, <2>3, WatchTells
  <2>4. ASSUME NEW w \in Types, RuleWorker(w) PROVE api'[r].mark = "success"
    BY <1>1, <2>0, <2>4, RuleStepTells, RuleStartTells DEF RuleWorker
  <2>5. CASE ExternalServiceWorker
    BY <2>5, NoExternalService
  <2>6. CASE EndpointsWorker
    BY <1>1, <2>0, <2>6, EndpointsTell
  <2>7. CASE Crash
    <3>1. r \in Cached /\ cache' = [o \in Cached |-> Unseen(o)]
      BY <2>7, KindsOfObjects DEF Crash, Restarted
    <3> QED
      BY <1>1, <3>1 DEF Expected, Unseen
  <2> QED
    BY <2>1, <2>2, <2>3, <2>4, <2>5, <2>6, <2>7 DEF Next, ClusterEgressRuleWorker,
       NamespaceEgressRuleWorker, ServiceEgressRuleWorker, Types
<1>2. ListedFirst'
  BY ListedFirstStep DEF PhaseInv
<1> QED
  BY <1>1, <1>2 DEF PhaseInv, Told

\* However users edit rules, and whatever fails or crashes, as long as no deletion is missed:
\* once everything is quiet, every rule with an external service that exists has the
\* status "success" (Status.Phase, UpdateStatus in the sync handlers).
THEOREM StatusIsSuccess == ExtsStay /\ "missed" \notin Faults /\ Spec => []PhaseSuccess
<1> SUFFICES ASSUME ExtsStay, "missed" \notin Faults PROVE Spec => []PhaseSuccess
  OBVIOUS
<1>1. Init => PhaseInv
  <2> SUFFICES ASSUME Init PROVE PhaseInv
    OBVIOUS
  <2>1. \A o \in Cached : ~cache[o].live
    BY DEF Init, InformersInit, Unseen
  <2> QED
    BY <2>1, KindsOfObjects DEF PhaseInv, ListedFirst, Told, Expected
<1>2. Typed /\ DeliveryInv /\ PhaseInv /\ [Next]_vars => PhaseInv'
  BY PhaseInvStep
<1>3. Typed /\ DeliveryInv /\ PhaseInv => PhaseSuccess
  <2> SUFFICES ASSUME Typed, DeliveryInv, PhaseInv, Quiet, NEW r \in LiveRules, LiveExts(r) # {}
               PROVE  api[r].mark = "success"
    BY DEF PhaseSuccess
  <2>1. /\ r \in Rules /\ api[r].live /\ InRange(r)
        /\ \E e \in Range(api[r].spec.exts) : api[e].live
    BY DEF LiveRules, LiveExts
  <2>2. r \in Cached /\ r \in fresh /\ RuleType[r] \in Workers
    BY <2>1, KindsOfObjects DEF Quiet, Workers
  <2>3. cache[r].live /\ cache[r].spec = api[r].spec
    BY <2>1, <2>2 DEF DeliveryInv, CopiesOK
  <2>4. ~Busy(r)
    BY <2>2 DEF Quiet, Busy
  <2>5. ~Pending(r)
    BY <2>1, InformersAssumption DEF Quiet, Pending
  <2>6. Expected(r) /\ Told(r)
    BY <2>1, <2>3 DEF PhaseInv, Expected
  <2> QED
    BY <2>4, <2>5, <2>6 DEF Told
<1>4. Spec => []DeliveryInv
  BY Delivers
<1> QED
  BY <1>1, <1>2, <1>3, <1>4, HandlersTyped, PTL DEF Spec

-----------------------------------------------------------------------------
(* Controller implements EgressRules, with every fault and change: what          *)
(* EgressRules sees of a state.                                                  *)

LEMMA Pairs ==
    /\ \A k \in RuleKeys : k[1] \in Rules /\ k[2] \in Exts /\ k = <<k[1], k[2]>>
    /\ \A r \in Rules, e \in Exts : <<r, e>> \in RuleKeys
BY DEF RuleKeys

LEMMA TakenIs ==
    ASSUME NEW k \in RuleKeys
    PROVE  /\ \A x : x \in Taken[k] <=>
                        \E w \in Types \cup {"ext"} : Works(w, k[1], k[2]) /\ x = Effect(req[w])
           /\ \A x : x \in Taken'[k] <=>
                        \E w \in Types \cup {"ext"} : Works(w, k[1], k[2])' /\ x = Effect(req'[w])
<1>1. Taken[k] = {Effect(req[w]) : w \in Makers(k)}
  BY DEF Taken
<1>2. Taken'[k] = {Effect(req'[w]) : w \in Makers(k)'}
  BY DEF Taken, Effect
<1>3. \A w : /\ w \in Makers(k) <=> w \in Types \cup {"ext"} /\ Works(w, k[1], k[2])
             /\ w \in Makers(k)' <=> w \in Types \cup {"ext"} /\ Works(w, k[1], k[2])'
  BY DEF Makers
<1> QED
  BY <1>1, <1>2, <1>3

LEMMA AskedTyped ==
    ASSUME InformersTypeOK
    PROVE  Wanted \in [RuleKeys -> Values]
<1> SUFFICES ASSUME NEW k \in RuleKeys PROVE Asks(k[1], k[2], api[k[1]]) \in Values
  BY DEF Wanted
<1>1. api[k[1]].spec \in RuleSpec
  BY Pairs, KindsOfObjects DEF InformersTypeOK, Forms
<1> QED
  BY <1>1 DEF Asks, Values, RuleSpec

LEMMA TakenTyped ==
    ASSUME WorkInv
    PROVE  Taken \in [RuleKeys -> SUBSET Values]
<1>1. ASSUME NEW w \in Types \cup {"ext"}, pc[w] # "idle" PROVE Effect(req[w]) \in Values
  <2>1. Built(req[w])
    BY <1>1, BusyWorker DEF Workers, RuleOK, Postable
  <2>2. req[w].action \in Actions
    BY <2>1 DEF Built
  <2> QED
    BY <2>2 DEF Effect, Values
<1>2. ASSUME NEW k \in RuleKeys PROVE {Effect(req[w]) : w \in Makers(k)} \subseteq Values
  BY <1>1 DEF Makers, Works
<1> QED
  BY <1>2 DEF Taken

LEMMA DeclaredTyped ==
    ASSUME StoreTypeOK
    PROVE  OnBigIPs \in [RuleKeys -> Values]
<1> SUFFICES ASSUME NEW k \in RuleKeys, Holds(k[1], k[2])
             PROVE  DeclaredFor(k[1], k[2]).action \in Values
  BY DEF OnBigIPs, OnBigIP, Values
<1> PICK t : t = TenantOf[k[1]]
  OBVIOUS
<1>1. t \in Tenants
  BY Pairs, DeclarationAssumption
<1>2. store[t] # Absent /\ k \in DOMAIN store[t].rules
  BY Pairs DEF Holds
<1>3. store[t].rules[k] \in RuleList
  BY <1>1, <1>2 DEF StoreTypeOK, IsApp, Partial
<1>4. DeclaredFor(k[1], k[2]) = store[t].rules[k]
  BY Pairs DEF DeclaredFor
<1> QED
  BY <1>3, <1>4 DEF RuleList, Values

ViewTyped ==
    /\ Wanted \in [RuleKeys -> Values]
    /\ Taken \in [RuleKeys -> SUBSET Values]
    /\ OnBigIPs \in [RuleKeys -> Values]

\* A step of a worker changes no object but for its mark.
LEMMA ViewStays ==
    ASSUME MarksOnly
    PROVE  UNCHANGED <<Wanted, Offered, Seen, Found>>
<1>1. ASSUME NEW k \in RuleKeys
      PROVE  /\ Asks(k[1], k[2], api[k[1]])' = Asks(k[1], k[2], api[k[1]])
             /\ Asks(k[1], k[2], cache[k[1]])' = Asks(k[1], k[2], cache[k[1]])
             /\ api'[k[2]].live = api[k[2]].live /\ cache'[k[2]].live = cache[k[2]].live
  <2>1. k[1] \in Objects /\ k[2] \in Objects /\ k[1] \in Cached /\ k[2] \in Cached
    BY Pairs, KindsOfObjects
  <2> QED
    BY <2>1 DEF MarksOnly, Asks, InRange
<1> QED
  BY <1>1 DEF Wanted, Offered, Seen, Found

LEMMA WorkersSeen ==
    ASSUME UNCHANGED <<pc, req, todo>> PROVE Taken' = Taken
BY DEF Taken, Makers, Works, Effect

LEMMA StoreSeen ==
    ASSUME UNCHANGED store PROVE OnBigIPs' = OnBigIPs
BY DEF OnBigIPs, OnBigIP, Holds, DeclaredFor

-----------------------------------------------------------------------------
(* The steps that declare: all but the first of a handler. *)

\* What a worker has under way becomes less.
LEMMA WorkShrinks ==
    ASSUME NEW w \in Workers,
           \A v \in Workers \ {w} : pc'[v] = pc[v] /\ req'[v] = req[v] /\ todo'[v] = todo[v],
           \/ w = "ep"
           \/ pc'[w] = "idle"
           \/ /\ pc[w] # "idle"
              /\ req'[w].rule = req[w].rule /\ Effect(req'[w]) = Effect(req[w])
              /\ Range(req'[w].exts) \cup Range(todo'[w])
                    \subseteq Range(req[w].exts) \cup Range(todo[w]),
           NEW k \in RuleKeys
    PROVE  Taken'[k] \subseteq Taken[k]
<1> SUFFICES ASSUME NEW v \in Types \cup {"ext"}, Works(v, k[1], k[2])'
             PROVE  Effect(req'[v]) = Effect(req[v]) /\ Works(v, k[1], k[2])
  BY TakenIs
<1>1. v \in Workers /\ v # "ep"
  BY DEF Workers, Types
<1>2. CASE v # w
  BY <1>1, <1>2 DEF Works
<1>3. CASE v = w
  BY <1>1, <1>3 DEF Works
<1> QED
  BY <1>2, <1>3

\* A post gives the rule lists of its request the effect of the request.
LEMMA PostTakes ==
    ASSUME Typed, StoreTypeOK, NEW w \in Types \cup {"ext"}, pc[w] = "post", Posted(w),
           NEW k \in RuleKeys
    PROVE  OnBigIPs'[k] \in {OnBigIPs[k]} \cup Taken[k]
<1> PICK q : q = req[w]
  OBVIOUS
<1>1. /\ OnBigIPs[k] = OnBigIP(k[1], k[2])
      /\ OnBigIPs'[k] = OnBigIP(k[1], k[2])'
  BY DEF OnBigIPs
<1>2. CASE k[1] = q.rule /\ k[2] \in Range(q.exts)
  <2>1. OnBigIP(k[1], k[2])' = Effect(q)
    BY <1>2, PostedHolds DEF OnBigIP, Effect
  <2>2. Works(w, k[1], k[2])
    BY <1>2 DEF Works
  <2> QED
    BY <1>1, <2>1, <2>2, TakenIs
<1>3. CASE ~(k[1] = q.rule /\ k[2] \in Range(q.exts))
  <2>1. k[1] \in Rules /\ k[2] \in Exts
    BY Pairs
  <2>2. /\ Holds(k[1], k[2])' <=> Holds(k[1], k[2])
        /\ Holds(k[1], k[2]) => DeclaredFor(k[1], k[2])' = DeclaredFor(k[1], k[2])
    BY <1>3, <2>1, PostedHolds
  <2> QED
    BY <1>1, <2>2 DEF OnBigIP
<1> QED
  BY <1>2, <1>3

LEMMA DeclareStep ==
    ASSUME ViewTyped', MarksOnly,
           \A k \in RuleKeys : Taken'[k] \subseteq Taken[k],
           \A k \in RuleKeys : OnBigIPs'[k] \in {OnBigIPs[k]} \cup Taken[k]
    PROVE  Promise!Declare
BY ViewStays DEF Promise!Declare, ViewTyped

\* Where a step of a worker of rules leaves what it has under way.
LEMMA LooksUp ==
    ASSUME Typed, NEW w \in Types, ExtMissing(w) \/ ExtLabelled(w) \/ ExtLabel(w)
    PROVE  /\ pc[w] # "idle"
           /\ \A v \in Workers \ {w} : pc'[v] = pc[v] /\ req'[v] = req[v] /\ todo'[v] = todo[v]
           /\ req'[w].rule = req[w].rule /\ Effect(req'[w]) = Effect(req[w])
           /\ Range(req'[w].exts) \cup Range(todo'[w])
                    \subseteq Range(req[w].exts) \cup Range(todo[w])
<1> PICK q, t : q = req[w] /\ t = todo[w]
  OBVIOUS
<1>1. pc[w] = "exts" /\ \E q2 \in {q, With(q, Head(t))} : Proceed(w, q2)
  BY DEF ExtMissing, ExtLabelled, ExtLabel, LabelCall
<1>2. RuleOK("exts", q, t)
  BY <1>1, BusyWorker DEF Workers, Typed
<1>3. /\ Built(q) /\ q.exts \in Seq(Exts) /\ t \in Seq(Exts) /\ t # <<>>
  BY <1>2 DEF RuleOK, Specified
<1>4. Range(t) = {Head(t)} \cup Range(Tail(t)) /\ Head(t) \in Exts
  BY <1>3, RangeOfLists
<1>5. Range(Append(q.exts, Head(t))) = Range(q.exts) \cup {Head(t)}
  BY <1>3, <1>4, RangeOfLists
<1>6. /\ With(q, Head(t)).rule = q.rule /\ With(q, Head(t)).exts = Append(q.exts, Head(t))
      /\ With(q, Head(t)).isDelete = q.isDelete /\ With(q, Head(t)).action = q.action
  <2> PICK f : f = Override([x \in {Head(t)} |-> cache[Head(t)].spec], q.spec)
    OBVIOUS
  <2> PICK s : s = Append(q.exts, Head(t))
    OBVIOUS
  <2>1. With(q, Head(t)) = [rule |-> q.rule, exts |-> s, spec |-> f, ep |-> q.ep, src |-> q.src,
                            action |-> q.action, conf |-> q.conf, isDelete |-> q.isDelete]
    BY <1>3, WithFields
  <2> QED
    BY <2>1
<1> PICK q2 \in {q, With(q, Head(t))} : Proceed(w, q2)
  BY <1>1
<1>7. Continued(w) /\ req'[w] = q2 /\ todo'[w] = Tail(t)
  BY ProceedContinues
<1>8. q2.rule = q.rule /\ Effect(q2) = Effect(q)
  BY <1>6 DEF Effect
<1>9. Range(q2.exts) \cup Range(Tail(t)) \subseteq Range(q.exts) \cup Range(t)
  BY <1>4, <1>5, <1>6
<1> QED
  BY <1>1, <1>7, <1>8, <1>9 DEF Continued

\* It becomes idle, or it goes on with the same request.
LEMMA GoesIdle ==
    ASSUME Typed, NEW w \in Workers, Forget(w) \/ Requeue(w)
    PROVE  /\ pc'[w] = "idle"
           /\ \A v \in Workers \ {w} : pc'[v] = pc[v] /\ req'[v] = req[v] /\ todo'[v] = todo[v]
BY DEF Forget, Requeue, Idle, Typed, WorkInv

LEMMA NextPc ==
    ASSUME Typed, NEW w \in Workers, NEW p, pc' = [pc EXCEPT ![w] = p], UNCHANGED <<req, todo>>
    PROVE  \A v \in Workers \ {w} : pc'[v] = pc[v] /\ req'[v] = req[v] /\ todo'[v] = todo[v]
BY DEF Typed, WorkInv

LEMMA RuleStepShrinks ==
    ASSUME Typed, NEW w \in Types, RuleStep(w), NEW k \in RuleKeys
    PROVE  Taken'[k] \subseteq Taken[k]
<1>1. w \in Workers
  BY DEF Workers
<1>2. CASE ExtMissing(w) \/ ExtLabelled(w) \/ ExtLabel(w)
  BY <1>1, <1>2, LooksUp, WorkShrinks
<1>3. CASE Forget(w) \/ Requeue(w)
  BY <1>1, <1>3, GoesIdle, WorkShrinks
<1>4. CASE \E p : pc[w] # "idle" /\ pc' = [pc EXCEPT ![w] = p] /\ UNCHANGED <<req, todo>>
  <2>1. \A v \in Workers \ {w} : pc'[v] = pc[v] /\ req'[v] = req[v] /\ todo'[v] = todo[v]
    BY <1>1, <1>4, NextPc
  <2> QED
    BY <1>1, <1>4, <2>1, WorkShrinks
<1>5. CASE Announce(w) \/ Post(w)
  BY <1>3, <1>4, <1>5 DEF Announce, Post
<1>6. CASE ExtLabelFails(w) \/ NothingToDo(w) \/ PostFails(w) \/ Succeed(w)
  BY <1>3, <1>6 DEF ExtLabelFails, NothingToDo, PostFails, Succeed
<1>7. ASSUME NEW step, NEW phase, PhaseFails(w, step, phase) PROVE Taken'[k] \subseteq Taken[k]
  BY <1>3, <1>7 DEF PhaseFails
<1> QED
  BY <1>2, <1>5, <1>6, <1>7 DEF RuleStep

LEMMA RuleStepPosts ==
    ASSUME Typed, StoreTypeOK, NEW w \in Types, RuleStep(w), NEW k \in RuleKeys
    PROVE  OnBigIPs'[k] \in {OnBigIPs[k]} \cup Taken[k]
<1>1. store' = store \/ (Posted(w) /\ pc[w] = "post")
  <2>1. ExtLabelFails(w) => store' = store
    BY DEF ExtLabelFails
  <2>2. \A step, phase : PhaseFails(w, step, phase) => store' = store
    BY DEF PhaseFails
  <2>3. Post(w) \/ PostFails(w) => store' = store \/ (Posted(w) /\ pc[w] = "post")
    BY DEF Post, PostFails
  <2> QED
    BY <2>1, <2>2, <2>3 DEF RuleStep, ExtMissing, ExtLabelled, ExtLabel, Proceed,
       NothingToDo, Announce, Succeed
<1> QED
  BY <1>1, StoreSeen, PostTakes

LEMMA RuleStepDeclares ==
    ASSUME Typed, StoreTypeOK, ViewTyped', NEW w \in Types, RuleStep(w)
    PROVE  Promise!Declare
BY StepMarks, RuleStepShrinks, RuleStepPosts, DeclareStep

\* The worker of external services.
LEMMA ExtPostDeclares ==
    ASSUME Typed, StoreTypeOK, ViewTyped', Post("ext") \/ PostFails("ext")
    PROVE  Promise!Declare
<1>1. MarksOnly
  BY SameMarks DEF Post, PostFails
<1>2. "ext" \in Workers
  BY DEF Workers
<1>3. pc["ext"] = "post" /\ (store' = store \/ Posted("ext"))
  BY DEF Post, PostFails
<1>4. Forget("ext") \/ Requeue("ext")
  BY DEF Post, PostFails
<1>5. \A k \in RuleKeys : Taken'[k] \subseteq Taken[k]
  BY <1>2, <1>4, GoesIdle, WorkShrinks
<1>6. \A k \in RuleKeys : OnBigIPs'[k] \in {OnBigIPs[k]} \cup Taken[k]
  BY <1>3, StoreSeen, PostTakes
<1> QED
  BY <1>1, <1>5, <1>6, DeclareStep

\* The worker of Endpoints patches addresses, and no rule list.
LEMMA EndpointsDeclare ==
    ASSUME Typed, StoreTypeOK, ViewTyped', EndpointsWorker
    PROVE  Promise!Declare
<1>1. MarksOnly
  BY SameMarks DEF EndpointsWorker, EndpointsStart, EndpointsIgnored, EndpointsPatch,
     EndpointsPatchFails
<1>2. "ep" \in Workers
  BY DEF Workers
<1>3. \A v \in Workers \ {"ep"} : pc'[v] = pc[v] /\ req'[v] = req[v] /\ todo'[v] = todo[v]
  <2>1. CASE EndpointsPatch \/ EndpointsPatchFails
    BY <1>2, <2>1, GoesIdle DEF EndpointsPatch, EndpointsPatchFails
  <2>2. ASSUME NEW i \in queue, EndpointsStart(i)
        PROVE  \A v \in Workers \ {"ep"} : pc'[v] = pc[v] /\ req'[v] = req[v] /\ todo'[v] = todo[v]
    BY <1>2, <2>2 DEF EndpointsStart, Typed, WorkInv
  <2>3. ASSUME NEW i \in queue, EndpointsIgnored(i)
        PROVE  \A v \in Workers \ {"ep"} : pc'[v] = pc[v] /\ req'[v] = req[v] /\ todo'[v] = todo[v]
    BY <2>3 DEF EndpointsIgnored, workers
  <2> QED
    BY <2>1, <2>2, <2>3 DEF EndpointsWorker
<1>4. \A k \in RuleKeys : Taken'[k] \subseteq Taken[k]
  BY <1>2, <1>3, WorkShrinks
<1>5. \A k \in RuleKeys : OnBigIPs'[k] = OnBigIPs[k]
  <2>1. CASE store' = store
    BY <2>1, StoreSeen
  <2>2. CASE EndpointsPatch
    <3>1. \A r \in Rules, e \in Exts : /\ Holds(r, e)' <=> Holds(r, e)
                                       /\ DeclaredFor(r, e)' = DeclaredFor(r, e)
      BY <2>2, PatchHolds DEF EndpointsPatch
    <3> QED
      BY <3>1, Pairs DEF OnBigIPs, OnBigIP
  <2> QED
    BY <2>1, <2>2 DEF EndpointsWorker, EndpointsStart, EndpointsIgnored, EndpointsPatchFails
<1> QED
  BY <1>1, <1>4, <1>5, DeclareStep

-----------------------------------------------------------------------------
(* The steps that take work: the first of a handler takes what is cached now. *)

LEMMA KnownIs ==
    ASSUME NEW r \in Rules, NEW e \in Exts
    PROVE  /\ Asks(r, e, cache[r]) \in Promise!Known(<<r, e>>)
           /\ ~cache[e].live => Gone \in Promise!Known(<<r, e>>)
BY Pairs DEF Promise!Known, Seen, Found

LEMMA TakeStep ==
    ASSUME ViewTyped', UNCHANGED <<api, cache, fresh, synced, store>>,
           NEW w \in Workers,
           \A v \in Workers \ {w} : pc'[v] = pc[v] /\ req'[v] = req[v] /\ todo'[v] = todo[v],
           \A k \in RuleKeys : Works(w, k[1], k[2])' => Effect(req'[w]) \in Promise!Known(k)
    PROVE  Promise!Take
<1>1. UNCHANGED <<Wanted, Offered, Seen, Found>> /\ OnBigIPs' = OnBigIPs
  BY SameMarks, ViewStays, StoreSeen
<1>2. ASSUME NEW k \in RuleKeys, NEW x \in Taken'[k]
      PROVE  x \in Taken[k] \cup Promise!Known(k)
  <2> PICK v \in Types \cup {"ext"} : Works(v, k[1], k[2])' /\ x = Effect(req'[v])
    BY <1>2, TakenIs
  <2>1. CASE v = w
    BY <2>1
  <2>2. CASE v # w
    <3>1. pc'[v] = pc[v] /\ req'[v] = req[v] /\ todo'[v] = todo[v]
      BY <2>2 DEF Workers
    <3>2. Works(v, k[1], k[2]) /\ x = Effect(req[v])
      BY <3>1 DEF Works
    <3> QED
      BY <3>2, TakenIs
  <2> QED
    BY <2>1, <2>2
<1> QED
  BY <1>1, <1>2 DEF Promise!Take, ViewTyped

\* The fields of a request that a handler begins with, and of the one for an external service.
LEMMA AskedIs ==
    ASSUME NEW r, NEW spec, NEW d \in BOOLEAN, NEW c
    PROVE  /\ Asked(r, spec, d, c).rule = r
           /\ Asked(r, spec, d, c).exts = <<>>
           /\ Effect(Asked(r, spec, d, c)) = IF d THEN Gone ELSE spec.action
BY DEF Asked, Effect

LEMMA RuleStartTakes ==
    ASSUME Typed, ViewTyped', NEW w \in Types, NEW i \in queue, RuleStart(w, i)
    PROVE  Promise!Take
<1> PICK r, spec : r = i.key /\ spec = SpecRead(i)
  OBVIOUS
<1>1. w \in Workers /\ r \in Rules /\ InRange(r)
  BY DEF Workers, RuleStart
<1> PICK c \in Confs : req' = [req EXCEPT ![w] = Asked(r, spec, ~cache[r].live, c)]
  BY DEF RuleStart
<1>2. todo' = [todo EXCEPT ![w] = spec.exts] /\ \E p : pc' = [pc EXCEPT ![w] = p]
  BY DEF RuleStart
<1>3. \A v \in Workers \ {w} : pc'[v] = pc[v] /\ req'[v] = req[v] /\ todo'[v] = todo[v]
  BY <1>1, <1>2 DEF Typed, WorkInv
<1>4. req'[w] = Asked(r, spec, ~cache[r].live, c) /\ todo'[w] = spec.exts
  BY <1>1, <1>2 DEF Typed, WorkInv
<1>5. /\ req'[w].rule = r /\ req'[w].exts = <<>>
      /\ Effect(req'[w]) = IF cache[r].live THEN spec.action ELSE Gone
  <2> PICK d \in BOOLEAN : d = ~cache[r].live
    OBVIOUS
  <2> PICK q : q = req'[w]
    OBVIOUS
  <2>1. q = Asked(r, spec, d, c)
    BY <1>4
  <2>2. q.rule = r /\ q.exts = <<>> /\ Effect(q) = IF d THEN Gone ELSE spec.action
    <3>1. d \in BOOLEAN
      OBVIOUS
    <3> QED
      BY ONLY <2>1, <3>1, AskedIs
  <2> QED
    BY <2>2
<1>6. cache[r].live => spec = cache[r].spec
  BY DEF SpecRead
<1>7. ASSUME NEW k \in RuleKeys, Works(w, k[1], k[2])'
      PROVE  Effect(req'[w]) \in Promise!Known(k)
  <2>1. k[1] = r /\ k[2] \in Range(spec.exts)
    BY <1>4, <1>5, <1>7 DEF Works, Range
  <2>2. Effect(req'[w]) = Asks(k[1], k[2], cache[r])
    BY <1>1, <1>5, <1>6, <2>1 DEF Asks
  <2> QED
    BY <2>1, <2>2, Pairs, KnownIs
<1> QED
  BY <1>1, <1>3, <1>7, TakeStep DEF RuleStart

\* The worker of external services takes the rule as it is cached, or takes it away for an
\* external service that is gone.
LEMMA ExtStartTakes ==
    ASSUME Typed, ViewTyped', NEW i \in queue, ExtStart(i)
    PROVE  Promise!Take
<1> PICK e : e = i.key
  OBVIOUS
<1>1. "ext" \in Workers
  BY DEF Workers
<1> PICK r \in RulesListing(e, ExtOf(i).label), c \in Confs :
        SourceKnown(r, cache[r].spec) /\ req' = [req EXCEPT !["ext"] =
                    [Asked(r, cache[r].spec, ~cache[e].live, c) EXCEPT
                        !.exts = <<e>>, !.spec = [x \in {e} |-> ExtOf(i).spec]]]
  BY DEF ExtStart
<1>2. r \in Rules /\ InRange(r) /\ cache[r].live /\ e \in Range(cache[r].spec.exts)
  BY DEF RulesListing
<1>3. pc' = [pc EXCEPT !["ext"] = "post"] /\ todo' = todo
  BY DEF ExtStart
<1>4. \A v \in Workers \ {"ext"} : pc'[v] = pc[v] /\ req'[v] = req[v] /\ todo'[v] = todo[v]
  BY <1>1, <1>3 DEF Typed, WorkInv
<1>5. pc["ext"] = "idle" /\ todo["ext"] = <<>>
  <2>1. pc["ext"] = "idle"
    BY DEF ExtStart, Takes
  <2>2. WorkerOK("ext", pc["ext"], item["ext"], req["ext"], todo["ext"])
    BY <1>1 DEF Typed, WorkInv
  <2> QED
    BY <2>1, <2>2 DEF WorkerOK, Types
<1>6. /\ req'["ext"].rule = r /\ req'["ext"].exts = <<e>>
      /\ Effect(req'["ext"]) = IF cache[e].live THEN cache[r].spec.action ELSE Gone
  <2> PICK d \in BOOLEAN : d = ~cache[e].live
    OBVIOUS
  <2> PICK spec, f, one, p : /\ f = [x \in {e} |-> ExtOf(i).spec] /\ one = <<e>>
                             /\ spec = cache[r].spec /\ p = req'["ext"]
    OBVIOUS
  <2> PICK q : q = Asked(r, spec, d, c)
    OBVIOUS
  <2>1. d \in BOOLEAN /\ spec \in RuleSpec /\ SourceKnown(r, spec)
    BY <1>2, CachedRule DEF Typed
  <2>2. Built(q)
    BY <1>2, <2>1, AskedBuilt DEF Typed
  <2>3. q.rule = r /\ Effect(q) = IF d THEN Gone ELSE spec.action
    BY ONLY <2>1, q = Asked(r, spec, d, c), AskedIs
  <2>4. p = [q EXCEPT !.exts = one, !.spec = f]
    BY <1>1 DEF Typed, WorkInv
  <2>5. p.rule = q.rule /\ p.exts = one /\ p.action = q.action /\ p.isDelete = q.isDelete
    BY <2>2, <2>4 DEF Built
  <2>6. Effect(p) = Effect(q)
    BY <2>5 DEF Effect
  <2> QED
    BY <2>3, <2>5, <2>6
<1>7. ASSUME NEW k \in RuleKeys, Works("ext", k[1], k[2])'
      PROVE  Effect(req'["ext"]) \in Promise!Known(k)
  <2>1. todo'["ext"] = <<>>
    BY <1>3, <1>5
  <2>2. k[1] = r /\ k[2] = e
    BY <1>6, <1>7, <2>1 DEF Works, Range
  <2>3. cache[e].live => Effect(req'["ext"]) = Asks(r, e, cache[r])
    BY <1>2, <1>6 DEF Asks
  <2>4. r \in Rules /\ e \in Exts /\ k = <<r, e>>
    BY <2>2, Pairs
  <2> QED
    BY <1>6, <2>3, <2>4, KnownIs
<1> QED
  BY <1>1, <1>4, <1>7, TakeStep DEF ExtStart

-----------------------------------------------------------------------------
(* Users, informers and crashes. *)

LEMMA UserChanges ==
    ASSUME ViewTyped', User PROVE Promise!Change
<1>1. UNCHANGED <<cache, store, pc, req, todo>>
  BY DEF User, Edit, workers
<1>2. Taken' = Taken /\ OnBigIPs' = OnBigIPs
  BY <1>1, WorkersSeen, StoreSeen
<1>3. Seen' = Seen /\ Found' = Found
  BY <1>1 DEF Seen, Found, Asks, InRange
<1>4. Offered' \in SUBSET RuleKeys
  BY DEF Offered
<1> QED
  BY <1>2, <1>3, <1>4 DEF Promise!Change, ViewTyped

\* The informers bring the objects of O up to date.
LEMMA ListedSees ==
    ASSUME UNCHANGED <<api, store, workers>>, NEW O \in SUBSET Cached,
           \A o \in Cached : cache'[o] = IF o \in O THEN Listed(o) ELSE cache[o]
    PROVE  Promise!See
<1>1. UNCHANGED <<Wanted, Offered>>
  BY DEF Wanted, Offered, Asks, InRange
<1>2. Taken' = Taken /\ OnBigIPs' = OnBigIPs
  BY WorkersSeen, StoreSeen DEF workers
<1>3. \A o \in O : /\ Listed(o).live => Listed(o) = api[o]
                   /\ Listed(o).live <=> api[o].live
  BY DEF Listed, Unseen
<1>4. Seen' = [k \in RuleKeys |-> IF k \in {x \in RuleKeys : x[1] \in O} THEN Wanted[k] ELSE Seen[k]]
  <2>1. ASSUME NEW k \in RuleKeys
        PROVE  Asks(k[1], k[2], cache[k[1]])' = IF k[1] \in O THEN Asks(k[1], k[2], api[k[1]])
                                                ELSE Asks(k[1], k[2], cache[k[1]])
    <3>1. k[1] \in Cached
      BY Pairs, KindsOfObjects
    <3> QED
      BY <1>3, <3>1 DEF Asks, InRange
  <2> QED
    BY <2>1 DEF Seen, Wanted
<1>5. Found' = (Found \ {x \in RuleKeys : x[2] \in O}) \cup (Offered \cap {x \in RuleKeys : x[2] \in O})
  <2>1. ASSUME NEW k \in RuleKeys
        PROVE  cache'[k[2]].live <=> IF k[2] \in O THEN api[k[2]].live ELSE cache[k[2]].live
    <3>1. k[2] \in Cached
      BY Pairs, KindsOfObjects
    <3> QED
      BY <1>3, <3>1
  <2> QED
    BY <2>1 DEF Found, Offered
<1> QED
  BY <1>1, <1>2, <1>4, <1>5 DEF Promise!See

LEMMA WatchSees ==
    ASSUME Typed, Watch PROVE Promise!See
<1> PICK k \in Workers : WatchOf(k)
  BY DEF Watch
<1>1. ASSUME NEW o \in Cached, Deliver(o) \/ Missed(o) PROVE Promise!See
  <2>1. cache' = [cache EXCEPT ![o] = Listed(o)] /\ api' = api
    BY <1>1 DEF Deliver, Missed, Replace
  <2>2. \A x \in Cached : cache'[x] = IF x \in {o} THEN Listed(x) ELSE cache[x]
    BY <2>1 DEF Typed, InformersTypeOK
  <2>3. UNCHANGED <<store, workers>> /\ {o} \in SUBSET Cached
    BY DEF WatchOf
  <2> QED
    BY <2>1, <2>2, <2>3, ListedSees
<1>2. CASE List(k)
  <2>1. \A o \in Cached : cache'[o] = IF o \in {x \in Cached : WorkerOf(x) = k} THEN Listed(o) ELSE cache[o]
    BY <1>2 DEF List
  <2>2. UNCHANGED <<api, store, workers>> /\ {x \in Cached : WorkerOf(x) = k} \in SUBSET Cached
    BY <1>2 DEF WatchOf, List
  <2> QED
    BY <2>1, <2>2, ListedSees
<1> QED
  BY <1>1, <1>2 DEF WatchOf

\* What a controller sees that has not listed anything yet.
LEMMA NothingSeen ==
    (\A o \in Cached : ~cache[o].live) =>
        Seen = [k \in RuleKeys |-> Gone] /\ Found = {}
<1> SUFFICES ASSUME \A o \in Cached : ~cache[o].live
             PROVE  Seen = [k \in RuleKeys |-> Gone] /\ Found = {}
  OBVIOUS
<1>1. \A k \in RuleKeys : k[1] \in Cached /\ k[2] \in Cached
  BY Pairs, KindsOfObjects
<1> QED
  BY <1>1 DEF Seen, Found, Asks

LEMMA CrashForgets ==
    ASSUME Crash PROVE Promise!Forget
<1>1. UNCHANGED <<api, store>> /\ \A o \in Cached : ~cache'[o].live
  BY DEF Crash, Restarted, Unseen
<1>2. UNCHANGED <<Wanted, Offered>> /\ OnBigIPs' = OnBigIPs
  BY <1>1, StoreSeen DEF Wanted, Offered, Asks, InRange
<1>3. Seen' = [k \in RuleKeys |-> Gone] /\ Found' = {}
  <2>1. \A k \in RuleKeys : k[1] \in Cached /\ k[2] \in Cached
    BY Pairs, KindsOfObjects
  <2> QED
    BY <1>1, <2>1 DEF Seen, Found, Asks
<1>4. Taken' = [k \in RuleKeys |-> {}]
  <2>1. \A w \in Types \cup {"ext"} : pc'[w] = "idle"
    BY DEF Crash, Workers
  <2> QED
    BY <2>1 DEF Taken, Makers, Works
<1> QED
  BY <1>2, <1>3, <1>4 DEF Promise!Forget

-----------------------------------------------------------------------------
(* The refinement. *)

LEMMA PromiseInit ==
    ASSUME Init, ViewTyped PROVE Promise!Init
<1>1. \A o \in Cached : ~cache[o].live
  BY DEF Init, InformersInit, Unseen
<1>2. Seen = [k \in RuleKeys |-> Gone] /\ Found = {}
  BY <1>1, NothingSeen
<1>3. Taken = [k \in RuleKeys |-> {}]
  <2>1. \A w \in Types \cup {"ext"} : pc[w] = "idle"
    BY DEF Init, Workers
  <2> QED
    BY <2>1 DEF Taken, Makers, Works
<1>4. OnBigIPs = [k \in RuleKeys |-> Gone]
  <2>1. \A t \in Tenants : store[t] = Absent \/ store[t] = DefaultApp(Common)
    BY DEF Init, StoreInit
  <2>2. DefaultApp(Common).rules = <<>>
    BY DEF DefaultApp
  <2>3. \A r \in Rules : TenantOf[r] \in Tenants
    BY DeclarationAssumption
  <2>4. \A r \in Rules, e \in Exts : ~Holds(r, e)
    BY <2>1, <2>2, <2>3 DEF Holds
  <2> QED
    BY <2>4, Pairs DEF OnBigIPs, OnBigIP
<1>5. Offered \in SUBSET RuleKeys
  BY DEF Offered
<1> QED
  BY <1>2, <1>3, <1>4, <1>5 DEF Promise!Init, ViewTyped

LEMMA PromiseStep ==
    ASSUME Typed, StoreTypeOK, ViewTyped', [Next]_vars
    PROVE  [Promise!Next]_Promise!vars
<1>1. CASE UNCHANGED <<api, cache, store, workers>>
  BY <1>1, WorkersSeen, StoreSeen
     DEF workers, Promise!vars, Wanted, Offered, Seen, Found, Asks, InRange
<1>2. CASE User
  BY <1>2, UserChanges DEF Promise!Next
<1>3. CASE Watch
  BY <1>3, WatchSees DEF Promise!Next
<1>4. ASSUME NEW w \in Types, RuleWorker(w) PROVE [Promise!Next]_Promise!vars
  <2>1. CASE RuleStep(w)
    BY <2>1, RuleStepDeclares DEF Promise!Next
  <2>2. ASSUME NEW i \in queue, RuleStart(w, i) PROVE [Promise!Next]_Promise!vars
    BY <2>2, RuleStartTakes DEF Promise!Next
  <2>3. ASSUME NEW i \in queue, RuleIgnored(w, i) PROVE [Promise!Next]_Promise!vars
    BY <1>1, <2>3 DEF RuleIgnored
  <2> QED
    BY <1>4, <2>1, <2>2, <2>3 DEF RuleWorker
<1>5. CASE ExternalServiceWorker
  <2>1. CASE Post("ext") \/ PostFails("ext")
    BY <2>1, ExtPostDeclares DEF Promise!Next
  <2>2. ASSUME NEW i \in queue, ExtStart(i) PROVE [Promise!Next]_Promise!vars
    BY <2>2, ExtStartTakes DEF Promise!Next
  <2>3. ASSUME NEW i \in queue, ExtIgnored(i) PROVE [Promise!Next]_Promise!vars
    BY <1>1, <2>3 DEF ExtIgnored
  <2> QED
    BY <1>5, <2>1, <2>2, <2>3 DEF ExternalServiceWorker
<1>6. CASE EndpointsWorker
  BY <1>6, EndpointsDeclare DEF Promise!Next
<1>7. CASE Crash
  BY <1>7, CrashForgets DEF Promise!Next
<1>8. CASE UNCHANGED vars
  BY <1>1, <1>8 DEF vars, informers
<1> QED
  BY <1>2, <1>3, <1>4, <1>5, <1>6, <1>7, <1>8
     DEF Next, ClusterEgressRuleWorker, NamespaceEgressRuleWorker, ServiceEgressRuleWorker, Types

\* The refinement, with no restriction on what users do or what fails: what is declared
\* for a rule and an external service was what the rule asked for when a worker began to
\* work on it, after the last restart, or was taken away when one saw that the rule or
\* the external service was gone.
THEOREM PromiseKept == Spec => Promised
<1>1. Spec => []ViewTyped
  <2>1. Typed /\ StoreTypeOK => ViewTyped
    BY AskedTyped, TakenTyped, DeclaredTyped DEF ViewTyped, Typed
  <2>2. TypeOK => StoreTypeOK
    BY DEF TypeOK
  <2> QED
    BY <2>1, <2>2, HandlersTyped, TypeCorrect, PTL
<1>2. Spec => []StoreTypeOK
  <2>1. TypeOK => StoreTypeOK
    BY DEF TypeOK
  <2> QED
    BY <2>1, TypeCorrect, PTL
<1>3. Init /\ ViewTyped => Promise!Init
  BY PromiseInit
<1>4. Typed /\ StoreTypeOK /\ ViewTyped' /\ [Next]_vars => [Promise!Next]_Promise!vars
  BY PromiseStep
<1> QED
  BY <1>1, <1>2, <1>3, <1>4, HandlersTyped, PTL DEF Spec, Promised, Promise!Spec
=============================================================================
