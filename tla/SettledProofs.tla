---------------------------- MODULE SettledProofs ----------------------------
(***************************************************************************)
(* What Controller settles to when users wait until it is quiet before each  *)
(* of their changes: what they edited, created or deleted, of rules, of     *)
(* external services and of pods, is what the BIG-IP has.  Everything else   *)
(* happens in any order: crashes, lost answers, failed posts, workers and    *)
(* watches.                                                                  *)
(***************************************************************************)
EXTENDS RuleDeliveryProofs

\* What users make of o in the end, and whether they create or delete it.
VersionsOf(o) == ({Initial[o].spec} \cup UNION {{ch[1], ch[2]} : ch \in Changes[o]}) \ {Gone}
Creates(o) == \E ch \in Changes[o] : ch[1] = Gone
Deletes(o) == \E ch \in Changes[o] : ch[2] = Gone

\* Rule r may come to list e; no other rule ever lists e.
MayList(r, e) == \E spec \in VersionsOf(r) : e \in Range(spec.exts)
Own(e) == \A r1, r2 \in Rules : MayList(r1, e) /\ MayList(r2, e) => r1 = r2

\* Users wait; no deletion is missed, be it of the watch or while the process is down;
\* no update of a label fails halfway.
Patient ==
    /\ UsersWait = "quiet"
    /\ "missed" \notin Faults /\ "api" \notin Faults
    /\ "crash" \in Faults => \A o \in Rules \cup Exts : ~Deletes(o)

\* An edit takes no external service out of a rule.
ListsGrow ==
    \A r \in Rules : \A ch \in Changes[r] :
        (ch[1] # Gone /\ ch[2] # Gone) => Range(ch[1].exts) \subseteq Range(ch[2].exts)

\* An external service that is deleted has one rule at most, and is not one that is refused.
DeletedOwn ==
    \A e \in Exts : Deletes(e) =>
        Own(e) /\ \A ch \in Changes[e] : ch[2] = Gone => ch[1] \notin Refused

Settling == Patient /\ ListsGrow /\ DeletedOwn

-----------------------------------------------------------------------------
(* The invariant: what the controller knows. *)

\* The informer holds what there is of o.
Same(o) == /\ cache[o].live <=> api[o].live
           /\ api[o].live => cache[o].spec = api[o].spec

\* Nothing is left to do but for what the watch has yet to bring of o.
Calm == /\ Up
        /\ \A i \in queue : i.key \in Exts /\ ExtOf(i).spec \in Refused
        /\ \A w \in Workers : pc[w] = "idle"
Disturbed(o) == Calm /\ fresh = Cached \ {o}

AllSeen == \A o \in Cached : WorkerOf(o) \in synced => Same(o)

SeenOK ==
    /\ ListedFirst
    /\ \A o \in fresh : WorkerOf(o) \in synced /\ Same(o)
    /\ \A o \in Cached : WorkerOf(o) \in synced =>
            (Same(o) /\ (Up \/ o \in fresh)) \/ Disturbed(o)
    /\ \A w \in Workers : pc[w] # "idle" => Up
    /\ \A i \in queue : WorkerOf(i.key) \in synced
    /\ \A r \in Rules : /\ api[r].spec \in VersionsOf(r)
                        /\ cache[r].live => cache[r].spec \in VersionsOf(r)
                        /\ ~Up /\ cache[r].live => Pending(r)
    /\ \A e \in Exts : "ext" \in synced =>
            /\ cache[e].live /\ ~api[e].live => Deletes(e) /\ api[e].spec \notin Refused
            /\ ~cache[e].live /\ api[e].live => Creates(e)

-----------------------------------------------------------------------------
(* The invariant: what the handlers are about to do. *)

\* The handler of r has yet to look up e, or has yet to start,
Doing(r, e) == Busy(r) /\ e \in Range(todo[RuleType[r]])
Due(r, e) == Pending(r) \/ Doing(r, e)

\* ... or is about to post what it found.
Posting(r, e) ==
    Busy(r) /\ pc[RuleType[r]] # "done" /\ e \in Range(req[RuleType[r]].exts)
InHand(r, e) == Due(r, e) \/ Posting(r, e)

\* The handler of e has yet to start, or is about to post what it found for r.
ExtPending(e) == \E i \in queue : i.key = e
ExtDoing(r, e) == pc["ext"] # "idle" /\ item["ext"].key = e /\ req["ext"].rule = r
ExtDue(r, e) == ExtPending(e) \/ ExtDoing(r, e)

\* ... the deletion of e.
Removal(r, e) ==
    \/ \E i \in queue : i.key = e /\ i.label = RuleType[r] /\ i.spec \notin Refused
    \/ ExtDoing(r, e)

\* What the worker of rules w has in hand is what there is.
RuleReq(w) ==
    LET q == req[w]
        r == q.rule
    IN  /\ item[w].key = r
        /\ q.isDelete <=> ~cache[r].live
        /\ InRange(r)
        /\ Range(q.exts) \cup Range(todo[w]) \subseteq Range(api[r].spec.exts)
        /\ ~q.isDelete => q.action = cache[r].spec.action
        /\ \A e \in Range(q.exts) : /\ cache[e].live /\ q.spec[e] = cache[e].spec
                                    /\ Own(e) => cache[e].mark = NewLabel(w)
        /\ pc[w] \in {"status", "done"} => ~q.isDelete
        /\ pc[w] = "nothing" => q.exts = <<>> /\ todo[w] = <<>>
        /\ ~cache[r].live => item[w].spec = api[r].spec

ExtReq ==
    LET q == req["ext"]
        r == q.rule
        i == item["ext"]
        e == i.key
    IN  /\ q.exts = <<e>> /\ InRange(r)
        /\ cache[r].live /\ e \in Range(cache[r].spec.exts)
        /\ q.isDelete <=> ~cache[e].live
        /\ q.action = cache[r].spec.action
        /\ cache[e].live => q.spec[e] = cache[e].spec /\ (Own(e) => cache[e].mark = RuleType[r])
        /\ ~cache[e].live => i.label = RuleType[r] /\ i.spec \notin Refused

ReqOK ==
    /\ \A w \in Types : pc[w] # "idle" => RuleReq(w)
    /\ pc["ext"] # "idle" => ExtReq
    /\ \A i \in queue : (i.key \in Rules /\ ~cache[i.key].live) => i.spec = api[i.key].spec

-----------------------------------------------------------------------------
(* The invariant: what is declared for a rule and an external service. *)

\* It is of a rule and an external service that live, or whose deletion is in hand.
HeldOK(r, e) ==
    Holds(r, e) =>
        /\ InRange(r) /\ e \in Range(api[r].spec.exts)
        /\ ~Deletes(r) \/ ~Up => api[r].live
        /\ ~Deletes(e) \/ ~Up => api[e].live
        /\ Up /\ ~cache[r].live => cache[e].live /\ InHand(r, e)
        /\ Up /\ ~cache[e].live => Removal(r, e)

\* The controller sees a rule that has to be declared for e.  One that lists an external
\* service before that is created is not: the external service's handler ignores it.
Serves(r, e) ==
    /\ cache[r].live /\ InRange(r) /\ e \in Range(cache[r].spec.exts)
    /\ cache[e].live
    /\ Holds(r, e) \/ ~Creates(e)

LabelledOK(r, e) == Own(e) /\ Serves(r, e) => cache[e].mark = RuleType[r] \/ Due(r, e)

DstOf(r, e) == store[TenantOf[r]].dst[<<r, e>>]

ContentOK(r, e) ==
    Own(e) /\ Serves(r, e) =>
        \/ InHand(r, e)
        \/ /\ Holds(r, e) /\ DeclaredFor(r, e).action = cache[r].spec.action
           /\ DstOf(r, e) = cache[e].spec.content \/ ExtDue(r, e)

PairOK(r, e) == HeldOK(r, e) /\ LabelledOK(r, e) /\ ContentOK(r, e)

\* The label of e is the type of its rule, or will be taken away.
MarkedBy(r, e) ==
    /\ RuleType[r] = api[e].mark /\ InRange(r) /\ e \in Range(api[r].spec.exts)
    /\ ~Deletes(r) \/ ~Up => api[r].live
    /\ Up /\ ~cache[r].live => Due(r, e)

MarkOK(e) ==
    Own(e) =>
        /\ cache[e].live =>
            /\ cache[e].mark = api[e].mark
            /\ \A r \in Rules : (MayList(r, e) /\ e \notin fresh /\ ~Disturbed(e)) =>
                    cache[e].mark = IF cache[r].live THEN RuleType[r] ELSE "none"
        /\ (api[e].live /\ api[e].mark # "none") => \E r \in Rules : MarkedBy(r, e)

SettledInv ==
    /\ SeenOK /\ ReqOK
    /\ \A e \in Exts : MarkOK(e)
    /\ \A r \in Rules, e \in Exts : PairOK(r, e)

-----------------------------------------------------------------------------
(* What a post makes of the destination lists. *)

LEMMA PostedDst ==
    ASSUME NEW app, app # Absent => Resolves(app), NEW q \in Requests,
           NEW b, b = (IF UpToDate(app, q) THEN app ELSE Body(app, q))
    PROVE  /\ ~q.isDelete => \A e \in Range(q.exts) : b.dst[<<q.rule, e>>] = q.spec[e].content
           /\ \A r, e : (/\ r # q.rule \/ e \notin Range(q.exts)
                         /\ app # Absent /\ <<r, e>> \in DOMAIN app.rules) =>
                            b.dst[<<r, e>>] = app.dst[<<r, e>>]
<1> DEFINE d == Delta(q)
           h == Body(app, q)
<1>1. /\ DOMAIN d.rules = KeysOf(q) /\ DOMAIN d.dst = KeysOf(q)
      /\ \A k \in KeysOf(q) : d.dst[k] = q.spec[k[2]].content
  BY DEF Delta
<1>2. \A r, e : <<r, e>> \in KeysOf(q) <=> (r = q.rule /\ e \in Range(q.exts))
  BY DEF KeysOf
<1>3. q.isDelete \in BOOLEAN
  BY RequestsAssumption DEF WellFormed, IsRequest
<1>4. app # Absent => /\ h.rules = MergeAttrs(app.rules, d.rules, q.isDelete)
                      /\ h.dst = Used(MergeAttrs(app.dst, d.dst, q.isDelete), DOMAIN h.rules)
  BY BodyIs DEF IsBody
<1>5. app = Absent => h = (IF q.isDelete THEN Absent ELSE d)
  BY DEF Body
<1>6. \A r, e : (r = q.rule /\ e \in Range(q.exts)) => d.dst[<<r, e>>] = q.spec[e].content
  BY <1>1, <1>2
<1> HIDE DEF d, h
<1>7. ASSUME app # Absent, ~q.isDelete, NEW k \in KeysOf(q)
      PROVE  k \in DOMAIN h.dst /\ h.dst[k] = d.dst[k]
  <2> PICK f : f = MergeAttrs(app.dst, d.dst, q.isDelete)
    OBVIOUS
  <2>1. k \in DOMAIN h.rules
    BY <1>1, <1>4, <1>7 DEF MergeAttrs, Override
  <2>2. k \in DOMAIN f /\ f[k] = d.dst[k]
    BY <1>1, <1>7 DEF MergeAttrs, Override
  <2>3. h.dst = Restrict(f, DOMAIN f \cap DOMAIN h.rules)
    BY <1>4, <1>7 DEF Used
  <2> QED
    BY <2>1, <2>2, <2>3 DEF Restrict
<1>8. ASSUME app # Absent, NEW k \in DOMAIN app.rules, k \notin KeysOf(q)
      PROVE  h.dst[k] = app.dst[k]
  <2> PICK f : f = MergeAttrs(app.dst, d.dst, q.isDelete)
    OBVIOUS
  <2>1. k \in DOMAIN h.rules
    BY <1>1, <1>3, <1>4, <1>8, OtherAttrs
  <2>2. k \in DOMAIN f /\ f[k] = app.dst[k]
    <3>1. k \in DOMAIN app.dst
      BY <1>8 DEF Resolves
    <3> QED
      BY <1>1, <1>3, <1>8, <3>1, OtherAttrs
  <2>3. h.dst = Restrict(f, DOMAIN f \cap DOMAIN h.rules)
    BY <1>4, <1>8 DEF Used
  <2> QED
    BY <2>1, <2>2, <2>3 DEF Restrict
<1>9. CASE UpToDate(app, q)
  <2>1. b = app /\ app # Absent /\ ~q.isDelete /\ Kept(app.dst, h.dst)
    BY <1>9 DEF UpToDate, IsDiff, h
  <2>2. \A k \in KeysOf(q) : app.dst[k] = d.dst[k]
    BY <1>7, <2>1 DEF Kept
  <2> QED
    BY <1>2, <1>6, <2>1, <2>2
<1>10. CASE ~UpToDate(app, q)
  <2>1. b = h
    BY <1>10 DEF h
  <2> QED
    BY <1>2, <1>5, <1>6, <1>7, <1>8, <2>1
<1> QED
  BY <1>9, <1>10

\* As3Request.
LEMMA PostedLists ==
    ASSUME Typed, StoreTypeOK, RefsResolve, NEW w \in Types \cup {"ext"}, pc[w] = "post",
           Posted(w), NEW q, q = req[w]
    PROVE  /\ ~q.isDelete =>
                \A e \in Range(q.exts) : DstOf(q.rule, e)' = q.spec[e].content
           /\ \A r \in Rules, e \in Exts :
                (Holds(r, e) /\ (r # q.rule \/ e \notin Range(q.exts))) =>
                    DstOf(r, e)' = DstOf(r, e)
<1> PICK t : t = TenantOf[q.rule]
  OBVIOUS
<1>1. q \in Requests
  BY BusyWorker, RulePostable, PostableRequest DEF Workers, Typed
<1>2. q.rule \in Rules /\ t \in Tenants
  BY <1>1, RequestsAssumption, DeclarationAssumption DEF WellFormed, IsRequest
<1>3. DOMAIN store = Tenants
  BY DEF StoreTypeOK
<1>4. /\ store'[t] = IF UpToDate(store[t], q) THEN store[t] ELSE Body(store[t], q)
      /\ \A u \in Tenants : u # t => store'[u] = store[u]
  <2>1. CASE UpToDate(store[t], q)
    BY <2>1 DEF Posted
  <2>2. CASE ~UpToDate(store[t], q)
    <3> PICK b : b = Body(store[t], q)
      OBVIOUS
    <3>1. store' = [store EXCEPT ![t] = b]
      BY <2>2 DEF Posted, Apply
    <3> QED
      BY <1>2, <1>3, <2>2, <3>1
  <2> QED
    BY <2>1, <2>2
<1> PICK app : app = store[t]
  OBVIOUS
<1> PICK b : b = store'[t]
  OBVIOUS
<1>5. b = (IF UpToDate(app, q) THEN app ELSE Body(app, q))
  BY <1>4
<1>6. \A r \in Rules : TenantOf[r] \in Tenants
  BY DeclarationAssumption
<1>7. app # Absent => Resolves(app)
  BY <1>2 DEF RefsResolve, Declared
<1>8. /\ ~q.isDelete => \A e \in Range(q.exts) : b.dst[<<q.rule, e>>] = q.spec[e].content
      /\ \A r, e : (/\ r # q.rule \/ e \notin Range(q.exts)
                    /\ app # Absent /\ <<r, e>> \in DOMAIN app.rules) =>
                       b.dst[<<r, e>>] = app.dst[<<r, e>>]
  BY <1>1, <1>5, <1>7, PostedDst
<1>9. ASSUME NEW r \in Rules, NEW e \in Exts, r # q.rule \/ e \notin Range(q.exts), Holds(r, e)
      PROVE  DstOf(r, e)' = DstOf(r, e)
  <2>1. CASE TenantOf[r] = t
    BY <1>8, <1>9, <2>1 DEF Holds, DstOf
  <2>2. CASE TenantOf[r] # t
    BY <1>4, <1>6, <2>2 DEF DstOf
  <2> QED
    BY <2>1, <2>2
<1> QED
  BY <1>8, <1>9 DEF DstOf

LEMMA PatchDst ==
    ASSUME StoreTypeOK, NEW p, NEW s, NEW A, PatchSource(p, s, A)
    PROVE  \A r \in Rules, e \in Exts : DstOf(r, e)' = DstOf(r, e)
<1> SUFFICES ASSUME NEW r \in Rules, NEW e \in Exts PROVE DstOf(r, e)' = DstOf(r, e)
  OBVIOUS
<1> PICK t \in Tenants : t = TenantOf[r]
  BY DeclarationAssumption
<1>1. CASE store'[t] = store[t]
  BY <1>1 DEF DstOf
<1>2. CASE store'[t] # store[t]
  <2> PICK app : app = store[t]
    OBVIOUS
  <2>1. store'[t] = [app EXCEPT !.src[<<p, s>>] = A]
    <3>1. DOMAIN store = Tenants
      BY DEF StoreTypeOK
    <3> QED
      BY <1>2, <3>1, PatchFrame
  <2>2. store'[t].dst = app.dst
    BY <2>1
  <2> QED
    BY <2>2 DEF DstOf
<1> QED
  BY <1>1, <1>2

-----------------------------------------------------------------------------
(* What the steps leave alone. *)

\* Nothing changes of objects but their marks, and what was of one that is gone.
Alike ==
    /\ synced' = synced
    /\ \A o \in Objects : (api'[o].live <=> api[o].live) /\ api'[o].spec = api[o].spec
    /\ \A o \in Cached : /\ cache'[o].live <=> cache[o].live
                         /\ cache[o].live => cache'[o].spec = cache[o].spec

\* What is declared for r and e stays, and what is still to be done for them.
KeepsHeld(r, e) ==
    /\ Holds(r, e)' <=> Holds(r, e)
    /\ Holds(r, e) => /\ DeclaredFor(r, e)'.action = DeclaredFor(r, e).action
                      /\ DstOf(r, e)' = DstOf(r, e)

KeepsDue(r, e) ==
    cache[e].live => (Due(r, e) => Due(r, e)') /\ (InHand(r, e) => InHand(r, e)')

KeepsExt(r, e) ==
    /\ ~cache[e].live /\ Removal(r, e) => Removal(r, e)'
    /\ ExtDue(r, e) => ExtDue(r, e)'

KeepsPair(r, e) ==
    /\ KeepsHeld(r, e)
    /\ e \in Range(api[r].spec.exts) =>
        /\ KeepsDue(r, e)
        /\ Own(e) => /\ KeepsExt(r, e)
                     /\ cache[e].live => cache'[e].mark = cache[e].mark

LEMMA SeenAlike ==
    ASSUME AllSeen, Alike PROVE AllSeen'
<1>1. \A o \in Cached : o \in Objects
  BY KindsOfObjects
<1> QED
  BY <1>1 DEF AllSeen, Alike, Same

LEMMA ListedByBoth ==
    ASSUME SeenOK, AllSeen, NEW r \in Rules, NEW e \in Exts,
           cache[r].live, e \in Range(cache[r].spec.exts)
    PROVE  e \in Range(api[r].spec.exts) /\ api[r].live
BY KindsOfObjects DEF SeenOK, ListedFirst, AllSeen, Same

LEMMA MayListApi ==
    ASSUME SeenOK, NEW r \in Rules, NEW e \in Range(api[r].spec.exts) PROVE MayList(r, e)
BY DEF SeenOK, MayList

\* An object in the API server and in the cache, before and after the step.
LEMMA SameBoth ==
    ASSUME Alike, NEW o \in Cached
    PROVE  /\ o \in Objects /\ (Up' <=> Up)
           /\ api'[o].spec = api[o].spec
           /\ api'[o].live <=> api[o].live
           /\ cache'[o].live <=> cache[o].live
           /\ cache[o].live => cache'[o].spec = cache[o].spec
BY KindsOfObjects DEF Alike, Up

LEMMA HeldOKStays ==
    ASSUME Settling, AllSeen, Alike, NEW r \in Rules, NEW e \in Exts, HeldOK(r, e),
           Holds(r, e)' => Holds(r, e),
           cache[e].live /\ InHand(r, e) => InHand(r, e)', Own(e) => KeepsExt(r, e)
    PROVE  HeldOK(r, e)'
<1> SUFFICES ASSUME Holds(r, e)' PROVE HeldOK(r, e)'
  BY DEF HeldOK
<1>1. r \in Cached /\ e \in Cached /\ Holds(r, e)
  BY KindsOfObjects
<1>2. (Up /\ ~cache[r].live) => cache[e].live /\ InHand(r, e)'
  BY <1>1 DEF HeldOK
<1>3. (Up /\ ~cache[e].live) => Removal(r, e)'
  <2> SUFFICES ASSUME Up, ~cache[e].live PROVE Removal(r, e)'
    OBVIOUS
  <2>1. ~api[e].live
    BY <1>1, KindsOfObjects DEF AllSeen, Same, Up, Workers
  <2>2. Own(e)
    BY <1>1, <2>1 DEF HeldOK, Settling, DeletedOwn
  <2> QED
    BY <1>1, <2>2 DEF KeepsExt, HeldOK
<1> QED
  BY <1>1, <1>2, <1>3, SameBoth DEF HeldOK, InRange

LEMMA PairStays ==
    ASSUME Settling, SeenOK, AllSeen, Alike, NEW r \in Rules, NEW e \in Exts,
           KeepsPair(r, e), PairOK(r, e)
    PROVE  PairOK(r, e)'
<1>1. r \in Cached /\ e \in Cached
  BY KindsOfObjects
<1>2. Serves(r, e)' => Serves(r, e) /\ e \in Range(api[r].spec.exts)
  BY <1>1, SameBoth, ListedByBoth DEF Serves, InRange, KeepsPair, KeepsHeld, Creates
<1>3. HeldOK(r, e)'
  <2>1. CASE Holds(r, e)
    <3>1. e \in Range(api[r].spec.exts)
      BY <2>1 DEF PairOK, HeldOK
    <3> QED
      BY <3>1, HeldOKStays DEF PairOK, KeepsPair, KeepsDue, KeepsHeld
  <2>2. CASE ~Holds(r, e)
    BY <2>2 DEF HeldOK, KeepsPair, KeepsHeld
  <2> QED
    BY <2>1, <2>2
<1>4. LabelledOK(r, e)'
  BY <1>1, <1>2, SameBoth DEF LabelledOK, PairOK, KeepsPair, KeepsDue, Serves
<1>5. ContentOK(r, e)'
  BY <1>1, <1>2, SameBoth DEF ContentOK, PairOK, KeepsPair, KeepsDue, KeepsHeld, KeepsExt, Serves
<1> QED
  BY <1>3, <1>4, <1>5 DEF PairOK

\* The label of e has a reason as long as that is still to be done.
LEMMA MarkedStays ==
    ASSUME Alike, NEW r \in Rules, NEW e \in Exts, api'[e].mark = api[e].mark,
           Up /\ ~cache[r].live /\ Due(r, e) => Due(r, e)', MarkedBy(r, e)
    PROVE  MarkedBy(r, e)'
<1>1. r \in Objects /\ r \in Cached
  BY KindsOfObjects
<1>2. /\ api'[r].spec = api[r].spec /\ (api'[r].live <=> api[r].live)
      /\ cache'[r].live <=> cache[r].live
      /\ Up' <=> Up
  BY <1>1 DEF Alike, Up
<1> QED
  BY <1>2 DEF MarkedBy, InRange

\* A worker that waits, with what it has in hand.
Waits(w) ==
    pc'[w] = pc[w] /\ item'[w] = item[w] /\ req'[w] = req[w] /\ todo'[w] = todo[w]

LEMMA RuleReqStays ==
    ASSUME Typed, SeenOK, Alike, NEW w \in Types, pc[w] # "idle", Waits(w), RuleReq(w),
           \A e \in Exts : (cache[e].live /\ Own(e) /\ MayList(req[w].rule, e)) =>
                            cache'[e].mark = cache[e].mark
    PROVE  RuleReq(w)'
<1> PICK q : q = req[w]
  OBVIOUS
<1> PICK r : r = q.rule
  OBVIOUS
<1>1. /\ r \in Rules /\ r \in Objects /\ r \in Cached
      /\ Range(q.exts) \subseteq Exts /\ \A e \in Range(q.exts) : e \in Cached
  <2>1. RuleOK(pc[w], q, todo[w])
    BY OwnItem DEF RuleReq
  <2> QED
    BY <2>1, KindsOfObjects DEF RuleOK, Built, Specified, Range
<1>2. /\ api'[r].spec = api[r].spec
      /\ cache'[r].live <=> cache[r].live
      /\ cache[r].live => cache'[r].spec = cache[r].spec
  BY <1>1 DEF Alike
<1>3. \A e \in Range(q.exts) : /\ cache'[e].live /\ q.spec[e] = cache'[e].spec
                               /\ Own(e) => cache'[e].mark = NewLabel(w)
  <2> SUFFICES ASSUME NEW e \in Range(q.exts)
               PROVE  /\ cache'[e].live /\ q.spec[e] = cache'[e].spec
                      /\ Own(e) => cache'[e].mark = NewLabel(w)
    OBVIOUS
  <2>1. cache[e].live /\ q.spec[e] = cache[e].spec /\ (Own(e) => cache[e].mark = NewLabel(w))
    BY DEF RuleReq
  <2>2. MayList(r, e)
    BY <1>1, MayListApi DEF RuleReq
  <2> QED
    BY <1>1, <2>1, <2>2 DEF Alike
<1> QED
  BY <1>2, <1>3 DEF RuleReq, Waits, InRange, NewLabel

LEMMA ExtReqStays ==
    ASSUME Typed, Alike, pc["ext"] # "idle", Waits("ext"), ExtReq,
           NEW r, r = req["ext"].rule, NEW e, e = item["ext"].key,
           cache[e].live /\ Own(e) /\ cache[e].mark = RuleType[r] => cache'[e].mark = RuleType[r]
    PROVE  ExtReq'
<1>1. r \in Cached /\ e \in Cached
  <2>1. "ext" \in Workers /\ "ext" \notin Types
    BY DEF Workers, Types
  <2>2. EntryOf("ext", item["ext"]) /\ Postable(req["ext"])
    BY <2>1, BusyWorker DEF Typed
  <2> QED
    BY <2>2, KindsOfObjects DEF EntryOf, IsEntry, Postable, Built
<1> QED
  BY <1>1, SameBoth DEF ExtReq, Waits, InRange

\* A controller that is up and sees all there is.
LEMMA SeenNow ==
    ASSUME InformersTypeOK', AllSeen', Up',
           \A r \in Rules : /\ api'[r].spec \in VersionsOf(r)
                            /\ cache'[r].live => cache'[r].spec \in VersionsOf(r)
    PROVE  SeenOK'
<1>1. \A o \in Cached : o \in Objects /\ WorkerOf(o) \in Workers
  BY KindsOfObjects
<1>2. \A o \in Cached : (WorkerOf(o) \in synced /\ Same(o))'
  BY <1>1 DEF AllSeen, Up
<1>3. ListedFirst'
  BY <1>2 DEF ListedFirst
<1>4. \A i \in queue' : WorkerOf(i.key) \in synced'
  BY <1>2 DEF InformersTypeOK
<1>5. \A e \in Exts : /\ cache'[e].live /\ ~api'[e].live => FALSE
                      /\ ~cache'[e].live /\ api'[e].live => FALSE
  BY <1>2, KindsOfObjects DEF Same
<1>6. \A o \in fresh' : o \in Cached
  BY DEF InformersTypeOK
<1> QED
  BY <1>2, <1>3, <1>4, <1>5, <1>6 DEF SeenOK

LEMMA SeenStays ==
    ASSUME InformersTypeOK', SeenOK, AllSeen, Alike, Up PROVE SeenOK'
<1>1. AllSeen' /\ Up'
  BY SeenAlike DEF Alike, Up
<1>2. \A r \in Rules : /\ api'[r].spec \in VersionsOf(r)
                       /\ cache'[r].live => cache'[r].spec \in VersionsOf(r)
  <2>1. \A r \in Rules : r \in Objects /\ r \in Cached
    BY KindsOfObjects
  <2> QED
    BY <2>1 DEF SeenOK, Alike
<1> QED
  BY <1>1, <1>2, SeenNow

\* The label of e stays, and with it what it is compared with.
KeepsMark(e) ==
    /\ api'[e].mark = api[e].mark
    /\ Own(e) /\ cache[e].live => cache'[e].mark = cache[e].mark
    /\ e \notin fresh' => e \notin fresh /\ ~Disturbed(e)

LEMMA MarkStays ==
    ASSUME AllSeen, Alike, Up, NEW e \in Exts, KeepsMark(e), MarkOK(e),
           \A r \in Rules : (/\ InRange(r) /\ e \in Range(api[r].spec.exts)
                            /\ cache[e].live /\ ~cache[r].live /\ Due(r, e)) => Due(r, e)'
    PROVE  MarkOK(e)'
<1> SUFFICES ASSUME Own(e) PROVE MarkOK(e)'
  BY DEF MarkOK
<1>1. /\ e \in Objects /\ e \in Cached /\ WorkerOf(e) \in synced
      /\ \A r \in Rules : r \in Cached
  BY KindsOfObjects DEF Up
<1>2. /\ cache[e].live <=> api[e].live
      /\ cache'[e].live <=> cache[e].live
      /\ api'[e].live <=> api[e].live
      /\ \A r \in Rules : cache'[r].live <=> cache[r].live
  BY <1>1 DEF AllSeen, Same, Alike
<1>3. cache'[e].live =>
        /\ cache'[e].mark = api'[e].mark
        /\ \A r \in Rules : (MayList(r, e) /\ e \notin fresh') =>
                cache'[e].mark = IF cache'[r].live THEN RuleType[r] ELSE "none"
  BY <1>2 DEF MarkOK, KeepsMark
<1>4. (api'[e].live /\ api'[e].mark # "none") => \E r \in Rules : MarkedBy(r, e)'
  <2> SUFFICES ASSUME api'[e].live, api'[e].mark # "none"
               PROVE  \E r \in Rules : MarkedBy(r, e)'
    OBVIOUS
  <2>1. api[e].live /\ api'[e].mark = api[e].mark
    BY <1>2 DEF KeepsMark
  <2>2. PICK r \in Rules : MarkedBy(r, e)
    BY <2>1 DEF MarkOK
  <2>3. (Up /\ ~cache[r].live /\ Due(r, e)) => Due(r, e)'
    BY <1>2, <2>1, <2>2 DEF MarkedBy
  <2> QED
    BY <2>1, <2>2, <2>3, MarkedStays
<1> QED
  BY <1>3, <1>4 DEF MarkOK

-----------------------------------------------------------------------------
(* What a worker leaves alone. *)

\* A step of worker w that is about object k leaves the others alone.
LEMMA Apart ==
    ASSUME NEW w \in Workers, \A v \in Workers \ {w} : Waits(v),
           NEW k, \A i \in queue : i.key = k \/ i \in queue'
    PROVE  /\ \A r \in Rules : (r # k /\ (RuleType[r] = w => ~Busy(r))) =>
                \A e : KeepsDue(r, e)
           /\ \A e : (e # k /\ w # "ext") => \A r : KeepsExt(r, e)
<1>1. ASSUME NEW r \in Rules, r # k, RuleType[r] = w => ~Busy(r), NEW e
      PROVE  KeepsDue(r, e)
  <2>1. Pending(r) => Pending(r)'
    BY <1>1 DEF Pending
  <2>2. RuleType[r] \in Workers
    BY KindsOfObjects DEF Workers
  <2>3. CASE RuleType[r] = w
    BY <1>1, <2>1, <2>3 DEF KeepsDue, Due, InHand, Doing, Posting
  <2>4. CASE RuleType[r] # w
    <3>1. /\ Doing(r, e) => Doing(r, e)'
          /\ Posting(r, e) => Posting(r, e)'
      BY <2>2, <2>4 DEF Waits, Doing, Posting, Busy
    <3> QED
      BY <2>1, <3>1 DEF KeepsDue, Due, InHand
  <2> QED
    BY <2>3, <2>4
<1>2. ASSUME NEW e, e # k, w # "ext", NEW r PROVE KeepsExt(r, e)
  <2>1. "ext" \in Workers
    BY DEF Workers
  <2>2. ExtDoing(r, e) => ExtDoing(r, e)'
    BY <1>2, <2>1 DEF Waits, ExtDoing
  <2> QED
    BY <1>2, <2>2 DEF KeepsExt, Removal, ExtDue, ExtPending
<1> QED
  BY <1>1, <1>2

LEMMA SamePairs ==
    ASSUME store' = store PROVE \A r, e : KeepsHeld(r, e)
BY SameStore DEF KeepsHeld, DstOf

LEMMA SameObjects ==
    ASSUME UNCHANGED <<api, cache, fresh, synced>>
    PROVE  /\ Alike
           /\ ~Calm => \A e : KeepsMark(e)
BY DEF Alike, KeepsMark, Disturbed

LEMMA BusySees ==
    ASSUME SeenOK, ~Calm PROVE AllSeen
BY DEF SeenOK, AllSeen, Disturbed

LEMMA BusyCalm ==
    ASSUME NEW w \in Workers, pc[w] # "idle" PROVE ~Calm
BY DEF Calm

LEMMA TakesCalm ==
    ASSUME NEW w, NEW i, Takes(w, i), i.key \in Exts => ExtOf(i).spec \notin Refused
    PROVE  ~Calm /\ Up
BY DEF Calm, Takes

-----------------------------------------------------------------------------
(* A worker of rules goes on with the rule it has. *)

LEMMA MutatedMark ==
    ASSUME InformersTypeOK, NEW o \in Cached, NEW mark, cache' = Mutated(o, mark)
    PROVE  cache'[o].mark = mark /\ \A x \in Cached \ {o} : cache'[x].mark = cache[x].mark
<1>1. cache[o] = [live |-> cache[o].live, spec |-> cache[o].spec, mark |-> cache[o].mark]
  BY DEF InformersTypeOK, Forms
<1>2. cache' = [cache EXCEPT ![o] = [cache[o] EXCEPT !.mark = mark]]
  BY DEF Mutated
<1>3. cache'[o] = [cache[o] EXCEPT !.mark = mark] /\ \A x \in Cached \ {o} : cache'[x] = cache[x]
  BY <1>2 DEF InformersTypeOK
<1>4. cache'[o].mark = mark
  BY <1>1, <1>3
<1> QED
  BY <1>3, <1>4

LEMMA WrittenMark ==
    ASSUME InformersTypeOK, NEW o \in Objects, NEW mark, api' = [api EXCEPT ![o].mark = mark]
    PROVE  api'[o].mark = mark /\ \A x \in Objects \ {o} : api'[x].mark = api[x].mark
<1>1. api[o] = [live |-> api[o].live, spec |-> api[o].spec, mark |-> api[o].mark]
  BY DEF InformersTypeOK, Forms
<1>2. api' = [api EXCEPT ![o] = [api[o] EXCEPT !.mark = mark]]
  OBVIOUS
<1>3. api'[o] = [api[o] EXCEPT !.mark = mark] /\ \A x \in Objects \ {o} : api'[x] = api[x]
  BY <1>2 DEF InformersTypeOK
<1>4. api'[o].mark = mark
  BY <1>1, <1>3
<1> QED
  BY <1>3, <1>4

\* The label of e stays, or the step is about it.
LabelStays(e) ==
    /\ api'[e].mark = api[e].mark /\ cache'[e].mark = cache[e].mark
    /\ e \notin fresh' => e \notin fresh

Relabels(w, e) == (ExtLabel(w) \/ ExtLabelFails(w)) /\ e = Head(todo[w])

LEMMA StepLabels ==
    ASSUME Typed, NEW w \in Types, RuleStep(w), NEW e \in Exts
    PROVE  LabelStays(e) \/ Relabels(w, e)
<1> USE DEF LabelStays
<1>1. e \in Cached /\ e \in Objects /\ e \notin Rules /\ InformersTypeOK
  BY KindsOfObjects, InformersAssumption DEF Typed
<1>2. CASE UNCHANGED <<api, cache, fresh>>
  BY <1>2
<1>3. ASSUME NEW x \in Exts, x # e, LabelCall(w, x),
             UNCHANGED <<api, fresh>> \/ WriteLabel(x, NewLabel(w))
      PROVE  LabelStays(e)
  <2>1. cache' = Mutated(x, NewLabel(w)) /\ x \in Cached /\ x \in Objects
    BY <1>3, KindsOfObjects DEF LabelCall
  <2>2. cache'[e].mark = cache[e].mark
    BY <1>1, <1>3, <2>1, MutatedMark
  <2>3. api'[e].mark = api[e].mark /\ (e \notin fresh' => e \notin fresh)
    BY <1>1, <1>3, <2>1, WrittenMark DEF WriteLabel
  <2> QED
    BY <2>2, <2>3
<1>4. ASSUME NEW r \in Rules, NEW phase, cache' = Phased(r, phase),
             UNCHANGED <<api, fresh>> \/ WritePhase(r, phase)
      PROVE  LabelStays(e)
  <2>1. r \in Cached /\ r \in Objects /\ r # e
    BY <1>1, KindsOfObjects
  <2>2. cache'[e].mark = cache[e].mark
    BY <1>1, <1>4, <2>1, MutatedMark DEF Phased
  <2>3. api'[e].mark = api[e].mark /\ (e \notin fresh' => e \notin fresh)
    BY <1>1, <1>4, <2>1, WrittenMark DEF WritePhase
  <2> QED
    BY <2>2, <2>3
<1>5. pc[w] # "idle" => req[w].rule \in Rules
  BY BusyWorker DEF Typed, Workers, RuleOK, Built
<1>6. CASE ExtMissing(w) \/ ExtLabelled(w) \/ NothingToDo(w) \/ Post(w) \/ PostFails(w)
  BY <1>2, <1>6 DEF ExtMissing, ExtLabelled, NothingToDo, Post, PostFails
<1>7. CASE ExtLabel(w)
  <2> PICK x \in Exts : LabelCall(w, x) /\ WriteLabel(x, NewLabel(w))
    BY <1>7 DEF ExtLabel
  <2> QED
    BY <1>3, <1>7 DEF LabelCall, Relabels
<1>8. CASE ExtLabelFails(w)
  <2> PICK x \in Exts : LabelCall(w, x) /\ (UNCHANGED <<api, fresh>> \/ WriteLabel(x, NewLabel(w)))
    BY <1>8 DEF ExtLabelFails
  <2> QED
    BY <1>3, <1>8 DEF LabelCall, Relabels
<1>9. CASE Announce(w)
  BY <1>4, <1>5, <1>9 DEF Announce
<1>10. ASSUME NEW step \in {"status", "done"}, NEW phase, PhaseFails(w, step, phase)
       PROVE  LabelStays(e)
  BY <1>4, <1>5, <1>10 DEF PhaseFails
<1>11. CASE Succeed(w)
  BY <1>4, <1>5, <1>11 DEF Succeed
<1> QED
  BY <1>6, <1>7, <1>8, <1>9, <1>10, <1>11 DEF RuleStep

\* What a step of a worker of rules starts from, and where it leaves the others.
LEMMA StepBasics ==
    ASSUME Typed, SeenOK, ReqOK, NEW w \in Types, RuleStep(w)
    PROVE  /\ pc[w] # "idle" /\ w \in Workers /\ ~Calm /\ Up /\ AllSeen /\ Alike
           /\ RuleReq(w) /\ RuleOK(pc[w], req[w], todo[w]) /\ req[w].rule \in Rules
           /\ RuleType[req[w].rule] = w /\ Busy(req[w].rule) /\ item[w].key = req[w].rule
           /\ \A r \in Rules : (RuleType[r] = w /\ r # req[w].rule) => ~Busy(r)
           /\ \A v \in Workers \ {w} : Waits(v)
           /\ queue \subseteq queue' /\ queue' \subseteq queue \cup {item[w]}
<1>1. pc[w] # "idle" => RuleReq(w) /\ item[w].key = req[w].rule
  BY DEF ReqOK, RuleReq
<1>2. pc[w] # "idle" /\ (Ended(w) \/ Continued(w))
  BY <1>1, StepLeaves
<1>3. w \in Workers
  BY DEF Workers
<1>4. ~Calm /\ Up /\ AllSeen
  BY <1>2, <1>3, BusyCalm, BusySees DEF SeenOK
<1>5. Alike
  BY StepMarks DEF MarksOnly, Alike
<1>6. OthersWait(w) /\ queue' \in {queue, queue \cup {item[w]}}
  BY <1>1, <1>2, StepApart
<1> QED
  BY <1>1, <1>2, <1>3, <1>4, <1>5, <1>6, OwnItem DEF OthersWait, Waits

\* Only a post changes what is declared.
LEMMA StepHeld ==
    ASSUME Typed, StoreTypeOK, RefsResolve, NEW w \in Types, RuleStep(w),
           NEW r \in Rules, NEW e \in Exts
    PROVE  \/ KeepsHeld(r, e)
           \/ /\ pc[w] = "post" /\ Posted(w) /\ (Post(w) \/ PostFails(w))
              /\ r = req[w].rule /\ e \in Range(req[w].exts)
<1>1. CASE store' = store
  BY <1>1, SamePairs
<1>2. CASE Posted(w) /\ pc[w] = "post" /\ (Post(w) \/ PostFails(w))
  <2>1. w \in Types \cup {"ext"}
    OBVIOUS
  <2> QED
    BY <1>2, <2>1, PostedHolds, PostedLists DEF KeepsHeld
<1>3. ExtLabelFails(w) => store' = store
  BY DEF ExtLabelFails
<1>4. \A step, phase : PhaseFails(w, step, phase) => store' = store
  BY DEF PhaseFails
<1>5. Post(w) \/ PostFails(w) => store' = store \/ (Posted(w) /\ pc[w] = "post")
  BY DEF Post, PostFails
<1> QED
  BY <1>1, <1>2, <1>3, <1>4, <1>5 DEF RuleStep, ExtMissing, ExtLabelled, ExtLabel, Proceed,
     NothingToDo, Announce, Succeed

\* The service of a post that succeeds.
LEMMA PostedPair ==
    ASSUME Typed, StoreTypeOK, RefsResolve, AllSeen, Up, UNCHANGED <<api, cache, fresh, synced>>,
           NEW w \in Types \cup {"ext"}, pc[w] = "post", Posted(w),
           NEW q, q = req[w], NEW r \in Rules, r = q.rule,
           NEW e \in Exts, e \in Range(q.exts), InRange(r), e \in Range(api[r].spec.exts),
           ~q.isDelete => /\ cache[r].live /\ q.action = cache[r].spec.action
                          /\ cache[e].live /\ q.spec[e] = cache[e].spec
                          /\ Own(e) => cache[e].mark = RuleType[r],
           q.isDelete => ~cache[r].live \/ ~cache[e].live
    PROVE  PairOK(r, e)'
<1>1. api' = api /\ cache' = cache /\ synced' = synced /\ (Serves(r, e)' => cache[r].live /\ cache[e].live)
  BY DEF Serves
<1>2. CASE q.isDelete
  <2>1. ~Holds(r, e)'
    BY <1>2, PostedHolds
  <2> QED
    BY <1>1, <1>2, <2>1 DEF PairOK, HeldOK, LabelledOK, ContentOK
<1>3. CASE ~q.isDelete
  <2>1. Holds(r, e)' /\ DeclaredFor(r, e)'.action = q.action
    BY <1>3, PostedHolds
  <2>2. DstOf(r, e)' = q.spec[e].content
    BY <1>3, PostedLists
  <2>3. r \in Cached /\ e \in Cached /\ WorkerOf(r) \in synced /\ WorkerOf(e) \in synced
    BY KindsOfObjects DEF Up
  <2>4. api[r].live /\ api[e].live
    BY <1>3, <2>3 DEF AllSeen, Same
  <2>5. HeldOK(r, e)'
    BY <1>1, <1>3, <2>4 DEF HeldOK, InRange
  <2>6. LabelledOK(r, e)'
    BY <1>1, <1>3 DEF LabelledOK
  <2>7. ContentOK(r, e)'
    BY <1>1, <1>3, <2>1, <2>2 DEF ContentOK
  <2> QED
    BY <2>5, <2>6, <2>7 DEF PairOK
<1> QED
  BY <1>2, <1>3

\* An entry that is put back: the handler will look at all of it again.
LEMMA RequeuedPair ==
    ASSUME Settling, AllSeen, Alike, NEW r \in Rules, NEW e \in Exts, PairOK(r, e), Pending(r)',
           KeepsHeld(r, e), KeepsExt(r, e)
    PROVE  PairOK(r, e)'
<1>1. InHand(r, e)' /\ Due(r, e)'
  BY DEF InHand, Due
<1>2. HeldOK(r, e)'
  BY <1>1, HeldOKStays DEF PairOK, KeepsHeld
<1> QED
  BY <1>1, <1>2 DEF PairOK, LabelledOK, ContentOK

\* The loop over the external services.
Gathers(w, q, e, q2) ==
    /\ Proceed(w, q2)
    /\ q2.rule = q.rule /\ q2.isDelete = q.isDelete /\ q2.action = q.action
    /\ \/ q2 = q /\ ExtMissing(w) /\ ~cache[e].live
       \/ /\ ExtLabelled(w) \/ ExtLabel(w)
          /\ cache[e].live /\ q2.spec[e] = cache[e].spec
          /\ Range(q2.exts) = Range(q.exts) \cup {e}
          /\ \A x \in Range(q.exts) : x # e => q2.spec[x] = q.spec[x]

LEMMA Looks ==
    ASSUME Typed, NEW w \in Types, ExtMissing(w) \/ ExtLabelled(w) \/ ExtLabel(w),
           RuleOK(pc[w], req[w], todo[w]),
           NEW q, q = req[w], NEW t, t = todo[w], NEW e, e = Head(t)
    PROVE  /\ pc[w] = "exts" /\ e \in Exts /\ Range(t) = {e} \cup Range(Tail(t))
           /\ \E q2 : Gathers(w, q, e, q2)
<1>1. pc[w] = "exts"
  BY DEF ExtMissing, ExtLabelled, ExtLabel, LabelCall
<1>2. /\ q.exts \in Seq(Exts) /\ t \in Seq(Exts) /\ t # <<>> /\ Built(q) /\ e \in Exts
      /\ DOMAIN q.spec = Range(q.exts)
  BY <1>1 DEF RuleOK, Specified
<1>3. Range(t) = {e} \cup Range(Tail(t)) /\ Range(Append(q.exts, e)) = Range(q.exts) \cup {e}
  BY <1>2, RangeOfLists
<1>4. CASE ExtMissing(w)
  <2>1. Gathers(w, q, e, q)
    BY <1>4 DEF Gathers, ExtMissing
  <2> QED
    BY <1>1, <1>2, <1>3, <2>1
<1>5. CASE ExtLabelled(w) \/ ExtLabel(w)
  <2>1. Proceed(w, With(q, e)) /\ cache[e].live
    <3>1. CASE ExtLabelled(w)
      BY <3>1 DEF ExtLabelled
    <3>2. CASE ExtLabel(w)
      BY <3>2 DEF ExtLabel, LabelCall
    <3> QED
      BY <1>5, <3>1, <3>2
  <2> PICK q2 : q2 = With(q, e)
    OBVIOUS
  <2> PICK s : s = Append(q.exts, e)
    OBVIOUS
  <2> PICK g : g = Override([x \in {e} |-> cache[e].spec], q.spec)
    OBVIOUS
  <2>2. q2 = [rule |-> q.rule, exts |-> s, spec |-> g, ep |-> q.ep, src |-> q.src,
              action |-> q.action, conf |-> q.conf, isDelete |-> q.isDelete]
    BY <1>2, WithFields
  <2>3. /\ q2.isDelete = q.isDelete /\ q2.action = q.action /\ q2.exts = s
        /\ q2.rule = q.rule /\ q2.spec = g
    BY <2>2
  <2>4. g[e] = cache[e].spec /\ \A x \in Range(q.exts) : x # e => g[x] = q.spec[x]
    BY <1>2 DEF Override
  <2>5. /\ Proceed(w, q2) /\ q2.spec[e] = cache[e].spec /\ Range(q2.exts) = Range(q.exts) \cup {e}
        /\ \A x \in Range(q.exts) : x # e => q2.spec[x] = q.spec[x]
    BY <1>3, <2>1, <2>3, <2>4
  <2>6. Gathers(w, q, e, q2)
    BY <1>5, <2>1, <2>3, <2>5 DEF Gathers
  <2> QED
    BY <1>1, <1>2, <1>3, <2>6
<1> QED
  BY <1>4, <1>5

LEMMA LooksHand ==
    ASSUME Typed, SeenOK, ReqOK, NEW w \in Types, ExtMissing(w) \/ ExtLabelled(w) \/ ExtLabel(w),
           NEW r, r = req[w].rule, NEW e \in Exts
    PROVE  /\ (e # Head(todo[w]) \/ ExtMissing(w)) => KeepsDue(r, e)
           /\ cache[e].live /\ InHand(r, e) => InHand(r, e)'
           /\ e = Head(todo[w]) /\ ~ExtMissing(w) => InHand(r, e)'
<1> PICK q : q = req[w]
  OBVIOUS
<1> PICK t : t = todo[w]
  OBVIOUS
<1> PICK x : x = Head(t)
  OBVIOUS
<1>1. RuleStep(w)
  BY DEF RuleStep
<1>2. /\ r \in Rules /\ RuleType[r] = w /\ Busy(r) /\ item[w].key = r
      /\ RuleOK(pc[w], q, t) /\ w \in Workers
  BY <1>1, StepBasics
<1>3. pc[w] = "exts" /\ Range(t) = {x} \cup Range(Tail(t))
  BY <1>2, Looks
<1>4. PICK q2 : Gathers(w, q, x, q2)
  BY <1>2, Looks
<1>5. /\ Proceed(w, q2) /\ Range(q.exts) \subseteq Range(q2.exts)
      /\ \/ ExtMissing(w) /\ ~cache[x].live
         \/ ~ExtMissing(w) /\ x \in Range(q2.exts)
  <2>1. ExtMissing(w) => ~cache[x].live
    BY DEF ExtMissing
  <2> QED
    BY <1>4, <2>1 DEF Gathers
<1>6. /\ item' = item /\ queue' = queue /\ req'[w] = q2 /\ todo'[w] = Tail(t)
      /\ pc'[w] # "idle" /\ pc'[w] # "done"
  <2>1. pc'[w] = After(q2, Tail(t), announced[w])
    BY <1>5, ProceedContinues
  <2> QED
    BY <1>5, <2>1, ProceedContinues DEF Continued, After
<1>7. Pending(r)' <=> Pending(r)
  BY <1>6 DEF Pending
<1>8. Busy(r)'
  BY <1>2, <1>6 DEF Busy
<1>9. /\ Doing(r, e) <=> e \in Range(t)
      /\ Doing(r, e)' <=> e \in Range(Tail(t))
      /\ Posting(r, e) <=> e \in Range(q.exts)
      /\ Posting(r, e)' <=> e \in Range(q2.exts)
  BY <1>2, <1>3, <1>6, <1>8 DEF Doing, Posting
<1> QED
  BY <1>3, <1>5, <1>7, <1>9 DEF KeepsDue, Due, InHand

\* Nobody but the worker of the rule that lists e labels it.
LEMMA OwnLabels ==
    ASSUME Typed, SeenOK, ReqOK, NEW w \in Types, RuleStep(w),
           NEW e \in Exts, Own(e), Relabels(w, e) \/ ~LabelStays(e)
    PROVE  /\ Relabels(w, e) /\ MayList(req[w].rule, e)
           /\ \A r \in Rules : MayList(r, e) => r = req[w].rule
<1>1. Relabels(w, e)
  BY StepLabels
<1>2. /\ pc[w] # "idle" /\ RuleOK(pc[w], req[w], todo[w]) /\ RuleReq(w) /\ req[w].rule \in Rules
  BY StepBasics
<1>3. pc[w] = "exts" /\ e = Head(todo[w])
  BY <1>1 DEF Relabels, ExtLabel, ExtLabelFails, LabelCall
<1>4. e \in Range(todo[w])
  BY <1>2, <1>3, RangeOfLists DEF RuleOK
<1>5. e \in Range(api[req[w].rule].spec.exts)
  BY <1>2, <1>4 DEF RuleReq
<1>6. MayList(req[w].rule, e)
  BY <1>2, <1>5, MayListApi
<1> QED
  BY <1>1, <1>2, <1>6 DEF Own

LEMMA OtherPairs ==
    ASSUME Typed, StoreTypeOK, RefsResolve, SeenOK, ReqOK, NEW w \in Types, RuleStep(w),
           NEW r \in Rules, r # req[w].rule, NEW e \in Exts
    PROVE  KeepsPair(r, e)
<1>1. KeepsHeld(r, e)
  BY StepHeld
<1>2. KeepsDue(r, e) /\ KeepsExt(r, e)
  <2>1. /\ w \in Workers /\ w # "ext" /\ req[w].rule \in Rules
        /\ \A v \in Workers \ {w} : Waits(v)
        /\ \A i \in queue : i.key = req[w].rule \/ i \in queue'
        /\ RuleType[r] = w => ~Busy(r)
    BY StepBasics DEF Types
  <2>2. e # req[w].rule
    BY <2>1, InformersAssumption
  <2> QED
    BY <2>1, <2>2, Apart
<1>3. ASSUME e \in Range(api[r].spec.exts), Own(e) PROVE cache'[e].mark = cache[e].mark
  BY <1>3, OwnLabels, MayListApi DEF LabelStays
<1> QED
  BY <1>1, <1>2, <1>3 DEF KeepsPair

\* The own rule of a worker: a step that goes on, or ends with nothing to do.
LEMMA OwnPairKept ==
    ASSUME Typed, StoreTypeOK, RefsResolve, SeenOK, ReqOK, NEW w \in Types,
           ExtMissing(w) \/ NothingToDo(w) \/ Announce(w) \/ Succeed(w),
           NEW r, r = req[w].rule, NEW e \in Exts
    PROVE  KeepsPair(r, e)
<1>1. RuleStep(w)
  BY DEF RuleStep
<1>2. /\ r \in Rules /\ RuleType[r] = w /\ Busy(r) /\ item[w].key = r /\ RuleReq(w)
      /\ RuleOK(pc[w], req[w], todo[w]) /\ w \in Workers /\ w # "ext"
      /\ \A v \in Workers \ {w} : Waits(v)
      /\ queue \subseteq queue'
  BY <1>1, StepBasics DEF Types
<1>3. KeepsHeld(r, e)
  <2>1. store' = store
    BY DEF ExtMissing, Proceed, NothingToDo, Announce, Succeed
  <2> QED
    BY <2>1, SamePairs
<1>4. KeepsExt(r, e)
  <2>1. e # r
    BY <1>2, InformersAssumption
  <2> QED
    BY <1>2, <2>1, Apart
<1>5. cache'[e].mark = cache[e].mark
  <2>1. ~Relabels(w, e)
    BY DEF Relabels, ExtLabel, ExtLabelFails, LabelCall, ExtMissing, NothingToDo, Announce, Succeed
  <2> QED
    BY <1>1, <2>1, StepLabels DEF LabelStays
<1>6. KeepsDue(r, e)
  <2>1. CASE ExtMissing(w)
    BY <2>1, LooksHand
  <2>2. CASE NothingToDo(w) \/ Succeed(w)
    <3>1. Pending(r) => Pending(r)'
      BY <1>2 DEF Pending
    <3>2. ~Doing(r, e) /\ ~Posting(r, e)
      BY <1>2, <2>2 DEF NothingToDo, Succeed, RuleReq, RuleOK, Doing, Posting, Range
    <3> QED
      BY <3>1, <3>2 DEF KeepsDue, InHand, Due
  <2>3. CASE Announce(w)
    <3>1. /\ queue' = queue /\ item' = item /\ req' = req /\ todo' = todo
          /\ pc[w] = "status" /\ pc' = [pc EXCEPT ![w] = "post"]
      BY <2>3 DEF Announce
    <3>2. pc'[w] = "post"
      BY <1>2, <3>1 DEF Typed, WorkInv
    <3> QED
      BY <1>2, <3>1, <3>2 DEF KeepsDue, InHand, Due, Pending, Doing, Posting, Busy
  <2> QED
    BY <2>1, <2>2, <2>3
<1> QED
  BY <1>3, <1>4, <1>5, <1>6 DEF KeepsPair

LEMMA OwnPairLooked ==
    ASSUME Settling, Typed, StoreTypeOK, RefsResolve, SeenOK, ReqOK, NEW w \in Types,
           ExtLabelled(w) \/ ExtLabel(w), NEW r, r = req[w].rule, NEW e \in Exts, PairOK(r, e)
    PROVE  PairOK(r, e)'
<1>1. RuleStep(w)
  BY DEF RuleStep
<1>2. /\ r \in Rules /\ RuleType[r] = w /\ RuleReq(w) /\ w \in Workers /\ w # "ext"
      /\ \A v \in Workers \ {w} : Waits(v)
      /\ queue \subseteq queue' /\ AllSeen /\ Alike
  BY <1>1, StepBasics DEF Types
<1>3. KeepsHeld(r, e) /\ ~ExtMissing(w)
  <2>1. store' = store /\ ~ExtMissing(w)
    BY DEF ExtMissing, ExtLabelled, ExtLabel, LabelCall, Proceed
  <2> QED
    BY <2>1, SamePairs
<1>4. KeepsExt(r, e)
  <2>1. e # r
    BY <1>2, InformersAssumption
  <2> QED
    BY <1>2, <2>1, Apart
<1>5. CASE e # Head(todo[w])
  <2>1. cache'[e].mark = cache[e].mark
    BY <1>1, <1>5, StepLabels DEF LabelStays, Relabels
  <2>2. KeepsDue(r, e)
    BY <1>5, LooksHand
  <2> QED
    BY <1>2, <1>3, <1>4, <2>1, <2>2, PairStays DEF KeepsPair
<1>6. CASE e = Head(todo[w])
  <2>1. InHand(r, e)'
    BY <1>3, <1>6, LooksHand
  <2>2. HeldOK(r, e)'
    BY <1>2, <1>3, <1>4, <2>1, HeldOKStays DEF PairOK, KeepsHeld
  <2>3. ASSUME cache[r].live PROVE cache'[e].mark = RuleType[r]
    <3>1. ~req[w].isDelete
      BY <1>2, <2>3 DEF RuleReq
    <3>2. CASE ExtLabelled(w)
      BY <1>2, <1>6, <3>2 DEF ExtLabelled
    <3>3. CASE ExtLabel(w)
      <4>1. cache' = Mutated(e, w)
        BY <1>6, <3>1, <3>3 DEF ExtLabel, LabelCall, NewLabel
      <4> QED
        BY <1>2, <4>1, KindsOfObjects, MutatedMark DEF Typed
    <3> QED
      BY <3>2, <3>3
  <2>4. cache'[r].live <=> cache[r].live
    BY <1>2, KindsOfObjects DEF Alike
  <2> QED
    BY <2>1, <2>2, <2>3, <2>4 DEF PairOK, LabelledOK, ContentOK, Serves
<1> QED
  BY <1>5, <1>6

LEMMA OwnPairPosted ==
    ASSUME Settling, Typed, StoreTypeOK, RefsResolve, SeenOK, ReqOK, NEW w \in Types,
           RuleStep(w), pc[w] = "post", Posted(w), Post(w) \/ PostFails(w),
           NEW r, r = req[w].rule, NEW e \in Exts, e \in Range(req[w].exts)
    PROVE  PairOK(r, e)'
<1>1. /\ r \in Rules /\ RuleType[r] = w /\ RuleReq(w) /\ AllSeen /\ Up
  BY StepBasics
<1>2. UNCHANGED <<api, cache, fresh, synced>>
  BY DEF Post, PostFails
<1> PICK q : q = req[w]
  OBVIOUS
<1>3. InRange(r) /\ e \in Range(api[r].spec.exts)
  BY <1>1 DEF RuleReq
<1>4. ~q.isDelete => /\ cache[r].live /\ q.action = cache[r].spec.action
                     /\ cache[e].live /\ q.spec[e] = cache[e].spec
                     /\ Own(e) => cache[e].mark = RuleType[r]
  BY <1>1 DEF RuleReq, NewLabel
<1>5. q.isDelete => ~cache[r].live \/ ~cache[e].live
  BY <1>1 DEF RuleReq
<1> QED
  BY <1>1, <1>2, <1>3, <1>4, <1>5, PostedPair

\* What a handler that failed has to be handled again.
LEMMA OwnPairRequeued ==
    ASSUME Settling, Typed, StoreTypeOK, RefsResolve, SeenOK, ReqOK, NEW w \in Types,
           RuleStep(w), Requeue(w), NEW r, r = req[w].rule, NEW e \in Exts, PairOK(r, e)
    PROVE  PairOK(r, e)'
<1>1. /\ r \in Rules /\ item[w].key = r /\ w \in Workers /\ w # "ext" /\ AllSeen /\ Alike
      /\ \A v \in Workers \ {w} : Waits(v)
      /\ queue \subseteq queue'
  BY StepBasics DEF Types
<1>2. CASE KeepsHeld(r, e)
  <2>1. Pending(r)'
    BY <1>1 DEF Pending, Requeue
  <2>2. KeepsExt(r, e)
    <3>1. e # r
      BY <1>1, InformersAssumption
    <3> QED
      BY <1>1, <3>1, Apart
  <2> QED
    BY <1>1, <1>2, <2>1, <2>2, RequeuedPair
<1>3. CASE ~KeepsHeld(r, e)
  BY <1>1, <1>3, StepHeld, OwnPairPosted
<1> QED
  BY <1>2, <1>3

LEMMA OwnPair ==
    ASSUME Settling, Typed, StoreTypeOK, RefsResolve, SeenOK, ReqOK, NEW w \in Types,
           RuleStep(w), NEW r, r = req[w].rule, NEW e \in Exts, PairOK(r, e)
    PROVE  PairOK(r, e)'
<1>1. /\ r \in Rules /\ RuleType[r] = w /\ Busy(r) /\ item[w].key = r /\ RuleReq(w)
      /\ RuleOK(pc[w], req[w], todo[w]) /\ w \in Workers /\ w # "ext" /\ AllSeen /\ Alike
      /\ \A v \in Workers \ {w} : Waits(v)
      /\ queue \subseteq queue'
  BY StepBasics DEF Types
<1>2. CASE ExtMissing(w) \/ NothingToDo(w) \/ Announce(w) \/ Succeed(w)
  BY <1>1, <1>2, OwnPairKept, PairStays
<1>3. CASE ExtLabelled(w) \/ ExtLabel(w)
  BY <1>3, OwnPairLooked
<1>4. CASE \/ ExtLabelFails(w) \/ PostFails(w)
           \/ PhaseFails(w, "status", "syncing") \/ PhaseFails(w, "done", "success")
  <2>1. Requeue(w)
    BY <1>4 DEF ExtLabelFails, PostFails, PhaseFails
  <2> QED
    BY <2>1, OwnPairRequeued
<1>5. CASE Post(w)
  <2>1. pc[w] = "post" /\ Posted(w) /\ UNCHANGED <<api, cache, fresh, synced>>
    BY <1>5 DEF Post
  <2>2. CASE e \in Range(req[w].exts)
    BY <1>5, <2>1, <2>2, OwnPairPosted
  <2>3. CASE e \notin Range(req[w].exts)
    <3>1. KeepsHeld(r, e)
      BY <1>1, <2>3, StepHeld
    <3>2. KeepsExt(r, e)
      <4>1. e # r
        BY <1>1, InformersAssumption
      <4> QED
        BY <1>1, <4>1, Apart
    <3>3. KeepsDue(r, e)
      <4>1. Pending(r) => Pending(r)'
        BY <1>1 DEF Pending
      <4>2. ~Doing(r, e) /\ ~Posting(r, e)
        BY <1>1, <2>1, <2>3 DEF RuleOK, Doing, Posting, Range
      <4> QED
        BY <4>1, <4>2 DEF KeepsDue, InHand, Due
    <3> QED
      BY <1>1, <2>1, <3>1, <3>2, <3>3, PairStays DEF KeepsPair
  <2> QED
    BY <2>2, <2>3
<1> QED
  BY <1>2, <1>3, <1>4, <1>5 DEF RuleStep

\* What is still to be done for a rule that is gone stays to be done, but for the external
\* service that is labelled.
LEMMA StepDue ==
    ASSUME Typed, StoreTypeOK, RefsResolve, SeenOK, ReqOK, NEW w \in Types, RuleStep(w),
           NEW e \in Exts, ~ExtLabel(w) \/ e # Head(todo[w]),
           NEW r \in Rules, cache[e].live, ~cache[r].live, Due(r, e)
    PROVE  Due(r, e)'
<1>1. /\ RuleReq(w) /\ RuleOK(pc[w], req[w], todo[w]) /\ item[w].key = req[w].rule
      /\ queue \subseteq queue'
  BY StepBasics
<1>2. CASE Pending(r)
  BY <1>1, <1>2 DEF Pending, Due
<1>3. CASE r # req[w].rule
  <2>1. \A v \in Workers \ {w} : Waits(v)
    BY StepBasics
  <2>2. RuleType[r] \in Workers /\ (RuleType[r] = w => ~Busy(r))
    BY <1>3, StepBasics, KindsOfObjects DEF Workers
  <2>3. Doing(r, e) => Doing(r, e)'
    BY <2>1, <2>2 DEF Waits, Doing, Busy
  <2> QED
    BY <1>2, <2>3 DEF Due
<1>4. CASE ~Pending(r) /\ r = req[w].rule
  <2>1. Doing(r, e)
    BY <1>4 DEF Due
  <2>2. RuleType[r] = w /\ e \in Range(todo[w])
    BY <1>4, <2>1, StepBasics DEF Doing
  <2>3. pc[w] \notin {"nothing", "status", "post", "done"}
    BY <1>1, <2>2 DEF RuleReq, RuleOK, Range
  <2>4. CASE ExtMissing(w) \/ ExtLabel(w)
    BY <1>4, <2>4, LooksHand DEF KeepsDue
  <2>5. CASE ExtLabelFails(w)
    BY <1>1, <1>4, <2>5 DEF ExtLabelFails, Requeue, Due, Pending
  <2>6. ~ExtLabelled(w)
    BY <1>1, <1>4 DEF ExtLabelled, RuleReq
  <2> QED
    BY <2>3, <2>4, <2>5, <2>6 DEF RuleStep, NothingToDo, Announce, PhaseFails, Post, PostFails, Succeed
<1> QED
  BY <1>2, <1>3, <1>4

LEMMA MarkStep ==
    ASSUME Settling, Typed, StoreTypeOK, RefsResolve, SeenOK, ReqOK, NEW w \in Types, RuleStep(w),
           NEW e \in Exts, MarkOK(e)
    PROVE  MarkOK(e)'
<1> SUFFICES ASSUME Own(e) PROVE MarkOK(e)'
  BY DEF MarkOK
<1> PICK r : r = req[w].rule
  OBVIOUS
<1>1. /\ r \in Rules /\ RuleType[r] = w /\ RuleReq(w) /\ item[w].key = r
      /\ ~Calm /\ Up /\ AllSeen /\ Alike
  BY StepBasics
<1>2. /\ r \in Cached /\ e \in Cached /\ e \in Objects /\ ~Disturbed(e) /\ InformersTypeOK
  BY <1>1, KindsOfObjects DEF Disturbed, Typed
<1>3. CASE LabelStays(e) /\ (~ExtLabel(w) \/ e # Head(todo[w]))
  <2>1. KeepsMark(e)
    BY <1>2, <1>3 DEF LabelStays, KeepsMark
  <2> QED
    BY <1>1, <1>3, <2>1, StepDue, MarkStays
<1>4. CASE Relabels(w, e)
  <2>1. /\ MayList(r, e) /\ \A x \in Rules : MayList(x, e) => x = r
    BY <1>4, OwnLabels
  <2>2. /\ cache[e].live /\ cache' = Mutated(e, NewLabel(w))
        /\ \/ WriteLabel(e, NewLabel(w))
           \/ e \notin fresh /\ UNCHANGED <<api, fresh>> /\ Requeue(w)
    BY <1>4 DEF Relabels, ExtLabel, ExtLabelFails, LabelCall, Settling, Patient
  <2>3. cache'[e].mark = NewLabel(w)
    BY <1>2, <2>2, MutatedMark
  <2>4. NewLabel(w) = IF cache[r].live THEN RuleType[r] ELSE "none"
    BY <1>1 DEF RuleReq, NewLabel
  <2>5. /\ cache'[r].live <=> cache[r].live
        /\ api'[r].live <=> api[r].live
        /\ api'[r].spec = api[r].spec
    BY <1>1, <1>2, KindsOfObjects DEF Alike
  <2>6. CASE WriteLabel(e, NewLabel(w))
    <3>1. api'[e].mark = NewLabel(w)
      BY <1>2, <2>6, WrittenMark DEF WriteLabel
    <3>2. ASSUME cache[r].live PROVE MarkedBy(r, e)'
      <4>1. InRange(r) /\ e \in Range(api[r].spec.exts)
        <5>1. pc[w] = "exts" /\ e = Head(todo[w]) /\ RuleOK(pc[w], req[w], todo[w])
          BY <1>4, StepBasics DEF Relabels, ExtLabel, ExtLabelFails, LabelCall
        <5>2. e \in Range(todo[w])
          BY <5>1, RangeOfLists DEF RuleOK
        <5> QED
          BY <1>1, <5>2 DEF RuleReq
      <4>2. api[r].live
        BY <1>1, <1>2, <3>2, KindsOfObjects DEF AllSeen, Same, Up
      <4> QED
        BY <2>4, <2>5, <3>1, <3>2, <4>1, <4>2 DEF MarkedBy, InRange
    <3>3. api'[e].mark # "none" => MarkedBy(r, e)'
      BY <2>4, <3>1, <3>2
    <3>4. \A x \in Rules : MayList(x, e) =>
            cache'[e].mark = IF cache'[x].live THEN RuleType[x] ELSE "none"
      BY <2>1, <2>3, <2>4, <2>5
    <3> QED
      BY <1>1, <2>3, <3>1, <3>3, <3>4 DEF MarkOK
  <2>7. CASE e \notin fresh /\ UNCHANGED <<api, fresh>> /\ Requeue(w)
    <3>1. cache[e].mark = NewLabel(w)
      BY <1>1, <1>2, <2>1, <2>2, <2>4, <2>7 DEF MarkOK
    <3>2. KeepsMark(e)
      BY <1>2, <2>3, <2>7, <3>1 DEF KeepsMark
    <3>3. \A x \in Rules : e \in Range(api[x].spec.exts) => Due(x, e)'
      <4>1. Pending(r)'
        BY <1>1, <2>7 DEF Requeue, Pending
      <4> QED
        BY <2>1, <4>1, MayListApi DEF Due
    <3> QED
      BY <1>1, <3>2, <3>3, MarkStays
  <2> QED
    BY <2>2, <2>6, <2>7
<1> QED
  BY <1>3, <1>4, OwnLabels DEF Relabels

\* The request grows by what was looked up.
LEMMA ReqLooked ==
    ASSUME Typed, SeenOK, ReqOK, NEW w \in Types, ExtMissing(w) \/ ExtLabelled(w) \/ ExtLabel(w)
    PROVE  RuleReq(w)'
<1> PICK q : q = req[w]
  OBVIOUS
<1> PICK t : t = todo[w]
  OBVIOUS
<1> PICK e : e = Head(t)
  OBVIOUS
<1> PICK r : r = q.rule
  OBVIOUS
<1>1. RuleStep(w)
  BY DEF RuleStep
<1>2. /\ r \in Rules /\ RuleType[r] = w /\ RuleReq(w) /\ RuleOK(pc[w], q, t) /\ w \in Workers
      /\ AllSeen /\ Alike /\ r \in Cached /\ r \in Objects
  BY <1>1, StepBasics, KindsOfObjects
<1>3. /\ e \in Exts /\ Range(t) = {e} \cup Range(Tail(t)) /\ e \in Cached
  BY <1>2, Looks, KindsOfObjects
<1>4. PICK q2 : Gathers(w, q, e, q2)
  BY <1>2, Looks
<1>5. /\ item' = item /\ req'[w] = q2 /\ todo'[w] = Tail(t)
      /\ pc'[w] = After(q2, Tail(t), announced[w])
  BY <1>4, ProceedContinues DEF Gathers, Continued
<1>6. /\ q2.rule = r /\ (q2.isDelete <=> q.isDelete) /\ q2.action = q.action
      /\ NewLabel(w)' = NewLabel(w)
      /\ \/ q2 = q /\ ExtMissing(w)
         \/ /\ ExtLabelled(w) \/ ExtLabel(w)
            /\ cache[e].live /\ q2.spec[e] = cache[e].spec
            /\ Range(q2.exts) = Range(q.exts) \cup {e}
            /\ \A x \in Range(q.exts) : x # e => q2.spec[x] = q.spec[x]
  BY <1>4, <1>5 DEF Gathers, NewLabel
<1>7. /\ api'[r].spec = api[r].spec
      /\ cache'[r].live <=> cache[r].live
      /\ cache[r].live => cache'[r].spec = cache[r].spec
  BY <1>2 DEF Alike
<1>8. Range(q2.exts) \cup Range(Tail(t)) \subseteq Range(api[r].spec.exts)
  BY <1>2, <1>3, <1>6 DEF RuleReq
<1>9. \A x \in Exts : x # e \/ ~ExtLabel(w) => cache'[x].mark = cache[x].mark
  <2>1. CASE ExtMissing(w) \/ ExtLabelled(w)
    BY <2>1 DEF ExtMissing, ExtLabelled
  <2>2. CASE ExtLabel(w)
    BY <1>1, <2>2, StepLabels DEF LabelStays, Relabels
  <2> QED
    BY <2>1, <2>2
<1>10. \A x \in Range(q2.exts) : /\ cache'[x].live /\ q2.spec[x] = cache'[x].spec
                                 /\ Own(x) => cache'[x].mark = NewLabel(w)
  <2> SUFFICES ASSUME NEW x \in Range(q2.exts)
               PROVE  /\ cache'[x].live /\ q2.spec[x] = cache'[x].spec
                      /\ Own(x) => cache'[x].mark = NewLabel(w)
    OBVIOUS
  <2>1. x \in Exts /\ x \in Cached
    BY <1>2, <1>8, ListsTyped, KindsOfObjects DEF Typed
  <2>2. cache[x].live /\ q2.spec[x] = cache[x].spec
    BY <1>2, <1>6 DEF RuleReq
  <2>3. CASE x = e /\ ExtLabel(w)
    <3>1. cache' = Mutated(e, NewLabel(w))
      BY <2>3 DEF ExtLabel, LabelCall
    <3> QED
      BY <1>2, <2>1, <2>2, <2>3, <3>1, MutatedMark DEF Alike, Typed
  <2>4. CASE x # e \/ ~ExtLabel(w)
    <3>1. cache'[x].mark = cache[x].mark
      BY <1>9, <2>1, <2>4
    <3>2. Own(x) => cache[x].mark = NewLabel(w)
      <4>1. CASE x \in Range(q.exts)
        BY <1>2, <4>1 DEF RuleReq
      <4>2. CASE x = e /\ ExtLabelled(w)
        BY <4>2 DEF ExtLabelled, NewLabel
      <4> QED
        BY <1>6, <2>4, <4>1, <4>2
    <3> QED
      BY <1>2, <2>1, <2>2, <3>1, <3>2 DEF Alike
  <2> QED
    BY <2>3, <2>4
<1>11. /\ pc'[w] \in {"status", "done"} => ~q2.isDelete
       /\ pc'[w] = "nothing" => q2.exts = <<>> /\ Tail(t) = <<>>
  BY <1>5 DEF After
<1> QED
  BY <1>2, <1>5, <1>6, <1>7, <1>8, <1>10, <1>11 DEF RuleReq, InRange

LEMMA ReqGoesOn ==
    ASSUME Typed, SeenOK, ReqOK, NEW w \in Types, RuleStep(w), pc'[w] # "idle"
    PROVE  RuleReq(w)'
<1> PICK r : r = req[w].rule
  OBVIOUS
<1>1. /\ pc[w] # "idle" /\ RuleReq(w) /\ RuleOK(pc[w], req[w], todo[w]) /\ w \in Workers
      /\ AllSeen /\ Alike /\ r \in Rules /\ r \in Cached /\ r \in Objects
  BY StepBasics, KindsOfObjects
<1>2. /\ api'[r].spec = api[r].spec
      /\ cache'[r].live <=> cache[r].live
      /\ cache[r].live => cache'[r].spec = cache[r].spec
  BY <1>1 DEF Alike
<1>3. CASE ExtMissing(w) \/ ExtLabelled(w) \/ ExtLabel(w)
  BY <1>3, ReqLooked
<1>4. CASE Announce(w) \/ (Post(w) /\ ~Forget(w))
  <2>1. /\ item' = item /\ req' = req /\ todo' = todo
        /\ \/ pc[w] = "status" /\ pc' = [pc EXCEPT ![w] = "post"]
           \/ ~req[w].isDelete /\ pc' = [pc EXCEPT ![w] = "done"]
    BY <1>4 DEF Announce, Post
  <2>2. /\ pc'[w] \in {"post", "done"}
        /\ pc'[w] = "done" => ~req[w].isDelete
    BY <1>1, <2>1 DEF Typed, WorkInv
  <2>3. \A x \in Range(req[w].exts) :
            x \in Exts /\ x \in Cached /\ cache'[x].mark = cache[x].mark
    <3>1. \A x \in Exts : ~Relabels(w, x)
      BY <1>1, <1>4 DEF Relabels, ExtLabel, ExtLabelFails, LabelCall, Announce, Post
    <3> QED
      BY <1>1, <3>1, StepLabels, ListsTyped, KindsOfObjects DEF RuleReq, LabelStays, Typed
  <2>4. \A x \in Range(req[w].exts) : /\ cache'[x].live /\ req[w].spec[x] = cache'[x].spec
                                      /\ Own(x) => cache'[x].mark = NewLabel(w)
    BY <1>1, <2>3 DEF RuleReq, Alike
  <2> QED
    BY <1>1, <1>2, <2>1, <2>2, <2>4 DEF RuleReq, InRange, NewLabel
<1>5. ~Ended(w)
  BY <1>1 DEF Ended, Requeue, Forget, Idle, Typed, WorkInv
<1> QED
  BY <1>3, <1>4, <1>5 DEF RuleStep, Ended, ExtLabelFails, NothingToDo, PhaseFails, PostFails, Succeed

\* The requests of the other workers are what there is as before.
LEMMA StepReqs ==
    ASSUME Typed, SeenOK, ReqOK, NEW w \in Types, RuleStep(w)
    PROVE  ReqOK'
<1>1. /\ pc[w] # "idle" /\ RuleReq(w) /\ w \in Workers /\ AllSeen /\ Alike
      /\ req[w].rule \in Rules /\ RuleType[req[w].rule] = w /\ item[w].key = req[w].rule
      /\ \A v \in Workers \ {w} : Waits(v)
      /\ queue' \subseteq queue \cup {item[w]}
  BY StepBasics
<1>2. ASSUME NEW v \in Types, pc'[v] # "idle" PROVE RuleReq(v)'
  <2>1. CASE v = w
    BY <1>2, <2>1, ReqGoesOn
  <2>2. CASE v # w
    <3>1. Waits(v) /\ pc[v] # "idle"
      BY <1>1, <1>2, <2>2 DEF Waits, Workers
    <3>2. RuleReq(v) /\ RuleType[req[v].rule] = v /\ req[v].rule \in Rules
      BY <3>1, OwnItem DEF ReqOK, RuleReq
    <3>3. \A e \in Exts : (Own(e) /\ MayList(req[v].rule, e)) => cache'[e].mark = cache[e].mark
      BY <1>1, <2>2, <3>2, OwnLabels DEF LabelStays
    <3> QED
      BY <1>1, <3>1, <3>2, <3>3, RuleReqStays
  <2> QED
    BY <2>1, <2>2
<1>3. ASSUME pc'["ext"] # "idle" PROVE ExtReq'
  <2>1. Waits("ext") /\ pc["ext"] # "idle" /\ ExtReq
    BY <1>1, <1>3 DEF Waits, Workers, Types, ReqOK
  <2> PICK r : r = req["ext"].rule
    OBVIOUS
  <2> PICK e : e = item["ext"].key
    OBVIOUS
  <2>2. r \in Rules /\ e \in Exts
    <3>1. "ext" \in Workers /\ "ext" \notin Types
      BY DEF Workers, Types
    <3> QED
      BY <2>1, <3>1, BusyWorker, KindsOfObjects DEF Typed, EntryOf, IsEntry, Postable, Built
  <2>3. MayList(r, e) /\ cache[r].live
    BY <2>1, <2>2 DEF ExtReq, MayList, SeenOK
  <2>4. ASSUME Own(e), cache[e].mark = RuleType[r] PROVE cache'[e].mark = RuleType[r]
    <3>1. CASE LabelStays(e)
      BY <2>4, <3>1 DEF LabelStays
    <3>2. CASE ~LabelStays(e)
      <4>1. Relabels(w, e) /\ r = req[w].rule
        BY <2>2, <2>3, <2>4, <3>2, OwnLabels
      <4>2. cache' = Mutated(e, NewLabel(w))
        BY <4>1 DEF Relabels, ExtLabel, ExtLabelFails, LabelCall
      <4>3. NewLabel(w) = RuleType[r]
        BY <1>1, <2>3, <4>1 DEF RuleReq, NewLabel
      <4> QED
        BY <2>2, <4>2, <4>3, KindsOfObjects, MutatedMark DEF Typed
    <3> QED
      BY <3>1, <3>2
  <2> QED
    BY <1>1, <2>1, <2>4, ExtReqStays
<1>4. ASSUME NEW i \in queue', i.key \in Rules, ~cache'[i.key].live
      PROVE  i.spec = api'[i.key].spec
  BY <1>1, <1>4, KindsOfObjects DEF ReqOK, RuleReq, Alike
<1> QED
  BY <1>2, <1>3, <1>4 DEF ReqOK

LEMMA RuleStepSettles ==
    ASSUME Settling, Typed, Typed', StoreTypeOK, RefsResolve, SettledInv,
           NEW w \in Types, RuleStep(w)
    PROVE  SettledInv'
<1> USE DEF SettledInv
<1>1. AllSeen /\ Alike /\ Up
  BY StepBasics
<1>2. SeenOK'
  BY <1>1, SeenStays DEF Typed
<1>3. ReqOK'
  BY StepReqs
<1>4. \A e \in Exts : MarkOK(e)'
  BY MarkStep
<1>5. ASSUME NEW r \in Rules, NEW e \in Exts PROVE PairOK(r, e)'
  <2>1. CASE r = req[w].rule
    BY <2>1, OwnPair
  <2>2. CASE r # req[w].rule
    BY <1>1, <2>2, OtherPairs, PairStays
  <2> QED
    BY <2>1, <2>2
<1> QED
  BY <1>2, <1>3, <1>4, <1>5

-----------------------------------------------------------------------------
(* The steps of workers that change no object. *)

\* The worker w makes its step; what it has in hand after it is what there is.
LEMMA UnmarkedStep ==
    ASSUME Settling, Typed, Typed', SettledInv, UNCHANGED <<api, cache, fresh, synced>>,
           ~Calm, Up, NEW w \in Workers, \A v \in Workers \ {w} : Waits(v),
           (w \in Types /\ pc'[w] # "idle") => RuleReq(w)',
           (w = "ext" /\ pc'[w] # "idle") => ExtReq',
           \A i \in queue' : i.key \in Rules => i \in queue,
           \A r \in Rules, e \in Exts : KeepsPair(r, e) \/ PairOK(r, e)',
           \A r \in Rules, e \in Exts :
                (InRange(r) /\ e \in Range(api[r].spec.exts)) => KeepsPair(r, e) \/ KeepsDue(r, e)
    PROVE  SettledInv'
<1> USE DEF SettledInv
<1>1. AllSeen /\ Alike /\ \A e \in Exts : KeepsMark(e)
  BY BusySees, SameObjects
<1>2. SeenOK'
  BY <1>1, SeenStays DEF Typed
<1>3. ReqOK'
  <2>1. ASSUME NEW v \in Types, pc'[v] # "idle" PROVE RuleReq(v)'
    <3>1. CASE v # w
      <4>1. Waits(v) /\ pc[v] # "idle"
        BY <2>1, <3>1 DEF Waits, Workers
      <4> QED
        BY <1>1, <4>1, RuleReqStays DEF ReqOK
    <3> QED
      BY <2>1, <3>1
  <2>2. ASSUME pc'["ext"] # "idle" PROVE ExtReq'
    <3>1. CASE w # "ext"
      <4>1. Waits("ext") /\ pc["ext"] # "idle"
        BY <2>2, <3>1 DEF Waits, Workers
      <4> QED
        BY <1>1, <4>1, ExtReqStays DEF ReqOK
    <3> QED
      BY <2>2, <3>1
  <2>3. \A i \in queue' : (i.key \in Rules /\ ~cache'[i.key].live) => i.spec = api'[i.key].spec
    BY DEF ReqOK
  <2> QED
    BY <2>1, <2>2, <2>3 DEF ReqOK
<1>4. \A e \in Exts : MarkOK(e)'
  <2> SUFFICES ASSUME NEW e \in Exts PROVE MarkOK(e)'
    OBVIOUS
  <2>1. \A r \in Rules : (/\ InRange(r) /\ e \in Range(api[r].spec.exts)
                          /\ cache[e].live /\ ~cache[r].live /\ Due(r, e)) => Due(r, e)'
    BY DEF KeepsPair, KeepsDue
  <2> QED
    BY <1>1, <2>1, MarkStays
<1>5. \A r \in Rules, e \in Exts : PairOK(r, e)'
  BY <1>1, PairStays
<1> QED
  BY <1>2, <1>3, <1>4, <1>5

LEMMA RuleStartSettles ==
    ASSUME Settling, Typed, Typed', SettledInv, NEW w \in Types, NEW i \in queue, RuleStart(w, i)
    PROVE  SettledInv'
<1> USE DEF SettledInv
<1> PICK r : r = i.key
  OBVIOUS
<1> PICK spec : spec = SpecRead(i)
  OBVIOUS
<1>1. /\ r \in Rules /\ RuleType[r] = w /\ w \in Workers /\ pc[w] = "idle" /\ Up /\ InRange(r)
      /\ UNCHANGED <<api, cache, fresh, synced, store>>
      /\ queue' = queue \ {i} /\ item'[w] = i /\ todo'[w] = spec.exts
      /\ pc'[w] \in {"exts", "nothing"} /\ (pc'[w] = "nothing" => spec.exts = <<>>)
      /\ OthersWait(w)
  BY RuleStarted
<1>2. /\ req'[w].rule = r /\ req'[w].exts = <<>> /\ req'[w].action = spec.action
      /\ req'[w].isDelete <=> ~cache[r].live
  BY RuleStarted
<1>3. ~Calm /\ w # "ext" /\ r \notin Exts /\ r \in Cached
  <2>1. r \notin Exts
    BY <1>1, InformersAssumption
  <2> QED
    BY <1>1, <2>1, TakesCalm, KindsOfObjects DEF RuleStart, Types
<1>4. \A v \in Workers \ {w} : Waits(v)
  BY <1>1 DEF OthersWait, Waits
<1>5. /\ spec.exts = api[r].spec.exts
      /\ cache[r].live => spec = cache[r].spec
      /\ ~cache[r].live => i.spec = api[r].spec
  <2>1. CASE cache[r].live
    <3>1. spec = cache[r].spec
      BY <2>1 DEF SpecRead
    <3> QED
      BY <1>1, <1>3, <2>1, <3>1, BusySees, KindsOfObjects DEF AllSeen, Same, Up
  <2>2. CASE ~cache[r].live
    <3>1. spec = i.spec
      BY <2>2 DEF SpecRead
    <3> QED
      BY <1>1, <2>2, <3>1 DEF ReqOK
  <2> QED
    BY <2>1, <2>2
<1>6. RuleReq(w)'
  <2>1. Range(req'[w].exts) = {}
    BY <1>2 DEF Range
  <2> QED
    BY <1>1, <1>2, <1>5, <2>1 DEF RuleReq, InRange
<1>7. ASSUME NEW x \in Rules, NEW e \in Exts PROVE KeepsPair(x, e)
  <2>1. KeepsHeld(x, e) /\ cache'[e].mark = cache[e].mark
    BY <1>1, SamePairs
  <2>2. \A j \in queue : j.key = r \/ j \in queue'
    BY <1>1
  <2>3. KeepsExt(x, e)
    BY <1>1, <1>3, <1>4, <2>2, Apart
  <2>4. e \in Range(api[x].spec.exts) => KeepsDue(x, e)
    <3>1. CASE x # r
      <4>1. RuleType[x] = w => ~Busy(x)
        BY <1>1 DEF Busy
      <4> QED
        BY <1>1, <1>4, <2>2, <3>1, <4>1, Apart
    <3>2. CASE x = r
      BY <1>1, <1>5, <3>2 DEF KeepsDue, InHand, Due, Doing, Busy
    <3> QED
      BY <3>1, <3>2
  <2> QED
    BY <2>1, <2>3, <2>4 DEF KeepsPair
<1>8. \A j \in queue' : j.key \in Rules => j \in queue
  BY <1>1
<1>9. \A x \in Rules, e \in Exts :
        (InRange(x) /\ e \in Range(api[x].spec.exts)) => KeepsPair(x, e) \/ KeepsDue(x, e)
  BY <1>7
<1> QED
  BY <1>1, <1>3, <1>4, <1>6, <1>7, <1>8, <1>9, UnmarkedStep

\* A rule outside the watch range is not declared.
LEMMA RuleIgnoredSettles ==
    ASSUME Settling, Typed, Typed', SettledInv, NEW w \in Types, NEW i \in queue, RuleIgnored(w, i)
    PROVE  SettledInv'
<1> PICK r : r = i.key
  OBVIOUS
<1>1. /\ r \in Rules /\ ~InRange(r) /\ w \in Workers /\ w # "ext" /\ r \notin Exts
      /\ UNCHANGED <<api, cache, fresh, synced, store, workers>>
      /\ queue' = queue \ {i} /\ pc[w] = "idle" /\ ~Calm /\ Up
  <2>1. r \in Rules /\ r \notin Exts
    BY InformersAssumption DEF RuleIgnored
  <2> QED
    BY <2>1, TakesCalm DEF RuleIgnored, Takes, Workers, Types
<1>2. \A v \in Workers : Waits(v)
  BY <1>1 DEF workers, Waits
<1>3. \A x \in Rules, e \in Exts : KeepsHeld(x, e) /\ cache'[e].mark = cache[e].mark
  BY <1>1, SamePairs
<1>4. \A j \in queue : j.key = r \/ j \in queue'
  BY <1>1
<1>5. ASSUME NEW x \in Rules, NEW e \in Exts, x # r PROVE KeepsPair(x, e)
  <2>1. KeepsExt(x, e)
    BY <1>1, <1>2, <1>4, Apart
  <2>2. RuleType[x] = w => ~Busy(x)
    BY <1>1 DEF Busy
  <2>3. KeepsDue(x, e)
    BY <1>1, <1>2, <1>4, <1>5, <2>2, Apart
  <2> QED
    BY <1>3, <2>1, <2>3 DEF KeepsPair
<1>6. ASSUME NEW e \in Exts PROVE PairOK(r, e)'
  <2>1. ~InRange(r)'
    BY <1>1 DEF InRange
  <2>2. ~Holds(r, e)
    BY <1>1 DEF SettledInv, PairOK, HeldOK
  <2>3. ~Holds(r, e)'
    BY <1>1, <1>3, <2>2 DEF KeepsHeld
  <2> QED
    BY <2>1, <2>3 DEF PairOK, HeldOK, LabelledOK, ContentOK, Serves
<1>7. \A j \in queue' : j.key \in Rules => j \in queue
  BY <1>1
<1>8. \A x \in Rules, e \in Exts : KeepsPair(x, e) \/ PairOK(x, e)'
  BY <1>5, <1>6
<1>9. \A x \in Rules, e \in Exts :
        (InRange(x) /\ e \in Range(api[x].spec.exts)) => KeepsPair(x, e) \/ KeepsDue(x, e)
  BY <1>1, <1>5
<1>10. (w \in Types /\ pc'[w] # "idle") => RuleReq(w)'
  BY <1>1 DEF workers
<1> QED
  BY <1>1, <1>2, <1>7, <1>8, <1>9, <1>10, UnmarkedStep

-----------------------------------------------------------------------------
(* The worker of external services. *)

\* What its handler begins with.
LEMMA ExtStarted ==
    ASSUME Typed, NEW i \in queue, ExtStart(i), NEW e, e = i.key
    PROVE  /\ "ext" \in Workers /\ pc["ext"] = "idle" /\ Up /\ e \in Exts
           /\ ExtOf(i).spec \notin Refused
           /\ UNCHANGED <<api, cache, fresh, synced, store>>
           /\ queue' = queue \ {i} /\ item'["ext"] = i /\ pc'["ext"] = "post"
           /\ \A v \in Workers \ {"ext"} : Waits(v)
           /\ \E r \in RulesListing(e, ExtOf(i).label) :
                LET q == req'["ext"]
                IN  /\ q.rule = r /\ q.exts = <<e>> /\ q.action = cache[r].spec.action
                    /\ q.isDelete <=> ~cache[e].live
                    /\ q.spec[e] = ExtOf(i).spec
<1>1. "ext" \in Workers
  BY DEF Workers
<1>2. /\ Takes("ext", i) /\ ExtOf(i).spec \notin Refused
      /\ UNCHANGED <<api, cache, fresh, synced, store>>
      /\ queue' = queue \ {i} /\ item' = [item EXCEPT !["ext"] = i]
      /\ pc' = [pc EXCEPT !["ext"] = "post"] /\ todo' = todo
  BY DEF ExtStart
<1>3. e \in Exts /\ e \in Cached
  BY <1>2, QueueTyped, KindsOfObjects DEF Takes, Typed, IsEntry
<1> PICK r \in RulesListing(e, ExtOf(i).label), c \in Confs :
        SourceKnown(r, cache[r].spec) /\ req' = [req EXCEPT !["ext"] =
                    [Asked(r, cache[r].spec, ~cache[e].live, c) EXCEPT
                        !.exts = <<e>>, !.spec = [x \in {e} |-> ExtOf(i).spec]]]
  BY DEF ExtStart
<1>4. /\ item'["ext"] = i /\ pc'["ext"] = "post"
      /\ \A v \in Workers \ {"ext"} : Waits(v)
  BY <1>1, <1>2 DEF Typed, WorkInv, Waits
<1>5. LET q == req'["ext"]
      IN  /\ q.rule = r /\ q.exts = <<e>> /\ q.action = cache[r].spec.action
          /\ q.isDelete <=> ~cache[e].live
          /\ q.spec[e] = ExtOf(i).spec
  <2> PICK d \in BOOLEAN : d <=> ~cache[e].live
    OBVIOUS
  <2> PICK spec, f, one, p : /\ f = [x \in {e} |-> ExtOf(i).spec] /\ one = <<e>>
                             /\ spec = cache[r].spec /\ p = req'["ext"]
    OBVIOUS
  <2> PICK q : q = Asked(r, spec, d, c)
    OBVIOUS
  <2>1. spec \in RuleSpec /\ SourceKnown(r, spec) /\ r \in Rules /\ d = ~cache[e].live
    <3>1. cache[e].live \in BOOLEAN
      BY <1>3 DEF Typed, InformersTypeOK, Forms
    <3> QED
      BY <3>1, CachedRule DEF Typed, RulesListing
  <2>2. Built(q)
    BY <2>1, AskedBuilt DEF Typed
  <2>3. q.rule = r /\ q.action = spec.action /\ q.isDelete = d
    BY DEF Asked
  <2>4. p = [q EXCEPT !.exts = one, !.spec = f]
    BY <1>1, <2>1 DEF Typed, WorkInv
  <2>5. p.rule = q.rule /\ p.exts = one /\ p.spec = f /\ p.action = q.action /\ p.isDelete = q.isDelete
    BY <2>2, <2>4 DEF Built
  <2>6. f[e] = ExtOf(i).spec
    OBVIOUS
  <2> QED
    BY <2>3, <2>5, <2>6
<1> QED
  BY <1>1, <1>2, <1>3, <1>4, <1>5 DEF Takes

LEMMA ExtStartSettles ==
    ASSUME Settling, Typed, Typed', SettledInv, NEW i \in queue, ExtStart(i)
    PROVE  SettledInv'
<1> USE DEF SettledInv
<1> PICK e : e = i.key
  OBVIOUS
<1> PICK q : q = req'["ext"]
  OBVIOUS
<1>1. /\ "ext" \in Workers /\ pc["ext"] = "idle" /\ Up /\ e \in Exts
      /\ ExtOf(i).spec \notin Refused
      /\ UNCHANGED <<api, cache, fresh, synced, store>>
      /\ queue' = queue \ {i} /\ item'["ext"] = i /\ pc'["ext"] = "post"
      /\ \A v \in Workers \ {"ext"} : Waits(v)
  BY ExtStarted
<1>2. PICK r \in RulesListing(e, ExtOf(i).label) :
        /\ q.rule = r /\ q.exts = <<e>> /\ q.action = cache[r].spec.action
        /\ q.isDelete <=> ~cache[e].live
        /\ q.spec[e] = ExtOf(i).spec
  BY ExtStarted
<1>3. ~Calm
  BY <1>1, TakesCalm DEF ExtStart
<1>4. /\ r \in Rules /\ cache[r].live /\ InRange(r) /\ RuleType[r] = ExtOf(i).label
      /\ e \in Range(cache[r].spec.exts) /\ MayList(r, e)
  <2>1. /\ r \in Rules /\ cache[r].live /\ InRange(r) /\ RuleType[r] = ExtOf(i).label
        /\ e \in Range(cache[r].spec.exts)
    BY DEF RulesListing
  <2> QED
    BY <2>1 DEF MayList, SeenOK
<1>5. /\ cache[e].live => ExtOf(i).spec = cache[e].spec /\ ExtOf(i).label = cache[e].mark
      /\ ~cache[e].live => ExtOf(i).spec = i.spec /\ ExtOf(i).label = i.label
  BY DEF ExtOf
<1>6. ExtReq'
  BY <1>1, <1>2, <1>4, <1>5 DEF ExtReq, InRange
<1>7. ASSUME NEW x \in Rules, NEW y \in Exts PROVE KeepsPair(x, y)
  <2>1. KeepsHeld(x, y) /\ cache'[y].mark = cache[y].mark
    BY <1>1, SamePairs
  <2>2. KeepsDue(x, y)
    <3>1. \A j \in queue : j.key = e \/ j \in queue'
      BY <1>1
    <3>2. x # e /\ RuleType[x] # "ext"
      BY <1>1, InformersAssumption, KindsOfObjects DEF Types
    <3> QED
      BY <1>1, <3>1, <3>2, Apart
  <2>3. ASSUME y \in Range(api[x].spec.exts), Own(y) PROVE KeepsExt(x, y)
    <3>1. ~ExtDoing(x, y)
      BY <1>1 DEF ExtDoing
    <3>2. CASE y # e
      BY <1>1, <3>1, <3>2 DEF KeepsExt, Removal, ExtDue, ExtPending
    <3>3. CASE y = e
      <4>1. x = r
        BY <1>4, <2>3, <3>3, MayListApi DEF Own
      <4>2. ExtDoing(x, y)'
        BY <1>1, <1>2, <3>3, <4>1 DEF ExtDoing
      <4> QED
        BY <4>2 DEF KeepsExt, Removal, ExtDue
    <3> QED
      BY <3>2, <3>3
  <2> QED
    BY <2>1, <2>2, <2>3 DEF KeepsPair
<1>8. \A j \in queue' : j.key \in Rules => j \in queue
  BY <1>1
<1>9. \A x \in Rules, y \in Exts :
        (InRange(x) /\ y \in Range(api[x].spec.exts)) => KeepsPair(x, y) \/ KeepsDue(x, y)
  BY <1>7
<1>10. "ext" \notin Types
  BY DEF Types
<1> QED
  BY <1>1, <1>3, <1>6, <1>7, <1>8, <1>9, <1>10, UnmarkedStep

\* An external service that no rule lists by its label has nothing to be declared or
\* taken away.
LEMMA ExtIgnoredSettles ==
    ASSUME Settling, Typed, Typed', SettledInv, NEW i \in queue, ExtIgnored(i)
    PROVE  SettledInv'
<1> USE DEF SettledInv
<1> PICK e : e = i.key
  OBVIOUS
<1>1. /\ "ext" \in Workers /\ "ext" \notin Types /\ pc["ext"] = "idle" /\ Up /\ ~Calm
      /\ ExtOf(i).spec \notin Refused /\ RulesListing(e, ExtOf(i).label) = {}
      /\ UNCHANGED <<api, cache, fresh, synced, store, workers>>
      /\ queue' = queue \ {i}
  BY TakesCalm DEF ExtIgnored, Takes, Workers, Types
<1>2. e \in Exts
  BY QueueTyped, KindsOfObjects DEF ExtIgnored, Takes, Typed, IsEntry
<1>3. \A v \in Workers : Waits(v)
  BY <1>1 DEF workers, Waits
<1>4. AllSeen /\ Alike
  BY <1>1, BusySees, SameObjects
<1>5. ASSUME NEW x \in Rules, NEW y \in Exts
      PROVE  /\ KeepsHeld(x, y) /\ KeepsDue(x, y) /\ cache'[y].mark = cache[y].mark
             /\ y # e => KeepsExt(x, y)
  <2>1. KeepsHeld(x, y) /\ cache'[y].mark = cache[y].mark
    BY <1>1, SamePairs
  <2>2. KeepsDue(x, y)
    <3>1. \A j \in queue : j.key = e \/ j \in queue'
      BY <1>1
    <3>2. x # e /\ RuleType[x] # "ext"
      BY <1>2, InformersAssumption, KindsOfObjects DEF Types
    <3> QED
      BY <1>1, <1>3, <3>1, <3>2, Apart
  <2>3. y # e => KeepsExt(x, y)
    <3>1. ~ExtDoing(x, y)
      BY <1>1 DEF ExtDoing
    <3> QED
      BY <1>1, <3>1 DEF KeepsExt, Removal, ExtDue, ExtPending
  <2> QED
    BY <2>1, <2>2, <2>3
<1>6. ASSUME NEW x \in Rules PROVE PairOK(x, e)'
  <2>1. KeepsHeld(x, e) /\ KeepsDue(x, e)
    BY <1>2, <1>5
  <2>2. PairOK(x, e)
    BY <1>2
  <2>3. ASSUME Holds(x, e), ~cache[e].live PROVE Removal(x, e)'
    <3>1. Removal(x, e) /\ ~ExtDoing(x, e)
      BY <1>1, <2>2, <2>3 DEF PairOK, HeldOK, ExtDoing
    <3>2. PICK j \in queue : j.key = e /\ j.label = RuleType[x] /\ j.spec \notin Refused
      BY <3>1 DEF Removal
    <3>3. cache[x].live /\ InRange(x) /\ e \in Range(cache[x].spec.exts)
      <4>1. InRange(x) /\ e \in Range(api[x].spec.exts) /\ cache[x].live
        BY <1>1, <2>2, <2>3 DEF PairOK, HeldOK
      <4> QED
        BY <1>1, <1>4, <4>1, KindsOfObjects DEF AllSeen, Same, Up
    <3>4. ExtOf(i).label = i.label
      BY <2>3 DEF ExtOf
    <3>5. j # i
      BY <1>1, <3>2, <3>3, <3>4 DEF RulesListing
    <3> QED
      BY <1>1, <3>2, <3>5 DEF Removal
  <2>4. HeldOK(x, e)'
    <3> SUFFICES ASSUME Holds(x, e)' PROVE HeldOK(x, e)'
      BY DEF HeldOK
    <3>1. Holds(x, e) /\ x \in Cached /\ e \in Cached
      BY <1>2, <2>1, KindsOfObjects DEF KeepsHeld
    <3> QED
      BY <1>4, <2>1, <2>2, <2>3, <3>1, SameBoth DEF PairOK, HeldOK, InRange, KeepsDue
  <2>5. LabelledOK(x, e)'
    BY <1>1, <2>1, <2>2 DEF PairOK, LabelledOK, Serves, KeepsDue, KeepsHeld, InRange
  <2>6. ContentOK(x, e)'
    <3> SUFFICES ASSUME Own(e), Serves(x, e)' PROVE InHand(x, e)'
      BY DEF ContentOK
    <3>1. Serves(x, e)
      BY <1>1, <2>1 DEF Serves, KeepsHeld, InRange
    <3>2. Due(x, e)
      <4>1. cache[e].mark # RuleType[x]
        <5>1. ExtOf(i).label = cache[e].mark
          BY <3>1 DEF ExtOf, Serves
        <5> QED
          BY <1>1, <3>1, <5>1 DEF RulesListing, Serves
      <4> QED
        BY <2>2, <3>1, <4>1 DEF PairOK, LabelledOK
    <3> QED
      BY <2>1, <3>1, <3>2 DEF KeepsDue, InHand, Serves
  <2> QED
    BY <2>4, <2>5, <2>6 DEF PairOK
<1>7. \A j \in queue' : j.key \in Rules => j \in queue
  BY <1>1
<1>8. \A x \in Rules, y \in Exts : KeepsPair(x, y) \/ PairOK(x, y)'
  BY <1>5, <1>6 DEF KeepsPair
<1>9. pc'["ext"] = "idle"
  BY <1>1 DEF workers
<1> QED
  BY <1>1, <1>3, <1>5, <1>7, <1>8, <1>9, UnmarkedStep

LEMMA ExtPostSettles ==
    ASSUME Settling, Typed, Typed', StoreTypeOK, RefsResolve, SettledInv,
           Post("ext") \/ PostFails("ext")
    PROVE  SettledInv'
<1> USE DEF SettledInv
<1> PICK q : q = req["ext"]
  OBVIOUS
<1> PICK r : r = q.rule
  OBVIOUS
<1> PICK i : i = item["ext"]
  OBVIOUS
<1> PICK e : e = i.key
  OBVIOUS
<1>1. /\ "ext" \in Workers /\ "ext" \notin Types /\ pc["ext"] = "post"
      /\ UNCHANGED <<api, cache, fresh, synced>> /\ Idle("ext")
      /\ store' = store \/ Posted("ext")
      /\ queue' = queue \/ (queue' = queue \cup {i} /\ PostFails("ext"))
      /\ Post("ext") => Posted("ext")
  BY DEF Post, PostFails, Forget, Requeue, Workers, Types
<1>2. /\ pc'["ext"] = "idle" /\ \A v \in Workers \ {"ext"} : Waits(v)
  BY <1>1 DEF Idle, Typed, WorkInv, Waits
<1>3. ~Calm /\ Up /\ AllSeen /\ Alike
  BY <1>1, BusyCalm, BusySees, SameObjects DEF SeenOK
<1>4. r \in Rules /\ e \in Exts
  BY <1>1, BusyWorker, KindsOfObjects DEF Typed, EntryOf, IsEntry, Postable, Built
<1>5. /\ q.exts = <<e>> /\ InRange(r) /\ cache[r].live /\ e \in Range(cache[r].spec.exts)
      /\ q.isDelete <=> ~cache[e].live
      /\ q.action = cache[r].spec.action
      /\ cache[e].live => q.spec[e] = cache[e].spec /\ (Own(e) => cache[e].mark = RuleType[r])
      /\ ~cache[e].live => i.label = RuleType[r] /\ i.spec \notin Refused
  BY <1>1 DEF ReqOK, ExtReq
<1>6. Range(q.exts) = {e}
  BY <1>5 DEF Range
<1>7. ASSUME NEW x \in Rules, NEW y \in Exts
      PROVE  KeepsDue(x, y) /\ cache'[y].mark = cache[y].mark
  <2>1. \A j \in queue : j.key = e \/ j \in queue'
    BY <1>1
  <2>2. x # e /\ RuleType[x] # "ext"
    BY <1>4, InformersAssumption, KindsOfObjects DEF Types
  <2> QED
    BY <1>1, <1>2, <2>1, <2>2, Apart
<1>8. ASSUME NEW x \in Rules, NEW y \in Exts, x # r \/ y # e PROVE KeepsPair(x, y)
  <2>1. KeepsHeld(x, y)
    <3>1. CASE store' = store
      BY <3>1, SamePairs
    <3>2. CASE Posted("ext")
      BY <1>1, <1>6, <1>8, <3>2, PostedHolds, PostedLists DEF KeepsHeld
    <3> QED
      BY <1>1, <3>1, <3>2
  <2>2. KeepsExt(x, y)
    <3>1. ~ExtDoing(x, y)
      BY <1>8 DEF ExtDoing
    <3> QED
      BY <1>1, <3>1 DEF KeepsExt, Removal, ExtDue, ExtPending
  <2> QED
    BY <1>7, <2>1, <2>2 DEF KeepsPair
<1>9. KeepsPair(r, e) \/ PairOK(r, e)'
  <2>1. CASE Posted("ext")
    <3>1. e \in Range(api[r].spec.exts)
      BY <1>3, <1>4, <1>5, ListedByBoth
    <3> QED
      BY <1>1, <1>3, <1>4, <1>5, <1>6, <2>1, <3>1, PostedPair
  <2>2. CASE ~Posted("ext")
    <3>1. KeepsHeld(r, e)
      BY <1>1, <2>2, SamePairs
    <3>2. i \in queue'
      BY <1>1, <2>2 DEF PostFails, Requeue
    <3>3. KeepsExt(r, e)
      BY <1>5, <3>2 DEF KeepsExt, Removal, ExtDue, ExtPending
    <3> QED
      BY <1>4, <1>7, <3>1, <3>3 DEF KeepsPair
  <2> QED
    BY <2>1, <2>2
<1>10. \A j \in queue' : j.key \in Rules => j \in queue
  BY <1>1, <1>4, InformersAssumption
<1>11. \A x \in Rules, y \in Exts : KeepsPair(x, y) \/ PairOK(x, y)'
  BY <1>8, <1>9
<1> QED
  BY <1>1, <1>2, <1>3, <1>7, <1>10, <1>11, UnmarkedStep

LEMMA ExternalServiceSettles ==
    ASSUME Settling, Typed, Typed', StoreTypeOK, RefsResolve, SettledInv, ExternalServiceWorker
    PROVE  SettledInv'
BY ExtStartSettles, ExtIgnoredSettles, ExtPostSettles DEF ExternalServiceWorker

-----------------------------------------------------------------------------
(* The worker of endpoints. *)

LEMMA EndpointsSettles ==
    ASSUME Settling, Typed, Typed', StoreTypeOK, SettledInv, EndpointsWorker
    PROVE  SettledInv'
<1>1. "ep" \in Workers /\ "ep" \notin Types
  BY DEF Workers, Types
<1>2. ASSUME NEW i \in queue, EndpointsStart(i) \/ EndpointsIgnored(i)
      PROVE  /\ i.key \in Services /\ Up /\ ~Calm /\ queue' = queue \ {i}
             /\ UNCHANGED <<api, cache, fresh, synced, store>>
             /\ \A v \in Workers \ {"ep"} : Waits(v)
  <2>1. Takes("ep", i) /\ queue' = queue \ {i} /\ UNCHANGED <<api, cache, fresh, synced, store>>
    BY <1>2 DEF EndpointsStart, EndpointsIgnored
  <2>2. i.key \in Services /\ i.key \notin Exts
    BY <2>1, QueueTyped, KindsOfObjects, InformersAssumption DEF Takes, Typed, IsEntry
  <2>3. CASE EndpointsStart(i)
    <3>1. /\ item' = [item EXCEPT !["ep"] = i] /\ pc' = [pc EXCEPT !["ep"] = "patch"]
          /\ todo' = todo /\ \E q : req' = [req EXCEPT !["ep"] = q]
      BY <2>3 DEF EndpointsStart
    <3>2. \A v \in Workers \ {"ep"} : Waits(v)
      BY <3>1 DEF Typed, WorkInv, Waits
    <3> QED
      BY <2>1, <2>2, <3>2, TakesCalm
  <2>4. CASE EndpointsIgnored(i)
    <3>1. \A v \in Workers \ {"ep"} : Waits(v)
      BY <2>4 DEF EndpointsIgnored, workers, Waits
    <3> QED
      BY <2>1, <2>2, <3>1, TakesCalm
  <2> QED
    BY <1>2, <2>3, <2>4
<1>3. ASSUME EndpointsPatch \/ EndpointsPatchFails
      PROVE  /\ Up /\ ~Calm /\ queue' = queue
             /\ UNCHANGED <<api, cache, fresh, synced>>
             /\ \A v \in Workers \ {"ep"} : Waits(v)
             /\ \A r \in Rules, e \in Exts : KeepsHeld(r, e)
  <2>1. pc["ep"] = "patch" /\ Forget("ep") /\ UNCHANGED <<api, cache, fresh, synced>>
    BY <1>3 DEF EndpointsPatch, EndpointsPatchFails
  <2>2. Up /\ ~Calm
    BY <1>1, <2>1, BusyCalm DEF SettledInv, SeenOK
  <2>3. \A r \in Rules, e \in Exts : KeepsHeld(r, e)
    <3>1. CASE EndpointsPatch
      <4>1. PatchSource(req["ep"].rule, req["ep"].ep, Patched(req["ep"]))
        BY <3>1 DEF EndpointsPatch
      <4> QED
        BY <4>1, PatchHolds, PatchDst DEF KeepsHeld
    <3>2. CASE EndpointsPatchFails
      BY <3>2, SamePairs DEF EndpointsPatchFails
    <3> QED
      BY <1>3, <3>1, <3>2
  <2> QED
    BY <2>1, <2>2, <2>3, EndpointsEnds DEF OthersWait, Waits
<1>4. /\ UNCHANGED <<api, cache, fresh, synced>> /\ ~Calm /\ Up
      /\ \A v \in Workers \ {"ep"} : Waits(v)
      /\ queue' \subseteq queue
      /\ \A r \in Rules, e \in Exts : KeepsHeld(r, e)
  BY <1>2, <1>3, SamePairs DEF EndpointsWorker
<1>5. PICK k : k \notin Rules /\ k \notin Exts /\ \A j \in queue : j.key = k \/ j \in queue'
  <2>1. \A i \in queue : i.key \in Services => i.key \notin Rules /\ i.key \notin Exts
    BY InformersAssumption
  <2>2. Namespace \notin Rules /\ Namespace \notin Exts
    BY InformersAssumption
  <2> QED
    BY <1>2, <1>3, <2>1, <2>2 DEF EndpointsWorker
<1>6. ASSUME NEW r \in Rules, NEW e \in Exts PROVE KeepsPair(r, e)
  <2>1. r # k /\ e # k /\ RuleType[r] # "ep"
    BY <1>1, <1>5, KindsOfObjects
  <2>2. KeepsDue(r, e) /\ KeepsExt(r, e)
    BY <1>1, <1>4, <1>5, <2>1, Apart
  <2> QED
    BY <1>4, <2>2 DEF KeepsPair
<1> QED
  BY <1>1, <1>4, <1>6, UnmarkedStep

-----------------------------------------------------------------------------
(* The watches. *)

\* What the watch brings of o is what there is.
LEMMA Delivered ==
    ASSUME InformersTypeOK, NEW o \in Cached, Deliver(o)
    PROVE  /\ WorkerOf(o) \in synced /\ o \notin fresh /\ o \in Objects
           /\ api' = api /\ synced' = synced /\ fresh' = fresh \cup {o}
           /\ \A x \in Cached \ {o} : cache'[x] = cache[x]
           /\ cache'[o].live <=> api[o].live
           /\ api[o].live => cache'[o].spec = api[o].spec /\ cache'[o].mark = api[o].mark
           /\ queue' = IF Notified(o) THEN queue \cup {Entry(o, api[o])} ELSE queue
<1>1. Replace(o) /\ queue' = IF Notified(o) THEN queue \cup {Entry(o, api[o])} ELSE queue
  BY DEF Deliver
<1>2. cache' = [cache EXCEPT ![o] = Listed(o)]
  BY <1>1 DEF Replace
<1>3. cache'[o] = Listed(o) /\ \A x \in Cached \ {o} : cache'[x] = cache[x]
  BY <1>2 DEF InformersTypeOK
<1>4. /\ Listed(o).live <=> api[o].live
      /\ api[o].live => Listed(o) = api[o]
  BY DEF Listed, Unseen
<1> QED
  BY <1>1, <1>3, <1>4, KindsOfObjects DEF Replace

\* The process runs; unless it sees all there is, o is what it has yet to see.
LEMMA DeliveredSees ==
    ASSUME InformersTypeOK, SeenOK, NEW o \in Cached, Deliver(o)
    PROVE  /\ Up /\ \A x \in Cached \ {o} : Same(x)
           /\ ~Same(o) => Disturbed(o)
<1>1. WorkerOf(o) \in synced /\ o \notin fresh
  BY Delivered
<1>2. Up
  BY <1>1 DEF SeenOK, Disturbed, Calm
<1>3. \A x \in Cached : WorkerOf(x) \in synced
  BY <1>2, KindsOfObjects DEF Up
<1> QED
  BY <1>1, <1>2, <1>3 DEF SeenOK, Disturbed

LEMMA NoNews ==
    ASSUME NEW o \in Cached, Same(o) PROVE ~Notified(o)
BY KindsOfObjects DEF Same, Notified, IsUpdate, RuleUpdate, EndpointsUpdate

\* The same version again, but for its mark.
LEMMA OldNewsSettles ==
    ASSUME Settling, Typed, Typed', SettledInv, UNCHANGED <<store, workers>>,
           NEW o \in Cached, Deliver(o), Same(o)
    PROVE  SettledInv'
<1> USE DEF SettledInv
<1>1. /\ o \in Objects /\ o \notin fresh
      /\ api' = api /\ synced' = synced /\ fresh' = fresh \cup {o} /\ queue' = queue
      /\ \A x \in Cached \ {o} : cache'[x] = cache[x]
      /\ cache'[o].live <=> api[o].live
      /\ api[o].live => cache'[o].spec = api[o].spec /\ cache'[o].mark = api[o].mark
  BY Delivered, NoNews DEF Typed
<1>2. AllSeen /\ Up
  BY DeliveredSees DEF AllSeen, Typed
<1>3. Alike
  <2>1. \A x \in Cached : /\ cache'[x].live <=> cache[x].live
                          /\ cache[x].live => cache'[x].spec = cache[x].spec
    BY <1>1 DEF Same
  <2> QED
    BY <1>1, <2>1 DEF Alike
<1>4. \A e \in Exts : cache[e].live /\ Own(e) => cache'[e].mark = cache[e].mark
  <2> SUFFICES ASSUME NEW e \in Exts, cache[e].live, Own(e) PROVE cache'[e].mark = cache[e].mark
    OBVIOUS
  <2>1. e \in Cached /\ cache[e].mark = api[e].mark
    BY KindsOfObjects DEF MarkOK
  <2> QED
    BY <1>1, <2>1 DEF Same
<1>5. \A w \in Workers : Waits(w)
  BY DEF workers, Waits
<1>6. SeenOK'
  BY <1>2, <1>3, SeenStays DEF Typed
<1>7. ReqOK'
  <2>1. ASSUME NEW w \in Types, pc'[w] # "idle" PROVE RuleReq(w)'
    <3>1. Waits(w) /\ pc[w] # "idle"
      BY <1>5, <2>1 DEF Waits, Workers
    <3> QED
      BY <1>3, <1>4, <3>1, RuleReqStays DEF ReqOK
  <2>2. ASSUME pc'["ext"] # "idle" PROVE ExtReq'
    <3>1. Waits("ext") /\ pc["ext"] # "idle"
      BY <1>5, <2>2 DEF Waits, Workers
    <3>2. item["ext"].key \in Exts
      <4>1. "ext" \in Workers
        BY DEF Workers
      <4> QED
        BY <3>1, <4>1, BusyWorker, KindsOfObjects DEF Typed, EntryOf, IsEntry
    <3> QED
      BY <1>2, <1>3, <1>4, <3>1, <3>2, ExtReqStays DEF ReqOK
  <2>3. \A i \in queue' : (i.key \in Rules /\ ~cache'[i.key].live) => i.spec = api'[i.key].spec
    BY <1>1, <1>3, KindsOfObjects DEF ReqOK, Alike
  <2> QED
    BY <2>1, <2>2, <2>3 DEF ReqOK
<1>8. \A r \in Rules, e \in Exts : KeepsPair(r, e)
  <2> SUFFICES ASSUME NEW r \in Rules, NEW e \in Exts PROVE KeepsPair(r, e)
    OBVIOUS
  <2>1. KeepsHeld(r, e)
    BY SamePairs
  <2>2. KeepsDue(r, e) /\ KeepsExt(r, e)
    BY <1>1 DEF workers, KeepsDue, KeepsExt, InHand, Due, Pending, Doing, Posting, Busy,
                Removal, ExtDue, ExtPending, ExtDoing
  <2> QED
    BY <1>4, <2>1, <2>2 DEF KeepsPair
<1>9. \A e \in Exts : MarkOK(e)'
  <2> SUFFICES ASSUME NEW e \in Exts PROVE MarkOK(e)'
    OBVIOUS
  <2>1. KeepsMark(e)
    BY <1>1, <1>4, KindsOfObjects DEF KeepsMark, Disturbed
  <2>2. \A r \in Rules : (e \in Range(api[r].spec.exts) /\ cache[e].live /\ Due(r, e)) => Due(r, e)'
    BY <1>8 DEF KeepsPair, KeepsDue
  <2> QED
    BY <1>2, <1>3, <2>1, <2>2, MarkStays
<1> QED
  BY <1>2, <1>3, <1>6, <1>7, <1>8, <1>9, PairStays

\* A new version is all that there is to be seen.
News(o) == Deliver(o) /\ ~Same(o) /\ UNCHANGED <<store, workers>>

LEMMA NothingInHand ==
    ASSUME Calm, NEW r \in Rules, NEW e \in Exts
    PROVE  /\ ~Pending(r) /\ ~Due(r, e) /\ ~InHand(r, e) /\ ~ExtDoing(r, e)
           /\ ~cache[e].live => ~Removal(r, e)
<1>1. RuleType[r] \in Workers /\ "ext" \in Workers
  BY KindsOfObjects DEF Workers
<1>2. pc[RuleType[r]] = "idle" /\ pc["ext"] = "idle"
  BY <1>1 DEF Calm
<1>3. ~Pending(r)
  BY InformersAssumption DEF Calm, Pending
<1>4. \A i \in queue : (i.key = e /\ ~cache[e].live) => i.spec \in Refused
  BY DEF Calm, ExtOf
<1> QED
  BY <1>2, <1>3, <1>4 DEF Due, InHand, Doing, Posting, Busy, ExtDoing, Removal

LEMMA NewsComes ==
    ASSUME Typed, SettledInv, NEW o \in Cached, News(o)
    PROVE  /\ Up /\ Calm /\ (\A x \in Cached \ {o} : Same(x))
           /\ api' = api /\ synced' = synced /\ fresh' = Cached
           /\ queue \subseteq queue' /\ queue' \subseteq queue \cup {Entry(o, api[o])}
           /\ Notified(o) => Entry(o, api[o]) \in queue'
           /\ ~api[o].live => cache[o].live /\ Notified(o)
           /\ \A x \in Cached \ {o} : cache'[x] = cache[x]
           /\ cache'[o].live <=> api[o].live
           /\ api[o].live => cache'[o].spec = api[o].spec /\ cache'[o].mark = api[o].mark
           /\ \A w \in Workers : pc'[w] = "idle"
           /\ \A r, e : KeepsHeld(r, e)
<1>1. Up /\ Disturbed(o) /\ \A x \in Cached \ {o} : Same(x)
  BY DeliveredSees DEF News, SettledInv, Typed
<1>2. ~api[o].live => cache[o].live /\ Notified(o)
  BY DEF News, Same, Notified
<1>3. \A w \in Workers : pc'[w] = "idle"
  BY <1>1 DEF Disturbed, Calm, News, workers
<1>4. \A r, e : KeepsHeld(r, e)
  BY SamePairs DEF News
<1> QED
  BY <1>1, <1>2, <1>3, <1>4, Delivered DEF News, Typed, Disturbed

\* What is declared, and by what label: the controller knew it before.
LEMMA KnownBefore ==
    ASSUME SettledInv, Calm, Up, NEW r \in Rules, NEW e \in Exts, Holds(r, e)
    PROVE  cache[r].live /\ cache[e].live
BY NothingInHand DEF SettledInv, PairOK, HeldOK

LEMMA NewsHeld ==
    ASSUME Settling, Typed, SettledInv, NEW o \in Cached, News(o), NEW r \in Rules, NEW e \in Exts
    PROVE  HeldOK(r, e)'
<1> SUFFICES ASSUME Holds(r, e)' PROVE HeldOK(r, e)'
  BY DEF HeldOK
<1>1. /\ Up /\ Calm /\ (\A x \in Cached \ {o} : Same(x))
      /\ api' = api /\ synced' = synced
      /\ Notified(o) => Entry(o, api[o]) \in queue'
      /\ ~api[o].live => cache[o].live /\ Notified(o)
      /\ \A x \in Cached \ {o} : cache'[x] = cache[x]
      /\ cache'[o].live <=> api[o].live
  BY NewsComes
<1>2. Holds(r, e)
  BY NewsComes DEF KeepsHeld
<1>3. cache[r].live /\ cache[e].live
  BY <1>1, <1>2, KnownBefore
<1>4. r \in Cached /\ e \in Cached /\ r # e /\ e \notin Services /\ r \notin Services
  BY KindsOfObjects, InformersAssumption
<1>5. HeldOK(r, e)
  BY DEF SettledInv, PairOK
<1>6. (Up' /\ ~cache'[r].live) => cache'[e].live /\ InHand(r, e)'
  <2> SUFFICES ASSUME ~cache'[r].live PROVE cache'[e].live /\ InHand(r, e)'
    OBVIOUS
  <2>1. o = r
    BY <1>1, <1>3, <1>4
  <2>2. Entry(r, api[r]) \in queue' /\ Entry(r, api[r]).key = r
    BY <1>1, <2>1 DEF Entry
  <2> QED
    BY <1>1, <1>3, <1>4, <2>1, <2>2 DEF InHand, Due, Pending
<1>7. (Up' /\ ~cache'[e].live) => Removal(r, e)'
  <2> SUFFICES ASSUME ~cache'[e].live PROVE Removal(r, e)'
    OBVIOUS
  <2>1. o = e /\ ~api[e].live /\ Same(r)
    BY <1>1, <1>3, <1>4
  <2>2. Deletes(e) /\ api[e].spec \notin Refused
    <3>1. "ext" \in synced
      BY <1>1 DEF Up, Workers
    <3> QED
      BY <1>3, <2>1, <3>1 DEF SettledInv, SeenOK
  <2>3. Own(e)
    BY <2>2 DEF Settling, DeletedOwn
  <2>4. api[e].mark = cache[e].mark
    BY <1>3, <2>3 DEF SettledInv, MarkOK
  <2>5. cache[e].mark = RuleType[r]
    <3>1. Serves(r, e)
      BY <1>2, <1>3, <1>5, <2>1 DEF Serves, HeldOK, Same
    <3> QED
      BY <1>1, <2>3, <3>1, NothingInHand DEF SettledInv, PairOK, LabelledOK
  <2> PICK i : i = Entry(e, api[e])
    OBVIOUS
  <2>6. i \in queue' /\ i.key = e /\ i.label = RuleType[r] /\ i.spec \notin Refused
    BY <1>1, <1>4, <2>1, <2>2, <2>4, <2>5 DEF Entry
  <2> QED
    BY <2>6 DEF Removal
<1> QED
  BY <1>1, <1>2, <1>5, <1>6, <1>7 DEF HeldOK, InRange, Up

\* A rule that is to be declared was so before, or the new version puts it in the queue.
LEMMA NewsServed ==
    ASSUME Typed, SettledInv, NEW o \in Cached, News(o), NEW r \in Rules, NEW e \in Exts,
           Serves(r, e)', ~Pending(r)'
    PROVE  /\ Serves(r, e)
           /\ cache'[r].spec.action = cache[r].spec.action
           /\ cache'[e].mark = cache[e].mark \/ cache'[e].mark = api[e].mark
           /\ cache'[e].spec = cache[e].spec \/ ExtPending(e)'
<1>1. /\ Up /\ Calm /\ (\A x \in Cached \ {o} : Same(x))
      /\ api' = api /\ synced' = synced
      /\ Notified(o) => Entry(o, api[o]) \in queue'
      /\ \A x \in Cached \ {o} : cache'[x] = cache[x]
      /\ cache'[o].live <=> api[o].live
      /\ api[o].live => cache'[o].spec = api[o].spec /\ cache'[o].mark = api[o].mark
  BY NewsComes
<1>2. Holds(r, e)' <=> Holds(r, e)
  BY NewsComes DEF KeepsHeld
<1>3. r \in Cached /\ e \in Cached /\ r # e /\ e \notin Rules
  BY KindsOfObjects, InformersAssumption
<1>4. Entry(o, api[o]).key = o
  BY DEF Entry
<1>5. CASE o = r
  <2>1. ~Notified(r) /\ api[r].live
    BY <1>1, <1>4, <1>5 DEF Pending, Serves
  <2>2. cache[r].live /\ ~IsUpdate(r, cache[r].spec, api[r].spec)
    BY <2>1 DEF Notified
  <2>3. cache[r].spec.action = api[r].spec.action /\ cache[r].spec.exts = api[r].spec.exts
    BY <2>2 DEF IsUpdate, RuleUpdate, Serves, InRange
  <2>4. cache'[r].spec = api[r].spec /\ cache'[e] = cache[e]
    BY <1>1, <1>3, <1>5, <2>1
  <2> QED
    BY <1>2, <2>2, <2>3, <2>4 DEF Serves, InRange
<1>6. CASE o = e
  <2>1. cache'[r] = cache[r] /\ api[e].live /\ cache'[e].spec = api[e].spec /\ cache'[e].mark = api[e].mark
    BY <1>1, <1>3, <1>6 DEF Serves
  <2>2. cache[e].live
    <3>1. ASSUME ~cache[e].live PROVE Creates(e)
      <4>1. "ext" \in synced
        BY <1>1 DEF Up, Workers
      <4> QED
        BY <2>1, <3>1, <4>1 DEF SettledInv, SeenOK
    <3>2. ASSUME ~cache[e].live PROVE Holds(r, e)
      BY <1>2, <3>1, <3>2 DEF Serves
    <3> QED
      BY <1>1, <3>2, KnownBefore
  <2>3. cache'[e].spec = cache[e].spec \/ ExtPending(e)'
    <3>1. ASSUME cache'[e].spec # cache[e].spec PROVE Notified(e)
      BY <1>3, <2>1, <2>2, <3>1 DEF Notified, IsUpdate
    <3> QED
      BY <1>1, <1>4, <1>6, <3>1 DEF ExtPending
  <2> QED
    BY <1>2, <2>1, <2>2, <2>3 DEF Serves, InRange
<1>7. CASE o # r /\ o # e
  <2>1. cache'[r] = cache[r] /\ cache'[e] = cache[e]
    BY <1>1, <1>3, <1>7
  <2> QED
    BY <1>2, <2>1 DEF Serves, InRange
<1> QED
  BY <1>5, <1>6, <1>7

LEMMA NewsPair ==
    ASSUME Settling, Typed, SettledInv, NEW o \in Cached, News(o), NEW r \in Rules, NEW e \in Exts
    PROVE  PairOK(r, e)'
<1>1. HeldOK(r, e)'
  BY NewsHeld
<1>2. Up /\ Calm /\ queue \subseteq queue' /\ KeepsHeld(r, e)
  BY NewsComes
<1>3. PairOK(r, e) /\ MarkOK(e)
  BY DEF SettledInv
<1>4. CASE Own(e) /\ Serves(r, e)' /\ ~Pending(r)'
  <2>1. /\ Serves(r, e)
        /\ cache'[r].spec.action = cache[r].spec.action
        /\ cache'[e].mark = cache[e].mark \/ cache'[e].mark = api[e].mark
        /\ cache'[e].spec = cache[e].spec \/ ExtPending(e)'
    BY <1>4, NewsServed
  <2>2. cache[e].mark = api[e].mark
    BY <1>3, <1>4, <2>1 DEF MarkOK, Serves
  <2>3. ~Due(r, e) /\ ~InHand(r, e) /\ ~ExtDoing(r, e)
    BY <1>2, NothingInHand
  <2>4. cache'[e].mark = RuleType[r]
    BY <1>3, <1>4, <2>1, <2>2, <2>3 DEF PairOK, LabelledOK
  <2>5. /\ Holds(r, e) /\ DeclaredFor(r, e).action = cache[r].spec.action
        /\ DstOf(r, e) = cache[e].spec.content \/ ExtPending(e)
    BY <1>3, <1>4, <2>1, <2>3 DEF PairOK, ContentOK, ExtDue
  <2>6. ExtPending(e) => ExtPending(e)'
    BY <1>2 DEF ExtPending
  <2>7. ContentOK(r, e)'
    BY <1>2, <2>1, <2>5, <2>6 DEF ContentOK, KeepsHeld, ExtDue
  <2> QED
    BY <1>1, <2>4, <2>7 DEF PairOK, LabelledOK
<1>5. CASE ~(Own(e) /\ Serves(r, e)' /\ ~Pending(r)')
  BY <1>1, <1>5 DEF PairOK, LabelledOK, ContentOK, InHand, Due
<1> QED
  BY <1>4, <1>5

LEMMA NewsMark ==
    ASSUME Settling, Typed, SettledInv, NEW o \in Cached, News(o), NEW e \in Exts
    PROVE  MarkOK(e)'
<1> SUFFICES ASSUME Own(e) PROVE MarkOK(e)'
  BY DEF MarkOK
<1>1. /\ Up /\ Calm /\ api' = api /\ synced' = synced /\ fresh' = Cached
      /\ Notified(o) => Entry(o, api[o]) \in queue'
      /\ ~api[o].live => cache[o].live /\ Notified(o)
      /\ \A x \in Cached \ {o} : cache'[x] = cache[x]
      /\ cache'[o].live <=> api[o].live
      /\ api[o].live => cache'[o].mark = api[o].mark
  BY NewsComes
<1>2. e \in Cached /\ e \in fresh'
  BY <1>1, KindsOfObjects
<1>3. cache'[e].live => cache'[e].mark = api'[e].mark
  <2>1. CASE o = e
    BY <1>1, <2>1
  <2>2. CASE o # e
    BY <1>1, <1>2, <2>2 DEF SettledInv, MarkOK
  <2> QED
    BY <2>1, <2>2
<1>4. ASSUME api'[e].live, api'[e].mark # "none" PROVE \E r \in Rules : MarkedBy(r, e)'
  <2>1. PICK r \in Rules : MarkedBy(r, e)
    BY <1>1, <1>4 DEF SettledInv, MarkOK
  <2>2. cache[r].live
    BY <1>1, <2>1, NothingInHand DEF MarkedBy
  <2>3. ~cache'[r].live => Due(r, e)'
    <3>1. ASSUME ~cache'[r].live PROVE Pending(r)'
      <4>1. r = o
        BY <1>1, <2>2, <3>1, KindsOfObjects
      <4>2. Entry(r, api[r]) \in queue' /\ Entry(r, api[r]).key = r
        BY <1>1, <3>1, <4>1 DEF Entry
      <4> QED
        BY <4>2 DEF Pending
    <3> QED
      BY <3>1 DEF Due
  <2> QED
    BY <1>1, <2>1, <2>3 DEF MarkedBy, InRange, Up
<1> QED
  BY <1>2, <1>3, <1>4 DEF MarkOK

LEMMA NewsSettles ==
    ASSUME Settling, Typed, Typed', SettledInv, NEW o \in Cached, News(o)
    PROVE  SettledInv'
<1>1. /\ Up /\ Calm /\ (\A x \in Cached \ {o} : Same(x))
      /\ api' = api /\ synced' = synced
      /\ queue' \subseteq queue \cup {Entry(o, api[o])}
      /\ \A x \in Cached \ {o} : cache'[x] = cache[x]
      /\ cache'[o].live <=> api[o].live
      /\ api[o].live => cache'[o].spec = api[o].spec
      /\ \A w \in Workers : pc'[w] = "idle"
  BY NewsComes
<1>2. Up' /\ AllSeen'
  <2>1. \A x \in Cached : Same(x)'
    BY <1>1 DEF Same
  <2> QED
    BY <1>1, <2>1 DEF Up, AllSeen
<1>3. SeenOK'
  <2>1. \A r \in Rules : /\ api'[r].spec \in VersionsOf(r)
                         /\ cache'[r].live => cache'[r].spec \in VersionsOf(r)
    BY <1>1, KindsOfObjects DEF SettledInv, SeenOK
  <2> QED
    BY <1>2, <2>1, SeenNow DEF Typed
<1>4. ReqOK'
  <2>1. \A i \in queue : i.key \notin Rules
    BY <1>1, InformersAssumption DEF Calm
  <2>2. o \in Rules => Entry(o, api[o]).spec = api[o].spec
    BY InformersAssumption DEF Entry
  <2>3. Entry(o, api[o]).key = o
    BY DEF Entry
  <2>4. "ext" \in Workers /\ Types \subseteq Workers
    BY DEF Workers
  <2> QED
    BY <1>1, <2>1, <2>2, <2>3, <2>4 DEF ReqOK
<1> QED
  BY <1>3, <1>4, NewsPair, NewsMark DEF SettledInv

\* An informer lists, for the first time since the process started.
LEMMA ListComes ==
    ASSUME Typed, SeenOK, NEW k \in Workers, List(k)
    PROVE  /\ ~Up /\ (\A w \in Workers : pc[w] = "idle")
           /\ api' = api /\ synced' = synced \cup {k}
           /\ fresh' = fresh \cup {o \in Cached : WorkerOf(o) = k}
           /\ \A o \in Cached : WorkerOf(o) \in synced' => Same(o)' /\ o \in fresh'
           /\ \A o \in Cached : WorkerOf(o) \notin synced' => ~cache'[o].live
           /\ \A o \in Cached : WorkerOf(o) # k => cache'[o] = cache[o]
           /\ \A o \in Cached : (WorkerOf(o) = k /\ cache'[o].live) => cache'[o] = api[o]
           /\ queue \subseteq queue'
           /\ \A i \in queue' : \/ i \in queue
                                \/ \E r \in Rules : /\ WorkerOf(r) = k /\ api[r].live
                                                    /\ i = Entry(r, api[r])
           /\ \A r \in Rules : (WorkerOf(r) = k /\ api[r].live) => Entry(r, api[r]) \in queue'
<1>1. /\ k \notin synced /\ synced' = synced \cup {k}
      /\ cache' = [o \in Cached |-> IF WorkerOf(o) = k THEN Listed(o) ELSE cache[o]]
      /\ fresh' = fresh \cup {o \in Cached : WorkerOf(o) = k}
      /\ queue' = queue \cup {Entry(r, api[r]) : r \in {r \in Rules : /\ r \in Cached /\ WorkerOf(r) = k
                                                                      /\ api[r].live}}
      /\ api' = api
  BY DEF List
<1>2. ~Up /\ \A w \in Workers : pc[w] = "idle"
  BY <1>1 DEF Up, SeenOK
<1>3. \A o \in Cached : /\ Listed(o).live <=> api[o].live
                        /\ Listed(o).live => Listed(o) = api[o]
  BY DEF Listed, Unseen
<1>4. \A o \in Cached : WorkerOf(o) \in synced' => Same(o)' /\ o \in fresh'
  <2> SUFFICES ASSUME NEW o \in Cached, WorkerOf(o) \in synced' PROVE Same(o)' /\ o \in fresh'
    OBVIOUS
  <2>1. CASE WorkerOf(o) = k
    BY <1>1, <1>3, <2>1 DEF Same
  <2>2. CASE WorkerOf(o) # k
    <3>1. cache'[o] = cache[o] /\ WorkerOf(o) \in synced
      BY <1>1, <2>2
    <3>2. Same(o) /\ o \in fresh
      BY <1>2, <3>1 DEF SeenOK, Disturbed, Calm
    <3> QED
      BY <1>1, <3>1, <3>2 DEF Same
  <2> QED
    BY <2>1, <2>2
<1>5. \A o \in Cached : WorkerOf(o) \notin synced' => ~cache'[o].live
  BY <1>1 DEF SeenOK, ListedFirst
<1> QED
  BY <1>1, <1>2, <1>3, <1>4, <1>5, KindsOfObjects

LEMMA ListPends ==
    ASSUME Typed, SettledInv, NEW k \in Workers, List(k), NEW r \in Rules, cache'[r].live
    PROVE  Pending(r)'
<1>1. r \in Cached /\ Entry(r, api[r]).key = r
  BY KindsOfObjects DEF Entry
<1>2. CASE WorkerOf(r) = k
  BY <1>1, <1>2, ListComes DEF SettledInv, Same, Pending
<1>3. CASE WorkerOf(r) # k
  BY <1>1, <1>3, ListComes DEF SettledInv, SeenOK, Pending
<1> QED
  BY <1>2, <1>3

LEMMA ListPair ==
    ASSUME Typed, SettledInv, UNCHANGED <<store, workers>>, NEW k \in Workers, List(k),
           NEW r \in Rules, NEW e \in Exts
    PROVE  PairOK(r, e)'
<1>1. /\ ~Up /\ api' = api /\ \A o \in Cached : WorkerOf(o) \in synced' => Same(o)'
  BY ListComes DEF SettledInv
<1>2. cache'[r].live => Due(r, e)'
  BY ListPends DEF Due
<1>3. r \in Cached /\ e \in Cached /\ KeepsHeld(r, e)
  BY KindsOfObjects, SamePairs
<1>4. Up' => Same(r)' /\ Same(e)'
  BY <1>1, <1>3, KindsOfObjects DEF Up
<1>5. HeldOK(r, e)'
  <2> SUFFICES ASSUME Holds(r, e)' PROVE HeldOK(r, e)'
    BY DEF HeldOK
  <2>1. InRange(r) /\ e \in Range(api[r].spec.exts) /\ api[r].live /\ api[e].live
    BY <1>1, <1>3 DEF SettledInv, PairOK, HeldOK, KeepsHeld
  <2>2. Up' => cache'[r].live /\ cache'[e].live
    BY <1>1, <1>4, <2>1 DEF Same
  <2> QED
    BY <1>1, <2>1, <2>2 DEF HeldOK, InRange
<1> QED
  BY <1>2, <1>5 DEF PairOK, LabelledOK, ContentOK, Serves, InHand

LEMMA ListMark ==
    ASSUME Typed, SettledInv, NEW k \in Workers, List(k), NEW e \in Exts
    PROVE  MarkOK(e)'
<1> SUFFICES ASSUME Own(e) PROVE MarkOK(e)'
  BY DEF MarkOK
<1>1. /\ ~Up /\ api' = api
      /\ \A o \in Cached : WorkerOf(o) \in synced' => Same(o)' /\ o \in fresh'
      /\ \A o \in Cached : WorkerOf(o) \notin synced' => ~cache'[o].live
      /\ \A o \in Cached : WorkerOf(o) # k => cache'[o] = cache[o]
      /\ \A o \in Cached : (WorkerOf(o) = k /\ cache'[o].live) => cache'[o] = api[o]
  BY ListComes DEF SettledInv
<1>2. e \in Cached
  BY KindsOfObjects
<1>3. cache'[e].live => cache'[e].mark = api'[e].mark /\ e \in fresh'
  BY <1>1, <1>2 DEF SettledInv, MarkOK
<1>4. ASSUME api'[e].live, api'[e].mark # "none" PROVE \E r \in Rules : MarkedBy(r, e)'
  <2>1. PICK r \in Rules : MarkedBy(r, e)
    BY <1>1, <1>4 DEF SettledInv, MarkOK
  <2>2. r \in Cached /\ api[r].live
    BY <1>1, <2>1, KindsOfObjects DEF MarkedBy
  <2>3. Up' => cache'[r].live
    BY <1>1, <2>2, KindsOfObjects DEF Up, Same
  <2> QED
    BY <1>1, <2>1, <2>2, <2>3 DEF MarkedBy, InRange
<1> QED
  BY <1>3, <1>4 DEF MarkOK

LEMMA ListSettles ==
    ASSUME Typed, SettledInv, UNCHANGED <<store, workers>>, NEW k \in Workers, List(k)
    PROVE  SettledInv'
<1>1. /\ ~Up /\ (\A w \in Workers : pc[w] = "idle")
      /\ api' = api /\ synced' = synced \cup {k}
      /\ fresh' = fresh \cup {o \in Cached : WorkerOf(o) = k}
      /\ \A o \in Cached : WorkerOf(o) \in synced' => Same(o)' /\ o \in fresh'
      /\ \A o \in Cached : WorkerOf(o) \notin synced' => ~cache'[o].live
      /\ \A o \in Cached : WorkerOf(o) # k => cache'[o] = cache[o]
      /\ \A i \in queue' : \/ i \in queue
                           \/ \E r \in Rules : /\ WorkerOf(r) = k /\ api[r].live
                                               /\ i = Entry(r, api[r])
  BY ListComes DEF SettledInv
<1>2. \A w \in Workers : pc'[w] = "idle"
  BY <1>1 DEF workers
<1>3. \A r : Entry(r, api[r]).key = r
  BY DEF Entry
<1>4. SeenOK'
  <2>1. fresh \subseteq Cached /\ \A i \in queue : i.key \in Cached
    BY DEF Typed, InformersTypeOK
  <2>2. \A o \in fresh' : WorkerOf(o) \in synced' /\ Same(o)'
    BY <1>1, <2>1 DEF SettledInv, SeenOK
  <2>3. \A i \in queue' : WorkerOf(i.key) \in synced'
    BY <1>1, <1>3 DEF SettledInv, SeenOK
  <2>4. ASSUME NEW r \in Rules
        PROVE  /\ api'[r].spec \in VersionsOf(r)
               /\ cache'[r].live => cache'[r].spec \in VersionsOf(r) /\ Pending(r)'
    <3>1. r \in Cached /\ api[r].spec \in VersionsOf(r)
      BY KindsOfObjects DEF SettledInv, SeenOK
    <3>2. cache'[r].live => cache'[r].spec = api[r].spec
      BY <1>1, <3>1 DEF Same
    <3> QED
      BY <1>1, <3>1, <3>2, ListPends
  <2>5. ASSUME NEW e \in Exts, "ext" \in synced' PROVE cache'[e].live <=> api'[e].live
    BY <1>1, <2>5, KindsOfObjects DEF Same
  <2> QED
    BY <1>1, <1>2, <2>2, <2>3, <2>4, <2>5 DEF SeenOK, ListedFirst
<1>5. ReqOK'
  <2>1. "ext" \in Workers /\ Types \subseteq Workers
    BY DEF Workers
  <2>2. ASSUME NEW i \in queue', i.key \in Rules, ~cache'[i.key].live PROVE i.spec = api'[i.key].spec
    <3>1. i.key \in Cached
      BY <2>2, KindsOfObjects
    <3>2. CASE i \in queue
      <4>1. WorkerOf(i.key) \in synced /\ k \notin synced
        BY <3>2 DEF SettledInv, SeenOK, List
      <4>2. cache'[i.key] = cache[i.key]
        BY <1>1, <3>1, <4>1
      <4> QED
        BY <1>1, <2>2, <3>2, <4>2 DEF SettledInv, ReqOK
    <3>3. CASE i \notin queue
      <4>1. PICK r \in Rules : WorkerOf(r) = k /\ api[r].live /\ i = Entry(r, api[r])
        BY <1>1, <3>3
      <4>2. i.key = r
        BY <1>3, <4>1
      <4> QED
        BY <1>1, <2>2, <3>1, <4>1, <4>2 DEF Same
    <3> QED
      BY <3>2, <3>3
  <2> QED
    BY <1>2, <2>1, <2>2 DEF ReqOK
<1> QED
  BY <1>4, <1>5, ListPair, ListMark DEF SettledInv

LEMMA WatchSettles ==
    ASSUME Settling, Typed, Typed', SettledInv, Watch PROVE SettledInv'
<1>1. UNCHANGED <<store, workers>>
  BY DEF Watch, WatchOf
<1>2. ASSUME NEW o \in Cached, Deliver(o) \/ Missed(o) PROVE SettledInv'
  <2>1. Deliver(o)
    BY <1>2 DEF Missed, Settling, Patient
  <2> QED
    BY <1>1, <2>1, OldNewsSettles, NewsSettles DEF News
<1> QED
  BY <1>1, <1>2, ListSettles DEF Watch, WatchOf

-----------------------------------------------------------------------------
(* Users. *)

\* A user changes o to to, while all is quiet.
Changed(o, to) ==
    /\ User /\ Edit(o, to)
    /\ <<IF api[o].live THEN api[o].spec ELSE Gone, to>> \in Changes[o]

\* Where o is a rule or an external service, it was all that the controller saw of it.
LEMMA ChangeComes ==
    ASSUME Settling, Typed, SettledInv, NEW o \in Objects, NEW to, Changed(o, to)
    PROVE  /\ Up /\ Calm /\ (\A x \in Cached : Same(x))
           /\ fresh' = Cached \ {o}
           /\ UNCHANGED <<cache, synced, queue, store, workers>>
           /\ \A x \in Objects \ {o} : api'[x] = api[x]
           /\ to = Gone => /\ ~api'[o].live /\ api'[o].spec = api[o].spec
                           /\ api[o].live => Deletes(o)
                           /\ api[o].mark \notin Phases => api'[o].mark = api[o].mark
                           /\ api[o].mark = "none" => api'[o].mark = "none"
           /\ to # Gone => /\ api'[o].live /\ api'[o].spec = to /\ to \in VersionsOf(o)
                           /\ api[o].live => api'[o].mark = api[o].mark
                           /\ ~api[o].live => api'[o].mark = "none" /\ Creates(o)
<1>1. Quiet /\ Edit(o, to)
  BY DEF Changed, User, Settling, Patient
<1>2. Up /\ Calm /\ fresh = Cached
  BY <1>1 DEF Quiet, Calm
<1>3. \A x \in Cached : Same(x)
  BY <1>2 DEF SettledInv, SeenOK
<1>4. /\ fresh' = fresh \ {o} /\ UNCHANGED <<cache, synced, queue, store, workers>>
      /\ api' = [api EXCEPT ![o] = Edited(api[o], to)]
  BY <1>1 DEF Edit, Changed, User
<1>5. api'[o] = Edited(api[o], to) /\ \A x \in Objects \ {o} : api'[x] = api[x]
  BY <1>4 DEF Typed, InformersTypeOK
<1> PICK v : v = api[o]
  OBVIOUS
<1>6. v = [live |-> v.live, spec |-> v.spec, mark |-> v.mark]
  BY DEF Typed, InformersTypeOK, Forms
<1> PICK ch : ch = <<IF v.live THEN v.spec ELSE Gone, to>>
  OBVIOUS
<1>7. ch \in Changes[o] /\ ch[2] = to /\ (~v.live => ch[1] = Gone)
  BY DEF Changed
<1>8. CASE to = Gone
  <2>1. /\ ~api'[o].live /\ api'[o].spec = v.spec
        /\ api'[o].mark = IF v.mark \in Phases THEN "none" ELSE v.mark
    BY <1>5, <1>6, <1>8 DEF Edited
  <2>2. Deletes(o)
    BY <1>7, <1>8 DEF Deletes
  <2> QED
    BY <1>2, <1>3, <1>4, <1>5, <1>8, <2>1, <2>2
<1>9. CASE to # Gone
  <2>1. /\ api'[o].live /\ api'[o].spec = to
        /\ api'[o].mark = IF v.live THEN v.mark ELSE "none"
    BY <1>5, <1>6, <1>9 DEF Edited
  <2>2. to \in VersionsOf(o)
    BY <1>7, <1>9 DEF VersionsOf
  <2>3. ~v.live => Creates(o)
    BY <1>7 DEF Creates
  <2> QED
    BY <1>2, <1>3, <1>4, <1>5, <1>9, <2>1, <2>2, <2>3
<1> QED
  BY <1>8, <1>9

\* A rule that changes keeps its external services.
LEMMA ChangeGrows ==
    ASSUME Settling, Typed, SettledInv, NEW o \in Objects, NEW to, Changed(o, to),
           NEW r \in Rules, api[r].live, NEW e \in Range(api[r].spec.exts)
    PROVE  e \in Range(api'[r].spec.exts) /\ (api'[r].live \/ Deletes(r))
<1>1. r \in Objects
  BY KindsOfObjects
<1>2. CASE o = r /\ to # Gone
  <2> PICK ch : ch = <<api[r].spec, to>>
    OBVIOUS
  <2>1. ch \in Changes[r] /\ ch[1] = api[r].spec /\ ch[2] = to
    BY <1>2 DEF Changed
  <2>2. api[r].spec # Gone
    BY <1>1, InformersAssumption DEF Typed, InformersTypeOK, Forms
  <2>3. Range(api[r].spec.exts) \subseteq Range(to.exts)
    BY <1>2, <2>1, <2>2 DEF Settling, ListsGrow
  <2> QED
    BY <1>2, <2>3, ChangeComes
<1>3. CASE o = r /\ to = Gone
  BY <1>3, ChangeComes
<1>4. CASE o # r
  BY <1>1, <1>4, ChangeComes
<1> QED
  BY <1>2, <1>3, <1>4

LEMMA ChangeSeen ==
    ASSUME Settling, Typed, Typed', SettledInv, NEW o \in Objects, NEW to, Changed(o, to)
    PROVE  SeenOK'
<1>1. /\ Up /\ Calm /\ (\A x \in Cached : Same(x))
      /\ fresh' = Cached \ {o}
      /\ UNCHANGED <<cache, synced, queue, store, workers>>
      /\ \A x \in Objects \ {o} : api'[x] = api[x]
      /\ to = Gone => /\ ~api'[o].live /\ api'[o].spec = api[o].spec
                      /\ api[o].live => Deletes(o)
      /\ to # Gone => /\ api'[o].live /\ api'[o].spec = to /\ to \in VersionsOf(o)
                      /\ ~api[o].live => Creates(o)
  BY ChangeComes
<1>2. \A x \in Cached : WorkerOf(x) \in synced /\ x \in Objects
  BY <1>1, KindsOfObjects DEF Up
<1>3. \A x \in Cached \ {o} : Same(x)'
  BY <1>1, <1>2 DEF Same
<1>4. Calm'
  BY <1>1 DEF Calm, Up, ExtOf, workers
<1>5. \A x \in Cached : Same(x)' \/ Disturbed(x)'
  BY <1>1, <1>3, <1>4 DEF Disturbed
<1>6. ASSUME NEW r \in Rules
      PROVE  /\ api'[r].spec \in VersionsOf(r)
             /\ cache'[r].live => cache'[r].spec \in VersionsOf(r)
  <2>1. /\ api[r].spec \in VersionsOf(r) /\ r \in Objects
        /\ cache[r].live => cache[r].spec \in VersionsOf(r)
    BY KindsOfObjects DEF SettledInv, SeenOK
  <2> QED
    BY <1>1, <2>1
<1>7. ASSUME NEW e \in Exts
      PROVE  /\ cache'[e].live /\ ~api'[e].live => Deletes(e) /\ api'[e].spec \notin Refused
             /\ ~cache'[e].live /\ api'[e].live => Creates(e)
  <2>1. e \in Cached /\ Same(e) /\ e \in Objects
    BY <1>1, KindsOfObjects
  <2>2. CASE o # e
    BY <1>1, <2>1, <2>2 DEF Same
  <2>3. CASE o = e
    <3>1. cache[e].live <=> api[e].live
      BY <2>1 DEF Same
    <3>2. api[e].live /\ to = Gone => api[e].spec \notin Refused
      <4> PICK ch : ch = <<api[e].spec, to>>
        OBVIOUS
      <4>1. api[e].live => ch \in Changes[e] /\ ch[1] = api[e].spec /\ ch[2] = to
        BY <2>3 DEF Changed
      <4> QED
        BY <4>1 DEF Settling, DeletedOwn, Deletes
    <3> QED
      BY <1>1, <2>3, <3>1, <3>2
  <2> QED
    BY <2>2, <2>3
<1>8. ListedFirst'
  BY <1>1 DEF SettledInv, SeenOK, ListedFirst
<1>9. \A x \in fresh' : WorkerOf(x) \in synced' /\ Same(x)'
  BY <1>1, <1>2, <1>3
<1>10. \A i \in queue' : WorkerOf(i.key) \in synced'
  BY <1>1 DEF SettledInv, SeenOK
<1>11. Up'
  BY <1>1 DEF Up
<1> QED
  BY <1>5, <1>6, <1>7, <1>8, <1>9, <1>10, <1>11 DEF SeenOK

LEMMA ChangePair ==
    ASSUME Settling, Typed, SettledInv, NEW o \in Objects, NEW to, Changed(o, to),
           NEW r \in Rules, NEW e \in Exts
    PROVE  PairOK(r, e)'
<1>1. /\ Up /\ Calm /\ (\A x \in Cached : Same(x))
      /\ UNCHANGED <<cache, synced, queue, store, workers>>
      /\ \A x \in Objects \ {o} : api'[x] = api[x]
      /\ to = Gone => (api[o].live => Deletes(o))
      /\ to # Gone => api'[o].live
  BY ChangeComes
<1>2. KeepsHeld(r, e) /\ PairOK(r, e)
  BY <1>1, SamePairs DEF SettledInv
<1>3. HeldOK(r, e)'
  <2> SUFFICES ASSUME Holds(r, e)' PROVE HeldOK(r, e)'
    BY DEF HeldOK
  <2>1. Holds(r, e) /\ cache[r].live /\ cache[e].live
    BY <1>1, <1>2, KnownBefore DEF KeepsHeld
  <2>2. InRange(r) /\ e \in Range(api[r].spec.exts) /\ api[r].live /\ api[e].live /\ e \in Objects
    BY <1>1, <1>2, <2>1, KindsOfObjects DEF PairOK, HeldOK, Same
  <2>3. e \in Range(api'[r].spec.exts) /\ (api'[r].live \/ Deletes(r))
    BY <2>2, ChangeGrows
  <2>4. api'[e].live \/ Deletes(e)
    BY <1>1, <2>2
  <2> QED
    BY <1>1, <2>1, <2>2, <2>3, <2>4 DEF HeldOK, InRange, Up
<1>4. KeepsDue(r, e) /\ (InHand(r, e) => InHand(r, e)') /\ (ExtDue(r, e) => ExtDue(r, e)')
  BY <1>1 DEF workers, KeepsDue, InHand, Due, Pending, Doing, Posting, Busy, ExtDue, ExtPending, ExtDoing
<1>5. Serves(r, e)' => Serves(r, e)
  BY <1>1, <1>2 DEF Serves, InRange, KeepsHeld
<1>6. LabelledOK(r, e)' /\ ContentOK(r, e)'
  BY <1>1, <1>2, <1>4, <1>5 DEF PairOK, LabelledOK, ContentOK, KeepsDue, KeepsHeld, Serves
<1> QED
  BY <1>3, <1>6 DEF PairOK

LEMMA ChangeMark ==
    ASSUME Settling, Typed, SettledInv, NEW o \in Objects, NEW to, Changed(o, to), NEW e \in Exts
    PROVE  MarkOK(e)'
<1> SUFFICES ASSUME Own(e) PROVE MarkOK(e)'
  BY DEF MarkOK
<1>1. /\ Up /\ Calm /\ (\A x \in Cached : Same(x))
      /\ fresh' = Cached \ {o}
      /\ UNCHANGED <<cache, synced, queue, store, workers>>
      /\ \A x \in Objects \ {o} : api'[x] = api[x]
      /\ to = Gone => /\ ~api'[o].live
                      /\ api[o].mark \notin Phases => api'[o].mark = api[o].mark
                      /\ api[o].mark = "none" => api'[o].mark = "none"
      /\ to # Gone => /\ api[o].live => api'[o].mark = api[o].mark
                      /\ ~api[o].live => api'[o].mark = "none"
  BY ChangeComes
<1>2. e \in Cached /\ e \in Objects /\ Same(e)
  BY <1>1, KindsOfObjects
<1>3. ASSUME api[e].live, api[e].mark # "none"
      PROVE  \E r \in Rules : MarkedBy(r, e) /\ cache[r].live /\ api[r].live
  <2>1. PICK r \in Rules : MarkedBy(r, e)
    BY <1>3 DEF SettledInv, MarkOK
  <2>2. cache[r].live /\ r \in Cached
    BY <1>1, <2>1, NothingInHand, KindsOfObjects DEF MarkedBy
  <2> QED
    BY <1>1, <2>1, <2>2 DEF Same
<1>4. cache'[e].live => cache'[e].mark = api'[e].mark
  <2> SUFFICES ASSUME cache[e].live PROVE cache[e].mark = api'[e].mark
    BY <1>1
  <2>1. cache[e].mark = api[e].mark /\ api[e].live
    BY <1>2 DEF SettledInv, MarkOK, Same
  <2>2. api[e].mark = "none" \/ api[e].mark \notin Phases
    BY <1>3, <2>1, KindsOfObjects DEF MarkedBy, Types, Phases
  <2> QED
    BY <1>1, <1>2, <2>1, <2>2
<1>5. e \in fresh' \/ Disturbed(e)'
  <2>1. Calm'
    BY <1>1 DEF Calm, Up, ExtOf, workers
  <2> QED
    BY <1>1, <1>2, <2>1 DEF Disturbed
<1>6. ASSUME api'[e].live, api'[e].mark # "none" PROVE \E r \in Rules : MarkedBy(r, e)'
  <2>1. api[e].live /\ api[e].mark = api'[e].mark
    BY <1>1, <1>2, <1>6
  <2>2. PICK r \in Rules : MarkedBy(r, e) /\ cache[r].live /\ api[r].live
    BY <1>3, <1>6, <2>1
  <2>3. e \in Range(api'[r].spec.exts) /\ (api'[r].live \/ Deletes(r))
    BY <2>2, ChangeGrows DEF MarkedBy
  <2> QED
    BY <1>1, <2>1, <2>2, <2>3 DEF MarkedBy, InRange, Up
<1> QED
  BY <1>4, <1>5, <1>6 DEF MarkOK

LEMMA UserSettles ==
    ASSUME Settling, Typed, Typed', SettledInv, User PROVE SettledInv'
<1>1. PICK o \in Objects : \E to : Changed(o, to)
  BY DEF User, Edit, Changed
<1> PICK to : Changed(o, to)
  BY <1>1
<1>2. Calm /\ UNCHANGED <<cache, synced, queue, store, workers>>
  BY ChangeComes
<1>3. ReqOK'
  <2>1. \A i \in queue : i.key \notin Rules
    BY <1>2, InformersAssumption DEF Calm
  <2>2. "ext" \in Workers /\ Types \subseteq Workers
    BY DEF Workers
  <2> QED
    BY <1>2, <2>1, <2>2 DEF ReqOK, Calm, workers
<1> QED
  BY <1>3, ChangeSeen, ChangePair, ChangeMark DEF SettledInv

-----------------------------------------------------------------------------
(* The process ends, and starts. *)

\* It knows nothing, and there is nothing but what lives.
LEMMA SettledInit == Init => SettledInv
<1> SUFFICES ASSUME Init PROVE SettledInv
  OBVIOUS
<1>1. /\ fresh = {} /\ synced = {} /\ queue = {} /\ pc = [w \in Workers |-> "idle"]
      /\ \A o \in Cached : ~cache[o].live
      /\ \A o \in Objects : api[o].spec = Initial[o].spec /\ api[o].mark = "none"
  BY DEF Init, InformersInit, Unseen
<1>2. \A r \in Rules, e \in Exts : ~Holds(r, e)
  <2>1. \A t \in Tenants : store[t] = Absent \/ store[t] = DefaultApp(Common)
    BY DEF Init, StoreInit
  <2>2. DefaultApp(Common).rules = <<>>
    BY DEF DefaultApp
  <2>3. \A r \in Rules : TenantOf[r] \in Tenants
    BY DeclarationAssumption
  <2> QED
    BY <2>1, <2>2, <2>3 DEF Holds
<1>3. ASSUME NEW r \in Rules PROVE api[r].spec \in VersionsOf(r) /\ ~cache[r].live
  <2>1. r \in Objects /\ r \in Cached /\ Initial[r].spec # Gone
    BY InformersAssumption, KindsOfObjects
  <2> QED
    BY <1>1, <2>1 DEF VersionsOf
<1>4. "ext" \in Workers /\ Types \subseteq Workers /\ \A e \in Exts : e \in Objects /\ e \in Cached
  BY KindsOfObjects DEF Workers
<1>5. SeenOK /\ ReqOK
  BY <1>1, <1>3, <1>4 DEF SeenOK, ListedFirst, ReqOK
<1>6. \A e \in Exts : MarkOK(e)
  BY <1>1, <1>4 DEF MarkOK
<1>7. \A r \in Rules, e \in Exts : PairOK(r, e)
  BY <1>2, <1>3 DEF PairOK, HeldOK, LabelledOK, ContentOK, Serves
<1> QED
  BY <1>5, <1>6, <1>7 DEF SettledInv

LEMMA CrashSettles ==
    ASSUME Settling, SettledInv, Crash PROVE SettledInv'
<1>1. /\ cache' = [o \in Cached |-> Unseen(o)] /\ fresh' = {} /\ synced' = {} /\ queue' = {}
      /\ api' = api /\ store' = store /\ pc' = [w \in Workers |-> "idle"]
  BY DEF Crash, Restarted
<1>2. \A o \in Cached : ~cache'[o].live
  BY <1>1 DEF Unseen
<1>3. "ext" \in Workers /\ Types \subseteq Workers /\ ~Up'
  BY <1>1 DEF Workers, Up
<1>4. \A o \in Rules \cup Exts : ~Deletes(o)
  BY DEF Crash, Settling, Patient
<1>5. SeenOK'
  <2>1. \A r \in Rules : api'[r].spec \in VersionsOf(r) /\ ~cache'[r].live
    BY <1>1, <1>2, KindsOfObjects DEF SettledInv, SeenOK
  <2> QED
    BY <1>1, <1>2, <1>3, <2>1 DEF SeenOK, ListedFirst
<1>6. ReqOK'
  BY <1>1, <1>3 DEF ReqOK
<1>7. ASSUME NEW e \in Exts PROVE MarkOK(e)'
  <2>1. ~cache'[e].live
    BY <1>2, KindsOfObjects
  <2>2. ASSUME NEW r \in Rules, MarkedBy(r, e) PROVE MarkedBy(r, e)'
    BY <1>1, <1>3, <1>4, <2>2 DEF MarkedBy, InRange
  <2>3. MarkOK(e)
    BY DEF SettledInv
  <2> QED
    BY <1>1, <2>1, <2>2, <2>3 DEF MarkOK
<1>8. ASSUME NEW r \in Rules, NEW e \in Exts PROVE PairOK(r, e)'
  <2>1. ~cache'[r].live
    BY <1>2, KindsOfObjects
  <2>2. KeepsHeld(r, e) /\ HeldOK(r, e)
    BY <1>1, SamePairs DEF SettledInv, PairOK
  <2>3. HeldOK(r, e)'
    BY <1>1, <1>3, <1>4, <2>2 DEF HeldOK, KeepsHeld, InRange
  <2> QED
    BY <2>1, <2>3 DEF PairOK, LabelledOK, ContentOK, Serves
<1> QED
  BY <1>5, <1>6, <1>7, <1>8 DEF SettledInv

LEMMA StutterSettles ==
    ASSUME Typed, SettledInv, UNCHANGED vars PROVE SettledInv'
<1>1. UNCHANGED <<api, cache, fresh, synced, queue, store, workers>>
  BY DEF vars, informers
<1>2. Calm' <=> Calm
  BY <1>1 DEF Calm, Up, ExtOf, workers
<1>3. SeenOK'
  BY <1>1, <1>2 DEF SettledInv, SeenOK, ListedFirst, Up, Same, Disturbed, Pending, workers
<1>4. ReqOK'
  <2>1. Alike /\ \A w \in Workers : Waits(w)
    BY <1>1, SameObjects DEF workers, Waits
  <2>2. pc' = pc /\ \A w \in Types \cup {"ext"} : w \in Workers
    BY <1>1 DEF workers, Workers
  <2>3. ASSUME NEW w \in Types, pc'[w] # "idle" PROVE RuleReq(w)'
    BY <1>1, <2>1, <2>2, <2>3, RuleReqStays DEF SettledInv, ReqOK
  <2>4. pc'["ext"] # "idle" => ExtReq'
    BY <1>1, <2>1, <2>2, ExtReqStays DEF SettledInv, ReqOK
  <2> QED
    BY <1>1, <2>3, <2>4 DEF SettledInv, ReqOK
<1>5. ASSUME NEW r \in Rules, NEW e \in Exts
      PROVE  /\ Due(r, e)' <=> Due(r, e)
             /\ InHand(r, e)' <=> InHand(r, e)
             /\ Removal(r, e)' <=> Removal(r, e)
             /\ ExtDue(r, e)' <=> ExtDue(r, e)
  BY <1>1 DEF workers, InHand, Due, Pending, Doing, Posting, Busy, Removal, ExtDue, ExtPending, ExtDoing
<1>6. ASSUME NEW e \in Exts PROVE MarkOK(e)'
  BY <1>1, <1>2, <1>5 DEF SettledInv, MarkOK, MarkedBy, Disturbed, InRange, Up
<1>7. ASSUME NEW r \in Rules, NEW e \in Exts PROVE PairOK(r, e)'
  <2>1. PairOK(r, e) /\ KeepsHeld(r, e)
    BY <1>1, SamePairs DEF SettledInv
  <2>2. Serves(r, e)' <=> Serves(r, e)
    BY <1>1, <2>1 DEF Serves, InRange, KeepsHeld
  <2>3. HeldOK(r, e)'
    BY <1>1, <1>5, <2>1 DEF PairOK, HeldOK, KeepsHeld, InRange, Up
  <2>4. LabelledOK(r, e)' /\ ContentOK(r, e)'
    BY <1>1, <1>5, <2>1, <2>2 DEF PairOK, LabelledOK, ContentOK, KeepsHeld
  <2> QED
    BY <2>3, <2>4 DEF PairOK
<1> QED
  BY <1>3, <1>4, <1>6, <1>7 DEF SettledInv

-----------------------------------------------------------------------------
(* The invariant holds. *)

LEMMA SettledStep ==
    ASSUME Settling, Typed, Typed', StoreTypeOK, RefsResolve, SettledInv, [Next]_vars
    PROVE  SettledInv'
<1>1. CASE UNCHANGED vars
  BY <1>1, StutterSettles
<1>2. CASE User
  BY <1>2, UserSettles
<1>3. CASE Watch
  BY <1>3, WatchSettles
<1>4. ASSUME NEW w \in Types, RuleWorker(w) PROVE SettledInv'
  BY <1>4, RuleStepSettles, RuleStartSettles, RuleIgnoredSettles DEF RuleWorker
<1>5. CASE ClusterEgressRuleWorker \/ NamespaceEgressRuleWorker \/ ServiceEgressRuleWorker
  BY <1>4, <1>5 DEF ClusterEgressRuleWorker, NamespaceEgressRuleWorker, ServiceEgressRuleWorker, Types
<1>6. CASE ExternalServiceWorker
  BY <1>6, ExternalServiceSettles
<1>7. CASE EndpointsWorker
  BY <1>7, EndpointsSettles
<1>8. CASE Crash
  BY <1>8, CrashSettles
<1> QED
  BY <1>1, <1>2, <1>3, <1>5, <1>6, <1>7, <1>8 DEF Next

\* When users wait, every version that the controller saw of a rule or of an external service
\* is declared, or an entry of the queue or a handler is about to declare it.
THEOREM Settled == Settling /\ Spec => []SettledInv
<1>1. Spec => []StoreTypeOK
  BY ImplementsStore, StoreTyped
<1> SUFFICES ASSUME Settling PROVE Spec => []SettledInv
  OBVIOUS
<1>2. Typed /\ Typed' /\ StoreTypeOK /\ NoOrphanLists /\ RefsResolve /\ SettledInv /\ [Next]_vars => SettledInv'
  BY SettledStep
<1> QED
  BY <1>1, <1>2, SettledInit, HandlersTyped, SystemListsMatch, PTL DEF Spec

-----------------------------------------------------------------------------
(* What users see. *)

\* Once everything is quiet, the controller sees all there is, and has nothing in hand.
LEMMA QuietSees ==
    ASSUME SettledInv, Quiet, NEW r \in Rules, NEW e \in Exts
    PROVE  /\ Calm /\ Up /\ Same(r) /\ Same(e) /\ e \in fresh /\ r \in Cached /\ e \in Cached
           /\ ~Due(r, e) /\ ~InHand(r, e) /\ ~ExtDoing(r, e)
           /\ ~cache[e].live => ~Removal(r, e)
           /\ (e \in Range(api[r].spec.exts) /\ api[r].live) => MayList(r, e)
<1>1. Calm /\ Up /\ fresh = Cached
  BY DEF Quiet, Calm
<1>2. r \in Cached /\ e \in Cached
  BY KindsOfObjects
<1> QED
  BY <1>1, <1>2, NothingInHand, MayListApi DEF SettledInv, SeenOK

\* However users create, edit and delete rules and external services, and whatever fails: once
\* everything is quiet, nothing is left on the BIG-IP of those that were deleted.
THEOREM DeletionsSettle == Settling /\ Spec => []NothingLeft
<1>1. SettledInv => NothingLeft
  <2> SUFFICES ASSUME SettledInv, Quiet, NEW r \in Rules, NEW e \in Exts, Holds(r, e)
               PROVE  r \in LiveRules /\ e \in LiveExts(r)
    BY DEF NothingLeft
  <2>1. Up /\ Same(r) /\ Same(e) /\ ~InHand(r, e) /\ (~cache[e].live => ~Removal(r, e))
    BY QuietSees
  <2>2. InRange(r) /\ e \in Range(api[r].spec.exts) /\ cache[r].live /\ cache[e].live
    BY <2>1 DEF SettledInv, PairOK, HeldOK
  <2> QED
    BY <2>1, <2>2 DEF LiveRules, LiveExts, Same
<1> QED
  BY <1>1, Settled, PTL

\* ... of a rule and an external service that it lists.
LEMMA QuietServes ==
    ASSUME Typed, SettledInv, Quiet, NEW r \in LiveRules, NEW e \in LiveExts(r)
    PROVE  /\ r \in Rules /\ e \in Exts /\ Calm /\ ~InHand(r, e) /\ ~ExtDoing(r, e) /\ ~Due(r, e)
           /\ cache[r].spec = api[r].spec /\ cache[e].live /\ cache[e].spec = api[e].spec
           /\ Holds(r, e) \/ ~Creates(e) => Serves(r, e)
<1>1. r \in Rules /\ api[r].live /\ InRange(r) /\ e \in Range(api[r].spec.exts) /\ api[e].live
  BY DEF LiveRules, LiveExts
<1>2. e \in Exts
  BY <1>1, ListsTyped DEF Typed
<1> QED
  BY <1>1, <1>2, QuietSees DEF Serves, Same

\* However users create, edit and delete rules, and edit external services before they list
\* them and after it: once everything is quiet, every rule has its rule lists, with its action.
THEOREM RulesSettle ==
    Settling /\ (\A e \in Exts : Own(e) /\ ~Creates(e)) /\ Spec => []RulesDeclared
<1> SUFFICES ASSUME Settling, \A e \in Exts : Own(e) /\ ~Creates(e)
             PROVE  Spec => []RulesDeclared
  OBVIOUS
<1>1. Typed /\ SettledInv => RulesDeclared
  <2> SUFFICES ASSUME Typed, SettledInv, Quiet, NEW r \in LiveRules, NEW e \in LiveExts(r)
               PROVE  Holds(r, e) /\ DeclaredFor(r, e).action = api[r].spec.action
    BY DEF RulesDeclared
  <2>1. r \in Rules /\ e \in Exts /\ Serves(r, e) /\ ~InHand(r, e) /\ cache[r].spec = api[r].spec
    BY QuietServes
  <2> QED
    BY <2>1 DEF SettledInv, PairOK, ContentOK
<1> QED
  BY <1>1, Settled, HandlersTyped, PTL

\* Once everything is quiet, a rule that is declared for an external service that it shares
\* with no other has the addresses that this has by now.
THEOREM ContentsSettle ==
    Settling /\ (\A e \in Exts : Own(e)) /\ Spec => []ContentsCurrent
<1> SUFFICES ASSUME Settling, \A e \in Exts : Own(e) PROVE Spec => []ContentsCurrent
  OBVIOUS
<1>1. Typed /\ SettledInv => ContentsCurrent
  <2> SUFFICES ASSUME Typed, SettledInv, Quiet, NEW r \in LiveRules, NEW e \in LiveExts(r),
                      Holds(r, e), api[e].spec \notin Refused
               PROVE  DstOf(r, e) = api[e].spec.content
    BY DEF ContentsCurrent, DstOf
  <2>1. /\ r \in Rules /\ e \in Exts /\ Serves(r, e) /\ Calm
        /\ ~InHand(r, e) /\ ~ExtDoing(r, e) /\ cache[e].live /\ cache[e].spec = api[e].spec
    BY QuietServes
  <2>2. DstOf(r, e) = cache[e].spec.content \/ ExtPending(e)
    BY <2>1 DEF SettledInv, PairOK, ContentOK, ExtDue
  <2>3. ~ExtPending(e)
    BY <2>1 DEF Calm, ExtPending, ExtOf
  <2> QED
    BY <2>1, <2>2, <2>3
<1> QED
  BY <1>1, Settled, HandlersTyped, PTL

\* Once everything is quiet, every external service has the label of the rule that lists
\* it, or none if no rule does.
THEOREM LabelsSettle ==
    Settling /\ (\A e \in Exts : Own(e) /\ ~Creates(e)) /\ Spec => []LabelsMatch
<1> SUFFICES ASSUME Settling, \A e \in Exts : Own(e) /\ ~Creates(e)
             PROVE  Spec => []LabelsMatch
  OBVIOUS
<1>1. Typed /\ SettledInv => LabelsMatch
  <2> SUFFICES ASSUME Typed, SettledInv, Quiet, NEW e \in Exts, api[e].live,
                      NEW types, types = {RuleType[r] : r \in {r \in LiveRules : e \in LiveExts(r)}}
               PROVE  IF types = {} THEN api[e].mark = "none" ELSE api[e].mark \in types
    BY DEF LabelsMatch
  <2>1. ASSUME api[e].mark # "none" PROVE api[e].mark \in types
    <3>1. PICK r \in Rules : MarkedBy(r, e)
      BY <2>1 DEF SettledInv, MarkOK
    <3>2. Up /\ ~Due(r, e) /\ Same(r)
      BY QuietSees
    <3>3. r \in LiveRules /\ e \in LiveExts(r)
      BY <3>1, <3>2 DEF MarkedBy, Same, LiveRules, LiveExts
    <3> QED
      BY <3>1, <3>3 DEF MarkedBy
  <2>2. ASSUME types # {} PROVE api[e].mark \in types
    <3>1. PICK r \in LiveRules : e \in LiveExts(r)
      BY <2>2
    <3>2. r \in Rules /\ Serves(r, e) /\ ~Due(r, e) /\ cache[e].live
      BY <3>1, QuietServes
    <3>3. cache[e].mark = RuleType[r] /\ cache[e].mark = api[e].mark
      BY <3>2 DEF SettledInv, PairOK, LabelledOK, MarkOK
    <3> QED
      BY <3>1, <3>3
  <2> QED
    BY <2>1, <2>2
<1> QED
  BY <1>1, Settled, HandlersTyped, PTL

-----------------------------------------------------------------------------
(* The addresses of the pods.  They settle too, of a rule whose service is its own. *)

SvcRules == {r \in Rules : RuleType[r] = "svc"}
SvcOf(r) == Initial[r].spec.svc
SrcOf(r) == store[TenantOf[r]].src

\* The service of r is there all the time, with ready pods, in the namespace of r; r names no
\* other (isUpdate would drop that), and no other rule names it (the handler of Endpoints
\* stops after one rule).  No external service of r is deleted, as that takes the source
\* address list of r with it.  A patch marks addresses wrongly unless the route domain is 0.
SourcedRule(r) ==
    /\ \A spec \in VersionsOf(r) : spec.svc = SvcOf(r)
    /\ \A p \in SvcRules : SvcOf(p) = SvcOf(r) => p = r
    /\ \A e \in Exts : MayList(r, e) => ~Deletes(e)
    /\ Initial[SvcOf(r)].live /\ ~Deletes(SvcOf(r))
    /\ \A pods \in VersionsOf(SvcOf(r)) : Ready(pods) # {}
    /\ r \in Watched => SvcOf(r) \in Watched
    /\ TenantOf[r] \notin Routed
Sourced == "as3" \notin Faults /\ \A r \in SvcRules : SourcedRule(r)

PodsOK(r) ==
    LET s == SvcOf(r)
    IN  /\ api[s].live /\ api[s].spec \in VersionsOf(s)
        /\ "ep" \in synced => cache[s].live /\ cache[s].spec \in VersionsOf(s)

\* What w has in hand of a service rule is what there is.
SrcReq(w) ==
    LET q == req[w]
    IN  q.rule \in SvcRules => q.ep = SvcOf(q.rule) /\ q.src = Ready(cache[SvcOf(q.rule)].spec)
SrcReqs == \A w \in {"svc", "ext", "ep"} : pc[w] # "idle" => SrcReq(w)

\* The external services that are gone were deleted.
GoneOK ==
    /\ \A i \in queue : (i.key \in Exts /\ ~cache[i.key].live) => Deletes(i.key)
    /\ (pc["ext"] # "idle" /\ ~cache[item["ext"].key].live) => Deletes(item["ext"].key)

\* The handler of the service has yet to patch the list of r.
EpDue(r) ==
    \/ \E i \in queue : i.key = SvcOf(r)
    \/ pc["ep"] # "idle" /\ req["ep"].rule = r

SourceOK(r, e) ==
    Holds(r, e) =>
        /\ DeclaredFor(r, e).from = {SvcOf(r)}
        /\ cache[r].live =>
            \/ InHand(r, e)
            \/ /\ <<r, SvcOf(r)>> \in DOMAIN SrcOf(r)
               /\ SrcOf(r)[<<r, SvcOf(r)>>] = Ready(cache[SvcOf(r)].spec) \/ EpDue(r)

\* What every state has of the sources.
SourceInv ==
    /\ SrcReqs /\ GoneOK
    /\ \A r \in SvcRules : PodsOK(r) /\ \A e \in Exts : SourceOK(r, e)

\* A post puts the source address list of its request into b,
ListsSrc(q, b) ==
    LET k == <<q.rule, q.ep>>
    IN  /\ k \in DOMAIN b.src /\ b.src[k] = q.src
        /\ \A e \in Range(q.exts) : b.rules[<<q.rule, e>>].from = {q.ep}

\* ... and leaves those that other rules use as they were in app.
KeepsSrc(q, app, b) ==
    \A r, e, s :
        (/\ r # q.rule /\ app # Absent
         /\ <<r, e>> \in DOMAIN app.rules /\ s \in app.rules[<<r, e>>].from
         /\ <<r, s>> \in DOMAIN app.src) =>
            <<r, s>> \in DOMAIN b.src /\ b.src[<<r, s>>] = app.src[<<r, s>>]

LEMMA PostedSrc ==
    ASSUME NEW app, NEW q \in Requests,
           NEW b, b = (IF UpToDate(app, q) THEN app ELSE Body(app, q))
    PROVE  (~q.isDelete /\ q.src # {} => ListsSrc(q, b)) /\ KeepsSrc(q, app, b)
<1> USE DEF ListsSrc, KeepsSrc
<1> PICK k : k = <<q.rule, q.ep>>
  OBVIOUS
<1> DEFINE d == Delta(q)
           h == Body(app, q)
<1>1. /\ DOMAIN d.rules = KeysOf(q) /\ \A x \in KeysOf(q) : d.rules[x].from = FromOf(q)
      /\ DOMAIN d.src = SrcKeysOf(q) /\ \A x \in SrcKeysOf(q) : d.src[x] = q.src
  BY DEF Delta
<1>2. /\ \A r, e : <<r, e>> \in KeysOf(q) <=> (r = q.rule /\ e \in Range(q.exts))
      /\ \A r, s : <<r, s>> \in SrcKeysOf(q) => r = q.rule
      /\ q.src # {} => k \in SrcKeysOf(q) /\ FromOf(q) = {q.ep}
  BY DEF KeysOf, SrcKeysOf, FromOf
<1>3. q.isDelete \in BOOLEAN /\ \E e : e \in Range(q.exts)
  <2>1. q.isDelete \in BOOLEAN /\ q.exts \in Seq(Exts) /\ q.exts # <<>>
    BY RequestsAssumption DEF WellFormed, IsRequest
  <2>2. Range(q.exts) = {Head(q.exts)} \cup Range(Tail(q.exts))
    BY <2>1, RangeOfLists
  <2> QED
    BY <2>1, <2>2
<1>4. app # Absent => /\ h.rules = MergeAttrs(app.rules, d.rules, q.isDelete)
                      /\ h.src = Used(MergeAttrs(app.src, d.src, q.isDelete), ReferencedSrc(h))
  BY BodyIs DEF IsBody
<1>5. app = Absent => h = (IF q.isDelete THEN Absent ELSE d)
  BY DEF Body
<1>6. \A r, e, s : (<<r, e>> \in DOMAIN h.rules /\ s \in h.rules[<<r, e>>].from) =>
                        <<r, s>> \in ReferencedSrc(h)
  BY DEF ReferencedSrc
<1> HIDE DEF d, h
<1>7. ASSUME app # Absent, ~q.isDelete, q.src # {}
      PROVE  /\ k \in DOMAIN h.src /\ h.src[k] = q.src
             /\ \A e \in Range(q.exts) : /\ <<q.rule, e>> \in DOMAIN h.rules
                                         /\ h.rules[<<q.rule, e>>].from = {q.ep}
  <2> PICK f : f = MergeAttrs(app.src, d.src, q.isDelete)
    OBVIOUS
  <2>1. \A e \in Range(q.exts) : /\ <<q.rule, e>> \in DOMAIN h.rules
                                 /\ h.rules[<<q.rule, e>>].from = {q.ep}
    BY <1>1, <1>2, <1>4, <1>7 DEF MergeAttrs, Override
  <2>2. k \in DOMAIN f /\ f[k] = q.src
    BY <1>1, <1>2, <1>7 DEF MergeAttrs, Override
  <2>3. k \in ReferencedSrc(h)
    BY <1>3, <1>6, <2>1
  <2>4. h.src = Restrict(f, DOMAIN f \cap ReferencedSrc(h))
    BY <1>4, <1>7 DEF Used
  <2> QED
    BY <2>1, <2>2, <2>3, <2>4 DEF Restrict
<1>8. ASSUME app # Absent, NEW r, r # q.rule, NEW e, <<r, e>> \in DOMAIN app.rules,
             NEW s \in app.rules[<<r, e>>].from, <<r, s>> \in DOMAIN app.src
      PROVE  <<r, s>> \in DOMAIN h.src /\ h.src[<<r, s>>] = app.src[<<r, s>>]
  <2> PICK f : f = MergeAttrs(app.src, d.src, q.isDelete)
    OBVIOUS
  <2>1. <<r, e>> \in DOMAIN h.rules /\ h.rules[<<r, e>>] = app.rules[<<r, e>>]
    <3>1. <<r, e>> \notin DOMAIN d.rules
      BY <1>1, <1>2, <1>8
    <3> QED
      BY <1>3, <1>4, <1>8, <3>1, OtherAttrs
  <2>2. <<r, s>> \in DOMAIN f /\ f[<<r, s>>] = app.src[<<r, s>>]
    <3>1. <<r, s>> \notin DOMAIN d.src
      BY <1>1, <1>2, <1>8
    <3> QED
      BY <1>3, <1>8, <3>1, OtherAttrs
  <2>3. <<r, s>> \in ReferencedSrc(h)
    BY <1>6, <1>8, <2>1
  <2>4. h.src = Restrict(f, DOMAIN f \cap ReferencedSrc(h))
    BY <1>4, <1>8 DEF Used
  <2> QED
    BY <2>2, <2>3, <2>4 DEF Restrict
<1>9. CASE UpToDate(app, q)
  <2>1. b = app /\ app # Absent /\ ~q.isDelete /\ Kept(app.src, h.src) /\ Kept(app.rules, h.rules)
    BY <1>9 DEF UpToDate, IsDiff, h
  <2>2. q.src # {} => k \in DOMAIN app.src /\ app.src[k] = q.src
    BY <1>7, <2>1 DEF Kept
  <2>3. q.src # {} => \A e \in Range(q.exts) : app.rules[<<q.rule, e>>].from = {q.ep}
    BY <1>7, <2>1 DEF Kept
  <2> QED
    BY <2>1, <2>2, <2>3
<1>10. CASE ~UpToDate(app, q)
  <2>1. b = h
    BY <1>10 DEF h
  <2>2. CASE app = Absent
    BY <1>1, <1>2, <1>5, <2>1, <2>2
  <2>3. CASE app # Absent
    BY <1>7, <1>8, <2>1, <2>3
  <2> QED
    BY <2>2, <2>3
<1> QED
  BY <1>9, <1>10

\* The source address list of r for s stays.
KeepsList(r, s) ==
    LET k == <<r, s>>
    IN  k \in DOMAIN SrcOf(r) => k \in DOMAIN SrcOf(r)' /\ SrcOf(r)'[k] = SrcOf(r)[k]

\* As3Request.
LEMMA PostedSources ==
    ASSUME Typed, StoreTypeOK, NEW w \in Types \cup {"ext"}, pc[w] = "post",
           Posted(w), NEW q, q = req[w]
    PROVE  /\ (~q.isDelete /\ q.src # {}) =>
                /\ <<q.rule, q.ep>> \in DOMAIN SrcOf(q.rule)'
                /\ SrcOf(q.rule)'[<<q.rule, q.ep>>] = q.src
                /\ \A e \in Range(q.exts) : DeclaredFor(q.rule, e)'.from = {q.ep}
           /\ \A r \in Rules, e \in Exts : (r # q.rule /\ Holds(r, e)) =>
                \A s \in DeclaredFor(r, e).from : KeepsList(r, s)
<1> PICK t : t = TenantOf[q.rule]
  OBVIOUS
<1>1. q \in Requests
  BY BusyWorker, RulePostable, PostableRequest DEF Workers, Typed
<1>2. q.rule \in Rules /\ t \in Tenants
  BY <1>1, RequestsAssumption, DeclarationAssumption DEF WellFormed, IsRequest
<1>3. DOMAIN store = Tenants
  BY DEF StoreTypeOK
<1>4. /\ store'[t] = IF UpToDate(store[t], q) THEN store[t] ELSE Body(store[t], q)
      /\ \A u \in Tenants : u # t => store'[u] = store[u]
  <2>1. CASE UpToDate(store[t], q)
    BY <2>1 DEF Posted
  <2>2. CASE ~UpToDate(store[t], q)
    <3> PICK b : b = Body(store[t], q)
      OBVIOUS
    <3>1. store' = [store EXCEPT ![t] = b]
      BY <2>2 DEF Posted, Apply
    <3> QED
      BY <1>2, <1>3, <2>2, <3>1
  <2> QED
    BY <2>1, <2>2
<1> PICK app : app = store[t]
  OBVIOUS
<1> PICK b : b = store'[t]
  OBVIOUS
<1>5. b = (IF UpToDate(app, q) THEN app ELSE Body(app, q))
  BY <1>4
<1>6. \A r \in Rules : TenantOf[r] \in Tenants
  BY DeclarationAssumption
<1>7. (~q.isDelete /\ q.src # {} => ListsSrc(q, b)) /\ KeepsSrc(q, app, b)
  BY <1>1, <1>5, PostedSrc
<1>8. ASSUME NEW r \in Rules, r # q.rule, NEW e \in Exts, Holds(r, e),
             NEW s \in DeclaredFor(r, e).from, <<r, s>> \in DOMAIN SrcOf(r)
      PROVE  <<r, s>> \in DOMAIN SrcOf(r)' /\ SrcOf(r)'[<<r, s>>] = SrcOf(r)[<<r, s>>]
  <2>1. CASE TenantOf[r] = t
    BY <1>7, <1>8, <2>1 DEF Holds, DeclaredFor, SrcOf, KeepsSrc
  <2>2. CASE TenantOf[r] # t
    BY <1>4, <1>6, <1>8, <2>2 DEF SrcOf
  <2> QED
    BY <2>1, <2>2
<1> QED
  BY <1>7, <1>8 DEF SrcOf, DeclaredFor, ListsSrc, KeepsList

\* UpdateBigIPSourceAddress.
LEMMA PatchSources ==
    ASSUME StoreTypeOK, NEW p \in Rules, NEW s, NEW A, PatchSource(p, s, A)
    PROVE  /\ <<p, s>> \in DOMAIN SrcOf(p)' /\ SrcOf(p)'[<<p, s>>] = A
           /\ \A r \in Rules : r # p => \A u : KeepsList(r, u)
<1> PICK t \in Tenants : t = TenantOf[p]
  BY DeclarationAssumption
<1> PICK app : app = store[t]
  OBVIOUS
<1>1. /\ app # Absent /\ <<p, s>> \in DOMAIN app.src
      /\ store' = [store EXCEPT ![t] = [app EXCEPT !.src[<<p, s>>] = A]]
  BY DEF PatchSource
<1>2. DOMAIN store = Tenants /\ IsApp(app)
  BY <1>1 DEF StoreTypeOK
<1>3. app = [policy |-> app.policy, rules |-> app.rules, dst |-> app.dst,
             ports |-> app.ports, src |-> app.src, conf |-> app.conf, log |-> app.log]
  BY <1>2 DEF IsApp
<1>4. store'[t].src = [app.src EXCEPT ![<<p, s>>] = A]
  BY <1>1, <1>2, <1>3
<1>5. \A u \in Tenants \ {t} : store'[u] = store[u]
  BY <1>1, <1>2
<1>6. app.src = [k \in DOMAIN app.src |-> app.src[k]]
  BY <1>2 DEF IsApp, Partial
<1> PICK f : f = store'[t].src
  OBVIOUS
<1>7. /\ <<p, s>> \in DOMAIN f /\ f[<<p, s>>] = A
      /\ \A k : (k \in DOMAIN app.src /\ k # <<p, s>>) => k \in DOMAIN f /\ f[k] = app.src[k]
  BY <1>1, <1>4, <1>6
<1>8. ASSUME NEW r \in Rules, r # p, NEW u PROVE KeepsList(r, u)
  <2> PICK k : k = <<r, u>>
    OBVIOUS
  <2>1. TenantOf[r] \in Tenants /\ k # <<p, s>>
    BY <1>8, DeclarationAssumption
  <2>2. CASE TenantOf[r] = t
    BY <1>7, <2>1, <2>2 DEF SrcOf, KeepsList
  <2>3. CASE TenantOf[r] # t
    BY <1>5, <2>1, <2>3 DEF SrcOf, KeepsList
  <2> QED
    BY <2>2, <2>3
<1> QED
  BY <1>7, <1>8 DEF SrcOf

-----------------------------------------------------------------------------
(* What the steps leave alone of the sources. *)

LEMMA ServiceOf ==
    ASSUME NEW r \in SvcRules
    PROVE  /\ r \in Rules /\ SvcOf(r) \in Services /\ SvcOf(r) \in Cached /\ SvcOf(r) \in Objects
           /\ WorkerOf(SvcOf(r)) = "ep" /\ "ep" \in Workers
           /\ SvcOf(r) \notin Rules /\ SvcOf(r) \notin Exts
<1>1. r \in Rules /\ r \in Objects /\ SpecsOf(r) = RuleSpec
  BY KindsOfObjects DEF SvcRules
<1>2. Initial[r].spec \in RuleSpec
  BY <1>1, InformersAssumption
<1>3. SvcOf(r) \in Services
  BY <1>2 DEF RuleSpec, SvcOf
<1> QED
  BY <1>1, <1>3, KindsOfObjects, InformersAssumption DEF Workers

\* An external service that is declared for a service rule is there.
LEMMA DeclaredThere ==
    ASSUME Sourced, SettledInv, GoneOK, Up, NEW r \in SvcRules, NEW e \in Exts, Holds(r, e)
    PROVE  cache[e].live /\ InRange(r) /\ e \in Range(api[r].spec.exts)
<1>1. r \in Rules
  BY DEF SvcRules
<1>2. /\ InRange(r) /\ e \in Range(api[r].spec.exts)
      /\ ~cache[e].live => Removal(r, e)
  BY <1>1 DEF SettledInv, PairOK, HeldOK
<1>3. ~Deletes(e)
  BY <1>1, <1>2, MayListApi DEF SettledInv, Sourced, SourcedRule
<1>4. ASSUME ~cache[e].live PROVE FALSE
  <2>1. CASE \E i \in queue : i.key = e
    BY <1>3, <1>4, <2>1 DEF GoneOK
  <2>2. CASE ExtDoing(r, e)
    BY <1>3, <1>4, <2>2 DEF GoneOK, ExtDoing
  <2> QED
    BY <1>2, <1>4, <2>1, <2>2 DEF Removal
<1> QED
  BY <1>2, <1>4

\* What is declared of the sources for r and e stays,
KeepsSource(r, e) ==
    Holds(r, e)' =>
        /\ Holds(r, e) /\ DeclaredFor(r, e)'.from = DeclaredFor(r, e).from
        /\ SvcOf(r) \in DeclaredFor(r, e).from => KeepsList(r, SvcOf(r))

\* ... and what is still to be done for them, unless the rule is gone.
KeepsHand(r, e) ==
    (Holds(r, e) /\ cache[r].live) => /\ InHand(r, e) => InHand(r, e)'
                                      /\ EpDue(r) => EpDue(r)'

LEMMA SourceStays ==
    ASSUME NEW r, NEW e, KeepsSource(r, e), KeepsHand(r, e),
           cache'[r].live => cache[r].live, cache'[SvcOf(r)].spec = cache[SvcOf(r)].spec,
           SourceOK(r, e)
    PROVE  SourceOK(r, e)'
<1> PICK s : s = SvcOf(r)
  OBVIOUS
<1>1. SvcOf(r)' = s
  BY DEF SvcOf
<1> SUFFICES ASSUME Holds(r, e)'
             PROVE  /\ DeclaredFor(r, e)'.from = {s}
                    /\ cache'[r].live =>
                        \/ InHand(r, e)'
                        \/ /\ <<r, s>> \in DOMAIN SrcOf(r)'
                           /\ SrcOf(r)'[<<r, s>>] = Ready(cache'[s].spec) \/ EpDue(r)'
  BY <1>1 DEF SourceOK
<1>2. /\ Holds(r, e) /\ DeclaredFor(r, e)'.from = DeclaredFor(r, e).from
      /\ (s \in DeclaredFor(r, e).from /\ <<r, s>> \in DOMAIN SrcOf(r)) =>
            <<r, s>> \in DOMAIN SrcOf(r)' /\ SrcOf(r)'[<<r, s>>] = SrcOf(r)[<<r, s>>]
  BY DEF KeepsSource, KeepsList
<1>3. /\ DeclaredFor(r, e).from = {s}
      /\ cache[r].live => \/ InHand(r, e)
                          \/ /\ <<r, s>> \in DOMAIN SrcOf(r)
                             /\ SrcOf(r)[<<r, s>>] = Ready(cache[s].spec) \/ EpDue(r)
  BY <1>2 DEF SourceOK
<1>4. cache[r].live => /\ InHand(r, e) => InHand(r, e)'
                       /\ EpDue(r) => EpDue(r)'
  BY <1>2 DEF KeepsHand
<1> QED
  BY <1>2, <1>3, <1>4

LEMMA SameSources ==
    ASSUME store' = store PROVE \A r, e : KeepsSource(r, e)
BY SameStore DEF KeepsSource, KeepsList, SrcOf

LEMMA PodsStay ==
    ASSUME Alike, NEW r \in SvcRules, PodsOK(r)
    PROVE  /\ PodsOK(r)'
           /\ "ep" \in synced => cache'[SvcOf(r)].spec = cache[SvcOf(r)].spec
<1> PICK s : s = SvcOf(r)
  OBVIOUS
<1>1. SvcOf(r)' = s /\ VersionsOf(s)' = VersionsOf(s)
  BY DEF SvcOf, VersionsOf
<1>2. s \in Cached
  BY ServiceOf
<1>3. /\ api'[s].spec = api[s].spec /\ (api'[s].live <=> api[s].live) /\ synced' = synced
      /\ cache'[s].live <=> cache[s].live
      /\ cache[s].live => cache'[s].spec = cache[s].spec
  BY <1>2, SameBoth DEF Alike
<1>4. /\ api[s].live /\ api[s].spec \in VersionsOf(s)
      /\ "ep" \in synced => cache[s].live /\ cache[s].spec \in VersionsOf(s)
  BY DEF PodsOK
<1> QED
  BY <1>1, <1>3, <1>4 DEF PodsOK

LEMMA SrcReqStays ==
    ASSUME NEW w, req'[w] = req[w],
           \A r \in SvcRules : cache'[SvcOf(r)].spec = cache[SvcOf(r)].spec, SrcReq(w)
    PROVE  SrcReq(w)'
BY DEF SrcReq, SvcRules, SvcOf

\* A step of worker w that is about object k.
LEMMA EpApart ==
    ASSUME NEW w \in Workers \ {"ep"}, \A v \in Workers \ {w} : Waits(v),
           NEW k, k \notin Services, \A i \in queue : i.key = k \/ i \in queue',
           NEW r \in SvcRules, EpDue(r)
    PROVE  EpDue(r)'
<1>1. SvcOf(r) \in Services /\ "ep" \in Workers /\ SvcOf(r)' = SvcOf(r)
  BY ServiceOf DEF SvcOf
<1>2. pc'["ep"] = pc["ep"] /\ req'["ep"] = req["ep"]
  BY <1>1 DEF Waits
<1> QED
  BY <1>1, <1>2 DEF EpDue

LEMMA GoneStays ==
    ASSUME Typed, Alike, GoneOK,
           \A i \in queue' : i.key \in Exts => i \in queue \/ (pc["ext"] # "idle" /\ i = item["ext"]),
           pc'["ext"] # "idle" => \/ pc["ext"] # "idle" /\ item'["ext"] = item["ext"]
                                  \/ item'["ext"] \in queue /\ item'["ext"].key \in Exts
    PROVE  GoneOK'
<1>1. \A o : Deletes(o)' <=> Deletes(o)
  BY DEF Deletes
<1>2. \A e \in Exts : cache'[e].live <=> cache[e].live
  BY KindsOfObjects, SameBoth
<1>3. "ext" \in Workers
  BY DEF Workers
<1>4. /\ pc["ext"] # "idle" => item["ext"].key \in Exts
      /\ pc'["ext"] # "idle" => item'["ext"].key \in Exts
  BY <1>3, BusyWorker, KindsOfObjects DEF EntryOf, IsEntry, Typed
<1>5. ASSUME NEW i \in queue', i.key \in Exts, ~cache'[i.key].live PROVE Deletes(i.key)
  BY <1>2, <1>4, <1>5 DEF GoneOK
<1>6. ASSUME pc'["ext"] # "idle", ~cache'[item'["ext"].key].live PROVE Deletes(item'["ext"].key)
  BY <1>2, <1>4, <1>6 DEF GoneOK
<1> QED
  BY <1>1, <1>5, <1>6 DEF GoneOK

\* As3Request, of a rule whose request has the sources there are.
LEMMA PostedSource ==
    ASSUME Typed, StoreTypeOK, cache' = cache, NEW w \in Types \cup {"ext"}, pc[w] = "post",
           Posted(w), NEW q, q = req[w], NEW r \in SvcRules, NEW e \in Exts, SourceOK(r, e),
           r = q.rule => /\ q.ep = SvcOf(r) /\ q.src = Ready(cache[SvcOf(r)].spec) /\ q.src # {}
                         /\ q.isDelete => ~cache[r].live,
           r # q.rule => KeepsHand(r, e)
    PROVE  SourceOK(r, e)'
<1> PICK s : s = SvcOf(r)
  OBVIOUS
<1>1. r \in Rules /\ SvcOf(r)' = s
  BY DEF SvcRules, SvcOf
<1>2. (r # q.rule \/ e \notin Range(q.exts)) =>
            /\ Holds(r, e)' <=> Holds(r, e)
            /\ Holds(r, e) => DeclaredFor(r, e)' = DeclaredFor(r, e)
  BY <1>1, PostedHolds
<1>3. CASE r # q.rule
  <2>1. Holds(r, e) /\ s \in DeclaredFor(r, e).from => KeepsList(r, s)
    BY <1>1, <1>3, PostedSources
  <2>2. KeepsSource(r, e)
    BY <1>2, <1>3, <2>1 DEF KeepsSource
  <2> QED
    BY <1>3, <2>2, SourceStays
<1>4. CASE r = q.rule /\ q.isDelete
  <2>1. ~cache'[r].live
    BY <1>4
  <2>2. Holds(r, e)' => DeclaredFor(r, e)'.from = {s}
    <3>1. CASE e \in Range(q.exts)
      BY <1>4, <3>1, PostedHolds
    <3>2. CASE e \notin Range(q.exts)
      BY <1>2, <3>2 DEF SourceOK
    <3> QED
      BY <3>1, <3>2
  <2> QED
    BY <1>1, <2>1, <2>2 DEF SourceOK
<1>5. CASE r = q.rule /\ ~q.isDelete
  <2>1. /\ <<r, s>> \in DOMAIN SrcOf(r)' /\ SrcOf(r)'[<<r, s>>] = Ready(cache[s].spec)
        /\ \A x \in Range(q.exts) : DeclaredFor(r, x)'.from = {s}
    BY <1>5, PostedSources
  <2>2. Holds(r, e)' => DeclaredFor(r, e)'.from = {s}
    <3>1. CASE e \in Range(q.exts)
      BY <2>1, <3>1
    <3>2. CASE e \notin Range(q.exts)
      BY <1>2, <3>2 DEF SourceOK
    <3> QED
      BY <3>1, <3>2
  <2> QED
    BY <1>1, <2>1, <2>2 DEF SourceOK
<1> QED
  BY <1>3, <1>4, <1>5

\* The pods of the service of a rule while the controller works.
LEMMA PodsThere ==
    ASSUME Sourced, Up, NEW r \in SvcRules, PodsOK(r)
    PROVE  cache[SvcOf(r)].live /\ Ready(cache[SvcOf(r)].spec) # {} /\ "ep" \in synced
BY DEF PodsOK, Sourced, SourcedRule, Up, Workers

-----------------------------------------------------------------------------
(* The sources: a worker of rules goes on with the rule it has. *)

LEMMA StepSends ==
    ASSUME Typed, NEW w \in Types, RuleStep(w), pc'[w] # "idle"
    PROVE  /\ req'[w].rule = req[w].rule
           /\ req'[w].ep = req[w].ep /\ req'[w].src = req[w].src
<1>1. w \in Workers
  BY DEF Workers
<1>2. ~Forget(w) /\ ~Requeue(w)
  BY <1>1, GoesIdle
<1>3. CASE Announce(w) \/ Post(w)
  BY <1>2, <1>3 DEF Announce, Post
<1>4. CASE ExtMissing(w) \/ ExtLabelled(w) \/ ExtLabel(w)
  <2> PICK q, t : q = req[w] /\ t = todo[w]
    OBVIOUS
  <2>1. pc[w] = "exts" /\ \E q2 \in {q, With(q, Head(t))} : Proceed(w, q2)
    BY <1>4 DEF ExtMissing, ExtLabelled, ExtLabel, LabelCall
  <2>2. Built(q)
    BY <1>1, <2>1, BusyWorker DEF RuleOK, Typed
  <2> PICK f : f = Override([x \in {Head(t)} |-> cache[Head(t)].spec], q.spec)
    OBVIOUS
  <2> PICK s : s = Append(q.exts, Head(t))
    OBVIOUS
  <2>3. With(q, Head(t)) = [rule |-> q.rule, exts |-> s, spec |-> f, ep |-> q.ep, src |-> q.src,
                            action |-> q.action, conf |-> q.conf, isDelete |-> q.isDelete]
    BY <2>2, WithFields
  <2>4. /\ With(q, Head(t)).rule = q.rule
        /\ With(q, Head(t)).ep = q.ep /\ With(q, Head(t)).src = q.src
    BY <2>3
  <2> QED
    BY <2>1, <2>4, ProceedContinues
<1> QED
  BY <1>2, <1>3, <1>4 DEF RuleStep, ExtLabelFails, PhaseFails, PostFails, NothingToDo, Succeed

LEMMA StepHands ==
    ASSUME Sourced, Typed, StoreTypeOK, RefsResolve, SettledInv, GoneOK, NEW w \in Types,
           RuleStep(w), NEW r \in SvcRules, NEW e \in Exts, r # req[w].rule \/ ~Post(w)
    PROVE  KeepsHand(r, e)
<1> USE DEF SettledInv
<1> SUFFICES ASSUME Holds(r, e), cache[r].live
             PROVE  (InHand(r, e) => InHand(r, e)') /\ (EpDue(r) => EpDue(r)')
  BY DEF KeepsHand
<1>1. /\ w \in Workers \ {"ep"} /\ Up /\ req[w].rule \in Rules /\ item[w].key = req[w].rule
      /\ \A v \in Workers \ {w} : Waits(v)
      /\ queue \subseteq queue'
  BY StepBasics DEF Types
<1>2. r \in Rules /\ cache[e].live /\ e \in Range(api[r].spec.exts)
  BY <1>1, DeclaredThere, ServiceOf
<1>3. EpDue(r) => EpDue(r)'
  <2>1. req[w].rule \notin Services
    BY <1>1, InformersAssumption
  <2>2. \A i \in queue : i.key = req[w].rule \/ i \in queue'
    BY <1>1
  <2> QED
    BY <1>1, <2>1, <2>2, EpApart
<1>4. InHand(r, e) => InHand(r, e)'
  <2>1. CASE r # req[w].rule
    BY <1>2, <2>1, OtherPairs DEF KeepsPair, KeepsDue
  <2>2. CASE r = req[w].rule /\ (ExtMissing(w) \/ NothingToDo(w) \/ Announce(w) \/ Succeed(w))
    BY <1>2, <2>2, OwnPairKept DEF KeepsPair, KeepsDue
  <2>3. CASE r = req[w].rule /\ (ExtLabelled(w) \/ ExtLabel(w))
    BY <1>2, <2>3, LooksHand
  <2>4. CASE /\ r = req[w].rule
             /\ \/ ExtLabelFails(w) \/ PostFails(w)
                \/ PhaseFails(w, "status", "syncing") \/ PhaseFails(w, "done", "success")
    <3>1. Requeue(w)
      BY <2>4 DEF ExtLabelFails, PostFails, PhaseFails
    <3>2. Pending(r)'
      BY <1>1, <2>4, <3>1 DEF Pending, Requeue
    <3> QED
      BY <3>2 DEF InHand, Due
  <2> QED
    BY <2>1, <2>2, <2>3, <2>4 DEF RuleStep
<1> QED
  BY <1>3, <1>4

LEMMA RuleStepSources ==
    ASSUME Sourced, Typed, StoreTypeOK, RefsResolve, SettledInv, SourceInv,
           NEW w \in Types, RuleStep(w)
    PROVE  SourceInv'
<1> USE DEF SettledInv
<1>1. /\ w \in Workers /\ pc[w] # "idle" /\ Up /\ Alike /\ RuleReq(w)
      /\ req[w].rule \in Rules /\ RuleType[req[w].rule] = w /\ item[w].key = req[w].rule
      /\ \A v \in Workers \ {w} : Waits(v)
      /\ queue' \subseteq queue \cup {item[w]}
  BY StepBasics
<1>2. \A r \in SvcRules : /\ PodsOK(r)' /\ Ready(cache[SvcOf(r)].spec) # {}
                          /\ cache'[SvcOf(r)].spec = cache[SvcOf(r)].spec
                          /\ cache'[r].live => cache[r].live
  <2> SUFFICES ASSUME NEW r \in SvcRules
               PROVE  /\ PodsOK(r)' /\ Ready(cache[SvcOf(r)].spec) # {}
                      /\ cache'[SvcOf(r)].spec = cache[SvcOf(r)].spec
                      /\ cache'[r].live => cache[r].live
    OBVIOUS
  <2>1. PodsOK(r)
    BY DEF SourceInv
  <2>2. r \in Cached
    BY ServiceOf, KindsOfObjects
  <2> QED
    BY <1>1, <2>1, <2>2, PodsStay, PodsThere, SameBoth
<1>3. w = "svc" => SrcReq(w)
  BY <1>1 DEF SourceInv, SrcReqs
<1>4. SrcReqs'
  <2> SUFFICES ASSUME NEW v \in {"svc", "ext", "ep"}, pc'[v] # "idle" PROVE SrcReq(v)'
    BY DEF SrcReqs
  <2>1. v \in Workers
    BY DEF Workers, Types
  <2>2. CASE v # w
    <3>1. Waits(v)
      BY <1>1, <2>1, <2>2
    <3>2. req'[v] = req[v] /\ SrcReq(v)
      BY <3>1 DEF Waits, SourceInv, SrcReqs
    <3> QED
      BY <1>2, <3>2, SrcReqStays
  <2>3. CASE v = w
    <3>1. SrcReq(w) /\ w = "svc"
      BY <1>3, <2>3 DEF Types
    <3>2. /\ req'[w].rule = req[w].rule
          /\ req'[w].ep = req[w].ep /\ req'[w].src = req[w].src
      BY <2>3, StepSends
    <3> QED
      BY <1>2, <2>3, <3>1, <3>2 DEF SrcReq, SvcRules, SvcOf
  <2> QED
    BY <2>2, <2>3
<1>5. GoneOK'
  <2>1. "ext" \in Workers \ {w}
    BY DEF Workers, Types
  <2>2. Waits("ext")
    BY <1>1, <2>1
  <2>3. \A i \in queue' : i.key \in Exts => i \in queue
    BY <1>1, InformersAssumption
  <2> QED
    BY <1>1, <2>2, <2>3, GoneStays DEF SourceInv, Waits
<1>6. ASSUME NEW r \in SvcRules, NEW e \in Exts PROVE SourceOK(r, e)'
  <2>1. SourceOK(r, e)
    BY DEF SourceInv
  <2>2. (r # req[w].rule \/ ~Post(w)) => KeepsHand(r, e)
    BY StepHands DEF SourceInv
  <2>3. CASE store' = store
    <3>1. CASE r # req[w].rule \/ ~Post(w)
      BY <1>2, <2>1, <2>2, <2>3, <3>1, SameSources, SourceStays
    <3>2. CASE r = req[w].rule /\ Post(w)
      <4>1. Posted(w) /\ pc[w] = "post" /\ cache' = cache
        BY <3>2 DEF Post
      <4>2. w = "svc"
        BY <1>1, <3>2 DEF SvcRules
      <4>3. /\ req[w].ep = SvcOf(r) /\ req[w].src = Ready(cache[SvcOf(r)].spec) /\ req[w].src # {}
            /\ req[w].isDelete => ~cache[r].live
        BY <1>1, <1>2, <1>3, <3>2, <4>2 DEF SrcReq, RuleReq
      <4> QED
        BY <2>1, <3>2, <4>1, <4>3, PostedSource
    <3> QED
      BY <3>1, <3>2
  <2>4. CASE store' # store
    <3>1. Posted(w) /\ pc[w] = "post" /\ cache' = cache
      <4>1. Post(w) \/ PostFails(w)
        BY <2>4 DEF RuleStep, ExtMissing, ExtLabelled, ExtLabel, ExtLabelFails, PhaseFails, Proceed,
           NothingToDo, Announce, Succeed
      <4> QED
        BY <2>4, <4>1 DEF Post, PostFails
    <3>2. r = req[w].rule => /\ req[w].ep = SvcOf(r) /\ req[w].src = Ready(cache[SvcOf(r)].spec)
                             /\ req[w].src # {} /\ (req[w].isDelete => ~cache[r].live)
      <4> SUFFICES ASSUME r = req[w].rule
                   PROVE  /\ req[w].ep = SvcOf(r) /\ req[w].src = Ready(cache[SvcOf(r)].spec)
                          /\ req[w].src # {} /\ (req[w].isDelete => ~cache[r].live)
        OBVIOUS
      <4>1. w = "svc"
        BY <1>1 DEF SvcRules
      <4> QED
        BY <1>1, <1>2, <1>3, <4>1 DEF SrcReq, RuleReq
    <3> QED
      BY <2>1, <2>2, <3>1, <3>2, PostedSource
  <2> QED
    BY <2>3, <2>4
<1>7. \A r \in SvcRules, e \in Exts : SourceOK(r, e)'
  BY <1>6
<1> QED
  BY <1>2, <1>4, <1>5, <1>7 DEF SourceInv, SvcRules

-----------------------------------------------------------------------------
(* The sources: the other steps of the workers. *)

\* A step of worker w that changes no object.
LEMMA WorkSources ==
    ASSUME Typed, SettledInv, SourceInv, UNCHANGED <<api, cache, fresh, synced>>, Up,
           NEW w \in Workers, \A v \in Workers \ {w} : Waits(v),
           (w \in {"svc", "ext", "ep"} /\ pc'[w] # "idle") => SrcReq(w)',
           \A i \in queue' : i.key \in Exts => i \in queue \/ (pc["ext"] # "idle" /\ i = item["ext"]),
           (w = "ext" /\ pc'[w] # "idle") => item'[w] \in queue /\ item'[w].key \in Exts,
           \A r \in SvcRules, e \in Exts : SourceOK(r, e)'
    PROVE  SourceInv'
<1>1. Alike /\ "ext" \in Workers
  BY SameObjects DEF Workers
<1>2. SrcReqs'
  <2> SUFFICES ASSUME NEW v \in {"svc", "ext", "ep"}, pc'[v] # "idle" PROVE SrcReq(v)'
    BY DEF SrcReqs
  <2>1. v \in Workers
    BY DEF Workers, Types
  <2>2. CASE v # w
    <3>1. Waits(v)
      BY <2>1, <2>2
    <3>2. req'[v] = req[v] /\ SrcReq(v)
      BY <3>1 DEF Waits, SourceInv, SrcReqs
    <3> QED
      BY <3>2, SrcReqStays
  <2>3. CASE v = w
    BY <2>3
  <2> QED
    BY <2>2, <2>3
<1>3. GoneOK'
  <2>1. pc'["ext"] # "idle" => \/ pc["ext"] # "idle" /\ item'["ext"] = item["ext"]
                               \/ item'["ext"] \in queue /\ item'["ext"].key \in Exts
    BY <1>1 DEF Waits
  <2> QED
    BY <1>1, <2>1, GoneStays DEF SourceInv
<1>4. \A r \in SvcRules : PodsOK(r)'
  BY <1>1, PodsStay DEF SourceInv
<1> QED
  BY <1>2, <1>3, <1>4 DEF SourceInv, SvcRules

LEMMA RuleStartSources ==
    ASSUME Sourced, Typed, SettledInv, SourceInv, NEW w \in Types, NEW i \in queue, RuleStart(w, i)
    PROVE  SourceInv'
<1> USE DEF SettledInv
<1> PICK r : r = i.key
  OBVIOUS
<1> PICK spec : spec = SpecRead(i)
  OBVIOUS
<1>1. /\ r \in Rules /\ RuleType[r] = w /\ w \in Workers /\ pc[w] = "idle" /\ Up /\ InRange(r)
      /\ UNCHANGED <<api, cache, fresh, synced, store>>
      /\ queue' = queue \ {i} /\ item'[w] = i /\ todo'[w] = spec.exts
      /\ pc'[w] \in {"exts", "nothing"} /\ (pc'[w] = "nothing" => spec.exts = <<>>)
      /\ OthersWait(w)
  BY RuleStarted
<1>2. ~Calm /\ w # "ext" /\ w # "ep" /\ r \notin Exts /\ r \notin Services /\ r \in Cached
  <2>1. r \notin Exts /\ r \notin Services
    BY <1>1, InformersAssumption
  <2> QED
    BY <1>1, <2>1, TakesCalm, KindsOfObjects DEF RuleStart, Types
<1>3. \A v \in Workers \ {w} : Waits(v)
  BY <1>1 DEF OthersWait, Waits
<1>4. /\ spec.exts = api[r].spec.exts /\ spec \in VersionsOf(r)
      /\ cache[r].live => spec = cache[r].spec
  <2>1. CASE cache[r].live
    <3>1. spec = cache[r].spec
      BY <2>1 DEF SpecRead
    <3> QED
      BY <1>1, <1>2, <2>1, <3>1, BusySees, KindsOfObjects DEF AllSeen, Same, Up, SeenOK
  <2>2. CASE ~cache[r].live
    <3>1. spec = i.spec
      BY <2>2 DEF SpecRead
    <3>2. spec = api[r].spec
      BY <1>1, <2>2, <3>1 DEF ReqOK
    <3> QED
      BY <1>1, <2>2, <3>2 DEF SeenOK
  <2> QED
    BY <2>1, <2>2
<1>5. w = "svc" => SrcReq(w)'
  <2> SUFFICES ASSUME w = "svc" PROVE SrcReq(w)'
    OBVIOUS
  <2> PICK d, c : req' = [req EXCEPT ![w] = Asked(r, spec, d, c)]
    BY DEF RuleStart
  <2>1. req'[w] = Asked(r, spec, d, c)
    BY <1>1 DEF Typed, WorkInv
  <2>2. /\ Asked(r, spec, d, c).rule = r /\ Asked(r, spec, d, c).ep = spec.svc
        /\ Asked(r, spec, d, c).src = SourceOf(r, spec)
    BY DEF Asked
  <2>3. r \in SvcRules /\ spec.svc = SvcOf(r)
    BY <1>1, <1>4 DEF SvcRules, Sourced, SourcedRule
  <2>4. SourceOf(r, spec) = Ready(cache[SvcOf(r)].spec)
    BY <1>1, <2>3 DEF SourceOf
  <2> QED
    BY <1>1, <2>1, <2>2, <2>3, <2>4 DEF SrcReq, SvcRules, SvcOf
<1>6. ASSUME NEW x \in SvcRules, NEW e \in Exts PROVE SourceOK(x, e)'
  <2>1. \A j \in queue : j.key = r \/ j \in queue'
    BY <1>1
  <2>2. EpDue(x) => EpDue(x)'
    BY <1>1, <1>2, <1>3, <2>1, EpApart
  <2>3. ASSUME Holds(x, e), InHand(x, e) PROVE InHand(x, e)'
    <3>1. cache[e].live /\ e \in Range(api[x].spec.exts) /\ x \in Rules
      BY <1>1, <2>3, DeclaredThere, ServiceOf DEF SourceInv
    <3>2. CASE x # r
      <4>1. RuleType[x] = w => ~Busy(x)
        BY <1>1 DEF Busy
      <4>2. KeepsDue(x, e)
        BY <1>1, <1>3, <2>1, <3>1, <3>2, <4>1, Apart
      <4> QED
        BY <2>3, <3>1, <4>2 DEF KeepsDue
    <3>3. CASE x = r
      BY <1>1, <1>4, <3>1, <3>3 DEF InHand, Due, Doing, Busy
    <3> QED
      BY <3>2, <3>3
  <2> QED
    BY <1>1, <2>2, <2>3, SameSources, SourceStays DEF KeepsHand, SourceInv
<1>7. \A j \in queue' : j.key \in Exts => j \in queue
  BY <1>1
<1>8. \A x \in SvcRules, e \in Exts : SourceOK(x, e)'
  BY <1>6
<1>9. (w \in {"svc", "ext", "ep"} /\ pc'[w] # "idle") => SrcReq(w)'
  BY <1>2, <1>5
<1> QED
  BY <1>1, <1>2, <1>3, <1>7, <1>8, <1>9, WorkSources

LEMMA RuleIgnoredSources ==
    ASSUME Sourced, Typed, SettledInv, SourceInv, NEW w \in Types, NEW i \in queue, RuleIgnored(w, i)
    PROVE  SourceInv'
<1> PICK r : r = i.key
  OBVIOUS
<1>1. /\ r \in Rules /\ ~InRange(r) /\ w \in Workers /\ w # "ext" /\ r \notin Services
      /\ UNCHANGED <<api, cache, fresh, synced, store, workers>>
      /\ queue' = queue \ {i} /\ pc[w] = "idle" /\ Up /\ w # "ep"
  <2>1. r \in Rules /\ r \notin Services
    BY InformersAssumption DEF RuleIgnored
  <2> QED
    BY <2>1 DEF RuleIgnored, Takes, Workers, Types
<1>2. \A v \in Workers : Waits(v)
  BY <1>1 DEF workers, Waits
<1>3. \A j \in queue : j.key = r \/ j \in queue'
  BY <1>1
<1>4. ASSUME NEW x \in SvcRules, NEW e \in Exts PROVE SourceOK(x, e)'
  <2>1. EpDue(x) => EpDue(x)'
    BY <1>1, <1>2, <1>3, EpApart
  <2>2. ASSUME Holds(x, e), InHand(x, e) PROVE InHand(x, e)'
    <3>1. cache[e].live /\ InRange(x) /\ x \in Rules
      BY <1>1, <2>2, DeclaredThere, ServiceOf DEF SourceInv
    <3>2. x # r /\ (RuleType[x] = w => ~Busy(x))
      BY <1>1, <3>1 DEF Busy
    <3>3. KeepsDue(x, e)
      BY <1>1, <1>2, <1>3, <3>1, <3>2, Apart
    <3> QED
      BY <2>2, <3>1, <3>3 DEF KeepsDue
  <2> QED
    BY <1>1, <2>1, <2>2, SameSources, SourceStays DEF KeepsHand, SourceInv
<1>5. \A j \in queue' : j.key \in Exts => j \in queue
  BY <1>1
<1>6. \A x \in SvcRules, e \in Exts : SourceOK(x, e)'
  BY <1>4
<1>7. pc'[w] = "idle"
  BY <1>1 DEF workers
<1> QED
  BY <1>1, <1>2, <1>5, <1>6, <1>7, WorkSources

\* Neither the worker of external services nor that of endpoints has a rule in hand.
LEMMA RulesInHand ==
    ASSUME Sourced, SettledInv, SourceInv, Up, NEW w \in {"ext", "ep"},
           \A v \in Workers \ {w} : Waits(v),
           NEW k, k \notin Rules, \A i \in queue : i.key = k \/ i \in queue',
           NEW r \in SvcRules, NEW e \in Exts, Holds(r, e), InHand(r, e)
    PROVE  InHand(r, e)'
<1>1. r \in Rules /\ r # k /\ w \in Workers /\ RuleType[r] # w
  BY ServiceOf, KindsOfObjects DEF Workers, Types
<1>2. cache[e].live
  BY DeclaredThere DEF SourceInv
<1>3. KeepsDue(r, e)
  BY <1>1, Apart
<1> QED
  BY <1>2, <1>3 DEF KeepsDue

\* The request that a handler that found rule r makes.
LEMMA AsksSource ==
    ASSUME Sourced, SettledInv, NEW r \in SvcRules, cache[r].live, NEW d, NEW c
    PROVE  LET q == Asked(r, cache[r].spec, d, c)
           IN  q.rule = r /\ q.ep = SvcOf(r) /\ q.src = Ready(cache[SvcOf(r)].spec)
<1>1. RuleType[r] = "svc" /\ cache[r].spec.svc = SvcOf(r)
  BY DEF SvcRules, SettledInv, SeenOK, Sourced, SourcedRule
<1> QED
  BY <1>1 DEF Asked, SourceOf

LEMMA ExtStartSources ==
    ASSUME Sourced, Typed, SettledInv, SourceInv, NEW i \in queue, ExtStart(i)
    PROVE  SourceInv'
<1> PICK e : e = i.key
  OBVIOUS
<1>1. /\ "ext" \in Workers /\ pc["ext"] = "idle" /\ Up /\ e \in Exts
      /\ UNCHANGED <<api, cache, fresh, synced, store>>
      /\ queue' = queue \ {i} /\ item'["ext"] = i /\ pc'["ext"] = "post"
      /\ \A v \in Workers \ {"ext"} : Waits(v)
  BY ExtStarted
<1>2. SrcReq("ext")'
  <2> PICK r \in RulesListing(e, ExtOf(i).label), c \in Confs :
          SourceKnown(r, cache[r].spec) /\ req' = [req EXCEPT !["ext"] =
                      [Asked(r, cache[r].spec, ~cache[e].live, c) EXCEPT
                          !.exts = <<e>>, !.spec = [x \in {e} |-> ExtOf(i).spec]]]
    BY DEF ExtStart
  <2> PICK d \in BOOLEAN : d <=> ~cache[e].live
    OBVIOUS
  <2> PICK spec, f, one, p : /\ f = [x \in {e} |-> ExtOf(i).spec] /\ one = <<e>>
                             /\ spec = cache[r].spec /\ p = req'["ext"]
    OBVIOUS
  <2> PICK q : q = Asked(r, spec, d, c)
    OBVIOUS
  <2>1. /\ spec \in RuleSpec /\ SourceKnown(r, spec) /\ r \in Rules /\ cache[r].live
        /\ d = ~cache[e].live
    <3>1. cache[e].live \in BOOLEAN
      BY <1>1, KindsOfObjects DEF Typed, InformersTypeOK, Forms
    <3> QED
      BY <3>1, CachedRule DEF Typed, RulesListing
  <2>2. Built(q)
    BY <2>1, AskedBuilt DEF Typed
  <2>3. p = [q EXCEPT !.exts = one, !.spec = f]
    BY <1>1, <2>1 DEF Typed, WorkInv
  <2>4. p.rule = q.rule /\ p.ep = q.ep /\ p.src = q.src
    BY <2>2, <2>3 DEF Built
  <2>5. q.rule = r
    BY DEF Asked
  <2>6. r \in SvcRules => q.ep = SvcOf(r) /\ q.src = Ready(cache[SvcOf(r)].spec)
    BY <2>1, AsksSource
  <2> QED
    BY <1>1, <2>4, <2>5, <2>6 DEF SrcReq, SvcRules, SvcOf
<1>3. ASSUME NEW r \in SvcRules, NEW x \in Exts PROVE SourceOK(r, x)'
  <2>1. e \notin Rules /\ e \notin Services /\ (\A j \in queue : j.key = e \/ j \in queue')
    BY <1>1, InformersAssumption
  <2>2. EpDue(r) => EpDue(r)'
    BY <1>1, <2>1, EpApart
  <2>3. Holds(r, x) /\ InHand(r, x) => InHand(r, x)'
    BY <1>1, <2>1, RulesInHand
  <2> QED
    BY <1>1, <2>2, <2>3, SameSources, SourceStays DEF KeepsHand, SourceInv
<1>4. \A j \in queue' : j.key \in Exts => j \in queue
  BY <1>1
<1>5. \A r \in SvcRules, x \in Exts : SourceOK(r, x)'
  BY <1>3
<1> QED
  BY <1>1, <1>2, <1>4, <1>5, WorkSources

LEMMA ExtIgnoredSources ==
    ASSUME Sourced, Typed, SettledInv, SourceInv, NEW i \in queue, ExtIgnored(i)
    PROVE  SourceInv'
<1>1. /\ "ext" \in Workers /\ pc["ext"] = "idle" /\ Up /\ i.key \in Exts
      /\ UNCHANGED <<api, cache, fresh, synced, store, workers>>
      /\ queue' = queue \ {i}
  <2>1. Takes("ext", i) /\ "ext" \in Workers
    BY DEF ExtIgnored, Workers
  <2>2. i.key \in Exts
    BY <2>1, QueueTyped, KindsOfObjects DEF Takes, Typed, IsEntry
  <2> QED
    BY <2>1, <2>2 DEF ExtIgnored, Takes
<1>2. (\A v \in Workers : Waits(v)) /\ pc'["ext"] = "idle"
  BY <1>1 DEF workers, Waits
<1>3. ASSUME NEW r \in SvcRules, NEW x \in Exts PROVE SourceOK(r, x)'
  <2>1. /\ i.key \notin Rules /\ i.key \notin Services
        /\ \A j \in queue : j.key = i.key \/ j \in queue'
    BY <1>1, InformersAssumption
  <2>2. EpDue(r) => EpDue(r)'
    BY <1>1, <1>2, <2>1, EpApart
  <2>3. Holds(r, x) /\ InHand(r, x) => InHand(r, x)'
    BY <1>1, <1>2, <2>1, RulesInHand
  <2> QED
    BY <1>1, <2>2, <2>3, SameSources, SourceStays DEF KeepsHand, SourceInv
<1>4. \A j \in queue' : j.key \in Exts => j \in queue
  BY <1>1
<1>5. \A r \in SvcRules, x \in Exts : SourceOK(r, x)'
  BY <1>3
<1> QED
  BY <1>1, <1>2, <1>4, <1>5, WorkSources

LEMMA ExtPostSources ==
    ASSUME Sourced, Typed, StoreTypeOK, SettledInv, SourceInv, Post("ext") \/ PostFails("ext")
    PROVE  SourceInv'
<1> PICK q : q = req["ext"]
  OBVIOUS
<1> PICK i : i = item["ext"]
  OBVIOUS
<1> PICK e : e = i.key
  OBVIOUS
<1>1. /\ "ext" \in Workers /\ pc["ext"] = "post"
      /\ UNCHANGED <<api, cache, fresh, synced>> /\ Idle("ext")
      /\ store' = store \/ Posted("ext")
      /\ queue \subseteq queue' /\ queue' \subseteq queue \cup {i}
  BY DEF Post, PostFails, Forget, Requeue, Workers
<1>2. /\ pc'["ext"] = "idle" /\ \A v \in Workers \ {"ext"} : Waits(v)
  BY <1>1 DEF Idle, Typed, WorkInv, Waits
<1>3. Up
  BY <1>1 DEF SettledInv, SeenOK
<1>4. q.rule \in Rules /\ e \in Exts
  BY <1>1, BusyWorker, KindsOfObjects DEF Typed, EntryOf, IsEntry, Postable, Built
<1>5. /\ cache[q.rule].live /\ e \in Range(cache[q.rule].spec.exts)
      /\ q.isDelete <=> ~cache[e].live
  BY <1>1 DEF SettledInv, ReqOK, ExtReq
<1>6. ASSUME q.rule \in SvcRules
      PROVE  /\ q.ep = SvcOf(q.rule) /\ q.src = Ready(cache[SvcOf(q.rule)].spec) /\ q.src # {}
             /\ ~q.isDelete
  <2>1. q.ep = SvcOf(q.rule) /\ q.src = Ready(cache[SvcOf(q.rule)].spec)
    BY <1>1, <1>6 DEF SourceInv, SrcReqs, SrcReq
  <2>2. Ready(cache[SvcOf(q.rule)].spec) # {}
    BY <1>3, <1>6, PodsThere DEF SourceInv
  <2>3. MayList(q.rule, e)
    BY <1>4, <1>5 DEF SettledInv, SeenOK, MayList
  <2>4. ~Deletes(e)
    BY <1>4, <1>6, <2>3 DEF Sourced, SourcedRule
  <2>5. cache[e].live
    BY <1>1, <2>4 DEF SourceInv, GoneOK
  <2> QED
    BY <1>5, <2>1, <2>2, <2>5
<1>7. ASSUME NEW r \in SvcRules, NEW x \in Exts PROVE SourceOK(r, x)'
  <2>1. /\ e \notin Rules /\ e \notin Services
        /\ \A j \in queue : j.key = e \/ j \in queue'
    BY <1>1, <1>4, InformersAssumption
  <2>2. EpDue(r) => EpDue(r)'
    BY <1>1, <1>2, <2>1, EpApart
  <2>3. Holds(r, x) /\ InHand(r, x) => InHand(r, x)'
    BY <1>2, <1>3, <2>1, RulesInHand
  <2>4. KeepsHand(r, x) /\ SourceOK(r, x)
    BY <2>2, <2>3 DEF KeepsHand, SourceInv
  <2>5. CASE store' = store
    BY <1>1, <2>4, <2>5, SameSources, SourceStays
  <2>6. CASE Posted("ext")
    BY <1>1, <1>6, <2>4, <2>6, PostedSource
  <2> QED
    BY <1>1, <2>5, <2>6
<1>8. \A j \in queue' : j.key \in Exts => j \in queue \/ (pc["ext"] # "idle" /\ j = item["ext"])
  BY <1>1
<1>9. \A r \in SvcRules, x \in Exts : SourceOK(r, x)'
  BY <1>7
<1> QED
  BY <1>1, <1>2, <1>3, <1>8, <1>9, WorkSources

-----------------------------------------------------------------------------
(* The sources: the worker of endpoints. *)

LEMMA EndpointsTaken ==
    ASSUME Typed, NEW i \in queue, EndpointsStart(i) \/ EndpointsIgnored(i)
    PROVE  /\ "ep" \in Workers /\ Up /\ i.key \in Services /\ i.key \notin Rules /\ i.key \notin Exts
           /\ UNCHANGED <<api, cache, fresh, synced, store>>
           /\ queue' = queue \ {i} /\ pc["ep"] = "idle"
           /\ \A v \in Workers \ {"ep"} : Waits(v)
<1>1. /\ Takes("ep", i) /\ "ep" \in Workers
      /\ queue' = queue \ {i} /\ UNCHANGED <<api, cache, fresh, synced, store>>
  BY DEF EndpointsStart, EndpointsIgnored, Workers
<1>2. i.key \in Services /\ i.key \notin Rules /\ i.key \notin Exts
  BY <1>1, QueueTyped, KindsOfObjects, InformersAssumption DEF Takes, Typed, IsEntry
<1>3. CASE EndpointsStart(i)
  <2>1. /\ item' = [item EXCEPT !["ep"] = i] /\ pc' = [pc EXCEPT !["ep"] = "patch"]
        /\ todo' = todo /\ \E q : req' = [req EXCEPT !["ep"] = q]
    BY <1>3 DEF EndpointsStart
  <2>2. \A v \in Workers \ {"ep"} : Waits(v)
    BY <2>1 DEF Typed, WorkInv, Waits
  <2> QED
    BY <1>1, <1>2, <2>2 DEF Takes
<1>4. CASE EndpointsIgnored(i)
  <2>1. \A v \in Workers \ {"ep"} : Waits(v)
    BY <1>4 DEF EndpointsIgnored, workers, Waits
  <2> QED
    BY <1>1, <1>2, <2>1 DEF Takes
<1> QED
  BY <1>3, <1>4

LEMMA EndpointsStartSources ==
    ASSUME Sourced, Typed, SettledInv, SourceInv, NEW i \in queue, EndpointsStart(i)
    PROVE  SourceInv'
<1>1. /\ "ep" \in Workers /\ Up /\ i.key \in Services /\ i.key \notin Rules /\ i.key \notin Exts
      /\ UNCHANGED <<api, cache, fresh, synced, store>>
      /\ queue' = queue \ {i} /\ pc["ep"] = "idle"
      /\ \A v \in Workers \ {"ep"} : Waits(v)
  BY EndpointsTaken
<1>2. PICK p \in RulesOf(i.key), c \in Confs :
          req' = [req EXCEPT !["ep"] = Asked(p, cache[p].spec, FALSE, c)]
  BY DEF EndpointsStart
<1>3. p \in SvcRules /\ cache[p].live /\ cache[p].spec.svc = i.key
  BY DEF RulesOf, SvcRules
<1>4. req'["ep"] = Asked(p, cache[p].spec, FALSE, c) /\ pc'["ep"] = "patch"
  BY <1>1, <1>2 DEF EndpointsStart, Typed, WorkInv
<1>5. /\ req'["ep"].rule = p /\ req'["ep"].ep = SvcOf(p) /\ req'["ep"].src = Ready(cache[SvcOf(p)].spec)
      /\ SvcOf(p) = i.key
  <2> PICK d \in BOOLEAN : d <=> FALSE
    OBVIOUS
  <2> PICK q : q = Asked(p, cache[p].spec, d, c)
    OBVIOUS
  <2>1. q.ep = i.key
    BY <1>3 DEF Asked
  <2>2. q.rule = p /\ q.ep = SvcOf(p) /\ q.src = Ready(cache[SvcOf(p)].spec)
    BY <1>3, AsksSource
  <2>3. req'["ep"] = q
    BY <1>4
  <2> QED
    BY <2>1, <2>2, <2>3
<1>6. SrcReq("ep")'
  BY <1>1, <1>5 DEF SrcReq, SvcRules, SvcOf
<1>7. ASSUME NEW r \in SvcRules, NEW e \in Exts PROVE SourceOK(r, e)'
  <2>1. EpDue(r) => EpDue(r)'
    <3> SUFFICES ASSUME EpDue(r) PROVE EpDue(r)'
      OBVIOUS
    <3>1. PICK j \in queue : j.key = SvcOf(r)
      BY <1>1 DEF EpDue
    <3>2. CASE SvcOf(r) = i.key
      <4>1. r = p
        BY <1>3, <1>5, <3>2 DEF Sourced, SourcedRule
      <4> QED
        BY <1>4, <1>5, <4>1 DEF EpDue
    <3>3. CASE SvcOf(r) # i.key
      <4>1. j \in queue'
        BY <1>1, <3>1, <3>3
      <4> QED
        BY <3>1, <4>1 DEF EpDue, SvcOf
    <3> QED
      BY <3>2, <3>3
  <2>2. Holds(r, e) /\ InHand(r, e) => InHand(r, e)'
    BY <1>1, RulesInHand
  <2> QED
    BY <1>1, <2>1, <2>2, SameSources, SourceStays DEF KeepsHand, SourceInv
<1>8. \A j \in queue' : j.key \in Exts => j \in queue
  BY <1>1
<1>9. \A r \in SvcRules, e \in Exts : SourceOK(r, e)'
  BY <1>7
<1> QED
  BY <1>1, <1>6, <1>8, <1>9, WorkSources

LEMMA EndpointsIgnoredSources ==
    ASSUME Sourced, Typed, SettledInv, SourceInv, NEW i \in queue, EndpointsIgnored(i)
    PROVE  SourceInv'
<1>1. /\ "ep" \in Workers /\ Up /\ i.key \in Services /\ i.key \notin Rules /\ i.key \notin Exts
      /\ UNCHANGED <<api, cache, fresh, synced, store>>
      /\ queue' = queue \ {i} /\ pc["ep"] = "idle"
      /\ \A v \in Workers \ {"ep"} : Waits(v)
  BY EndpointsTaken
<1>2. /\ i.key \notin Watched \/ ~cache[i.key].live \/ RulesOf(i.key) = {}
      /\ pc' = pc
  BY DEF EndpointsIgnored, workers
<1>3. ASSUME NEW r \in SvcRules, NEW e \in Exts PROVE SourceOK(r, e)'
  <2>1. ASSUME Holds(r, e), cache[r].live, EpDue(r) PROVE EpDue(r)'
    <3>1. PICK j \in queue : j.key = SvcOf(r)
      BY <1>1, <2>1 DEF EpDue
    <3>2. SvcOf(r) # i.key
      <4> SUFFICES ASSUME SvcOf(r) = i.key PROVE FALSE
        OBVIOUS
      <4>1. InRange(r) /\ RuleType[r] = "svc" /\ r \in Rules
        BY <1>1, <2>1, DeclaredThere DEF SourceInv, SvcRules
      <4>2. r \in Watched /\ SvcOf(r) \in Watched
        BY <4>1 DEF InRange, Sourced, SourcedRule
      <4>3. cache[SvcOf(r)].live
        BY <1>1, PodsThere DEF SourceInv
      <4>4. cache[r].spec.svc = SvcOf(r)
        BY <2>1, <4>1 DEF SettledInv, SeenOK, Sourced, SourcedRule
      <4>5. r \in RulesOf(i.key)
        BY <2>1, <4>1, <4>2, <4>4 DEF RulesOf
      <4> QED
        BY <1>2, <4>2, <4>3, <4>5
    <3>3. j \in queue'
      BY <1>1, <3>1, <3>2
    <3> QED
      BY <3>1, <3>3 DEF EpDue, SvcOf
  <2>2. Holds(r, e) /\ InHand(r, e) => InHand(r, e)'
    BY <1>1, RulesInHand
  <2> QED
    BY <1>1, <2>1, <2>2, SameSources, SourceStays DEF KeepsHand, SourceInv
<1>4. \A j \in queue' : j.key \in Exts => j \in queue
  BY <1>1
<1>5. \A r \in SvcRules, e \in Exts : SourceOK(r, e)'
  BY <1>3
<1> QED
  BY <1>1, <1>2, <1>4, <1>5, WorkSources

LEMMA EndpointsEndSources ==
    ASSUME Sourced, Typed, StoreTypeOK, SettledInv, SourceInv, EndpointsPatch \/ EndpointsPatchFails
    PROVE  SourceInv'
<1> PICK q : q = req["ep"]
  OBVIOUS
<1> PICK p : p = q.rule
  OBVIOUS
<1>1. /\ "ep" \in Workers /\ pc["ep"] = "patch" /\ pc'["ep"] = "idle" /\ Up /\ queue' = queue
      /\ UNCHANGED <<api, cache, fresh, synced>>
      /\ \A v \in Workers \ {"ep"} : Waits(v)
  <2>1. pc["ep"] = "patch" /\ Forget("ep") /\ UNCHANGED <<api, cache, fresh, synced>>
    BY DEF EndpointsPatch, EndpointsPatchFails
  <2>2. "ep" \in Workers /\ Up
    BY <2>1 DEF Workers, SettledInv, SeenOK
  <2> QED
    BY <2>1, <2>2, EndpointsEnds DEF OthersWait, Waits
<1>2. p \in SvcRules /\ p \in Rules
  BY <1>1, BusyWorker DEF Typed, Patchable, Built, SvcRules
<1>3. q.ep = SvcOf(p) /\ q.src = Ready(cache[SvcOf(p)].spec) /\ TenantOf[p] \notin Routed
  BY <1>1, <1>2 DEF SourceInv, SrcReqs, SrcReq, Sourced, SourcedRule
<1>4. \A r \in Rules, e \in Exts :
            Holds(r, e)' => Holds(r, e) /\ DeclaredFor(r, e)' = DeclaredFor(r, e)
  BY SameStore, PatchHolds DEF EndpointsPatch, EndpointsPatchFails
<1>5. \A r \in Rules : r # p => \A u : KeepsList(r, u)
  BY <1>2, PatchSources DEF EndpointsPatch, EndpointsPatchFails, KeepsList, SrcOf
<1>6. ASSUME NEW r \in SvcRules, NEW e \in Exts PROVE SourceOK(r, e)'
  <2>1. SvcOf(r)' = SvcOf(r) /\ r \in Rules
    BY DEF SvcOf, SvcRules
  <2>2. Holds(r, e) /\ InHand(r, e) => InHand(r, e)'
    <3>1. Namespace \notin Rules
      BY InformersAssumption
    <3> QED
      BY <1>1, <3>1, RulesInHand
  <2>3. SourceOK(r, e)
    BY DEF SourceInv
  <2>4. CASE r # p
    <3>1. EpDue(r) => EpDue(r)'
      BY <1>1, <2>1, <2>4 DEF EpDue
    <3>2. KeepsSource(r, e) /\ KeepsHand(r, e)
      BY <1>4, <1>5, <2>1, <2>2, <2>4, <3>1 DEF KeepsSource, KeepsHand
    <3> QED
      BY <1>1, <2>3, <3>2, SourceStays
  <2>5. CASE r = p /\ EndpointsPatch
    <3>1. Patched(q) = Ready(cache[SvcOf(r)].spec)
      BY <1>3, <2>5 DEF Patched
    <3>2. <<r, SvcOf(r)>> \in DOMAIN SrcOf(r)' /\ SrcOf(r)'[<<r, SvcOf(r)>>] = Ready(cache[SvcOf(r)].spec)
      BY <1>2, <1>3, <2>5, <3>1, PatchSources DEF EndpointsPatch
    <3>3. Holds(r, e)' => DeclaredFor(r, e)'.from = {SvcOf(r)}
      BY <1>4, <2>1, <2>3 DEF SourceOK
    <3> QED
      BY <1>1, <2>1, <3>2, <3>3 DEF SourceOK
  <2>6. CASE r = p /\ EndpointsPatchFails
    <3>1. <<r, SvcOf(r)>> \notin DOMAIN SrcOf(r) \/ store[TenantOf[r]] = Absent
      BY <1>3, <2>6 DEF EndpointsPatchFails, SrcOf, Sourced
    <3>2. (Holds(r, e) /\ cache[r].live) => InHand(r, e)
      BY <2>3, <3>1 DEF SourceOK, Holds
    <3>3. store' = store
      BY <2>6 DEF EndpointsPatchFails
    <3>4. Holds(r, e)' => DeclaredFor(r, e)'.from = {SvcOf(r)} /\ Holds(r, e)
      BY <1>4, <2>1, <2>3 DEF SourceOK
    <3> QED
      BY <1>1, <2>1, <2>2, <3>2, <3>4 DEF SourceOK
  <2> QED
    BY <2>4, <2>5, <2>6
<1>7. \A r \in SvcRules, e \in Exts : SourceOK(r, e)'
  BY <1>6
<1> QED
  BY <1>1, <1>7, WorkSources

LEMMA EndpointsSources ==
    ASSUME Sourced, Typed, StoreTypeOK, SettledInv, SourceInv, EndpointsWorker
    PROVE  SourceInv'
BY EndpointsStartSources, EndpointsIgnoredSources, EndpointsEndSources DEF EndpointsWorker

-----------------------------------------------------------------------------
(* The sources: the watches. *)

\* Nothing changes of what the controller knows.
LEMMA KnownSources ==
    ASSUME Typed, SourceInv, UNCHANGED <<queue, store, workers>>,
           \A o \in Rules \cup Exts : cache'[o].live <=> cache[o].live,
           \A r \in SvcRules : PodsOK(r)' /\ cache'[SvcOf(r)].spec = cache[SvcOf(r)].spec
    PROVE  SourceInv'
<1>1. pc' = pc /\ item' = item /\ req' = req /\ todo' = todo /\ "ext" \in Workers
  BY DEF workers, Workers
<1>2. SrcReqs'
  BY <1>1, SrcReqStays DEF SourceInv, SrcReqs
<1>3. GoneOK'
  <2>1. pc["ext"] # "idle" => item["ext"].key \in Exts
    BY <1>1, BusyWorker, KindsOfObjects DEF EntryOf, IsEntry, Typed
  <2> QED
    BY <1>1, <2>1 DEF SourceInv, GoneOK, Deletes
<1>4. ASSUME NEW r \in SvcRules, NEW e \in Exts PROVE SourceOK(r, e)'
  <2>1. KeepsHand(r, e)
    BY <1>1 DEF KeepsHand, InHand, Due, Pending, Doing, Posting, Busy, EpDue, SvcOf
  <2>2. cache'[r].live => cache[r].live
    BY DEF SvcRules
  <2> QED
    BY <2>1, <2>2, SameSources, SourceStays DEF SourceInv
<1>5. \A r \in SvcRules, e \in Exts : SourceOK(r, e)'
  BY <1>4
<1> QED
  BY <1>2, <1>3, <1>5 DEF SourceInv, SvcRules

LEMMA OldNewsSources ==
    ASSUME Typed, SettledInv, SourceInv, UNCHANGED <<store, workers>>,
           NEW o \in Cached, Deliver(o), Same(o)
    PROVE  SourceInv'
<1>1. /\ api' = api /\ synced' = synced /\ queue' = queue
      /\ \A x \in Cached \ {o} : cache'[x] = cache[x]
      /\ cache'[o].live <=> api[o].live
      /\ api[o].live => cache'[o].spec = api[o].spec
  BY Delivered, NoNews DEF Typed
<1>2. Alike
  <2>1. \A x \in Cached : /\ cache'[x].live <=> cache[x].live
                          /\ cache[x].live => cache'[x].spec = cache[x].spec
    BY <1>1 DEF Same
  <2> QED
    BY <1>1, <2>1 DEF Alike
<1>3. "ep" \in synced
  BY DeliveredSees DEF SettledInv, Typed, Up, Workers
<1>4. \A x \in Rules \cup Exts : cache'[x].live <=> cache[x].live
  BY <1>2, KindsOfObjects DEF Alike
<1>5. \A r \in SvcRules : PodsOK(r)' /\ cache'[SvcOf(r)].spec = cache[SvcOf(r)].spec
  BY <1>2, <1>3, PodsStay DEF SourceInv
<1> QED
  BY <1>1, <1>4, <1>5, KnownSources

LEMMA NewsSource ==
    ASSUME Sourced, Typed, SettledInv, SourceInv, NEW o \in Cached, News(o),
           NEW r \in SvcRules, NEW e \in Exts
    PROVE  SourceOK(r, e)'
<1> PICK s : s = SvcOf(r)
  OBVIOUS
<1> SUFFICES ASSUME Holds(r, e)' PROVE SourceOK(r, e)'
  BY DEF SourceOK
<1>1. /\ Up /\ Calm /\ api' = api /\ store' = store /\ queue \subseteq queue'
      /\ Notified(o) => Entry(o, api[o]) \in queue'
      /\ \A x \in Cached \ {o} : cache'[x] = cache[x]
      /\ api[o].live => cache'[o].spec = api[o].spec
  BY NewsComes DEF News
<1>2. /\ r \in Rules /\ s \in Services /\ s \in Cached /\ s \notin Rules /\ s \notin Exts
      /\ SvcOf(r)' = s
  BY ServiceOf DEF SvcOf
<1>3. Holds(r, e) /\ DeclaredFor(r, e)' = DeclaredFor(r, e) /\ SrcOf(r)' = SrcOf(r)
  BY <1>1, SameStore DEF SrcOf
<1>4. cache[r].live /\ ~InHand(r, e)
  BY <1>1, <1>2, <1>3, KnownBefore, NothingInHand
<1>5. /\ DeclaredFor(r, e).from = {s}
      /\ <<r, s>> \in DOMAIN SrcOf(r)
      /\ SrcOf(r)[<<r, s>>] = Ready(cache[s].spec) \/ EpDue(r)
  BY <1>3, <1>4 DEF SourceInv, SourceOK
<1>6. EpDue(r) => EpDue(r)'
  BY <1>1, <1>2 DEF EpDue, News, workers
<1>7. Ready(cache'[s].spec) = Ready(cache[s].spec) \/ EpDue(r)'
  <2> SUFFICES ASSUME Ready(cache'[s].spec) # Ready(cache[s].spec) PROVE EpDue(r)'
    OBVIOUS
  <2>1. o = s
    BY <1>1, <1>2
  <2>2. s \in Watched
    BY <1>1, <1>2, <1>3, DeclaredThere DEF SourceInv, InRange, Sourced, SourcedRule, SvcRules
  <2>3. api[s].live /\ api[s].spec # {} /\ cache[s].live
    BY <1>1, PodsThere DEF SourceInv, PodsOK, Sourced, SourcedRule, Ready
  <2>4. Notified(s)
    BY <1>1, <1>2, <2>1, <2>2, <2>3 DEF Notified, IsUpdate, EndpointsUpdate
  <2>5. Entry(s, api[s]) \in queue' /\ Entry(s, api[s]).key = s
    BY <1>1, <2>1, <2>4 DEF Entry
  <2> QED
    BY <1>2, <2>5 DEF EpDue
<1> QED
  BY <1>2, <1>3, <1>5, <1>6, <1>7 DEF SourceOK

LEMMA NewsSources ==
    ASSUME Sourced, Typed, SettledInv, SourceInv, NEW o \in Cached, News(o)
    PROVE  SourceInv'
<1>1. /\ Up /\ api' = api /\ synced' = synced
      /\ queue' \subseteq queue \cup {Entry(o, api[o])}
      /\ ~api[o].live => cache[o].live
      /\ \A x \in Cached \ {o} : cache'[x] = cache[x]
      /\ cache'[o].live <=> api[o].live
      /\ api[o].live => cache'[o].spec = api[o].spec
      /\ \A w \in Workers : pc'[w] = "idle"
  BY NewsComes
<1>2. SrcReqs'
  BY <1>1 DEF SrcReqs, Workers, Types
<1>3. GoneOK'
  <2>1. "ext" \in Workers /\ "ext" \in synced
    BY <1>1 DEF Workers, Up
  <2>2. ASSUME NEW i \in queue', i.key \in Exts, ~cache'[i.key].live PROVE Deletes(i.key)
    <3>1. CASE i.key = o
      BY <1>1, <2>1, <2>2, <3>1 DEF SettledInv, SeenOK
    <3>2. CASE i.key # o
      <4>1. Entry(o, api[o]).key = o /\ i.key \in Cached
        BY <2>2, KindsOfObjects DEF Entry
      <4> QED
        BY <1>1, <2>2, <3>2, <4>1 DEF SourceInv, GoneOK
    <3> QED
      BY <3>1, <3>2
  <2> QED
    BY <1>1, <2>1, <2>2 DEF GoneOK, Deletes
<1>4. ASSUME NEW r \in SvcRules PROVE PodsOK(r)'
  <2> PICK s : s = SvcOf(r)
    OBVIOUS
  <2>1. s \in Cached /\ SvcOf(r)' = s /\ VersionsOf(s)' = VersionsOf(s)
    BY ServiceOf DEF SvcOf, VersionsOf
  <2>2. api[s].live /\ api[s].spec \in VersionsOf(s) /\ cache[s].live /\ cache[s].spec \in VersionsOf(s)
    BY <1>1 DEF SourceInv, PodsOK, Up, Workers
  <2>3. cache'[s].live /\ cache'[s].spec \in VersionsOf(s)
    BY <1>1, <2>1, <2>2
  <2> QED
    BY <1>1, <2>1, <2>2, <2>3 DEF PodsOK
<1>5. \A r \in SvcRules : PodsOK(r)' /\ \A e \in Exts : SourceOK(r, e)'
  BY <1>4, NewsSource
<1> QED
  BY <1>2, <1>3, <1>5 DEF SourceInv, SvcRules

LEMMA ListSources ==
    ASSUME Typed, SettledInv, SourceInv, UNCHANGED <<store, workers>>,
           NEW k \in Workers, List(k)
    PROVE  SourceInv'
<1>1. /\ \A w \in Workers : pc[w] = "idle"
      /\ api' = api
      /\ \A o \in Cached : WorkerOf(o) \in synced' => Same(o)'
      /\ \A o \in Cached : WorkerOf(o) # k => cache'[o] = cache[o]
      /\ \A i \in queue' : \/ i \in queue
                           \/ \E r \in Rules : i = Entry(r, api[r])
  BY ListComes DEF SettledInv
<1>2. \A w \in Workers : pc'[w] = "idle"
  BY <1>1 DEF workers
<1>3. SrcReqs'
  BY <1>2 DEF SrcReqs, Workers, Types
<1>4. GoneOK'
  <2>1. "ext" \in Workers
    BY DEF Workers
  <2>2. ASSUME NEW i \in queue', i.key \in Exts, ~cache'[i.key].live PROVE Deletes(i.key)
    <3>1. i \in queue /\ i.key \in Cached
      BY <1>1, <2>2, InformersAssumption, KindsOfObjects DEF Entry
    <3>2. WorkerOf(i.key) # k
      BY <3>1 DEF SettledInv, SeenOK, List
    <3> QED
      BY <1>1, <2>2, <3>1, <3>2 DEF SourceInv, GoneOK
  <2> QED
    BY <1>2, <2>1, <2>2 DEF GoneOK, Deletes
<1>5. ASSUME NEW r \in SvcRules PROVE PodsOK(r)'
  <2> PICK s : s = SvcOf(r)
    OBVIOUS
  <2>1. s \in Cached /\ WorkerOf(s) = "ep" /\ SvcOf(r)' = s /\ VersionsOf(s)' = VersionsOf(s)
    BY ServiceOf DEF SvcOf, VersionsOf
  <2>2. api[s].live /\ api[s].spec \in VersionsOf(s)
    BY DEF SourceInv, PodsOK
  <2>3. "ep" \in synced' => cache'[s].live /\ cache'[s].spec = api[s].spec
    BY <1>1, <2>1, <2>2 DEF Same
  <2> QED
    BY <1>1, <2>1, <2>2, <2>3 DEF PodsOK
<1>6. ASSUME NEW r \in SvcRules, NEW e \in Exts PROVE SourceOK(r, e)'
  <2>1. cache'[r].live => InHand(r, e)'
    BY ListPends DEF InHand, Due, SvcRules
  <2>2. Holds(r, e)' => DeclaredFor(r, e)'.from = {SvcOf(r)}
    BY SameStore DEF SourceInv, SourceOK
  <2> QED
    BY <2>1, <2>2 DEF SourceOK, SvcOf
<1>7. \A r \in SvcRules : PodsOK(r)' /\ \A e \in Exts : SourceOK(r, e)'
  BY <1>5, <1>6
<1> QED
  BY <1>3, <1>4, <1>7 DEF SourceInv, SvcRules

LEMMA WatchSources ==
    ASSUME Settling, Sourced, Typed, SettledInv, SourceInv, Watch PROVE SourceInv'
<1>1. UNCHANGED <<store, workers>>
  BY DEF Watch, WatchOf
<1>2. ASSUME NEW o \in Cached, Deliver(o) \/ Missed(o) PROVE SourceInv'
  <2>1. Deliver(o)
    BY <1>2 DEF Missed, Settling, Patient
  <2> QED
    BY <1>1, <2>1, OldNewsSources, NewsSources DEF News
<1> QED
  BY <1>1, <1>2, ListSources DEF Watch, WatchOf

-----------------------------------------------------------------------------
(* The sources: users, and the ends and starts of the process. *)

LEMMA UserSources ==
    ASSUME Settling, Sourced, Typed, SettledInv, SourceInv, User PROVE SourceInv'
<1>1. PICK o \in Objects : \E to : Changed(o, to)
  BY DEF User, Edit, Changed
<1> PICK to : Changed(o, to)
  BY <1>1
<1>2. /\ UNCHANGED <<cache, synced, queue, store, workers>>
      /\ \A x \in Objects \ {o} : api'[x] = api[x]
      /\ to = Gone => (api[o].live => Deletes(o))
      /\ to # Gone => api'[o].live /\ api'[o].spec = to /\ to \in VersionsOf(o)
  BY ChangeComes
<1>3. ASSUME NEW r \in SvcRules PROVE PodsOK(r)'
  <2> PICK s : s = SvcOf(r)
    OBVIOUS
  <2>1. s \in Objects /\ SvcOf(r)' = s /\ VersionsOf(s)' = VersionsOf(s)
    BY ServiceOf DEF SvcOf, VersionsOf
  <2>2. PodsOK(r) /\ ~Deletes(s) /\ api[s].live /\ api[s].spec \in VersionsOf(s)
    BY DEF SourceInv, PodsOK, Sourced, SourcedRule
  <2>3. api'[s].live /\ api'[s].spec \in VersionsOf(s)
    BY <1>2, <2>1, <2>2
  <2> QED
    BY <1>2, <2>1, <2>2, <2>3 DEF PodsOK
<1> QED
  BY <1>2, <1>3, KnownSources

LEMMA CrashSources ==
    ASSUME SourceInv, Crash PROVE SourceInv'
<1>1. /\ cache' = [o \in Cached |-> Unseen(o)] /\ synced' = {} /\ queue' = {}
      /\ api' = api /\ store' = store /\ pc' = [w \in Workers |-> "idle"]
  BY DEF Crash, Restarted
<1>2. SrcReqs' /\ GoneOK'
  BY <1>1 DEF SrcReqs, GoneOK, Workers, Types
<1>3. ASSUME NEW r \in SvcRules PROVE PodsOK(r)'
  BY <1>1, <1>3 DEF SourceInv, PodsOK, SvcOf, VersionsOf
<1>4. ASSUME NEW r \in SvcRules, NEW e \in Exts PROVE SourceOK(r, e)'
  <2>1. ~cache'[r].live
    BY <1>1, KindsOfObjects DEF SvcRules, Unseen
  <2>2. Holds(r, e)' => DeclaredFor(r, e)'.from = {SvcOf(r)}
    BY <1>1, SameStore DEF SourceInv, SourceOK
  <2> QED
    BY <2>1, <2>2 DEF SourceOK, SvcOf
<1>5. \A r \in SvcRules : PodsOK(r)' /\ \A e \in Exts : SourceOK(r, e)'
  BY <1>3, <1>4
<1> QED
  BY <1>2, <1>5 DEF SourceInv, SvcRules

LEMMA SourcesInit == Sourced /\ Init => SourceInv
<1> SUFFICES ASSUME Sourced, Init PROVE SourceInv
  OBVIOUS
<1>1. /\ synced = {} /\ queue = {} /\ pc = [w \in Workers |-> "idle"]
      /\ \A o \in Objects : (api[o].live <=> Initial[o].live) /\ api[o].spec = Initial[o].spec
  BY DEF Init, InformersInit
<1>2. \A r \in Rules, e \in Exts : ~Holds(r, e)
  <2>1. \A t \in Tenants : store[t] = Absent \/ store[t] = DefaultApp(Common)
    BY DEF Init, StoreInit
  <2>2. DefaultApp(Common).rules = <<>>
    BY DEF DefaultApp
  <2>3. \A r \in Rules : TenantOf[r] \in Tenants
    BY DeclarationAssumption
  <2> QED
    BY <2>1, <2>2, <2>3 DEF Holds
<1>3. SrcReqs /\ GoneOK
  BY <1>1 DEF SrcReqs, GoneOK, Workers, Types
<1>4. ASSUME NEW r \in SvcRules PROVE PodsOK(r)
  <2> PICK s \in Objects : s = SvcOf(r)
    BY ServiceOf
  <2>1. Initial[s].live /\ Initial[s].spec # Gone
    BY InformersAssumption DEF Sourced, SourcedRule
  <2> QED
    BY <1>1, <2>1 DEF PodsOK, VersionsOf
<1>5. \A r \in SvcRules, e \in Exts : SourceOK(r, e)
  BY <1>2 DEF SourceOK, SvcRules
<1> QED
  BY <1>3, <1>4, <1>5 DEF SourceInv

LEMMA StutterSources ==
    ASSUME Typed, SourceInv, UNCHANGED vars PROVE SourceInv'
<1>1. UNCHANGED <<api, cache, synced, queue, store, workers>>
  BY DEF vars, informers
<1>2. \A r \in SvcRules : PodsOK(r)'
  BY <1>1 DEF SourceInv, PodsOK, SvcOf, VersionsOf
<1> QED
  BY <1>1, <1>2, KnownSources

-----------------------------------------------------------------------------
(* The addresses of the pods that users see. *)

LEMMA SourceStep ==
    ASSUME Settling, Sourced, Typed, StoreTypeOK, RefsResolve, SettledInv, SourceInv, [Next]_vars
    PROVE  SourceInv'
<1>1. CASE UNCHANGED vars
  BY <1>1, StutterSources
<1>2. CASE User
  BY <1>2, UserSources
<1>3. CASE Watch
  BY <1>3, WatchSources
<1>4. ASSUME NEW w \in Types, RuleWorker(w) PROVE SourceInv'
  BY <1>4, RuleStepSources, RuleStartSources, RuleIgnoredSources DEF RuleWorker
<1>5. CASE ClusterEgressRuleWorker \/ NamespaceEgressRuleWorker \/ ServiceEgressRuleWorker
  BY <1>4, <1>5 DEF ClusterEgressRuleWorker, NamespaceEgressRuleWorker, ServiceEgressRuleWorker, Types
<1>6. CASE ExternalServiceWorker
  BY <1>6, ExtStartSources, ExtIgnoredSources, ExtPostSources DEF ExternalServiceWorker
<1>7. CASE EndpointsWorker
  BY <1>7, EndpointsSources
<1>8. CASE Crash
  BY <1>8, CrashSources
<1> QED
  BY <1>1, <1>2, <1>3, <1>5, <1>6, <1>7, <1>8 DEF Next

\* When users wait, what is declared of the addresses of pods is what the controller saw, or
\* the handler of the rule or that of the Endpoints has still to bring it.
THEOREM SourcesKept == Settling /\ Sourced /\ Spec => []SourceInv
<1>1. Spec => []StoreTypeOK
  BY ImplementsStore, StoreTyped
<1> SUFFICES ASSUME Settling, Sourced PROVE Spec => []SourceInv
  OBVIOUS
<1>2. Init => SourceInv
  BY SourcesInit
<1>3. Typed /\ StoreTypeOK /\ NoOrphanLists /\ RefsResolve /\ SettledInv /\ SourceInv /\ [Next]_vars
            => SourceInv'
  BY SourceStep
<1>4. Spec => []SettledInv
  BY Settled
<1> QED
  BY <1>1, <1>2, <1>3, <1>4, HandlersTyped, SystemListsMatch, PTL DEF Spec

\* However the pods of the services come and go, and the rules and external services change:
\* once everything is quiet, a service rule lets out the addresses that its ready pods have by now.
THEOREM SourcesSettle == Settling /\ Sourced /\ Spec => []SourcesCurrent
<1>1. Typed /\ SettledInv /\ SourceInv /\ Sourced => SourcesCurrent
  <2> SUFFICES ASSUME Typed, SettledInv, SourceInv, Sourced, Quiet,
                      NEW r \in LiveRules, NEW e \in LiveExts(r), RuleType[r] = "svc", Holds(r, e)
               PROVE  /\ DeclaredFor(r, e).from = {api[r].spec.svc}
                      /\ store[TenantOf[r]].src[<<r, api[r].spec.svc>>] = Ready(api[api[r].spec.svc].spec)
    BY DEF SourcesCurrent
  <2>1. r \in SvcRules /\ e \in Exts /\ Calm /\ ~InHand(r, e)
    BY QuietServes DEF SvcRules
  <2> PICK s : s = SvcOf(r)
    OBVIOUS
  <2>2. s \in Cached /\ s \notin Exts /\ WorkerOf(s) = "ep" /\ r \in Rules /\ "ep" \in Workers
    BY <2>1, ServiceOf
  <2>3. api[r].spec.svc = s
    BY <2>1, <2>2 DEF SettledInv, SeenOK, Sourced, SourcedRule
  <2>4. cache[r].live
    BY <2>1, <2>2, KnownBefore DEF Calm
  <2>5. ~EpDue(r)
    BY <2>1, <2>2 DEF Calm, EpDue
  <2>6. /\ DeclaredFor(r, e).from = {s}
        /\ SrcOf(r)[<<r, s>>] = Ready(cache[s].spec)
    BY <2>1, <2>4, <2>5 DEF SourceInv, SourceOK
  <2>7. cache[s].spec = api[s].spec
    <3>1. s \in fresh /\ api[s].live
      BY <2>1, <2>2 DEF Quiet, SourceInv, PodsOK
    <3> QED
      BY <3>1 DEF SettledInv, SeenOK, Same
  <2> QED
    BY <2>3, <2>6, <2>7 DEF SrcOf
<1> SUFFICES ASSUME Settling, Sourced PROVE Spec => []SourcesCurrent
  OBVIOUS
<1>2. Spec => []SettledInv
  BY Settled
<1>3. Spec => []SourceInv
  BY SourcesKept
<1>4. Typed /\ SettledInv /\ SourceInv => SourcesCurrent
  BY <1>1
<1> QED
  BY <1>2, <1>3, <1>4, HandlersTyped, PTL
=============================================================================
