-------------------------- MODULE ControllerProofs --------------------------
(***************************************************************************)
(* Proofs about Controller, for any rules, services and edits, and with      *)
(* every fault: the handlers build only proper requests, so that the         *)
(* controller implements TenantStore, and what TenantStoreProofs shows of    *)
(* declarations holds of the whole system.                                   *)
(***************************************************************************)
EXTENDS Controller, TenantStoreProofs

-----------------------------------------------------------------------------
(* The kinds of objects. *)

\* An entry of a work queue.
IsEntry(i) ==
    /\ i.key \in Cached
    /\ i = [key |-> i.key, spec |-> i.spec, label |-> i.label]
    /\ i.key \in Rules \cup Exts => i.spec \in SpecsOf(i.key)
    /\ i.label \in Marks

LEMMA KindsOfObjects ==
    /\ \A r \in Rules : SpecsOf(r) = RuleSpec /\ WorkerOf(r) = RuleType[r] /\ r \in Cached
                        /\ RuleType[r] \in Types
    /\ \A e \in Exts : SpecsOf(e) = ExtSpecs /\ WorkerOf(e) = "ext" /\ e \in Cached
    /\ \A s \in Services : SpecsOf(s) = SUBSET (Addrs \cup NotReady) /\ WorkerOf(s) = "ep" /\ s \in Cached
    /\ SpecsOf(Namespace) = (SUBSET Addrs) \ {{}} /\ Namespace \in Objects
    /\ \A o \in Cached : o \in Objects /\ WorkerOf(o) \in Workers
    /\ \A o \in Cached : /\ WorkerOf(o) = "ext" => o \in Exts
                         /\ WorkerOf(o) = "ep" => o \in Services
BY InformersAssumption, DeclarationAssumption
   DEF SpecsOf, WorkerOf, Cached, Objects, Workers, Types

LEMMA EntryTyped ==
    ASSUME NEW o \in Cached, NEW v \in Forms(o)
    PROVE  IsEntry(Entry(o, v))
<1>1. v.spec \in SpecsOf(o) /\ v.mark \in Marks
  BY DEF Forms
<1>2. o \in Rules \cup Exts => o \notin Services
  BY InformersAssumption
<1> QED
  BY <1>1, <1>2 DEF Entry, IsEntry, Marks, Labels

LEMMA UnseenTyped ==
    ASSUME NEW o \in Objects PROVE Unseen(o) \in Forms(o)
BY InformersAssumption DEF Unseen, Forms, Marks, Labels

LEMMA ListedTyped ==
    ASSUME InformersTypeOK, NEW o \in Cached PROVE Listed(o) \in Forms(o)
BY UnseenTyped, KindsOfObjects DEF Listed, InformersTypeOK

LEMMA MutatedTyped ==
    ASSUME InformersTypeOK, NEW o \in Cached, NEW mark \in Marks
    PROVE  /\ DOMAIN Mutated(o, mark) = Cached
           /\ \A x \in Cached : Mutated(o, mark)[x] \in Forms(x)
BY DEF Mutated, InformersTypeOK, Forms

\* The workers write marks of objects in the API server, and nothing else.
LEMMA ApiMarkTyped ==
    ASSUME InformersTypeOK, NEW o \in Objects, NEW mark \in Marks
    PROVE  /\ DOMAIN [api EXCEPT ![o].mark = mark] = Objects
           /\ \A x \in Objects : [api EXCEPT ![o].mark = mark][x] \in Forms(x)
BY DEF InformersTypeOK, Forms

LEMMA QueueTyped ==
    InformersTypeOK <=>
        /\ DOMAIN api = Objects /\ \A o \in Objects : api[o] \in Forms(o)
        /\ DOMAIN cache = Cached /\ \A o \in Cached : cache[o] \in Forms(o)
        /\ fresh \subseteq Cached
        /\ synced \subseteq Workers
        /\ \A i \in queue : IsEntry(i)
        /\ object \in [Rules -> Copies]
BY DEF InformersTypeOK, IsEntry

-----------------------------------------------------------------------------
(* Users and informers. *)

LEMMA EditTyped ==
    ASSUME InformersTypeOK, NEW o \in Objects, NEW ch \in Changes[o], Edit(o, ch[2])
    PROVE  InformersTypeOK'
<1>1. ch[2] = Gone \/ ch[2] \in SpecsOf(o)
  BY InformersAssumption
<1>2. Edited(api[o], ch[2]) \in Forms(o)
  <2>1. api[o] \in Forms(o)
    BY DEF InformersTypeOK
  <2> QED
    BY <1>1, <2>1 DEF Edited, Forms, Marks, Labels
<1>3. DOMAIN api' = Objects /\ \A x \in Objects : api'[x] \in Forms(x)
  BY <1>2 DEF Edit, InformersTypeOK
<1>4. object' \in [Rules -> Copies]
  BY DEF Edit, InformersTypeOK, Copies
<1> QED
  BY <1>3, <1>4 DEF Edit, InformersTypeOK

LEMMA WatchTyped ==
    ASSUME InformersTypeOK, NEW k \in Workers, WatchOf(k)
    PROVE  InformersTypeOK'
<1>1. ASSUME NEW o \in Cached, Deliver(o) \/ Missed(o) PROVE InformersTypeOK'
  <2>1. Replace(o) /\ queue' \subseteq queue \cup {Entry(o, api[o])}
    BY <1>1 DEF Deliver, Missed
  <2>2. IsEntry(Entry(o, api[o]))
    BY EntryTyped, KindsOfObjects DEF InformersTypeOK
  <2>3. DOMAIN cache' = Cached /\ \A x \in Cached : cache'[x] \in Forms(x)
    BY <2>1, ListedTyped DEF Replace, InformersTypeOK
  <2>4. object' \in [Rules -> Copies]
    BY <2>1 DEF Replace, InformersTypeOK, Copies
  <2>5. \A i \in queue' : IsEntry(i)
    BY <2>1, <2>2, QueueTyped
  <2> QED
    BY <2>1, <2>3, <2>4, <2>5 DEF Replace, InformersTypeOK, IsEntry
<1>2. CASE List(k)
  <2>1. DOMAIN cache' = Cached /\ \A x \in Cached : cache'[x] \in Forms(x)
    BY <1>2, ListedTyped DEF List, InformersTypeOK
  <2>2. \A r \in Rules : IsEntry(Entry(r, api[r]))
    BY EntryTyped, KindsOfObjects DEF InformersTypeOK
  <2>3. \A i \in queue' : IsEntry(i)
    BY <1>2, <2>2, QueueTyped DEF List
  <2> QED
    BY <1>2, <2>1, <2>3 DEF List, InformersTypeOK, IsEntry
<1> QED
  BY <1>1, <1>2 DEF WatchOf

LEMMA RestartTyped ==
    ASSUME InformersTypeOK, Restarted PROVE InformersTypeOK'
BY UnseenTyped, KindsOfObjects DEF Restarted, InformersTypeOK, Copies

-----------------------------------------------------------------------------
(* The workers.  The strengthening: the external services that the handler of a   *)
(* rule has looked up, followed by those it has not, are what is left of a list   *)
(* of the rule.                                                                   *)

\* A request, but for its external services.
Built(q) ==
    /\ q = [rule |-> q.rule, exts |-> q.exts, spec |-> q.spec, ep |-> q.ep, src |-> q.src,
            action |-> q.action, conf |-> q.conf, isDelete |-> q.isDelete]
    /\ q.rule \in Rules /\ q.ep \in Services /\ q.src \subseteq Addrs
    /\ q.action \in Actions /\ q.conf \in Confs /\ q.isDelete \in BOOLEAN
    /\ RuleType[q.rule] = "global" => q.src = {}
    /\ RuleType[q.rule] = "ns" => q.src # {}

Specified(q) == q.exts \in Seq(Exts) /\ q.spec \in [Range(q.exts) -> ExtSpecs]

Postable(q) == Built(q) /\ Specified(q) /\ q.exts \in Lists /\ q.exts # <<>>

Patchable(q) == Built(q) /\ Specified(q) /\ q.src # {} /\ RuleType[q.rule] = "svc"

RuleOK(p, q, t) ==
    /\ p \in Steps \ {"idle", "patch"}
    /\ Built(q) /\ Specified(q)
    /\ t \in Seq(Exts) /\ t \in Lists \cup {<<>>} /\ q.exts \o t \in Lists
    /\ p = "exts" => t # <<>>
    /\ p \in {"status", "post", "done"} => t = <<>> /\ q.exts # <<>>

EntryOf(w, i) == IsEntry(i) /\ WorkerOf(i.key) = w

WorkerOK(w, p, i, q, t) ==
    \/ p = "idle" /\ i = NoItem /\ q = NoItem /\ t = <<>>
    \/ EntryOf(w, i) /\ w \in Types /\ RuleOK(p, q, t)
    \/ EntryOf(w, i) /\ w = "ext" /\ p = "post" /\ Postable(q) /\ t = <<>>
    \/ EntryOf(w, i) /\ w = "ep" /\ p = "patch" /\ Patchable(q) /\ t = <<>>

WorkInv ==
    /\ pc = [w \in Workers |-> pc[w]]
    /\ item = [w \in Workers |-> item[w]]
    /\ req = [w \in Workers |-> req[w]]
    /\ todo = [w \in Workers |-> todo[w]]
    /\ announced \in [Workers -> BOOLEAN]
    /\ \A w \in Workers : WorkerOK(w, pc[w], item[w], req[w], todo[w])

\* A step changes the state of one worker.
LEMMA WorkerStep ==
    ASSUME WorkInv, NEW w \in Workers, NEW p, NEW i, NEW q, NEW t, NEW a \in BOOLEAN,
           pc' = [pc EXCEPT ![w] = p],
           item' = [item EXCEPT ![w] = i],
           req' = [req EXCEPT ![w] = q],
           todo' = [todo EXCEPT ![w] = t],
           announced' = [announced EXCEPT ![w] = a],
           WorkerOK(w, p, i, q, t)
    PROVE  WorkInv'
<1>1. /\ pc' = [v \in Workers |-> IF v = w THEN p ELSE pc[v]]
      /\ item' = [v \in Workers |-> IF v = w THEN i ELSE item[v]]
      /\ req' = [v \in Workers |-> IF v = w THEN q ELSE req[v]]
      /\ todo' = [v \in Workers |-> IF v = w THEN t ELSE todo[v]]
      /\ announced' \in [Workers -> BOOLEAN]
  BY DEF WorkInv
<1>2. ASSUME NEW v \in Workers PROVE WorkerOK(v, pc'[v], item'[v], req'[v], todo'[v])
  <2>1. CASE v = w
    BY <1>1, <2>1
  <2>2. CASE v # w
    <3>1. pc'[v] = pc[v] /\ item'[v] = item[v] /\ req'[v] = req[v] /\ todo'[v] = todo[v]
      BY <1>1, <2>2
    <3>2. WorkerOK(v, pc[v], item[v], req[v], todo[v])
      BY DEF WorkInv
    <3> QED
      BY <3>1, <3>2
  <2> QED
    BY <2>1, <2>2
<1>3. /\ pc' = [v \in Workers |-> pc'[v]]
      /\ item' = [v \in Workers |-> item'[v]]
      /\ req' = [v \in Workers |-> req'[v]]
      /\ todo' = [v \in Workers |-> todo'[v]]
  BY <1>1
<1>4. \A v \in Workers : WorkerOK(v, pc[v], item[v], req[v], todo[v])'
  BY <1>2, Zenon DEF WorkerOK, EntryOf, IsEntry, RuleOK, Built, Specified, Postable, Patchable
<1> QED
  BY <1>1, <1>3, <1>4 DEF WorkInv

\* It goes on with what it has.
LEMMA PcStep ==
    ASSUME WorkInv, NEW w \in Workers, NEW p,
           pc' = [pc EXCEPT ![w] = p], UNCHANGED <<item, req, todo, announced>>,
           WorkerOK(w, p, item[w], req[w], todo[w])
    PROVE  WorkInv'
<1>1. pc' = [v \in Workers |-> IF v = w THEN p ELSE pc[v]]
  BY DEF WorkInv
<1>2. ASSUME NEW v \in Workers PROVE WorkerOK(v, pc'[v], item'[v], req'[v], todo'[v])
  BY <1>1 DEF WorkInv
<1>3. \A v \in Workers : WorkerOK(v, pc[v], item[v], req[v], todo[v])'
  BY <1>2, Zenon DEF WorkerOK, EntryOf, IsEntry, RuleOK, Built, Specified, Postable, Patchable
<1> QED
  BY <1>1, <1>3 DEF WorkInv

LEMMA WorkUnchanged ==
    ASSUME WorkInv, UNCHANGED workers PROVE WorkInv'
<1>1. pc' = pc /\ item' = item /\ req' = req /\ todo' = todo /\ announced' = announced
  BY DEF workers
<1>2. ASSUME NEW v \in Workers PROVE WorkerOK(v, pc'[v], item'[v], req'[v], todo'[v])
  BY <1>1 DEF WorkInv
<1>3. \A v \in Workers : WorkerOK(v, pc[v], item[v], req[v], todo[v])'
  BY <1>2, Zenon DEF WorkerOK, EntryOf, IsEntry, RuleOK, Built, Specified, Postable, Patchable
<1> QED
  BY <1>1, <1>3 DEF WorkInv

LEMMA IdleStep ==
    ASSUME WorkInv, NEW w \in Workers, Idle(w) PROVE WorkInv'
<1>1. WorkerOK(w, "idle", NoItem, NoItem, <<>>)
  BY DEF WorkerOK
<1> QED
  BY <1>1, WorkerStep DEF Idle

LEMMA IdleObject ==
    ASSUME InformersTypeOK, NEW w, Idle(w) PROVE object' \in [Rules -> Copies]
BY DEF Idle, InformersTypeOK, Copies

\* A worker that has an entry of its queue.
LEMMA BusyWorker ==
    ASSUME WorkInv, NEW w \in Workers, pc[w] # "idle"
    PROVE  /\ EntryOf(w, item[w])
           /\ w \in Types => RuleOK(pc[w], req[w], todo[w])
           /\ w = "ext" => pc[w] = "post" /\ Postable(req[w])
           /\ w = "ep" => pc[w] = "patch" /\ Patchable(req[w])
<1>1. "ext" \notin Types /\ "ep" \notin Types
  BY DEF Types
<1>2. WorkerOK(w, pc[w], item[w], req[w], todo[w])
  BY DEF WorkInv
<1> QED
  BY <1>1, <1>2 DEF WorkerOK

LEMMA PostableRequest ==
    ASSUME NEW q, Postable(q) PROVE q \in Requests
<1>1. q.exts \in Lists /\ q.spec \in [Range(q.exts) -> ExtSpecs]
  BY DEF Postable, Specified
<1>2. Range(q.exts) \subseteq Exts
  BY DEF Postable, Specified, Range
<1>3. q.spec \in UNION {[S -> ExtSpecs] : S \in SUBSET Exts}
  BY <1>1, <1>2
<1>4. WellFormed(q)
  <2>1. IsRequest(q)
    BY <1>1, InformersAssumption DEF IsRequest, Postable, Built, Specified
  <2>2. IsInjective(q.exts)
    BY <1>1, InformersAssumption
  <2>3. \A e \in Range(q.exts) : IsInjective(q.spec[e].ports)
    BY <1>1, InformersAssumption
  <2> QED
    BY <2>1, <2>2, <2>3 DEF WellFormed, Postable, Built
<1>5. /\ q.rule \in Rules /\ q.ep \in Services /\ q.src \in SUBSET Addrs
      /\ q.action \in Actions /\ q.conf \in Confs /\ q.isDelete \in BOOLEAN
      /\ q = [rule |-> q.rule, exts |-> q.exts, spec |-> q.spec, ep |-> q.ep, src |-> q.src,
              action |-> q.action, conf |-> q.conf, isDelete |-> q.isDelete]
  BY DEF Postable, Built
<1> QED
  BY <1>1, <1>3, <1>4, <1>5, ControllerAssumption

LEMMA RulePostable ==
    ASSUME NEW q, NEW t, RuleOK("post", q, t) PROVE Postable(q)
<1>1. q.exts \o t = q.exts
  BY DEF RuleOK, Specified
<1> QED
  BY <1>1 DEF RuleOK, Postable

-----------------------------------------------------------------------------
(* Lists of external services. *)

LEMMA HeadMoves ==
    ASSUME NEW a \in Seq(Exts), NEW t \in Seq(Exts), t # <<>>
    PROVE  Append(a, Head(t)) \o Tail(t) = a \o t
OBVIOUS

LEMMA HeadDropped ==
    ASSUME NEW a \in Seq(Exts), NEW t \in Seq(Exts), t # <<>>, a \o t \in Lists
    PROVE  a \o Tail(t) \in Lists
<1> DEFINE s == a \o t
           n == Len(a) + 1
<1>1. s \in Seq(Exts) /\ n \in 1..Len(s) /\ Len(s) = Len(a) + Len(t) /\ Len(t) \in Nat \ {0}
  BY EmptySeq
<1>2. SubSeq(s, 1, n - 1) = a
  BY <1>1
<1>3. SubSeq(s, n + 1, Len(s)) = Tail(t)
  BY <1>1
<1>4. RemoveAt(s, n) = a \o Tail(t)
  BY <1>2, <1>3 DEF RemoveAt
<1>5. n \in DOMAIN s /\ s \in Lists
  BY <1>1
<1>6. RemoveAt(s, n) \in Lists
  <2> HIDE DEF s, n
  <2> QED
    BY <1>5, InformersAssumption
<1> QED
  BY <1>4, <1>6

\* Where a handler goes from the loop over the external services.
LEMMA AfterOK ==
    ASSUME NEW q, NEW rest \in Seq(Exts), NEW known \in BOOLEAN, rest \in Lists \cup {<<>>},
           Built(q), Specified(q), q.exts \o rest \in Lists
    PROVE  RuleOK(After(q, rest, known), q, rest)
BY DEF After, RuleOK, Steps

-----------------------------------------------------------------------------
(* One lemma for each step of a worker. *)

Typed == InformersTypeOK /\ WorkInv

LEMMA SourceTyped ==
    ASSUME InformersTypeOK, NEW r \in Rules, NEW spec \in RuleSpec, SourceKnown(r, spec)
    PROVE  /\ SourceOf(r, spec) \subseteq Addrs
           /\ RuleType[r] = "global" => SourceOf(r, spec) = {}
           /\ RuleType[r] = "ns" => SourceOf(r, spec) # {}
<1>1. api[Namespace].spec \subseteq Addrs /\ api[Namespace].spec # {}
  <2>1. api[Namespace].spec \in SpecsOf(Namespace)
    BY KindsOfObjects DEF InformersTypeOK, Forms
  <2> QED
    BY <2>1, KindsOfObjects
<1>2. Ready(cache[spec.svc].spec) \subseteq Addrs
  BY DEF Ready
<1>3. RuleType[r] \in {"global", "ns", "svc"}
  BY KindsOfObjects DEF Types
<1>4. CASE RuleType[r] = "global"
  BY <1>4 DEF SourceOf
<1>5. CASE RuleType[r] = "ns"
  <2>1. SourceOf(r, spec) = api[Namespace].spec
    BY <1>5 DEF SourceOf
  <2> QED
    BY <1>1, <1>5, <2>1
<1>6. CASE RuleType[r] = "svc"
  BY <1>2, <1>6 DEF SourceOf
<1> QED
  BY <1>3, <1>4, <1>5, <1>6

LEMMA AskedBuilt ==
    ASSUME InformersTypeOK, NEW r \in Rules, NEW spec \in RuleSpec, SourceKnown(r, spec),
           NEW isDelete \in BOOLEAN, NEW c \in Confs
    PROVE  Built(Asked(r, spec, isDelete, c)) /\ Specified(Asked(r, spec, isDelete, c))
<1>1. spec.svc \in Services /\ spec.action \in Actions
  BY DEF RuleSpec
<1>2. <<>> \in [Range(<<>>) -> ExtSpecs] /\ <<>> \in Seq(Exts)
  BY DEF Range
<1> QED
  BY <1>1, <1>2, SourceTyped DEF Asked, Built, Specified

LEMMA CachedRule ==
    ASSUME InformersTypeOK, NEW r \in Rules
    PROVE  cache[r].spec \in RuleSpec /\ cache[r].spec.exts \in Lists
<1>1. cache[r].spec \in RuleSpec
  BY KindsOfObjects DEF InformersTypeOK, Forms
<1> QED
  BY <1>1 DEF RuleSpec

LEMMA RuleStartTyped ==
    ASSUME Typed, NEW w \in Types, NEW i \in queue, RuleStart(w, i)
    PROVE  Typed'
<1> USE DEF Typed
<1> DEFINE r == i.key
           isDelete == ~cache[r].live
           spec == SpecRead(i)
           known == ~isDelete /\ cache[r].mark = "syncing"
<1>1. r \in Rules /\ IsEntry(i) /\ w \in Workers /\ cache[r].live \in BOOLEAN
      /\ EntryOf(w, i)
  BY QueueTyped, KindsOfObjects DEF RuleStart, Takes, Workers, InformersTypeOK, Forms, EntryOf
<1>2. spec \in RuleSpec
  BY <1>1, CachedRule, KindsOfObjects DEF SpecRead, IsEntry
<1>3. PICK c \in Confs : req' = [req EXCEPT ![w] = Asked(r, spec, isDelete, c)]
  BY DEF RuleStart
<1> DEFINE q == Asked(r, spec, isDelete, c)
<1>4. Built(q) /\ Specified(q) /\ q.exts = <<>>
  BY <1>1, <1>2, AskedBuilt DEF RuleStart, Asked
<1>5. spec.exts \in Seq(Exts) /\ spec.exts \in Lists /\ q.exts \o spec.exts \in Lists
  <2>1. spec.exts \in Lists /\ spec.exts \in Seq(Exts)
    <3> HIDE DEF spec
    <3> QED
      BY <1>2, InformersAssumption DEF RuleSpec
  <2>2. <<>> \o spec.exts = spec.exts
    BY <2>1
  <2> QED
    BY <1>4, <2>1, <2>2
<1>6. RuleOK(After(q, spec.exts, known), q, spec.exts)
  BY <1>4, <1>5, AfterOK
<1>7. req'[w] = q
  BY <1>1, <1>3 DEF WorkInv
<1>8. WorkInv'
  <2> HIDE DEF q
  <2>1. pc' = [pc EXCEPT ![w] = After(q, spec.exts, known)]
    BY <1>7 DEF RuleStart
  <2>2. WorkerOK(w, After(q, spec.exts, known), i, q, spec.exts)
    BY <1>1, <1>6 DEF WorkerOK
  <2>3. /\ item' = [item EXCEPT ![w] = i]
        /\ req' = [req EXCEPT ![w] = q]
        /\ todo' = [todo EXCEPT ![w] = spec.exts]
        /\ announced' = [announced EXCEPT ![w] = known]
    BY <1>3 DEF RuleStart, q
  <2> HIDE DEF spec, known
  <2>4. known \in BOOLEAN
    BY DEF known
  <2> QED
    BY <1>1, <2>1, <2>2, <2>3, <2>4, WorkerStep
<1>9. InformersTypeOK'
  <2>1. object' \in [Rules -> Copies]
    BY <1>1 DEF RuleStart, InformersTypeOK, Copies
  <2> QED
    BY <1>1, <2>1 DEF RuleStart, InformersTypeOK
<1> QED
  BY <1>8, <1>9

LEMMA Proceeds ==
    ASSUME Typed, NEW w \in Types, pc[w] = "exts", NEW q, Proceed(w, q),
           Built(q), Specified(q), q.exts \o Tail(todo[w]) \in Lists
    PROVE  WorkInv'
<1> USE DEF Typed
<1> DEFINE rest == Tail(todo[w])
<1>1. w \in Workers /\ EntryOf(w, item[w]) /\ RuleOK("exts", req[w], todo[w])
  BY BusyWorker DEF Workers
<1>2. rest \in Seq(Exts) /\ rest \in Lists
  <2>1. todo[w] \in Seq(Exts) /\ todo[w] # <<>> /\ todo[w] \in Lists
    BY <1>1 DEF RuleOK
  <2> PICK t : t = todo[w]
    OBVIOUS
  <2>2. <<>> \o t = t /\ <<>> \o Tail(t) = Tail(t) /\ Tail(t) \in Seq(Exts) /\ <<>> \in Seq(Exts)
    BY <2>1
  <2>3. <<>> \o Tail(t) \in Lists
    BY <2>1, <2>2, HeadDropped
  <2> QED
    BY <2>2, <2>3
<1>3. announced[w] \in BOOLEAN
  BY <1>1 DEF WorkInv
<1>4. RuleOK(After(q, rest, announced[w]), q, rest)
  BY <1>2, <1>3, AfterOK
<1>5. WorkerOK(w, After(q, rest, announced[w]), item[w], q, rest)
  BY <1>1, <1>4 DEF WorkerOK
<1>6. item' = [item EXCEPT ![w] = item[w]] /\ announced' = [announced EXCEPT ![w] = announced[w]]
  BY DEF Proceed, WorkInv
<1> HIDE DEF rest
<1> QED
  BY <1>1, <1>3, <1>5, <1>6, WorkerStep DEF Proceed, rest

LEMMA WithFields ==
    ASSUME NEW q, NEW e, Built(q)
    PROVE  With(q, e) = [rule |-> q.rule, exts |-> Append(q.exts, e),
                         spec |-> Override([x \in {e} |-> cache[e].spec], q.spec),
                         ep |-> q.ep, src |-> q.src, action |-> q.action,
                         conf |-> q.conf, isDelete |-> q.isDelete]
<1> DEFINE t == Append(q.exts, e)
           g == Override([x \in {e} |-> cache[e].spec], q.spec)
<1>1. With(q, e) = [q EXCEPT !.exts = t, !.spec = g]
  BY DEF With
<1> HIDE DEF t, g
<1>2. PICK r, s, f, ep, src, a, c, d :
        q = [rule |-> r, exts |-> s, spec |-> f, ep |-> ep, src |-> src,
             action |-> a, conf |-> c, isDelete |-> d]
  BY DEF Built
<1>3. With(q, e) = [rule |-> r, exts |-> t, spec |-> g, ep |-> ep, src |-> src,
                    action |-> a, conf |-> c, isDelete |-> d]
  BY <1>1, <1>2
<1> QED
  BY <1>2, <1>3 DEF t, g

LEMMA WithBuilt ==
    ASSUME Typed, NEW w \in Types, pc[w] = "exts"
    PROVE  LET q == With(req[w], Head(todo[w]))
           IN  Built(q) /\ Specified(q) /\ q.exts \o Tail(todo[w]) \in Lists
<1> DEFINE e == Head(todo[w])
           q == With(req[w], e)
<1>1. RuleOK("exts", req[w], todo[w])
  BY BusyWorker DEF Typed, Workers
<1>2. e \in Exts /\ req[w].exts \in Seq(Exts) /\ todo[w] \in Seq(Exts) /\ todo[w] # <<>>
  BY <1>1 DEF RuleOK, Specified
<1>3. cache[e].spec \in ExtSpecs
  BY <1>2, KindsOfObjects DEF Typed, InformersTypeOK, Forms
<1>4. q = [rule |-> req[w].rule, exts |-> Append(req[w].exts, e),
           spec |-> Override([x \in {e} |-> cache[e].spec], req[w].spec),
           ep |-> req[w].ep, src |-> req[w].src, action |-> req[w].action,
           conf |-> req[w].conf, isDelete |-> req[w].isDelete]
  <2> HIDE DEF e
  <2>1. Built(req[w])
    BY <1>1 DEF RuleOK
  <2> QED
    BY <2>1, WithFields
<1> HIDE DEF q
<1>5. Built(q)
  BY <1>1, <1>4 DEF RuleOK, Built
<1>6. Range(q.exts) = Range(req[w].exts) \cup {e}
  <2>1. /\ DOMAIN q.exts = DOMAIN req[w].exts \cup {Len(req[w].exts) + 1}
        /\ \A j \in DOMAIN req[w].exts : q.exts[j] = req[w].exts[j]
        /\ q.exts[Len(req[w].exts) + 1] = e
    BY <1>2, <1>4
  <2> QED
    BY <2>1 DEF Range
<1>7. q.spec \in [Range(q.exts) -> ExtSpecs]
  BY <1>1, <1>3, <1>4, <1>6 DEF Override, RuleOK, Specified
<1>8. q.exts \in Seq(Exts)
  BY <1>2, <1>4
<1>9. q.exts \o Tail(todo[w]) \in Lists
  BY <1>1, <1>2, <1>4, HeadMoves DEF RuleOK
<1> QED
  BY <1>5, <1>7, <1>8, <1>9 DEF Specified, q

LEMMA ExtStepsTyped ==
    ASSUME Typed, NEW w \in Types, ExtMissing(w) \/ ExtLabelled(w) \/ ExtLabel(w)
    PROVE  Typed'
<1> USE DEF Typed
<1>1. pc[w] = "exts"
  BY DEF ExtMissing, ExtLabelled, ExtLabel, LabelCall
<1>2. RuleOK("exts", req[w], todo[w])
  BY <1>1, BusyWorker DEF Workers
<1>3. Head(todo[w]) \in Exts
  BY <1>2 DEF RuleOK
<1>4. CASE ExtMissing(w)
  <2>1. req[w].exts \o Tail(todo[w]) \in Lists
    BY <1>2, HeadDropped DEF RuleOK, Specified
  <2>2. WorkInv'
    BY <1>1, <1>2, <1>4, <2>1, Proceeds DEF ExtMissing, RuleOK
  <2> QED
    BY <1>4, <2>2 DEF ExtMissing, Proceed, InformersTypeOK
<1>5. CASE ExtLabelled(w)
  <2>1. WorkInv'
    BY <1>1, <1>5, WithBuilt, Proceeds DEF ExtLabelled
  <2> QED
    BY <1>5, <2>1 DEF ExtLabelled, Proceed, InformersTypeOK
<1>6. CASE ExtLabel(w)
  <2>1. PICK e \in Exts : /\ LabelCall(w, e)
                          /\ WriteLabel(e, NewLabel(w))
                          /\ Proceed(w, With(req[w], e))
    BY <1>6 DEF ExtLabel
  <2>2. WorkInv'
    BY <1>1, <2>1, WithBuilt, Proceeds DEF LabelCall
  <2>3. NewLabel(w) \in Marks
    BY DEF NewLabel, Marks, Labels
  <2>4. DOMAIN cache' = Cached /\ \A o \in Cached : cache'[o] \in Forms(o)
    BY <2>1, <2>3, MutatedTyped, KindsOfObjects DEF LabelCall
  <2>5. DOMAIN api' = Objects /\ \A o \in Objects : api'[o] \in Forms(o)
    BY <2>1, <2>3, ApiMarkTyped, KindsOfObjects DEF WriteLabel
  <2>6. fresh' \subseteq Cached
    BY <2>1 DEF WriteLabel, InformersTypeOK
  <2> QED
    BY <2>1, <2>2, <2>4, <2>5, <2>6 DEF Proceed, InformersTypeOK
<1> QED
  BY <1>4, <1>5, <1>6

LEMMA RequeueTyped ==
    ASSUME Typed, NEW w \in Workers, pc[w] # "idle", Requeue(w)
    PROVE  /\ WorkInv' /\ object' \in [Rules -> Copies]
           /\ \A i \in queue' : IsEntry(i)
<1>1. IsEntry(item[w])
  BY BusyWorker DEF Typed, EntryOf
<1> QED
  BY <1>1, IdleStep, IdleObject, QueueTyped DEF Requeue, Typed

LEMMA ForgetTyped ==
    ASSUME Typed, NEW w \in Workers, Forget(w)
    PROVE  /\ WorkInv' /\ object' \in [Rules -> Copies]
           /\ \A i \in queue' : IsEntry(i)
BY IdleStep, IdleObject, QueueTyped DEF Forget, Typed

LEMMA ExtLabelFailsTyped ==
    ASSUME Typed, NEW w \in Types, ExtLabelFails(w)
    PROVE  Typed'
<1>1. w \in Workers /\ NewLabel(w) \in Marks
  BY DEF Workers, NewLabel, Marks, Labels
<1>2. PICK e \in Exts : /\ LabelCall(w, e)
                        /\ UNCHANGED <<api, fresh>> \/ WriteLabel(e, NewLabel(w))
                        /\ Requeue(w)
                        /\ UNCHANGED <<synced, store>>
  BY DEF ExtLabelFails
<1>3. DOMAIN cache' = Cached /\ \A o \in Cached : cache'[o] \in Forms(o)
  BY <1>1, <1>2, MutatedTyped, KindsOfObjects DEF LabelCall, Typed
<1>4. /\ DOMAIN api' = Objects /\ \A o \in Objects : api'[o] \in Forms(o)
      /\ fresh' \subseteq Cached
  BY <1>1, <1>2, ApiMarkTyped, KindsOfObjects DEF WriteLabel, Typed, InformersTypeOK
<1>5. /\ WorkInv' /\ object' \in [Rules -> Copies]
      /\ \A i \in queue' : IsEntry(i)
  BY <1>1, <1>2, RequeueTyped DEF LabelCall
<1> QED
  BY <1>2, <1>3, <1>4, <1>5 DEF Typed, InformersTypeOK, IsEntry

\* A phase is written, or not, whatever the answer.
LEMMA PhaseTyped ==
    ASSUME InformersTypeOK, NEW r \in Rules, NEW phase \in {"syncing", "success"},
           cache' = Phased(r, phase),
           UNCHANGED <<api, fresh>> \/ WritePhase(r, phase)
    PROVE  /\ DOMAIN cache' = Cached /\ \A o \in Cached : cache'[o] \in Forms(o)
           /\ DOMAIN api' = Objects /\ \A o \in Objects : api'[o] \in Forms(o)
           /\ fresh' \subseteq Cached
<1>1. phase \in Marks /\ r \in Cached /\ r \in Objects
  BY KindsOfObjects DEF Marks, Phases
<1>2. DOMAIN cache' = Cached /\ \A o \in Cached : cache'[o] \in Forms(o)
  BY <1>1, MutatedTyped DEF Phased, InformersTypeOK
<1> QED
  BY <1>1, <1>2, ApiMarkTyped DEF WritePhase, InformersTypeOK

LEMMA PhaseFailsTyped ==
    ASSUME Typed, NEW w \in Types, NEW step \in {"status", "done"},
           NEW phase \in {"syncing", "success"}, PhaseFails(w, step, phase)
    PROVE  Typed'
<1>1. w \in Workers /\ pc[w] # "idle" /\ req[w].rule \in Rules
  BY BusyWorker DEF PhaseFails, Workers, Typed, RuleOK, Built
<1>2. /\ WorkInv' /\ object' \in [Rules -> Copies]
      /\ \A i \in queue' : IsEntry(i)
  BY <1>1, RequeueTyped DEF PhaseFails
<1> QED
  BY <1>1, <1>2, PhaseTyped DEF PhaseFails, Typed, InformersTypeOK, IsEntry

LEMMA AnnounceTyped ==
    ASSUME Typed, NEW w \in Types, Announce(w)
    PROVE  Typed'
<1> USE DEF Typed
<1>1. w \in Workers /\ EntryOf(w, item[w]) /\ RuleOK("status", req[w], todo[w])
  BY BusyWorker DEF Announce, Workers
<1>2. req[w].rule \in Rules
  BY <1>1 DEF RuleOK, Built
<1>3. WorkerOK(w, "post", item[w], req[w], todo[w])
  BY <1>1 DEF WorkerOK, RuleOK, Steps
<1>5. WorkInv'
  BY <1>1, <1>3, PcStep DEF Announce
<1>6. object' \in [Rules -> Copies]
  BY <1>2 DEF Announce, InformersTypeOK, Copies
<1> QED
  BY <1>2, <1>5, <1>6, PhaseTyped DEF Announce, InformersTypeOK

LEMMA SucceedTyped ==
    ASSUME Typed, NEW w \in Types, Succeed(w)
    PROVE  Typed'
<1>1. w \in Workers /\ pc[w] # "idle" /\ req[w].rule \in Rules
  BY BusyWorker DEF Succeed, Workers, Typed, RuleOK, Built
<1>2. /\ WorkInv' /\ object' \in [Rules -> Copies]
      /\ \A i \in queue' : IsEntry(i)
  BY <1>1, ForgetTyped DEF Succeed
<1> QED
  BY <1>1, <1>2, PhaseTyped DEF Succeed, Typed, InformersTypeOK, IsEntry

LEMMA PostTyped ==
    ASSUME Typed, NEW w \in Types \cup {"ext"}, Post(w) \/ PostFails(w)
    PROVE  Typed'
<1> USE DEF Typed
<1>1. w \in Workers /\ pc[w] = "post" /\ UNCHANGED <<api, cache, fresh, synced>>
  BY DEF Post, PostFails, Workers
<1>2. CASE Forget(w)
  BY <1>1, <1>2, ForgetTyped DEF InformersTypeOK, IsEntry
<1>3. CASE Requeue(w)
  BY <1>1, <1>3, RequeueTyped DEF InformersTypeOK, IsEntry
<1>4. CASE /\ w # "ext" /\ pc' = [pc EXCEPT ![w] = "done"]
           /\ UNCHANGED <<queue, object, item, req, todo, announced>>
  <2>1. EntryOf(w, item[w]) /\ RuleOK("post", req[w], todo[w]) /\ w \in Types
    BY <1>1, <1>4, BusyWorker
  <2>2. WorkerOK(w, "done", item[w], req[w], todo[w])
    BY <2>1 DEF WorkerOK, RuleOK, Steps
  <2>4. WorkInv'
    BY <1>1, <1>4, <2>2, PcStep
  <2> QED
    BY <1>1, <1>4, <2>4 DEF InformersTypeOK
<1> QED
  BY <1>2, <1>3, <1>4 DEF Post, PostFails

LEMMA ExtStartTyped ==
    ASSUME Typed, NEW i \in queue, ExtStart(i)
    PROVE  Typed'
<1> USE DEF Typed
<1> DEFINE e == i.key
<1>1. IsEntry(i) /\ e \in Exts /\ "ext" \in Workers /\ EntryOf("ext", i)
  BY QueueTyped, KindsOfObjects DEF ExtStart, Takes, IsEntry, Workers, EntryOf
<1>2. ExtOf(i).spec \in ExtSpecs /\ cache[e].live \in BOOLEAN
  BY <1>1, KindsOfObjects DEF ExtOf, IsEntry, InformersTypeOK, Forms
<1>3. PICK r \in Rules, c \in Confs :
        /\ SourceKnown(r, cache[r].spec)
        /\ req' = [req EXCEPT !["ext"] =
                     [Asked(r, cache[r].spec, ~cache[e].live, c) EXCEPT
                        !.exts = <<e>>, !.spec = [x \in {e} |-> ExtOf(i).spec]]]
  BY DEF ExtStart, RulesListing
<1> PICK q : q = [Asked(r, cache[r].spec, ~cache[e].live, c) EXCEPT
                    !.exts = <<e>>, !.spec = [x \in {e} |-> ExtOf(i).spec]]
  OBVIOUS
<1>4. Built(Asked(r, cache[r].spec, ~cache[e].live, c))
  BY <1>2, <1>3, CachedRule, AskedBuilt
<1>5. Built(q) /\ q.exts = <<e>> /\ q.spec = [x \in {e} |-> ExtOf(i).spec]
  BY <1>4 DEF Asked, Built
<1>6. Range(q.exts) = {e} /\ q.exts \in Seq(Exts) /\ q.exts # <<>>
  BY <1>1, <1>5 DEF Range
<1>7. Postable(q)
  BY <1>1, <1>2, <1>5, <1>6, InformersAssumption DEF Postable, Specified
<1>8. WorkerOK("ext", "post", i, q, <<>>)
  BY <1>1, <1>7 DEF WorkerOK
<1>9. WorkInv'
  <2>1. todo["ext"] = <<>> /\ announced["ext"] \in BOOLEAN
    BY <1>1 DEF WorkInv, WorkerOK, ExtStart, Takes, RuleOK, Steps, Types
  <2> PICK t, a : t = todo["ext"] /\ a = announced["ext"]
    OBVIOUS
  <2>2. todo' = [todo EXCEPT !["ext"] = t] /\ announced' = [announced EXCEPT !["ext"] = a]
    BY DEF ExtStart, WorkInv
  <2>3. /\ pc' = [pc EXCEPT !["ext"] = "post"] /\ item' = [item EXCEPT !["ext"] = i]
        /\ req' = [req EXCEPT !["ext"] = q]
    BY <1>3 DEF ExtStart
  <2> QED
    BY <1>1, <1>8, <2>1, <2>2, <2>3, WorkerStep
<1> QED
  BY <1>9 DEF ExtStart, InformersTypeOK

LEMMA EndpointsStartTyped ==
    ASSUME Typed, NEW i \in queue, EndpointsStart(i)
    PROVE  Typed'
<1> USE DEF Typed
<1> DEFINE s == i.key
<1>1. EntryOf("ep", i) /\ "ep" \in Workers
  BY QueueTyped DEF EndpointsStart, Takes, Workers, EntryOf
<1>2. PICK r \in RulesOf(s), c \in Confs : req' = [req EXCEPT !["ep"] = Asked(r, cache[r].spec, FALSE, c)]
  BY DEF EndpointsStart
<1>3. r \in Rules /\ RuleType[r] = "svc" /\ cache[r].spec.svc = s /\ Ready(cache[s].spec) # {} /\ cache[s].live
  BY DEF RulesOf, EndpointsStart
<1> PICK q : q = Asked(r, cache[r].spec, FALSE, c)
  OBVIOUS
<1>4. SourceKnown(r, cache[r].spec)
  <2>1. RuleType[r] = "svc"
    BY <1>3
  <2> QED
    BY <1>3, <2>1 DEF SourceKnown, RulesOf
<1>5. Built(q) /\ Specified(q)
  BY <1>3, <1>4, CachedRule, AskedBuilt
<1>6. q.src = Ready(cache[s].spec) /\ q.rule = r
  BY <1>3 DEF Asked, SourceOf
<1>7. WorkerOK("ep", "patch", i, q, <<>>)
  BY <1>1, <1>3, <1>5, <1>6 DEF WorkerOK, Patchable
<1>8. WorkInv'
  <2>1. todo["ep"] = <<>> /\ announced["ep"] \in BOOLEAN
    BY <1>1 DEF WorkInv, WorkerOK, EndpointsStart, Takes, RuleOK, Steps, Types
  <2> PICK t, a : t = todo["ep"] /\ a = announced["ep"]
    OBVIOUS
  <2>2. todo' = [todo EXCEPT !["ep"] = t] /\ announced' = [announced EXCEPT !["ep"] = a]
    BY DEF EndpointsStart, WorkInv
  <2>3. /\ pc' = [pc EXCEPT !["ep"] = "patch"] /\ item' = [item EXCEPT !["ep"] = i]
        /\ req' = [req EXCEPT !["ep"] = q]
    BY <1>2 DEF EndpointsStart
  <2> QED
    BY <1>1, <1>7, <2>1, <2>2, <2>3, WorkerStep
<1> QED
  BY <1>8 DEF EndpointsStart, InformersTypeOK

LEMMA EndpointsEndTyped ==
    ASSUME Typed, EndpointsPatch \/ EndpointsPatchFails
    PROVE  Typed'
<1>1. "ep" \in Workers /\ Forget("ep") /\ UNCHANGED <<api, cache, fresh, synced>>
  BY DEF EndpointsPatch, EndpointsPatchFails, Workers
<1> QED
  BY <1>1, ForgetTyped DEF Typed, InformersTypeOK, IsEntry

LEMMA IgnoredTyped ==
    ASSUME Typed, NEW i, queue' = queue \ {i},
           UNCHANGED <<api, cache, fresh, synced, object, workers>>
    PROVE  Typed'
<1>1. WorkInv'
  BY WorkUnchanged DEF Typed
<1> QED
  BY <1>1 DEF Typed, InformersTypeOK

LEMMA NothingToDoTyped ==
    ASSUME Typed, NEW w \in Types, NothingToDo(w)
    PROVE  Typed'
<1>1. w \in Workers
  BY DEF Workers
<1> QED
  BY <1>1, ForgetTyped DEF NothingToDo, Typed, InformersTypeOK, IsEntry

-----------------------------------------------------------------------------
LEMMA TypedInit == Init => Typed
<1> SUFFICES ASSUME Init PROVE Typed
  OBVIOUS
<1>1. InformersTypeOK
  <2>1. \A o \in Objects : api[o] \in Forms(o)
    BY InformersAssumption DEF Init, InformersInit, Forms, Marks, Labels
  <2> QED
    BY <2>1, UnseenTyped, KindsOfObjects DEF Init, InformersInit, InformersTypeOK, Copies
<1>2. WorkInv
  BY DEF Init, WorkInv, WorkerOK
<1> QED
  BY <1>1, <1>2 DEF Typed

LEMMA RuleWorkerTyped ==
    ASSUME Typed, NEW w \in Types, RuleWorker(w)
    PROVE  Typed'
<1>1. ASSUME NEW i \in queue, RuleIgnored(w, i) PROVE Typed'
  BY <1>1, IgnoredTyped DEF RuleIgnored
<1>2. CASE RuleStep(w)
  BY <1>2, ExtStepsTyped, ExtLabelFailsTyped, NothingToDoTyped, AnnounceTyped, PhaseFailsTyped,
     PostTyped, SucceedTyped DEF RuleStep
<1> QED
  BY <1>1, <1>2, RuleStartTyped DEF RuleWorker

LEMMA TypedStep ==
    ASSUME Typed, [Next]_vars PROVE Typed'
<1>1. CASE User
  <2>1. PICK o \in Objects : \E ch \in Changes[o] : Edit(o, ch[2])
    BY <1>1 DEF User
  <2>2. PICK ch \in Changes[o] : Edit(o, ch[2])
    BY <2>1
  <2> QED
    BY <1>1, <2>2, EditTyped, WorkUnchanged DEF User, Typed
<1>2. CASE Watch
  <2>1. PICK k \in Workers : WatchOf(k)
    BY <1>2 DEF Watch
  <2> QED
    BY <2>1, WatchTyped, WorkUnchanged DEF WatchOf, Typed
<1>3. CASE ClusterEgressRuleWorker \/ NamespaceEgressRuleWorker \/ ServiceEgressRuleWorker
  <2>1. \E w \in Types : RuleWorker(w)
    BY <1>3 DEF ClusterEgressRuleWorker, NamespaceEgressRuleWorker, ServiceEgressRuleWorker, Types
  <2> QED
    BY <2>1, RuleWorkerTyped
<1>4. CASE ExternalServiceWorker
  <2>1. ASSUME NEW i \in queue, ExtIgnored(i) PROVE Typed'
    BY <2>1, IgnoredTyped DEF ExtIgnored
  <2> QED
    BY <1>4, <2>1, ExtStartTyped, PostTyped DEF ExternalServiceWorker
<1>5. CASE EndpointsWorker
  <2>1. ASSUME NEW i \in queue, EndpointsIgnored(i) PROVE Typed'
    BY <2>1, IgnoredTyped DEF EndpointsIgnored
  <2> QED
    BY <1>5, <2>1, EndpointsStartTyped, EndpointsEndTyped DEF EndpointsWorker
<1>6. CASE Crash
  <2>1. WorkInv'
    BY <1>6 DEF Crash, WorkInv, WorkerOK
  <2> QED
    BY <1>6, <2>1, RestartTyped DEF Crash, Typed
<1>7. CASE UNCHANGED vars
  BY <1>7, WorkUnchanged DEF vars, informers, workers, Typed, InformersTypeOK
<1> QED
  BY <1>1, <1>2, <1>3, <1>4, <1>5, <1>6, <1>7 DEF Next

\* Each handler works on a proper entry of its queue, and what it asks for is a
\* request that respects the rule's type, whatever users do and whatever fails.
THEOREM HandlersTyped == Spec => []Typed
BY TypedInit, TypedStep, PTL DEF Spec

-----------------------------------------------------------------------------
(* The whole system implements TenantStore. *)

LEMMA PostedStep ==
    ASSUME Typed, NEW w \in Types \cup {"ext"}, pc[w] = "post", Posted(w)
    PROVE  [StoreNext]_store
<1>1. req[w] \in Requests
  BY BusyWorker, RulePostable, PostableRequest DEF Workers, Typed
<1> QED
  BY <1>1 DEF Posted, StoreNext

LEMMA PatchedStep ==
    ASSUME Typed, EndpointsPatch PROVE StoreNext
<1>1. pc["ep"] = "patch" /\ PatchSource(req["ep"].rule, req["ep"].ep, Patched(req["ep"]))
  BY DEF EndpointsPatch
<1>2. Patchable(req["ep"])
  BY <1>1, BusyWorker DEF Workers, Typed
<1>3. Patched(req["ep"]) \in (SUBSET Addrs) \ {{}}
  BY <1>2, ControllerAssumption DEF Patched, Patchable, Built
<1> QED
  BY <1>1, <1>2, <1>3 DEF Patchable, Built, StoreNext

LEMMA StoreStep ==
    ASSUME Typed, [Next]_vars PROVE [StoreNext]_store
<1>1. CASE User \/ Watch \/ Crash \/ UNCHANGED vars
  BY <1>1 DEF User, Watch, WatchOf, Crash, vars
<1>2. ASSUME NEW w \in Types, RuleWorker(w) PROVE [StoreNext]_store
  <2>1. ASSUME NEW i \in queue, RuleStart(w, i) \/ RuleIgnored(w, i) PROVE [StoreNext]_store
    BY <2>1 DEF RuleStart, RuleIgnored
  <2>2. CASE Post(w) \/ PostFails(w)
    BY <2>2, PostedStep DEF Post, PostFails
  <2>3. CASE RuleStep(w) /\ ~(Post(w) \/ PostFails(w))
    <3>1. ExtLabelFails(w) => UNCHANGED store
      BY DEF ExtLabelFails
    <3>2. \A step, phase : PhaseFails(w, step, phase) => UNCHANGED store
      BY DEF PhaseFails
    <3> QED
      BY <2>3, <3>1, <3>2 DEF RuleStep, ExtMissing, ExtLabelled, ExtLabel, Proceed,
         NothingToDo, Announce, Succeed
  <2> QED
    BY <1>2, <2>1, <2>2, <2>3 DEF RuleWorker
<1>3. CASE ClusterEgressRuleWorker \/ NamespaceEgressRuleWorker \/ ServiceEgressRuleWorker
  BY <1>2, <1>3 DEF ClusterEgressRuleWorker, NamespaceEgressRuleWorker, ServiceEgressRuleWorker, Types
<1>4. CASE ExternalServiceWorker
  BY <1>4, PostedStep DEF ExternalServiceWorker, ExtStart, ExtIgnored, Post, PostFails
<1>5. CASE EndpointsWorker
  BY <1>5, PatchedStep DEF EndpointsWorker, EndpointsStart, EndpointsIgnored, EndpointsPatchFails
<1> QED
  BY <1>1, <1>3, <1>4, <1>5 DEF Next

\* The handlers of the five queues, with users, faults and crashes, change the BIG-IP
\* only as TenantStore allows: one request of a rule at a time.
THEOREM ImplementsStore == Spec => StoreSpec
<1>1. Init => StoreInit
  BY DEF Init
<1> QED
  BY <1>1, StoreStep, HandlersTyped, PTL DEF Spec, StoreSpec

\* Whatever users do, and whatever fails or crashes, every declaration uses only lists
\* that it declares, and declares only lists that it uses.
THEOREM SystemListsMatch == Spec => [](NoOrphanLists /\ RefsResolve)
BY ImplementsStore, ListsMatch

\* ... its policies list the rule lists there are, in an order that never changes, with
\* the deny-all last.
THEOREM SystemPoliciesMatch == Spec => [](PolicyListsRules /\ DenyLast) /\ OrderStable
BY ImplementsStore, PoliciesMatch, DenyIsLast, OrderKept

\* A worker has an entry of its own queue, a request and what is left of a list.
LEMMA WorkTyped ==
    ASSUME WorkInv
    PROVE  /\ pc \in [Workers -> Steps]
           /\ \A w \in Workers :
                /\ item[w] = NoItem \/ (item[w].key \in Cached /\ WorkerOf(item[w].key) = w)
                /\ req[w] = NoItem \/ IsRequest(req[w])
                /\ todo[w] \in Lists \cup {<<>>}
           /\ announced \in [Workers -> BOOLEAN]
<1>1. ASSUME NEW q, Built(q), Specified(q) PROVE IsRequest(q)
  BY <1>1, InformersAssumption DEF Built, Specified, IsRequest
<1>2. ASSUME NEW w \in Workers, NEW p, NEW i, NEW q, NEW t, WorkerOK(w, p, i, q, t)
      PROVE  /\ p \in Steps
             /\ i = NoItem \/ (i.key \in Cached /\ WorkerOf(i.key) = w)
             /\ q = NoItem \/ (Built(q) /\ Specified(q))
  BY <1>2 DEF WorkerOK, EntryOf, IsEntry, RuleOK, Postable, Patchable, Steps
<1>3. ASSUME NEW w \in Workers, NEW p, NEW i, NEW q, NEW t, WorkerOK(w, p, i, q, t)
      PROVE  t \in Lists \cup {<<>>}
  BY <1>3 DEF WorkerOK, RuleOK
<1>4. ASSUME NEW w \in Workers PROVE WorkerOK(w, pc[w], item[w], req[w], todo[w])
  BY DEF WorkInv
<1> QED
  BY <1>1, <1>2, <1>3, <1>4 DEF WorkInv

\* Every variable keeps its type.
THEOREM TypeCorrect == Spec => []TypeOK
<1>1. Typed /\ StoreTypeOK => TypeOK
  BY WorkTyped DEF Typed, TypeOK
<1>2. Spec => []StoreTypeOK
  BY ImplementsStore, StoreTyped
<1> QED
  BY <1>1, <1>2, HandlersTyped, PTL
=============================================================================
