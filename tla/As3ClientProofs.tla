--------------------------- MODULE As3ClientProofs ---------------------------
(***************************************************************************)
(* Proofs about As3Client, for all rules, requests, workers and faults.     *)
(* What a declaration looks like and how a request changes it (Body,         *)
(* UpToDate) plays no part in most of them: the calls implement TenantStore  *)
(* because of the client's mutex alone.                                      *)
(***************************************************************************)
EXTENDS As3Client, TenantStoreProofs

LEMMA RequestTypes ==
    ASSUME NEW q \in Requests
    PROVE  /\ q.rule \in Rules
           /\ TenantOf[q.rule] \in Tenants
           /\ Slot(q) \in Tenants \X Types
BY RequestsAssumption, DeclarationAssumption DEF WellFormed, IsRequest, Slot

\* The control state keeps its types, with every fault and any number of
\* processes: a worker that is in As3Request has a request of its own.
THEOREM TypeCorrect == Spec => []TypeOK
<1>1. Init => TypeOK
  BY ClientAssumption DEF Init, StoreInit, TypeOK, Steps
<1>2. TypeOK /\ [Next]_vars => TypeOK'
  <2> SUFFICES ASSUME TypeOK, [Next]_vars PROVE TypeOK'
    OBVIOUS
  <2> USE ClientAssumption DEF TypeOK, Steps, bigip, Leave
  <2>1. CASE \E c \in Clusters : InitGet(c) \/ InitPost(c)
    BY <2>1 DEF InitGet, InitPost, InitPostOf
  <2>2. ASSUME NEW c \in Clusters, Crash(c) PROVE TypeOK'
    <3>1. \A w \in Workers : ClusterOf[w] = c /\ pc[w] = "post" => Tenant(w) \in Tenants
      BY RequestTypes DEF Tenant
    <3>2. \A m \in late' : m.tenant \in Tenants
      BY <2>2, <3>1, DeclarationAssumption DEF Crash, PostOf, InitPostOf
    <3> QED
      BY <2>2, <3>2 DEF Crash
  <2>3. ASSUME NEW w \in Workers, NEW q \in RequestsOf[w], Call(w, q) PROVE TypeOK'
    BY <2>3 DEF Call
  <2>4. ASSUME NEW w \in Workers, Acquire(w) PROVE TypeOK'
    BY <2>4 DEF Acquire
  <2>5. ASSUME NEW w \in Workers, Step(w) PROVE TypeOK'
    <3>1. CASE Get(w) \/ GetFails(w) \/ NoPost(w) \/ PostFails(w)
      BY <3>1 DEF Get, GetFails, NoPost, PostFails
    <3>2. CASE Post(w)
      BY <3>2 DEF Post, Posted
    <3>3. CASE PostTimesOut(w) \/ PostAccepted(w)
      BY <3>3, RequestTypes DEF PostTimesOut, PostAccepted, Posted, PostOf, Tenant
    <3>4. CASE Check(w) \/ Bind(w) \/ BindRefused(w) \/ BindFails(w)
      <4>1. pc[w] # "idle"
        BY <3>4 DEF Check, Bind, BindRefused, BindFails
      <4>2. Slot(req[w]) \in Tenants \X Types
        BY <4>1, RequestTypes
      <4> QED
        BY <3>4, <4>2 DEF Check, Bind, BindRefused, BindFails
    <3>5. CASE Save(w) \/ SaveFails(w)
      BY <3>5 DEF Save, SaveFails
    <3>6. CASE Unlock(w)
      BY <3>6 DEF Unlock
    <3> QED
      BY <2>5, <3>1, <3>2, <3>3, <3>4, <3>5, <3>6 DEF Step
  <2>6. CASE \E p \in Patches : Patch(p[1], p[2], p[3])
    BY <2>6 DEF Patch, PatchSource
  <2>7. CASE \E m \in late : LatePost(m)
    BY <2>7 DEF LatePost
  <2>8. CASE UNCHANGED vars
    BY <2>8 DEF vars
  <2> QED
    BY <2>1, <2>2, <2>3, <2>4, <2>5, <2>6, <2>7, <2>8 DEF Next
<1> QED
  BY <1>1, <1>2, PTL DEF Spec

-----------------------------------------------------------------------------
(* The mutex. *)

\* Whoever is between Lock and Unlock in As3Request holds the mutex of its
\* process, and nobody is before InitAs3Tenant has returned.
Mutex ==
    /\ \A w \in Workers : pc[w] \in Critical => lock[ClusterOf[w]] = w
    /\ \A w \in Workers : up[ClusterOf[w]] # "done" => pc[w] = "idle"

\* The mutex is held by whoever is inside As3Request, with every fault: each
\* return of As3Request passes through the deferred Unlock.
THEOREM MutexHeld == Spec => []Mutex
<1>1. Init => Mutex
  BY DEF Init, Mutex, Critical
<1>2. TypeOK /\ Mutex /\ [Next]_vars => Mutex'
  <2> SUFFICES ASSUME TypeOK, Mutex, [Next]_vars PROVE Mutex'
    OBVIOUS
  <2> USE ClientAssumption DEF TypeOK, Mutex, Critical, Steps, bigip, Leave
  <2>1. CASE \E c \in Clusters : InitGet(c) \/ InitPost(c)
    BY <2>1 DEF InitGet, InitPost, InitPostOf
  <2>2. ASSUME NEW c \in Clusters, Crash(c) PROVE Mutex'
    BY <2>2 DEF Crash
  <2>3. ASSUME NEW w \in Workers, NEW q \in RequestsOf[w], Call(w, q) PROVE Mutex'
    BY <2>3 DEF Call
  <2>4. ASSUME NEW w \in Workers, Acquire(w) PROVE Mutex'
    BY <2>4 DEF Acquire
  <2>5. ASSUME NEW w \in Workers, Step(w) PROVE Mutex'
    <3>1. CASE Get(w) \/ GetFails(w)
      BY <3>1 DEF Get, GetFails
    <3>2. CASE NoPost(w) \/ Post(w) \/ PostFails(w) \/ PostTimesOut(w) \/ PostAccepted(w)
      BY <3>2 DEF NoPost, Post, PostFails, PostTimesOut, PostAccepted, Posted
    <3>3. CASE Check(w) \/ Bind(w) \/ BindRefused(w) \/ BindFails(w)
      BY <3>3 DEF Check, Bind, BindRefused, BindFails
    <3>4. CASE Save(w) \/ SaveFails(w)
      BY <3>4 DEF Save, SaveFails
    <3>5. CASE Unlock(w)
      BY <3>5 DEF Unlock
    <3> QED
      BY <2>5, <3>1, <3>2, <3>3, <3>4, <3>5 DEF Step
  <2>6. CASE \E p \in Patches : Patch(p[1], p[2], p[3])
    BY <2>6 DEF Patch, PatchSource
  <2>7. CASE \E m \in late : LatePost(m)
    BY <2>7 DEF LatePost
  <2>8. CASE UNCHANGED vars
    BY <2>8 DEF vars
  <2> QED
    BY <2>1, <2>2, <2>3, <2>4, <2>5, <2>6, <2>7, <2>8 DEF Next
<1> QED
  BY <1>1, <1>2, TypeCorrect, PTL DEF Spec

-----------------------------------------------------------------------------
(* One process that is alone with the BIG-IP, whose posts are answered in    *)
(* time or not carried out.                                                  *)

Alone ==
    /\ \A c, d \in Clusters : c = d
    /\ Patches = {}
    /\ "late" \notin Faults

\* Nothing is in flight, what was read is still so, and while InitAs3Tenant is
\* about to post, Common is still undeclared.
AloneInv ==
    /\ late = {}
    /\ FreshRead
    /\ \A c \in Clusters : up[c] = "post" => store[Common] = Absent

\* At most one worker is between Lock and Unlock.
LEMMA OneInside ==
    ASSUME Alone, TypeOK, Mutex, NEW v \in Workers, NEW w \in Workers,
           pc[v] \in Critical, pc[w] \in Critical
    PROVE  v = w
BY ClientAssumption DEF Alone, Mutex

LEMMA AloneInit == Init => AloneInv
BY DEF Init, AloneInv, FreshRead

LEMMA AloneStep ==
    ASSUME Alone, TypeOK, Mutex, AloneInv, [Next]_vars
    PROVE  AloneInv'
<1> USE ClientAssumption DEF AloneInv, FreshRead, Tenant, bigip, Leave
<1>1. ASSUME NEW c \in Clusters, InitGet(c) \/ InitPost(c) PROVE AloneInv'
  <2>1. \A w \in Workers : pc[w] = "idle"
    BY <1>1 DEF InitGet, InitPost, InitPostOf, Mutex, Alone
  <2>2. \A w \in Workers : pc'[w] = "idle"
    BY <1>1, <2>1 DEF InitGet, InitPost, InitPostOf
  <2>3. CASE InitGet(c)
    BY <2>2, <2>3 DEF InitGet, TypeOK
  <2>4. CASE InitPost(c)
    BY <2>2, <2>4 DEF InitPost, InitPostOf, TypeOK, Alone
  <2> QED
    BY <1>1, <2>3, <2>4
<1>2. ASSUME NEW c \in Clusters, Crash(c) PROVE AloneInv'
  <2>1. late' = {}
    BY <1>2 DEF Crash, Alone
  <2>2. FreshRead'
    BY <1>2 DEF Crash, Alone
  <2> QED
    BY <1>2, <2>1, <2>2 DEF Crash, TypeOK
<1>3. ASSUME NEW w \in Workers, NEW q \in RequestsOf[w], Call(w, q) PROVE AloneInv'
  BY <1>3 DEF Call, TypeOK
<1>4. ASSUME NEW w \in Workers, Acquire(w) PROVE AloneInv'
  BY <1>4 DEF Acquire, TypeOK
<1>5. ASSUME NEW w \in Workers, Step(w) PROVE AloneInv'
  <2>1. CASE Get(w)
    BY <2>1 DEF Get, TypeOK
  <2>2. CASE Post(w)
    <3>1. \A v \in Workers : pc[v] = "post" => v = w
      BY <2>2, OneInside DEF Post, Critical
    <3>2. pc'[w] # "post"
      BY <2>2 DEF Post, Posted, TypeOK
    <3>3. FreshRead'
      BY <2>2, <3>1, <3>2 DEF Post, Posted, TypeOK
    <3>4. \A c \in Clusters : up[c] = "done"
      BY <2>2 DEF Post, Mutex, Alone
    <3> QED
      BY <2>2, <3>3, <3>4 DEF Post, Posted, TypeOK
  <2>3. CASE GetFails(w) \/ NoPost(w) \/ PostFails(w) \/ PostTimesOut(w) \/ PostAccepted(w)
    BY <2>3 DEF GetFails, NoPost, PostFails, PostTimesOut, PostAccepted, Alone, TypeOK
  <2>4. CASE Check(w) \/ Bind(w) \/ BindRefused(w) \/ BindFails(w)
    BY <2>4 DEF Check, Bind, BindRefused, BindFails, TypeOK
  <2>5. CASE Save(w) \/ SaveFails(w)
    BY <2>5 DEF Save, SaveFails, TypeOK
  <2>6. CASE Unlock(w)
    BY <2>6 DEF Unlock, TypeOK
  <2> QED
    BY <1>5, <2>1, <2>2, <2>3, <2>4, <2>5, <2>6 DEF Step
<1>6. ~ \E p \in Patches : Patch(p[1], p[2], p[3])
  BY DEF Alone
<1>7. ~ \E m \in late : LatePost(m)
  OBVIOUS
<1>8. CASE UNCHANGED vars
  BY <1>8 DEF vars
<1> QED
  BY <1>1, <1>2, <1>3, <1>4, <1>5, <1>6, <1>7, <1>8 DEF Next

\* A worker of a process that is alone never posts a declaration computed from
\* a stale one (the read-modify-write of As3Request under the client's mutex).
THEOREM NothingStale == Alone /\ Spec => []FreshRead
<1> SUFFICES ASSUME Alone PROVE Spec => []FreshRead
  OBVIOUS
<1>1. TypeOK /\ Mutex /\ AloneInv /\ [Next]_vars => AloneInv'
  BY AloneStep
<1>2. AloneInv => FreshRead
  BY DEF AloneInv
<1> QED
  BY <1>1, <1>2, AloneInit, TypeCorrect, MutexHeld, PTL DEF Spec

\* The same process implements TenantStore: each POST has the effect of its whole
\* request on the declaration the BIG-IP has, every other step has none.
THEOREM Atomic == Alone /\ Spec => ImplementsStore
<1> SUFFICES ASSUME Alone PROVE Spec => ImplementsStore
  OBVIOUS
<1>1. Init => StoreInit
  BY DEF Init
<1>2. TypeOK /\ Mutex /\ AloneInv /\ [Next]_vars => [StoreNext]_store
  <2> SUFFICES ASSUME TypeOK, Mutex, AloneInv, [Next]_vars PROVE [StoreNext]_store
    OBVIOUS
  <2> USE DEF AloneInv
  <2>1. ASSUME NEW c \in Clusters, InitGet(c) \/ InitPost(c) PROVE [StoreNext]_store
    BY <2>1 DEF InitGet, InitPost, InitPostOf, bigip, StoreNext, InitCommon
  <2>2. ASSUME NEW c \in Clusters, Crash(c) PROVE store' = store
    BY <2>2 DEF Crash
  <2>3. ASSUME NEW w \in Workers, NEW q \in RequestsOf[w], Call(w, q) PROVE store' = store
    BY <2>3 DEF Call, bigip
  <2>4. ASSUME NEW w \in Workers, Acquire(w) PROVE store' = store
    BY <2>4 DEF Acquire, bigip
  <2>5. ASSUME NEW w \in Workers, Post(w) PROVE StoreNext
    <3>1. got[w] = store[Tenant(w)]
      BY <2>5 DEF Post, FreshRead
    <3>2. Apply(req[w])
      BY <2>5, <3>1 DEF Post, Apply, Tenant
    <3>3. req[w] \in Requests
      BY <2>5 DEF Post, TypeOK
    <3> QED
      BY <3>2, <3>3 DEF StoreNext
  <2>6. ASSUME NEW w \in Workers, Step(w), ~Post(w) PROVE store' = store
    BY <2>6 DEF Step, Get, GetFails, NoPost, PostFails, PostTimesOut, PostAccepted,
                Posted, Check, Bind, BindRefused, BindFails, Save, SaveFails, Unlock, bigip
  <2>7. ~ \E p \in Patches : Patch(p[1], p[2], p[3])
    BY DEF Alone
  <2>8. ~ \E m \in late : LatePost(m)
    OBVIOUS
  <2>9. CASE UNCHANGED vars
    BY <2>9 DEF vars
  <2> QED
    BY <2>1, <2>2, <2>3, <2>4, <2>5, <2>6, <2>7, <2>8, <2>9 DEF Next
<1>3. TypeOK /\ Mutex /\ AloneInv /\ [Next]_vars => AloneInv'
  BY AloneStep
<1> QED
  BY <1>1, <1>2, <1>3, AloneInit, TypeCorrect, MutexHeld, PTL
     DEF Spec, ImplementsStore, StoreSpec

-----------------------------------------------------------------------------
(* A success report is a true one.  The retry that finds nothing to post is *)
(* right to trust the enforcement of the policy as long as the binding and   *)
(* the saving, once begun, are brought to an end.                            *)

Brought == Faults \cap {"bind", "save", "crash"} = {}

\* Worker w is about to see to it that policy p is enforced.
Binding(w, p) == pc[w] \in {"check", "bind", "save"} /\ Slot(req[w]) = p

\* A policy with a rule of its own is enforced and saved, or that is under way.
RulesBound ==
    \A t \in Tenants : store[t] # Absent =>
        \A k \in DOMAIN store[t].rules : RuleType[k[1]] # "svc" =>
            \/ <<t, RuleType[k[1]]>> \in saved
            \/ \E w \in Workers : Binding(w, <<t, RuleType[k[1]]>>)

BoundInv ==
    /\ (\A w \in Workers : pc[w] # "save") => bound = saved
    /\ \A w \in Workers : pc[w] = "save" => Slot(req[w]) \in bound
    /\ RulesBound
    /\ SyncedBound

LEMMA UpToDateRule ==
    ASSUME NEW app, NEW q \in Requests, UpToDate(app, q)
    PROVE  app # Absent /\ \E k \in DOMAIN app.rules : k[1] = q.rule
<1> DEFINE d == Delta(q)
           b == Body(app, q)
<1>1. app # Absent /\ ~q.isDelete /\ Kept(app.rules, b.rules)
  BY DEF UpToDate, IsDiff
<1>2. b.rules = Override(d.rules, app.rules)
  <2>1. b = ClearUp(Merged(app, d, q.isDelete), q.conf)
    BY <1>1 DEF Body
  <2>2. b.rules = MergeAttrs(app.rules, d.rules, q.isDelete)
    BY <2>1 DEF ClearUp, Merged
  <2> QED
    BY <1>1, <2>2 DEF MergeAttrs
<1>3. PICK k \in KeysOf(q) : k[1] = q.rule
  <2>1. q.exts \in Seq(Exts) /\ q.exts # <<>>
    BY RequestsAssumption DEF WellFormed, IsRequest
  <2>2. q.exts[1] \in Range(q.exts)
    BY <2>1 DEF Range
  <2>3. <<q.rule, q.exts[1]>> \in KeysOf(q) /\ <<q.rule, q.exts[1]>>[1] = q.rule
    BY <2>2 DEF KeysOf
  <2> QED
    BY <2>3
<1>4. k \in DOMAIN d.rules
  BY <1>3 DEF Delta
<1>5. k \in DOMAIN b.rules
  BY <1>2, <1>4 DEF Override
<1> QED
  BY <1>1, <1>3, <1>5 DEF Kept

LEMMA BodyRules ==
    ASSUME NEW app, NEW q \in Requests, Body(app, q) # Absent,
           NEW k \in DOMAIN Body(app, q).rules
    PROVE  k[1] = q.rule \/ (app # Absent /\ k \in DOMAIN app.rules)
<1> DEFINE d == Delta(q)
<1>1. DOMAIN d.rules = KeysOf(q)
  BY DEF Delta
<1>2. \A j \in KeysOf(q) : j[1] = q.rule
  BY DEF KeysOf
<1>3. CASE app = Absent
  BY <1>1, <1>2, <1>3 DEF Body
<1>4. CASE app # Absent
  <2>1. Body(app, q).rules = MergeAttrs(app.rules, d.rules, q.isDelete)
    BY <1>4 DEF Body, ClearUp, Merged
  <2>2. k \in DOMAIN d.rules \cup DOMAIN app.rules
    BY <2>1 DEF MergeAttrs, Override, Restrict
  <2> QED
    BY <1>1, <1>2, <1>4, <2>2
<1> QED
  BY <1>3, <1>4

LEMMA BoundInit == Init => BoundInv
<1> SUFFICES ASSUME Init PROVE BoundInv
  OBVIOUS
<1>1. \A w \in Workers : pc[w] = "idle"
  BY DEF Init
<1>2. RulesBound
  BY DEF Init, StoreInit, RulesBound, DefaultApp
<1> QED
  BY <1>1, <1>2 DEF Init, BoundInv, SyncedBound

LEMMA BoundStep ==
    ASSUME Alone, Brought, TypeOK, Mutex, AloneInv, BoundInv, [Next]_vars
    PROVE  BoundInv'
<1> USE ClientAssumption
<1>1. ASSUME NEW c \in Clusters, InitGet(c) PROVE BoundInv'
  BY <1>1 DEF InitGet, BoundInv, RulesBound, SyncedBound, Binding, bigip, Tenant
<1>2. ASSUME NEW c \in Clusters, InitPost(c) PROVE BoundInv'
  <2>1. \A t \in Tenants : \/ store'[t] = store[t]
                           \/ DOMAIN store'[t].rules = {}
    BY <1>2 DEF InitPost, InitPostOf, DefaultApp, TypeOK
  <2>2. RulesBound'
    BY <1>2, <2>1 DEF InitPost, BoundInv, RulesBound, Binding
  <2> QED
    BY <1>2, <2>2 DEF InitPost, BoundInv, SyncedBound
<1>3. ASSUME NEW c \in Clusters, Crash(c) PROVE FALSE
  BY <1>3 DEF Crash, Brought
<1>4. ASSUME NEW w \in Workers, NEW q \in RequestsOf[w], Call(w, q) PROVE BoundInv'
  BY <1>4 DEF Call, BoundInv, RulesBound, SyncedBound, Binding, bigip, TypeOK
<1>5. ASSUME NEW w \in Workers, Acquire(w) PROVE BoundInv'
  BY <1>5 DEF Acquire, BoundInv, RulesBound, SyncedBound, Binding, bigip, TypeOK
<1>6. ASSUME NEW w \in Workers, Step(w) PROVE BoundInv'
  <2> DEFINE Witness(v) == pc[v] \in {"check", "bind", "save"}
  <2>1. \A v \in Workers : (pc[v] \in Critical /\ pc[w] \in Critical) => v = w
    BY OneInside
  <2>2. CASE Get(w) \/ GetFails(w)
    <3>1. /\ pc[w] = "get" /\ \A v \in Workers : v # w => pc'[v] = pc[v] /\ out'[v] = out[v]
          /\ pc'[w] = "post" \/ (pc'[w] = "unlock" /\ out'[w] = "err")
          /\ UNCHANGED <<store, bound, saved, req>>
      BY <2>2 DEF Get, GetFails, Leave, bigip, TypeOK
    <3>2. RulesBound'
      BY <3>1 DEF BoundInv, RulesBound, Binding
    <3> QED
      BY <3>1, <3>2 DEF BoundInv, SyncedBound
  <2>3. CASE NoPost(w)
    <3>1. req[w] \in Requests /\ got[w] = store[Tenant(w)] /\ UpToDate(got[w], req[w])
      BY <2>3 DEF NoPost, TypeOK, AloneInv, FreshRead
    <3>2. Tenant(w) \in Tenants
      BY <3>1, RequestTypes DEF Tenant
    <3>3. \A v \in Workers : ~Witness(v)
      BY <2>1, <2>3 DEF NoPost, Critical
    <3>4. RuleType[req[w].rule] # "svc" => Slot(req[w]) \in saved
      <4> SUFFICES ASSUME RuleType[req[w].rule] # "svc" PROVE Slot(req[w]) \in saved
        OBVIOUS
      <4>1. store[Tenant(w)] # Absent
        BY <3>1, UpToDateRule
      <4>2. PICK k \in DOMAIN store[Tenant(w)].rules : k[1] = req[w].rule
        BY <3>1, UpToDateRule
      <4>3. <<Tenant(w), RuleType[k[1]]>> \in saved
        BY <3>2, <3>3, <4>1, <4>2 DEF BoundInv, RulesBound, Binding
      <4> QED
        BY <4>2, <4>3 DEF Slot, Tenant
    <3> QED
      BY <2>3, <3>4 DEF NoPost, Leave, BoundInv, RulesBound, SyncedBound, Binding, bigip, TypeOK
  <2>4. CASE Post(w)
    <3>1. req[w] \in Requests /\ got[w] = store[Tenant(w)]
      BY <2>4 DEF Post, TypeOK, AloneInv, FreshRead
    <3>2. store' = [store EXCEPT ![Tenant(w)] = Body(store[Tenant(w)], req[w])]
      BY <2>4, <3>1 DEF Post
    <3>3. pc' = [pc EXCEPT ![w] = IF RuleType[req[w].rule] = "svc" THEN "unlock" ELSE "check"]
      BY <2>4 DEF Post, Posted, Leave
    <3>4. \A v \in Workers : Binding(v, Slot(req[v])) => Binding(v, Slot(req[v]))' /\ v # w
      BY <2>4, <3>3 DEF Post, Binding, TypeOK, Slot
    <3>5. ASSUME NEW t \in Tenants, store'[t] # Absent, NEW k \in DOMAIN store'[t].rules,
                 RuleType[k[1]] # "svc"
          PROVE  \/ <<t, RuleType[k[1]]>> \in saved'
                 \/ \E v \in Workers : Binding(v, <<t, RuleType[k[1]]>>)'
      <4>1. CASE store[t] # Absent /\ k \in DOMAIN store[t].rules
        <5>1. CASE <<t, RuleType[k[1]]>> \in saved
          BY <2>4, <5>1 DEF Post
        <5>2. CASE \E v \in Workers : Binding(v, <<t, RuleType[k[1]]>>)
          BY <3>4, <5>2, <2>4 DEF Binding, Post, Slot
        <5> QED
          BY <3>5, <4>1, <5>1, <5>2 DEF BoundInv, RulesBound
      <4>2. CASE ~(store[t] # Absent /\ k \in DOMAIN store[t].rules)
        <5>1. t = Tenant(w) /\ store'[t] = Body(store[t], req[w])
          BY <3>2, <3>5, <4>2 DEF TypeOK
        <5>2. k[1] = req[w].rule
          BY <3>1, <3>5, <4>2, <5>1, BodyRules
        <5>3. pc'[w] = "check" /\ req' = req
          BY <2>4, <3>3, <3>5, <5>2 DEF Post, TypeOK
        <5>4. Slot(req[w]) = <<t, RuleType[k[1]]>>
          BY <5>1, <5>2 DEF Slot, Tenant
        <5> QED
          BY <5>3, <5>4 DEF Binding
      <4> QED
        BY <4>1, <4>2
    <3>6. RulesBound'
      BY <3>5 DEF RulesBound
    <3>7. SyncedBound'
      BY <2>4, <3>3 DEF Post, SyncedBound, BoundInv, Posted, Leave, TypeOK
    <3> QED
      BY <2>4, <3>3, <3>6, <3>7 DEF Post, BoundInv, TypeOK
  <2>5. CASE PostFails(w)
    BY <2>5 DEF PostFails, Leave, BoundInv, RulesBound, SyncedBound, Binding, bigip, TypeOK
  <2>6. CASE PostTimesOut(w) \/ PostAccepted(w)
    BY <2>6 DEF PostTimesOut, PostAccepted, Alone
  <2>7. CASE Check(w)
    <3>1. bound = saved
      BY <2>1, <2>7 DEF Check, BoundInv, Critical
    <3> QED
      BY <2>7, <3>1 DEF Check, Leave, BoundInv, RulesBound, SyncedBound, Binding, bigip, TypeOK
  <2>8. CASE Bind(w)
    BY <2>8 DEF Bind, BoundInv, RulesBound, SyncedBound, Binding, TypeOK
  <2>9. CASE BindRefused(w)
    <3>1. \A t \in Tenants : store[t] # Absent => t # Tenant(w)
      BY <2>9 DEF BindRefused
    <3>2. \A t \in Tenants : store[t] # Absent => \A y : ~Binding(w, <<t, y>>)
      BY <3>1 DEF Binding, Slot, Tenant
    <3>3. RulesBound'
      BY <2>9, <3>2 DEF BindRefused, Leave, BoundInv, RulesBound, Binding, bigip, TypeOK
    <3> QED
      BY <2>9, <3>3 DEF BindRefused, Leave, BoundInv, SyncedBound, bigip, TypeOK
  <2>10. CASE Save(w)
    <3>1. saved \subseteq bound /\ saved' = bound /\ Slot(req[w]) \in bound
      BY <2>10 DEF Save, TypeOK, BoundInv
    <3>2. \A v \in Workers : pc'[v] # "save"
      BY <2>1, <2>10 DEF Save, Leave, Critical, TypeOK
    <3>3. RulesBound'
      BY <2>10, <3>1 DEF Save, Leave, BoundInv, RulesBound, Binding, TypeOK
    <3> QED
      BY <2>10, <3>1, <3>2, <3>3 DEF Save, Leave, BoundInv, SyncedBound, TypeOK
  <2>11. CASE BindFails(w) \/ SaveFails(w)
    BY <2>11 DEF BindFails, SaveFails, Brought
  <2>12. CASE Unlock(w)
    BY <2>12 DEF Unlock, BoundInv, RulesBound, SyncedBound, Binding, bigip, TypeOK
  <2> QED
    BY <1>6, <2>2, <2>3, <2>4, <2>5, <2>6, <2>7, <2>8, <2>9, <2>10, <2>11, <2>12 DEF Step
<1>7. ~ \E p \in Patches : Patch(p[1], p[2], p[3])
  BY DEF Alone
<1>8. ~ \E m \in late : LatePost(m)
  BY DEF AloneInv
<1>9. CASE UNCHANGED vars
  BY <1>9 DEF vars, BoundInv, RulesBound, SyncedBound, Binding
<1> QED
  BY <1>1, <1>2, <1>3, <1>4, <1>5, <1>6, <1>7, <1>8, <1>9 DEF Next

\* A process that is alone with the BIG-IP and whose GETs and POSTs may fail reports
\* success only if the policy of the rule is enforced and the BIG-IP has saved that:
\* also when As3Request returned early because it found nothing to post.
THEOREM BoundWhenSynced == Alone /\ Brought /\ Spec => []SyncedBound
<1> SUFFICES ASSUME Alone, Brought PROVE Spec => []SyncedBound
  OBVIOUS
<1>1. TypeOK /\ Mutex /\ AloneInv /\ [Next]_vars => AloneInv'
  BY AloneStep
<1>2. TypeOK /\ Mutex /\ AloneInv /\ BoundInv /\ [Next]_vars => BoundInv'
  BY BoundStep
<1>3. BoundInv => SyncedBound
  BY DEF BoundInv
<1> QED
  BY <1>1, <1>2, <1>3, AloneInit, BoundInit, TypeCorrect, MutexHeld, PTL DEF Spec

-----------------------------------------------------------------------------
(* No rule is lost. *)

\* fullResource drops a rule list only for a deletion of its own rule.
LEMMA BodyKeepsRules ==
    ASSUME NEW app, app # Absent, NEW q \in Requests, NEW k \in DOMAIN app.rules,
           Body(app, q) = Absent \/ k \notin DOMAIN Body(app, q).rules
    PROVE  q.isDelete /\ q.rule = k[1]
<1> DEFINE d == Delta(q)
           m == Merged(app, d, q.isDelete)
<1>1. Body(app, q) = ClearUp(m, q.conf)
  BY DEF Body
<1>2. Body(app, q) # Absent
  BY <1>1 DEF ClearUp, Absent
<1>3. Body(app, q).rules = MergeAttrs(app.rules, d.rules, q.isDelete)
  BY <1>1 DEF ClearUp, Merged
<1>4. k \notin DOMAIN MergeAttrs(app.rules, d.rules, q.isDelete)
  BY <1>2, <1>3
<1>5. q.isDelete
  BY <1>4 DEF MergeAttrs, Override
<1>6. k \in DOMAIN d.rules
  BY <1>4, <1>5 DEF MergeAttrs, Restrict
<1>7. k \in KeysOf(q)
  BY <1>6 DEF Delta
<1> QED
  BY <1>5, <1>7 DEF KeysOf

-----------------------------------------------------------------------------
(* Several processes, patches, crashes and late posts: updates can be lost,  *)
(* but what the BIG-IP has, what was read and what is in flight is sound.    *)

\* What can be declared for tenant t.
Proper(app, t) == app # Absent => Sound(app) /\ Listing(app, t) /\ IsApp(app)

LossyInv ==
    /\ \A t \in Tenants : Proper(store[t], t)
    /\ \A w \in Workers : pc[w] = "post" => Proper(got[w], Tenant(w))
    /\ \A m \in late : Proper(m.body, m.tenant)

LEMMA DefaultProper ==
    ASSUME NEW t
    PROVE  Proper(DefaultApp(t), t) /\ Proper(Absent, t)
BY DefaultSound, DefaultListing, DefaultTyped DEF Proper

LEMMA LossyInit == Init => LossyInv
BY DefaultProper DEF Init, StoreInit, LossyInv

\* What a worker posts is in order, even if what it read is stale.
LEMMA PostSound ==
    ASSUME TypeOK, LossyInv, NEW w \in Workers, pc[w] = "post"
    PROVE  /\ Tenant(w) \in Tenants
           /\ Proper(Body(got[w], req[w]), Tenant(w))
<1>1. req[w] \in Requests
  BY DEF TypeOK
<1>2. Proper(got[w], TenantOf[req[w].rule])
  BY DEF LossyInv, Tenant
<1>3. ASSUME NEW q \in Requests, NEW app, Proper(app, TenantOf[q.rule])
      PROVE  Proper(Body(app, q), TenantOf[q.rule])
  BY <1>3, BodySound, BodyListing, BodyTyped DEF Proper
<1> QED
  BY <1>1, <1>2, <1>3, RequestTypes DEF Tenant

LEMMA PatchSound ==
    ASSUME TypeOK, LossyInv, NEW p \in Patches, PatchSource(p[1], p[2], p[3])
    PROVE  \A t \in Tenants : /\ Proper(store'[t], t)
                              /\ store'[t] # store[t] => store'[t] # Absent
<1> SUFFICES ASSUME NEW t \in Tenants, store'[t] # store[t]
             PROVE  store'[t] # Absent /\ Proper(store'[t], t)
  BY DEF LossyInv
<1> PICK k : k = <<p[1], p[2]>>
  OBVIOUS
<1> PICK app : app = store[t]
  OBVIOUS
<1>1. /\ app # Absent /\ k \in DOMAIN app.src
      /\ store'[t] = [app EXCEPT !.src[k] = p[3]]
      /\ store'[t].policy = app.policy /\ store'[t].rules = app.rules
  <2>1. DOMAIN store = Tenants
    BY DEF TypeOK
  <2> QED
    BY <2>1, PatchFrame
<1>2. Sound(app) /\ Listing(app, t) /\ IsApp(app)
  BY <1>1 DEF LossyInv, Proper
<1>3. p[3] \in SUBSET Addrs
  BY ClientAssumption
<1>4. IsApp(store'[t])
  BY <1>1, <1>2, <1>3, PatchTyped
<1>5. store'[t] # Absent
  BY <1>4 DEF IsApp, Absent
<1>6. Listing(store'[t], t)
  BY <1>1, <1>2 DEF Listing
<1>7. Sound(store'[t])
  BY <1>1, <1>2 DEF Sound, Keyed, NoOrphans, Resolves, ReferencedPorts, ReferencedSrc
<1> QED
  BY <1>4, <1>5, <1>6, <1>7 DEF Proper

LEMMA LossyStep ==
    ASSUME TypeOK, LossyInv, [Next]_vars PROVE LossyInv'
<1> USE DEF bigip, Leave
<1>1. ASSUME NEW c \in Clusters, InitGet(c) \/ InitPost(c) PROVE LossyInv'
  BY <1>1, DefaultProper DEF InitGet, InitPost, InitPostOf, LossyInv, TypeOK, Tenant
<1>2. ASSUME NEW c \in Clusters, Crash(c) PROVE LossyInv'
  <2>1. \A w \in Workers : pc[w] = "post" => Proper(PostOf(w).body, PostOf(w).tenant)
    BY PostSound DEF PostOf
  <2>2. \A m \in late' : Proper(m.body, m.tenant)
    BY <1>2, <2>1, DefaultProper DEF Crash, InitPostOf, LossyInv
  <2> QED
    BY <1>2, <2>2 DEF Crash, LossyInv, Tenant
<1>3. ASSUME NEW w \in Workers, NEW q \in RequestsOf[w], Call(w, q) PROVE LossyInv'
  BY <1>3 DEF Call, LossyInv, TypeOK, Tenant
<1>4. ASSUME NEW w \in Workers, Acquire(w) PROVE LossyInv'
  BY <1>4 DEF Acquire, LossyInv, TypeOK, Tenant
<1>5. ASSUME NEW w \in Workers, Step(w) PROVE LossyInv'
  <2>1. CASE Get(w)
    <3>1. Tenant(w) \in Tenants
      BY <2>1, RequestTypes DEF Get, TypeOK, Tenant
    <3> QED
      BY <2>1, <3>1 DEF Get, LossyInv, TypeOK, Tenant
  <2>2. CASE Post(w)
    BY <2>2, PostSound DEF Post, Posted, LossyInv, TypeOK, Tenant
  <2>3. CASE PostTimesOut(w) \/ PostAccepted(w)
    BY <2>3, PostSound DEF PostTimesOut, PostAccepted, Posted, PostOf, LossyInv, TypeOK, Tenant
  <2>4. CASE GetFails(w) \/ NoPost(w) \/ PostFails(w)
    BY <2>4 DEF GetFails, NoPost, PostFails, LossyInv, TypeOK, Tenant
  <2>5. CASE Check(w) \/ Bind(w) \/ BindRefused(w) \/ BindFails(w)
    BY <2>5 DEF Check, Bind, BindRefused, BindFails, LossyInv, TypeOK, Tenant
  <2>6. CASE Save(w) \/ SaveFails(w)
    BY <2>6 DEF Save, SaveFails, LossyInv, TypeOK, Tenant
  <2>7. CASE Unlock(w)
    BY <2>7 DEF Unlock, LossyInv, TypeOK, Tenant
  <2> QED
    BY <1>5, <2>1, <2>2, <2>3, <2>4, <2>5, <2>6, <2>7 DEF Step
<1>6. CASE \E p \in Patches : Patch(p[1], p[2], p[3])
  BY <1>6, PatchSound DEF Patch, LossyInv, Tenant
<1>7. CASE \E m \in late : LatePost(m)
  BY <1>7 DEF LatePost, LossyInv, TypeOK, Tenant
<1>8. CASE UNCHANGED vars
  BY <1>8 DEF vars, LossyInv, Tenant
<1> QED
  BY <1>1, <1>2, <1>3, <1>4, <1>5, <1>6, <1>7, <1>8 DEF Next

\* With any number of processes on the BIG-IP and every fault, no declaration has a
\* list that nothing uses, lacks a destination or port list that is used, or lists
\* rules that are not there, twice, or behind the deny-all.
THEOREM WhateverIsLost == Spec => []NeverDangles
<1>1. LossyInv => NeverDangles
  <2>1. LossyInv => ListingInv /\ NoOrphanLists /\ RefsResolve
    BY DEF LossyInv, Proper, ListingInv, Sound, NoOrphanLists, RefsResolve, Declared
  <2> QED
    BY <2>1, ListingListsRules, ListingDenyLast DEF NeverDangles
<1>2. TypeOK /\ LossyInv /\ [Next]_vars => LossyInv'
  BY LossyStep
<1> QED
  BY <1>1, <1>2, LossyInit, TypeCorrect, PTL DEF Spec

\* A request that meets the declaration it was computed from changes the source
\* addresses of its own rule only.
LEMMA BodyKeepsSources ==
    ASSUME NEW app, app # Absent, Sound(app), NEW q \in Requests,
           NEW k \in DOMAIN app.src \cap DOMAIN Body(app, q).src, k[1] # q.rule
    PROVE  Body(app, q).src[k] = app.src[k]
<1> DEFINE a == Body(app, q)
           Own(f) == {j \in DOMAIN f : j[1] = k[1]}
<1>1. a = ClearUp(Merged(app, Delta(q), q.isDelete), q.conf)
  BY DEF Body
<1>2. PartOf(a, k[1]) = PartOf(app, k[1])
  BY <1>1, OtherRules
<1>3. Restrict(a.src, Own(a.src)) = Restrict(app.src, Own(app.src))
  BY <1>2 DEF PartOf
<1>4. k \in Own(a.src) /\ k \in Own(app.src)
  OBVIOUS
<1> HIDE DEF a
<1>5. Restrict(a.src, Own(a.src))[k] = a.src[k] /\ Restrict(app.src, Own(app.src))[k] = app.src[k]
  BY <1>4 DEF Restrict
<1> QED
  BY <1>3, <1>5 DEF a

LEMMA FreshStepKeeps ==
    ASSUME TypeOK, LossyInv, Next, ~StalePost PROVE RulesKept /\ SourcesKept
<1>1. CASE store' = store
  BY <1>1 DEF RulesKept, SourcesKept
<1>2. ASSUME NEW c \in Clusters, InitPost(c) PROVE RulesKept /\ SourcesKept
  <2>1. \A t \in Tenants : store[t] # Absent => store'[t] = store[t]
    BY <1>2 DEF InitPost, InitPostOf, StalePost, TypeOK
  <2> QED
    BY <2>1 DEF RulesKept, SourcesKept
<1>3. ASSUME NEW w \in Workers, Post(w) PROVE RulesKept /\ SourcesKept
  <2>1. /\ pc[w] = "post" /\ pc'[w] # "post"
        /\ req[w] \in Requests
        /\ got[w] = store[Tenant(w)]
    BY <1>3 DEF Post, Posted, Leave, StalePost, TypeOK
  <2>2. \A t \in Tenants : store'[t] = IF t = Tenant(w) THEN Body(store[t], req[w]) ELSE store[t]
    BY <1>3, <2>1 DEF Post, TypeOK
  <2>3. ASSUME NEW t \in Tenants, store[t] # Absent, NEW k \in DOMAIN store[t].rules,
               store'[t] = Absent \/ k \notin DOMAIN store'[t].rules
        PROVE  req[w].isDelete /\ req[w].rule = k[1]
    BY <2>1, <2>2, <2>3, BodyKeepsRules
  <2>4. ASSUME NEW t \in Tenants, store[t] # Absent, store'[t] # Absent,
               NEW k \in DOMAIN store[t].src \cap DOMAIN store'[t].src,
               store'[t].src[k] # store[t].src[k]
        PROVE  req[w].rule = k[1]
    <3>1. Sound(store[t])
      BY <2>4 DEF LossyInv, Proper
    <3> QED
      BY <2>1, <2>2, <2>4, <3>1, BodyKeepsSources
  <2> QED
    BY <2>1, <2>3, <2>4 DEF RulesKept, SourcesKept
<1>4. ASSUME NEW p \in Patches, Patch(p[1], p[2], p[3]) PROVE RulesKept /\ SourcesKept
  <2> DEFINE patched == <<p[1], p[2]>>
  <2>1. ASSUME NEW t \in Tenants, store[t] # Absent, store'[t] # store[t]
        PROVE  /\ store'[t] # Absent
               /\ DOMAIN store[t].rules \subseteq DOMAIN store'[t].rules
               /\ \A k \in DOMAIN store[t].src \cap DOMAIN store'[t].src :
                    k # patched => store'[t].src[k] = store[t].src[k]
    <3>1. /\ store'[t] = [store[t] EXCEPT !.src[patched] = p[3]]
          /\ patched \in DOMAIN store[t].src
      BY <1>4, <2>1 DEF Patch, PatchSource, TypeOK
    <3>2. store'[t] # Absent
      BY <1>4, <2>1, PatchSound DEF Patch
    <3>3. DOMAIN store'[t].rules = DOMAIN store[t].rules
      BY <3>1
    <3>4. \A k \in DOMAIN store[t].src : k # patched => store'[t].src[k] = store[t].src[k]
      BY <3>1
    <3> QED
      BY <3>2, <3>3, <3>4
  <2>2. RulesKept
    BY <2>1 DEF RulesKept
  <2>3. SourcesKept
    BY <1>4, <2>1 DEF SourcesKept
  <2> QED
    BY <2>2, <2>3
<1>5. ASSUME NEW m \in late, LatePost(m) PROVE FALSE
  BY <1>5 DEF StalePost
<1> QED
  BY <1>1, <1>2, <1>3, <1>4, <1>5
  DEF Next, Step, InitGet, Crash, Call, Acquire, Get, GetFails, NoPost, PostFails,
      PostTimesOut, PostAccepted, Check, Bind, BindRefused, BindFails, Save, SaveFails, Unlock,
      bigip

\* With any number of processes and every fault: rules and patched addresses are lost
\* to a post that is outdated when it takes effect, and to nothing else.
THEOREM OnlyStalePostsLose == Spec => LostOnlyByStalePost
<1>1. TypeOK /\ LossyInv /\ [Next]_vars => [StalePost \/ (RulesKept /\ SourcesKept)]_vars
  BY FreshStepKeeps
<1>2. TypeOK /\ LossyInv /\ [Next]_vars => LossyInv'
  BY LossyStep
<1> QED
  BY <1>1, <1>2, LossyInit, TypeCorrect, PTL DEF Spec, LostOnlyByStalePost

\* A process that is alone loses no rule: whatever else is created, changed or
\* deleted, and whatever fails or crashes, a rule list disappears only when its
\* own rule is deleted.
THEOREM NoRuleLost == Alone /\ Spec => OnlyDeletesRemove
<1> SUFFICES ASSUME Alone PROVE Spec => OnlyDeletesRemove
  OBVIOUS
<1>1. TypeOK /\ AloneInv => ~StalePost
  BY RequestTypes DEF StalePost, AloneInv, FreshRead, Post, InitPost, TypeOK
<1>2. TypeOK /\ Mutex /\ AloneInv /\ [Next]_vars => AloneInv'
  BY AloneStep
<1>3. [StalePost \/ (RulesKept /\ SourcesKept)]_vars /\ ~StalePost => [RulesKept]_vars
  OBVIOUS
<1> QED
  BY <1>1, <1>2, <1>3, AloneInit, TypeCorrect, MutexHeld, OnlyStalePostsLose, PTL
  DEF Spec, OnlyDeletesRemove, LostOnlyByStalePost

-----------------------------------------------------------------------------
(* What is reported as synced is declared. *)

\* Tenant t declares what q asks for, or no longer does.
Satisfied(app, q) ==
    IF q.isDelete THEN app # Absent => KeysOf(q) \cap DOMAIN app.rules = {}
                  ELSE UpToDate(app, q)

\* The request has been posted, or there was nothing to post.
Carried(w) == \/ pc[w] \in {"check", "bind", "save"}
              \/ pc[w] = "unlock" /\ out[w] = "ok"

DeclaredInv == \A w \in Workers : Carried(w) => Satisfied(store[Tenant(w)], req[w])

LEMMA BodySatisfies ==
    ASSUME NEW q \in Requests, NEW app, Proper(app, TenantOf[q.rule])
    PROVE  Satisfied(Body(app, q), q)
<1>1. CASE ~q.isDelete
  BY <1>1, PostedUpToDate DEF Satisfied, Proper
<1>2. CASE q.isDelete /\ app = Absent
  BY <1>2 DEF Satisfied, Body
<1>3. CASE q.isDelete /\ app # Absent
  <2>1. Body(app, q).rules = MergeAttrs(app.rules, Delta(q).rules, q.isDelete)
    BY <1>3 DEF Body, ClearUp, Merged
  <2>2. DOMAIN Delta(q).rules = KeysOf(q)
    BY DEF Delta
  <2>3. DOMAIN Body(app, q).rules = DOMAIN app.rules \ KeysOf(q)
    BY <1>3, <2>1, <2>2 DEF MergeAttrs, Restrict
  <2> QED
    BY <1>3, <2>3 DEF Satisfied
<1> QED
  BY <1>1, <1>2, <1>3

LEMMA DeclaredInit == Init => DeclaredInv
BY DEF Init, DeclaredInv, Carried

LEMMA DeclaredStep ==
    ASSUME Alone, TypeOK, Mutex, AloneInv, LossyInv, DeclaredInv, [Next]_vars
    PROVE  DeclaredInv'
<1> USE ClientAssumption DEF bigip, Leave
<1>1. ASSUME NEW c \in Clusters, InitGet(c) \/ InitPost(c) PROVE DeclaredInv'
  <2>1. \A w \in Workers : pc'[w] = "idle"
    BY <1>1 DEF InitGet, InitPost, InitPostOf, Mutex, Alone
  <2> QED
    BY <2>1 DEF DeclaredInv, Carried
<1>2. ASSUME NEW c \in Clusters, Crash(c) PROVE DeclaredInv'
  <2>1. \A w \in Workers : pc'[w] = "idle"
    BY <1>2 DEF Crash, Alone
  <2> QED
    BY <2>1 DEF DeclaredInv, Carried
<1>3. ASSUME NEW w \in Workers, NEW q \in RequestsOf[w], Call(w, q) PROVE DeclaredInv'
  BY <1>3 DEF Call, DeclaredInv, Carried, Tenant, TypeOK
<1>4. ASSUME NEW w \in Workers, Acquire(w) PROVE DeclaredInv'
  BY <1>4 DEF Acquire, DeclaredInv, Carried, Tenant, TypeOK
<1>5. ASSUME NEW w \in Workers, Step(w) PROVE DeclaredInv'
  <2>1. CASE Post(w)
    <3>1. /\ req' = req /\ pc[w] = "post"
          /\ \A v \in Workers : v # w => ~Carried(v)'
      <4>1. \A v \in Workers : v # w => pc[v] \notin Critical
        BY <2>1, OneInside DEF Post, Critical
      <4>2. \A v \in Workers : v # w => pc'[v] = pc[v]
        BY <2>1 DEF Post, Posted, TypeOK
      <4> QED
        BY <2>1, <4>1, <4>2 DEF Post, Critical, Carried
    <3>2. req[w] \in Requests /\ Tenant(w) \in Tenants /\ got[w] = store[Tenant(w)]
      BY <2>1, RequestTypes DEF Post, TypeOK, Tenant, AloneInv, FreshRead
    <3>3. store'[Tenant(w)] = Body(store[Tenant(w)], req[w])
      BY <2>1, <3>2 DEF Post, TypeOK
    <3>4. Proper(store[Tenant(w)], TenantOf[req[w].rule])
      BY <3>2 DEF LossyInv, Tenant
    <3>5. Satisfied(store'[Tenant(w)], req[w])
      BY <3>2, <3>3, <3>4, BodySatisfies
    <3>6. Satisfied(store[Tenant(w)], req[w])'
      BY <3>1, <3>5, Zenon DEF Satisfied, Tenant
    <3> QED
      BY <3>1, <3>6 DEF DeclaredInv
  <2>2. CASE NoPost(w)
    <3>1. got[w] = store[Tenant(w)] /\ req[w] \in Requests
      BY <2>2 DEF NoPost, TypeOK, AloneInv, FreshRead
    <3>2. Satisfied(store[Tenant(w)], req[w])
      BY <2>2, <3>1 DEF NoPost, Satisfied, UpToDate
    <3> QED
      BY <2>2, <3>2 DEF NoPost, DeclaredInv, Carried, Tenant, TypeOK
  <2>3. CASE Get(w) \/ GetFails(w) \/ PostFails(w)
    BY <2>3 DEF Get, GetFails, PostFails, DeclaredInv, Carried, Tenant, TypeOK
  <2>4. CASE PostTimesOut(w) \/ PostAccepted(w)
    BY <2>4 DEF PostTimesOut, PostAccepted, Alone
  <2>5. CASE Check(w) \/ Bind(w) \/ BindRefused(w) \/ BindFails(w)
    BY <2>5 DEF Check, Bind, BindRefused, BindFails, DeclaredInv, Carried, Tenant, TypeOK
  <2>6. CASE Save(w) \/ SaveFails(w)
    BY <2>6 DEF Save, SaveFails, DeclaredInv, Carried, Tenant, TypeOK
  <2>7. CASE Unlock(w)
    BY <2>7 DEF Unlock, DeclaredInv, Carried, Tenant, TypeOK
  <2> QED
    BY <1>5, <2>1, <2>2, <2>3, <2>4, <2>5, <2>6, <2>7 DEF Step
<1>6. ~ \E p \in Patches : Patch(p[1], p[2], p[3])
  BY DEF Alone
<1>7. ~ \E m \in late : LatePost(m)
  BY DEF AloneInv
<1>8. CASE UNCHANGED vars
  BY <1>8 DEF vars, DeclaredInv, Carried, Tenant
<1> QED
  BY <1>1, <1>2, <1>3, <1>4, <1>5, <1>6, <1>7, <1>8 DEF Next

\* When As3Request of a process that is alone returns without error, the BIG-IP declares
\* what it was asked for, whatever failed, crashed or was tried again before.
THEOREM DeclaredWhenSynced == Alone /\ Spec => []SyncedDeclared
<1> SUFFICES ASSUME Alone PROVE Spec => []SyncedDeclared
  OBVIOUS
<1>1. TypeOK /\ Mutex /\ AloneInv /\ [Next]_vars => AloneInv'
  BY AloneStep
<1>2. TypeOK /\ LossyInv /\ [Next]_vars => LossyInv'
  BY LossyStep
<1>3. TypeOK /\ Mutex /\ AloneInv /\ LossyInv /\ DeclaredInv /\ [Next]_vars => DeclaredInv'
  BY DeclaredStep
<1>4. DeclaredInv => SyncedDeclared
  BY DEF DeclaredInv, Carried, Satisfied, SyncedDeclared
<1> QED
  BY <1>1, <1>2, <1>3, <1>4, AloneInit, LossyInit, DeclaredInit, TypeCorrect, MutexHeld, PTL
     DEF Spec
=============================================================================
