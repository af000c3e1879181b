----------------------------- MODULE As3Client -----------------------------
(***************************************************************************)
(* The controller's calls to the BIG-IP (pkg/as3/request.go, client.go and  *)
(* InitAs3Tenant), one action per remote call.  A process ("cluster": each  *)
(* Kubernetes cluster runs one controller, several may share a BIG-IP) has  *)
(* one worker goroutine per rule queue.  As3Request holds the client's      *)
(* mutex, which orders the workers of one process and no others.            *)
(* TenantStore is what these calls are meant to amount to.                  *)
(***************************************************************************)
EXTENDS TenantStore

CONSTANTS
    Clusters,   \* controller processes
    Master,     \* masterCluster, the process that initialises Common
    Workers,
    ClusterOf,  \* ClusterOf[w]: the process of worker w
    RequestsOf, \* RequestsOf[w]: what the handler of w can ask for
    Patches,    \* <<r, s, A>>: what the endpoints workers can patch
    Faults,     \* the remote calls that can fail, see AllFaults
    MaxLate,    \* bound: posts in flight that nobody waits for
    Free        \* the mutex is not held

AllFaults == {"get", "post", "late", "bind", "save", "crash"}

ASSUME ClientAssumption ==
    /\ Master \in Clusters
    /\ ClusterOf \in [Workers -> Clusters]
    /\ RequestsOf \in [Workers -> SUBSET Requests]
    /\ Patches \subseteq Rules \X Services \X SUBSET Addrs
    /\ Faults \subseteq AllFaults
    /\ Free \notin Workers

VARIABLES
    bound,      \* <<t, y>>: the policy is enforced (global-rules, route domain)
    saved,      \* the part of bound that is in the saved configuration
    late,       \* posts that nobody waits for and that can still take effect
    up,         \* up[c]: InitAs3Tenant of process c: "get", "post" or "done"
    lock,       \* lock[c]: the worker that holds the client's mutex, or Free
    pc,         \* pc[w]: the next call of worker w
    req,        \* req[w]: the request it works on
    got,        \* got[w]: the declaration GET returned
    out         \* out[w]: what As3Request returned, "ok" or "err"

bigip == <<store, bound, saved, late>>
vars == <<store, bound, saved, late, up, lock, pc, req, got, out>>

Steps == {"idle", "lock", "get", "post", "check", "bind", "save", "unlock"}
Critical == {"get", "post", "check", "bind", "save", "unlock"}

Tenant(w) == TenantOf[req[w].rule]
\* The policy that the request needs to be enforced; a service policy is
\* enforced by the virtual server, which is part of the declaration.
Slot(q) == <<TenantOf[q.rule], RuleType[q.rule]>>

\* The worker is not in As3Request.
NoRequest == <<>>

Init ==
    /\ StoreInit
    /\ bound = {} /\ saved = {} /\ late = {}
    /\ up = [c \in Clusters |-> "get"]
    /\ lock = [c \in Clusters |-> Free]
    /\ pc = [w \in Workers |-> "idle"]
    /\ req = [w \in Workers |-> NoRequest]
    /\ got = [w \in Workers |-> Absent]
    /\ out = [w \in Workers |-> "err"]

-----------------------------------------------------------------------------
(* InitAs3Tenant, before the queues start.  An error ends the process, which *)
(* then starts again.                                                        *)

InitGet(c) ==
    /\ up[c] = "get"
    /\ up' = [up EXCEPT ![c] =
                IF c = Master /\ store[Common] = Absent THEN "post" ELSE "done"]
    /\ UNCHANGED <<bigip, lock, pc, req, got, out>>

InitPostOf == [tenant |-> Common, body |-> DefaultApp(Common)]

InitPost(c) ==
    /\ up[c] = "post"
    /\ store' = [store EXCEPT ![InitPostOf.tenant] = InitPostOf.body]
    /\ up' = [up EXCEPT ![c] = "done"]
    /\ UNCHANGED <<bound, saved, late, lock, pc, req, got, out>>

-----------------------------------------------------------------------------
(* As3Request. *)

Call(w, q) ==
    /\ up[ClusterOf[w]] = "done"
    /\ pc[w] = "idle"
    /\ pc' = [pc EXCEPT ![w] = "lock"]
    /\ req' = [req EXCEPT ![w] = q]
    /\ UNCHANGED <<bigip, up, lock, got, out>>

\* Mutant of Acquire: the mutex excludes nobody.
Acquire_NoGuard(w) ==
    /\ pc[w] = "lock"
    /\ lock' = [lock EXCEPT ![ClusterOf[w]] = w]
    /\ pc' = [pc EXCEPT ![w] = "get"]
    /\ UNCHANGED <<bigip, up, req, got, out>>

Acquire(w) ==
    /\ pc[w] = "lock"
    /\ lock[ClusterOf[w]] = Free
    /\ lock' = [lock EXCEPT ![ClusterOf[w]] = w]
    /\ pc' = [pc EXCEPT ![w] = "get"]
    /\ UNCHANGED <<bigip, up, req, got, out>>

\* As3Request returns r, the deferred Unlock is still to run.
Leave(w, r) ==
    /\ pc' = [pc EXCEPT ![w] = "unlock"]
    /\ out' = [out EXCEPT ![w] = r]

\* Mutant of Get: the mutex is given back before the post.
Get_Unlocks(w) ==
    /\ pc[w] = "get"
    /\ got' = [got EXCEPT ![w] = store[Tenant(w)]]
    /\ pc' = [pc EXCEPT ![w] = "post"]
    /\ lock' = [lock EXCEPT ![ClusterOf[w]] = Free]
    /\ UNCHANGED <<bigip, up, req, out>>

Get(w) ==
    /\ pc[w] = "get"
    /\ got' = [got EXCEPT ![w] = store[Tenant(w)]]
    /\ pc' = [pc EXCEPT ![w] = "post"]
    /\ UNCHANGED <<bigip, up, lock, req, out>>

\* Mutant of GetFails: the early return skips the Unlock.
GetFails_KeepsLock(w) ==
    /\ "get" \in Faults
    /\ pc[w] = "get"
    /\ pc' = [pc EXCEPT ![w] = "idle"]
    /\ UNCHANGED <<bigip, up, lock, req, got, out>>

GetFails(w) ==
    /\ "get" \in Faults
    /\ pc[w] = "get"
    /\ Leave(w, "err")
    /\ UNCHANGED <<bigip, up, lock, req, got>>

\* "as3 is not update": no post, and the policy is not looked at either.
NoPost(w) ==
    /\ pc[w] = "post"
    /\ UpToDate(got[w], req[w])
    /\ Leave(w, "ok")
    /\ UNCHANGED <<bigip, up, lock, req, got>>

\* post returned nil: what As3Request does depends on the type of the rule.
Posted(w) ==
    IF RuleType[req[w].rule] = "svc"
    THEN Leave(w, "ok")
    ELSE pc' = [pc EXCEPT ![w] = "check"] /\ out' = out

\* Mutant of Post: what the BIG-IP has is not merged into the declaration.
Post_DeltaOnly(w) ==
    /\ pc[w] = "post"
    /\ ~UpToDate(got[w], req[w])
    /\ store' = [store EXCEPT ![Tenant(w)] = Delta(req[w])]
    /\ Posted(w)
    /\ UNCHANGED <<bound, saved, late, up, lock, req, got>>

Post(w) ==
    /\ pc[w] = "post"
    /\ ~UpToDate(got[w], req[w])
    /\ store' = [store EXCEPT ![Tenant(w)] = Body(got[w], req[w])]
    /\ Posted(w)
    /\ UNCHANGED <<bound, saved, late, up, lock, req, got>>

\* Mutant of PostFails: the error of the post is dropped.
PostFails_Ignored(w) ==
    /\ "post" \in Faults
    /\ pc[w] = "post"
    /\ ~UpToDate(got[w], req[w])
    /\ pc' = [pc EXCEPT ![w] = "check"]
    /\ UNCHANGED <<bigip, up, lock, req, got, out>>

\* The BIG-IP refuses the declaration or is not reached.
PostFails(w) ==
    /\ "post" \in Faults
    /\ pc[w] = "post"
    /\ ~UpToDate(got[w], req[w])
    /\ Leave(w, "err")
    /\ UNCHANGED <<bigip, up, lock, req, got>>

\* The http.Client gives up after 60 seconds (NewClient); the BIG-IP may still
\* be working on the declaration.
PostOf(w) == [tenant |-> Tenant(w), body |-> Body(got[w], req[w])]

PostTimesOut(w) ==
    /\ "late" \in Faults
    /\ pc[w] = "post"
    /\ ~UpToDate(got[w], req[w])
    /\ late' = late \cup {PostOf(w)}
    /\ Cardinality(late') <= MaxLate
    /\ Leave(w, "err")
    /\ UNCHANGED <<store, bound, saved, up, lock, req, got>>

\* 202 Accepted: handleResponse takes it for success, although the BIG-IP is
\* still working on the declaration.
PostAccepted(w) ==
    /\ "late" \in Faults
    /\ pc[w] = "post"
    /\ ~UpToDate(got[w], req[w])
    /\ late' = late \cup {PostOf(w)}
    /\ Cardinality(late') <= MaxLate
    /\ Posted(w)
    /\ UNCHANGED <<store, bound, saved, up, lock, req, got>>

\* getF5Resource: is the policy enforced already?
Check(w) ==
    /\ pc[w] = "check"
    /\ IF Slot(req[w]) \in bound
       THEN Leave(w, "ok")
       ELSE pc' = [pc EXCEPT ![w] = "bind"] /\ out' = out
    /\ UNCHANGED <<bigip, up, lock, req, got>>

\* Mutant of Bind: the configuration is not saved.
Bind_NoSave(w) ==
    /\ pc[w] = "bind"
    /\ store[Tenant(w)] # Absent
    /\ bound' = bound \cup {Slot(req[w])}
    /\ Leave(w, "ok")
    /\ UNCHANGED <<store, saved, late, up, lock, req, got>>

\* patchF5Reource of the global rules or of the route domain.
Bind(w) ==
    /\ pc[w] = "bind"
    /\ store[Tenant(w)] # Absent
    /\ bound' = bound \cup {Slot(req[w])}
    /\ pc' = [pc EXCEPT ![w] = "save"]
    /\ UNCHANGED <<store, saved, late, up, lock, req, got, out>>

\* The BIG-IP has no such policy: the request was a deletion from a tenant that
\* is not declared, or its post is still being worked on.
BindRefused(w) ==
    /\ pc[w] = "bind"
    /\ store[Tenant(w)] = Absent
    /\ Leave(w, "err")
    /\ UNCHANGED <<bigip, up, lock, req, got>>

\* getF5Resource or the patch fails, or only the answer to the patch is lost.
BindFails(w) ==
    /\ "bind" \in Faults
    /\ \/ pc[w] \in {"check", "bind"} /\ bound' = bound
       \/ /\ pc[w] = "bind" /\ store[Tenant(w)] # Absent
          /\ bound' = bound \cup {Slot(req[w])}
    /\ Leave(w, "err")
    /\ UNCHANGED <<store, saved, late, up, lock, req, got>>

\* storeDisk
Save(w) ==
    /\ pc[w] = "save"
    /\ saved' = bound
    /\ Leave(w, "ok")
    /\ UNCHANGED <<store, bound, late, up, lock, req, got>>

SaveFails(w) ==
    /\ "save" \in Faults
    /\ pc[w] = "save"
    /\ saved' \in {saved, bound}
    /\ Leave(w, "err")
    /\ UNCHANGED <<store, bound, late, up, lock, req, got>>

\* Mutant of Unlock: the call is tried again, although its request is gone.
Unlock_Again(w) ==
    /\ pc[w] = "unlock"
    /\ lock' = [lock EXCEPT ![ClusterOf[w]] = Free]
    /\ pc' = [pc EXCEPT ![w] = "lock"]
    /\ req' = [req EXCEPT ![w] = NoRequest]
    /\ got' = [got EXCEPT ![w] = Absent]
    /\ out' = [out EXCEPT ![w] = "err"]
    /\ UNCHANGED <<bigip, up>>

\* The deferred Unlock; what As3Request knew is gone with its stack frame.
Unlock(w) ==
    /\ pc[w] = "unlock"
    /\ lock' = [lock EXCEPT ![ClusterOf[w]] = Free]
    /\ pc' = [pc EXCEPT ![w] = "idle"]
    /\ req' = [req EXCEPT ![w] = NoRequest]
    /\ got' = [got EXCEPT ![w] = Absent]
    /\ out' = [out EXCEPT ![w] = "err"]
    /\ UNCHANGED <<bigip, up>>

-----------------------------------------------------------------------------
(* What happens outside As3Request. *)

\* UpdateBigIPSourceAddress, by the endpoints worker, without the mutex.
Patch(r, s, A) ==
    /\ PatchSource(r, s, A)
    /\ UNCHANGED <<bound, saved, late, up, lock, pc, req, got, out>>

\* A post that timed out takes effect.
LatePost(m) ==
    /\ m \in late
    /\ late' = late \ {m}
    /\ store' = [store EXCEPT ![m.tenant] = m.body]
    /\ UNCHANGED <<bound, saved, up, lock, pc, req, got, out>>

\* Process c ends and starts again; its post may be on the way.
Crash(c) ==
    LET mine == {w \in Workers : ClusterOf[w] = c}
        sent == {PostOf(w) : w \in {v \in mine : /\ pc[v] = "post"
                                                 /\ ~UpToDate(got[v], req[v])}}
        init == IF up[c] = "post" THEN {InitPostOf} ELSE {}
        Fresh(f, v) == [w \in Workers |-> IF w \in mine THEN v ELSE f[w]]
    IN  /\ "crash" \in Faults
        /\ up[c] # "get"
        /\ late' \in {late, IF "late" \in Faults THEN late \cup sent \cup init ELSE late}
        /\ Cardinality(late') <= MaxLate
        /\ up' = [up EXCEPT ![c] = "get"]
        /\ lock' = [lock EXCEPT ![c] = Free]
        /\ pc' = Fresh(pc, "idle")
        /\ req' = Fresh(req, NoRequest)
        /\ got' = Fresh(got, Absent)
        /\ out' = Fresh(out, "err")
        /\ UNCHANGED <<store, bound, saved>>

Step(w) ==
    \/ Get(w) \/ GetFails(w)
    \/ NoPost(w) \/ Post(w) \/ PostFails(w) \/ PostTimesOut(w) \/ PostAccepted(w)
    \/ Check(w) \/ Bind(w) \/ BindRefused(w) \/ BindFails(w)
    \/ Save(w) \/ SaveFails(w)
    \/ Unlock(w)

Next ==
    \/ \E c \in Clusters : InitGet(c) \/ InitPost(c) \/ Crash(c)
    \/ \E w \in Workers : \/ \E q \in RequestsOf[w] : Call(w, q)
                          \/ Acquire(w)
                          \/ Step(w)
    \/ \E p \in Patches : Patch(p[1], p[2], p[3])
    \/ \E m \in late : LatePost(m)

\* A remote call ends within the 60 seconds of the http.Client, and a goroutine
\* that waits for a sync.Mutex gets it (starvation mode).
Fairness == \A w \in Workers : WF_vars(Step(w)) /\ SF_vars(Acquire(w))

Spec == Init /\ [][Next]_vars /\ Fairness

-----------------------------------------------------------------------------
TypeOK ==
    /\ DOMAIN store = Tenants
    /\ bound \subseteq Tenants \X Types
    /\ saved \subseteq bound
    /\ \A m \in late : m.tenant \in Tenants
    /\ up \in [Clusters -> {"get", "post", "done"}]
    /\ lock \in [Clusters -> Workers \cup {Free}]
    /\ pc \in [Workers -> Steps]
    /\ req \in [Workers -> Requests \cup {NoRequest}]
    /\ \A w \in Workers : pc[w] # "idle" => req[w] \in Requests
    /\ DOMAIN got = Workers
    /\ out \in [Workers -> {"ok", "err"}]

\* The declaration a worker is about to post was computed from the one the
\* BIG-IP has now: nothing that was posted since the GET gets lost.
FreshRead == \A w \in Workers : pc[w] = "post" => got[w] = store[Tenant(w)]

\* The calls of As3Request, each made of several remote calls of several
\* goroutines that can fail or end in between, change the BIG-IP as if every
\* request were applied at once (TenantStore).
ImplementsStore == StoreSpec

\* A step takes rule lists away only for a deletion of their own rule, ...
RulesKept ==
    \A t \in Tenants : store[t] # Absent =>
        \A k \in DOMAIN store[t].rules :
            (store'[t] = Absent \/ k \notin DOMAIN store'[t].rules) =>
                \E w \in Workers : /\ pc[w] = "post" /\ pc'[w] # "post"
                                   /\ req[w].isDelete /\ req[w].rule = k[1]

\* ... and changes source addresses only by a patch of them or a request of their rule.
SourcesKept ==
    \A t \in Tenants : (store[t] # Absent /\ store'[t] # Absent) =>
        \A k \in DOMAIN store[t].src \cap DOMAIN store'[t].src :
            store'[t].src[k] # store[t].src[k] =>
                \/ \E p \in Patches : <<p[1], p[2]>> = k /\ Patch(p[1], p[2], p[3])
                \/ \E w \in Workers : pc[w] = "post" /\ pc'[w] # "post" /\ req[w].rule = k[1]

\* A rule list disappears from the BIG-IP only when its own rule, or an
\* external service of that rule, is deleted.
OnlyDeletesRemove == [][RulesKept]_vars

\* No other rule's request takes back the addresses that were patched.
PatchSurvives == [][SourcesKept]_vars

\* What is posted was computed from a declaration that the BIG-IP has no more; of a late
\* post nothing is known.
StalePost ==
    \/ \E w \in Workers : Post(w) /\ got[w] # store[Tenant(w)]
    \/ \E c \in Clusters : InitPost(c) /\ store[Common] # Absent
    \/ \E m \in late : LatePost(m)

\* With several clusters, patches outside the mutex, crashes and late posts, a post that
\* is outdated when it takes effect, or late, is all that can take away a rule that nobody deleted
\* or addresses that were patched.
LostOnlyByStalePost == [][StalePost \/ (RulesKept /\ SourcesKept)]_vars

\* When As3Request returns without error, the BIG-IP declares what it asked for,
\* or no longer does if it was a deletion: neither a failed call nor another
\* worker stands between the report and what is so.  "Declares" is in the sense of the
\* code's own comparison, UpToDate.
SyncedDeclared ==
    \A w \in Workers :
        (pc[w] = "unlock" /\ out[w] = "ok") =>
            LET app == store[Tenant(w)]
            IN  IF req[w].isDelete
                THEN app # Absent => KeysOf(req[w]) \cap DOMAIN app.rules = {}
                ELSE UpToDate(app, req[w])

\* When As3Request returns without error, upon which the handler reports
\* "synced successfully", the policy of the rule is enforced and the BIG-IP has
\* saved that it is.  (Not so after a failed binding, a POST whose answer was lost, or a
\* crash between POST and binding: the next request finds nothing to post.)
SyncedBound ==
    \A w \in Workers :
        (pc[w] = "unlock" /\ out[w] = "ok" /\ RuleType[req[w].rule] # "svc") =>
            Slot(req[w]) \in saved

\* Whatever is lost on the way, no declaration lists a rule list that is not
\* there, lacks an address or port list, keeps one that nothing uses, or has a
\* service rule behind the deny-all.
NeverDangles ==
    /\ DenyLast
    /\ PolicyListsRules
    /\ NoOrphanLists
    /\ RefsResolve

\* Every call of As3Request returns.
HandlerReturns == \A w \in Workers : (pc[w] = "lock") ~> (pc[w] = "idle")
=============================================================================
