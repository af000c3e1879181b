# A verification project for the Container Egress Service controller

CES (`src/`) is a Kubernetes controller. It watches egress rules of three kinds
(ClusterEgressRule, NamespaceEgressRule, ServiceEgressRule) and the
ExternalServices they name, and keeps firewall policies for them on an F5 BIG-IP:
it reads the AS3 declaration of a BIG-IP tenant, merges what a rule needs into it
and posts the whole tenant back. Changes of a service's endpoints are patched into
an address list directly, and a background loop saves the BIG-IP's configuration.

This directory holds TLA+ modules of that program, TLC runs, and TLAPS proofs.
Line numbers below refer to `src/`; `PROJECT.json` maps every definition to its
lines and lists the runs, mutants, findings, hazards and theorems.

## 1. Inventory

| Component | State | Operations | Interacts with |
|---|---|---|---|
| AS3 declaration (`pkg/as3/utils.go`) | none of its own: the tenant's JSON declaration | generate the delta of a request (`newAs3Post`, `generateAS3ResourceDeclaration`, `dealRule`, `dealExsvc`, `newRulesDecl`, `newPoliciesDecl`), merge it (`fullResource`, `policyMergeFullJson`, `clearUpUnreferencePolicy`), compare (`isDiff`) | called by the client; reads the tenant configuration |
| AS3 client (`request.go`, `client.go`, end of `init.go`'s `InitAs3Tenant`) | the client's mutex; everything else is on the BIG-IP | `InitAs3Tenant`, `As3Request`, `UpdateBigIPSourceAddress` | called by the sync handlers; one HTTP call per remote step |
| Saving (`request.go` 129-171) | `syncFq.updateTimes` under `syncFq.lock` | `process`, `frequency`, `Work` | started by patches; `storeDisk` on the BIG-IP |
| Controller (`pkg/controller`) | informer caches, five rate-limited work queues, rule status, labels of ExternalServices | event handlers with `isUpdate`, five workers and their sync handlers | API server, AS3 client, tenant configuration |
| Tenant configuration (`init.go`, `register.go`) | a process-wide `sync.Map` holding plain maps | load at start, reload on a file event, lookups by namespace and partition | read by everybody |
| Start-up and signals (`cmd/ces`, `pkg/signals`) | stop channel | parse flags, `InitAs3Tenant`, start informers, `Work`, `Run` | everything |
| Custom resource types, generated client code, installation scripts | - | - | - |

What is hard in it:

* **Interleaving.** Five workers of one process, and several processes (one per
  Kubernetes cluster) on one BIG-IP, do a read-modify-write of the same tenant. The
  mutex orders only the four rule workers of one process; patches do not take it.
  Users edit objects while handlers work on copies of them, and handlers change
  objects of the informers' caches, which other workers read.
* **Failure.** Every remote call can fail, succeed with its answer lost, or be
  carried out after the client gave up; `202 Accepted` counts as success. A request
  is up to five remote calls, a handler up to three more per external service, and a
  retry starts from the beginning.
* **Crashes.** Nothing is persisted locally; a restart keeps only what the BIG-IP
  and the API server have.
* **Order.** The first matching rule list counts, and the deny-all rule list must
  stay last through every append and deletion. Five informers deliver independently;
  a retried entry is overtaken by newer ones; two reloads of the configuration are
  not ordered.
* **Accumulation.** Declarations are edited for ever, never rebuilt: anything a
  merge leaves behind or takes away stays so.

`PROJECT.json` lists these hazards line by line. What makes each component
correct:

* declaration: consistent in itself after any sequence of requests, idempotent,
  independent of the order of the workers that read the same configuration, touching one
  rule at a time; each port allowed with its own protocol and bandwidth and nothing else;
* client: every request takes effect atomically, nothing is lost that nobody
  deleted, a reported success is a real one, every call returns;
* saving: a patch is not forgotten before it is saved, and is saved in the end;
* controller: what the API server says about rules and services is what the BIG-IP
  declares once everything is quiet, a deleted rule disappears, a status is true, all
  entries are handled in the end;
* configuration: what the lookups answer is what the file says, and a namespace that
  stays in the file never loses its tenant.

## 2. Modules

| Module | Models | Notes |
|---|---|---|
| `As3Declaration` | `utils.go`: delta, merge, clean-up, comparison | operators only |
| `ExternalPorts` | `dealExsvc`: the grouping of a service's ports | one step per port |
| `TenantStore` | the abstract BIG-IP: tenants change one whole request at a time | variable `store` |
| `As3Client` | `As3Request` call by call, `InitAs3Tenant`, patches, faults | extends `TenantStore`, refines it |
| `SaveConfig` | `UpdateBigIPSourceAddress`, `process`, `frequency`, `Work` | self-contained |
| `TenantConfig` | load, reload and lookups of `ces-conf.yaml` | self-contained |
| `Informers` | API server, informer caches, `isUpdate`, event handlers, queues | extends `As3Declaration` |
| `Controller` | the five workers and their sync handlers | composes `Informers` and `TenantStore` |
| `EgressRules` | the abstract specification of what the controller promises for a rule | self-contained |
| `RulePromise` | `Controller` as `EgressRules` sees it: the refinement mapping | extends `Controller`, refines `EgressRules` |
| `MCTenantStore`, `MCAs3Client`, `MCExternalPorts`, `MCTenantConfig`, `MCController` | small instances for TLC | values of the constants |
| `TenantStoreProofs`, `As3ClientProofs`, `SaveConfigProofs`, `TenantConfigProofs`, `ExternalPortsProofs`, `ControllerProofs` | theorems about one module each | checked by tlapm |
| `RuleDeliveryProofs` | theorems about what `Controller` brings about for its rules, and that it implements `EgressRules` | extends `ControllerProofs` and `RulePromise` |
| `SettledProofs` | theorems about what `Controller` settles to when external services and pods change too | extends `RuleDeliveryProofs` |

Two chains of refinement tie them together: `As3Client` implements `TenantStore`
(`ImplementsStore`), so `Controller` may take `As3Request` as one step; `Controller`
implements `TenantStore` as well (`StoreSpec`: it changes the BIG-IP by whole
requests and patches only) and `EgressRules` (`Promised`).

**`As3Declaration`.** The `Shared` application of a tenant is a record with one
partial function per class of attribute: `policy` (sequences of uses), `rules` (rule
lists), `dst` and `ports` (destination lists), `src` (source address lists). An
attribute name, a string built from rule, service, ..., is the tuple of these names.
Pool, virtual address and virtual server depend on the configuration alone, so
`conf` keeps the version of `ces-conf.yaml` they were computed from, and `log`
whether the log profile is declared. What a request finds in a version (`Confs`) includes
what becomes of its log template: a template that is no JSON, or has an entry that is no
object, ends `newLogPoolDecl` before the profile is declared, and as it ranges over a Go
map, not each time alike. It is called twice, for the delta (`Profile`) and by the
clean-up for what a deletion may not take away (`KeptProfile`); the virtual server names
the profile in any case (`Logging`). A request `q` is what the arguments of
`As3Request` come down to: the rule, the external services that are both listed by
the rule and passed by the handler, what they declare, the source addresses found,
the action, the configuration and `isDelete`. `Delta(q)` is the generated
declaration, `Body(app, q)` what `fullResource` makes of it, `UpToDate(app, q)` its
`nil` answer. Details that are kept because they matter: a deletion request deletes
the attributes of its own delta, keeps pool and virtual server, and never returns
`nil`; deleting from an undeclared tenant posts a null `Shared`; the deny-all use is
*exchanged* with the last one; `isDiff` looks at the attributes of the new
declaration only; lists nobody uses are dropped *after* the merge.

**`ExternalPorts`** walks through a service's ports. `ptlMap` has a group per key; the
key is the protocol, or the port's name when its bandwidth differs from that of the
protocol's group, or when there is no such group yet and it has a bandwidth. A group
for all ports is added when no group came up. `Matches` is what the firewall rule that
`newRulesDecl` makes of a group lets through: a group without protocol, everything.

**`TenantStore`** has three actions: `InitCommon`, `Apply(q)` (GET and POST at once)
and `PatchSource`. It is what the client's calls are meant to amount to.

**`As3Client`.** One action per remote call. A worker's `pc` walks through `idle,
lock, get, post, check, bind, save, unlock`; the early returns of `As3Request` go to
`unlock` by `Leave`. `lock[c]` is the mutex of process `c`. `up[c]` is the progress
of `InitAs3Tenant`, before which no worker runs. On the BIG-IP there are `store`,
`bound` (enforced policies), `saved` (the part of `bound` in the saved
configuration), and `late` (posts nobody waits for). `Faults` chooses what can go
wrong: a failed GET, POST, bind or save, the last two with the effect done or not;
a POST that times out or is accepted and carried out later; a crash, which drops
all local state and may leave a post on its way. A service rule needs no binding:
its policy is enforced by the declared virtual server.

**`SaveConfig`** counts patches (`running`, `saved`). A patch takes effect, then its
answer starts a goroutine `process`, which appends a record under `syncFq.lock`;
`frequency` holds the same lock while it saves and then clears the records. `times`
holds the records' ages. The history variable `lost` is the last patch whose answer
was lost or that was before the process ended; nothing in the model reads it.

**`TenantConfig`.** `viper` is what viper read last, `event` a change of the file it has
not read yet. A goroutine that loads the configuration has in `loading[l]` the entries
it has still to store: the settings one by one, then for each tenant its partition
and its namespaces. `values`, `partition` and `namespace` are the sync.Map and the two
maps in it. The error of `ReadInConfig` is ignored (`init.go:18`), so that on a file that
does not parse (`Garbled`) viper keeps what it had, or nothing in the beginning (`Zero`),
and the function of `OnConfigChange` runs all the same. The process panics on a file that
parses and cannot be unmarshalled (`Invalid`), ends without Common, and can end at any
time, as Go does on a concurrent map access.

**`Informers`.** `api` is the API server, `cache` what the informers hold. Versions are
not numbered: `fresh` says which cached objects are the current version, `object[r]`
where the handler of rule `r` has its copy from, which is all that an update's
resourceVersion is compared for. `Deliver` brings a new version and calls the event
handler: `Notified` with `IsUpdate` decides whether an entry is queued. `Missed` is a
deletion that the watch missed, `List` the first list of an informer. The pods of an
Endpoints object are ready or not (`NotReady`): the event handlers ask only whether there
are any, the sync handlers use the ready ones (`Ready`). A queue holds
objects, not keys (`Entry`), so that a deleted rule's handler knows its former
specification. `mark` is a rule's phase or an external service's rule type label.

**`Controller`.** A worker of rules takes an entry (`RuleStart`, which reads the rule
and its source addresses from the caches), looks one external service up after the
other (`ExtMissing`, `ExtLabelled`, `ExtLabel`, `ExtLabelFails`: the label is set in the
cached object first and then in the API server), sets the phase to Syncing
(`Announce`), makes the request (`Post`, `PostFails`) and sets the phase to Success
(`Succeed`); `PhaseFails` is either status update with an error or a conflict. An error
puts the entry back into the queue. The worker of external services (`ExtStart`) finds
one rule that lists the service by the service's label and posts for it; the worker of
Endpoints (`EndpointsStart`, `EndpointsPatch`) patches the source address list of one
rule and ignores the patch's error. `Crash` drops all of it but the API server and the
BIG-IP.

**`EgressRules`** says in a page what all this is for, one value for each pair of a rule
and an external service: users change what they want; the controller sees it, takes what
it sees, and declares what it took, as often as it likes, or drops it. What it takes may
also be the removal of the pair, when it sees that the rule or the external service is
gone. `RulePromise` has the refinement mapping: `wanted` is what the API server's rule asks
for, `seen` what the cached one does, `taken` what the requests ask for that the handlers
of the rule and of the external service have under way, `declared` what the BIG-IP has.

## 3. Runs

| Run | Question | Result |
|---|---|---|
| `tenant_store` | four rules of all types, two tenants, two external services with up to two port groups, edits, deletions, three versions of the configuration: is every reachable declaration consistent, and does it depend on order or repetition? | holds |
| `one_process` | three workers of one process, GETs and POSTs may fail, in a partition that is not declared at first: does it implement `TenantStore`, report success truly, and return? | holds |
| `lossy` | two processes, patches, crashes, late and accepted posts, every fault: are declarations consistent in themselves, and what alone can lose something? | holds |
| `save_config` | saves fail, answers get lost, the process ends: what is forgotten, and is the rest saved? | holds |
| `external_ports` | every list of up to three named ports, with or without numbers and protocols: is each allowed as it says, and nothing else? | holds |
| `tenant_config` | edits, restarts, Common missing, files that do not parse or cannot be unmarshalled: do the lookups say what the file says, and does a namespace that stays in it ever lose its tenant? | holds |
| `rules` | one rule edited, deleted and created again at any time, every fault: is it declared, is its status true, does the controller keep its promise? | holds |
| `updates` | external services, pods, some of them not ready, and a list of external services, empty at first, change, answers get lost, bindings fail, the process ends: does all of it arrive? | holds |
| `kinds` | a cluster and a namespace rule share an external service, a rule is out of range, services are deleted or refused: does what is deleted disappear? | holds |
| `settles` | requests may fail while users edit: is everything handled, and the BIG-IP right for good, in the end? | holds |
| `retry_after_bind_failure` | one process, and the binding may fail: is a reported success true? | violated: finding 1 |
| `label_update_fails` | like `updates` with one rule, and calls to the API server may fail: does an edit arrive? | violated: finding 2 |

**Properties of `TenantStore`**: `DenyLast` (deny-all last in the service policy, once, and
nowhere else), `PolicyListsRules` (a policy lists each rule list of its type exactly once,
and nothing else), `NoOrphanLists` / `RefsResolve` (no list unused, no list missing),
`RetryIsQuiet` (a request made again after it succeeded leaves what it would have left
alone, and posts nothing, unless it is a deletion or a service has two port groups),
`RequestsCommute` (requests of two rules that found the same in the configuration commute up
to the order in the policies; otherwise pool, virtual server and log profile are those of
the last one), `OrderStable` (a step never reorders the rule lists that stay),
`OneRuleAtATime` (a step changes what one rule declares), `LogProfileKept` (a virtual
server's log profile goes only with a deletion that meets a configuration without logging,
or with a request whose log template was not read to the end: `LosesProfile`).

**Properties of `As3Client`**: `FreshRead` (what is posted was computed from what the BIG-IP
has now), `ImplementsStore`, `OnlyDeletesRemove` (a rule list disappears only by a deletion
for its rule), `SyncedDeclared` (no error means declared, in the sense of the code's own
comparison) and `SyncedBound` (and enforced and saved; in `one_process` a POST fails without
effect: one that is carried out while its answer is lost, and a crash between POST and
binding, leave a policy unbound as finding 1 does), `HandlerReturns`, `NeverDangles` (four
of the store's invariants under every fault), `LostOnlyByStalePost` (under every fault, a
rule list that nobody deleted or patched addresses are lost only by a post that is outdated
when it takes effect, or that is late: a late one is excused even if nothing came between).

**Properties of `SaveConfig`**: `NothingForgotten`, `PatchesSaved`.
**Of `ExternalPorts`**: `Grouped` (each port in a group of its protocol and bandwidth,
and nothing else in any group), `RulesMatch` (the firewall rules of the groups match the
numbers that the ports have, by their protocols, and no others; a service without numbers,
or with a number that has no protocol, is open).
**Of `TenantConfig`**: `Reloaded` (when nothing is under way, the lookups say what the
file says, or, if it does not parse, what the last one said that did), `StaysWatched` (a
namespace in every file that parses has a tenant at every moment, while the configuration
is loaded again), `EventuallyCurrent`.

**Properties of `Controller`**, when everything is delivered and handled (`Quiet`):
`RulesDeclared` (each rule has a rule list for each of its external services, with its
action), `ContentsCurrent` and `SourcesCurrent` (with the addresses of now, of the pods that are
ready),
`NothingLeft` (and nothing else is declared), `PhaseSuccess`, `LabelsMatch`. At every
step: `SuccessIsTrue` (a status becomes Success only when the rule lists that are declared have
the action of the rule's current version; that they are all declared is for
`RulesDeclared`), `Promised` (`EgressRules`), `StoreSpec`. In the end: `Settles`
(everything gets handled when users and failures stop), `Converges` (the BIG-IP has
what users want, for good).

### Findings

1. *A retry hides a failed binding.* POST succeeds, binding fails, the rule is queued
   again; the retry finds nothing to post, returns at `request.go:35-38` without
   looking at the binding, and "synced successfully" is reported.
2. *A failed label update is never made up for.* The handler sets the label in the
   informer's object and then calls `Update` (`process_serviceegressrule.go:131-133`).
   If that fails once, the retry sees the label and skips the update. The object in
   the API server has no label, so the next edit of the service brings one without
   label, for which `externalServiceSyncHandler` finds no rules: the edit is ignored.

### Further configurations, each of which TLC finds violated

They are kept beside the runs because each states where a property of the passing runs
ends. All of them are single behaviours of a few steps that the code does have.

| Configuration | Property | What happens |
|---|---|---|
| `As3Client_TwoClusters` | `OnlyDeletesRemove` | Two clusters on one BIG-IP (`ces-conf.yaml:4`): both GET, both POST; the second POST is the whole tenant without the first one's rule. The mutex is the process's own. |
| `As3Client_Patch` | `PatchSurvives` | `UpdateBigIPSourceAddress` runs without the mutex, between the GET and the POST of another rule's request, which takes the patch back. |
| `MCTenantStore_SrcList` | `SrcResolves` | The rule lists of a service rule share one source address list; deleting one external service deletes it with that service's attributes (`utils.go:955`). |
| `MCTenantStore_LogProfile` | `LogProfileThere` | With good templates: after logging is switched off, a deletion drops the log profile (`utils.go:1066`) that the virtual server, which it keeps, still names. |
| `ExternalPorts_Unnamed` | `EveryPort` | Two ports with bandwidths and no names, or the same, end up in one group with the last one's bandwidth and protocol (`utils.go:651`); the CRD does not require names. |
| `ExternalPorts_NoProtocol` | `OpenOnlyIfNoPorts` | A port with a number and no protocol, which the CRD allows (`v1alpha1_externalservices.yaml:41-52`), gives a group without protocol (`utils.go:646`), whose firewall rule matches everything (`utils.go:178`, `:234`). |
| `Controller_SharedExt` | `ContentsCurrent` | An external service listed by two rules is updated for one of them only (`process_extenalservice.go:113`). |
| `Controller_Race` | `ContentsCurrent` | The rule handler posts the external service it read (`process_serviceegressrule.go:140`) after the service's own worker posted a newer version. |
| `Controller_LateAction` | `RulesDeclared` | A rule and its external service are edited: the service's worker posts the rule it read before its edit (`process_extenalservice.go:113`) after the rule's own worker posted it, and the rule keeps its former action. |
| `Controller_ScaleToZero` | `SourcesCurrent` | `isUpdate` drops Endpoints without subsets (`controller.go:366`): the former pods' addresses stay. |
| `Controller_NotReady` | `Settles` | Endpoints whose pods are all not ready have subsets, so they are queued; the handler finds no address and fails (`process_endpoint.go:100-104`), again and again. |
| `Controller_SharedService` | `SourcesCurrent` | Two rules of one service: the handler of its Endpoints stops after the first one (`process_endpoint.go:108`), and the other keeps the addresses of the former pods. |
| `Controller_LateExt` | `RulesDeclared` | A rule created before its external service is done with "no need synchronize", and the service has no AddFunc (`controller.go:138`). |
| `Controller_RouteDomain` | `SourcesCurrent` | The patch marks addresses with `%10` whatever the tenant's route domain is (`request.go:117`). |
| `TenantConfig_Overlap` | `Reloaded` | Two quick edits: the goroutine of the first one stores its entries after those of the second one (`init.go:31`). |
| `TenantConfig_EarlyEdit` | `Reloaded` | An edit after `WatchConfig` and before `OnConfigChange` (`init.go:19`, `:29`) is read by viper and never stored. |
| `TenantConfig_Garbled` | `FileInForce` | An edit that does not parse: viper keeps the former configuration, the error is ignored (`init.go:18`), and the process goes on with it. |
| `TenantConfig_Removed` | `OnlyConfigured` | A namespace taken out of the file stays in the watch range until a restart (`init.go:131`). |

Met on the way: `newRulesDecl` ranges over a Go map of port groups
(`utils.go:175`), so the firewall rules of a rule list come in an order that is
chosen anew each time, and `isDiff` compares them in order. A request that is made
again for a service with two port groups may therefore post the tenant although
nothing changed; the declarations differ in that order alone (`RetryIsQuiet`).

### Bounds, and why they are enough

* `MCTenantStore`: four rules are the fewest that give a policy with two rules of its own
  type and tenants with rules of two types. One rule has two external services in a list
  that is edited, one service is edited between two port groups, in either order, and none,
  and one rule is seen with and without endpoints and meets versions of the configuration
  with and without logging, and with a template from which the profile is declared never, or
  for the delta and not in the clean-up; the others vary less, because the merge treats
  attributes of different names independently. Sequences of requests are unbounded: the
  declarations reachable are finite.
* `MCAs3Client`: three workers (namespace rules, service rules, external services)
  in one process, or two in two. A lost update needs two workers, waiting for a
  mutex held by a second one while a third waits too needs three. One external
  service with two contents makes requests that change something and requests that
  do not. In `one_process` a declaration is absent at first; what bindings, saves and
  crashes do is in `lossy`, and the proofs of `one_process`'s properties cover them.
* `MaxLate = 1`: one post in flight can already overtake any number of others.
* `SaveConfig`: `Batch = 2` for ten and `MaxAge = 2` for two minutes: only whether a
  threshold is crossed matters. `MaxPatches = 4` reaches the threshold, crosses it,
  and leaves a patch to arrive during the save. The proofs have no bound.
* `ExternalPorts`: three ports have every pair of protocol and bandwidth in every
  order, before and behind a third, with no number, one or two, and no protocol or one of
  two; names are distinct or shared with the first. The proofs have no bound.
* `TenantConfig`: `Loaders` bounds the goroutines that load at a time, `EditsWait` what
  an edit waits for (`"loaded"`: until the last one is in force; `"started"`: only for
  `OnConfigChange`; `"nothing"`). Four of the six files differ in what a tenant has, in its
  namespaces, in the route domain switch, one of them has no Common; one does not parse,
  one parses and cannot be unmarshalled. The run has one loader, as
  `Reloaded` needs; the proof of `StaysWatched` has any number, and edits at any time.
* `MCController`: each run names the objects there are and what users do to them
  (`Changes`, as pairs of versions: any number of edits, in any order). `UsersWait`
  bounds when: `"up"` is at any time while the process is ready, `"quiet"` one change at
  a time, when everything before it is handled. Restarts happen at any time in both.
  One rule shows what retries, conflicts, deletions and recreations do; two rules of
  different types share a service in `kinds`. An external service has no port groups
  there (`Ports = {}`): what is declared for a service is `As3Declaration`'s affair. In
  `updates` a service has one pod, a second one that is not ready, both, the second. The
  queue is unbounded; it holds each version once.

No symmetry is used: the values differ in what the instance does with them, and most
runs check temporal or action properties. Deadlock is checked in the runs of `As3Client`
and `TenantConfig`, which can always go on. It is not in the others, where the program
may come to rest: no request, patch, port or edit may be left.

### What the controller's runs leave out

A property of the passing controller runs that does not hold everywhere is checked where
it does, and each of the following breaks one in two or three steps, by the line named:

* a rule's `Spec.Service` is edited: `isUpdate` compares the old one with itself
  (`controller.go:330`), and the address list of the former service stays in use;
* an external service is removed from a rule's list (`controller.go:333`): the request
  only adds what the rule lists now, and its rule list stays (`NothingLeft`);
* the Endpoints or the Namespace of a rule are deleted before the rule: the handler of
  the deletion fails and is retried for ever (`process_serviceegressrule.go:93`,
  `process_namespaceegressrule.go:92`; `NothingLeft`, `Settles`);
* the external services are deleted before the rule: the handler returns before
  `As3Request` (`process_serviceegressrule.go:142`; `NothingLeft`). Whether the service
  goes alone is checked in `kinds`;
* something is deleted while the controller is down (`controller.go:153`), or the watch
  misses a deletion (`process_serviceegressrule.go:29-36`; `NothingLeft`). `rules` has
  missed deletions, for the properties that survive them;
* a call to the API server fails: finding 2 (`ContentsCurrent`, `LabelsMatch`). `rules`
  has such failures too;
* two rules of different types label one external service (`process_extenalservice.go`
  looks for rules of the label's type only; `ContentsCurrent`), and one of them is
  deleted (`process_serviceegressrule.go:124`; `LabelsMatch`);
* a patch of addresses fails: its error is not looked at and nothing tries again
  (`process_endpoint.go:106`; `SourcesCurrent`);
* a service comes to have pods and none that is ready (`Controller_NotReady`; `Settles`,
  and, as nothing is patched, `SourcesCurrent`);
* a Namespace's `cidr` annotation is edited: there is no informer for it.

### Fairness

`As3Client`: a step of a worker inside `As3Request` is weakly fair, because the
`http.Client` ends every call after 60 seconds (`client.go:50-52`); `Acquire` is
strongly fair, because a goroutine waiting for a Go mutex gets it after a
millisecond of starvation. Requests, faults, crashes and patches are not fair.

`SaveConfig`: goroutines run and time passes (weak fairness); `Process` is strongly
fair as a mutex waiter; `StoreDisk` is strongly fair: a save that is tried for ever
succeeds once. Without that assumption nothing could be said about saving.

`TenantConfig`: the goroutines run, fsnotify reports a change, and Kubernetes starts the
pod again (`WF(Step)`). Edits and crashes are not fair; `EventuallyCurrent` assumes that
they stop.

`Controller`: each informer and each worker goroutine runs (`WF` of each; the informers
list and watch, `wait.Until` starts a worker again, `controller.go:212-217`). Users,
crashes and failures are not fair; `Settles` and `Converges` assume that they stop. A
call that fails is part of a worker's step, so that fairness alone never makes it
succeed.

## 4. Proofs

The theorems hold for every value of the constants that the modules' named `ASSUME`s
allow, which the runs evaluate: in particular `RequestsAssumption` (requests are
`WellFormed`: a rule lists an external service once, a namespace has its `cidr`
annotation).

* `TenantStoreProofs!ListsMatch`: `StoreSpec => [](NoOrphanLists /\ RefsResolve)`, and
  `NothingUnused`, its first half. The invariant is `Sound(app)` for each declaration:
  every attribute's name is that of the rule list it belongs to, no orphans, everything
  resolves. `RefsResolve` alone is not inductive: a deletion removes the port lists named
  in its delta, and only because they belong to the rule lists it removes with them does
  no other rule list lose one. The lemmas follow the code: `DeltaSound`,
  `MergedResolves` (the merge may leave orphans but resolves), `ClearUpSound` (the
  clean-up removes orphans and nothing else), `BodySound`.
* `TenantStoreProofs!PoliciesMatch`, `DenyIsLast`, `OrderKept`: what the policies list, on
  any number of requests. `Listing` says of a declaration that the policy of a type lists,
  besides the deny-all, the rule lists of the rules of that type, once each, and where the
  deny-all is. It needs `Sound`, because a deletion takes uses out of a policy by the names
  in its delta. The module's first part has what it takes about sequences: `Without` is a recursive
  function, and each fact about it (it keeps what is not taken out, once if it was there
  once, in the same order) is proved of the least number of elements after which it would
  be false. `DenyToEnd` is an exchange of two elements, after which the deny-all is last
  and the other uses stay as they are.
* `TenantStoreProofs!StoreTyped`: every merge is a declaration again.
* `TenantStoreProofs!RetryQuiet`, `Commute`: about `Body` alone, in every declaration that
  satisfies the invariants. `IsBody` describes a merge field by field; for a retry each
  field of the second merge finds what the first one left (`MergeAgain`, `RulesTwice`),
  except for the order of the port lists. Two requests that found the same in the configuration
  commute because, but for pool, virtual server and log profile, they touch
  attributes with different names: each field is compared name by name, a name belongs to
  one of the two rules or to neither, and the clean-up depends on the rule lists only. The
  log profile is the last request's; for it to be the same one needs that a deletion skips
  the profile if it was in the delta.
* `TenantStoreProofs!OneRule`, `LogKept`: a request or a patch changes what one rule
  declares; a log profile goes only with a request that `LosesProfile`, whatever the
  versions and templates are.
* `As3ClientProofs!TypeCorrect`, `MutexHeld`: for any number of processes and every
  fault. `Mutex` says that whoever is between Lock and Unlock holds the mutex.
* `As3ClientProofs!NothingStale`, `Atomic`, `NoRuleLost`: under `Alone` (one process,
  no patches, no late posts; failures and crashes are allowed) `As3Client` implements
  `TenantStore`. The invariant `AloneInv` adds to `Mutex` that nothing is in flight,
  that what was read is still so, and that Common is undeclared while `InitAs3Tenant`
  is about to declare it. Nothing about the merge is needed: atomicity is due to the
  mutex alone. Each assumption of `Alone` is needed, as `As3Client_TwoClusters` and
  `As3Client_Patch` show.
* `As3ClientProofs!OnlyStalePostsLose`: without any of these assumptions, what is lost is
  lost by a stale or late post (`LostOnlyByStalePost`). It is proved from two lemmas about the
  merge: a post computed from what the BIG-IP has keeps the other rules' lists and
  addresses (`BodyKeepsRules`, `BodyKeepsSources`). `NoRuleLost` follows from it and
  `AloneInv`.
* `As3ClientProofs!BoundWhenSynced`: under `Alone` (hence no POST that is carried out after
  its answer was lost) and `Brought` (no binding or save fails, and no crash) every success
  report means an enforced and saved policy, also that of a request that had nothing to
  post. `BoundInv` says that a tenant that declares a rule list of a type has that type's
  policy saved, or a worker on its way to it: this is what the early return of
  `request.go:35` relies on. Without `Brought` it is false, finding 1.
* `As3ClientProofs!DeclaredWhenSynced`: under `Alone`, a request that was reported as done
  is declared. `DeclaredInv` says that of every request that is past its post, or had nothing
  to post: a declaration that a request was merged into has nothing left to do for it
  (`BodySatisfies`), and with `AloneInv` no other worker posts before it lets the mutex go.
* `As3ClientProofs!WhateverIsLost`: `[]NeverDangles` (`NoOrphanLists`, `RefsResolve`,
  `PolicyListsRules`, `DenyLast`) with any number of processes and every fault. `LossyInv`
  says that what is stored, read or in flight is sound and properly listed: a stale merge is
  still a merge of something sound. Patches of addresses are of services of rules
  (`ClientAssumption`), so they change no name.
* `SaveConfigProofs!TypeCorrect`, `Durable`: `NothingForgotten` for all thresholds, every
  fault and any number of patches.
* `ExternalPortsProofs!TypeCorrect`, `GroupsAreRight`, `RulesAreRight`: for any named ports,
  the rules match what the ports allow, a port without protocol being open (`RulesMatch`).
  `Grouped` is not inductive: that a port finds a group it fits, or none, needs to know
  of every group where its key came from. `KeysInv` says so: a group under a protocol
  has that protocol and no bandwidth, one under a name is that of the port with this
  name, and the group for all ports is alone, after the loop.
* `ControllerProofs!HandlersTyped`: whatever the objects, edits and faults, what a handler
  is about to post is a well-formed request for a rule of its own type. The part that is
  not typing in the narrow sense is that the external services a handler has looked up,
  followed by those it has not, are what is left of a list of the rule (`RuleOK`): lists
  only lose members on the way, so a request never names a service twice.
* `ControllerProofs!TypeCorrect`: `TypeOK`, from the same invariant.
* `ControllerProofs!ImplementsStore`, `SystemListsMatch`, `SystemPoliciesMatch`: hence the
  whole controller implements `TenantStore`, and its declarations keep exactly the
  destination and port lists they use, and policies that list their rules in a stable order
  with the deny-all last, whatever users do and whatever fails.
* `RuleDeliveryProofs!Delivers`, `RulesAreDeclared`, `SuccessIsReal`: under `ExtsStay`
  (nobody touches an external service; rules, namespaces and endpoints are edited, deleted
  and created at any time, with every fault and crashes) the rules are declared in the end,
  and a status "success" is true. `DeliveryInv` says what is still owed at every moment. For
  a rule that the cache has (`Owed`): an entry of it waits in the queue, or its handler is
  about to declare what the cached rule asks for (`OnIt`), or nobody works on it and that is
  declared (`Enforced`). For the copy of the rule that the handler has (`CopyTrue`): while it is
  the current version, the handler is about to declare what the API server has; this is why
  the comparison of resource versions in `UpdateStatus` makes the status true. Besides,
  cached objects that are up to date agree with the API server (`CopiesOK`), which also makes
  an update that `isUpdate` drops harmless: it asks for the same. `ExtsStay` is needed: the
  worker of external services posts requests for rules it read earlier, and a late one takes
  back what a rule's own worker declared (`Controller_LateAction`), and a rule is not told of
  a new external service (`Controller_LateExt`).
* `RuleDeliveryProofs!StatusIsSuccess`: the converse of `SuccessIsReal`: `PhaseSuccess` under
  `ExtsStay`, when no deletion is missed. `PhaseInv` says that a rule that both the cache and
  the API server have, with an external service that exists, has the status "success" unless
  an entry of it waits or its handler runs (`Told`): a handler that ends without putting its
  entry back wrote the status, because what the rule asks for (`OnIt`) leaves it something to
  do. An edit keeps the status, and an object that is created has none; hence the
  second part: an object that the API server does not have is in no up-to-date cache
  (`ListedFirst`, `CopiesOK`), so the informer's next event for it is an Add. With a missed
  deletion `PhaseSuccess` is false: a rule that is deleted and created again with the same
  spec comes as an update that `isUpdate` drops, and its status stays empty.
* `RuleDeliveryProofs!PromiseKept`: `Spec => Promised`, with no restriction on what users do,
  external services included, and with every fault. It is proved step by step: a worker's
  first step is `Take`, because a handler looks the rule up in the cache and trusts the
  queue's object only when the rule is gone (`RuleStartTakes`), and the worker of external
  services takes the cached rule, or the removal of what it saw deleted (`ExtStartTakes`);
  every later step is `Declare`, because a request only loses external services that it has
  still to look up (`WorkShrinks`) and a post changes the rule lists it names and no other
  (`PostTakes`); what users, informers and a crash do is `Change`, `See` and `Forget`. The
  invariants it needs are the types. It says how old a declaration can be, which is the most
  that holds while `ExtsStay` does not.
* `SettledProofs!Settled`, `DeletionsSettle`, `ContentsSettle`, `LabelsSettle`, `RulesSettle`:
  `NothingLeft`, `ContentsCurrent`, `LabelsMatch` and `RulesDeclared` while external services
  are edited, created and deleted as well, for any number of rules and external services,
  with crashes, lost answers and failed posts. They assume `Settling`, each part of which
  stands for one of the disagreements that section 3 lists, and is false there:
  users wait until all is quiet (`UsersWait`; otherwise `Controller_Race`), no deletion is
  missed and no label update fails halfway (`Patient`), an edit takes no external service out
  of a rule (`ListsGrow`), and an external service that users delete is one that is not
  refused at the time and that no second rule ever lists (`DeletedOwn`, `Own`). `ContentsSettle`
  assumes `Own` of all of them (otherwise `Controller_SharedExt`), `LabelsSettle` and
  `RulesSettle` also that none is created (otherwise `Controller_LateExt`). The instances of
  `updates` and `kinds` satisfy what the theorems about their properties assume.
  `SettledInv` has four parts. `SeenOK`: what the informers hold is what there is, but for the
  one object that a user changed while all was quiet (`Disturbed`). `ReqOK`: what a handler
  has in hand is what there is; while it runs nobody changes it, and the watch brings
  nothing but marks. `PairOK` of each rule and external service: if they are declared, they
  live, or their removal is in hand, which for an external service needs a queued version with
  the right label (`HeldOK`); if they live, the label is right or the rule's handler has still
  to look the service up (`LabelledOK`), and the declaration is right or one of two handlers
  brings it (`ContentOK`). `MarkOK`: the label in the cache, which the handlers write before
  the API server has it, is that of the API server, and one that is set belongs to a rule.
  The two parts need each other: the handler of an external service finds the rule by the
  label alone, so that a wrong label is a lost update, and a label goes wrong only where a
  rule's handler has not been yet. That a label is taken away together with the rule, and
  never by an older request, is why `MarkOK` distinguishes what the watch has yet to bring.
* `SettledProofs!SourcesKept`, `SourcesSettle`: `SourcesCurrent` under `Settling` and
  `Sourced`, while pods, rules and external services change. Each part of `Sourced` is
  needed too: a service is of one rule (otherwise `Controller_SharedService`) and keeps
  ready pods (`Controller_ScaleToZero`, `Controller_NotReady`), which the rule goes on
  naming; no external service of the rule is deleted (`MCTenantStore_SrcList`); the route
  domain is 0 (`Controller_RouteDomain`); no patch fails; a service is in the namespace of
  its rule, as the code has it. `SourceInv` adds to `SettledInv` that a request of a service
  rule has the addresses that the informer has (`SrcReqs`); that external services are gone
  only where users deleted them (`GoneOK`); that the service is there, in the API server
  and, once listed, in the cache (`PodsOK`); and that what is declared for a rule names the
  list of its service, which has the cached addresses unless the rule's handler or that of
  the Endpoints has still to bring them (`SourceOK`). Three workers write that list, by
  posts and by patches, and neither knows of the other: the patch of a list that is not
  there is dropped, which does no harm only because the rule's handler, which is then under
  way, has read the same addresses or will.
* `TenantConfigProofs!TypeCorrect`, `NeverUnknown`: for every set of files, however many
  goroutines load, and whenever the file is edited (`EditsWait` is not constrained). The
  first needs that a tenant's entry comes before those of its namespaces in what is still to
  be stored (`TenantFirst`), and that only main loads before the workers start
  (`OnlyMain`). The second needs that the first load has stored, or has still to store, an
  entry for every namespace of the file it read, whichever that was (`Loading`), and that no
  entry goes away afterwards (`Kept`). This is what the workers rely on, as they look
  tenants up while others write.
* `TenantConfigProofs!LoadedIsInForce`: `Reloaded` (the file is in force, or the last one
  that could be parsed), provided that an edit waits until the
  last one is loaded (`EditsWait = "loaded"`); without that it is false (section 3). The
  invariant `LoadInv` looks forward: once the entries that are left are stored, the maps
  will say what the file says (`Will`, `InForce`), which each entry brings nearer
  (`WillStay`). That it is so to begin with is a fact about `Work`: of a concatenation, the
  last part that says something about a key decides (`Appended`, `Flattened`), which for
  `FlattenSeq`, a recursive function, goes by the number of its parts. A file may list a
  namespace in several tenants: the last one has it.

Only model-checked:

* all liveness, which is beyond the prover: `HandlerReturns`, `PatchesSaved`,
  `EventuallyCurrent`, `Settles`, `Converges`. The theorems about `Quiet` say what holds
  whenever nothing is left to do; that it comes to this is `Settles`.

## 5. Abstractions and what is not modelled

* GET of a declaration is taken to show patched source addresses. If AS3 answers
  with the declaration as last posted instead, each POST takes every patch back, and
  `As3Client_Patch` is violated without any race.
* The BIG-IP enforces only a policy it has: binding fails while the tenant is not
  declared. It accepts a declaration as it is; that AS3 may refuse one with a missing
  list is a failed POST. A post is carried out as a whole or not at all, as AS3 does for
  one tenant. A policy's binding is not taken away by anyone else, and the BIG-IP itself
  does not restart.
* Of what the log template declares, the profile is modelled, which the virtual server
  names; the publisher and the pool are not. Nothing but the profile goes wrong with a
  template in the model.
* A rule's tenant does not change, and `RouteDomain` names are part of the tenant. The
  rest of the configuration is a version, and a reading of its log template, that is chosen
  per request and the same in its retries. `TenantConfig` has
  the reload itself; a request that reads settings of two versions is not composed.
* In `Controller`, `As3Request` and a patch are one step, which `Atomic` justifies for
  requests of one process; the race of a patch with a request is in `As3Client`.
* An informer that has fallen behind catches up at once, and a deletion is seen before
  the object's next creation unless it is missed (`DeletionSeen`): everything that writes
  to a deleted object fails anyway. The resync every 30 seconds has no effect, because
  the update handlers drop an update between equal versions first, and is left out.
* A work queue is a set, from which any entry may be taken: a failed entry comes again
  after a delay, and others overtake it. Two pointers to one version are one entry.
* `Spec.Action` stands for `Action` and `Logging` together, which are compared and
  declared side by side. A service's addresses and domains are one `content`.
* There is one watched namespace; rules outside the watch range are in `kinds`.
  Namespace rules read the Namespace from the API server directly and have no copy of it.
* `In10[a]` is the address with `%10`; a declaration leaves the route domain to the tenant.
* A controller that stops, at a signal too, does not wait for its workers: `Crash`.

Not modelled, and why:

* The unused JSON-patch code (`patchResouce`, `policyPatchJson`, `Client.patch`, `PostRaw`,
  `postF5Resouce`): nothing calls it.
* Generated deep copies, fakes, and the operations of the generated clients that the
  controller does not call; registration of the types with the scheme.
* Flags and credentials, event recording, log messages, the texts of attribute names,
  templates and paths.
* Installation scripts and manifests, except what the CRDs require of a port.
