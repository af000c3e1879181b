---------------------------- MODULE TenantConfig ----------------------------
(***************************************************************************)
(* ces-conf.yaml in memory (pkg/as3/init.go, register.go).  InitAs3Tenant   *)
(* reads the file before the workers start; afterwards each change of the   *)
(* file is read again by a goroutine of its own, which stores entry after   *)
(* entry in a sync.Map, and in two maps that it shares, while the workers   *)
(* look tenants up.  Neither the maps nor viper are locked.                  *)
(***************************************************************************)
EXTENDS Naturals, Sequences, FiniteSets, SequencesExt

CONSTANTS
    Files,          \* what the file can say
    Garbled,        \* a file that is no YAML
    Invalid,        \* one that is, but cannot be unmarshalled
    Zero,           \* what viper unmarshals when it has read nothing
    Partitions, DefaultPartition,
    Namespaces,
    Clusters, NoCluster,
    Settings,       \* schemaVersion, logPool and iRule
    Routes, Route0, \* route domains; the one that Common is given
    Pools,          \* the rest of a tenant: gwPool, virtualService
    Loaders, Main,  \* goroutines that can read the configuration at a time (a bound),
                    \* main's among them
    EditsWait       \* what edits of the file wait for (a bound): see Change

TenantRecord == [name : Partitions, namespaces : Seq(Namespaces), route : Routes, pool : Pools]
As3Config == [cluster : Clusters \cup {NoCluster}, master : Clusters \cup {NoCluster}, rd : BOOLEAN,
              other : Settings, tenants : Seq(TenantRecord)]

ASSUME ConfigAssumption ==
    /\ Files \subseteq As3Config \cup {Garbled, Invalid}
    /\ Garbled \notin As3Config /\ Invalid \notin As3Config /\ Garbled # Invalid
    /\ Zero \in As3Config /\ Zero.tenants = <<>>
    /\ DefaultPartition \in Partitions
    /\ Route0 \in Routes
    /\ Main \in Loaders
    /\ EditsWait \in {"loaded", "started", "nothing"}

VARIABLES
    file,           \* ces-conf.yaml
    event,          \* fsnotify has seen it change, and viper has not read it
    viper,          \* what viper read last, of what it could parse
    phase,          \* of the process
    loading,        \* loading[l]: the entries that goroutine l has still to store
    values,         \* the settings in the sync.Map
    partition,      \* the map under partitionCacheKey
    namespace       \* the map under namespaceCacheKey

cached == <<values, partition, namespace>>
vars == <<file, event, viper, phase, loading, cached>>

Phases == {"stopped", "init", "running"}

\* GetTenantConfigForParttition and the others return nil.
Unknown == <<>>

-----------------------------------------------------------------------------
(* initTenantConfig: the entries that a file is stored as, in order. *)

Entry(kind, key, value) == [kind |-> kind, key |-> key, value |-> value]

\* A goroutine that ended, and one that has yet to unmarshal the file.
Idle == <<>>
Spawned == <<Entry("file", "ces-conf", Invalid)>>
Unread(l) == loading[l] # Idle /\ Head(loading[l]).kind = "file"

SettingsOf(f) ==
    << Entry("value", "schema", f.other), Entry("value", "cluster", f.cluster),
       Entry("value", "master", IF f.master = NoCluster THEN f.cluster ELSE f.master),
       Entry("value", "rd", f.rd), Entry("value", "logPool", f.other),
       Entry("value", "iRules", f.other) >>

\* Common has the route domain 0, whatever the file says.
Routed(tenant) ==
    IF tenant.name = DefaultPartition THEN [tenant EXCEPT !.route = Route0] ELSE tenant

\* Mutants of EntriesOf: the namespaces come first; or a tenant's namespaces after the
\* first are not split off.
EntriesOf_NamespacesFirst(tenant) ==
    [i \in DOMAIN tenant.namespaces |-> Entry("namespace", tenant.namespaces[i], tenant)] \o
    <<Entry("partition", tenant.name, tenant)>>
EntriesOf_OneNamespace(tenant) ==
    <<Entry("partition", tenant.name, tenant)>> \o
    (IF tenant.namespaces = <<>> THEN <<>>
     ELSE <<Entry("namespace", Head(tenant.namespaces), tenant)>>)

EntriesOf(tenant) ==
    <<Entry("partition", tenant.name, tenant)>> \o
    [i \in DOMAIN tenant.namespaces |-> Entry("namespace", tenant.namespaces[i], tenant)]

Work(f) ==
    SettingsOf(f) \o FlattenSeq([i \in DOMAIN f.tenants |-> EntriesOf(Routed(f.tenants[i]))])

\* registValue, cacheTenantConfigForParttition, cacheTenantConfigForNamespace.
Put(map, e) == [k \in DOMAIN map \cup {e.key} |-> IF k = e.key THEN e.value ELSE map[k]]

\* Mutant: the maps are made anew with the first setting.
Stored_Anew(e) ==
    /\ values' = IF e.kind = "value" THEN Put(values, e) ELSE values
    /\ partition' = IF e.kind = "partition" THEN Put(partition, e)
                    ELSE IF e.key = "schema" THEN <<>> ELSE partition
    /\ namespace' = IF e.kind = "namespace" THEN Put(namespace, e)
                    ELSE IF e.key = "schema" THEN <<>> ELSE namespace
Stored(e) ==
    /\ values' = IF e.kind = "value" THEN Put(values, e) ELSE values
    /\ partition' = IF e.kind = "partition" THEN Put(partition, e) ELSE partition
    /\ namespace' = IF e.kind = "namespace" THEN Put(namespace, e) ELSE namespace

-----------------------------------------------------------------------------
(* What the workers read. *)

Held(map, k) == IF k \in DOMAIN map THEN map[k] ELSE Unknown
IsSupportRouteDomain == values["rd"]

GetTenantConfigForParttition(p) ==
    Held(partition, IF IsSupportRouteDomain THEN p ELSE DefaultPartition)

GetTenantConfigForNamespace(ns) ==
    IF Held(namespace, ns) = Unknown THEN Unknown
    ELSE IF ~IsSupportRouteDomain THEN GetTenantConfigForParttition(DefaultPartition)
    ELSE namespace[ns]

-----------------------------------------------------------------------------
Stopped ==
    /\ phase' = "stopped"
    /\ event' = FALSE
    /\ viper' = Zero
    /\ loading' = [l \in Loaders |-> Idle]
    /\ values' = <<>> /\ partition' = <<>> /\ namespace' = <<>>

Init ==
    /\ file \in Files
    /\ event = FALSE
    /\ viper = Zero
    /\ phase = "stopped"
    /\ loading = [l \in Loaders |-> Idle]
    /\ values = <<>> /\ partition = <<>> /\ namespace = <<>>

\* ReadInConfig: a file that does not parse leaves viper as it was, with an error
\* that nobody looks at.
ReadInConfig(former) == IF file = Garbled THEN former ELSE file

\* ReadInConfig and WatchConfig, in the beginning of InitAs3Tenant.
Start ==
    /\ phase = "stopped"
    /\ phase' = "init"
    /\ viper' = ReadInConfig(Zero)
    /\ loading' = [loading EXCEPT ![Main] = Spawned]
    /\ UNCHANGED <<file, event, cached>>

\* initConfigFunc unmarshals what viper has by now.
Unmarshal(l) ==
    /\ Unread(l)
    /\ viper # Invalid
    /\ loading' = [loading EXCEPT ![l] = Work(viper)]
    /\ UNCHANGED <<file, event, viper, phase, cached>>

\* "yaml unmarshal err": the panic ends the process.
Panic(l) ==
    /\ Unread(l)
    /\ viper = Invalid
    /\ Stopped
    /\ UNCHANGED file

Store(l) ==
    /\ loading[l] # Idle /\ ~Unread(l)
    /\ Stored(Head(loading[l]))
    /\ loading' = [loading EXCEPT ![l] = Tail(@)]
    /\ UNCHANGED <<file, event, viper, phase>>

\* The first load is done.  OnConfigChange is registered, and the file has Common.
Started ==
    /\ phase = "init" /\ loading[Main] = Idle
    /\ GetTenantConfigForParttition(DefaultPartition) # Unknown
    /\ phase' = "running"
    /\ UNCHANGED <<file, event, viper, loading, cached>>

\* "No configured Common", nor anything else if the file did not parse: main ends, and
\* the pod is started again.
NoCommon ==
    /\ phase = "init" /\ loading[Main] = Idle
    /\ GetTenantConfigForParttition(DefaultPartition) = Unknown
    /\ Stopped
    /\ UNCHANGED file

Loaded == \A l \in Loaders : loading[l] = Idle

\* Someone edits the file.
Change ==
    /\ EditsWait = "loaded" => (phase = "stopped" \/ (phase = "running" /\ Loaded /\ ~event))
    /\ EditsWait = "started" => phase # "init"
    /\ file' \in Files \ {file}
    /\ event' = (phase # "stopped")
    /\ UNCHANGED <<viper, phase, loading, cached>>

\* viper reads the file again and, whether it could or not, calls OnConfigChange's
\* function, once it is registered, which starts a goroutine.
\* Mutant: the goroutine is started before viper reads, and unmarshals at once.
Notify_OldFile ==
    /\ event
    /\ event' = FALSE
    /\ viper' = ReadInConfig(viper)
    /\ IF phase = "running" /\ viper # Invalid
       THEN \E l \in Loaders : /\ loading[l] = Idle
                               /\ loading' = [loading EXCEPT ![l] = Work(viper)]
       ELSE UNCHANGED loading
    /\ UNCHANGED <<file, phase, cached>>

Notify ==
    /\ event
    /\ event' = FALSE
    /\ viper' = ReadInConfig(viper)
    /\ IF phase = "running"
       THEN \E l \in Loaders : loading[l] = Idle /\ loading' = [loading EXCEPT ![l] = Spawned]
       ELSE UNCHANGED loading
    /\ UNCHANGED <<file, phase, cached>>

\* The process ends; among other things when Go finds that a map is written and
\* read or written at the same time ("concurrent map read and map write").
Crash ==
    /\ phase # "stopped"
    /\ Stopped
    /\ UNCHANGED file

Step ==
    \/ Start \/ Started \/ NoCommon
    \/ \E l \in Loaders : Unmarshal(l) \/ Panic(l) \/ Store(l)
    \/ Notify

Next == Step \/ Change \/ Crash

Spec == Init /\ [][Next]_vars

\* The goroutines and the watch run, and the pod is started again.
Fairness == WF_vars(Step)
FairSpec == Spec /\ Fairness

-----------------------------------------------------------------------------
TypeOK ==
    /\ file \in Files
    /\ event \in BOOLEAN
    /\ viper \in (Files \ {Garbled}) \cup {Zero}
    /\ phase \in Phases
    /\ DOMAIN loading = Loaders
    /\ phase = "init" => Cardinality({l \in Loaders : loading[l] # Idle}) <= 1
    /\ DOMAIN partition \subseteq Partitions
    /\ DOMAIN namespace \subseteq Namespaces
    /\ \A ns \in DOMAIN namespace :
        namespace[ns].name \in DOMAIN partition /\ namespace[ns].route \in Routes

\* The tenant that file f gives namespace ns: the last one that lists it, or
\* Common if route domains are not supported.
TenantIn(f, p) ==
    LET named == {i \in DOMAIN f.tenants : f.tenants[i].name = p}
    IN  IF named = {} THEN Unknown
        ELSE Routed(f.tenants[CHOOSE i \in named : \A j \in named : j <= i])

ConfigIn(f, ns) ==
    LET listing == {i \in DOMAIN f.tenants : ns \in Range(f.tenants[i].namespaces)}
    IN  IF listing = {} THEN Unknown
        ELSE IF ~f.rd THEN TenantIn(f, DefaultPartition)
        ELSE Routed(f.tenants[CHOOSE i \in listing : \A j \in listing : j <= i])

Settled == phase = "running" /\ ~event /\ Loaded

\* The lookups say what f says: every namespace that it gives a tenant has that tenant,
\* with its route domain, pool and virtual service.
Says(f) ==
    \A ns \in Namespaces :
        ConfigIn(f, ns) # Unknown => GetTenantConfigForNamespace(ns) = ConfigIn(f, ns)

\* init.go: "file[ces-conf.yaml] has been modified, configuration reinitialization !"
\* Once an edit is read, the file is in force; if it does not parse, the last one that
\* did is, which viper has kept.
Reloaded ==
    Settled => /\ viper \in Files \cap As3Config /\ Says(viper)
               /\ file \in {viper, Garbled}

\* ... or is it the file in any case?
FileInForce == Settled => file \in As3Config /\ Says(file)

\* ... and a namespace that is in no tenant any more is not looked after.
OnlyConfigured ==
    Settled => \A ns \in Namespaces :
        ConfigIn(viper, ns) = Unknown => GetTenantConfigForNamespace(ns) = Unknown

\* A handler that finds no tenant for a namespace drops its event for good.  While the
\* workers run, and however many goroutines read the configuration again, that never
\* happens for a namespace that every file has, nor for Common.
Always == {ns \in Namespaces : \A f \in Files \cap As3Config : ConfigIn(f, ns) # Unknown}

StaysWatched ==
    phase = "running" =>
        /\ GetTenantConfigForParttition(DefaultPartition) # Unknown
        /\ \A ns \in Always : GetTenantConfigForNamespace(ns) # Unknown

\* When the file is left alone, can be read and has Common, and the process stays up, it
\* is in force after a while, and remains so, whatever it was before.
Usable == file \in As3Config /\ TenantIn(file, DefaultPartition) # Unknown

EventuallyCurrent ==
    <>[][~Change /\ ~Crash]_vars => <>[](Usable => Settled /\ Says(file))
=============================================================================
