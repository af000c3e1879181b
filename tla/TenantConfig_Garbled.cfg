SPECIFICATION Spec
CONSTANTS
    k8s = k8s
    other = other
    p2 = p2
    n1 = n1
    n2 = n2
    n3 = n3
    r0 = r0
    r2 = r2
    g1 = g1
    g2 = g2
    s0 = s0
    s1 = s1
    s2 = s2
    Garbled = Garbled
    Invalid = Invalid
    Zero <- ZeroFile
    DefaultPartition = Common
    Partitions = {Common, p2}
    Namespaces = {n1, n2, n3}
    Clusters = {k8s, other}
    NoCluster = NoCluster
    Settings = {s0, s1, s2}
    Routes = {r0, r2}
    Route0 = r0
    Pools = {g1, g2}
    Main = main
    Loaders = {main}
    Files <- OneAndGarbled
    EditsWait = "loaded"
INVARIANTS
    FileInForce
