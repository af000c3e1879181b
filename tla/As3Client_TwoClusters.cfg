SPECIFICATION Spec
CONSTANTS
    rn = rn
    rs = rs
    e = e
    x1 = x1
    x2 = x2
    svc = svc
    a1 = a1
    a2 = a2
    allow = allow
    common = common
    part = part
    conf = conf
    w1 = w1
    w2 = w2
    w3 = w3
    k1 = k1
    k2 = k2
    TwoClusters = TRUE
    InCommon = FALSE
    Patching = FALSE
    Rules <- MCRules
    RuleType <- MCRuleType
    Tenants = {common, part}
    Common = common
    TenantOf <- MCTenantOf
    Exts = {e}
    Ports = {}
    Contents = {x1, x2}
    Services = {svc}
    Addrs = {a1, a2}
    Actions = {allow}
    Versions = {conf}
    Confs = {conf}
    Version <- MCVersion
    Profile = {conf}
    KeptProfile = {conf}
    Logging <- MCLogging
    NoConf = NoConf
    Deny = Deny
    Requests <- MCRequests
    Clusters <- MCClusters
    Master = k1
    Workers <- MCWorkers
    ClusterOf <- MCClusterOf
    RequestsOf <- MCRequestsOf
    Patches <- MCPatches
    Faults = {}
    MaxLate = 0
    Free = Free
PROPERTIES
    OnlyDeletesRemove
