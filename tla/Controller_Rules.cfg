SPECIFICATION Spec
CONSTANTS
    rg = rg
    rn = rn
    rs = rs
    ru = ru
    e1 = e1
    e2 = e2
    svc = svc
    ns = ns
    a1 = a1
    a2 = a2
    a10 = a10
    n2 = n2
    x1 = x1
    x2 = x2
    allow = allow
    deny = deny
    c1 = c1
    common = common
    part = part
    Rules = {rs}
    RuleType <- MCRuleType
    Tenants = {common}
    Common = common
    TenantOf <- MCTenantOf
    Exts = {e1}
    Ports = {}
    Contents = {x1}
    Services = {svc}
    Addrs = {a1}
    NotReady = {}
    Actions = {allow, deny}
    Versions = {c1}
    Confs = {c1}
    Version <- MCVersion
    Profile = {}
    KeptProfile = {}
    Logging <- MCLogging
    NoConf = NoConf
    Deny = Deny
    Requests <- MCRequests
    Namespace = ns
    Lists <- OneList
    ExtSpecs <- OldOnly
    Watched <- MCWatched
    Initial <- AllLive
    Gone = Gone
    Changes <- RuleChanges
    Faults = {"api", "answer", "as3", "bind", "missed", "crash"}
    Refused = {}
    Routed = {}
    In10 <- MCIn10
    UsersWait = "up"
INVARIANTS
    TypeOK
    RulesDeclared
PROPERTIES
    SuccessIsTrue
    Promised
CHECK_DEADLOCK FALSE
