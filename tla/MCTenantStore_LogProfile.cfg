SPECIFICATION StoreSpec
CONSTANTS
    rg = rg
    rn = rn
    rs1 = rs1
    rs2 = rs2
    e1 = e1
    e2 = e2
    p1 = p1
    p2 = p2
    x1 = x1
    x2 = x2
    svc = svc
    a1 = a1
    a2 = a2
    allow = allow
    common = common
    part = part
    c1 = c1
    c2 = c2
    c3 = c3
    c4 = c4
    v1 = v1
    v2 = v2
    v3 = v3
    BadTemplates = FALSE
    EsDeletions = TRUE
    Rules <- MCRules
    RuleType <- MCRuleType
    Tenants = {common, part}
    Common = common
    TenantOf <- MCTenantOf
    Exts = {e1, e2}
    Ports = {p1, p2}
    Contents = {x1, x2}
    Services = {svc}
    Addrs = {a1, a2}
    Actions = {allow}
    Versions = {v1, v2, v3}
    Confs <- MCConfs
    Version <- MCVersion
    Profile <- MCProfile
    KeptProfile = {c1}
    Logging <- MCLogging
    NoConf = NoConf
    Deny = Deny
    Requests <- MCRequests
INVARIANTS
    LogProfileThere
CHECK_DEADLOCK FALSE
