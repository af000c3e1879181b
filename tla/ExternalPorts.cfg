SPECIFICATION Spec
CONSTANTS
    n1 = n1
    n2 = n2
    n3 = n3
    x = x
    y = y
    MaxPorts = 3
    Names = {n1, n2, n3}
    Protocols = {tcp, udp, NoProtocol}
    Bandwidths = {NoBandwidth, fast}
    Numbers = {x, y}
    NoBandwidth = NoBandwidth
    NoProtocol = NoProtocol
    AnyKey = any
    Specs <- MCSpecs
INVARIANTS
    Grouped
    RulesMatch
CHECK_DEADLOCK FALSE
