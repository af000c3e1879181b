--------------------------- MODULE ExternalPorts ---------------------------
(***************************************************************************)
(* dealExsvc (pkg/as3/utils.go): the ports of an external service, one      *)
(* after the other, are put into groups, the ptlMap; newRulesDecl declares a *)
(* port list and a firewall rule for each group.  As3Declaration takes the   *)
(* keys of the groups as the Ports of an external service.                   *)
(***************************************************************************)
EXTENDS Naturals, Sequences, SequencesExt

CONSTANTS
    Names,          \* what a port's Name can be
    Protocols,      \* what its Protocol can be, in lower case
    Bandwidths,     \* what its Bandwidth can be: an irule, or none
    Numbers,        \* port numbers and ranges of them
    NoBandwidth,    \* Bandwidth is ""
    NoProtocol,     \* Protocol is ""
    AnyKey,         \* the key of the group for all ports
    Specs           \* what Spec.Ports can be

\* Port is a list of numbers, separated by commas; it may be empty.
Port == [name : Names, protocol : Protocols, bandwidth : Bandwidths, port : Seq(Numbers)]
Group == [protocol : Protocols, irule : Bandwidths, ports : Seq(Numbers)]

ASSUME PortsAssumption ==
    /\ Specs \subseteq Seq(Port)
    /\ NoBandwidth \in Bandwidths
    /\ NoProtocol \in Protocols

VARIABLES
    spec,           \* Spec.Ports
    done,           \* how many of them are in groups
    ptlMap          \* the groups, by key

vars == <<spec, done, ptlMap>>

Keys == Names \cup Protocols \cup {AnyKey}

PortsTypeOK ==
    /\ spec \in Specs
    /\ done \in 0..Len(spec)
    /\ DOMAIN ptlMap \subseteq Keys
    /\ \A k \in DOMAIN ptlMap : ptlMap[k] \in Group

Init ==
    /\ spec \in Specs
    /\ done = 0
    /\ ptlMap = <<>>

Has(k) == k \in DOMAIN ptlMap

\* Mutant of KeyOf: a bandwidth is set apart only if it is the protocol's first port.
KeyOf_FirstOnly(pt) ==
    IF Has(pt.protocol) THEN pt.protocol
    ELSE IF pt.bandwidth # NoBandwidth THEN pt.name ELSE pt.protocol

\* "to diff bwt is processed separately"
KeyOf(pt) ==
    IF Has(pt.protocol)
    THEN IF ptlMap[pt.protocol].irule # pt.bandwidth THEN pt.name ELSE pt.protocol
    ELSE IF pt.bandwidth # NoBandwidth THEN pt.name ELSE pt.protocol

PortsIn(k) == IF Has(k) THEN ptlMap[k].ports ELSE <<>>

Put(k, group) ==
    ptlMap' = [j \in DOMAIN ptlMap \cup {k} |-> IF j = k THEN group ELSE ptlMap[j]]

\* A port without a number is skipped.
Skip ==
    /\ done < Len(spec) /\ spec[done + 1].port = <<>>
    /\ done' = done + 1
    /\ UNCHANGED <<spec, ptlMap>>

Add ==
    /\ done < Len(spec)
    /\ LET pt == spec[done + 1]
           k  == KeyOf(pt)
       IN  /\ pt.port # <<>>
           /\ Put(k, [protocol |-> pt.protocol, irule |-> pt.bandwidth,
                      ports |-> PortsIn(k) \o pt.port])
    /\ done' = done + 1
    /\ UNCHANGED spec

\* Mutant of AddAny: the group for all ports is declared beside the others.
AddAny_Always ==
    /\ done = Len(spec) /\ ~Has(AnyKey)
    /\ Put(AnyKey, [protocol |-> NoProtocol, irule |-> NoBandwidth, ports |-> <<>>])
    /\ UNCHANGED <<spec, done>>

\* "No port does not need to create a port list"
AddAny ==
    /\ done = Len(spec) /\ ptlMap = <<>>
    /\ Put(AnyKey, [protocol |-> NoProtocol, irule |-> NoBandwidth, ports |-> <<>>])
    /\ UNCHANGED <<spec, done>>

Next == Skip \/ Add \/ AddAny

\* newRulesDecl, newFirewallRule: the rule of a group matches the port list of the group,
\* or everything if the group has no protocol.
Matches(k, protocol, n) ==
    \/ ptlMap[k].protocol = NoProtocol
    \/ ptlMap[k].protocol = protocol /\ n \in Range(ptlMap[k].ports)

Spec == Init /\ [][Next]_vars

-----------------------------------------------------------------------------
\* Each port has a name of its own that is no protocol's.  (It need not have a number,
\* nor a protocol.)
WellNamed ==
    /\ \A i, j \in DOMAIN spec : spec[i].name = spec[j].name => i = j
    /\ \A i \in DOMAIN spec : spec[i].name \notin Protocols

Fits(i, k) == ptlMap[k].protocol = spec[i].protocol /\ ptlMap[k].irule = spec[i].bandwidth

\* Every port is in a group with its own protocol and bandwidth.
EveryPort ==
    \A i \in 1..done : spec[i].port # <<>> =>
        \E k \in DOMAIN ptlMap : Fits(i, k) /\ Range(spec[i].port) \subseteq Range(ptlMap[k].ports)

\* Every number in a group is that of a port with the group's protocol and bandwidth.
NothingElse ==
    \A k \in DOMAIN ptlMap : \A n \in Range(ptlMap[k].ports) :
        \E i \in 1..done : Fits(i, k) /\ n \in Range(spec[i].port)

\* Whatever the order of the ports, each is allowed with its own bandwidth and
\* protocol, and nothing else is.
Grouped == WellNamed => EveryPort /\ NothingElse

\* A service without numbers is open, and so is one that has a number without a
\* protocol, whatever else it has.  Any other allows its numbers, by their protocols.
Allowed(protocol, n) ==
    \/ \A i \in DOMAIN spec : spec[i].port = <<>>
    \/ \E i \in DOMAIN spec : /\ spec[i].port # <<>>
                              /\ \/ spec[i].protocol = NoProtocol
                                 \/ spec[i].protocol = protocol /\ n \in Range(spec[i].port)

\* The rules that are declared in the end match all that, and no more: dealExsvc's groups
\* say the same to newFirewallRule as the ports did.
RulesMatch ==
    WellNamed /\ done = Len(spec) /\ DOMAIN ptlMap # {} =>
        \A protocol \in Protocols \ {NoProtocol}, n \in Numbers :
            (\E k \in DOMAIN ptlMap : Matches(k, protocol, n)) <=> Allowed(protocol, n)

\* "No port does not need to create a port list": a service that has numbers is
\* not open, is it?
OpenOnlyIfNoPorts ==
    WellNamed =>
        \A k \in DOMAIN ptlMap : ptlMap[k].protocol = NoProtocol =>
            \A i \in DOMAIN spec : spec[i].port = <<>>
=============================================================================
