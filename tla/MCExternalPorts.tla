-------------------------- MODULE MCExternalPorts --------------------------
(***************************************************************************)
(* ExternalPorts for external services with at most three ports.            *)
(***************************************************************************)
EXTENDS ExternalPorts

CONSTANTS n1, n2, n3, x, y, MaxPorts

\* The ports have names of their own, or share the first one's; a port has a number,
\* two, or none.
NamesOf(i) == {n1} \cup IF i = 1 THEN {} ELSE IF i = 2 THEN {n2} ELSE {n3}

PortsOf(i) == [name : NamesOf(i), protocol : Protocols, bandwidth : Bandwidths,
               port : {<<>>, <<x>>, <<x, y>>}]

MCSpecs ==
    {<<>>} \cup {<<p>> : p \in PortsOf(1)} \cup (PortsOf(1) \X PortsOf(2))
    \cup IF MaxPorts < 3 THEN {} ELSE PortsOf(1) \X PortsOf(2) \X PortsOf(3)
=============================================================================
