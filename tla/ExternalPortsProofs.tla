------------------------- MODULE ExternalPortsProofs -------------------------
(***************************************************************************)
(* Proofs about dealExsvc for external services with any ports: the groups   *)
(* allow exactly what the ports do, and so do the rules declared for them.   *)
(***************************************************************************)
EXTENDS ExternalPorts, TLAPS

LEMMA RangeConcat ==
    ASSUME NEW S, NEW s \in Seq(S), NEW t \in Seq(S)
    PROVE  Range(s \o t) = Range(s) \cup Range(t)
<1>1. ASSUME NEW i \in DOMAIN (s \o t) PROVE (s \o t)[i] \in Range(s) \cup Range(t)
  BY <1>1 DEF Range
<1>2. ASSUME NEW i \in DOMAIN s PROVE s[i] \in Range(s \o t)
  <2>1. i \in DOMAIN (s \o t) /\ (s \o t)[i] = s[i]
    BY <1>2
  <2> QED
    BY <2>1 DEF Range
<1>3. ASSUME NEW i \in DOMAIN t PROVE t[i] \in Range(s \o t)
  <2>1. Len(s) + i \in DOMAIN (s \o t) /\ (s \o t)[Len(s) + i] = t[i]
    BY <1>3
  <2> QED
    BY <2>1 DEF Range
<1> QED
  BY <1>1, <1>2, <1>3 DEF Range

-----------------------------------------------------------------------------
(* Types. *)

LEMMA SpecsArePorts ==
    ASSUME NEW s \in Specs PROVE s \in Seq(Port) /\ \A i \in DOMAIN s : s[i] \in Port
BY PortsAssumption

LEMMA TypeStep ==
    ASSUME PortsTypeOK, [Next]_vars PROVE PortsTypeOK'
<1> USE DEF PortsTypeOK
<1>1. CASE Skip
  BY <1>1, SpecsArePorts DEF Skip
<1>2. CASE Add
  <2> DEFINE pt == spec[done + 1]
             k == KeyOf(pt)
             g == [protocol |-> pt.protocol, irule |-> pt.bandwidth, ports |-> PortsIn(k) \o pt.port]
  <2>1. pt \in Port /\ done + 1 \in 0..Len(spec)
    BY <1>2, SpecsArePorts DEF Add
  <2>2. k \in Keys
    BY <2>1 DEF KeyOf, Keys, Port
  <2>3. PortsIn(k) \in Seq(Numbers)
    BY DEF PortsIn, Has, Group
  <2>4. g \in Group
    BY <2>1, <2>3 DEF Group, Port
  <2>5. ptlMap' = [j \in DOMAIN ptlMap \cup {k} |-> IF j = k THEN g ELSE ptlMap[j]]
    BY <1>2 DEF Add, Put
  <2> QED
    BY <1>2, <2>1, <2>2, <2>4, <2>5 DEF Add
<1>3. CASE AddAny
  BY <1>3, PortsAssumption DEF AddAny, Put, Keys, Group
<1>4. CASE UNCHANGED vars
  BY <1>4 DEF vars
<1> QED
  BY <1>1, <1>2, <1>3, <1>4 DEF Next

\* dealExsvc goes over the ports once, and the map has groups under names, protocols
\* and the key of the group for all ports.
THEOREM TypeCorrect == Spec => []PortsTypeOK
<1>1. Init => PortsTypeOK
  BY SpecsArePorts DEF Init, PortsTypeOK
<1> QED
  BY <1>1, TypeStep, PTL DEF Spec

-----------------------------------------------------------------------------
(* The groups.  The strengthening: a group is under the protocol of a port that   *)
(* is done and has no bandwidth, or under the name of one, and the group for all  *)
(* ports is alone, after the loop.                                                *)

Owned(k) ==
    \E i \in 1..done :
        /\ spec[i].port # <<>> /\ Fits(i, k)
        /\ \/ k = spec[i].name
           \/ k = spec[i].protocol /\ spec[i].bandwidth = NoBandwidth
ForAll(k) == /\ k = AnyKey /\ done = Len(spec) /\ ptlMap[k].ports = <<>>
             /\ DOMAIN ptlMap = {AnyKey} /\ ptlMap[k].protocol = NoProtocol
             /\ \A i \in 1..done : spec[i].port = <<>>

KeysInv == \A k \in DOMAIN ptlMap : Owned(k) \/ ForAll(k)

PortsInv == WellNamed => KeysInv /\ EveryPort /\ NothingElse

\* The group that the next port is put into is new, or one that it fits.
LEMMA KeyFits ==
    ASSUME PortsTypeOK, WellNamed, KeysInv, Add
    PROVE  LET pt == spec[done + 1]
               k  == KeyOf(pt)
           IN  /\ \A j \in DOMAIN ptlMap : Owned(j)
               /\ k \in DOMAIN ptlMap => Fits(done + 1, k)
               /\ \/ k = pt.protocol /\ pt.bandwidth = NoBandwidth
                  \/ k = pt.name
<1> DEFINE pt == spec[done + 1]
           k == KeyOf(pt)
<1>1. pt \in Port /\ done + 1 \in DOMAIN spec /\ done \in Nat
  BY SpecsArePorts DEF Add, PortsTypeOK
<1>2. pt.name \notin Protocols /\ pt.protocol \in Protocols
  BY <1>1 DEF WellNamed, Port
<1>3. \A i \in 1..done : /\ i \in DOMAIN spec /\ spec[i].name # pt.name
                          /\ spec[i].name \notin Protocols /\ spec[i].protocol \in Protocols
  BY <1>1, SpecsArePorts DEF WellNamed, PortsTypeOK, Port
<1>4. \A j \in DOMAIN ptlMap : Owned(j)
  BY <1>1 DEF KeysInv, ForAll, Add, PortsTypeOK
<1>5. pt.name \notin DOMAIN ptlMap
  BY <1>2, <1>3, <1>4 DEF Owned
<1>6. pt.protocol \in DOMAIN ptlMap =>
        /\ ptlMap[pt.protocol].protocol = pt.protocol
        /\ ptlMap[pt.protocol].irule = NoBandwidth
  BY <1>2, <1>3, <1>4 DEF Owned, Fits
<1> QED
  BY <1>4, <1>5, <1>6 DEF KeyOf, Has, Fits

LEMMA AddStep ==
    ASSUME PortsTypeOK, WellNamed, KeysInv, EveryPort, NothingElse, Add
    PROVE  (KeysInv /\ EveryPort /\ NothingElse)'
\* the port, its number, the key and the value of its group
<1> PICK d : d = done + 1
  OBVIOUS
<1> PICK pt : pt = spec[d]
  OBVIOUS
<1> PICK k : k = KeyOf(pt)
  OBVIOUS
<1> PICK g : g = [protocol |-> pt.protocol, irule |-> pt.bandwidth, ports |-> PortsIn(k) \o pt.port]
  OBVIOUS
<1>1. /\ pt \in Port /\ d \in DOMAIN spec /\ done \in Nat
      /\ spec' = spec /\ done' = d /\ spec \in Seq(Port)
      /\ ptlMap' = [j \in DOMAIN ptlMap \cup {k} |-> IF j = k THEN g ELSE ptlMap[j]]
  BY SpecsArePorts DEF Add, PortsTypeOK, Put
<1>2. /\ ptlMap'[k] = g /\ k \in DOMAIN ptlMap'
      /\ \A j \in DOMAIN ptlMap : j # k => j \in DOMAIN ptlMap' /\ ptlMap'[j] = ptlMap[j]
      /\ \A j \in DOMAIN ptlMap' : j = k \/ j \in DOMAIN ptlMap
  BY <1>1
<1>3. /\ \A j \in DOMAIN ptlMap : Owned(j)
      /\ k \in DOMAIN ptlMap => Fits(d, k)
      /\ \/ k = pt.protocol /\ pt.bandwidth = NoBandwidth
         \/ k = pt.name
  BY KeyFits
<1>4. /\ PortsIn(k) \in Seq(Numbers) /\ pt.port \in Seq(Numbers)
      /\ Range(g.ports) = Range(PortsIn(k)) \cup Range(pt.port)
  <2>1. PortsIn(k) \in Seq(Numbers) /\ pt.port \in Seq(Numbers)
    BY <1>1 DEF PortsIn, Has, Group, PortsTypeOK, Port
  <2> QED
    BY <2>1, RangeConcat
<1>5. Fits(d, k)' /\ d \in 1..done'
  BY <1>1, <1>2 DEF Fits
<1>6. \A i \in 1..done' : i \in 1..done \/ i = d
  BY <1>1
<1>7. KeysInv'
  <2> SUFFICES ASSUME NEW j \in DOMAIN ptlMap' PROVE Owned(j)'
    BY DEF KeysInv
  <2>1. CASE j # k
    <3>1. PICK i \in 1..done :
              /\ spec[i].port # <<>> /\ Fits(i, j)
              /\ \/ j = spec[i].name
                 \/ j = spec[i].protocol /\ spec[i].bandwidth = NoBandwidth
      BY <1>2, <1>3, <2>1 DEF Owned
    <3>2. i \in 1..done' /\ Fits(i, j)'
      BY <1>1, <1>2, <2>1, <3>1 DEF Fits
    <3> QED
      BY <1>1, <3>1, <3>2 DEF Owned
  <2>2. CASE j = k
    <3>1. pt.port # <<>>
      BY DEF Add
    <3> QED
      BY <1>1, <1>3, <1>5, <2>2, <3>1 DEF Owned
  <2> QED
    BY <2>1, <2>2
\* a group that was there keeps its protocol, its bandwidth and its numbers
<1>8. ASSUME NEW i \in 1..done, NEW j \in DOMAIN ptlMap, Fits(i, j)
      PROVE  /\ j \in DOMAIN ptlMap' /\ Fits(i, j)'
             /\ Range(ptlMap[j].ports) \subseteq Range(ptlMap'[j].ports)
  <2>1. CASE j # k
    BY <1>1, <1>2, <1>8, <2>1 DEF Fits
  <2>2. CASE j = k
    <3>1. PortsIn(k) = ptlMap[k].ports
      BY <2>2 DEF PortsIn, Has
    <3>2. spec[i].protocol = pt.protocol /\ spec[i].bandwidth = pt.bandwidth
      BY <1>3, <1>8, <2>2 DEF Fits
    <3>3. Fits(i, k)'
      BY <1>1, <1>2, <3>2 DEF Fits
    <3>4. Range(ptlMap[k].ports) \subseteq Range(ptlMap'[k].ports)
      BY <1>2, <1>4, <3>1
    <3> QED
      BY <1>2, <2>2, <3>3, <3>4
  <2> QED
    BY <2>1, <2>2
<1>9. EveryPort'
  <2> SUFFICES ASSUME NEW i \in 1..done', spec'[i].port # <<>>
               PROVE  (\E j \in DOMAIN ptlMap :
                         Fits(i, j) /\ Range(spec[i].port) \subseteq Range(ptlMap[j].ports))'
    BY DEF EveryPort
  <2>1. CASE i \in 1..done
    <3>1. PICK j \in DOMAIN ptlMap :
            Fits(i, j) /\ Range(spec[i].port) \subseteq Range(ptlMap[j].ports)
      BY <1>1, <2>1 DEF EveryPort
    <3> QED
      BY <1>1, <1>8, <2>1, <3>1
  <2>2. CASE i = d
    <3>1. Fits(i, k)' /\ Range(spec[i].port) \subseteq Range(ptlMap'[k].ports)
      BY <1>1, <1>2, <1>4, <1>5, <2>2
    <3> QED
      BY <1>1, <1>2, <3>1
  <2> QED
    BY <1>6, <2>1, <2>2
<1>10. NothingElse'
  <2> SUFFICES ASSUME NEW j \in DOMAIN ptlMap', NEW n \in Range(ptlMap'[j].ports)
               PROVE  (\E i \in 1..done : Fits(i, j) /\ n \in Range(spec[i].port))'
    BY DEF NothingElse
  <2>1. CASE j \in DOMAIN ptlMap /\ n \in Range(ptlMap[j].ports)
    <3>1. PICK i \in 1..done : Fits(i, j) /\ n \in Range(spec[i].port)
      BY <2>1 DEF NothingElse
    <3>2. i \in 1..done' /\ Fits(i, j)'
      BY <1>1, <1>8, <2>1, <3>1
    <3> QED
      BY <1>1, <3>1, <3>2
  <2>2. CASE ~(j \in DOMAIN ptlMap /\ n \in Range(ptlMap[j].ports))
    <3>1. j = k /\ n \in Range(g.ports)
      BY <1>2, <2>2
    <3>2. n \in Range(pt.port)
      <4>1. n \notin Range(PortsIn(k))
        <5>1. CASE k \in DOMAIN ptlMap
          BY <2>2, <3>1, <5>1 DEF PortsIn, Has
        <5>2. CASE k \notin DOMAIN ptlMap
          <6>1. PortsIn(k) = <<>>
            BY <5>2 DEF PortsIn, Has
          <6> QED
            BY <6>1 DEF Range
        <5> QED
          BY <5>1, <5>2
      <4> QED
        BY <1>4, <3>1, <4>1
    <3> QED
      BY <1>1, <1>5, <3>1, <3>2
  <2> QED
    BY <2>1, <2>2
<1> QED
  BY <1>7, <1>9, <1>10

LEMMA PortsInvStep ==
    ASSUME PortsTypeOK, PortsInv, [Next]_vars PROVE PortsInv'
<1> USE DEF PortsInv
<1>1. WellNamed' <=> WellNamed
  BY DEF Next, Skip, Add, AddAny, vars, WellNamed
<1>2. CASE Skip
  <2>1. done \in Nat /\ done' = done + 1 /\ spec' = spec /\ ptlMap' = ptlMap /\ spec[done + 1].port = <<>>
        /\ done < Len(spec) /\ Len(spec) \in Nat
    BY <1>2, SpecsArePorts DEF Skip, PortsTypeOK
  <2>2. \A i \in 1..done : i \in 1..done'
    BY <2>1
  <2>3. \A i \in 1..done' : i \in 1..done \/ spec[i].port = <<>>
    BY <2>1
  <2>4. \A i, k : Fits(i, k)' <=> Fits(i, k)
    BY <2>1 DEF Fits
  <2>5. KeysInv => KeysInv'
    BY <2>1, <2>2, <2>4 DEF KeysInv, Owned, ForAll
  <2>6. EveryPort => EveryPort'
    BY <2>1, <2>3, <2>4 DEF EveryPort
  <2>7. NothingElse => NothingElse'
    BY <2>1, <2>2, <2>4 DEF NothingElse
  <2> QED
    BY <1>1, <2>5, <2>6, <2>7
<1>3. CASE Add
  BY <1>1, <1>3, AddStep
<1>4. CASE AddAny
  <2>1. /\ spec' = spec /\ done' = done /\ done = Len(spec) /\ ptlMap = <<>>
        /\ DOMAIN ptlMap' = {AnyKey} /\ ptlMap'[AnyKey].ports = <<>>
        /\ ptlMap'[AnyKey].protocol = NoProtocol
    BY <1>4 DEF AddAny, Put
  <2>2. EveryPort => \A i \in 1..done : spec[i].port = <<>>
    BY <2>1 DEF EveryPort
  <2>3. EveryPort => KeysInv' /\ EveryPort'
    BY <2>1, <2>2 DEF KeysInv, ForAll, EveryPort
  <2>4. NothingElse'
    BY <2>1 DEF NothingElse, Range
  <2> QED
    BY <1>1, <2>3, <2>4
<1>5. CASE UNCHANGED vars
  <2>1. spec' = spec /\ done' = done /\ ptlMap' = ptlMap
    BY <1>5 DEF vars
  <2>2. \A i, k : Fits(i, k)' <=> Fits(i, k)
    BY <2>1 DEF Fits
  <2>3. KeysInv => KeysInv'
    BY <2>1, <2>2 DEF KeysInv, Owned, ForAll
  <2>4. EveryPort => EveryPort'
    BY <2>1, <2>2 DEF EveryPort
  <2>5. NothingElse => NothingElse'
    BY <2>1, <2>2 DEF NothingElse
  <2> QED
    BY <1>1, <2>3, <2>4, <2>5
<1> QED
  BY <1>2, <1>3, <1>4, <1>5 DEF Next

LEMMA PortsInvInit == Init => PortsInv
BY DEF Init, PortsInv, KeysInv, EveryPort, NothingElse

\* Whatever ports a service has, in whatever order: each is allowed with its own
\* protocol and bandwidth, and nothing else is (dealExsvc).
THEOREM GroupsAreRight == Spec => []Grouped
<1>1. PortsInv => Grouped
  BY DEF PortsInv, Grouped
<1> QED
  BY <1>1, PortsInvInit, PortsInvStep, TypeCorrect, PTL DEF Spec

\* The firewall rules of a service match the numbers of its ports, by their protocols, and
\* no others; they match everything if it has none, or one without a protocol (dealExsvc,
\* newFirewallRule).
THEOREM RulesAreRight == Spec => []RulesMatch
<1>1. PortsTypeOK /\ PortsInv => RulesMatch
  <2> SUFFICES ASSUME PortsTypeOK, KeysInv, EveryPort, NothingElse, WellNamed,
                      done = Len(spec), DOMAIN ptlMap # {},
                      NEW protocol \in Protocols \ {NoProtocol}, NEW n \in Numbers
               PROVE  (\E k \in DOMAIN ptlMap : Matches(k, protocol, n)) <=> Allowed(protocol, n)
    BY DEF RulesMatch, PortsInv
  <2>1. /\ spec \in Seq(Port) /\ DOMAIN spec = 1..done
        /\ \A i \in DOMAIN spec : spec[i].port \in Seq(Numbers)
    <3>1. spec \in Seq(Port) /\ \A i \in DOMAIN spec : spec[i] \in Port
      BY SpecsArePorts DEF PortsTypeOK
    <3>2. DOMAIN spec = 1..done
      BY <3>1
    <3>3. \A i \in DOMAIN spec : spec[i].port \in Seq(Numbers)
      BY <3>1 DEF Port
    <3> QED
      BY <3>1, <3>2, <3>3
  <2>2. ASSUME NEW k \in DOMAIN ptlMap, Matches(k, protocol, n)
        PROVE  Allowed(protocol, n)
    <3>1. CASE ptlMap[k].protocol = NoProtocol
      <4>1. CASE ForAll(k)
        BY <2>1, <4>1 DEF ForAll, Allowed
      <4>2. CASE Owned(k)
        BY <2>1, <3>1, <4>2 DEF Owned, Fits, Allowed
      <4> QED
        BY <4>1, <4>2 DEF KeysInv
    <3>2. CASE ptlMap[k].protocol = protocol /\ n \in Range(ptlMap[k].ports)
      <4>1. PICK i \in 1..done : Fits(i, k) /\ n \in Range(spec[i].port)
        BY <3>2 DEF NothingElse
      <4>2. spec[i].port # <<>>
        BY <4>1 DEF Range
      <4> QED
        BY <2>1, <3>2, <4>1, <4>2 DEF Fits, Allowed
    <3> QED
      BY <2>2, <3>1, <3>2 DEF Matches
  <2>3. ASSUME Allowed(protocol, n)
        PROVE  \E k \in DOMAIN ptlMap : Matches(k, protocol, n)
    <3>1. CASE \A i \in DOMAIN spec : spec[i].port = <<>>
      <4>1. PICK k \in DOMAIN ptlMap : TRUE
        OBVIOUS
      <4>2. ~Owned(k)
        BY <2>1, <3>1 DEF Owned
      <4> QED
        BY <4>2 DEF KeysInv, ForAll, Matches
    <3>2. ASSUME NEW i \in DOMAIN spec, spec[i].port # <<>>,
                 \/ spec[i].protocol = NoProtocol
                 \/ spec[i].protocol = protocol /\ n \in Range(spec[i].port)
          PROVE  \E k \in DOMAIN ptlMap : Matches(k, protocol, n)
      <4>1. PICK k \in DOMAIN ptlMap :
              Fits(i, k) /\ Range(spec[i].port) \subseteq Range(ptlMap[k].ports)
        BY <2>1, <3>2 DEF EveryPort
      <4> QED
        BY <3>2, <4>1 DEF Fits, Matches
    <3> QED
      BY <2>3, <3>1, <3>2 DEF Allowed
  <2> QED
    BY <2>2, <2>3
<1> QED
  BY <1>1, PortsInvInit, PortsInvStep, TypeCorrect, PTL DEF Spec
=============================================================================
