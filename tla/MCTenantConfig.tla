--------------------------- MODULE MCTenantConfig ---------------------------
(***************************************************************************)
(* TenantConfig with a few files: one tenant gets another namespace, route   *)
(* domain and pool; route domains are switched off; Common is missing; the   *)
(* file cannot be parsed, or not be unmarshalled.                            *)
(***************************************************************************)
EXTENDS TenantConfig

CONSTANTS k8s, other, p2, n1, n2, n3, r0, r2, g1, g2, s0, s1, s2

Conf(rd, set, tenants) ==
    [cluster |-> k8s, master |-> NoCluster, rd |-> rd, other |-> set, tenants |-> tenants]
Tenant(name, ns, route, pool) ==
    [name |-> name, namespaces |-> ns, route |-> route, pool |-> pool]

CommonTenant(route) == Tenant(DefaultPartition, <<n1>>, route, g1)
File1 == Conf(TRUE, s1, <<CommonTenant(r0), Tenant(p2, <<n2>>, r2, g2)>>)
File2 == Conf(TRUE, s2, <<CommonTenant(r2), Tenant(p2, <<n2, n3>>, r2, g1)>>)
File3 == Conf(FALSE, s1, <<CommonTenant(r0), Tenant(p2, <<n2, n1>>, r0, g2)>>)
NoCommonFile == [Conf(TRUE, s1, <<Tenant(p2, <<n1, n2>>, r2, g2)>>) EXCEPT !.master = other]

ZeroFile == [Conf(FALSE, s0, <<>>) EXCEPT !.cluster = NoCluster]

AllFiles == {File1, File2, File3, NoCommonFile, Garbled, Invalid}
OneAndGarbled == {File1, Garbled}
TwoFiles == {File1, File2}
=============================================================================
