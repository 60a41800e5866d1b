-------------------------- MODULE MCTenantOperator --------------------------
(***************************************************************************)
(* The hosted zone and the certificate of the default blueprint: the       *)
(* certificate takes the id of the zone from the status of the live        *)
(* HostedZone, and the page behind it takes the name of the zone from the  *)
(* group.  A second blueprint has the zone only, under another name, and a *)
(* third names a template that is not there.                               *)
(***************************************************************************)
EXTENDS TenantOperator

Param(name) == [name |-> name, default |-> "", required |-> TRUE]
Doc(kind, text) == [kind |-> kind, namespace |-> "", name |-> "injected", text |-> text]
Template(params, docs) ==
    [parameters |-> params, raw |-> << >>, resources |-> docs,
     rules |-> [name |-> "tenant", namespace |-> "operator"]]
MCTemplates ==
    [ zone |-> Template(<<Param("Parent")>>, <<Doc("HostedZone", [name |-> "Parent"])>>),
      cert |-> Template(<<Param("Domain"), Param("Zone")>>,
                        <<Doc("Certificate", [domain |-> "Domain", zone |-> "Zone"])>>),
      page |-> Template(<<Param("Host")>>, <<Doc("Ingress", [host |-> "Host"])>>) ]

Literal(name, v) == [name |-> name, value |-> v, valueFrom |-> << >>]
From(name, fromGroup, fromCluster) ==
    [name |-> name, value |-> "",
     valueFrom |-> <<[blueprint |-> fromGroup, resource |-> fromCluster]>>]
Zone(parent) ==
    [name |-> "hosted_zone", template |-> "zone", parameters |-> <<Literal("Parent", parent)>>]
ZoneName == [group |-> "hosted_zone", index |-> 1, path |-> "name"]
ZoneId == [kind |-> "HostedZone", namespace |-> "$OPERATOR_NAMESPACE",
           name |-> "$TENANT_NAME", path |-> "status.id"]
Certificate ==
    [name |-> "certificate", template |-> "cert",
     parameters |-> <<From("Domain", <<ZoneName>>, << >>), From("Zone", << >>, <<ZoneId>>)>>]
Page ==
    [name |-> "page", template |-> "page",
     parameters |-> <<From("Host", <<ZoneName>>, << >>)>>]
Missing == [name |-> "missing", template |-> "missing", parameters |-> << >>]

MCBlueprints ==
    { [prefix |-> "t", groups |-> <<Zone("a.se"), Certificate, Page>>],
      [prefix |-> "t", groups |-> <<Zone("b.se")>>],
      [prefix |-> "t", groups |-> <<Missing>>] }
=============================================================================
