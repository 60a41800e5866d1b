------------------------- MODULE MCTenantAggregate --------------------------
(***************************************************************************)
(* Blueprints after the default one: a namespace, a hosted zone, a         *)
(* certificate that needs the id of the live zone, and a page under the    *)
(* zone's name.  They are reordered and changed, name a zone twice, have   *)
(* no groups, and fail in part or altogether.                              *)
(***************************************************************************)
EXTENDS TenantAggregate

Param(name, required) == [name |-> name, default |-> "", required |-> required]
Doc(kind, text) ==
    [kind |-> kind, namespace |-> "default", name |-> "injected", text |-> text]
Template(params, docs, name, namespace) ==
    [parameters |-> params, raw |-> << >>, resources |-> docs,
     rules |-> [name |-> name, namespace |-> namespace]]

MCTemplates ==
    [ namespace |-> Template(<<[Param("Quota", TRUE) EXCEPT !.default = "1"]>>,
          <<Doc("Namespace", [quota |-> "Quota"])>>, "tenant", "tenant"),
      zone |-> Template(<<Param("Parent", TRUE)>>,
          <<Doc("HostedZone", [name |-> "Parent"])>>, "tenant", "operator"),
      certificate |-> Template(<<Param("Domain", TRUE), Param("Zone", TRUE)>>,
          <<Doc("Certificate", [domain |-> "Domain", zone |-> "Zone"])>>,
          "tenant", "operator"),
      page |-> Template(<<Param("Host", TRUE), Param("Title", FALSE)>>,
          <<Doc("Ingress", [host |-> "Host", title |-> "Title"])>>, "keep", "keep"),
      empty |-> Template(<< >>, << >>, "keep", "keep") ]

Literal(name, v) == [name |-> name, value |-> v, valueFrom |-> << >>]
FromZone(name, group) ==
    [name |-> name, value |-> "",
     valueFrom |-> <<[blueprint |-> <<[group |-> group, index |-> 1, path |-> "name"]>>,
                      resource |-> << >>]>>]
ZoneId ==
    [name |-> "Zone", value |-> "",
     valueFrom |-> <<[blueprint |-> << >>,
                      resource |-> <<[kind |-> "HostedZone", name |-> "$TENANT_NAME",
                                      namespace |-> "$OPERATOR_NAMESPACE",
                                      path |-> "status.id"]>>]>>]
Of(name, template, params) == [name |-> name, template |-> template, parameters |-> params]

Space == Of("namespace", "namespace", << >>)
Zone(name, parent) == Of(name, "zone", <<Literal("Parent", parent)>>)
Cert(zone) == Of("certificate", "certificate", <<FromZone("Domain", zone), ZoneId>>)
Page(zone) == Of("page", "page", <<FromZone("Host", zone)>>)

Full      == <<Space, Zone("zone", "a.se"), Cert("zone"), Page("zone")>>
Reordered == <<Zone("zone", "b.se"), Page("zone"), Space>>
Single    == <<Space>>
Twice     == <<Zone("zone", "a.se"), Zone("other", "b.se"), Page("other")>>
Barren    == <<Of("empty", "empty", << >>), Page("zone")>>
Hopeless  == <<Of("missing", "missing", << >>), Zone("zone", "")>>

MCBlueprints ==
    {[groups |-> g] : g \in {Full, Reordered, Single, Twice, << >>, Barren, Hopeless}}

\* The zone of either name is live, and has got its id or not.
MCClusters ==
    {[id \in {<<"HostedZone", OperatorNamespace, l>> : l \in Labels} |->
        [p \in paths |-> "z1"]] : paths \in SUBSET {"status.id"}}

MCReferences ==
    {[kind |-> "Ingress", field |-> "host", of |-> "HostedZone", path |-> "name"],
     [kind |-> "Certificate", field |-> "domain", of |-> "HostedZone", path |-> "name"]}
=============================================================================
