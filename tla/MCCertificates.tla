--------------------------- MODULE MCCertificates ---------------------------
(***************************************************************************)
(* One certificate and three ingresses, two of which are selected, by one  *)
(* of the two annotations each, and can be handed over one by one.         *)
(***************************************************************************)
EXTENDS Certificates

CONSTANTS c1, i1, i2, i3

MCItem ==
    [x \in {c1, i1, i2, i3} |->
        CASE x = c1 -> [namespace |-> "aeto", labels |-> [dns |-> "public"],
                        annotations |-> [tenant |-> "t"]]
          [] x = i1 -> [namespace |-> "web", labels |-> [dns |-> "public"],
                        annotations |-> [tenant |-> "t", class |-> "internal"]]
          [] x = i2 -> [namespace |-> "shop", labels |-> [dns |-> "public"],
                        annotations |-> [tenant |-> "u", class |-> "alb"]]
          [] x = i3 -> [namespace |-> "web", labels |-> [dns |-> "public"],
                        annotations |-> [tenant |-> "u", class |-> "internal"]]]
MCSelector ==
    [certs |-> [namespaces |-> {"aeto"}, labels |-> [dns |-> "public"],
                annotations |-> [x \in {} |-> ""]],
     ingresses |-> [namespaces |-> {"web", "shop"}, labels |-> [x \in {} |-> ""],
                    annotations |-> [tenant |-> "t", class |-> "alb"]]]
=============================================================================
