---------------------------- MODULE Certificates ----------------------------
(***************************************************************************)
(* The Certificate controller, which keeps a certificate in AWS ACM for    *)
(* every Certificate object, and the CertificateConnector controller,      *)
(* which lists the certificates that are ready in the annotation of        *)
(* ingresses, where the ALB ingress controller finds them.                 *)
(*                                                                         *)
(* A certificate carries the tags of its owner from the request on, which  *)
(* is how the controller finds it; its finalizer goes by the arn in the    *)
(* status.  All are validated by DNS.  There is one connector; the arns    *)
(* that an ingress lists statically are left out.                          *)
(***************************************************************************)
EXTENDS InformerCache, FiniteSets

CONSTANTS
    Certs,       \* the Certificate objects
    Ingresses,   \* the ingresses
    Item,        \* [namespace, labels, annotations] of each of them
    Selector,    \* [namespaces, labels, annotations] of "certs" and "ingresses"
    MaxChanges,  \* bound: certificates deleted, ingresses handed over
    MaxFaults    \* bound: failed calls, of AWS or the API server, restarts

ASSUME BoundsAssumption == MaxChanges \in Nat /\ MaxFaults \in Nat

VARIABLES
    certs,      \* feed of the Certificate objects
    ingresses,  \* feed of the ingresses: [controlled, lists]
    acm,        \* what ACM has for each: "none", "new", "pending", "issued"
    records,    \* the certificates whose validation record is in Route53
    served,     \* the certificates each ingress' load balancer serves
    pass,       \* the pass of the Certificate controller
    connector,  \* the pass of the CertificateConnector controller
    tidy,       \* history: the certificates that were at rest when deleted
    missed,     \* history: the certificates that a pass failed to look up
    changes,    \* how often something was changed from outside
    faults      \* how many faults there were

aws == <<acm, records, served>>
control == <<pass, connector>>
history == <<tidy, missed>>
vars == <<certs, ingresses, aws, control, history, changes, faults>>

-----------------------------------------------------------------------------
Object(c) == Stored(certs)[c]
Ingress(i) == Stored(ingresses)[i]
Live(c) == Object(c).exists /\ ~Object(c).deleting
InUse(c) == \E i \in Ingresses : c \in served[i]

Idle == [at |-> "idle"]
To(at) == pass' = [pass EXCEPT !.at = at]

Fault == faults < MaxFaults /\ faults' = faults + 1
NoFault == UNCHANGED faults
Outside == changes < MaxChanges /\ changes' = changes + 1

\* SelectorSpec.ListOptions and Match: all the labels, but any annotation.
\* Without a namespace or an annotation there is no condition on it.
Agree(wanted, has) == {k \in DOMAIN wanted \cap DOMAIN has : has[k] = wanted[k]}
ListOptions(selector, item) ==
    /\ Agree(selector.labels, item.labels) = DOMAIN selector.labels
    /\ Cardinality(selector.namespaces) = 1 => item.namespace \in selector.namespaces
Match(selector, item) ==
    /\ Cardinality(selector.namespaces) > 1 => item.namespace \in selector.namespaces
    /\ DOMAIN selector.annotations # {} => Agree(selector.annotations, item.annotations) # {}
Selected(S, selector) ==
    {x \in S : ListOptions(selector, Item[x]) /\ Match(selector, Item[x])}

\* Object c becomes o.
Write(c, o) == certs' = Publish(certs, [Stored(certs) EXCEPT ![c] = o])

Init ==
    /\ certs = <<[c \in Certs |->
                    [exists |-> TRUE, held |-> FALSE, deleting |-> FALSE,
                     arn |-> FALSE, ready |-> FALSE]]>>
    /\ ingresses = <<[i \in Ingresses |-> [controlled |-> TRUE, lists |-> {}]]>>
    /\ acm = [c \in Certs |-> "none"]
    /\ records = {}
    /\ served = [i \in Ingresses |-> {}]
    /\ pass = Idle /\ connector = Idle
    /\ tidy = {} /\ missed = {}
    /\ changes = 0 /\ faults = 0

-----------------------------------------------------------------------------
(* The environment. *)

\* Nothing is under way for certificate c, and its status has its arn.
AtRest(c) ==
    /\ pass = Idle \/ pass.cert # c
    /\ Cached(certs)[c] = Object(c)
    /\ Object(c).arn /\ acm[c] # "none"

DeleteObject(c) ==
    /\ Live(c)
    /\ Outside
    /\ Write(c, IF Object(c).held THEN [Object(c) EXCEPT !.deleting = TRUE]
                                  ELSE [Object(c) EXCEPT !.exists = FALSE])
    /\ tidy' = IF AtRest(c) THEN tidy \cup {c} ELSE tidy
    /\ UNCHANGED <<ingresses, aws, control, missed, faults>>

\* The annotation aeto.net/controlled of an ingress is changed.  (Of one that
\* is not selected nobody reads it.)
HandOver(i) ==
    /\ i \in Selected(Ingresses, Selector.ingresses)
    /\ Outside
    /\ ingresses' = Publish(ingresses,
                        [Stored(ingresses) EXCEPT ![i].controlled = ~@])
    /\ UNCHANGED <<certs, aws, control, history, faults>>

\* ACM names the record it wants to see, and issues once it has seen it.
Progress(c) ==
    /\ \/ acm[c] = "new" /\ acm' = [acm EXCEPT ![c] = "pending"]
       \/ acm[c] = "pending" /\ c \in records /\ acm' = [acm EXCEPT ![c] = "issued"]
    /\ UNCHANGED <<certs, ingresses, records, served, control, history,
                   changes, faults>>

\* The load balancer takes the certificates of its ingress, if all exist.
Serve(i) ==
    /\ \A c \in Ingress(i).lists : acm[c] = "issued"
    /\ served' = [served EXCEPT ![i] = Ingress(i).lists]
    /\ UNCHANGED <<certs, ingresses, acm, records, control, history,
                   changes, faults>>

Deliver ==
    /\ \/ Len(certs) > 1 /\ certs' = Tail(certs) /\ UNCHANGED ingresses
       \/ Len(ingresses) > 1 /\ ingresses' = Tail(ingresses) /\ UNCHANGED certs
    /\ UNCHANGED <<aws, control, history, changes, faults>>

\* The process ends, and another begins with a cache that is up to date.
Restarts ==
    /\ certs' = Refreshed(certs) /\ ingresses' = Refreshed(ingresses)
    /\ pass' = Idle /\ connector' = Idle

Restart ==
    /\ Fault
    /\ Restarts
    /\ UNCHANGED <<aws, history, changes>>

-----------------------------------------------------------------------------
(* The Certificate controller: a pass over a certificate that stays. *)

\* WithFinalizer: the object is updated, or its update refused, when it does
\* not have the finalizer yet.
BeginPass(c) ==
    LET o == Cached(certs)[c]
        held == [o EXCEPT !.held = TRUE]
    IN  /\ pass = Idle /\ o.exists
        /\ o.held \/ o = Object(c)
        /\ Write(c, IF o.held THEN Object(c) ELSE held)
        /\ pass' = [at |-> IF o.deleting THEN "get" ELSE "ensure", cert |-> c,
                    view |-> held, status |-> "none"]
        /\ UNCHANGED <<ingresses, aws, connector, history, changes, faults>>

\* The certificate is found by its tags, or requested, and then described.
Ensure ==
    LET c == pass.cert
        requested == IF acm[c] = "none" THEN [acm EXCEPT ![c] = "new"] ELSE acm
    IN  /\ pass.at = "ensure"
        /\ \/ /\ acm' = requested
              /\ pass' = [pass EXCEPT !.at = "validate", !.status = requested[c]]
              /\ NoFault /\ UNCHANGED missed
           \/ /\ acm' \in {acm, requested}
              /\ To("status")
              /\ Fault /\ missed' = missed \cup {c}
        /\ UNCHANGED <<certs, ingresses, records, served, connector, tidy, changes>>

\* The status that a pass reports when it could not put the validation record.
\* Nothing: as if it had not found the certificate.
Nothing(status) == "none"
Unvalidated(status) == status

\* The validation record is put, once ACM has named it.
Validate ==
    /\ pass.at = "validate"
    /\ \/ /\ records' = IF pass.status = "new" THEN records
                                               ELSE records \cup {pass.cert}
          /\ To("status") /\ NoFault
       \/ /\ pass.status # "new" /\ Fault
          /\ pass' = [pass EXCEPT !.at = "status", !.status = Unvalidated(@)]
          /\ UNCHANGED records
    /\ UNCHANGED <<certs, ingresses, acm, served, connector, history, changes>>

\* The status after a pass that found ACM's status, or "none" after a failure.
Status(o, status) ==
    [o EXCEPT !.arn = status # "none", !.ready = status = "issued"]

\* reconcileStatus: refused when the object has changed since it was read.
WriteStatus ==
    LET c == pass.cert
    IN  /\ pass.at = "status"
        /\ \/ /\ pass.view = Object(c)
              /\ Write(c, Status(Object(c), pass.status))
              /\ NoFault
           \/ /\ IF pass.view = Object(c) THEN Fault ELSE NoFault
              /\ UNCHANGED certs
        /\ pass' = Idle
        /\ UNCHANGED <<ingresses, aws, connector, history, changes>>

-----------------------------------------------------------------------------
(* The finalizer of a certificate, reconcileDelete. *)

\* Nothing to do without an arn, or when there is no certificate with it.
Get ==
    LET known == pass.view.arn
    IN  /\ pass.at = "get"
        /\ \/ To(IF known /\ acm[pass.cert] # "none" THEN "unrecord" ELSE "done") /\ NoFault
           \/ known /\ Fault /\ pass' = Idle
        /\ UNCHANGED <<certs, ingresses, aws, connector, history, changes>>

\* A new certificate has no domain to validate yet, or one without a record,
\* whose name is then read through a nil pointer.
Panic ==
    /\ pass.at = "get"
    /\ pass.view.arn /\ acm[pass.cert] = "new"
    /\ Restarts
    /\ UNCHANGED <<aws, history, changes, faults>>

\* A record that is not there is as good as deleted.
Unrecorded(c) == records \ {c}

Unrecord ==
    /\ pass.at = "unrecord"
    /\ \/ records' = Unrecorded(pass.cert) /\ To("delete") /\ NoFault
       \/ records' \in {records, Unrecorded(pass.cert)} /\ Fault /\ pass' = Idle
    /\ UNCHANGED <<certs, ingresses, acm, served, connector, history, changes>>

\* ACM refuses to delete a certificate that is in use; it is tried again.
DeleteCertificate ==
    LET c == pass.cert
        deleted == [acm EXCEPT ![c] = "none"]
    IN  /\ pass.at = "delete"
        /\ \/ InUse(c) /\ pass' = Idle /\ NoFault /\ UNCHANGED acm
           \/ ~InUse(c) /\ acm' = deleted /\ To("done") /\ NoFault
           \/ /\ Fault /\ pass' = Idle
              /\ acm' \in {acm, IF InUse(c) THEN acm ELSE deleted}
        /\ UNCHANGED <<certs, ingresses, records, served, connector,
                       history, changes>>

RemoveFinalizer ==
    LET c == pass.cert
    IN  /\ pass.at = "done"
        /\ \/ /\ IF pass.view = Object(c) THEN Write(c, [Object(c) EXCEPT !.exists = FALSE])
                                          ELSE UNCHANGED certs
              /\ NoFault
           \/ Fault /\ UNCHANGED certs
        /\ pass' = Idle
        /\ UNCHANGED <<ingresses, aws, connector, history, changes>>

-----------------------------------------------------------------------------
(* The CertificateConnector controller. *)

\* Does an ingress get the certificate with this status?  AnyWithArn: before
\* it is issued, too.  EvenDeleted: until it is gone.
AnyWithArn(o) == o.exists /\ ~o.deleting /\ o.arn
EvenDeleted(o) == o.exists /\ o.arn /\ o.ready
Connectable(o) == o.exists /\ ~o.deleting /\ o.arn /\ o.ready

\* The certificates and the ingresses are listed from the cache.  An ingress
\* that is not controlled, or lists them already, is not updated.
BeginConnect ==
    LET wanted == {c \in Selected(Certs, Selector.certs) : Connectable(Cached(certs)[c])}
        view == Cached(ingresses)
        todo == {i \in Selected(Ingresses, Selector.ingresses) :
                    view[i].controlled /\ view[i].lists # wanted}
    IN  /\ connector = Idle /\ todo # {}
        /\ connector' = [at |-> "connect", wanted |-> wanted, view |-> view, todo |-> todo]
        /\ UNCHANGED <<certs, ingresses, aws, pass, history, changes, faults>>

\* Every ingress has its own update; one that is refused or fails does not
\* keep the others from theirs.
Connect(i) ==
    LET unchanged == connector.view[i] = Ingress(i)
        listed == [Ingress(i) EXCEPT !.lists = connector.wanted]
    IN  /\ connector.at = "connect" /\ i \in connector.todo
        /\ \/ /\ unchanged
              /\ ingresses' = Publish(ingresses, [Stored(ingresses) EXCEPT ![i] = listed])
              /\ NoFault
           \/ /\ IF unchanged THEN Fault ELSE NoFault
              /\ UNCHANGED ingresses
        /\ connector' = IF connector.todo = {i} THEN Idle
                        ELSE [connector EXCEPT !.todo = @ \ {i}]
        /\ UNCHANGED <<certs, aws, pass, history, changes>>

Reconciling ==
    \/ Ensure \/ Validate \/ WriteStatus
    \/ Get \/ Panic \/ Unrecord \/ DeleteCertificate \/ RemoveFinalizer
Connecting == BeginConnect \/ \E i \in Ingresses : Connect(i)

Next ==
    \/ \E c \in Certs : DeleteObject(c) \/ Progress(c) \/ BeginPass(c)
    \/ \E i \in Ingresses : HandOver(i) \/ Serve(i)
    \/ Deliver \/ Restart \/ Reconciling \/ Connecting

\* The informers deliver, passes come to every object again and end, ACM
\* proceeds, and load balancers take what they can.
Fairness ==
    /\ WF_vars(Deliver) /\ WF_vars(Reconciling) /\ WF_vars(Connecting)
    /\ \A c \in Certs : SF_vars(BeginPass(c)) /\ WF_vars(Progress(c))
    /\ \A i \in Ingresses : WF_vars(Serve(i))

Spec == Init /\ [][Next]_vars
FairSpec == Spec /\ Fairness

-----------------------------------------------------------------------------
(* Properties. *)

\* As long as an object is not deleted, an ingress lists its certificate only
\* when it has been issued, whatever the caches showed to the connector.
ListedIsIssued ==
    \A i \in Ingresses, c \in Certs :
        c \in Ingress(i).lists /\ Live(c) => acm[c] = "issued"

\* An ingress that lists the certificate of an object keeps it until the
\* object is deleted, or a pass fails to look the certificate up.
StaysListed ==
    [][\A i \in Ingresses :
          \A c \in Ingress(i).lists \ Ingress(i)'.lists : ~Live(c) \/ c \in missed]_vars

\* Every certificate is issued and listed by the ingresses that are
\* controlled, which list no other.  One whose deletion began at rest
\* disappears with its record; only an ingress that is not controlled any
\* more keeps one, as long as it lists it.
Settled ==
    /\ \A c \in Certs :
          \/ ~Object(c).exists /\ (c \in tidy => acm[c] = "none" /\ c \notin records)
          \/ Object(c).deleting /\ \E i \in Ingresses :
                                      ~Ingress(i).controlled /\ c \in served[i]
          \/ Live(c) /\ Object(c).ready /\ c \in records
    /\ \A i \in Selected(Ingresses, Selector.ingresses) :
          Ingress(i).controlled =>
              Ingress(i).lists = {c \in Selected(Certs, Selector.certs) : Live(c)}
CertificatesSettle == <>[]Settled
=============================================================================
