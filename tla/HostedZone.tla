----------------------------- MODULE HostedZone -----------------------------
(***************************************************************************)
(* The HostedZone controller: a zone in AWS Route53 for a HostedZone       *)
(* object, with the NS record that connects it to its parent zone.         *)
(*                                                                         *)
(* The controller knows its zone by the owner's tags, which it sets after  *)
(* it has created the zone; the finalizer knows it by the id in the        *)
(* status.  The object is read through a cache, AWS without one.  The      *)
(* parent zone is taken to exist.                                          *)
(***************************************************************************)
EXTENDS InformerCache, FiniteSets

CONSTANTS
    MaxChanges,  \* bound: edits and the deletion of the object, new records
    MaxFaults    \* bound: failed calls, of AWS or the API server, restarts

ASSUME BoundsAssumption == MaxChanges \in Nat /\ MaxFaults \in Nat

VARIABLES
    object,   \* feed of the object
    zones,    \* the zones with its name, by number: [owned, full]
    record,   \* the zone the NS record in the parent zone points to, 0: none
    recent,   \* has the caller reference of this minute been used?
    pass,     \* the pass of the controller
    tidy,     \* history: was everything in order when it was deleted?
    changes,  \* how often something was changed from outside
    faults    \* how many faults there were

vars == <<object, zones, record, recent, pass, tidy, changes, faults>>

-----------------------------------------------------------------------------
Now == Stored(object)
Gone == ~Now.exists

\* Zones with the owner's tags; full: with records other than its own.
Owned == {z \in DOMAIN zones : zones[z].owned}
NewZone == Cardinality(DOMAIN zones) + 1
Idle == [at |-> "idle", zone |-> 0]

Fault == faults < MaxFaults /\ faults' = faults + 1
NoFault == UNCHANGED faults
Outside == changes < MaxChanges /\ changes' = changes + 1

To(at) == pass' = [pass EXCEPT !.at = at]
Ends == pass' = Idle

Init ==
    /\ \E connect, force \in BOOLEAN :
          object = <<[exists |-> TRUE, held |-> FALSE, deleting |-> FALSE,
                      connect |-> connect, force |-> force, id |-> 0]>>
    /\ zones = << >>
    /\ record = 0
    /\ recent = FALSE
    /\ pass = Idle
    /\ tidy = FALSE
    /\ changes = 0
    /\ faults = 0

-----------------------------------------------------------------------------
(* The environment. *)

\* At rest the status names the only zone there is, and no record is left
\* from an earlier connection.
AtRest ==
    /\ pass = Idle /\ Len(object) = 1
    /\ Now.id # 0 /\ Owned = {Now.id} /\ DOMAIN zones = {Now.id}
    /\ record # 0 => Now.connect

Connect ==
    /\ ~Gone /\ ~Now.deleting
    /\ Outside
    /\ object' = Publish(object, [Now EXCEPT !.connect = ~@])
    /\ UNCHANGED <<zones, record, recent, pass, tidy, faults>>

DeleteObject ==
    /\ ~Gone /\ ~Now.deleting
    /\ Outside
    /\ object' = Publish(object, IF Now.held THEN [Now EXCEPT !.deleting = TRUE]
                                             ELSE [Now EXCEPT !.exists = FALSE])
    /\ tidy' = AtRest
    /\ UNCHANGED <<zones, record, recent, pass, faults>>

\* Somebody puts a record into a zone, or takes out the last one.
Fill(z) ==
    /\ IF zones[z].full THEN UNCHANGED changes ELSE Outside
    /\ zones' = [zones EXCEPT ![z].full = ~@]
    /\ UNCHANGED <<object, record, recent, pass, tidy, faults>>

MinutePasses ==
    /\ recent
    /\ recent' = FALSE
    /\ UNCHANGED <<object, zones, record, pass, tidy, changes, faults>>

Deliver ==
    /\ Len(object) > 1
    /\ object' = Tail(object)
    /\ UNCHANGED <<zones, record, recent, pass, tidy, changes, faults>>

Restart ==
    /\ Fault
    /\ object' = Refreshed(object)
    /\ Ends
    /\ UNCHANGED <<zones, record, recent, tidy, changes>>

-----------------------------------------------------------------------------
(* A pass over an object that is not being deleted. *)

\* WithFinalizer: the object is updated, or its update refused, when it does
\* not have the finalizer yet.
BeginPass ==
    LET o == Cached(object)
    IN  /\ pass = Idle /\ o.exists
        /\ o.held \/ o = Now
        /\ object' = Publish(object, IF o.held THEN Now ELSE [o EXCEPT !.held = TRUE])
        /\ pass' = [at |-> IF o.deleting THEN "get" ELSE "find", zone |-> 0,
                    view |-> [o EXCEPT !.held = TRUE]]
        /\ UNCHANGED <<zones, record, recent, tidy, changes, faults>>

\* Which zone is the object's?  ByStatus: the one that its status names.
ByStatus(view) == DOMAIN zones \cap {view.id}
Matched(view) == Owned

\* With one that matches it goes on, with more it gives up.
AfterFind(matched) ==
    IF matched = {} THEN "create"
    ELSE IF Cardinality(matched) = 1 THEN "tag" ELSE "status"

FindZone ==
    LET matched == Matched(pass.view)
    IN  /\ pass.at = "find"
        /\ \/ /\ pass' = [pass EXCEPT !.at = AfterFind(matched),
                     !.zone = IF Cardinality(matched) = 1
                              THEN CHOOSE z \in matched : TRUE ELSE 0]
              /\ NoFault
           \/ Fault /\ To("status")
        /\ UNCHANGED <<object, zones, record, recent, tidy, changes>>

\* AWS refuses a caller reference that it has seen; this one holds the minute
\* of the day.  RefusedForEver: it holds no time.
RefusedForEver == DOMAIN zones # {}
Refused == recent

CreateZone ==
    /\ pass.at = "create"
    /\ \/ /\ Refused
          /\ To("status") /\ NoFault /\ UNCHANGED <<zones, recent>>
       \/ /\ ~Refused
          /\ zones' = Put(zones, NewZone, [owned |-> FALSE, full |-> FALSE])
          /\ recent' = TRUE
          /\ \/ pass' = [pass EXCEPT !.at = "tag", !.zone = NewZone] /\ NoFault
             \/ Fault /\ To("status")  \* the reply is lost
       \/ Fault /\ To("status") /\ UNCHANGED <<zones, recent>>
    /\ UNCHANGED <<object, record, tidy, changes>>

Tag ==
    /\ pass.at = "tag"
    /\ \/ /\ zones' = [zones EXCEPT ![pass.zone].owned = TRUE]
          /\ To(IF pass.view.connect THEN "connect" ELSE "status")
          /\ NoFault
       \/ Fault /\ To("status") /\ UNCHANGED zones
    /\ UNCHANGED <<object, record, recent, tidy, changes>>

\* reconcileHostedZoneConnection: the NS record is looked up in the zone and
\* upserted in its parent.
Upsert ==
    /\ pass.at = "connect"
    /\ \/ record' = pass.zone /\ NoFault
       \/ Fault /\ UNCHANGED record
    /\ To("status")
    /\ UNCHANGED <<object, zones, recent, tidy, changes>>

\* reconcileStatus: a pass that ends without a zone clears the id.
WriteStatus ==
    /\ pass.at = "status"
    /\ \/ /\ object' = IF pass.view = Now
                       THEN Publish(object, [Now EXCEPT !.id = pass.zone]) ELSE object
          /\ NoFault
       \/ Fault /\ UNCHANGED object
    /\ Ends
    /\ UNCHANGED <<zones, record, recent, tidy, changes>>

-----------------------------------------------------------------------------
(* The finalizer, reconcileDelete. *)

\* Nothing to do without an id, or when there is no zone with that id.
Get ==
    /\ pass.at = "get"
    /\ \/ /\ To(IF pass.view.id \in DOMAIN zones THEN "disconnect" ELSE "done")
          /\ NoFault
       \/ pass.view.id # 0 /\ Fault /\ Ends
    /\ UNCHANGED <<object, zones, record, recent, tidy, changes>>

\* The NS record of that name in the parent zone is deleted, then the zone.
\* KeepRecord: the record is left alone.
KeepRecord(view) == FALSE
Disconnects(view) == view.connect

Disconnect ==
    /\ pass.at = "disconnect"
    /\ \/ /\ record' = IF Disconnects(pass.view) THEN 0 ELSE record
          /\ To("purge") /\ NoFault
       \/ pass.view.connect /\ Fault /\ Ends /\ UNCHANGED record
    /\ UNCHANGED <<object, zones, recent, tidy, changes>>

\* With the deletion policy force the zone is purged of its records.
Purge ==
    /\ pass.at = "purge"
    /\ \/ /\ zones' = IF pass.view.force THEN [zones EXCEPT ![pass.view.id].full = FALSE]
                                         ELSE zones
          /\ To("delete") /\ NoFault
       \/ pass.view.force /\ Fault /\ Ends /\ UNCHANGED zones
    /\ UNCHANGED <<object, record, recent, tidy, changes>>

\* AWS keeps a zone that is not empty.
DeleteZone ==
    LET rest == Without(zones, {pass.view.id})
    IN  /\ pass.at = "delete"
        /\ \/ /\ zones[pass.view.id].full
              /\ Ends /\ NoFault /\ UNCHANGED zones
           \/ /\ ~zones[pass.view.id].full
              /\ zones' = rest
              /\ To("done") /\ NoFault
           \/ /\ Fault /\ Ends  \* the call fails, or its reply is lost
              /\ \/ UNCHANGED zones
                 \/ ~zones[pass.view.id].full /\ zones' = rest
        /\ UNCHANGED <<object, record, recent, tidy, changes>>

RemoveFinalizer ==
    /\ pass.at = "done"
    /\ \/ /\ object' = IF pass.view = Now
                       THEN Publish(object, [Now EXCEPT !.exists = FALSE]) ELSE object
          /\ NoFault
       \/ Fault /\ UNCHANGED object
    /\ Ends
    /\ UNCHANGED <<zones, record, recent, tidy, changes>>

Reconciling ==
    \/ BeginPass \/ FindZone \/ CreateZone \/ Tag \/ Upsert \/ WriteStatus
    \/ Get \/ Disconnect \/ Purge \/ DeleteZone \/ RemoveFinalizer

Next ==
    \/ Connect \/ DeleteObject \/ MinutePasses \/ Deliver \/ Restart
    \/ \E z \in DOMAIN zones : Fill(z)
    \/ Reconciling

\* The informer delivers, passes follow each other, and time passes.
Fairness == WF_vars(Deliver) /\ WF_vars(Reconciling) /\ WF_vars(MinutePasses)

Spec == Init /\ [][Next]_vars
FairSpec == Spec /\ Fairness

-----------------------------------------------------------------------------
(* Properties. *)

\* Stale caches, refused updates and passes that start over do not lead to a
\* second zone: at most one is owned, and each zone beyond it has cost a
\* fault between its creation and its tags.
NoSpareZones ==
    Cardinality(Owned) <= 1 /\ Cardinality(DOMAIN zones) <= faults + 1

\* A zone is deleted only when no record of a connected object leads to it,
\* however often the deletion had to be tried.
NoDanglingDelegation ==
    [][\A z \in DOMAIN zones \ DOMAIN zones' :
          Now.connect => record # z]_vars

\* The object comes to its zone, connected if it is to be, and the deletion
\* of an object that was at rest leaves neither a zone nor a record.  It
\* waits only for a zone that holds records and may not be purged.
Settled ==
    IF Gone THEN tidy => zones = << >> /\ record = 0
    ELSE IF Now.deleting
         THEN ~Now.force /\ Now.id \in DOMAIN zones /\ zones[Now.id].full
    ELSE Owned = {Now.id} /\ (Now.connect => record = Now.id)
ZoneSettles == <>[]Settled
=============================================================================
