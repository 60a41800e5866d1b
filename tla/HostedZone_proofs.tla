-------------------------- MODULE HostedZone_proofs --------------------------
(***************************************************************************)
(* Proofs about the HostedZone controller, for any number of changes and   *)
(* faults.                                                                 *)
(*                                                                         *)
(* The invariant is in three parts: the types, the count of the zones,     *)
(* which a fault pays for whenever none is owned, and the order in which   *)
(* the finalizer takes the record before the zone.                         *)
(***************************************************************************)
EXTENDS HostedZone, Lemmas

Objects ==
    [exists : BOOLEAN, held : BOOLEAN, deleting : BOOLEAN, connect : BOOLEAN,
     force : BOOLEAN, id : Nat]
Zone == [owned : BOOLEAN, full : BOOLEAN]
Finalizing == {"get", "disconnect", "purge", "delete", "done"}
Stages == {"find", "create", "tag", "connect", "status"} \cup Finalizing

Types ==
    /\ object \in Feeds(Objects)
    /\ zones \in [DOMAIN zones -> Zone]
    /\ IsFiniteSet(DOMAIN zones) /\ DOMAIN zones \subseteq Nat \ {0}
    /\ record \in Nat
    /\ pass \in [at : Stages, zone : Nat, view : Objects] \cup {Idle}
    /\ faults \in Nat

\* Only one zone is owned, a pass creates one when there is none, and until it
\* is tagged, or when none is owned, each other zone has cost a fault.
Counted ==
    /\ \A y, z \in Owned : y = z
    /\ pass.at = "create" => Owned = {}
    /\ pass.at = "tag" => pass.zone \in DOMAIN zones /\ Owned \subseteq {pass.zone}
    /\ Cardinality(DOMAIN zones) <= faults + 1
    /\ Owned = {} /\ pass.at # "tag" => Cardinality(DOMAIN zones) <= faults

\* An object that is being deleted stays so, connected or not, as it was; the
\* finalizer works with such an object, and the record goes first.
Frozen(o, p) == o.deleting => p.deleting /\ p.connect = o.connect
RecordFirst ==
    /\ \A i, j \in 1..Len(object) : i <= j => Frozen(object[i], object[j])
    /\ pass.at \in Finalizing =>
           pass.view.deleting /\ Frozen(pass.view, Cached(object))
    /\ pass.at \in {"purge", "delete"} /\ pass.view.connect => record = 0

IInv == Types /\ Counted /\ RecordFirst

-----------------------------------------------------------------------------
(* Zones come and go one by one. *)

\* A zone more: the others keep their tags.
WithZone(put, k, x) ==
    /\ put \in [DOMAIN put -> Zone]
    /\ DOMAIN put = DOMAIN zones \cup {k}
    /\ IsFiniteSet(DOMAIN put) /\ DOMAIN put \subseteq Nat \ {0}
    /\ Cardinality(DOMAIN put) <= Cardinality(DOMAIN zones) + 1
    /\ put[k] = x /\ \A z \in DOMAIN zones \ {k} : put[z] = zones[z]

LEMMA PutZone ==
  ASSUME Types, NEW k \in Nat \ {0}, NEW x \in Zone
  PROVE  WithZone(Put(zones, k, x), k, x)
<1>1. IsFiniteSet(DOMAIN zones) /\ Cardinality(DOMAIN zones) \in Nat
  BY FS_CardinalityType DEF Types
<1>2. /\ IsFiniteSet(DOMAIN zones \cup {k})
      /\ Cardinality(DOMAIN zones \cup {k}) <= Cardinality(DOMAIN zones) + 1
  <2>1. Cardinality(DOMAIN zones \cup {k}) =
          IF k \in DOMAIN zones THEN Cardinality(DOMAIN zones)
                                ELSE Cardinality(DOMAIN zones) + 1
    BY <1>1, FS_AddElement
  <2>2. QED
    BY <1>1, <2>1, FS_AddElement
<1>3. QED
  BY <1>2 DEF WithZone, Put, Types

\* A zone less: the count goes down if there was one.
LEMMA DropZone ==
  ASSUME Types, NEW k
  PROVE  LET rest == Without(zones, {k})
         IN  /\ rest \in [DOMAIN rest -> Zone]
             /\ DOMAIN rest = DOMAIN zones \ {k}
             /\ IsFiniteSet(DOMAIN rest) /\ DOMAIN rest \subseteq Nat \ {0}
             /\ Cardinality(DOMAIN rest) =
                    IF k \in DOMAIN zones THEN Cardinality(DOMAIN zones) - 1
                                          ELSE Cardinality(DOMAIN zones)
             /\ \A z \in DOMAIN rest : rest[z] = zones[z]
<1>1. /\ IsFiniteSet(DOMAIN zones \ {k})
      /\ Cardinality(DOMAIN zones \ {k}) =
             IF k \in DOMAIN zones THEN Cardinality(DOMAIN zones) - 1
                                   ELSE Cardinality(DOMAIN zones)
  BY FS_RemoveElement DEF Types
<1>2. QED
  BY <1>1 DEF Without, Types

\* A zone that is tagged, and one that is filled or purged.
LEMMA ChangeZone ==
  ASSUME NEW D, NEW f \in [D -> Zone], NEW k, NEW b \in BOOLEAN
  PROVE  LET tagged == [f EXCEPT ![k].owned = TRUE]
             filled == [f EXCEPT ![k].full = b]
         IN  /\ tagged \in [D -> Zone] /\ filled \in [D -> Zone]
             /\ k \in D => tagged[k].owned
             /\ \A z \in D \ {k} : tagged[z] = f[z]
             /\ \A z \in D : filled[z].owned = f[z].owned
BY DEF Zone

\* Counting.
LEMMA Counts == Types => Cardinality(DOMAIN zones) \in Nat /\ NewZone \in Nat \ {0}
BY FS_CardinalityType DEF Types, NewZone

\* The order of the feed survives a write of an object like the stored one,
\* and one before anything is being deleted.
LEMMA WriteKeepsOrder ==
  ASSUME Types, RecordFirst, NEW o \in Objects, Frozen(Now, o)
  PROVE  LET feed == Publish(object, o)
         IN  /\ feed \in Feeds(Objects)
             /\ \A i, j \in 1..Len(feed) : i <= j => Frozen(feed[i], feed[j])
             /\ Cached(feed) = Cached(object)
<1> DEFINE feed == Publish(object, o)
<1>1. /\ object \in Feeds(Objects)
      /\ \A i, j \in 1..Len(object) : i <= j => Frozen(object[i], object[j])
  BY DEF Types, RecordFirst
<1>2. /\ Len(object) \in Nat \ {0} /\ Now = object[Len(object)] /\ Now \in Objects
  BY <1>1, FeedEnds DEF Now
<1>3. /\ feed \in Feeds(Objects) /\ Cached(feed) = Cached(object)
      /\ Len(feed) \in {Len(object), Len(object) + 1}
      /\ \A i \in 1..Len(object) : feed[i] = object[i]
      /\ feed[Len(feed)] = o
  BY <1>1, PublishFeed
<1>4. Frozen(o, o)
  BY DEF Frozen
<1> HIDE DEF feed
<1>5. ASSUME NEW i \in 1..Len(feed), NEW j \in 1..Len(feed), i <= j
      PROVE  Frozen(feed[i], feed[j])
  <2>1. CASE j \in 1..Len(object)
    BY <1>1, <1>2, <1>3, <1>5, <2>1
  <2>2. CASE j \notin 1..Len(object) /\ i \notin 1..Len(object)
    BY <1>2, <1>3, <1>4, <1>5, <2>2
  <2>3. CASE j \notin 1..Len(object) /\ i \in 1..Len(object)
    <3>1. feed[j] = o /\ feed[i] = object[i] /\ Frozen(object[i], Now)
      BY <1>1, <1>2, <1>3, <1>5, <2>3
    <3>2. QED
      BY <3>1 DEF Frozen
  <2>4. QED
    BY <2>1, <2>2, <2>3
<1>6. QED
  BY <1>3, <1>5 DEF feed

-----------------------------------------------------------------------------
(* The invariant holds at first. *)

\* No zone, no pass, and one state in the feed.
LEMMA InitIInv == Init => IInv
<1> SUFFICES ASSUME Init PROVE IInv
  OBVIOUS
<1>1. PICK o \in Objects : object = <<o>>
  BY DEF Init, Objects
<1>2. /\ object \in Feeds(Objects) /\ Len(object) = 1
      /\ \A i, j \in 1..Len(object) : i <= j => Frozen(object[i], object[j])
  BY <1>1 DEF Feeds, Frozen
<1>3. DOMAIN zones = {} /\ zones \in [DOMAIN zones -> Zone]
  BY DEF Init
<1>4. IsFiniteSet(DOMAIN zones) /\ Cardinality(DOMAIN zones) = 0 /\ Owned = {}
  BY <1>3, FS_EmptySet DEF Owned
<1>5. Types
  BY <1>2, <1>3, <1>4 DEF Init, Types
<1>6. Counted
  BY <1>4 DEF Init, Counted, Idle
<1>7. RecordFirst
  BY <1>2 DEF Init, RecordFirst, Idle, Finalizing
<1>8. QED
  BY <1>5, <1>6, <1>7 DEF IInv

-----------------------------------------------------------------------------
(* The types are kept. *)

\* What a pass does to itself.
LEMMA PassTypes ==
  ASSUME Types, pass # Idle
  PROVE  /\ pass \in [at : Stages, zone : Nat, view : Objects]
         /\ pass.at \in Stages /\ pass.zone \in Nat /\ pass.view \in Objects
         /\ \A at \in Stages, z \in Nat :
                /\ [pass EXCEPT !.at = at] \in [at : Stages, zone : Nat, view : Objects]
                /\ [pass EXCEPT !.at = at, !.zone = z]
                       \in [at : Stages, zone : Nat, view : Objects]
BY DEF Types

LEMMA ObjectTypes ==
  ASSUME Types
  PROVE  /\ Now \in Objects /\ Cached(object) \in Objects
         /\ Len(object) \in Nat \ {0} /\ Now = object[Len(object)]
         /\ Cached(object) = object[1]
BY FeedEnds DEF Types, Now

\* A write of the object.
LEMMA WriteTypes ==
  ASSUME Types, NEW o \in Objects
  PROVE  Publish(object, o) \in Feeds(Objects)
BY PublishFeed DEF Types

\* Each step keeps the types.
LEMMA TypesStep == Types /\ [Next]_vars => Types'
<1> SUFFICES ASSUME Types, [Next]_vars PROVE Types'
  OBVIOUS
<1> USE DEF To, Ends, NoFault, Fault, Outside
<1>o. Now \in Objects /\ Cached(object) \in Objects
  BY ObjectTypes
<1>1. CASE Connect
  <2>1. [Now EXCEPT !.connect = ~@] \in Objects
    BY <1>o DEF Objects
  <2>2. QED
    BY <1>1, <2>1, WriteTypes DEF Connect, Types
<1>2. CASE DeleteObject
  <2>1. /\ [Now EXCEPT !.deleting = TRUE] \in Objects
        /\ [Now EXCEPT !.exists = FALSE] \in Objects
    BY <1>o DEF Objects
  <2>2. QED
    BY <1>2, <2>1, WriteTypes DEF DeleteObject, Types
<1>3. CASE \E z \in DOMAIN zones : Fill(z)
  <2>1. PICK z \in DOMAIN zones : Fill(z)
    BY <1>3
  <2>2. zones' \in [DOMAIN zones -> Zone] /\ DOMAIN zones' = DOMAIN zones
    BY <2>1 DEF Fill, Types, Zone
  <2>3. QED
    BY <2>1, <2>2 DEF Fill, Types
<1>4. CASE MinutePasses
  BY <1>4 DEF MinutePasses, Types
<1>5. CASE Deliver
  <2>1. object' \in Feeds(Objects)
    BY <1>5, DeliverFeed DEF Deliver, Types
  <2>2. QED
    BY <1>5, <2>1 DEF Deliver, Types
<1>6. CASE Restart
  <2>1. object' \in Feeds(Objects)
    BY <1>6, RefreshFeed DEF Restart, Types
  <2>2. QED
    BY <1>6, <2>1 DEF Restart, Types
<1>7. CASE BeginPass
  <2>1. [Cached(object) EXCEPT !.held = TRUE] \in Objects
    BY <1>o DEF Objects
  <2>2. object' \in Feeds(Objects)
    BY <1>7, <1>o, <2>1, WriteTypes DEF BeginPass
  <2>3. pass' \in [at : Stages, zone : Nat, view : Objects]
    BY <1>7, <2>1 DEF BeginPass, Stages, Finalizing
  <2>4. QED
    BY <1>7, <2>2, <2>3 DEF BeginPass, Types
<1>8. CASE FindZone
  <2>1. pass # Idle
    BY <1>8 DEF FindZone, Idle
  <2>2. AfterFind(Matched(pass.view)) \in Stages /\ "status" \in Stages
    BY DEF AfterFind, Stages
  <2>3. \A z \in Nat : pass' = [pass EXCEPT !.at = AfterFind(Matched(pass.view)),
                                            !.zone = z] =>
            pass' \in [at : Stages, zone : Nat, view : Objects]
    BY <2>1, <2>2, PassTypes
  <2>4. Cardinality(Matched(pass.view)) = 1 =>
            (CHOOSE z \in Matched(pass.view) : TRUE) \in Nat
    <3>1. Matched(pass.view) \subseteq Nat /\ Matched(pass.view) \subseteq DOMAIN zones
      BY DEF Matched, Owned, Types
    <3>2. IsFiniteSet(Matched(pass.view))
      BY <3>1, FS_Subset DEF Types
    <3>3. Cardinality(Matched(pass.view)) = 1 => \E z \in Matched(pass.view) : TRUE
      BY <3>2, FS_Singleton
    <3>4. QED
      BY <3>1, <3>3
  <2>5. pass' \in [at : Stages, zone : Nat, view : Objects]
    BY <1>8, <2>1, <2>2, <2>3, <2>4, PassTypes DEF FindZone
  <2>6. QED
    BY <1>8, <2>5 DEF FindZone, Types
<1>9. CASE CreateZone
  <2>1. pass # Idle
    BY <1>9 DEF CreateZone, Idle
  <2>2. "status" \in Stages /\ "tag" \in Stages /\ NewZone \in Nat \ {0}
    BY Counts DEF Stages
  <2>3. pass' \in [at : Stages, zone : Nat, view : Objects]
    BY <1>9, <2>1, <2>2, PassTypes DEF CreateZone
  <2>4. [owned |-> FALSE, full |-> FALSE] \in Zone
    BY DEF Zone
  <2>5. \/ zones' = zones
        \/ zones' = Put(zones, NewZone, [owned |-> FALSE, full |-> FALSE])
    BY <1>9 DEF CreateZone
  <2>6. /\ zones' \in [DOMAIN zones' -> Zone] /\ IsFiniteSet(DOMAIN zones')
        /\ DOMAIN zones' \subseteq Nat \ {0}
    <3>1. CASE zones' = zones
      BY <3>1 DEF Types
    <3>2. CASE zones' = Put(zones, NewZone, [owned |-> FALSE, full |-> FALSE])
      BY <2>2, <2>4, <3>2, PutZone DEF WithZone
    <3>3. QED
      BY <2>5, <3>1, <3>2
  <2>7. QED
    BY <1>9, <2>3, <2>6 DEF CreateZone, Types
<1>10. CASE Tag
  <2>1. pass # Idle
    BY <1>10 DEF Tag, Idle
  <2>2. "status" \in Stages /\ "connect" \in Stages
    BY DEF Stages
  <2>3. pass' \in [at : Stages, zone : Nat, view : Objects]
    BY <1>10, <2>1, <2>2, PassTypes DEF Tag
  <2>z. zones \in [DOMAIN zones -> Zone]
    BY DEF Types
  <2>4. zones' \in [DOMAIN zones -> Zone] /\ DOMAIN zones' = DOMAIN zones
    <3>1. [zones EXCEPT ![pass.zone].owned = TRUE] \in [DOMAIN zones -> Zone]
      BY <2>z, ChangeZone, TRUE \in BOOLEAN, Zenon
    <3>2. zones' \in [DOMAIN zones -> Zone]
      BY <1>10, <2>z, <3>1 DEF Tag
    <3>3. QED
      BY <3>2
  <2>5. QED
    BY <1>10, <2>3, <2>4 DEF Tag, Types
<1>11. CASE Upsert
  <2>1. pass # Idle
    BY <1>11 DEF Upsert, Idle
  <2>2. pass' \in [at : Stages, zone : Nat, view : Objects] /\ record' \in Nat
    BY <1>11, <2>1, PassTypes DEF Upsert, Types, Stages
  <2>3. QED
    BY <1>11, <2>2 DEF Upsert, Types
<1>12. CASE WriteStatus
  <2>1. pass # Idle
    BY <1>12 DEF WriteStatus, Idle
  <2>2. [Now EXCEPT !.id = pass.zone] \in Objects
    BY <1>o, <2>1, PassTypes DEF Objects
  <2>3. object' \in Feeds(Objects)
    BY <1>12, <2>2, WriteTypes DEF WriteStatus, Types
  <2>4. QED
    BY <1>12, <2>3 DEF WriteStatus, Types
<1>13. CASE Get
  <2>1. pass # Idle
    BY <1>13 DEF Get, Idle
  <2>2. "disconnect" \in Stages /\ "done" \in Stages
    BY DEF Stages, Finalizing
  <2>3. pass' \in [at : Stages, zone : Nat, view : Objects] \cup {Idle}
    BY <1>13, <2>1, <2>2, PassTypes DEF Get
  <2>4. QED
    BY <1>13, <2>3 DEF Get, Types
<1>14. CASE Disconnect
  <2>1. pass # Idle
    BY <1>14 DEF Disconnect, Idle
  <2>2. "purge" \in Stages
    BY DEF Stages, Finalizing
  <2>3. pass' \in [at : Stages, zone : Nat, view : Objects] \cup {Idle}
    BY <1>14, <2>1, <2>2, PassTypes DEF Disconnect
  <2>4. QED
    BY <1>14, <2>3 DEF Disconnect, Types
<1>15. CASE Purge
  <2>1. pass # Idle
    BY <1>15 DEF Purge, Idle
  <2>2. "delete" \in Stages
    BY DEF Stages, Finalizing
  <2>3. pass' \in [at : Stages, zone : Nat, view : Objects] \cup {Idle}
    BY <1>15, <2>1, <2>2, PassTypes DEF Purge
  <2>z. zones \in [DOMAIN zones -> Zone]
    BY DEF Types
  <2>4. zones' \in [DOMAIN zones -> Zone] /\ DOMAIN zones' = DOMAIN zones
    <3>1. [zones EXCEPT ![pass.view.id].full = FALSE] \in [DOMAIN zones -> Zone]
      BY <2>z, ChangeZone, FALSE \in BOOLEAN, Zenon
    <3>2. zones' \in [DOMAIN zones -> Zone]
      BY <1>15, <2>z, <3>1 DEF Purge
    <3>3. QED
      BY <3>2
  <2>5. QED
    BY <1>15, <2>3, <2>4 DEF Purge, Types
<1>16. CASE DeleteZone
  <2>1. pass # Idle
    BY <1>16 DEF DeleteZone, Idle
  <2>2. "done" \in Stages
    BY DEF Stages, Finalizing
  <2>3. pass' \in [at : Stages, zone : Nat, view : Objects] \cup {Idle}
    BY <1>16, <2>1, <2>2, PassTypes DEF DeleteZone
  <2>4. zones' = zones \/ zones' = Without(zones, {pass.view.id})
    BY <1>16 DEF DeleteZone
  <2>5. /\ zones' \in [DOMAIN zones' -> Zone] /\ IsFiniteSet(DOMAIN zones')
        /\ DOMAIN zones' \subseteq Nat \ {0}
    <3>1. CASE zones' = zones
      BY <3>1 DEF Types
    <3>2. CASE zones' = Without(zones, {pass.view.id})
      BY <3>2, DropZone
    <3>3. QED
      BY <2>4, <3>1, <3>2
  <2>6. QED
    BY <1>16, <2>3, <2>5 DEF DeleteZone, Types
<1>17. CASE RemoveFinalizer
  <2>1. [Now EXCEPT !.exists = FALSE] \in Objects
    BY <1>o DEF Objects
  <2>2. object' \in Feeds(Objects)
    BY <1>17, <2>1, WriteTypes DEF RemoveFinalizer, Types
  <2>3. QED
    BY <1>17, <2>2 DEF RemoveFinalizer, Types
<1>18. CASE UNCHANGED vars
  BY <1>18 DEF vars, Types
<1>19. QED
  BY <1>1, <1>2, <1>3, <1>4, <1>5, <1>6, <1>7, <1>8, <1>9, <1>10, <1>11, <1>12,
     <1>13, <1>14, <1>15, <1>16, <1>17, <1>18 DEF Next, Reconciling

-----------------------------------------------------------------------------
(* The zones are counted. *)

\* A step that neither creates, deletes nor tags a zone keeps the count, when
\* it leaves the pass alone, and when a pass that was about to tag is left
\* with a fault.
LEMMA SameZones ==
  ASSUME Types, Counted, DOMAIN zones' = DOMAIN zones, Owned' = Owned,
         \/ UNCHANGED <<pass, faults>>
         \/ /\ faults' \in Nat /\ faults' >= faults /\ pass'.at \notin {"create", "tag"}
            /\ pass.at = "tag" => faults' = faults + 1
  PROVE  Counted'
<1>1. Cardinality(DOMAIN zones) \in Nat /\ faults \in Nat
  BY Counts DEF Types
<1>2. CASE UNCHANGED <<pass, faults>>
  BY <1>1, <1>2 DEF Counted
<1>3. CASE /\ faults' \in Nat /\ faults' >= faults /\ pass'.at \notin {"create", "tag"}
           /\ pass.at = "tag" => faults' = faults + 1
  BY <1>1, <1>3 DEF Counted
<1>4. QED
  BY <1>2, <1>3

\* A record that is put into a zone does not change whose it is.
LEMMA FilledZones ==
  ASSUME Types, NEW k, NEW b \in BOOLEAN, zones' = [zones EXCEPT ![k].full = b]
  PROVE  DOMAIN zones' = DOMAIN zones /\ Owned' = Owned
<1>1. zones \in [DOMAIN zones -> Zone]
  BY DEF Types
<1>2. zones' \in [DOMAIN zones -> Zone]
  BY <1>1, ChangeZone
<1>3. \A z \in DOMAIN zones : zones'[z].owned = zones[z].owned
  BY <1>1, ChangeZone
<1>4. QED
  BY <1>2, <1>3 DEF Owned

\* The number of the owned zones, when there is no second one.
LEMMA OwnedFacts ==
  ASSUME Types, Counted
  PROVE  /\ IsFiniteSet(Owned) /\ Cardinality(Owned) \in {0, 1}
         /\ Cardinality(Owned) = 0 <=> Owned = {}
         /\ \A z \in Owned : Owned = {z}
<1>1. IsFiniteSet(Owned)
  <2>1. IsFiniteSet(DOMAIN zones) /\ Owned \in SUBSET DOMAIN zones
    BY DEF Types, Owned
  <2>2. QED
    BY <2>1, FS_Subset
<1>2. CASE Owned = {}
  BY <1>1, <1>2, FS_EmptySet
<1>3. CASE \E z : z \in Owned
  <2>1. PICK z \in Owned : TRUE
    BY <1>3
  <2>2. Owned = {z}
    BY <2>1 DEF Counted
  <2>3. Cardinality(Owned) = 1
    BY <2>2, FS_Singleton
  <2>4. QED
    BY <1>1, <2>1, <2>3 DEF Counted
<1>4. QED
  BY <1>2, <1>3

\* Each step keeps the count: a zone that is created is paid for by its tags or
\* by the fault that keeps them off.
LEMMA CountedStep == Types /\ Counted /\ [Next]_vars => Counted'
<1> SUFFICES ASSUME Types, Counted, [Next]_vars PROVE Counted'
  OBVIOUS
<1> USE DEF To, Ends, NoFault, Fault, Outside
<1>n. /\ faults \in Nat /\ Cardinality(DOMAIN zones) \in Nat
      /\ Idle.at \notin {"create", "tag"}
  BY Counts DEF Types, Idle
<1>p. pass # Idle => \A at : [pass EXCEPT !.at = at].at = at
  BY PassTypes
<1>u. zones' = zones => DOMAIN zones' = DOMAIN zones /\ Owned' = Owned
  BY DEF Owned
<1>1. CASE Connect \/ DeleteObject \/ MinutePasses \/ Deliver \/ UNCHANGED vars
  BY <1>1, <1>u, SameZones DEF Connect, DeleteObject, MinutePasses, Deliver, vars
<1>2. CASE \E z \in DOMAIN zones : Fill(z)
  <2>1. PICK z \in DOMAIN zones : Fill(z)
    BY <1>2
  <2>2. /\ zones[z].full \in BOOLEAN /\ zones[z] \in Zone
        /\ zones' = [zones EXCEPT ![z].full = ~zones[z].full]
    BY <2>1 DEF Fill, Types, Zone
  <2>z. (~zones[z].full) \in BOOLEAN
    OBVIOUS
  <2>3. DOMAIN zones' = DOMAIN zones /\ Owned' = Owned
    BY <2>2, <2>z, FilledZones
  <2>4. QED
    BY <2>1, <2>3, SameZones DEF Fill
<1>3. CASE Restart
  BY <1>3, <1>n, <1>u, SameZones DEF Restart
<1>4. CASE BeginPass
  <2>1. pass.at # "tag" /\ pass'.at \notin {"create", "tag"}
    BY <1>4 DEF BeginPass, Idle
  <2>2. QED
    BY <1>4, <2>1, <1>n, <1>u, SameZones DEF BeginPass
<1>5. CASE FindZone
  <2>1. pass # Idle /\ pass.at # "tag"
    BY <1>5 DEF FindZone, Idle
  <2>2. CASE Fault /\ To("status")
    <3>1. pass'.at = "status"
      BY <2>1, <2>2, <1>p
    <3>2. QED
      BY <1>5, <2>1, <2>2, <3>1, <1>n, <1>u, SameZones DEF FindZone
  <2>3. CASE ~(Fault /\ To("status"))
    <3>1. /\ pass'.at = AfterFind(Owned) /\ UNCHANGED <<zones, faults>>
          /\ Cardinality(Owned) = 1 => pass'.zone = CHOOSE z \in Owned : TRUE
      BY <1>5, <2>1, <2>3, PassTypes DEF FindZone, Matched
    <3>2. CASE Owned = {}
      BY <3>1, <3>2, <2>1, <1>u, <1>n DEF AfterFind, Counted
    <3>3. CASE \E z : z \in Owned
      <4>1. PICK z \in Owned : Owned = {z}
        BY <3>3, OwnedFacts
      <4>2. Cardinality(Owned) = 1 /\ z \in DOMAIN zones
        BY <4>1, FS_Singleton DEF Owned
      <4>3. pass'.at = "tag" /\ pass'.zone = z
        BY <3>1, <4>1, <4>2 DEF AfterFind
      <4>4. QED
        BY <3>1, <4>1, <4>2, <4>3, <1>u, <1>n DEF Counted
    <3>4. QED
      BY <3>2, <3>3
  <2>4. QED
    BY <2>2, <2>3
<1>6. CASE CreateZone
  <2>1. pass # Idle /\ pass.at = "create" /\ Owned = {}
    BY <1>6 DEF CreateZone, Idle, Counted
  <2>2. CASE zones' = zones
    <3>1. pass'.at = "status" \/ zones' = Put(zones, NewZone, [owned |-> FALSE, full |-> FALSE])
      BY <1>6, <2>1, <1>p DEF CreateZone
    <3>2. CASE pass'.at = "status"
      BY <1>6, <2>1, <2>2, <3>2, <1>n, <1>u, SameZones DEF CreateZone
    <3>3. CASE zones' = Put(zones, NewZone, [owned |-> FALSE, full |-> FALSE])
      <4>1. pass'.at \in {"tag", "status"} /\ (pass'.at = "tag" => pass'.zone = NewZone)
        BY <1>6, <2>1, PassTypes, <1>p DEF CreateZone
      <4>2. NewZone \in DOMAIN zones
        BY <2>2, <3>3 DEF Put
      <4>3. QED
        BY <1>6, <2>1, <2>2, <4>1, <4>2, <1>u, <1>n DEF CreateZone, Counted
    <3>4. QED
      BY <3>1, <3>2, <3>3
  <2>3. CASE zones' # zones
    <3>1. /\ zones' = Put(zones, NewZone, [owned |-> FALSE, full |-> FALSE])
          /\ \/ pass'.at = "tag" /\ pass'.zone = NewZone /\ faults' = faults
             \/ pass'.at = "status" /\ faults' = faults + 1
      BY <1>6, <2>1, <2>3, PassTypes, <1>p DEF CreateZone
    <3>2. [owned |-> FALSE, full |-> FALSE] \in Zone /\ NewZone \in Nat \ {0}
      BY Counts DEF Zone
    <3>3. /\ DOMAIN zones' = DOMAIN zones \cup {NewZone}
          /\ Cardinality(DOMAIN zones') <= Cardinality(DOMAIN zones) + 1
          /\ IsFiniteSet(DOMAIN zones')
          /\ ~zones'[NewZone].owned
          /\ \A z \in DOMAIN zones \ {NewZone} : zones'[z] = zones[z]
      <4>0. WithZone(zones', NewZone, [owned |-> FALSE, full |-> FALSE])
        BY <3>1, <3>2, PutZone
      <4>1. zones'[NewZone] = [owned |-> FALSE, full |-> FALSE]
        BY <4>0 DEF WithZone
      <4>2. ~zones'[NewZone].owned
        BY <4>1
      <4>3. /\ DOMAIN zones' = DOMAIN zones \cup {NewZone}
            /\ Cardinality(DOMAIN zones') <= Cardinality(DOMAIN zones) + 1
            /\ IsFiniteSet(DOMAIN zones')
            /\ \A z \in DOMAIN zones \ {NewZone} : zones'[z] = zones[z]
        BY <4>0 DEF WithZone
      <4>4. QED
        BY <4>2, <4>3
    <3>4. Owned' = {}
      BY <2>1, <3>3 DEF Owned
    <3>5. Cardinality(DOMAIN zones') \in Nat
      BY <3>3, FS_CardinalityType
    <3>6. Cardinality(DOMAIN zones) <= faults
      BY <2>1 DEF Counted
    <3>7. QED
      BY <3>1, <3>3, <3>4, <3>5, <3>6, <1>n DEF Counted
  <2>4. QED
    BY <2>2, <2>3
<1>7. CASE Tag
  <2>1. pass # Idle /\ pass.at = "tag" /\ pass.zone \in DOMAIN zones
    BY <1>7 DEF Tag, Idle, Counted
  <2>2. CASE Fault /\ zones' = zones
    <3>1. pass'.at \in {"status", "connect"}
      BY <1>7, <2>1, <1>p DEF Tag
    <3>2. QED
      BY <2>2, <3>1, <1>n, <1>u, SameZones
  <2>3. CASE ~(Fault /\ zones' = zones)
    <3>1. /\ zones' = [zones EXCEPT ![pass.zone].owned = TRUE] /\ faults' = faults
          /\ pass'.at \in {"status", "connect"}
      BY <1>7, <2>1, <2>3, <1>p DEF Tag
    <3>2. zones \in [DOMAIN zones -> Zone]
      BY DEF Types
    <3>3. /\ zones' \in [DOMAIN zones -> Zone] /\ zones'[pass.zone].owned
          /\ \A z \in DOMAIN zones \ {pass.zone} : zones'[z] = zones[z]
      BY <2>1, <3>1, <3>2, ChangeZone, TRUE \in BOOLEAN, Zenon
    <3>4. DOMAIN zones' = DOMAIN zones
      BY <3>3
    <3>5. Owned' = {pass.zone}
      BY <2>1, <3>3, <3>4 DEF Owned, Counted
    <3>6. QED
      BY <2>1, <3>1, <3>4, <3>5, <1>n DEF Counted
  <2>4. QED
    BY <2>2, <2>3
<1>8. CASE Upsert \/ WriteStatus \/ RemoveFinalizer
  <2>1. pass # Idle /\ pass.at # "tag"
    BY <1>8 DEF Upsert, WriteStatus, RemoveFinalizer, Idle
  <2>2. /\ pass'.at \notin {"create", "tag"} /\ zones' = zones
        /\ faults' \in {faults, faults + 1}
    BY <1>8, <2>1, <1>p, <1>n DEF Upsert, WriteStatus, RemoveFinalizer
  <2>3. QED
    BY <2>1, <2>2, <1>n, <1>u, SameZones
<1>9. CASE Get \/ Disconnect
  <2>1. pass # Idle /\ pass.at # "tag"
    BY <1>9 DEF Get, Disconnect, Idle
  <2>2. /\ pass'.at \notin {"create", "tag"} /\ zones' = zones
        /\ faults' \in {faults, faults + 1}
    BY <1>9, <2>1, <1>p, <1>n DEF Get, Disconnect
  <2>3. QED
    BY <2>1, <2>2, <1>n, <1>u, SameZones
<1>10. CASE Purge
  <2>1. pass # Idle /\ pass.at # "tag"
    BY <1>10 DEF Purge, Idle
  <2>2. /\ pass'.at \notin {"create", "tag"} /\ faults' \in {faults, faults + 1}
        /\ zones' = zones \/ zones' = [zones EXCEPT ![pass.view.id].full = FALSE]
    BY <1>10, <2>1, <1>p, <1>n DEF Purge
  <2>3. DOMAIN zones' = DOMAIN zones /\ Owned' = Owned
    BY <2>2, <1>u, FilledZones, FALSE \in BOOLEAN
  <2>4. QED
    BY <2>1, <2>2, <2>3, <1>n, SameZones
<1>11. CASE DeleteZone
  <2>1. pass # Idle /\ pass.at # "tag"
    BY <1>11 DEF DeleteZone, Idle
  <2>2. /\ pass'.at \notin {"create", "tag"} /\ faults' \in {faults, faults + 1}
        /\ zones' = zones \/ zones' = Without(zones, {pass.view.id})
    BY <1>11, <2>1, <1>p, <1>n DEF DeleteZone
  <2>3. CASE zones' = zones
    BY <2>1, <2>2, <2>3, <1>n, <1>u, SameZones
  <2>4. CASE zones' = Without(zones, {pass.view.id})
    <3>1. /\ DOMAIN zones' = DOMAIN zones \ {pass.view.id}
          /\ Cardinality(DOMAIN zones') =
                 IF pass.view.id \in DOMAIN zones THEN Cardinality(DOMAIN zones) - 1
                                                  ELSE Cardinality(DOMAIN zones)
          /\ \A z \in DOMAIN zones' : zones'[z] = zones[z]
      BY <2>4, DropZone
    <3>2. Owned' = Owned \ {pass.view.id}
      BY <3>1 DEF Owned
    <3>3. Owned \subseteq DOMAIN zones
      BY DEF Owned
    <3>4. Owned' = {} => Cardinality(DOMAIN zones') <= faults
      <4>1. CASE Owned = {}
        BY <2>1, <3>1, <4>1, <1>n DEF Counted
      <4>2. CASE pass.view.id \in Owned
        BY <3>1, <3>3, <4>2, <1>n DEF Counted
      <4>3. QED
        BY <3>2, <4>1, <4>2
    <3>5. QED
      BY <2>2, <3>1, <3>2, <3>4, <1>n DEF Counted
  <2>5. QED
    BY <2>2, <2>3, <2>4
<1>12. QED
  BY <1>1, <1>2, <1>3, <1>4, <1>5, <1>6, <1>7, <1>8, <1>9, <1>10, <1>11
     DEF Next, Reconciling

-----------------------------------------------------------------------------
(* The record goes first. *)

\* The finalizer works with an object that stays as it is, and between the
\* record and the zone nobody sets a record.
LEMMA RecordFirstStep == Types /\ RecordFirst /\ [Next]_vars => RecordFirst'
<1> SUFFICES ASSUME Types, RecordFirst, [Next]_vars PROVE RecordFirst'
  OBVIOUS
<1> USE DEF To, Ends, NoFault, Fault, Outside
<1> DEFINE Order == \A i, j \in 1..Len(object) : i <= j => Frozen(object[i], object[j])
           Before == pass'.at \in Finalizing =>
                         pass'.view.deleting /\ Frozen(pass'.view, Cached(object'))
           Record == pass'.at \in {"purge", "delete"} /\ pass'.view.connect => record' = 0
<1>o. /\ Now \in Objects /\ Cached(object) \in Objects /\ object \in Feeds(Objects)
      /\ Len(object) \in Nat \ {0} /\ Now = object[Len(object)]
      /\ Cached(object) = object[1]
  BY ObjectTypes DEF Types
<1>p. pass # Idle => \A at \in Stages : /\ [pass EXCEPT !.at = at].at = at
                                        /\ [pass EXCEPT !.at = at].view = pass.view
  BY PassTypes
<1>i. Idle.at \notin Finalizing /\ Order
  BY DEF Idle, Finalizing, RecordFirst
<1>q. Order' /\ Before /\ Record => RecordFirst'
  BY DEF RecordFirst
<1>r. \A o \in Objects : Frozen(Now, o) /\ object' = Publish(object, o) =>
          Order' /\ Cached(object') = Cached(object)
  BY WriteKeepsOrder
<1>s. object' = object => Order' /\ Cached(object') = Cached(object)
  BY <1>i
<1> HIDE DEF Order, Before, Record
<1>1. ASSUME Order', Cached(object') = Cached(object), pass' = pass, record' = record
      PROVE  RecordFirst'
  BY <1>1, <1>q DEF RecordFirst, Before, Record
<1>2. ASSUME Order', pass'.at \notin Finalizing
      PROVE  RecordFirst'
  BY <1>2, <1>q DEF Before, Record, Finalizing
<1>3. CASE Connect
  <2>1. [Now EXCEPT !.connect = ~@] \in Objects /\ ~Now.deleting
    BY <1>3, <1>o DEF Connect, Objects
  <2>2. Order' /\ Cached(object') = Cached(object)
    BY <1>3, <2>1, <1>r DEF Connect, Frozen
  <2>3. QED
    BY <1>3, <2>2, <1>1 DEF Connect
<1>4. CASE DeleteObject
  <2>1. /\ [Now EXCEPT !.deleting = TRUE] \in Objects
        /\ [Now EXCEPT !.exists = FALSE] \in Objects /\ ~Now.deleting
    BY <1>4, <1>o DEF DeleteObject, Objects
  <2>2. Order' /\ Cached(object') = Cached(object)
    BY <1>4, <2>1, <1>r DEF DeleteObject, Frozen
  <2>3. QED
    BY <1>4, <2>2, <1>1 DEF DeleteObject
<1>5. CASE (\E z \in DOMAIN zones : Fill(z)) \/ MinutePasses \/ UNCHANGED vars
  BY <1>5, <1>s, <1>1 DEF Fill, MinutePasses, vars
<1>6. CASE Deliver
  <2>1. /\ Cached(object') = object[2] /\ Len(object) > 1 /\ Len(object') = Len(object) - 1
        /\ \A i \in 1..(Len(object) - 1) : object'[i] = object[i + 1]
        /\ pass' = pass /\ record' = record
    BY <1>6, <1>o, DeliverFeed DEF Deliver
  <2>2. Frozen(object[1], object[2])
    BY <2>1, <1>o, <1>i DEF Order
  <2>3. Order'
    BY <2>1, <1>o, <1>i DEF Order
  <2>4. Before
    BY <2>1, <2>2, <1>o DEF RecordFirst, Before, Frozen
  <2>5. Record
    BY <2>1 DEF RecordFirst, Record
  <2>6. QED
    BY <2>3, <2>4, <2>5, <1>q
<1>7. CASE Restart
  <2>1. Len(object') = 1 /\ pass' = Idle
    BY <1>7, <1>o, RefreshFeed DEF Restart
  <2>2. Order'
    BY <2>1 DEF Order, Frozen
  <2>3. QED
    BY <2>1, <2>2, <1>2, <1>i
<1>8. CASE BeginPass
  <2> DEFINE o == Cached(object)
  <2>1. /\ [o EXCEPT !.held = TRUE] \in Objects
        /\ [o EXCEPT !.held = TRUE].deleting = o.deleting
        /\ [o EXCEPT !.held = TRUE].connect = o.connect
    BY <1>o DEF Objects
  <2>2. Order' /\ Cached(object') = o
    <3>1. CASE o.held
      BY <1>8, <3>1, <1>o, <1>r DEF BeginPass, Frozen
    <3>2. CASE ~o.held
      <4>1. o = Now /\ object' = Publish(object, [o EXCEPT !.held = TRUE])
        BY <1>8, <3>2 DEF BeginPass
      <4>2. Frozen(Now, [o EXCEPT !.held = TRUE])
        BY <4>1, <2>1 DEF Frozen
      <4>3. QED
        BY <4>1, <4>2, <2>1, <1>r
    <3>3. QED
      BY <3>1, <3>2
  <2>3. /\ pass'.at = IF o.deleting THEN "get" ELSE "find"
        /\ pass'.view = [o EXCEPT !.held = TRUE]
    BY <1>8 DEF BeginPass
  <2> HIDE DEF o
  <2>4. Before
    BY <2>1, <2>2, <2>3 DEF Before, Frozen, Finalizing
  <2>5. Record
    BY <2>3 DEF Record
  <2>6. QED
    BY <2>2, <2>4, <2>5, <1>q
<1>9. CASE FindZone \/ CreateZone \/ Tag \/ Upsert
  <2>1. pass # Idle /\ object' = object
    BY <1>9 DEF FindZone, CreateZone, Tag, Upsert, Idle
  <2>2. pass'.at \in {"create", "tag", "status", "connect"}
    BY <1>9, <2>1, PassTypes DEF FindZone, CreateZone, Tag, Upsert, AfterFind
  <2>3. QED
    BY <2>1, <2>2, <1>s, <1>2 DEF Finalizing
<1>10. CASE WriteStatus \/ RemoveFinalizer
  <2>1. pass # Idle /\ pass' = Idle
    BY <1>10 DEF WriteStatus, RemoveFinalizer, Idle
  <2>2. /\ [Now EXCEPT !.id = pass.zone] \in Objects
        /\ Frozen(Now, [Now EXCEPT !.id = pass.zone])
        /\ [Now EXCEPT !.exists = FALSE] \in Objects
        /\ Frozen(Now, [Now EXCEPT !.exists = FALSE])
    BY <2>1, <1>o, PassTypes DEF Objects, Frozen
  <2>3. Order'
    BY <1>10, <2>2, <1>r, <1>s DEF WriteStatus, RemoveFinalizer
  <2>4. QED
    BY <2>1, <2>3, <1>2, <1>i
<1>11. CASE Get \/ Disconnect \/ Purge \/ DeleteZone
  <2>1. /\ pass # Idle /\ object' = object /\ pass.at \in Finalizing
        /\ "disconnect" \in Stages /\ "purge" \in Stages
        /\ "delete" \in Stages /\ "done" \in Stages
    BY <1>11 DEF Get, Disconnect, Purge, DeleteZone, Idle, Finalizing, Stages
  <2>2. CASE pass' = Idle
    BY <2>1, <2>2, <1>s, <1>i, <1>2
  <2>3. CASE pass' # Idle
    <3>1. pass'.view = pass.view
      BY <1>11, <2>1, <2>3, <1>p DEF Get, Disconnect, Purge, DeleteZone
    <3>2. Before
      BY <2>1, <3>1 DEF Before, RecordFirst
    <3>3. Record
      <4>1. CASE Get
        BY <4>1, <2>1, <2>3, <1>p DEF Get, Record
      <4>2. CASE Disconnect
        BY <4>2, <2>1, <2>3, <3>1 DEF Disconnect, Disconnects, Record
      <4>3. CASE Purge
        BY <4>3, <2>1, <3>1 DEF Purge, Record, RecordFirst
      <4>4. CASE DeleteZone
        BY <4>4, <2>1, <3>1 DEF DeleteZone, Record, RecordFirst
      <4>5. QED
        BY <1>11, <4>1, <4>2, <4>3, <4>4
    <3>4. QED
      BY <2>1, <3>2, <3>3, <1>s, <1>q
  <2>4. QED
    BY <2>2, <2>3
<1>12. QED
  BY <1>3, <1>4, <1>5, <1>6, <1>7, <1>8, <1>9, <1>10, <1>11 DEF Next, Reconciling

-----------------------------------------------------------------------------
(* The theorems. *)

\* The invariant of every behaviour.
LEMMA Invariant == Spec => []IInv
<1>1. IInv /\ [Next]_vars => IInv'
  BY TypesStep, CountedStep, RecordFirstStep DEF IInv
<1>2. QED
  BY <1>1, InitIInv, PTL DEF Spec

\* However many edits, failures and restarts there are, the controller owns at
\* most one zone of the name, and has left at most one more for each fault.
THEOREM ZonesAreCounted == Spec => []NoSpareZones
<1>1. IInv => NoSpareZones
  <2> SUFFICES ASSUME IInv PROVE NoSpareZones
    OBVIOUS
  <2>1. Cardinality(Owned) \in {0, 1} /\ Cardinality(DOMAIN zones) <= faults + 1
    BY OwnedFacts DEF IInv, Counted
  <2>2. QED
    BY <2>1 DEF NoSpareZones
<1>2. QED
  BY <1>1, Invariant, PTL

\* Only DeleteZone takes a zone away, and when the object is a connected one
\* the finalizer has taken the record out before.
THEOREM RecordGoesFirst == Spec => NoDanglingDelegation
<1>1. IInv /\ [Next]_vars =>
          [\A z \in DOMAIN zones \ DOMAIN zones' :
              Now.connect => record # z]_vars
  <2> SUFFICES ASSUME IInv, [Next]_vars, NEW z \in DOMAIN zones \ DOMAIN zones',
                      Now.connect
               PROVE  record # z
    OBVIOUS
  <2>1. z # 0 /\ zones' # zones /\ zones \in [DOMAIN zones -> Zone] /\ Types
    BY DEF IInv, Types
  <2>2. CASE DeleteZone
    <3>1. pass.at = "delete"
      BY <2>2 DEF DeleteZone
    <3>2. pass.view.connect
      <4>1. Frozen(pass.view, Cached(object)) /\ pass.view.deleting
        BY <3>1 DEF IInv, RecordFirst, Finalizing
      <4>2. Frozen(Cached(object), Now)
        BY ObjectTypes DEF IInv, RecordFirst
      <4>3. QED
        BY <4>1, <4>2 DEF Frozen
    <3>3. record = 0
      BY <3>1, <3>2 DEF IInv, RecordFirst
    <3>4. QED
      BY <2>1, <3>3
  <2>3. CASE CreateZone
    <3>1. zones' = Put(zones, NewZone, [owned |-> FALSE, full |-> FALSE])
      BY <2>1, <2>3 DEF CreateZone
    <3>2. QED
      BY <3>1 DEF Put
  <2>4. CASE Tag \/ Purge \/ \E y \in DOMAIN zones : Fill(y)
    <3>1. DOMAIN zones' = DOMAIN zones
      BY <2>1, <2>4 DEF Tag, Purge, Fill
    <3>2. QED
      BY <3>1
  <2>5. CASE \/ Connect \/ DeleteObject \/ MinutePasses \/ Deliver \/ Restart
             \/ BeginPass \/ FindZone \/ Upsert \/ WriteStatus \/ Get \/ Disconnect
             \/ RemoveFinalizer \/ UNCHANGED vars
    BY <2>1, <2>5 DEF Connect, DeleteObject, MinutePasses, Deliver, Restart, BeginPass,
       FindZone, Upsert, WriteStatus, Get, Disconnect, RemoveFinalizer, vars
  <2>6. QED
    BY <2>2, <2>3, <2>4, <2>5 DEF Next, Reconciling
<1>2. QED
  BY <1>1, Invariant, PTL DEF Spec, NoDanglingDelegation
=============================================================================
