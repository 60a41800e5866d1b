---------------------------- MODULE TenantEvents ----------------------------
(***************************************************************************)
(* The events of a tenant: the aggregate that raises them and the          *)
(* projections that are replayed from them.                                *)
(*                                                                         *)
(* A stream is represented by what can be replayed from it, the record     *)
(* [agg, sets, orphans, requeue]; Replay extends it by a commit.  Every    *)
(* reader in the code replays the stream from its first event and keeps    *)
(* nothing between two passes.                                             *)
(***************************************************************************)
EXTENDS Naturals, Sequences, SequencesExt

\* What a run of the resource generator returns: whether it met an error,
\* whether any resource group came out, and the resources in their order.
\* Generated gives each of them the labels of the tenant, so that its sum
\* covers both, and its position as its order.
Generated(o, label) ==
    [i \in DOMAIN o.resources |->
        [id |-> o.resources[i].id, order |-> i,
         sum |-> <<o.resources[i].body, label>>]]

\* The sum over a result is as good as the resources it is computed from;
\* NoSum is the aggregate's before the first run.
NoSum == [none |-> TRUE]
Sum(rs) == [of |-> rs]
NoLabel == "unlabelled"

Ids(rs) == {rs[i].id : i \in DOMAIN rs}

\* ResourceList.Find and ResourceList.Remove; 0 is the code's index -1.
Find(rs, id) == SelectInSeq(rs, LAMBDA r : r.id = id)
RemoveFrom(rs, i) == IF i = 0 THEN rs ELSE RemoveAt(rs, i)

-----------------------------------------------------------------------------
(* The aggregate's state, State.On. *)

NewTenant ==
    [created |-> FALSE, label |-> NoLabel, failed |-> FALSE, sum |-> NoSum,
     version |-> 0, name |-> 0, resources |-> << >>, active |-> {},
     deleted |-> FALSE]

\* The list of resources after an event, as the aggregate and the projection
\* of the ResourceSets both keep it.
OnResources(rs, e) ==
    CASE e.type = "ResourceAdded"   -> Append(rs, e.resource)
      [] e.type = "ResourceUpdated" -> ReplaceAt(rs, Find(rs, e.resource.id), e.resource)
      [] e.type = "ResourceRemoved" -> RemoveFrom(rs, Find(rs, e.id))

ResourceEvents == {"ResourceAdded", "ResourceUpdated", "ResourceRemoved"}

On(s, e) ==
    CASE e.type = "TenantCreated"  -> [s EXCEPT !.created = TRUE]
      [] e.type = "LabelsChanged"  -> [s EXCEPT !.label = e.label]
      [] e.type = "GenerationFailed" ->
            [s EXCEPT !.failed = TRUE, !.sum = e.sum]
      [] e.type = "GenerationSuccessful" ->
            [s EXCEPT !.failed = FALSE, !.sum = e.sum]
      [] e.type = "ResourceSetVersionChanged" -> [s EXCEPT !.version = e.version]
      [] e.type = "ResourceSetCreated" -> [s EXCEPT !.name = e.name]
      [] e.type \in ResourceEvents ->
            [s EXCEPT !.resources = OnResources(@, e)]
      [] e.type = "ResourceSetActivated"   -> [s EXCEPT !.active = @ \cup {e.name}]
      [] e.type = "ResourceSetDeactivated" -> [s EXCEPT !.active = @ \ {e.name}]
      [] e.type = "TenantDeleted" -> [s EXCEPT !.deleted = TRUE]

-----------------------------------------------------------------------------
(* The projections. *)

\* The ResourceSets, ResourceSetEventHandler.On: numbered like their names.
\* A new set starts as a copy of the current one, its being active included.
NoSets == [current |-> 0, label |-> NoLabel, sets |-> << >>]

Current(p) == p.sets[p.current]
SetCopy(p) == IF p.current \in DOMAIN p.sets THEN Current(p)
              ELSE [label |-> NoLabel, active |-> FALSE, resources |-> << >>]

\* BlankSet: a new set that starts without resources.
BlankSet(p) == [SetCopy(p) EXCEPT !.resources = << >>, !.label = p.label]
NewResourceSet(p) == [SetCopy(p) EXCEPT !.label = p.label]

\* The sets a resource event is about.  SharedSets: the sets that list the
\* resource, as if the copies shared their resources.
SharedSets(p, e) ==
    {p.current} \cup {n \in DOMAIN p.sets :
        e.type = "ResourceUpdated" /\ e.resource.id \in Ids(p.sets[n].resources)}
AffectedSets(p, e) == {p.current}

\* The handler ends with a sort of each list by order.  sort.Slice inserts
\* up to twelve elements one by one, behind their equals.
Insert(rs, r) ==
    InsertAt(rs, Cardinality({i \in DOMAIN rs : rs[i].order <= r.order}) + 1, r)
\* Unsorted: the sort is left out.
Unsorted(rs) == rs
ByOrder(rs) == FoldLeft(Insert, << >>, rs)

OnSets(p, e) ==
    CASE e.type = "LabelsChanged" -> [p EXCEPT !.label = e.label]
      [] e.type = "ResourceSetCreated" ->
            [p EXCEPT !.current = e.name, !.sets = Append(@, NewResourceSet(p))]
      [] e.type \in ResourceEvents /\ p.current \in DOMAIN p.sets ->
            [p EXCEPT !.sets = [n \in DOMAIN p.sets |->
                IF n \in AffectedSets(p, e)
                THEN [p.sets[n] EXCEPT !.resources = ByOrder(OnResources(@, e))]
                ELSE p.sets[n]]]
      [] e.type = "ResourceSetActivated" /\ e.name \in DOMAIN p.sets ->
            [p EXCEPT !.sets[e.name].active = TRUE]
      [] e.type = "ResourceSetDeactivated" /\ e.name \in DOMAIN p.sets ->
            [p EXCEPT !.sets[e.name].active = FALSE]
      [] OTHER -> p

\* The resources that were removed, OrphanedResourceEventHandler.On.
\* DeleteAllowed follows the events and is read by nobody.
NoOrphans == [active |-> {}, deleted |-> {}, deleteAllowed |-> FALSE]

\* ForgetfulOnOrphans: a resource that is added again stays an orphan.
ForgetfulOnOrphans(p, e) ==
    CASE e.type = "ResourceAdded" -> [p EXCEPT !.active = @ \cup {e.resource.id}]
      [] e.type = "ResourceRemoved" /\ e.id \in p.active ->
            [p EXCEPT !.active = @ \ {e.id}, !.deleted = @ \cup {e.id}]
      [] OTHER -> p
OnOrphans(p, e) ==
    CASE e.type = "ResourceAdded" ->
            [p EXCEPT !.active = @ \cup {e.resource.id}, !.deleted = @ \ {e.resource.id}]
      [] e.type = "ResourceRemoved" /\ e.id \in p.active ->
            [p EXCEPT !.active = @ \ {e.id}, !.deleted = @ \cup {e.id}]
      [] e.type = "GenerationFailed" -> [p EXCEPT !.deleteAllowed = FALSE]
      [] e.type = "GenerationSuccessful" -> [p EXCEPT !.deleteAllowed = TRUE]
      [] OTHER -> p

\* Is the next pass asked for?  RequeueRequestEventHandler.On.
OnRequeue(p, e) ==
    CASE e.type = "GenerationFailed"     -> TRUE
      [] e.type = "GenerationSuccessful" -> FALSE
      [] OTHER -> p

EmptyStream ==
    [agg |-> NewTenant, sets |-> NoSets, orphans |-> NoOrphans, requeue |-> FALSE]

Replay(stream, events) ==
    [agg     |-> FoldLeft(On, stream.agg, events),
     sets    |-> FoldLeft(OnSets, stream.sets, events),
     orphans |-> FoldLeft(OnOrphans, stream.orphans, events),
     requeue |-> FoldLeft(OnRequeue, stream.requeue, events)]

-----------------------------------------------------------------------------
(* The commands.  A session is the aggregate in memory with the events it *)
(* has raised; each of them acts on the state at once.                     *)

Load(stream) == [state |-> stream.agg, events |-> << >>]

Apply(a, e) == [state |-> On(a.state, e), events |-> Append(a.events, e)]
ApplyIf(cond, a, e) == IF cond THEN Apply(a, e) ELSE a

Create(a) == Apply(a, [type |-> "TenantCreated"])

\* SetFullName and SetBlueprint: everything the resources are made from.
SetBlueprint(a, label) ==
    ApplyIf(a.state.label # label, a, [type |-> "LabelsChanged", label |-> label])

Delete(a) == ApplyIf(~a.state.deleted, a, [type |-> "TenantDeleted"])

\* The outcome of the run, as far as it is news.
RecordOutcome(a, o, rs) ==
    ApplyIf(a.state.failed # o.failed \/ a.state.sum # Sum(rs), a,
            [type |-> IF o.failed THEN "GenerationFailed" ELSE "GenerationSuccessful",
             sum |-> Sum(rs)])

NewVersion(a) ==
    LET b == Apply(a, [type |-> "ResourceSetVersionChanged",
                       version |-> a.state.version + 1])
    IN  Apply(b, [type |-> "ResourceSetCreated", name |-> b.state.version])

\* The first loop of GenerateResources, for one generated resource.
\* UpdateAlways, AddAlways: the comparison, or the search, is left out.
UpdateAlways(a, r) ==
    Apply(a, [type |-> IF Find(a.state.resources, r.id) = 0
                       THEN "ResourceAdded" ELSE "ResourceUpdated", resource |-> r])
AddAlways(a, r) ==
    ApplyIf(\A i \in DOMAIN a.state.resources : a.state.resources[i] # r, a,
            [type |-> "ResourceAdded", resource |-> r])
AddOrUpdate(a, r) ==
    LET i == Find(a.state.resources, r.id)
    IN  IF i = 0 THEN Apply(a, [type |-> "ResourceAdded", resource |-> r])
        ELSE ApplyIf(a.state.resources[i] # r, a,
                     [type |-> "ResourceUpdated", resource |-> r])

\* The second loop ranges over the slice that it shrinks: a removal shifts
\* the elements behind it in the array the loop reads, whose length the loop
\* has fixed.  The element after a removed one is passed over, and what is
\* left behind at the end is read again.
Shift(array, rs) == rs \o SubSeq(array, Len(rs) + 1, Len(array))

RemoveNext(wanted, acc, i) ==
    IF acc.array[i].id \in wanted THEN acc
    ELSE LET a == Apply(acc.a, [type |-> "ResourceRemoved", id |-> acc.array[i].id])
         IN  [a |-> a, array |-> Shift(acc.array, a.state.resources)]

\* StopAtFirst: the loop ends with the first resource it removes.
StopAtFirst(a, wanted) ==
    LET old == {i \in DOMAIN a.state.resources : a.state.resources[i].id \notin wanted}
    IN  IF old = {} THEN a
        ELSE Apply(a, [type |-> "ResourceRemoved",
                       id |-> a.state.resources[CHOOSE i \in old : \A j \in old : i <= j].id])
RemoveUnwanted(a, wanted) ==
    FoldLeftDomain(LAMBDA acc, i : RemoveNext(wanted, acc, i),
                   [a |-> a, array |-> a.state.resources], a.state.resources).a

\* The current set takes over from the others.  KeepOthers: the set it
\* replaces stays active.
KeepOthers(a) ==
    ApplyIf(a.state.name \notin a.state.active, a,
            [type |-> "ResourceSetActivated", name |-> a.state.name])
ActivateCurrent(a) ==
    LET others == SetToSeq(a.state.active \ {a.state.name})
        off    == [i \in DOMAIN others |->
                      [type |-> "ResourceSetDeactivated", name |-> others[i]]]
        b      == FoldLeft(Apply, a, off)
    IN  ApplyIf(b.state.name \notin b.state.active, b,
                [type |-> "ResourceSetActivated", name |-> b.state.name])

\* A run that brings out no group at all ends here: what was generated
\* before stays.
Useless(o) == o.failed /\ ~o.groups

GenerateResources(a, o) ==
    LET rs      == Generated(o, a.state.label)
        changed == a.state.sum # Sum(rs)
        b == RecordOutcome(a, o, rs)
        c == IF changed THEN NewVersion(b) ELSE b
        d == FoldLeft(AddOrUpdate, c, rs)
        e == RemoveUnwanted(d, Ids(rs))
    IN  IF Useless(o) THEN b ELSE ActivateCurrent(e)
=============================================================================
