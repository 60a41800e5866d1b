-------------------------- MODULE TenantAggregate ---------------------------
(***************************************************************************)
(* The life of one tenant's stream, pass by pass: what the Tenant          *)
(* controller commits to it and what its projections become.               *)
(*                                                                         *)
(* A pass acts on the whole stream, because the event store accepts a      *)
(* commit only from a process that has loaded the whole stream             *)
(* (SavesAreInformed of EventStore); a pass whose commit is refused or     *)
(* lost leaves the stream as it is and does not appear here.               *)
(***************************************************************************)
EXTENDS TenantEvents, ResourceGenerator

CONSTANTS
    Labels,         \* prefixed names and labels a tenant can have
    Blueprints,     \* [groups], what the resources are made from
    Templates,      \* the ResourceTemplates, by name
    Clusters,       \* the live resources a run can find
    References,     \* [kind, field, of, path], what takes its value from what
    MaxSetVersion   \* bound: ResourceSets made for a tenant

ASSUME BoundAssumption == MaxSetVersion \in Nat

ASSUME GroupsAssumption == \A b \in Blueprints : b.groups \in Seq(ToSet(b.groups))

ASSUME TemplatesAssumption ==
    \A t \in DOMAIN Templates :
        /\ Templates[t].raw \in Seq(ToSet(Templates[t].raw))
        /\ Templates[t].resources \in Seq(ToSet(Templates[t].resources))

VARIABLES
    stream,  \* what the stored stream replays to
    last,    \* history: the input of the last pass
    quiet,   \* history: did the last pass raise no event?
    ever     \* history: the resources the tenant has ever had

vars == <<stream, last, quiet, ever>>

NoInput == [label |-> NoLabel,
            outcome |-> [failed |-> FALSE, groups |-> FALSE, resources |-> << >>]]

\* What a pass finds in the cluster is up to the moment.
Outcomes ==
    [label \in Labels |->
        {Generate(b, [tenant |-> label, templates |-> Templates, cluster |-> cluster]) :
            b \in Blueprints, cluster \in Clusters}]

agg     == stream.agg
sets    == stream.sets.sets
wanted  == Generated(last.outcome, last.label)

Init ==
    /\ stream = EmptyStream
    /\ last = NoInput
    /\ quiet = FALSE
    /\ ever = {}

\* Repository.Save of the session a.
Commit(a) ==
    /\ stream' = Replay(stream, a.events)
    /\ quiet' = (a.events = << >>)
    /\ ever' = ever \cup {a.events[i].resource.id :
                          i \in {j \in DOMAIN a.events : a.events[j].type = "ResourceAdded"}}

\* A pass over an empty stream, tenant_controller.go:130-146.
CreateTenant(label) ==
    /\ ~agg.created
    /\ Commit(SetBlueprint(Create(Load(stream)), label))
    /\ UNCHANGED last

\* A pass over a stream with events, tenant_controller.go:147-173.
Pass(label, o) ==
    LET a == GenerateResources(SetBlueprint(Load(stream), label), o)
    IN  /\ agg.created /\ ~agg.deleted
        /\ a.state.version <= MaxSetVersion
        /\ Commit(a)
        /\ last' = [label |-> label, outcome |-> o]

\* The finalizer of a deleted tenant, tenant_controller.go:93-103.
DeleteTenant ==
    /\ agg.created
    /\ Commit(Delete(Load(stream)))
    /\ UNCHANGED last

Next ==
    \/ \E label \in Labels : CreateTenant(label)
    \/ \E label \in Labels : \E o \in Outcomes[label] : Pass(label, o)
    \/ DeleteTenant

Spec == Init /\ [][Next]_vars

-----------------------------------------------------------------------------
(* Properties. *)

Applied == IF sets = << >> THEN << >> ELSE sets[agg.name].resources
HasPassed == last # NoInput
Complete(o) == ~Useless(o)

\* Resources that the last pass did not ask for and that are still there.
Stale(rs) == Ids(rs) \ Ids(wanted)

\* The state of the aggregate has its types, its sets are numbered from 1
\* and a resource is listed once.
TypeOK ==
    /\ agg.label \in Labels \cup {NoLabel}
    /\ agg.name \in 0..MaxSetVersion
    /\ agg.name = agg.version
    /\ agg.name = Len(sets) /\ agg.name = stream.sets.current
    /\ Cardinality(Ids(agg.resources)) = Len(agg.resources)
    /\ agg.active \subseteq 0..MaxSetVersion
    /\ quiet \in BOOLEAN

\* What the operator applies is what the aggregate decided: the current
\* ResourceSet holds exactly the aggregate's resources, across new versions
\* (which start as a copy), updates, removals and failed runs.
SetMatchesAggregate ==
    sets # << >> => ToSet(Applied) = ToSet(agg.resources)

\* A replay never yields two active sets (ReconcileResourceSet refuses to go
\* on if it does), and the active one is the current one.
OnlyCurrentIsActive ==
    {n \in DOMAIN sets : sets[n].active} = {agg.name} \ {0}

\* The orphans are the resources the tenant has had and has no more: nothing
\* that is wanted again is deleted, and nothing is left behind.
OrphansAreExact == stream.orphans.deleted = ever \ Ids(agg.resources)

\* A quiet pass means that the ResourceSet holds what the blueprint asks for
\* and in that order, unless the run brought out nothing: no pass ends in
\* silence with a stale resource or an update left to do.
QuietMeansInSync ==
    quiet /\ HasPassed /\ ~agg.deleted /\ Complete(last.outcome) =>
        Applied = wanted

\* The removal loop passes over elements, but each pass removes at least
\* every other stale resource.
StaleResourcesHalve ==
    [][~agg'.deleted /\ Complete(last'.outcome) =>
           2 * Cardinality(Ids(agg'.resources) \ Ids(wanted'))
               <= Cardinality(Ids(agg.resources) \ Ids(wanted'))]_vars

\* The pass is idempotent: when nothing stale was left and the blueprint names
\* no resource twice, a second pass with the same input raises no event, and
\* the stream does not grow while nothing changes.
Repeated == GenerateResources(SetBlueprint(Load(stream), last.label), last.outcome)
NoNewsNoEvents ==
    /\ HasPassed /\ ~agg.deleted
    /\ Stale(agg.resources) = {} /\ Cardinality(Ids(wanted)) = Len(wanted)
    => Repeated.events = << >>

\* A superseded ResourceSet keeps what it held when the next one was made;
\* only its activity may change, and only to inactive.
SupersededSetsAreKept ==
    [][\A n \in DOMAIN sets :
          n < agg'.name /\ n < agg.name =>
              sets'[n] = [sets[n] EXCEPT !.active = FALSE]]_vars

\* The labels of the current ResourceSet are the tenant's whenever the last
\* recorded run brought out a resource: a change of labels always makes a
\* new set.
LabelsReachTheSet ==
    sets # << >> /\ agg.sum # Sum(<< >>) => sets[agg.name].label = agg.label

\* A run can bring out a name twice.  The last resource of that name is the
\* one that is applied, in the set that this run made and in those of the
\* runs before it that asked for the same.
Lasting ==
    {wanted[i] : i \in {i \in DOMAIN wanted :
        \A j \in DOMAIN wanted : j > i => wanted[j].id # wanted[i].id}}
Asked == {r \in ToSet(Applied) : r.id \in Ids(wanted)}
LastOneCounts == Asked = Lasting

\* What a resource takes from another one is what that one has, in the set
\* that is applied as in what a run brings out (RunsAgree), whatever order the
\* groups come in.  Resources that are left over from earlier runs are exempt.
Agree(rs) ==
    \A ref \in References : \A r, s \in rs :
        r.id[1] = ref.kind /\ s.id[1] = ref.of
        => r.sum[1][ref.field] = s.sum[1][ref.path]
RunsAgree == Agree(Lasting)
ReferencesAgree == Agree(Asked)
=============================================================================
