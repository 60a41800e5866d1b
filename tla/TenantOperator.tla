--------------------------- MODULE TenantOperator ---------------------------
(***************************************************************************)
(* A live tenant under the operator: the Tenant controller, which turns    *)
(* the stream into ResourceSets and orphans into deletions and commits     *)
(* what the blueprint asks for next, and the ResourceSet controller, which *)
(* applies the resources of the active set.                                *)
(*                                                                         *)
(* One process runs both controllers, each with one worker.  It reads      *)
(* chunks and ResourceSets through informer caches; the resources          *)
(* themselves are read and written without a cache.  What the next commit  *)
(* holds depends on them: a parameter can take its value from the status   *)
(* of a resource that the tenant has got before.                           *)
(***************************************************************************)
EXTENDS TenantEvents, InformerCache, ResourceGenerator

CONSTANTS
    Blueprints,             \* [prefix, groups], what the resources are made from
    Templates,              \* the ResourceTemplates, by name
    Reporting,              \* kinds whose controller reports an id in the status
    Reports,                \* ids it can report
    MaxTenantResourceSets,  \* the operator's flag
    MaxChanges,             \* bound: changes of the blueprint
    MaxFaults               \* bound: failed API calls and restarts

ASSUME FlagAssumption == MaxTenantResourceSets \in Nat \ {0}

ASSUME BoundsAssumption == MaxChanges \in Nat /\ MaxFaults \in Nat

ASSUME GroupsAssumption == \A b \in Blueprints : b.groups \in Seq(ToSet(b.groups))

ASSUME TemplatesAssumption ==
    \A t \in DOMAIN Templates :
        /\ Templates[t].raw \in Seq(ToSet(Templates[t].raw))
        /\ Templates[t].resources \in Seq(ToSet(Templates[t].resources))

VARIABLES
    blueprint,
    chunks,   \* feed of the stored stream, as what it replays to
    sets,     \* feed of the ResourceSets, by number
    live,     \* the sums of the resources in the cluster, by id
    status,   \* the ids that are reported in their status, by id
    pass,     \* the pass of the Tenant controller
    worker,   \* the pass of the ResourceSet controller
    newest,   \* history: the newest set a resource was applied from
    changes,  \* how often the blueprint has changed
    faults    \* how many faults there were

vars == <<blueprint, chunks, sets, live, status, pass, worker, newest, changes, faults>>

-----------------------------------------------------------------------------
Idle == [at |-> "idle", view |-> EmptyStream, todo |-> << >>]
NoWork == [set |-> 0, todo |-> << >>, ids |-> {}]

Fault == faults < MaxFaults /\ faults' = faults + 1
NoFault == UNCHANGED faults

\* The set that is kept no longer: of more sets than the flag allows, the
\* first by name, and of the sets that were ever made.
Oldest(view) ==
    IF Len(view.sets.sets) > MaxTenantResourceSets THEN {1} ELSE {}

\* The order in which ReconcileResourceSet writes the others.  Its sort moves
\* each inactive set to the front, one after the other, so that they come out
\* newest first.  ActiveFirst: the sort the other way round.  MissingOnly:
\* a set that exists is not written again.
Kept(view) == DOMAIN view.sets.sets \ Oldest(view)
Before(view, m, n) ==
    /\ ~view.sets.sets[m].active
    /\ view.sets.sets[n].active \/ m > n
InOrder(S, Precedes(_, _)) ==
    CHOOSE q \in [1..Cardinality(S) -> S] :
        \A i, j \in DOMAIN q : i < j => Precedes(q[i], q[j])
ActiveFirst(view) == InOrder(Kept(view), LAMBDA m, n : Before(view, n, m))
MissingOnly(view) == InOrder(Kept(view) \ DOMAIN Cached(sets), LAMBDA m, n : m < n)
ActiveLast(view) == InOrder(Kept(view), LAMBDA m, n : Before(view, m, n))

-----------------------------------------------------------------------------
Init ==
    /\ blueprint \in Blueprints
    /\ chunks = <<EmptyStream>>
    /\ sets = << << >> >>
    /\ live = << >>
    /\ status = << >>
    /\ pass = Idle
    /\ worker = NoWork
    /\ newest = 0
    /\ changes = 0
    /\ faults = 0

\* The blueprint is edited, or a template it names.
Change ==
    /\ changes < MaxChanges
    /\ \E b \in Blueprints \ {blueprint} : blueprint' = b
    /\ changes' = changes + 1
    /\ UNCHANGED <<chunks, sets, live, status, pass, worker, newest, faults>>

DeliverChunk ==
    /\ Len(chunks) > 1
    /\ chunks' = Tail(chunks)
    /\ UNCHANGED <<blueprint, sets, live, status, pass, worker, newest, changes, faults>>

DeliverSet ==
    /\ Len(sets) > 1
    /\ sets' = Tail(sets)
    /\ UNCHANGED <<blueprint, chunks, live, status, pass, worker, newest, changes, faults>>

\* The process starts again with fresh caches; what it was doing is lost.
StartsAgain ==
    /\ chunks' = Refreshed(chunks)
    /\ sets' = Refreshed(sets)
    /\ pass' = Idle
    /\ worker' = NoWork
    /\ UNCHANGED <<blueprint, live, status, newest, changes>>

Restart == Fault /\ StartsAgain

-----------------------------------------------------------------------------
(* The Tenant controller. *)

\* Reconcile loads the stream once; every step works on what it got.  An
\* empty stream goes straight to the creation of the tenant.
BeginPass ==
    LET view == Cached(chunks)
    IN  /\ pass.at = "idle"
        /\ pass' = [at |-> IF view.agg.created THEN "sets" ELSE "save",
                    view |-> view, todo |-> ActiveLast(view)]
        /\ UNCHANGED <<blueprint, chunks, sets, live, status, worker, newest, changes, faults>>

\* ReconcileResourceSet creates or updates the next set.  It ends with an
\* error if two sets of the view are active, which no view is
\* (OnlyCurrentIsActive of TenantAggregate).
WriteSet ==
    /\ pass.at = "sets" /\ pass.todo # << >>
    /\ LET n    == Head(pass.todo)
           want == pass.view.sets.sets[n]
       IN  /\ UpToDate(sets, n)
           /\ sets' = Publish(sets, Put(Stored(sets), n,
                          [active |-> want.active, resources |-> want.resources,
                           deleting |-> n \in DOMAIN Stored(sets) /\ Stored(sets)[n].deleting]))
    /\ pass' = [pass EXCEPT !.todo = Tail(@)]
    /\ NoFault
    /\ UNCHANGED <<blueprint, chunks, live, status, worker, newest, changes>>

\* It returns with the first error; the pass goes on with the orphans.
FailSets ==
    /\ pass.at = "sets"
    /\ IF pass.todo # << >> /\ ~UpToDate(sets, Head(pass.todo)) THEN NoFault ELSE Fault
    /\ pass' = [pass EXCEPT !.at = "orphans", !.todo = << >>]
    /\ UNCHANGED <<blueprint, chunks, sets, live, status, worker, newest, changes>>

\* It deletes the oldest set, if it finds it inactive.  DropsAny: the check
\* is left out.
DropsAny(set) == TRUE
Drops(set) == ~set.active

DeleteOld ==
    /\ pass.at = "sets" /\ pass.todo = << >>
    /\ LET gone == {n \in Oldest(pass.view) \cap DOMAIN Cached(sets) :
                       Drops(Cached(sets)[n])}
       IN  sets' = Publish(sets, [n \in DOMAIN Stored(sets) |->
                       [Stored(sets)[n] EXCEPT !.deleting = @ \/ n \in gone]])
    /\ pass' = [pass EXCEPT !.at = "orphans"]
    /\ UNCHANGED <<blueprint, chunks, live, status, worker, newest, changes, faults>>

\* ReconcileOrphanedResources deletes what the stream has ever removed; an
\* error is logged and the next one is tried.
DeleteOrphans ==
    /\ pass.at = "orphans"
    /\ \E tried \in SUBSET pass.view.orphans.deleted :
          /\ IF tried = pass.view.orphans.deleted THEN NoFault ELSE Fault
          /\ live' = Without(live, tried)
          /\ status' = Without(status, tried)
    /\ pass' = [pass EXCEPT !.at = "save"]
    /\ UNCHANGED <<blueprint, chunks, sets, worker, newest, changes>>

\* What the generator makes of the blueprint when it reads the cluster, of
\* whose statuses it sees those of seen.
Kind(id) == id[1]
Cluster(seen) ==
    [id \in DOMAIN live |-> [path \in {"status.id"} \cap
        (IF id \in seen \cap DOMAIN status THEN {"status.id"} ELSE {}) |-> status[id]]]
Outcome(seen) ==
    Generate(blueprint, [tenant |-> blueprint.prefix, templates |-> Templates,
                         cluster |-> Cluster(seen)])

\* The pass ends with the generation of the resources and Save, which the
\* event store accepts from the whole stream only.
Decide(view, seen) ==
    IF view.agg.created
    THEN GenerateResources(SetBlueprint(Load(view), blueprint.prefix), Outcome(seen))
    ELSE SetBlueprint(Create(Load(view)), blueprint.prefix)

\* AcceptsAny: a name that is taken is written over.
AcceptsAny(view) == TRUE
Accepts(view) == view = Stored(chunks)

\* A lookup can fail, and the controller of a looked up resource clears its
\* id for a while when a call of its own fails (AfterFind of HostedZone).
Save ==
    /\ pass.at = "save"
    /\ \E seen \in {DOMAIN status, {}} :
          LET events == Decide(pass.view, seen).events
          IN  /\ IF seen = DOMAIN status THEN NoFault ELSE Fault
              /\ chunks' = IF events # << >> /\ Accepts(pass.view)
                           THEN Publish(chunks, Replay(pass.view, events))
                           ELSE chunks
    /\ pass' = Idle
    /\ UNCHANGED <<blueprint, sets, live, status, worker, newest, changes>>

LoseSave ==
    /\ pass.at = "save"
    /\ Fault
    /\ pass' = Idle
    /\ UNCHANGED <<blueprint, chunks, sets, live, status, worker, newest, changes>>

-----------------------------------------------------------------------------
(* The ResourceSet controller. *)

\* Reconcile reads a set from the cache; the resources of an inactive one
\* are skipped.  AnySet: they are applied all the same.
AnySet(set) == TRUE
Applies(set) == set.active

StartSet(n) ==
    /\ worker = NoWork
    /\ n \in DOMAIN Cached(sets)
    /\ Applies(Cached(sets)[n]) /\ ~Cached(sets)[n].deleting
    /\ LET rs == Cached(sets)[n].resources
       IN  worker' = [set |-> n, todo |-> rs, ids |-> Ids(rs)]
    /\ UNCHANGED <<blueprint, chunks, sets, live, status, pass, newest, changes, faults>>

\* applyResource; after an error the loop goes on with the next resource.
ApplyNext ==
    /\ worker.todo # << >>
    /\ LET r == Head(worker.todo)
       IN  \/ /\ live' = Put(live, r.id, r.sum)
              /\ newest' = IF worker.set > newest THEN worker.set ELSE newest
              /\ NoFault
           \/ /\ Fault
              /\ UNCHANGED <<live, newest>>
    /\ worker' = [worker EXCEPT !.todo = Tail(@)]
    /\ UNCHANGED <<blueprint, chunks, sets, status, pass, changes>>

\* reconcileStatus looks each resource up (checkResourceReady).  DynamicGet
\* returns nil for one that is not there, which is dereferenced: the panic
\* takes the process down, and the Tenant controller with it.
EndSet ==
    /\ worker.set # 0 /\ worker.todo = << >>
    /\ worker.ids \subseteq DOMAIN live
    /\ worker' = NoWork
    /\ UNCHANGED <<blueprint, chunks, sets, live, status, pass, newest, changes, faults>>

Panic ==
    /\ worker.set # 0 /\ worker.todo = << >>
    /\ ~(worker.ids \subseteq DOMAIN live)
    /\ StartsAgain
    /\ NoFault

\* The finalizer of an inactive set has nothing to clean up.
FinalizeSet(n) ==
    /\ worker = NoWork
    /\ n \in DOMAIN Cached(sets)
    /\ Cached(sets)[n].deleting /\ ~Cached(sets)[n].active
    /\ UpToDate(sets, n)
    /\ sets' = Publish(sets, Without(Stored(sets), {n}))
    /\ UNCHANGED <<blueprint, chunks, live, status, pass, worker, newest, changes, faults>>

\* The controller of an applied resource reports its id, which is another
\* one when the resource has been made anew.
Report ==
    /\ \E id \in DOMAIN live \ DOMAIN status, v \in Reports :
          /\ Kind(id) \in Reporting
          /\ status' = Put(status, id, v)
    /\ UNCHANGED <<blueprint, chunks, sets, live, pass, worker, newest, changes, faults>>

Reconciling == BeginPass \/ WriteSet \/ FailSets \/ DeleteOld \/ DeleteOrphans
Saving == Save \/ LoseSave
Applying == ApplyNext \/ EndSet \/ Panic \/ \E n \in DOMAIN Cached(sets) : StartSet(n)
Finalizing == \E n \in DOMAIN Cached(sets) : FinalizeSet(n)
Informers == DeliverChunk \/ DeliverSet

Next ==
    Change \/ Restart \/ Informers \/ Reconciling \/ Saving \/ Applying
    \/ Finalizing \/ Report

\* The informers deliver, and each controller goes on while it can: a pass is
\* followed by another one at the latest after the reconcile interval.  The
\* end of a pass is told by pass alone, which saves TLC the commit.
EndsPass == pass.at = "save" /\ pass' = Idle
Fairness ==
    /\ WF_vars(DeliverChunk) /\ WF_vars(DeliverSet)
    /\ WF_vars(Reconciling) /\ WF_pass(EndsPass)
    /\ WF_vars(Applying) /\ WF_vars(Report)

Spec == Init /\ [][Next]_vars
FairSpec == Spec /\ Fairness

-----------------------------------------------------------------------------
(* Properties. *)

Active == {n \in DOMAIN Stored(sets) : Stored(sets)[n].active}

\* The controllers' variables have their types, and a set is numbered by the
\* stream it was made from.
TypeOK ==
    /\ blueprint \in Blueprints
    /\ chunks # << >> /\ sets # << >>
    /\ DOMAIN Stored(sets) \subseteq DOMAIN Stored(chunks).sets.sets
    /\ pass.at \in {"idle", "sets", "orphans", "save"}
    /\ worker.set \in 0..Len(Stored(chunks).sets.sets)
    /\ DOMAIN status \subseteq DOMAIN live
    /\ changes \in 0..MaxChanges /\ faults \in 0..MaxFaults

\* "There should only ever be a single active ResourceSet per tenant"
\* (resourceset_types.go:44).
OneActiveSet == Cardinality(Active) <= 1

\* That is so through half-done updates of the sets, conflicts, restarts and
\* stale caches, with one exception: a set that is still active when it
\* falls out of the sets that are kept is neither deactivated nor deleted.
Abandoned == Active \cap Oldest(Stored(chunks))
OneActiveUnlessAbandoned == Abandoned = {} => OneActiveSet

\* Once a resource has been applied from a set, none is applied from an
\* older one: a superseded set cannot undo its successor.
NoRollback == Abandoned = {} => worker.set = 0 \/ worker.set >= newest

\* A set that is dropped is inactive in the cluster, not only in the cache,
\* so that its finalizer deletes no resource of the tenant.
DroppedSetsAreInactive ==
    \A n \in DOMAIN Stored(sets) : Stored(sets)[n].deleting => n \notin Active

\* "DynamicGet returns an unstructured object given a namespaced name"
\* (client.go:131), and its caller counts on it: when the resources of a set
\* have been applied, each of them is there to be looked up.
LookupsFind ==
    worker.set # 0 /\ worker.todo = << >> => worker.ids \subseteq DOMAIN live

\* "The maximum number of resourcesets kept for each tenant" (main.go:98).
KeptSets == {n \in DOMAIN Stored(sets) : ~Stored(sets)[n].deleting}
KeepsAtMostMax == <>[](Cardinality(KeptSets) <= MaxTenantResourceSets)

\* The operator comes to rest in the state that the blueprint asks for: the
\* stream holds what the last run brought out (or what was there, when it
\* brought out nothing), and the cluster holds exactly these resources.
\* (An abandoned set that is still active goes on being applied.)
Settled ==
    LET rs    == Stored(chunks).agg.resources
        now   == Outcome(DOMAIN status)
        asked == Generated(now, blueprint.prefix)
    IN  /\ Useless(now) \/ ToSet(rs) = ToSet(asked)
        /\ DOMAIN live = Ids(rs)
        /\ \A i \in DOMAIN rs : live[rs[i].id] = rs[i].sum
Converges == <>[](Abandoned = {} => Settled)

\* The stream comes to rest with it: once values, templates and the blueprint
\* stop changing, no pass has anything to commit.
StreamComesToRest == <>[](Decide(Stored(chunks), DOMAIN status).events = << >>)

\* A group that cannot be made takes no other group with it: while the
\* blueprint stays, no resource of a group that does not depend on the state
\* of the cluster is ever deleted.
LooksUp(g) ==
    \E i \in DOMAIN g.parameters :
        \E j \in DOMAIN g.parameters[i].valueFrom : g.parameters[i].valueFrom[j].resource # << >>
Steady ==
    Ids(Generate([blueprint EXCEPT !.groups = SelectSeq(@, LAMBDA g : ~LooksUp(g))],
                 [tenant |-> blueprint.prefix, templates |-> Templates,
                  cluster |-> << >>]).resources)
FailuresStayInTheirGroup ==
    [][changes = 0 => Steady \cap DOMAIN live \subseteq DOMAIN live']_vars
=============================================================================
