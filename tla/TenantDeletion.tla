--------------------------- MODULE TenantDeletion ---------------------------
(***************************************************************************)
(* The end of a tenant: its finalizer, which deletes the resources that no *)
(* set has any more, seals the stream and deletes the ResourceSets that it *)
(* names and then the stream itself, and the finalizers of the sets, which *)
(* clean up the resources of those that are active.                        *)
(*                                                                         *)
(* The finalizer runs pass by pass from what the caches show.  It starts   *)
(* from what the passes over the live tenant (TenantOperator) can leave:   *)
(* sets half written, superseded, dropped or abandoned, resources of all   *)
(* of them, and caches that lag behind.                                    *)
(***************************************************************************)
EXTENDS InformerCache, FiniteSets

CONSTANTS
    MaxSets,    \* bound: ResourceSets named in the stream
    Resources,  \* the resources of the ResourceSets, in their order
    Contents,   \* those that each ResourceSet has
    Passing,    \* those whose kind is not always served by the cluster
    MaxLag,     \* bound: readings of the sets, from the cached to the stored one
    MaxFaults   \* bound: failed API calls and restarts

ASSUME MaxSetsAssumption == MaxSets \in Nat
ASSUME MaxLagAssumption == MaxLag \in Nat
ASSUME ResourcesAssumption == Resources \in Seq(ToSet(Resources))
ASSUME ContentsAssumption == Contents \in [1..MaxSets -> SUBSET DOMAIN Resources]
ASSUME PassingAssumption == Passing \subseteq DOMAIN Resources

VARIABLES
    gone,       \* is the finalizer of the tenant removed?
    chunks,     \* feed of the stored chunks, by version
    sets,       \* feed of the ResourceSets, by number
    resources,  \* the resources in the cluster
    served,     \* those whose kind the cluster serves
    mapper,     \* those whose kind the process knows, once it has asked
    pass,       \* the pass of the Tenant controller
    worker,     \* the pass of the ResourceSet controller
    missed,     \* history: the ways in which a set or a chunk was missed
    taken,      \* history: has the stream lost a chunk?
    faults      \* how many faults there were

kinds == <<served, mapper>>
vars == <<gone, chunks, sets, resources, kinds, pass, worker, missed, taken, faults>>

-----------------------------------------------------------------------------
(* Streams, as the finalizer reads them. *)

\* The tenant is created with the first chunk and set n with chunk n + 1.
Created(v) == [makes |-> {v - 1} \ {0}, seals |-> FALSE]
Seal == [makes |-> {}, seals |-> TRUE]
Line(top) == [v \in 1..top |-> Created(v)]

\* The events of the view, DeleteEventHandler.On.
Sealed(view) == \E v \in DOMAIN view : view[v].seals
AllMade(view) == UNION {view[v].makes : v \in DOMAIN view}
\* LastNamed: the current set; a handler that kept one name only would have it.
LastNamed(view) == IF AllMade(view) = {} THEN {} ELSE {Max(AllMade(view))}
Named(view) == AllMade(view)
SetNumbers == 1..MaxSets

Ascending(S) ==
    LET N == Cardinality(S)
    IN  CHOOSE s \in [1..N -> S] : \A i, j \in 1..N : i < j => s[i] < s[j]
Descending(S) == Reverse(Ascending(S))

\* A pass over an empty stream removes the finalizer.  DoneWhenSealed: so
\* does one over a stream that says that the tenant is deleted.
DoneWhenSealed(view) == DOMAIN view = {} \/ Sealed(view)
NothingLeft(view) == DOMAIN view = {}

\* The resources that the stream has had and has no more: those of the sets
\* before the current one, which the stream names last.
ResourcesOf(N) == UNION {Contents[n] : n \in N}
Orphans(view) == ResourcesOf(Named(view)) \ ResourcesOf(LastNamed(view))

-----------------------------------------------------------------------------
(* The states a live tenant leaves. *)

Set(active, held) ==
    [active |-> active, held |-> held, deleting |-> FALSE, terminating |-> FALSE]

\* The oldest set is dropped when there are too many of them, unless it is
\* still active: then it stays so.
Dropped == [Set(FALSE, TRUE) EXCEPT !.deleting = TRUE]
Active(table) == {n \in DOMAIN table : table[n].active}

\* What ReconcileResourceSet makes of the sets when the latest stream that it
\* has seen names those up to newest: it writes the inactive ones before the
\* newest, and only then drops the oldest.
LiveTables(newest) ==
    {t \in UNION {[D -> {Set(a, h) : a, h \in BOOLEAN} \cup {Dropped}] : D \in SUBSET (1..newest)} :
        /\ Cardinality(Active(t) \ {1}) <= 1
        /\ \A n \in DOMAIN t : t[n].deleting => n = 1 /\ DOMAIN t # {1}
        /\ newest \in DOMAIN t => newest \in Active(t) /\ Active(t) \subseteq {1, newest}}

\* Of two readings of them the later one: no set becomes active again, one
\* that is made active is newer than all others, and once the newest is there
\* no other one is made or deactivated.
Succeeds(t, s, newest) ==
    /\ DOMAIN s \ DOMAIN t \subseteq {1} \ Active(s)
    /\ DOMAIN s # {} => DOMAIN t # {}
    /\ \A n \in DOMAIN s \cap DOMAIN t :
          /\ t[n].active => s[n].active
          /\ s[n].held => t[n].held
          /\ s[n].deleting => t[n].deleting
    /\ \A n \in Active(t) \ DOMAIN s : \A m \in DOMAIN s : m < n
    /\ newest \in DOMAIN s =>
          DOMAIN t \subseteq DOMAIN s /\ Active(s) \subseteq Active(t)

\* The readings of the cache, which come one change at a time.
LiveFeeds(newest) ==
    {f \in UNION {[1..l -> LiveTables(newest)] : l \in 1..MaxLag} :
        /\ \A i, j \in DOMAIN f : i <= j => Succeeds(f[j], f[i], newest)
        /\ \A i \in DOMAIN f : i + 1 \in DOMAIN f =>
              /\ f[i] # f[i + 1]
              /\ \E n \in SetNumbers : Without(f[i], {n}) = Without(f[i + 1], {n})}

\* The resources that can have been applied: those of a set that has its
\* finalizer, and of any set before the last one that was made.
Applied(table) ==
    ResourcesOf({n \in SetNumbers : \E m \in DOMAIN table : n < m \/ (n = m /\ table[n].held)})

Idle == [at |-> "idle", view |-> << >>, ready |-> FALSE, todo |-> << >>, counted |-> 0]
NoWork == [set |-> 0, at |-> "idle", todo |-> << >>, clean |-> TRUE]

\* The ResourceSet controller can be in the middle of a set.
Applying(n, todo) == [set |-> n, at |-> "apply", todo |-> todo, clean |-> TRUE]

Init ==
    /\ \E top \in 1..(MaxSets + 1) : \E cached \in {top - 1, top} :
          /\ chunks = [i \in 1..(top - cached + 1) |-> Line(cached + i - 1)]
          /\ sets \in LiveFeeds(cached - 1)
          /\ missed = IF DOMAIN Stored(sets) # {} /\ top - 1 \notin DOMAIN Stored(sets)
                      THEN {"unborn"} ELSE {}
    /\ resources \in [DOMAIN Resources -> {"absent", "live", "terminating"}]
    /\ \A i \in DOMAIN Resources : resources[i] # "absent" => i \in Applied(Stored(sets))
    /\ worker \in {NoWork} \cup UNION {{Applying(n, todo) : todo \in Suffixes(Ascending(Contents[n]))} :
                      n \in {m \in DOMAIN Stored(sets) : Stored(sets)[m].held}}
    /\ served = DOMAIN Resources
    /\ mapper = <<DOMAIN Resources>>
    /\ gone = FALSE
    /\ pass = Idle
    /\ taken = FALSE
    /\ faults = 0

Fault == faults < MaxFaults /\ faults' = faults + 1
NoFault == UNCHANGED faults

DeliverChunk ==
    /\ Len(chunks) > 1
    /\ chunks' = Tail(chunks)
    /\ UNCHANGED <<kinds, gone, sets, resources, pass, worker, missed, taken, faults>>

DeliverSet ==
    /\ Len(sets) > 1
    /\ sets' = Tail(sets)
    /\ UNCHANGED <<kinds, gone, chunks, resources, pass, worker, missed, taken, faults>>

StartsAgain ==
    /\ chunks' = Refreshed(chunks)
    /\ sets' = Refreshed(sets)
    /\ pass' = Idle
    /\ worker' = NoWork
    /\ mapper' = << >>
    /\ UNCHANGED <<gone, resources, served, missed, taken>>

Restart == Fault /\ StartsAgain

\* A resource that is being deleted disappears in the end.
Vanish(i) ==
    /\ resources[i] = "terminating"
    /\ resources' = [resources EXCEPT ![i] = "absent"]
    /\ UNCHANGED <<kinds, gone, chunks, sets, pass, worker, missed, taken, faults>>

\* A custom resource definition is removed, with all its resources, or
\* installed again.
Withdraw(i) ==
    /\ i \in served
    /\ served' = served \ {i}
    /\ resources' = [resources EXCEPT ![i] = "absent"]
    /\ UNCHANGED <<gone, chunks, sets, mapper, pass, worker, missed, taken, faults>>

Restore(i) ==
    /\ i \notin served
    /\ served' = served \cup {i}
    /\ UNCHANGED <<gone, chunks, sets, resources, mapper, pass, worker, missed, taken, faults>>

\* RESTMapping: the mapper asks the cluster once for the kinds it serves, and
\* the process never has it ask again.
Asked == IF mapper = << >> THEN <<served>> ELSE mapper
Maps(i) == i \in Asked[1]

-----------------------------------------------------------------------------
(* The Tenant controller: the finalizer of the tenant. *)

\* The handler loads the stream; ReconcileStatus asks the cache whether the
\* current set is ready, which one that is being terminated is not.
Ready(view) ==
    LET current == Max(Named(view))
    IN  /\ Named(view) # {} /\ current \in DOMAIN Cached(sets)
        /\ ~Cached(sets)[current].terminating

BeginPass ==
    LET view == Cached(chunks)
    IN  /\ ~gone /\ pass.at = "idle"
        /\ IF NothingLeft(view)
           THEN /\ gone' = TRUE /\ pass' = pass
                /\ missed' = IF view = << >> /\ ~taken THEN missed \cup {"unseen"} ELSE missed
           ELSE /\ gone' = FALSE /\ missed' = missed
                /\ \E ready \in {FALSE, Ready(view)} :
                      pass' = [at |-> "orphans", view |-> view, ready |-> ready,
                               todo |-> Ascending(Named(view)), counted |-> 0]
        /\ UNCHANGED <<kinds, chunks, sets, resources, worker, taken, faults>>

\* ReconcileOrphanedResources deletes them again in each pass.  A deletion
\* that fails, or whose kind is unknown, is logged, and the pass goes on.
DeleteOrphans ==
    /\ pass.at = "orphans"
    /\ mapper' = IF Orphans(pass.view) = {} THEN mapper ELSE Asked
    /\ LET deleted == {i \in Orphans(pass.view) : Maps(i) /\ resources[i] = "live"}
       IN  \E failed \in SUBSET deleted :
              /\ IF failed = {} THEN NoFault ELSE Fault
              /\ resources' = [i \in DOMAIN Resources |->
                     IF i \in deleted \ failed THEN "terminating" ELSE resources[i]]
    /\ pass' = [pass EXCEPT !.at = IF Sealed(pass.view) THEN "sets" ELSE "seal"]
    /\ UNCHANGED <<gone, chunks, sets, served, worker, missed, taken>>

\* ReconcileDelete, for the next set that the stream names: a set that is
\* not in the cache counts as deleted, another one is deleted now.
\* CountAll: that counts as deleted, too.
CountAll(n) == 1
Count(n) == IF n \in DOMAIN Cached(sets) THEN 0 ELSE 1

\* A set without a finalizer is gone at once.
AfterDelete(all, n) ==
    IF n \notin DOMAIN all THEN all
    ELSE IF all[n].held THEN [all EXCEPT ![n].deleting = TRUE]
    ELSE Without(all, {n})

NewlyMissed(n) ==
    IF n \notin DOMAIN Stored(sets) THEN {}
    ELSE IF n \notin DOMAIN Cached(sets) THEN {"uncached"}
    ELSE IF Stored(sets)[n].active /\ ~Stored(sets)[n].held THEN {"unheld"} ELSE {}

DeleteSet ==
    /\ pass.at = "sets" /\ pass.todo # << >>
    /\ LET n == Head(pass.todo)
       IN  /\ pass' = [pass EXCEPT !.todo = Tail(@), !.counted = @ + Count(n)]
           /\ \/ /\ sets' = IF n \in DOMAIN Cached(sets)
                            THEN Publish(sets, AfterDelete(Stored(sets), n)) ELSE sets
                 /\ missed' = missed \cup NewlyMissed(n)
                 /\ NoFault
              \/ /\ n \in DOMAIN Cached(sets)
                 /\ Fault
                 /\ UNCHANGED <<sets, missed>>
    /\ UNCHANGED <<kinds, gone, chunks, resources, worker, taken>>

\* With all of them counted the stream is deleted, else the pass goes on.
\* What became of the orphans is not asked.
EndSets ==
    /\ pass.at = "sets" /\ pass.todo = << >>
    /\ IF pass.counted = Cardinality(Named(pass.view))
       THEN /\ pass' = [pass EXCEPT !.at = "chunks", !.todo = Descending(DOMAIN pass.view)]
            /\ missed' = IF \E i \in Orphans(pass.view) : resources[i] = "live"
                         THEN missed \cup {"orphaned"} ELSE missed
       ELSE pass' = [pass EXCEPT !.at = "seal"] /\ missed' = missed
    /\ UNCHANGED <<kinds, gone, chunks, sets, resources, worker, taken, faults>>

\* Repository.Delete, chunk by chunk; the first error ends it.
DeleteChunk ==
    /\ pass.at = "chunks" /\ pass.todo # << >>
    /\ \/ /\ chunks' = Publish(chunks, Without(Stored(chunks), {Head(pass.todo)}))
          /\ taken' = TRUE
          /\ pass' = [pass EXCEPT !.todo = Tail(@)]
          /\ NoFault
       \/ /\ Fault
          /\ pass' = [pass EXCEPT !.at = "seal"]
          /\ UNCHANGED <<chunks, taken>>
    /\ UNCHANGED <<kinds, gone, sets, resources, worker, missed>>

\* The finalizer is removed by a pass whose results are all done.
EndChunks ==
    /\ pass.at = "chunks" /\ pass.todo = << >>
    /\ IF pass.ready THEN gone' = TRUE /\ pass' = Idle
                     ELSE gone' = FALSE /\ pass' = [pass EXCEPT !.at = "seal"]
    /\ UNCHANGED <<kinds, chunks, sets, resources, worker, missed, taken, faults>>

\* TenantAggregate.Delete and Repository.Save: the version that follows the
\* view is created, unless the name is taken or there is no news.
SaveSeal ==
    /\ pass.at = "seal"
    /\ LET next == Max(DOMAIN pass.view) + 1
       IN  \/ /\ chunks' = IF Sealed(pass.view) \/ next \in DOMAIN Stored(chunks)
                           THEN chunks
                           ELSE Publish(chunks, Put(Stored(chunks), next, Seal))
              /\ NoFault
           \/ /\ ~Sealed(pass.view)
              /\ Fault
              /\ UNCHANGED chunks
    /\ pass' = Idle
    /\ UNCHANGED <<kinds, gone, sets, resources, worker, missed, taken>>

-----------------------------------------------------------------------------
(* The ResourceSet controller. *)

\* Reconcile of a set that is not being deleted: its finalizer is ensured
\* before a resource is applied, and an error of that ends the pass.
StartSet(n) ==
    /\ worker = NoWork
    /\ n \in DOMAIN Cached(sets) /\ ~Cached(sets)[n].deleting
    /\ LET set == Cached(sets)[n]
       IN  /\ set.active \/ ~set.held
           /\ set.held \/ UpToDate(sets, n)
           /\ sets' = IF set.held THEN sets
                      ELSE Publish(sets, [Stored(sets) EXCEPT ![n].held = TRUE])
           /\ worker' = IF set.active
                        THEN Applying(n, Ascending(Contents[n])) ELSE worker
    /\ UNCHANGED <<kinds, gone, chunks, resources, pass, missed, taken, faults>>

\* An apply cannot bring back a resource that is being deleted, and one of
\* a kind that is unknown or not served is an error.
ApplyNext ==
    /\ worker.at = "apply" /\ worker.todo # << >>
    /\ mapper' = Asked
    /\ LET i == Head(worker.todo)
       IN  \/ /\ Maps(i) /\ i \in served
              /\ resources' = [resources EXCEPT ![i] = IF @ = "absent" THEN "live" ELSE @]
              /\ NoFault
           \/ /\ IF Maps(i) /\ i \in served THEN Fault ELSE NoFault
              /\ UNCHANGED resources
    /\ worker' = [worker EXCEPT !.todo = Tail(@)]
    /\ UNCHANGED <<gone, chunks, sets, served, pass, missed, taken>>

\* reconcileStatus looks each of them up and panics when one of a known kind
\* is not there.
Missing(i) == Maps(i) /\ resources[i] = "absent"

EndSet ==
    /\ worker.at = "apply" /\ worker.todo = << >>
    /\ \A i \in Contents[worker.set] : ~Missing(i)
    /\ worker' = NoWork
    /\ UNCHANGED <<kinds, gone, chunks, sets, resources, pass, missed, taken, faults>>

Panic ==
    /\ worker.at = "apply" /\ worker.todo = << >>
    /\ \E i \in Contents[worker.set] : Missing(i)
    /\ StartsAgain
    /\ NoFault

\* AnyPhase: the phase of the set is not looked at.
AnyPhase(set) == TRUE
Terminating(set) == set.terminating

\* The finalizer of a set: nothing to do for an inactive one; an active one
\* is marked as terminating before its resources are deleted.
StartFinalizer(n) ==
    /\ worker = NoWork
    /\ n \in DOMAIN Cached(sets)
    /\ LET set == Cached(sets)[n]
       IN  /\ set.deleting
           /\ \/ /\ ~set.active /\ UpToDate(sets, n)
                 /\ sets' = Publish(sets, Without(Stored(sets), {n}))
                 /\ UNCHANGED worker
              \/ /\ set.active /\ ~Terminating(set) /\ UpToDate(sets, n)
                 /\ sets' = Publish(sets, [Stored(sets) EXCEPT ![n].terminating = TRUE])
                 /\ UNCHANGED worker
              \/ /\ set.active /\ Terminating(set)
                 /\ worker' = [set |-> n, at |-> "clean", clean |-> TRUE,
                               todo |-> Descending(Contents[n])]
                 /\ UNCHANGED sets
    /\ UNCHANGED <<kinds, gone, chunks, resources, pass, missed, taken, faults>>

\* reconcileDelete, for the next resource: it is deleted and looked up
\* again, and only one that is no longer there is done.  Unconfirmed: the
\* deletion was accepted.
Unconfirmed(state) == TRUE
Confirmed(state) == state = "absent"

CleanNext ==
    /\ worker.at = "clean" /\ worker.todo # << >>
    /\ mapper' = Asked
    /\ LET i == Head(worker.todo)
       IN  \E state \in {"absent", "terminating", resources[i]} :
              /\ resources[i] = "absent" \/ ~Maps(i) => state = resources[i]
              /\ IF Maps(i) /\ state = "live" THEN Fault ELSE NoFault
              /\ resources' = [resources EXCEPT ![i] = state]
              /\ worker' = [worker EXCEPT !.todo = Tail(@),
                               !.clean = @ /\ Maps(i) /\ state # "live" /\ Confirmed(state)]
    /\ UNCHANGED <<gone, chunks, sets, served, pass, missed, taken>>

\* One result that is not done keeps the finalizer.
EndClean ==
    /\ worker.at = "clean" /\ worker.todo = << >>
    /\ sets' = IF worker.clean /\ UpToDate(sets, worker.set)
               THEN Publish(sets, Without(Stored(sets), {worker.set})) ELSE sets
    /\ worker' = NoWork
    /\ UNCHANGED <<kinds, gone, chunks, resources, pass, missed, taken, faults>>

Finalizing ==
    BeginPass \/ DeleteOrphans \/ DeleteSet \/ EndSets \/ DeleteChunk \/ EndChunks \/ SaveSeal
Working == ApplyNext \/ EndSet \/ Panic \/ CleanNext \/ EndClean

Next ==
    \/ DeliverChunk \/ DeliverSet \/ Restart
    \/ \E i \in DOMAIN Resources : Vanish(i)
    \/ \E i \in Passing : Withdraw(i) \/ Restore(i)
    \/ Finalizing \/ Working
    \/ \E n \in SetNumbers : StartSet(n) \/ StartFinalizer(n)

\* The informers deliver, both controllers go on, their queues are fair to
\* every set, and what is being deleted disappears in the end.
Fairness ==
    /\ WF_vars(DeliverChunk) /\ WF_vars(DeliverSet)
    /\ WF_vars(Finalizing) /\ WF_vars(Working)
    /\ \A n \in SetNumbers : SF_vars(StartFinalizer(n))
    /\ \A i \in DOMAIN Resources : WF_vars(Vanish(i))

Spec == Init /\ [][Next]_vars
FairSpec == Spec /\ Fairness

-----------------------------------------------------------------------------
(* Properties. *)

ActiveSets == Active(Stored(sets))
NoResources == \A i \in DOMAIN resources : resources[i] = "absent"

\* The controllers' variables have their types; a finalizer works for a set
\* that is marked for it (or gone already, which its cache has yet to show).
TypeOK ==
    /\ gone \in BOOLEAN /\ taken \in BOOLEAN
    /\ DOMAIN Stored(sets) \subseteq SetNumbers
    /\ resources \in [DOMAIN Resources -> {"absent", "live", "terminating"}]
    /\ served \cup Passing = DOMAIN Resources
    /\ pass.at \in {"idle", "orphans", "sets", "chunks", "seal"}
    /\ pass.counted \in 0..Cardinality(Named(pass.view))
    /\ worker.at = "clean" /\ worker.set \in DOMAIN Stored(sets) =>
           /\ Stored(sets)[worker.set].deleting /\ Stored(sets)[worker.set].terminating
    /\ missed \subseteq {"unborn", "unheld", "uncached", "unseen", "orphaned"}

\* No chunk of the stream, which alone knows the names of the ResourceSets,
\* is deleted while one of them exists, unless that one was created but not
\* yet in the cache.
SetsGoBeforeTheStream ==
    "uncached" \notin missed /\ (taken \/ gone) => DOMAIN Stored(sets) = {}

\* The last active set of a tenant goes after the resources: they are
\* confirmed to be gone, except for the orphans, which the stream knows of,
\* and when that goes, too, the orphans are being deleted.  No apply of an
\* older reading brings one back.
ResourcesGoBeforeTheSet ==
    missed = {} /\ ActiveSets = {} =>
        \A i \in DOMAIN resources :
            \/ resources[i] = "absent"
            \/ ~taken /\ i \in Orphans(Stored(chunks))
            \/ taken /\ resources[i] = "terminating"

\* When the tenant is gone, nothing is left of its stream, or else chunks
\* that say that it was deleted: a pass over a half-deleted stream may seal
\* it once more.  (A tenant deleted before its first chunk is in the cache
\* leaves that one.)
OnlySealsAreLeft ==
    gone /\ "unseen" \notin missed =>
        \A v \in DOMAIN Stored(chunks) : Stored(chunks)[v].seals

\* The tenant goes away in the end, and unless one of the ways to miss a set
\* or a resource was taken, with it all its ResourceSets and their resources;
\* provided that the kinds of all of them are served again, that the process
\* has not asked for the kinds while one was not, and that it does not panic
\* for ever, which interrupts the passes.
CleanedUp == DOMAIN Stored(sets) = {} /\ NoResources
KindsAreKnown == served = DOMAIN Resources /\ mapper \in {<< >>, <<served>>}
Completes ==
    <>[]KindsAreKnown /\ <>[][~Panic]_vars => <>[](gone /\ (missed = {} => CleanedUp))
=============================================================================
