# Verification of the aeto operator

aeto is a Kubernetes operator that turns a `Tenant` and a `Blueprint` into the
resources of that tenant. Its core is event-sourced: the decisions about a
tenant are a stream of events, stored as `EventStreamChunk` objects in the
cluster itself, and everything the operator does is replayed from that stream.
This directory holds TLA+ models of that core, of the SavingsPolicy controller
and of the controllers for AWS, their TLC configurations, and machine-checked
proofs about each of them: the event store, the life of a tenant's stream, a live tenant
under the operator, its deletion, the SavingsPolicy controller and the controllers for AWS.

- [Inventory](#inventory)
- [Modules](#modules)
- [Runs, what they show, and their bounds](#runs)
- [Fairness](#fairness)
- [Proofs](#proofs)
- [What the models disagree with](#disagreements)
- [Abstractions, and what is not modelled](#not-modelled)
- [Plan](#plan)

Paths are relative to the repository root.

## Inventory

All controllers run in one process (`main.go`), each with one worker. `Get` and
`List` of typed objects are answered by informer caches, which lag behind the
API server; the `Dynamic*` calls of `internal/pkg/kubernetes/client.go` go to
the API server. Leader election is off by default, so that two processes can
overlap during a rollout.

| Component | State it keeps | Operations | What makes it correct |
|---|---|---|---|
| Event sourcing kernel (`internal/pkg/eventsource`) | an aggregate in memory: uncommitted events, last sequence | load from history, apply, commit, replay | events are numbered without gap or repetition |
| Event store (`internal/pkg/eventstore`) | chunk objects, named by stream and version | Get, Save, Delete | a stream is a line of commits whatever the caches show; an interrupted deletion can be taken up again |
| Tenant aggregate (`internal/pkg/tenant/aggregate.go`) | replayed state: blueprint data, sum of the last run, resources, ResourceSets and which is active | Create, SetFullName, SetBlueprint, GenerateResources, Delete | quiet exactly when nothing is left to do; one current set; no resource listed twice |
| Projections (the `*Handler`s of `controllers/core`) | ResourceSets, orphans, a request to requeue, the events of a deletion | On(event) | they agree with the aggregate on the same stream |
| Resource generator (`internal/pkg/tenant`, `template`, `convert`) | none | Generate: groups in their order, parameters from the blueprint, from earlier groups, from the cluster | a group that fails takes no other with it; what one resource takes from another is what that one has; the loop through the cluster comes to rest |
| Tenant controller (`controllers/core/tenant_controller.go` and the reconcilers) | finalizer of the tenant | pass over a live tenant: write ResourceSets, drop an old one, delete orphans, commit; pass over a deleted one: delete sets, delete the stream, seal | cluster converges to what the blueprint asks for; nothing of a tenant outlives it |
| ResourceSet controller (`resourceset_controller.go`) | finalizer and phase of a set | apply resources, report readiness, clean up | a superseded set never undoes its successor; resources go before their set |
| Reconcile framework (`internal/pkg/reconcile`) | finalizers, results | ensure/remove a finalizer, combine results | a finalizer goes only when all results are done |
| SavingsPolicy controller (`controllers/sustainability`) | a secret with the replicas of sleeping deployments, annotations of the policy | pass, sleep, wake up, finalizer | what sleeps can be woken up, and wakes up when the policy goes |
| SavingsPolicy schedule (`savingspolicy_schedule.go`) | none | match day and time patterns against the clock | suspended exactly when an entry says so |
| HostedZone controller (`controllers/route53.aws`) | id in the status; zones, their tags and the delegating NS record in Route53 | find, create, tag, connect; disconnect, purge, delete | one zone for an object, found again and deleted with it; no delegation to a zone that is gone |
| Certificate controller (`controllers/acm.aws`) | ARN and readiness in the status; certificates in ACM, validation records in Route53 | find or request, validate, delete | what was requested is found again and deleted, once nothing uses it |
| CertificateConnector controller (`controllers/acm.aws`) | annotation of ingresses | select certificates and ingresses, list the certificates that are ready | ingresses list what is issued, keep it, and let go of what is deleted |
| Blueprint, ResourceTemplate, EventStreamChunk controllers | none | none (empty stubs) | - |

How they interact: the Tenant controller and the ResourceSet controller never
call each other. The first writes ResourceSet objects, the second reads them
through its cache; both write the tenant's resources (one applies, the other
deletes orphans); the stream is the only memory of the Tenant controller from
one pass to the next; and finalizers order their deletions. The generator reads
values from the very resources that the ResourceSet controller applies and the
AWS controllers report on: the certificate of a tenant can be generated only when
its hosted zone is live and has its id, so that a tenant comes up in several
rounds through the cluster. The SavingsPolicy
controller shares deployments with whoever scales them, and keeps its memory in
a secret. The Certificate and the CertificateConnector controller meet in the
status of certificates, which the one writes and the other reads, and in ACM,
which refuses to delete what an ingress still uses.

What is hard about that: decisions from stale caches, the order of several
writes of which any may fail, the interleaving of the two controllers on the
same resources, restarts between two writes, a deletion that starts in the
middle of a half-done pass, and the calendar at the edges of a week, a month and
a day. `PROJECT.json` lists these hazards at their lines, each with the
properties aimed at it.

## Modules

| Module | Models | Notes |
|---|---|---|
| `EventLog` | what the event store promises: an append-only log that is sealed, then taken down from its end | abstract specification |
| `EventStore` | Get, Save, Delete of `repository.go` for one stream and any number of processes | implements `EventLog` |
| `EventStore_proofs` | proofs about `EventStore` | |
| `ResourceGenerator` | from a blueprint, its templates and the live cluster to the resources of a tenant: pure operators, no state | used by `TenantAggregate` and `TenantOperator` |
| `TenantEvents` | the aggregate's commands and events, and what each handler makes of an event: pure operators, no state | used by `TenantAggregate` and `TenantOperator` |
| `TenantAggregate` | the life of one stream, a commit per step | what the projections become |
| `TenantAggregate_proofs` | proofs about `TenantAggregate` | |
| `InformerCache` | feeds: a cached state, the stored state, and what was between | external; used by the modules of the controllers |
| `TenantOperator` | Tenant and ResourceSet controllers over a live tenant, a write per step | composes `TenantEvents` and `ResourceGenerator` with `InformerCache` |
| `TenantOperator_proofs` | proofs about `TenantOperator` | |
| `TenantDeletion` | both controllers from the deletion of a tenant to its end | starts in the states of a live tenant |
| `TenantDeletion_proofs` | proofs about `TenantDeletion` | |
| `SavingsPolicy` | the SavingsPolicy controller, a write per step | |
| `SavingsSchedule` | `checkSchedule` against a running clock, and a reference definition of what a pattern says | |
| `Savings_proofs` | proofs about `SavingsPolicy` and `SavingsSchedule` | the two share no state |
| `HostedZone` | the HostedZone controller for one object, a call per step | Route53 external |
| `HostedZone_proofs` | proofs about `HostedZone` | |
| `Certificates` | the Certificate and CertificateConnector controllers, a call per step | ACM and the ALB ingress controller external |
| `Certificates_proofs` | proofs about `Certificates` | |
| `Lemmas` | lemmas about feeds, about the operators of `TenantEvents` and `ResourceGenerator`, and about a pass over any stream | used by all proofs but those of `EventStore` |
| `MC*` | instances for TLC | |

### EventStore

`feed` holds the chunk objects after every write; `cursor[w]` is how far the
informer of process `w` has got, so that `Get` returns an old but consistent
table. `told` are the processes whose cache of the Tenant shows its deletion
(`LearnDeletion`); a pass reads it first, and is a pass over a live tenant or of the
finalizer from then on. The two caches have nothing to do with each other.
A chunk is kept as the numbers of its events (`first`, `count`), its version (which is
in its name), whether it carries `TenantDeleted` (`kind = "seal"`), and the process
that made it (`by`, for the properties). `NewChunk`, `NextVersion` and `LastEventSequence` are
computed from the loaded stream only, as `LoadFromHistoricalEvents` and
`Commit` do; `NameFree` is the API server's refusal to create a name twice, the
only concurrency control there is. `DeleteChunk` is one round of the loop in
`Repository.Delete`. Two history variables state the properties: `dropped` (a
chunk was deleted) and `forked` (a write has broken the line of commits).

`MaySave` says who saves what: the branch for a live tenant saves data to whatever
it has loaded, and the finalizer `TenantDeleted`, to a stream that has not got it. Only
the latter looks at what the stream says of its deletion. So a process that still takes the tenant
for alive appends to the stream that another one has sealed: with two processes the seal is
not the end of a stream, and a deletion that begins with a later chunk can be
interrupted before it reaches the seal. One process does not do that to itself, for
the Tenant stays deleted in its cache once it has been seen so (`SealersKnow`, among the
proofs). What such a process saves
after the finalizer of the other one is done stays in the cluster: nobody deletes it.

The promise is conditional by nature: after the deletion of a stream has begun
the name of its next version is free again, and a process with an old cache can
write to it. That can only happen after the first deletion, which is what
`LinearLog`'s second half says.

### TenantEvents and TenantAggregate

A stream is represented by what it replays to, `[agg, sets, orphans, requeue]`,
and `Replay` folds a commit into all four handlers. `GenerateResources` follows
the code's order, including two peculiarities: a session's state changes with
each event it raises, so that a resource named twice is first added and then
updated; and the loop that removes resources ranges over the very slice the
removals shrink, so that it skips elements (`RemoveUnwanted` keeps the array
that the loop still reads). The sum of a generation is taken to be as good as
what it is computed from, and is compared rather than computed; the name of the blueprint,
which the code hashes with it, is left out: a tenant that moves to a blueprint of another
name that brings out the same would make a new set, in the model it does not.

`TenantAggregate` feeds the aggregate with what `Generate` brings out of any of its
blueprints and clusters, so that the outcomes of a run, partial failures included,
are those of the code and not a list drawn up for the model. `ReferencesAgree` looks at
what arrives in the applied set. `Lasting` are the resources of the last run that count:
of those with one id, the last.

### ResourceGenerator

`Generate` goes through the groups of a blueprint and passes over one that fails
(`AddGroup`); the groups that have come out are what later ones refer to, by name
(`Group`), by position in the group, and by path. A parameter has a value, a
reference (`Resolve`: to a group, or to the live cluster, with the placeholders for
the tenant's and the operator's namespace), or a default (`Value`). A text with
placeholders is a function from its fields to the parameters they name, so that
executing a template is the composition with the values. `Name`, `Namespace` and `Id`
follow the rules of the template; the version of the API is not part of an id.

### TenantOperator

`chunks` and `sets` are feeds. A pass loads the stream once (`BeginPass`) and
then writes set by set (`WriteSet`, `FailSets`), drops one (`DeleteOld`), deletes
orphans (`DeleteOrphans`), generates and saves (`Save`, `LoseSave`). `Save` relies
on what `EventStore` shows: a commit lands exactly when the loaded stream is the
stored one. The ResourceSet controller applies the resources of one active set,
one per step, and then looks each up. `StartsAgain` is a restart, which a fault or
the panic of a failed lookup causes.

The generator runs in the step that saves, over the cluster as it is then
(`Cluster`). `status` holds the ids that other controllers have reported in the
statuses of live resources (`Report`), any of `Reports` each time a resource is made anew;
a lookup that fails for a moment hides them, which removes the groups that depend
on them from the stream and later from the cluster. `Settled` is a state in which
this loop through the cluster is closed.

### TenantDeletion

A pass of the finalizer loads the stream (`BeginPass`), deletes the orphans
(`DeleteOrphans`: all of them, with any of the deletions failing, which is logged and
no more), then set by set what the stream names (`DeleteSet`), then the stream chunk by
chunk (`DeleteChunk`), and seals what it has loaded if that says nothing of a deletion
(`SaveSeal`). The ResourceSet controller goes on in between: it applies what it finds active and
runs the finalizers of the sets, which clean up the active ones only. `Contents`
are the resources of each set. The current set, which the stream names last, has
what the tenant has; the resources of the others are the orphans (`Orphans`).

`Init` spans the states in which a live tenant is deleted, as `TenantOperator`'s
passes leave them: any number of commits, with the last one possibly not in the cache
yet; the sets half written (`LiveTables`: a superseded set not deactivated yet, the
current one not created yet, the first one dropped, or abandoned while active), with
or without their own finalizers; the cache of the sets behind by one of the stretches that the
passes' order allows (`LiveFeeds`, `Succeeds`); each resource that a set can have had
applied absent, live or terminating, those of superseded sets included (`Applied`); and the
ResourceSet controller at rest or in the middle of a set.

`missed` records in which of five ways something escaped: a set that was to be
created next (`unborn`), a set deleted before its controller held it (`unheld`),
a set not in the cache yet (`uncached`), a first chunk not in the cache yet
(`unseen`), an orphan that was still live when the pass went on to the stream
(`orphaned`). Each of the five was seen by TLC to leave something behind when it was
taken out of the properties' conditions; the properties show that there is no
sixth.

`served` and `mapper` are the kinds that the API server serves and those that the
process knows. The client's REST mapper asks for the kinds when it first needs one
and keeps the answer until the process ends (`Asked`): a kind that is installed later
is an error for that process (`Maps`), and one that has been removed since a 404,
which reads as a resource that is gone. `Completes` is stated for what is left of
that: the kinds are served in the end, and the process has asked while they were. It
also supposes that the process does not panic for ever. A panic ends the pass of the
Tenant controller too, and one that comes after each restart (an orphan deleted between
the apply of the superseded set that has it and the lookup, again and again) would keep it from
its end; no fairness rules out that order.

### SavingsPolicy and SavingsSchedule

The policy, the secret and the deployments are three feeds, because three
informers deliver them. A pass reads all three, wakes up ignored deployments,
rewrites the secret, then scales deployment by deployment; every one of these
writes may fail. `hazards` records the three circumstances under which the code
loses track of a sleeping deployment (each of them confirmed by TLC): a pass over
caches that lag, a pass that ends between rewriting the secret and waking up, and
targets edited away. The two suspending annotations are one field, `suspend`.

`SavingsSchedule` counts the time of a day in slots. `Moment` is the code's
moment in January 1980; `Says` is what a pattern says in plain words.

### HostedZone

`zones` are the zones of that name in Route53, with the two things about each that
the code asks: does it carry the owner's tags, and does it hold records beyond its
own? The controller finds its zone by the tags (`Matched`); its finalizer goes by
the id in the status. `record` is the zone the NS record in the parent zone leads
to, and `recent` says that the caller reference of this minute has been used.
Every call may fail, or do its work and lose the reply. `tidy` remembers whether
an object was at rest when it was deleted, `AtRest`: the status names the only zone
there is. When it is not, the code does leave a zone behind, without a fault too:
an object deleted while its zone is being created never gets the id.

### Certificates

Here the tags come with the request, so that a certificate is never lost between
two calls; what can be lost is `arn`, which a failed lookup clears. `acm` follows a
certificate from `new` (no validation record named yet) over `pending` to
`issued`; `Panic` is what a deletion does while it is `new`. `served` is what the
load balancers have taken over from the annotations, which is what makes a
certificate "in use". A load balancer takes nothing of a list that names a
certificate that does not exist, so that a stale list would block it. An ingress
can be handed over (its annotation `aeto.net/controlled` removed) at any time and
taken back. Which certificates and ingresses a connector works on follows
`ListOptions` and `Match`: labels and a single namespace are matched by the API
server, several namespaces and the annotations by the controller. `Match` is content
with one of the annotations, though the field is documented as the required ones.

## Runs

Every run finishes within two or three minutes on two workers.

| Run | Question | Bounds, and why they are enough |
|---|---|---|
| `eventstore` | does a stream stay a line of commits under two processes, and is it the abstract log? | 2 processes, 3 versions, up to 2 events a commit, 6 writes: two saves racing for a version, data behind a seal, a sealed stream deleted to the end by one process while the other writes to it with an old cache. The proofs remove the bounds. |
| `aggregate` | do aggregate, sets, orphans and requeue agree after every sequence of commits? | 2 labels, 7 blueprints (bodies and order changed, a resource named twice, 4 resources so that the removal loop skips twice, groups that fail for a template, a parameter or a reference, all groups failing, none), clusters with and without the id that a certificate waits for, 3 sets. |
| `operator` | does the live system converge, through which intermediate states? | 3 blueprints (zone, certificate after the id of the live zone and page after its name; another zone alone; one that fails altogether), one change of them anywhere, either of 2 ids for the zone (which both blueprints have under one name, so that it is reported once and keeps its id: a zone that is made anew with another one is not in this instance), the flag at 2 sets so that sets are dropped, one fault or restart anywhere. |
| `deletion` | do sets, stream and resources of a deleted tenant go in order, with nothing missed but in the named ways? | up to 2 sets and 3 chunks before the deletion; 2 resources, of which the second set has one only, so that the other is an orphan; the cache of the sets behind by one change at most when the deletion begins, by any number later; the kind of the orphan withdrawn and restored any number of times; one fault or restart anywhere. 4.4 million states. |
| `deletion_ends` | does a deleted tenant end? | the same with one resource in each of 2 sets, so that the first set's is left to the deletion of the orphans; the cache of the sets is not behind when the deletion begins, but comes to be (this keeps the graph, on which liveness is checked, at 441 thousand states). |
| `savings` | is what sleeps always recorded, does it wake? | 2 deployments, 4 target lists (all, all but one, one by name, none), 2 outside changes, one fault or lagging pass. |
| `schedule` | does `checkSchedule` do what its patterns say? | every slot of months of 28, 30 and 31 days from every weekday, 4 time zones, ranges over the weekend, single days and whole days. |
| `hostedzone` | is there one zone, found again, delegated to, and gone with its object? | either deletion policy, connected or not, 3 outside changes (edit, deletion, foreign records), 2 faults: a lost reply or untagged zone and a fault on top of it. |
| `certificates` | do ingresses list what is issued, and does what is deleted go everywhere? | 1 certificate, 3 ingresses, of which two are selected by one of two annotations each and the third is not, 2 outside changes (an ingress handed over or taken back, the object deleted), one fault or restart anywhere. |
| `operator_kept`, `operator_lookup`, `schedule_clock` | one statement of the repository each that the code does not keep | see [below](#disagreements) |

What the properties say, in short; the comment above each definition says it
in full.

- **Event store.** `LinearLog`: versions and events without gaps, one seal at most
  and nothing behind it from the process that made it, and no fork before a deletion. `SavesAreInformed`: no commit made from
  a stale stream persists. `DeletionStartsAtSeal`: the deletion begins at the seal or behind it, so that
  the life of the tenant before it is whole. `ImplementsLog`: refinement of `EventLog`.
- **Aggregate.** `SetMatchesAggregate`, `OrphansAreExact`, `OnlyCurrentIsActive`,
  `LabelsReachTheSet` relate the projections to the aggregate
  and to the history; `ReferencesAgree` says that a name taken over from another
  group is the name that is applied with it; `QuietMeansInSync` and `NoNewsNoEvents` say when a pass is
  quiet, in both directions; `StaleResourcesHalve` bounds what the removal loop
  leaves; `SupersededSetsAreKept` says that copies are copies.
- **Operator.** `OneActiveUnlessAbandoned`, `NoRollback`, `DroppedSetsAreInactive` in
  every intermediate state; `FailuresStayInTheirGroup`: no resource of a group that
  does not depend on the cluster is deleted while the blueprint stays, whatever
  fails; `Converges` and `StreamComesToRest` as the liveness of the whole, the second
  one saying that the loop of generating, applying and reading back ends.
- **Deletion.** `SetsGoBeforeTheStream`, `ResourcesGoBeforeTheSet`,
  `OnlySealsAreLeft`; `Completes` in a run of its own.
- **Savings.** `AsleepIsTracked`, `RecordedBeforeSleep`, `GoneMeansAwake`, `Settles`.
- **Schedule.** `FollowsThePatterns` (both ways, away from the edges of week and
  month), `SuspendedForAReason` (never suspended without a reason, everywhere).
- **HostedZone.** `NoSpareZones` (a zone too many costs a fault each),
  `NoDanglingDelegation`, and `ZoneSettles`.
- **Certificates.** `ListedIsIssued`, `StaysListed`, and `CertificatesSettle`.

Deadlock is not checked where the system may stop: when a tenant, a policy or a
hosted zone is gone (`deletion`, `deletion_ends`, `savings`, `hostedzone`) and at the end of the month (`schedule`). The other
runs check it. Each property of a passing run has a mutant in `PROJECT.json`: a
plausible mistake in one of the mapped definitions that breaks the property.

Naming of bounds: `MaxVersion`, `MaxCount`, `MaxSequence`, `MaxRevision`,
`MaxSetVersion`, `MaxChanges`, `MaxSets`, `MaxLag` and `MaxFaults` exist for TLC only.
`MaxTenantResourceSets` is the operator's flag. `MaxFaults` bounds failed calls and
restarts, and in `SavingsPolicy` also the passes that read a lagging cache.

## Fairness

Only the runs with a liveness property assume any.

- Informers deliver: a watch resends until it is up to date (weak fairness of each
  `Deliver...`).
- Controllers go on: a pass is followed by another one, because every result
  requeues, at the latest after the reconcile interval; a pass in progress goes on
  (weak fairness of `Reconciling`, `Applying`, `Finalizing`, `Working`). In
  `TenantOperator` the end of a pass is `WF_pass(EndsPass)`, a formula about `pass`
  alone, which comes to the same.
- In `TenantDeletion`, the finalizer of each set is strongly fair: the worker's queue
  is first in, first out, so that no set is passed over for ever, though other sets
  make its action unavailable at times.
- In `Certificates`, the pass over each certificate is strongly fair for the same
  reason, and the passes of the connector follow each other.
- AWS and the ALB ingress controller go on: ACM names a validation record and issues
  what is validated (`Progress`), load balancers follow their ingress as far as they
  can (`Serve`), and a minute ends (`MinutePasses`).
- The controllers of a tenant's resources report an id in the end (`Report`).
- Kubernetes deletes what is being deleted in the end (weak fairness of `Vanish`),
  and time passes (`Elapse`).
- Nothing is assumed of the environment: no fault, restart, edit or change of the
  schedule ever has to happen. Faults are bounded, which stands for "faults stop
  long enough". Panics are not bounded: `Converges` and `CertificatesSettle` hold
  through all of them, `Completes` through any finite number. `Completes` has an
  assumption of its own, that every kind of resource is served in the end and known to
  the process (`KindsAreKnown`): without it the code does not let a tenant go.

## Proofs

Eight parts of the system have theorems, each for every value of the constants. The bounds
that exist for TLC only are any natural numbers in all of them.

### The event store

`EventStore_proofs` holds, for any set of processes:

| Theorem | States |
|---|---|
| `TypeCorrect` | `Spec => []TypeOK` |
| `StoredStreamIsLinear` | `Spec => []LinearLog` |
| `CommitsComeFromTheWholeStream` | `Spec => SavesAreInformed` |
| `DeletionSparesTheLife` | `Spec => DeletionStartsAtSeal` |
| `StoreImplementsLog` | `Spec => ImplementsLog` |

The only assumption is `BoundsAssumption`, that the bounds are natural numbers;
none is made about how far a cache lags or how many processes there are.

`LinearLog` is not inductive: a process may hold any earlier revision, and
whether its commit lands where it should depends on what that revision was. The
invariant `IInv` adds three parts:

- `AllLinear`: while the line of commits is unbroken, *every* revision is linear and
  has the versions 1..n, so that whatever a cache returns has those properties.
- `BeforeDeletion`: until the first deletion chunks are only ever added
  (`OnlyGrows`), and a process in the deletion loop is at the newest chunk of the
  sealed stream it has loaded (`DeletersAtSeal`).
- `SealersKnow`: who has sealed a revision knows of the deletion and is in no pass over a
  live tenant. So the data behind a seal is of other processes.

The argument is in `FreeNameMeansWholeStream`: if the name that follows a loaded
revision is free, then by `OnlyGrows` and `AllLinear` the loaded revision is the
stored one; so a commit that lands extends the whole stream
(`ExtendLinear`), one that was made from less is refused. In `FirstDeletion`, the
process that deletes first is at the newest chunk it has loaded, and that is the seal or follows it
(`DeletionSparesTheLife`). When it is the last of the stored stream the rest is a line again
(`ShortenLinear`); when another process has saved one behind it the log is given up. The refinement maps the log to the table of chunks while it is
unbroken and to the empty log once it is forked; `SaveRefines` and `DeleteRefines`
show that each write is `Extend`, `DropLast` or `Break`, every other step a
stutter.

### The tenant aggregate

`TenantAggregate_proofs` holds, for any labels, blueprints, templates and clusters:

| Theorem | States |
|---|---|
| `TypesAreCorrect` | `Spec => []TypeOK` |
| `SetsMatch` | `Spec => []SetMatchesAggregate` |
| `OneSetIsActive` | `Spec => []OnlyCurrentIsActive` |
| `OrphansAreKnown` | `Spec => []OrphansAreExact` |
| `SilenceMeansInSync` | `Spec => []QuietMeansInSync` |
| `LabelsReach` | `Spec => []LabelsReachTheSet` |
| `RepetitionIsSilent` | `Spec => []NoNewsNoEvents` |
| `StaleOnesHalve` | `Spec => StaleResourcesHalve` |
| `SupersededSetsStay` | `Spec => SupersededSetsAreKept` |
| `LastOneIsApplied` | `Spec => []LastOneCounts` |
| `ReferencesFollow` | `Spec => [](ReferencesAgree <=> RunsAgree)` |

The assumptions are that the bound is a number (`BoundAssumption`) and that the groups
of a blueprint and the contents of a template are lists (`GroupsAssumption`,
`TemplatesAssumption`), which they are in their Go types. Nothing is assumed about
the order or the names in these lists: groups may fail, resources may be named twice.

What makes these proofs long is that everything in `TenantEvents` is a fold over a
list of events or resources, and a fold is an operator with an operator as parameter,
which no lemma can quantify over. Two devices take their place. `Step` lists the ten
operators that the model folds and selects one by a tag, so that `IsRun` can say of a
function that it goes through the values of a fold, one element at a time; the lemmas
about each fold then read off its values from its run. `Induction` is induction over the
*set* of the numbers for which something holds, from the well-foundedness of `<`, for
which the library has a theorem without an operator in it.

On top of these, `Lemmas` goes up in four steps:

1. One event (`OnStream`). `Sound` says that the four readers of a stream agree on it:
   the projection of the sets counts as the aggregate does (`Numbered`), the current
   set holds what the aggregate holds, each once and sorted (`Held`), and the orphans
   are what was ever added without what is there (`OrphansOf`).
2. A session (`Going`). A session changes its own state with each event it raises, and
   the commit replays the same events to all readers: that these come to the same, and
   that no event touches a superseded set (`Later`), is kept by each command.
3. A pass (`Passed`). A new set is made, resources are added or updated, the removal
   loop goes over the list that it shrinks, the new set takes over. For the loop,
   `Burden` counts the stale resources that are left behind its position and, again,
   all that are still in the list: a removal takes one off the list and leaves one
   behind at most, so that it never grows; at the end, what is left counts twice.
4. Between two passes (`Rests`). The set that is active is the current one (`Taken`).

The properties are not inductive by themselves, as they speak of the last run. `IInv`
consists of `Rests`, `Formed` and `Summed` for the stream, and of what ties the
aggregate to the last run: `Answers` (its sum is that of this run, and whatever this
run brought out is listed), `Quiet` (a silent pass found nothing stale), `Begins` (before the
first run nothing is made) and `LastRun` (a run that is useless has brought out
nothing, which `GeneratedOutcome` shows of `Generate`). `QuietMeansInSync` then needs
one more fact, that a list sorted by distinct orders that has the members of
another one, numbered from 1, is that list (`OneOrder`); for `NoNewsNoEvents` the
same session is gone through once more, showing of each command that it has nothing to say.

`Answers` speaks of the last resource of each id (`Latest`), since an earlier one with
the same id is added and then updated by the later one; `EachHasLatest` says that each
id has such a resource. From there `LastOneIsApplied` follows: of what the last run asked for, the
set that is applied, which is put together from many runs, holds exactly these. So its
references are right exactly when those of the run are (`ReferencesFollow`). That they are is
the generator's part; it relates named fields of named templates, and TLC checks it.

### A live tenant under the operator

`TenantOperator_proofs` holds, for any blueprints, templates, clusters and reported ids:

| Theorem | States |
|---|---|
| `TypesAreCorrect` | `Spec => []TypeOK` |
| `OneIsActive` | `Spec => []OneActiveUnlessAbandoned` |
| `SupersededStay` | `Spec => []NoRollback` |
| `DroppedAreInactive` | `Spec => []DroppedSetsAreInactive` |

The assumptions are that at least one set is kept (`FlagAssumption`), that the bounds
are numbers (`BoundsAssumption`), and the two about lists that `TenantAggregate` has
(`GroupsAssumption`, `TemplatesAssumption`). Nothing is assumed about how far the caches
lag, how often a write fails, or which groups a run loses.

None of the properties is inductive: what a controller writes or applies depends on a
stream and a state of the sets that were read some time ago. What ties them together
is that the Tenant controller always works on a stream at least as late as the last one
it worked on. `View` is the one it works on, or between two passes the one it will
work on at the earliest, and `Top` the number of its current set. `IInv` says of them:

- `Streams`: every entry of the feed of chunks can be worked on (`Readable`: it satisfies
  what `Lemmas` shows of a stream between two passes), each is a later life of those
  before it, and `View` comes before all of them. So `Top` only grows, and a
  superseded set is the same in the view as in any later stream. That a commit keeps this is
  `Decided`, from the proof about one pass over any stream.
- `History`: what each state of the sets can be, between cache and cluster (`Holds`), and
  how each goes on to a later one (`Moves`). Sets numbered up to `Top` exist; an inactive
  one is older than `Top`, for `Top` is active in the view; two are active only if one
  is the first, and dropped by the flag (the other's number is larger than the flag); only
  the first can be deleted, when it is inactive. From one state to
  a later one only a set that is newer than all there were becomes active.
- `Writing`: since the active set comes last in a pass, the others of the view have
  been made inactive when it is written. Here the order of `ActiveLast` matters.
- `Past`: once a set has been seen active by the ResourceSet controller, older sets are
  inactive in all states from there on, but for the first, when it was dropped. It holds
  of the set that is being applied and of the newest that ever was.
- `Lags`: therefore the set that is being applied is as new as any before it, unless it
  is the first one, and was dropped while it was active. That is the exception the
  properties name (`Abandoned`): the stored stream has at least as many sets as the
  view, so that the flag drops the first set of it too (`Counted`).

There is a lemma per action (`WriteSetKeeps` and the others named like it). `Panic` and
`Restart` are one (`StartsAgainKeeps`): the cached states are replaced by the
stored ones, so that `Top` and every part of the invariant move on to those.

### The deletion of a tenant

`TenantDeletion_proofs` holds, for any number of sets, any resources, and any faults:

| Theorem | States |
|---|---|
| `TypesAreCorrect` | `Spec => []TypeOK` |
| `SetsGoFirst` | `Spec => []SetsGoBeforeTheStream` |
| `ResourcesGoFirst` | `Spec => []ResourcesGoBeforeTheSet` |
| `SealsRemain` | `Spec => []OnlySealsAreLeft` |

The assumptions are that the bounds are numbers (`MaxSetsAssumption`,
`MaxLagAssumption`), that the resources are a list (`ResourcesAssumption`), that the
contents of the sets and the kinds that come and go are among them
(`ContentsAssumption`, `PassingAssumption`). Two controllers work from two lagging
feeds, so `IInv` speaks of every entry of them:

- `Stream`: only seals are added to a stream by now, so that any reading of it, however
  old, has all the other commits that are still stored; a pass that has deleted what
  it read leaves seals only. The newest commit of the live tenant is the exception,
  until the cache has it (`Behind`).
- `Names`: with that, every reading names all sets that are left, but for one whose
  creation the cache has not shown (`uncached`). A pass goes on to the
  stream when it has counted as many deleted sets as there are names, which it can only
  if each visit found nothing (`Counts` bounds the count by the visits): so there
  is no set at all.
- `Whole`: as long as the stream has all its chunks, a reading that is sealed names what
  the stored stream names. So what the finalizer takes for the current set, and for
  orphans, is what they are.
- `Onward`: from one reading of the sets to a later one marks are never taken back.
- `Applier` is why nothing comes back. `Readings`: from the reading on that shows the
  current set, and once that is deleted in all of them, a set that can still be applied from is
  active. `Applies`: so is the one that is being applied, or the current set is there, for which
  what the other applies is an orphan. `Owned`: hence a resource that is there is an orphan or one
  of an active set. `Marked`: when the finalizer of a set has gone through its resources
  they are absent, and nobody makes one again. `Cleared`: when the stream goes no
  orphan is live (that is what `orphaned` excepts) and nothing is left to apply.

A good part of the work is in the initial states, which span all that a live tenant can leave
half-done: `Lines` says what each length of the stream holds, `LiveTable` what a state of
the sets is, and `LiveFeed` that any of the feeds of them is one as the invariant wants it.

### Feeds

`Lemmas` says once what the controllers' proofs need of a feed: what a
write, a delivery and a refresh of the cache leave of the cached state, of the stored
one and of those between (`FeedEnds`, `PublishFeed`, `DeliverFeed`, `RefreshFeed`).

### SavingsPolicy

`Savings_proofs` holds, for any deployments and target lists:

| Theorem | States |
|---|---|
| `SavingsTypeCorrect` | `Spec => []TypeOK` |
| `SleepersAreTracked` | `Spec => []AsleepIsTracked` |
| `PolicyLeavesNothingAsleep` | `Spec => []GoneMeansAwake` |
| `SleepIsRecorded` | `Spec => RecordedBeforeSleep` |

It assumes that every deployment has at least one replica while it is awake
(`ReplicasAssumption`): one that is scaled to zero by hand is indistinguishable from a
sleeping one, to the code as well. The first three are not inductive, because a pass
works with what it has read. `IInv` follows the secret through a pass:

- `Recording`: what a pass is about to scale is recorded, in its hands when it wakes
  up, in the stored secret when it puts to sleep. This part needs no condition, and
  `RecordedBeforeSleep` is its consequence.
- `Tracking`: without hazards a pass that has not written the secret yet has found
  all that sleeps, tracks what is stored, and has still to wake what it ignores, so
  that the secret it writes (`Recorded`) loses nothing that sleeps.
- `Ending`: a policy that is being deleted and terminated stays so along its feed,
  and a pass over a policy that is being deleted only wakes deployments up.

### HostedZone

`HostedZone_proofs` holds:

| Theorem | States |
|---|---|
| `ZonesAreCounted` | `Spec => []NoSpareZones` |
| `RecordGoesFirst` | `Spec => NoDanglingDelegation` |

For the first, `Counted` sharpens the property by the stage of the pass: only one zone
is owned, a pass that is about to create one has found none, and unless a zone is
owned or about to be tagged there are no more zones than there were faults. A zone
that is created is thus paid for by its tags, or by the fault that keeps them off.
For the second, `RecordFirst` says that an object that is being deleted is connected
or not as it was in every later state of its feed, so that the finalizer decides
rightly from any cached one, and that nobody sets the record between its deletion
and the zone's.

### Certificates

`Certificates_proofs` holds, for any certificates, ingresses and selectors:

| Theorem | States |
|---|---|
| `ListedCertificatesAreIssued` | `Spec => []ListedIsIssued` |
| `ListedCertificatesStay` | `Spec => StaysListed` |

Both are about two feeds that lag independently: the connector decides from a cached
certificate and a cached ingress. The invariant therefore speaks of every state in
the feeds: of a live object, one that is ready is issued, and ready in all the states
that follow unless a pass missed it (`FeedOrder`); a pass whose finding was not
"issued" has no ready state in the feed, as only its own controller writes one
(`PassKnows`); and whatever any state of the ingresses' feed lists, or a pass of the
connector wants, is good in this sense (`ListsGood`). `WritesKeeps` and `GoesOnKeeps`
show it once for all writes and all deliveries; `StepKeeps` sorts the actions under
them.

### The schedule

`Savings_proofs` also holds, for any length of a day, any patterns and any months:

| Theorem | States |
|---|---|
| `SuspensionHasAReason` | `ScheduleSpec => []SuspendedForAReason` |
| `PatternsAreFollowed` | `ScheduleSpec => []FollowsThePatterns` |

`PatternsAssumption` says that a pattern has weekdays and times of the day and that no
zone is more than a day from UTC, `MonthsAssumption` that months have 28 to 31 days;
`DaysBetween` needs the latter, since the days of this week that lie in another month
must not come next to today's. The invariant is only that the clock shows a date
(`Clock`), and the rest is arithmetic: `Compared` takes January 1980 out of what
`checkSchedule` compares and leaves the days between the pattern's and today;
`LocalTime` says that a moment in range is of yesterday, today or tomorrow; for those
`DaysBetween` says that the days of the month differ as the weekdays do; and
`WeekdaysOfRange` that the iterator visits the weekdays a range names, past Sunday or
not. What is left is what the pattern says (`Saying`).

### What is only model-checked

- The generator's part of `ReferencesAgree` (`RunsAgree`), which depends on the blueprints
  of the instance: it relates the fields of named templates, and what a chain of references
  comes to is an induction over the groups. What holds of every blueprint, that `Generate` brings
  out a list and nothing when all groups fail, is proved (`GeneratedOutcome`).
- `FailuresStayInTheirGroup`, which is not true of every blueprint: of two groups that
  share a name a reference means the first that comes out, which is another one when the
  first fails. The groups of the run's blueprints have names of their own.
- All liveness (`Completes`, `Converges`, `StreamComesToRest`, `Settles`, `ZoneSettles`,
  `CertificatesSettle`), which these provers do not reach.

## Disagreements

Three runs check a sentence of the repository that the code does not keep; each has
an entry under "findings" in `PROJECT.json`, with the sentence and its place.

- `operator_kept`: more ResourceSets are kept than the flag says. Only the first set
  *ever made* is dropped, because the list of sets is that of the stream.
- `operator_lookup`: the readiness check dereferences a resource that was deleted as
  an orphan in the meantime, which ends the process.
- `schedule_clock`: entries are missed while the UTC date is not the local one, at
  the edges of weeks and months, and by the shift of summer time.

The passing runs state the same behaviours with these exceptions named
(`Abandoned`, `missed`, `hazards`, `SameWeek`, `tidy`), so that whatever is not
excepted is covered. Some more places came up while the exceptions were found, and
stand in the properties as these:

- A set that becomes the first while it is still active is neither written nor
  deleted again and stays active next to its successor (`Abandoned`), although
  `apis/core/v1alpha1/resourceset_types.go:44` promises a single active set.
- A set that is deleted before it has its finalizer goes without a cleanup of what
  its controller applies (`unheld`).
- An orphan whose deletion fails in the pass that goes on to delete the stream outlives
  the tenant: the failure is logged only (`orphaned`).
- A process that still takes the tenant for alive appends to a stream that is sealed, or
  is being deleted (the second half of `OneSeal`, and `forked`).
- One target of the kind Deployment puts every deployment of the namespace to sleep that
  is not ignored, whatever name it has (`Selected`), although
  `apis/sustainability/v1alpha1/savingspolicy_types.go:46` says that the policy applies to
  what the targets select. All properties of `SavingsPolicy` take that as it is.
- A zone or a certificate whose id was cleared, or never written, is left behind by
  the finalizer (`tidy`), and a failed lookup takes a certificate out of the ingresses
  that use it (`missed` in `Certificates`).
  Likewise, when `connectWith` is taken out of a zone's spec nothing deletes its NS
  record (`tidy` again).

## Not modelled

Left out of modelled components:

- The text of templates: parsing of YAML and of JSON paths, and template syntax beyond
  placing a parameter. Labels and annotations put into each resource are its label.
  Name, namespace and annotations of a
  tenant change the resources like its labels do and are represented by these.
- The check that a replay yields no two active sets, which `OnlyCurrentIsActive`
  shows never to fail.
- Status conditions, counters and events for users. What another pass reads of a
  status is modelled: the phase `Terminating` of a set and of a policy, the ids in
  the statuses of AWS resources. The readiness of a set and the tenant's, which
  repeats it, were tried in `TenantOperator` and multiply its states beyond
  what a run can visit.
- The REST mapper in `TenantOperator`, where all kinds are served.
- The delays between passes. A pass may begin at any moment.
- Two processes in `TenantOperator` and `TenantDeletion`: they are in `EventStore`,
  where they meet over the stream.
- In `TenantDeletion`, a set whose contents change in place (`TenantAggregate` has that), a
  resource that moves in the order of a set, and a kind that is not served when the deletion
  begins; the orphans are deleted in one step, with any part of them failing.
- A `Tenant` that is created again under the name of a deleted one, and two tenants
  whose names map to one stream id.
- Users who scale a sleeping deployment or write an annotation that does not parse;
  patterns that do not parse; the durations that the secret and the status report.
- Tags and statuses in AWS beyond what is said above; parent zones that are missing or
  not unique (the pass gives up and comes again); a caller reference that is cut off
  at 128 characters and loses its minute; the wait for a Route53 change to spread,
  which dereferences a missing reply when its own call fails (a restart).
- Validation other than by DNS; two Certificate objects whose names differ in dashes
  only and share an idempotency token; certificates that expire or fail.
- Statically listed ARNs, the connector's condition InSync, and two connectors that
  select the same ingress and take it from each other.

Not modelled at all: the three stub
controllers; flags, logging and wiring; the API types and generated code; test
helpers.

## Plan

In order of importance; the first seventeen are done.

1. `EventLog`, `EventStore`, its run and its proofs.
2. `TenantEvents`, `TenantAggregate`: the decisions and their projections.
3. `InformerCache`, `TenantOperator`: both controllers on a live tenant.
4. `TenantDeletion`: both controllers on a deleted one.
5. `SavingsPolicy`.
6. `SavingsSchedule`.
7. The runs for the sentences that do not hold.
8. `HostedZone`.
9. `Certificates`: both controllers together.
10. `ResourceGenerator`, and the loop from the cluster through it in `TenantOperator`;
    the kinds that a process knows in `TenantDeletion`; the selectors in `Certificates`.
11. The lemmas about feeds, and the proofs about `SavingsPolicy`.
12. The proofs about `HostedZone`.
13. The proofs about `Certificates`.
14. The proofs about `SavingsSchedule`.
15. The lemmas about events and passes, and the proofs about `TenantAggregate`.
16. The proofs about `TenantDeletion`.
17. The proofs about `TenantOperator`, from what `Lemmas` shows of a pass over any stream.
18. An abstract specification of a tenant's life (absent, applied from one set,
    cleaned up, gone) that `TenantOperator` and `TenantDeletion` implement.
19. Two certificates that share an idempotency token, two connectors on one ingress.
20. Readiness of sets and tenants in a module of its own, with the passes of
    `TenantOperator` abstracted to the sets they publish.
