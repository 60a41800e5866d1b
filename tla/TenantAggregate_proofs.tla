----------------------- MODULE TenantAggregate_proofs -----------------------
(***************************************************************************)
(* Proofs about the life of a tenant's stream, for any labels, blueprints, *)
(* templates, clusters and bound.                                          *)
(*                                                                         *)
(* The inductive invariant says of the stream that its readers agree       *)
(* (Rests), and of the aggregate in it that it answers to the last run     *)
(* that brought out anything.  Lemmas shows what each kind of session      *)
(* makes of a stream at rest.                                              *)
(***************************************************************************)
EXTENDS TenantAggregate, Lemmas

-----------------------------------------------------------------------------
(* The inductive invariant. *)

Types ==
    /\ agg.label \in Labels \cup {NoLabel}
    /\ agg.name <= MaxSetVersion
    /\ quiet \in BOOLEAN

\* The run that the aggregate answers to.
LastRun ==
    /\ last.outcome.failed \in BOOLEAN
    /\ IsList(last.outcome.resources)
    /\ Useless(last.outcome) => last.outcome.resources = << >>

\* Before the first run nothing has been made.
Begins ==
    /\ ~agg.created => stream = EmptyStream /\ last = NoInput
    /\ agg.sum = NoSum => agg.name = 0 /\ ~HasPassed

\* After it, the aggregate is up to the last one, with what was left behind
\* by the loop that removes.
Answers ==
    agg.sum # NoSum =>
        /\ agg.sum = Sum(wanted)
        /\ agg.label = last.label
        /\ agg.failed = last.outcome.failed
        /\ Complete(last.outcome) =>
             /\ agg.active = {agg.name}
             /\ Lasting \subseteq ToSet(agg.resources)

Quiet ==
    quiet /\ agg.sum # NoSum /\ ~agg.deleted /\ Complete(last.outcome) =>
        /\ ToSet(wanted) \subseteq ToSet(agg.resources)
        /\ Ids(agg.resources) \subseteq Ids(wanted)

IInv ==
    /\ Rests(stream, ever) /\ Formed(stream.sets) /\ Summed(stream)
    /\ Types /\ LastRun /\ Begins /\ Answers /\ Quiet

LEMMA OutcomeFacts ==
  ASSUME NEW label \in Labels, NEW o \in Outcomes[label]
  PROVE  /\ o.failed \in BOOLEAN /\ IsList(o.resources)
         /\ Useless(o) => o.resources = << >>
<1>1. PICK b \in Blueprints, cluster \in Clusters :
        o = Generate(b, [tenant |-> label, templates |-> Templates, cluster |-> cluster])
  BY DEF Outcomes
<1>2. PICK env : env = [tenant |-> label, templates |-> Templates, cluster |-> cluster]
  OBVIOUS
<1>3. Documents(env.templates)
  BY <1>2, TemplatesAssumption DEF Documents, IsList
<1>4. IsList(b.groups)
  BY GroupsAssumption DEF IsList
<1>5. o = Generate(b, env)
  BY <1>1, <1>2
<1>6. QED
  BY <1>3, <1>4, <1>5, GeneratedOutcome

LEMMA LastingOnes == Lasting = Latest(wanted)
BY DEF Lasting, Latest

LEMMA Initially == Init => IInv
<1> SUFFICES ASSUME Init PROVE IInv
  OBVIOUS
<1>1. stream = EmptyStream /\ last = NoInput /\ quiet = FALSE /\ ever = {}
  BY DEF Init
<1>2. Rests(stream, ever) /\ Formed(stream.sets) /\ Summed(stream)
  BY <1>1, EmptyRests
<1>3. Types
  <2>1. agg.name = 0 /\ agg.label = NoLabel
    BY <1>1, EmptyRests DEF agg
  <2>2. agg.name <= MaxSetVersion
    BY <2>1, BoundAssumption
  <2>3. QED
    BY <1>1, <2>1, <2>2 DEF Types
<1>4. LastRun
  BY <1>1, EmptyList DEF LastRun, NoInput
<1>5. Begins /\ Answers /\ Quiet
  BY <1>1, EmptyRests DEF Begins, Answers, Quiet, HasPassed, agg
<1>6. QED
  BY <1>2, <1>3, <1>4, <1>5 DEF IInv

-----------------------------------------------------------------------------
(* The steps. *)

LEMMA Committed ==
  ASSUME NEW a, Commit(a), Formed(stream.sets), IsList(a.events)
  PROVE  /\ stream' = Reached(stream, a)
         /\ ever' = ever \cup Added(a.events)
         /\ quiet' = (a.events = << >>)
         /\ Formed(stream'.sets)
<1>1. /\ stream' = Reached(stream, a) /\ ever' = ever \cup Added(a.events)
      /\ quiet' = (a.events = << >>)
  BY DEF Commit, Reached, Added
<1>2. Formed(stream'.sets)
  BY <1>1, FormedReplay DEF Reached
<1>3. QED
  BY <1>1, <1>2

LEMMA CreateKeeps ==
  ASSUME IInv, NEW label \in Labels, CreateTenant(label)
  PROVE  IInv' /\ Later(stream, stream') /\ agg'.resources = << >> /\ last' = NoInput
<1>1. PICK a : a = SetBlueprint(Create(Load(stream)), label)
  OBVIOUS
<1>2. Commit(a) /\ ~agg.created /\ last' = last
  BY <1>1 DEF CreateTenant
<1>3. /\ Rests(stream, ever) /\ Formed(stream.sets) /\ stream = EmptyStream /\ last = NoInput
  BY <1>2 DEF IInv, Begins
<1>4. /\ Spared(stream, ever, a, {"created", "label"}) /\ a.events # << >>
      /\ Reached(stream, a).agg.created = TRUE /\ Reached(stream, a).agg.label = label
  BY <1>1, <1>3, DoCreate
<1>5. /\ stream' = Reached(stream, a) /\ ever' = ever \cup Added(a.events)
      /\ quiet' = FALSE /\ Formed(stream'.sets)
  BY <1>2, <1>3, <1>4, Committed DEF Spared
<1>6. /\ Rests(stream', ever') /\ Later(stream, stream')
      /\ SameBut(stream.agg, agg', {"created", "label"})
      /\ agg'.created = TRUE /\ agg'.label = label
  BY <1>4, <1>5 DEF Spared, agg
<1>7. agg'.name = 0 /\ agg'.sum = NoSum /\ agg'.resources = << >>
  BY <1>3, <1>6, EmptyRests DEF SameBut, AggFields, Rests, Sound, Shapes
<1>8. Types' /\ Begins' /\ Answers' /\ Quiet'
  <2>1. Types'
    <3>1. agg'.name <= MaxSetVersion
      BY <1>7, BoundAssumption
    <3>2. QED
      BY <1>5, <1>6, <3>1 DEF Types
  <2>2. Begins'
    BY <1>2, <1>3, <1>6, <1>7 DEF Begins, HasPassed
  <2>3. Answers' /\ Quiet'
    BY <1>7 DEF Answers, Quiet
  <2>4. QED
    BY <2>1, <2>2, <2>3
<1>9. LastRun'
  BY <1>2 DEF IInv, LastRun
<1>10. Summed(stream')
  BY <1>7 DEF Summed, agg
<1>11. IInv'
  BY <1>5, <1>6, <1>8, <1>9, <1>10 DEF IInv
<1>12. QED
  BY <1>2, <1>3, <1>6, <1>7, <1>11

LEMMA DeleteKeeps ==
  ASSUME IInv, DeleteTenant
  PROVE  IInv' /\ Later(stream, stream') /\ agg'.deleted
<1>1. PICK a : a = Delete(Load(stream))
  OBVIOUS
<1>2. Commit(a) /\ agg.created /\ last' = last
  BY <1>1 DEF DeleteTenant
<1>3. Rests(stream, ever) /\ Formed(stream.sets) /\ Summed(stream)
  BY DEF IInv
<1>4. Spared(stream, ever, a, {"deleted"}) /\ Reached(stream, a).agg.deleted
  BY <1>1, <1>3, DoDelete
<1>5. /\ stream' = Reached(stream, a) /\ ever' = ever \cup Added(a.events)
      /\ quiet' \in BOOLEAN /\ Formed(stream'.sets)
  BY <1>2, <1>3, <1>4, Committed DEF Spared
<1>6. /\ Rests(stream', ever') /\ Later(stream, stream')
      /\ SameBut(agg, agg', {"deleted"}) /\ stream'.sets.sets = stream.sets.sets
      /\ agg'.deleted
  BY <1>4, <1>5 DEF Spared, agg
<1>7. /\ agg'.name = agg.name /\ agg'.sum = agg.sum /\ agg'.resources = agg.resources
      /\ agg'.label = agg.label /\ agg'.failed = agg.failed /\ agg'.active = agg.active
      /\ agg'.created = agg.created
  BY <1>3, <1>6 DEF SameBut, AggFields, Rests, Sound, Shapes, agg
<1>8. wanted' = wanted
  BY <1>2 DEF wanted
<1>9. Types' /\ LastRun' /\ Begins' /\ Answers' /\ Quiet'
  <2>1. Types'
    BY <1>5, <1>7 DEF IInv, Types
  <2>2. LastRun'
    BY <1>2 DEF IInv, LastRun
  <2>3. Begins'
    BY <1>2, <1>7 DEF IInv, Begins, HasPassed
  <2>4. Answers'
    <3>1. Lasting' = Lasting
      BY <1>8 DEF Lasting
    <3>2. QED
      BY <1>2, <1>7, <1>8, <3>1 DEF IInv, Answers
  <2>5. Quiet'
    BY <1>6 DEF Quiet
  <2>6. QED
    BY <2>1, <2>2, <2>3, <2>4, <2>5
<1>10. Summed(stream')
  BY <1>3, <1>6, <1>7 DEF Summed, agg
<1>11. IInv'
  BY <1>5, <1>6, <1>9, <1>10 DEF IInv
<1>12. QED
  BY <1>6, <1>11

LEMMA PassKeeps ==
  ASSUME IInv, NEW label \in Labels, NEW o \in Outcomes[label], Pass(label, o)
  PROVE  /\ IInv' /\ Later(stream, stream')
         /\ Complete(last'.outcome) =>
              2 * Cardinality(Ids(agg'.resources) \ Ids(wanted'))
                <= Cardinality(Ids(agg.resources) \ Ids(wanted'))
<1>1. PICK a, rs : /\ a = GenerateResources(SetBlueprint(Load(stream), label), o)
                   /\ rs = Generated(o, label)
  OBVIOUS
<1>2. /\ agg.created /\ ~agg.deleted /\ a.state.version <= MaxSetVersion
      /\ Commit(a) /\ last' = [label |-> label, outcome |-> o]
  BY <1>1 DEF Pass
<1>3. Rests(stream, ever) /\ Formed(stream.sets) /\ Summed(stream)
  BY DEF IInv
<1>4. o.failed \in BOOLEAN /\ IsList(o.resources) /\ (Useless(o) => o.resources = << >>)
  BY OutcomeFacts
<1>5. Passed(stream, ever, label, o, rs, a)
  BY <1>1, <1>3, <1>4, DoPass
<1>6. /\ stream' = Reached(stream, a) /\ ever' = ever \cup Added(a.events)
      /\ quiet' = (a.events = << >>) /\ Formed(stream'.sets)
  BY <1>2, <1>3, <1>5, Committed DEF Passed
<1>7. /\ last'.label = label /\ last'.outcome = o /\ wanted' = rs
  BY <1>1, <1>2 DEF wanted
<1>8. PICK us, vs, W : us = agg.resources /\ vs = agg'.resources /\ W = Ids(rs)
  OBVIOUS
<1>9. /\ a.state = agg' /\ Rests(stream', ever') /\ Later(stream, stream')
      /\ agg'.label = label /\ agg'.failed = o.failed /\ agg'.sum = Sum(rs)
      /\ agg'.created = agg.created /\ agg'.deleted = agg.deleted
      /\ ~Useless(o) =>
             /\ agg'.active = {agg'.name}
             /\ 2 * Cardinality(Ids(vs) \ W) <= Cardinality(Ids(us) \ W)
             /\ Latest(rs) \subseteq ToSet(vs)
      /\ a.events = << >> /\ ~Useless(o) =>
             ToSet(rs) \subseteq ToSet(us) /\ Ids(us) \subseteq W
  BY <1>5, <1>6, <1>8 DEF Passed, agg
<1>10. Summed(stream')
  BY <1>1, <1>3, <1>4, <1>5, <1>6, SummedAfter
<1>11. a.events = << >> => vs = us
  <2>1. ASSUME a.events = << >> PROVE vs = us
    <3>1. stream' = stream
      BY <1>3, <1>6, <2>1, ReplayNothing DEF Reached, Rests
    <3>2. QED
      BY <1>8, <3>1 DEF agg
  <2>2. QED
    BY <2>1
<1>12. Types'
  <2>1. agg'.name <= MaxSetVersion
    BY <1>2, <1>9 DEF Rests, agg
  <2>2. QED
    BY <1>6, <1>9, <2>1 DEF Types
<1>13. LastRun'
  BY <1>4, <1>7 DEF LastRun
<1>14. Begins'
  BY <1>2, <1>9, SumFacts DEF Begins
<1>15. Answers'
  <2>1. Lasting' = Latest(rs)
    BY <1>7 DEF Lasting, Latest
  <2>2. QED
    BY <1>7, <1>8, <1>9, <2>1 DEF Answers, Complete
<1>16. Quiet'
  BY <1>6, <1>7, <1>8, <1>9, <1>11 DEF Quiet, Complete
<1>17. IInv'
  BY <1>6, <1>9, <1>10, <1>12, <1>13, <1>14, <1>15, <1>16 DEF IInv
<1>18. QED
  BY <1>7, <1>8, <1>9, <1>17 DEF Complete

LEMMA Stuttering ==
  ASSUME IInv, UNCHANGED vars
  PROVE  IInv'
BY DEF IInv, Types, LastRun, Begins, Answers, Quiet, vars, agg, wanted, HasPassed, Complete,
       Lasting

LEMMA Stepwise == IInv /\ [Next]_vars => IInv'
<1> SUFFICES ASSUME IInv, [Next]_vars PROVE IInv'
  OBVIOUS
<1>1. CASE UNCHANGED vars
  BY <1>1, Stuttering
<1>2. ASSUME NEW label \in Labels, CreateTenant(label) PROVE IInv'
  BY <1>2, CreateKeeps
<1>3. ASSUME NEW label \in Labels, NEW o \in Outcomes[label], Pass(label, o) PROVE IInv'
  BY <1>3, PassKeeps
<1>4. CASE DeleteTenant
  BY <1>4, DeleteKeeps
<1>5. QED
  BY <1>1, <1>2, <1>3, <1>4 DEF Next

\* The invariant holds in every state that commits can lead to.
THEOREM Inductive == Spec => []IInv
BY Initially, Stepwise, PTL DEF Spec

-----------------------------------------------------------------------------
(* What the readers of the stream agree on. *)

LEMMA Readers ==
  ASSUME IInv
  PROVE  /\ agg.name \in Nat /\ agg.version = agg.name /\ stream.sets.current = agg.name
         /\ Len(sets) = agg.name /\ DOMAIN sets = 1..agg.name /\ IsList(sets)
         /\ sets = << >> <=> agg.name = 0
         /\ Held(stream) /\ Taken(stream) /\ OrphansOf(stream, ever)
         /\ IsList(agg.resources) /\ Distinct(agg.resources)
<1>1. Rests(stream, ever)
  BY DEF IInv
<1>2. /\ Shapes(stream) /\ Numbered(stream) /\ Held(stream) /\ OrphansOf(stream, ever)
      /\ Taken(stream) /\ stream.agg.version = stream.agg.name
  BY <1>1 DEF Rests, Sound
<1>3. /\ IsList(sets) /\ Len(sets) = agg.name /\ agg.name \in Nat
      /\ stream.sets.current = agg.name
  BY <1>2 DEF Shapes, Numbered, sets, agg
<1>4. DOMAIN sets = 1..agg.name
  BY <1>3, ListFacts
<1>5. sets = << >> <=> agg.name = 0
  <2>1. sets \in Seq(ToSet(sets))
    BY <1>3 DEF IsList
  <2>2. QED
    BY <1>3, <2>1
<1>6. IsList(agg.resources) /\ Distinct(agg.resources)
  BY <1>2 DEF Held, agg
<1>7. QED
  BY <1>2, <1>3, <1>4, <1>5, <1>6 DEF agg

\* The aggregate and the projection of its sets count alike, and no resource
\* is listed twice.
THEOREM TypesAreCorrect == Spec => []TypeOK
<1>1. ASSUME IInv PROVE TypeOK
  <2>1. /\ agg.name \in Nat /\ agg.version = agg.name /\ stream.sets.current = agg.name
        /\ Len(sets) = agg.name /\ Taken(stream)
        /\ IsList(agg.resources) /\ Distinct(agg.resources)
    BY <1>1, Readers
  <2>2. Cardinality(Ids(agg.resources)) = Len(agg.resources)
    BY <2>1, IdsCount
  <2>3. agg.label \in Labels \cup {NoLabel} /\ quiet \in BOOLEAN /\ agg.name <= MaxSetVersion
    BY <1>1 DEF IInv, Types
  <2>4. agg.name \in 0..MaxSetVersion
    BY <2>1, <2>3, BoundAssumption
  <2>5. agg.active \subseteq {agg.name}
    BY <2>1 DEF Taken, agg
  <2>6. QED
    BY <2>1, <2>2, <2>3, <2>4, <2>5 DEF TypeOK
<1>2. QED
  BY <1>1, Inductive, PTL

\* The current ResourceSet, sorted by order after each event, holds what the
\* aggregate decided, as a set.
THEOREM SetsMatch == Spec => []SetMatchesAggregate
<1>1. ASSUME IInv PROVE SetMatchesAggregate
  <2>1. Held(stream) /\ (sets = << >> <=> agg.name = 0)
    BY <1>1, Readers
  <2>2. ASSUME sets # << >> PROVE ToSet(Applied) = ToSet(agg.resources)
    <3>1. agg.name # 0
      BY <2>1, <2>2
    <3>2. Applied = stream.sets.sets[agg.name].resources
      BY <2>2 DEF Applied, sets
    <3>3. QED
      BY <2>1, <3>1, <3>2 DEF Held, agg
  <2>3. QED
    BY <2>2 DEF SetMatchesAggregate
<1>2. QED
  BY <1>1, Inductive, PTL

\* At rest one set is active, the current one: the code that refuses to go on
\* with two of them is never needed.
THEOREM OneSetIsActive == Spec => []OnlyCurrentIsActive
<1>1. ASSUME IInv PROVE OnlyCurrentIsActive
  <2>1. /\ agg.name \in Nat /\ DOMAIN sets = 1..agg.name
        /\ \A n \in 1..agg.name : sets[n].active = (n = agg.name)
    BY <1>1, Readers DEF Taken, agg, sets
  <2>2. {n \in DOMAIN sets : sets[n].active} = {n \in 1..agg.name : n = agg.name}
    BY <2>1
  <2>3. {n \in 1..agg.name : n = agg.name} = {agg.name} \ {0}
    BY <2>1
  <2>4. QED
    BY <2>2, <2>3 DEF OnlyCurrentIsActive
<1>2. QED
  BY <1>1, Inductive, PTL

\* The projection of the orphans is exact, over any sequence of additions,
\* removals and new additions.
THEOREM OrphansAreKnown == Spec => []OrphansAreExact
<1>1. ASSUME IInv PROVE OrphansAreExact
  BY <1>1, Readers DEF OrphansOf, OrphansAreExact, agg
<1>2. QED
  BY <1>1, Inductive, PTL

\* A pass that raises no event leaves nothing to be done: the current set is
\* the result of the run, in its order.
THEOREM SilenceMeansInSync == Spec => []QuietMeansInSync
<1>1. ASSUME IInv, quiet, HasPassed, ~agg.deleted, Complete(last.outcome)
      PROVE  Applied = wanted
  <2>1. /\ agg.name \in Nat /\ (sets = << >> <=> agg.name = 0) /\ Held(stream)
        /\ IsList(agg.resources) /\ Distinct(agg.resources)
    BY <1>1, Readers
  <2>2. agg.sum # NoSum
    BY <1>1 DEF IInv, Begins
  <2>3. /\ ToSet(wanted) \subseteq ToSet(agg.resources)
        /\ Ids(agg.resources) \subseteq Ids(wanted)
    BY <1>1, <2>2 DEF IInv, Quiet
  <2>4. IsList(wanted) /\ \A i \in DOMAIN wanted : wanted[i].order = i
    BY <1>1, GeneratedList DEF IInv, LastRun, wanted
  <2>5. ToSet(agg.resources) \subseteq ToSet(wanted)
    <3>1. ASSUME NEW r \in ToSet(agg.resources) PROVE r \in ToSet(wanted)
      <4>1. PICK q \in ToSet(wanted) : q.id = r.id
        BY <2>3, IdsOfSet
      <4>2. q \in ToSet(agg.resources)
        BY <2>3
      <4>3. q = r
        BY <2>1, <4>1, <4>2 DEF Distinct, ToSet
      <4>4. QED
        BY <4>3
    <3>2. QED
      BY <3>1
  <2>6. ToSet(agg.resources) = ToSet(wanted)
    BY <2>3, <2>5
  <2>7. CASE agg.name = 0
    <3>1. agg.resources = << >> /\ Applied = << >>
      BY <2>1, <2>7 DEF Held, Applied, agg
    <3>2. ToSet(wanted) = {}
      BY <2>6, <3>1, EmptyList
    <3>3. Len(wanted) \in Nat /\ DOMAIN wanted = 1..Len(wanted) /\ wanted \in Seq(ToSet(wanted))
      BY <2>4, ListFacts DEF IsList
    <3>4. wanted = << >>
      BY <3>2, <3>3
    <3>5. QED
      BY <3>1, <3>4
  <2>8. CASE agg.name # 0
    <3>1. Applied = stream.sets.sets[agg.name].resources
      BY <2>1, <2>8 DEF Applied, sets
    <3>2. IsList(Applied) /\ Distinct(Applied) /\ Sorted(Applied)
          /\ ToSet(Applied) = ToSet(agg.resources)
      BY <2>1, <2>8, <3>1 DEF Held, agg
    <3>3. QED
      BY <2>4, <2>6, <3>2, OneOrder
  <2>9. QED
    BY <2>7, <2>8
<1>2. IInv => QuietMeansInSync
  BY <1>1 DEF QuietMeansInSync
<1>3. QED
  BY <1>2, Inductive, PTL

\* Labels are part of what is summed up, so that a change of them makes a new
\* set and the current one carries them.
THEOREM LabelsReach == Spec => []LabelsReachTheSet
<1>1. ASSUME IInv, sets # << >>, agg.sum # Sum(<< >>)
      PROVE  sets[agg.name].label = agg.label
  <2>1. agg.name # 0
    BY <1>1, Readers
  <2>2. agg.sum # NoSum
    BY <1>1, <2>1 DEF IInv, Begins
  <2>3. agg.sum = Sum(wanted) /\ agg.label = last.label
    BY <1>1, <2>2 DEF IInv, Answers
  <2>4. wanted # << >> /\ agg.sum.of = wanted
    BY <1>1, <2>3, SumFacts
  <2>5. IsList(wanted) /\ \A i \in DOMAIN wanted : wanted[i].sum[2] = last.label
    BY <1>1, GeneratedList DEF IInv, LastRun, wanted
  <2>6. 1 \in DOMAIN wanted
    <3>1. wanted \in Seq(ToSet(wanted))
      BY <2>5 DEF IsList
    <3>2. QED
      BY <2>4, <3>1
  <2>7. sets[agg.name].label = wanted[1].sum[2]
    BY <1>1, <2>2, <2>4 DEF IInv, Summed, agg, sets
  <2>8. QED
    BY <2>3, <2>5, <2>6, <2>7
<1>2. IInv => LabelsReachTheSet
  BY <1>1 DEF LabelsReachTheSet
<1>3. QED
  BY <1>2, Inductive, PTL

\* The stream of a tenant does not grow while nothing changes.
THEOREM RepetitionIsSilent == Spec => []NoNewsNoEvents
<1>1. ASSUME IInv, HasPassed, Stale(agg.resources) = {}, Cardinality(Ids(wanted)) = Len(wanted)
      PROVE  Repeated.events = << >>
  <2>1. /\ last.outcome.failed \in BOOLEAN /\ IsList(last.outcome.resources)
        /\ Rests(stream, ever) /\ Summed(stream)
    BY <1>1 DEF IInv, LastRun
  <2>2. Passed(stream, ever, last.label, last.outcome, wanted, Repeated)
    BY <2>1, DoPass DEF wanted, Repeated
  <2>3. Distinct(wanted)
    BY <1>1, <2>1, GeneratedList, IdsCount DEF wanted
  <2>4. agg.sum # NoSum
    BY <1>1 DEF IInv, Begins
  <2>5. /\ agg.label = last.label /\ agg.failed = last.outcome.failed /\ agg.sum = Sum(wanted)
        /\ ~Useless(last.outcome) =>
             agg.active = {agg.name} /\ ToSet(wanted) \subseteq ToSet(agg.resources)
    <3>1. Lasting = ToSet(wanted)
      BY <2>1, <2>3, GeneratedList, LatestDistinct, LastingOnes DEF wanted
    <3>2. QED
      BY <1>1, <2>4, <3>1 DEF IInv, Answers, Complete
  <2>6. Ids(agg.resources) \subseteq Ids(wanted)
    BY <1>1 DEF Stale
  <2>7. QED
    BY <2>2, <2>5, <2>6 DEF Passed, agg
<1>2. IInv => NoNewsNoEvents
  BY <1>1 DEF NoNewsNoEvents
<1>3. QED
  BY <1>2, Inductive, PTL

\* In the aggregate it is the last one; the current set holds what that holds.
LEMMA LastOnes == IInv => Lasting \subseteq ToSet(Applied)
<1> SUFFICES ASSUME IInv, NEW i \in DOMAIN wanted,
                    \A j \in DOMAIN wanted : j > i => wanted[j].id # wanted[i].id
             PROVE  wanted[i] \in ToSet(Applied)
  BY DEF Lasting
<1>1. wanted[i] \in Lasting
  BY DEF Lasting
<1>2. last.outcome.resources # << >>
  <2>1. DOMAIN << >> = 1..0
    BY EmptyList, ListFacts
  <2>2. DOMAIN wanted = DOMAIN last.outcome.resources
    BY DEF wanted, Generated
  <2>3. QED
    BY <2>1, <2>2
<1>3. Complete(last.outcome) /\ HasPassed
  BY <1>2 DEF IInv, LastRun, Complete, HasPassed, NoInput
<1>4. wanted[i] \in ToSet(agg.resources)
  BY <1>1, <1>3 DEF IInv, Answers, Begins
<1>5. agg.name # 0
  BY <1>4, EmptyList, Readers DEF Held, agg
<1>6. Applied = stream.sets.sets[agg.name].resources
  BY <1>5, Readers DEF Applied, sets
<1>7. QED
  BY <1>4, <1>5, <1>6, Readers DEF Held, agg

\* For a resource that is wanted again and again, twice in a run or with a
\* run that fails in between, exactly the last one of the last run is applied.
THEOREM LastOneIsApplied == Spec => []LastOneCounts
<1>1. ASSUME IInv PROVE LastOneCounts
  <2>1. Lasting \subseteq ToSet(Applied)
    BY <1>1, LastOnes
  <2>2. Distinct(Applied)
    <3>1. CASE agg.name = 0
      <4>1. Applied = << >>
        BY <1>1, <3>1, Readers DEF Applied
      <4>2. DOMAIN << >> = 1..0
        BY EmptyList, ListFacts
      <4>3. QED
        BY <4>1, <4>2 DEF Distinct
    <3>2. CASE agg.name # 0
      <4>1. Applied = stream.sets.sets[agg.name].resources
        BY <1>1, <3>2, Readers DEF Applied, sets
      <4>2. QED
        BY <1>1, <3>2, <4>1, Readers DEF Held, agg
    <3>3. QED
      BY <3>1, <3>2
  <2>3. IsList(wanted)
    BY <1>1, GeneratedList DEF IInv, LastRun, wanted
  <2>4. ASSUME NEW r \in ToSet(Applied), r.id \in Ids(wanted) PROVE r \in Lasting
    <3>1. PICK q \in Lasting : q.id = r.id
      BY <2>3, <2>4, EachHasLatest, LastingOnes
    <3>2. q \in ToSet(Applied)
      BY <2>1
    <3>3. q = r
      BY <2>2, <3>1, <3>2 DEF Distinct, ToSet
    <3>4. QED
      BY <3>3
  <2>5. \A r \in Lasting : r.id \in Ids(wanted)
    BY DEF Lasting, Ids
  <2>6. QED
    BY <2>1, <2>4, <2>5 DEF LastOneCounts, Asked
<1>2. QED
  BY <1>1, Inductive, PTL

\* The references of the set that is applied, which is put together from many
\* runs, are right exactly when those of the last run are: what the aggregate
\* does between the two loses none.
THEOREM ReferencesFollow == Spec => [](ReferencesAgree <=> RunsAgree)
<1>1. LastOneCounts => (ReferencesAgree <=> RunsAgree)
  BY DEF LastOneCounts, ReferencesAgree, RunsAgree
<1>2. QED
  BY <1>1, LastOneIsApplied, PTL

-----------------------------------------------------------------------------
(* What a commit may do. *)

\* The loop that skips what follows a removed resource removes every other
\* stale one at least, so that they are gone after finitely many passes.
THEOREM StaleOnesHalve == Spec => StaleResourcesHalve
<1> DEFINE Halved == ~agg'.deleted /\ Complete(last'.outcome) =>
                        2 * Cardinality(Ids(agg'.resources) \ Ids(wanted'))
                            <= Cardinality(Ids(agg.resources) \ Ids(wanted'))
<1>1. ASSUME IInv, NEW label \in Labels, CreateTenant(label) PROVE Halved
  <2>1. /\ agg'.resources = << >> /\ agg.created = FALSE /\ stream = EmptyStream
    BY <1>1, CreateKeeps, EmptyRests DEF CreateTenant, IInv, Begins, agg
  <2>2. Ids(agg'.resources) = {} /\ Ids(agg.resources) = {}
    <3>1. agg.resources = << >>
      BY <2>1, EmptyRests DEF agg
    <3>2. Ids(<< >>) = {}
      BY EmptyList, ListFacts DEF Ids
    <3>3. QED
      BY <2>1, <3>1, <3>2
  <2>3. Cardinality(Ids(agg'.resources) \ Ids(wanted')) = 0
    BY <2>2, FS_EmptySet
  <2>4. Cardinality(Ids(agg.resources) \ Ids(wanted')) = 0
    BY <2>2, FS_EmptySet
  <2>5. QED
    BY <2>3, <2>4
<1>2. ASSUME IInv, NEW label \in Labels, NEW o \in Outcomes[label], Pass(label, o)
      PROVE  Halved
  BY <1>2, PassKeeps
<1>3. ASSUME IInv, DeleteTenant PROVE Halved
  BY <1>3, DeleteKeeps
<1>4. IInv /\ [Next]_vars => [Halved]_vars
  BY <1>1, <1>2, <1>3 DEF Next
<1>5. QED
  BY <1>4, Inductive, PTL DEF Spec, StaleResourcesHalve

LEMMA Resting ==
  IInv => /\ agg.name \in Nat /\ DOMAIN sets = 1..agg.name
          /\ Taken(stream) /\ Formed(stream.sets)
BY Readers DEF IInv

LEMMA RestingNext ==
  IInv' => /\ agg'.name \in Nat /\ DOMAIN sets' = 1..agg'.name
           /\ Taken(stream') /\ Formed(stream'.sets)
<1>1. (IInv => /\ agg.name \in Nat /\ DOMAIN sets = 1..agg.name
               /\ Taken(stream) /\ Formed(stream.sets))'
  BY Resting, PTL
<1>2. QED
  BY <1>1

LEMMA Superseding ==
  ASSUME NEW x, Formed(x.sets), DOMAIN x.sets.sets = 1..x.agg.name,
         NEW y, Formed(y.sets), y.agg.name \in Nat, DOMAIN y.sets.sets = 1..y.agg.name,
         Taken(y), Later(x, y),
         NEW n \in 1..x.agg.name, n < y.agg.name, n < x.agg.name
  PROVE  y.sets.sets[n] = [x.sets.sets[n] EXCEPT !.active = FALSE]
<1>1. PICK s, t : s = x.sets.sets[n] /\ t = y.sets.sets[n]
  OBVIOUS
<1>2. n \in 1..y.agg.name
  OBVIOUS
<1>3. IsSet(s) /\ IsSet(t)
  BY <1>1, <1>2 DEF Formed
<1>4. t.label = s.label /\ t.resources = s.resources
  BY <1>1 DEF Later
<1>5. t.active = FALSE
  <2>1. t.active = (n = y.agg.name)
    BY <1>1, <1>2, Zenon DEF Taken
  <2>2. n # y.agg.name
    OBVIOUS
  <2>3. QED
    BY <2>1, <2>2, Zenon
<1>6. t = [label |-> s.label, active |-> FALSE, resources |-> s.resources]
  BY <1>3, <1>4, <1>5 DEF IsSet
<1>7. [s EXCEPT !.active = FALSE] = [label |-> s.label, active |-> FALSE, resources |-> s.resources]
  <2>1. PICK l, b, rs : s = [label |-> l, active |-> b, resources |-> rs]
    BY <1>3 DEF IsSet
  <2>2. s.label = l /\ s.resources = rs
    BY <2>1
  <2>3. [s EXCEPT !.active = FALSE] = [label |-> l, active |-> FALSE, resources |-> rs]
    <3>1. PICK c : c = FALSE
      OBVIOUS
    <3>2. [s EXCEPT !.active = c] = [label |-> l, active |-> c, resources |-> rs]
      BY <2>1
    <3>3. QED
      BY <3>1, <3>2, Zenon
  <2>4. QED
    BY <2>2, <2>3
<1>8. QED
  BY <1>1, <1>6, <1>7

\* No event reaches a set once the next one has been made, but for the one
\* that makes it inactive.
THEOREM SupersededSetsStay == Spec => SupersededSetsAreKept
<1> DEFINE Superseded == \A n \in DOMAIN sets :
                n < agg'.name /\ n < agg.name =>
                    sets'[n] = [sets[n] EXCEPT !.active = FALSE]
<1>1. ASSUME IInv, IInv', Later(stream, stream') PROVE Superseded
  <2>1. /\ agg.name \in Nat /\ agg'.name \in Nat
        /\ DOMAIN sets = 1..agg.name /\ DOMAIN sets' = 1..agg'.name
        /\ Taken(stream') /\ Formed(stream.sets) /\ Formed(stream'.sets)
    BY <1>1, Resting, RestingNext
  <2>2. ASSUME NEW n \in DOMAIN sets, n < agg'.name, n < agg.name
        PROVE  sets'[n] = [sets[n] EXCEPT !.active = FALSE]
    BY <1>1, <2>1, <2>2, Superseding DEF sets, agg
  <2>3. QED
    BY <2>2
<1>2. ASSUME IInv, Next PROVE Later(stream, stream')
  BY <1>2, CreateKeeps, PassKeeps, DeleteKeeps DEF Next
<1>3. IInv /\ [Next]_vars => [Superseded]_vars
  BY <1>1, <1>2, Stepwise
<1>4. QED
  BY <1>3, Inductive, PTL DEF Spec, SupersededSetsAreKept
=============================================================================
