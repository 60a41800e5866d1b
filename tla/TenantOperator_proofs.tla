----------------------- MODULE TenantOperator_proofs ------------------------
(***************************************************************************)
(* Proofs about a live tenant under the operator, for any blueprints,      *)
(* templates, flag, reported ids and bounds.                               *)
(*                                                                         *)
(* The Tenant controller works on a stream that may be old.  The invariant *)
(* ties everything to that view of it, whose number Top only grows: the    *)
(* states of the ResourceSets between the cache and the cluster (History), *)
(* what the ResourceSet controller has seen of them (Past), and what a     *)
(* pass has left to write (Writing).                                       *)
(***************************************************************************)
EXTENDS TenantOperator, Lemmas

-----------------------------------------------------------------------------
(* The inductive invariant. *)

\* The stream that the Tenant controller works on, or will at the earliest.
View == IF pass.at = "idle" THEN Cached(chunks) ELSE pass.view
Top  == View.agg.name

Readable(x) == (\E E : Rests(x, E)) /\ Formed(x.sets) /\ Summed(x)

\* Streams only move on, from the view to the cached and to the stored one.
Streams ==
    /\ IsList(chunks) /\ chunks # << >>
    /\ \A i \in DOMAIN chunks : Readable(chunks[i])
    /\ \A i, j \in DOMAIN chunks : i < j => Later(chunks[i], chunks[j])
    /\ Readable(View) /\ Later(View, Cached(chunks))

ActiveIn(x) == {n \in DOMAIN x : x[n].active}
IsObject(s) ==
    /\ s = [active |-> s.active, resources |-> s.resources, deleting |-> s.deleting]
    /\ s.active \in BOOLEAN /\ s.deleting \in BOOLEAN

\* A state of the ResourceSets that passes with views up to number top have
\* written: only the first set can be left active beside another one, when
\* the flag has dropped it, and only the first one can be deleted.
Holds(x, top) ==
    /\ x = [n \in DOMAIN x |-> x[n]]
    /\ DOMAIN x \subseteq 1..top
    /\ \A n \in DOMAIN x :
         /\ IsObject(x[n])
         /\ ~x[n].active => n < top
         /\ x[n].deleting => ~x[n].active /\ n = 1
    /\ \A m, n \in ActiveIn(x) : n < m => n = 1 /\ m > MaxTenantResourceSets

\* A later state: only a new set becomes active, a set that was dropped while
\* it was active stays so, and only the first set can go.
Moves(x, y) ==
    /\ \A n \in ActiveIn(y) : n \in ActiveIn(x) \/ \A w \in DOMAIN x : w < n
    /\ 1 \in ActiveIn(x) /\ (\E w \in DOMAIN x : w > MaxTenantResourceSets) => 1 \in ActiveIn(y)
    /\ \A n \in DOMAIN x : n # 1 => n \in DOMAIN y

History(feed, top) ==
    /\ IsList(feed) /\ feed # << >>
    /\ \A i \in DOMAIN feed : Holds(feed[i], top)
    /\ \A i, j \in DOMAIN feed : i < j => Moves(feed[i], feed[j])

\* Set w has been seen active: in the states from there on the older ones are
\* not, but for the first one if it was dropped, which then stays as it is.
Past(w, feed, top) ==
    /\ w \in 0..top
    /\ w # 0 => \A i \in DOMAIN feed : \A n \in ActiveIn(feed[i]) :
                    n < w => n = 1 /\ w > MaxTenantResourceSets
    /\ w > MaxTenantResourceSets =>
           \A i, j \in DOMAIN feed : i < j /\ 1 \in ActiveIn(feed[i]) => 1 \in ActiveIn(feed[j])

\* Only the first set is ever applied after a newer one, when it was dropped
\* and is still active.
Lags(w, x, latest) ==
    w # 0 /\ w < latest => w = 1 /\ 1 \in ActiveIn(x) /\ latest > MaxTenantResourceSets

\* What is left to write, with the active set last; of the other sets of the
\* view none is active that has been written.
Writing(p, x) ==
    p.at = "sets" =>
        /\ IsList(p.todo)
        /\ ToSet(p.todo) \subseteq Kept(p.view)
        /\ \A i \in DOMAIN p.todo : p.todo[i] = p.view.agg.name => i = Len(p.todo)
        /\ \A n \in Kept(p.view) \ ToSet(p.todo) : n # p.view.agg.name => n \notin ActiveIn(x)

Types ==
    /\ blueprint \in Blueprints
    /\ pass.at \in {"idle", "sets", "orphans", "save"}
    /\ pass = [at |-> pass.at, view |-> pass.view, todo |-> pass.todo]
    /\ worker = [set |-> worker.set, todo |-> worker.todo, ids |-> worker.ids]
    /\ DOMAIN status \subseteq DOMAIN live
    /\ changes \in 0..MaxChanges /\ faults \in 0..MaxFaults

InStep ==
    /\ History(sets, Top)
    /\ Past(worker.set, sets, Top) /\ Past(newest, sets, Top)
    /\ Lags(worker.set, Stored(sets), newest)

IInv == Types /\ Streams /\ InStep /\ Writing(pass, Stored(sets))

-----------------------------------------------------------------------------
(* Feeds, as lists. *)

LEMMA ListEnds ==
  ASSUME NEW feed, IsList(feed), feed # << >>
  PROVE  /\ Len(feed) \in Nat \ {0} /\ DOMAIN feed = 1..Len(feed)
         /\ Cached(feed) = feed[1] /\ Stored(feed) = feed[Len(feed)]
         /\ 1 \in DOMAIN feed /\ Len(feed) \in DOMAIN feed
<1>1. feed \in Feeds(ToSet(feed))
  BY DEF Feeds, IsList
<1>2. QED
  BY <1>1, FeedEnds, ListFacts

\* An index of the feed after a write is one from before, or the last one.
LEMMA PublishList ==
  ASSUME NEW feed, IsList(feed), feed # << >>, NEW s
  PROVE  LET p == Publish(feed, s)
         IN  /\ IsList(p) /\ p # << >>
             /\ Stored(p) = s /\ Cached(p) = Cached(feed)
             /\ \A i \in DOMAIN p : \/ i \in DOMAIN feed /\ p[i] = feed[i]
                                    \/ (\A j \in DOMAIN feed : j < i) /\ p[i] = s
             /\ \A i, j \in DOMAIN p : i < j => i \in DOMAIN feed /\ p[i] = feed[i]
<1>1. CASE s = Stored(feed)
  BY <1>1, ListEnds DEF Publish
<1>2. CASE s # Stored(feed)
  <2>1. PICK p : p = Append(feed, s)
    OBVIOUS
  <2>2. PICK n \in Nat \ {0} : n = Len(feed) /\ DOMAIN feed = 1..n /\ Cached(feed) = feed[1]
    BY ListEnds
  <2>3. /\ IsList(p) /\ Len(p) = n + 1 /\ p[n + 1] = s
        /\ \A i \in 1..n : p[i] = feed[i]
    BY <2>1, <2>2, AppendList
  <2>4. DOMAIN p = 1..(n + 1)
    BY <2>3, ListFacts
  <2>5. p # << >>
    BY <2>3, <2>2, EmptyList
  <2>6. Stored(p) = s /\ Cached(p) = feed[1]
    BY <2>2, <2>3, <2>4, <2>5, ListEnds
  <2>7. \A i \in DOMAIN p : \/ i \in DOMAIN feed /\ p[i] = feed[i]
                            \/ (\A j \in DOMAIN feed : j < i) /\ p[i] = s
    BY <2>2, <2>3, <2>4
  <2>8. \A i, j \in DOMAIN p : i < j => i \in DOMAIN feed /\ p[i] = feed[i]
    BY <2>2, <2>3, <2>4
  <2>9. Publish(feed, s) = p
    BY <1>2, <2>1 DEF Publish
  <2>10. QED
    BY <2>2, <2>3, <2>5, <2>6, <2>7, <2>8, <2>9
<1>3. QED
  BY <1>1, <1>2

LEMMA DeliverList ==
  ASSUME NEW feed, IsList(feed), Len(feed) > 1
  PROVE  /\ feed # << >> /\ IsList(Tail(feed)) /\ Tail(feed) # << >>
         /\ Stored(Tail(feed)) = Stored(feed)
         /\ Cached(Tail(feed)) = feed[2] /\ 2 \in DOMAIN feed
         /\ \A i \in DOMAIN Tail(feed) : i + 1 \in DOMAIN feed /\ Tail(feed)[i] = feed[i + 1]
<1>1. PICK n \in Nat : n = Len(feed) /\ DOMAIN feed = 1..n /\ n > 1
  BY ListFacts
<1>2. feed # << >>
  BY <1>1, EmptyList
<1>3. feed \in Feeds(ToSet(feed))
  BY <1>2 DEF Feeds, IsList
<1>4. PICK t : t = Tail(feed)
  OBVIOUS
<1>5. /\ t \in Feeds(ToSet(feed)) /\ Stored(t) = Stored(feed) /\ Cached(t) = feed[2]
      /\ Len(t) = n - 1 /\ \A i \in 1..(n - 1) : t[i] = feed[i + 1]
  BY <1>1, <1>3, <1>4, DeliverFeed
<1>6. IsList(t) /\ t # << >>
  BY <1>5, SeqIsList DEF Feeds
<1>7. DOMAIN t = 1..(n - 1)
  BY <1>5, <1>6, ListFacts
<1>8. QED
  BY <1>1, <1>2, <1>4, <1>5, <1>6, <1>7

LEMMA RefreshList ==
  ASSUME NEW feed, IsList(feed), feed # << >>
  PROVE  /\ IsList(Refreshed(feed)) /\ Refreshed(feed) # << >>
         /\ Stored(Refreshed(feed)) = Stored(feed) /\ Cached(Refreshed(feed)) = Stored(feed)
         /\ \A i \in DOMAIN Refreshed(feed) : i = 1 /\ Refreshed(feed)[i] = Stored(feed)
<1>1. feed \in Feeds(ToSet(feed))
  BY DEF Feeds, IsList
<1>2. PICK r : r = Refreshed(feed)
  OBVIOUS
<1>3. /\ r \in Feeds(ToSet(feed)) /\ Stored(r) = Stored(feed) /\ Cached(r) = Stored(feed)
      /\ Len(r) = 1 /\ r[1] = Stored(feed)
  BY <1>1, <1>2, RefreshFeed
<1>4. IsList(r) /\ r # << >>
  BY <1>3, SeqIsList DEF Feeds
<1>5. DOMAIN r = 1..1
  BY <1>3, <1>4, ListFacts
<1>6. QED
  BY <1>2, <1>3, <1>4, <1>5

-----------------------------------------------------------------------------
(* The states of the ResourceSets. *)

LEMMA HistoryLasts ==
  ASSUME NEW feed, NEW top \in Nat, NEW higher \in Nat, top <= higher, History(feed, top)
  PROVE  History(feed, higher)
<1>1. ASSUME NEW x, Holds(x, top) PROVE Holds(x, higher)
  <2>1. DOMAIN x \subseteq 1..higher
    BY <1>1 DEF Holds
  <2>2. \A n \in DOMAIN x : ~x[n].active => n < higher
    BY <1>1 DEF Holds
  <2>3. QED
    BY <1>1, <2>1, <2>2 DEF Holds
<1>2. QED
  BY <1>1 DEF History

LEMMA HistoryDelivered ==
  ASSUME NEW feed, NEW top, History(feed, top), Len(feed) > 1
  PROVE  History(Tail(feed), top)
<1>1. PICK t : t = Tail(feed)
  OBVIOUS
<1>2. IsList(feed) /\ DOMAIN feed = 1..Len(feed) /\ Len(feed) \in Nat
  BY ListFacts DEF History
<1>3. /\ IsList(t) /\ t # << >>
      /\ \A i \in DOMAIN t : i + 1 \in DOMAIN feed /\ t[i] = feed[i + 1]
  BY <1>1, <1>2, DeliverList
<1>4. \A i \in DOMAIN t : Holds(t[i], top)
  BY <1>3 DEF History
<1>5. DOMAIN t = 1..Len(t) /\ Len(t) \in Nat
  BY <1>3, ListFacts
<1>6. ASSUME NEW i \in DOMAIN t, NEW j \in DOMAIN t, i < j PROVE Moves(t[i], t[j])
  <2>1. i + 1 \in DOMAIN feed /\ j + 1 \in DOMAIN feed /\ i + 1 < j + 1
    BY <1>3, <1>5, <1>6
  <2>2. t[i] = feed[i + 1] /\ t[j] = feed[j + 1]
    BY <1>3
  <2>3. QED
    BY <2>1, <2>2 DEF History
<1>7. QED
  BY <1>1, <1>3, <1>4, <1>6 DEF History

LEMMA HistoryRefreshed ==
  ASSUME NEW feed, NEW top, History(feed, top)
  PROVE  History(Refreshed(feed), top)
<1>1. PICK r : r = Refreshed(feed)
  OBVIOUS
<1>2. /\ IsList(r) /\ r # << >>
      /\ \A i \in DOMAIN r : i = 1 /\ r[i] = Stored(feed)
  BY <1>1, RefreshList DEF History
<1>3. Holds(Stored(feed), top)
  BY ListEnds DEF History
<1>4. \A i, j \in DOMAIN r : ~(i < j)
  BY <1>2
<1>5. QED
  BY <1>1, <1>2, <1>3, <1>4 DEF History

\* What one write makes of a state, of a pass with view number top.
Follows(x, y, top) ==
    /\ Holds(y, top)
    /\ \A n \in ActiveIn(y) : n \in ActiveIn(x) \/ n = top
    /\ top > MaxTenantResourceSets /\ 1 \in ActiveIn(x) => 1 \in ActiveIn(y)
    /\ \A n \in DOMAIN x : n # 1 => n \in DOMAIN y

LEMMA Following ==
  ASSUME NEW feed, NEW top \in Nat, History(feed, top), NEW y,
         Follows(Stored(feed), y, top), NEW i \in DOMAIN feed
  PROVE  Moves(feed[i], y)
<1>1. PICK x, s : x = feed[i] /\ s = Stored(feed)
  OBVIOUS
<1>2. /\ Len(feed) \in Nat \ {0} /\ DOMAIN feed = 1..Len(feed) /\ s = feed[Len(feed)]
  BY <1>1, ListEnds DEF History
<1>3. s = x \/ Moves(x, s)
  BY <1>1, <1>2 DEF History
<1>4. Holds(x, top) /\ Follows(s, y, top)
  BY <1>1 DEF History
<1>5. DOMAIN x \subseteq 1..top
  BY <1>4 DEF Holds
<1>6. ASSUME NEW n \in ActiveIn(y), n \notin ActiveIn(x), NEW w \in DOMAIN x PROVE w < n
  <2>1. CASE n \in ActiveIn(s)
    BY <1>3, <1>6, <2>1 DEF Moves
  <2>2. CASE n = top
    <3>1. top \notin DOMAIN x
      BY <1>4, <1>6, <2>2 DEF Holds, ActiveIn
    <3>2. QED
      BY <1>5, <2>2, <3>1
  <2>3. QED
    BY <1>4, <1>6, <2>1, <2>2 DEF Follows
<1>7. ASSUME 1 \in ActiveIn(x), NEW w \in DOMAIN x, w > MaxTenantResourceSets
      PROVE  1 \in ActiveIn(y)
  <2>1. top > MaxTenantResourceSets
    BY <1>5, <1>7, FlagAssumption
  <2>2. 1 \in ActiveIn(s)
    BY <1>3, <1>7 DEF Moves
  <2>3. QED
    BY <1>4, <2>1, <2>2 DEF Follows
<1>8. \A n \in DOMAIN x : n # 1 => n \in DOMAIN y
  BY <1>3, <1>4 DEF Moves, Follows
<1>9. QED
  BY <1>1, <1>6, <1>7, <1>8 DEF Moves

LEMMA HistoryWritten ==
  ASSUME NEW feed, NEW top \in Nat, History(feed, top), NEW y, Follows(Stored(feed), y, top)
  PROVE  History(Publish(feed, y), top)
<1>1. PICK p : p = Publish(feed, y)
  OBVIOUS
<1>2. /\ IsList(p) /\ p # << >>
      /\ \A i \in DOMAIN p : \/ i \in DOMAIN feed /\ p[i] = feed[i]
                             \/ (\A j \in DOMAIN feed : j < i) /\ p[i] = y
      /\ \A i, j \in DOMAIN p : i < j => i \in DOMAIN feed /\ p[i] = feed[i]
  BY <1>1, PublishList DEF History
<1>3. Holds(y, top)
  BY DEF Follows
<1>4. \A i \in DOMAIN p : Holds(p[i], top)
  BY <1>2, <1>3 DEF History
<1>5. ASSUME NEW i \in DOMAIN p, NEW j \in DOMAIN p, i < j PROVE Moves(p[i], p[j])
  <2>1. i \in DOMAIN feed /\ p[i] = feed[i]
    BY <1>2, <1>5
  <2>2. CASE j \in DOMAIN feed /\ p[j] = feed[j]
    BY <1>5, <2>1, <2>2 DEF History
  <2>3. CASE p[j] = y
    BY <2>1, <2>3, Following
  <2>4. QED
    BY <1>2, <2>2, <2>3
<1>6. QED
  BY <1>1, <1>2, <1>4, <1>5 DEF History

-----------------------------------------------------------------------------
(* What the ResourceSet controller has seen of them. *)

LEMMA PastLasts ==
  ASSUME NEW w, NEW feed, NEW top \in Nat, NEW higher \in Nat, top <= higher, Past(w, feed, top)
  PROVE  Past(w, feed, higher)
BY DEF Past

LEMMA PastDelivered ==
  ASSUME NEW w, NEW feed, NEW top, History(feed, top), Past(w, feed, top), Len(feed) > 1
  PROVE  Past(w, Tail(feed), top)
<1>1. PICK t : t = Tail(feed)
  OBVIOUS
<1>2. IsList(feed) /\ DOMAIN feed = 1..Len(feed) /\ Len(feed) \in Nat
  BY ListFacts DEF History
<1>3. /\ IsList(t) /\ \A i \in DOMAIN t : i + 1 \in DOMAIN feed /\ t[i] = feed[i + 1]
  BY <1>1, <1>2, DeliverList
<1>4. DOMAIN t = 1..Len(t) /\ Len(t) \in Nat
  BY <1>3, ListFacts
<1>5. ASSUME w # 0, NEW i \in DOMAIN t, NEW n \in ActiveIn(t[i]), n < w
      PROVE  n = 1 /\ w > MaxTenantResourceSets
  <2>1. i + 1 \in DOMAIN feed /\ n \in ActiveIn(feed[i + 1])
    BY <1>3, <1>5
  <2>2. QED
    BY <1>5, <2>1 DEF Past
<1>6. ASSUME w > MaxTenantResourceSets, NEW i \in DOMAIN t, NEW j \in DOMAIN t, i < j,
             1 \in ActiveIn(t[i])
      PROVE  1 \in ActiveIn(t[j])
  <2>1. i + 1 \in DOMAIN feed /\ j + 1 \in DOMAIN feed /\ i + 1 < j + 1
    BY <1>3, <1>4, <1>6
  <2>2. 1 \in ActiveIn(feed[i + 1])
    BY <1>3, <1>6
  <2>3. 1 \in ActiveIn(feed[j + 1])
    BY <1>6, <2>1, <2>2 DEF Past
  <2>4. QED
    BY <1>3, <2>3
<1>7. QED
  BY <1>1, <1>5, <1>6 DEF Past

LEMMA PastRefreshed ==
  ASSUME NEW w, NEW feed, NEW top, History(feed, top), Past(w, feed, top)
  PROVE  Past(w, Refreshed(feed), top)
<1>1. PICK r : r = Refreshed(feed)
  OBVIOUS
<1>2. \A i \in DOMAIN r : i = 1 /\ r[i] = Stored(feed)
  BY <1>1, RefreshList DEF History
<1>3. Len(feed) \in DOMAIN feed /\ Stored(feed) = feed[Len(feed)]
  BY ListEnds DEF History
<1>4. \A i, j \in DOMAIN r : ~(i < j)
  BY <1>2
<1>5. QED
  BY <1>1, <1>2, <1>3, <1>4 DEF Past

LEMMA PastWritten ==
  ASSUME NEW w, NEW feed, NEW top \in Nat, History(feed, top), Past(w, feed, top),
         NEW y, Follows(Stored(feed), y, top)
  PROVE  Past(w, Publish(feed, y), top)
<1>1. PICK p, s : p = Publish(feed, y) /\ s = Stored(feed)
  OBVIOUS
<1>2. /\ \A i \in DOMAIN p : \/ i \in DOMAIN feed /\ p[i] = feed[i]
                             \/ (\A j \in DOMAIN feed : j < i) /\ p[i] = y
      /\ \A i, j \in DOMAIN p : i < j => i \in DOMAIN feed /\ p[i] = feed[i]
  BY <1>1, PublishList DEF History
<1>3. /\ Len(feed) \in Nat \ {0} /\ DOMAIN feed = 1..Len(feed) /\ s = feed[Len(feed)]
  BY <1>1, ListEnds DEF History
<1>4. w \in 0..top /\ Follows(s, y, top)
  BY <1>1 DEF Past
<1>5. ASSUME w # 0, NEW i \in DOMAIN p, NEW n \in ActiveIn(p[i]), n < w
      PROVE  n = 1 /\ w > MaxTenantResourceSets
  <2>1. CASE i \in DOMAIN feed /\ p[i] = feed[i]
    BY <1>5, <2>1 DEF Past
  <2>2. CASE p[i] = y
    <3>1. n \in ActiveIn(s) \/ n = top
      BY <1>4, <1>5, <2>2 DEF Follows
    <3>2. n # top
      BY <1>4, <1>5
    <3>3. QED
      BY <1>3, <1>5, <3>1, <3>2 DEF Past
  <2>3. QED
    BY <1>2, <2>1, <2>2
<1>6. ASSUME w > MaxTenantResourceSets, NEW i \in DOMAIN p, NEW j \in DOMAIN p, i < j,
             1 \in ActiveIn(p[i])
      PROVE  1 \in ActiveIn(p[j])
  <2>1. i \in DOMAIN feed /\ 1 \in ActiveIn(feed[i])
    BY <1>2, <1>6
  <2>2. CASE j \in DOMAIN feed /\ p[j] = feed[j]
    BY <1>6, <2>1, <2>2 DEF Past
  <2>3. CASE p[j] = y
    <3>1. i = Len(feed) \/ i < Len(feed)
      BY <1>3, <2>1
    <3>2. 1 \in ActiveIn(s)
      BY <1>3, <1>6, <2>1, <3>1 DEF Past
    <3>3. top > MaxTenantResourceSets
      BY <1>4, <1>6, FlagAssumption
    <3>4. QED
      BY <1>4, <2>3, <3>2, <3>3 DEF Follows
  <2>4. QED
    BY <1>2, <2>2, <2>3
<1>7. QED
  BY <1>1, <1>4, <1>5, <1>6 DEF Past

\* A set that the cache shows active has been seen.
LEMMA SeenActive ==
  ASSUME NEW feed, NEW top \in Nat, History(feed, top), NEW w \in ActiveIn(Cached(feed))
  PROVE  Past(w, feed, top)
<1>1. /\ Len(feed) \in Nat \ {0} /\ DOMAIN feed = 1..Len(feed) /\ Cached(feed) = feed[1]
  BY ListEnds DEF History
<1>2. PICK x : x = feed[1]
  OBVIOUS
<1>3. Holds(x, top) /\ w \in DOMAIN x /\ w \in ActiveIn(x)
  BY <1>1, <1>2 DEF History, ActiveIn
<1>4. w \in 1..top
  BY <1>3 DEF Holds
<1>5. ASSUME NEW i \in DOMAIN feed PROVE feed[i] = x \/ Moves(x, feed[i])
  BY <1>1, <1>2 DEF History
<1>6. ASSUME NEW i \in DOMAIN feed, NEW n \in ActiveIn(feed[i]), n < w
      PROVE  n = 1 /\ w > MaxTenantResourceSets
  <2>1. Holds(feed[i], top)
    BY DEF History
  <2>2. n \in 1..top
    BY <2>1 DEF Holds, ActiveIn
  <2>3. n \in ActiveIn(x) \/ w < n
    BY <1>3, <1>5 DEF Moves
  <2>4. n \in ActiveIn(x)
    BY <1>4, <1>6, <2>2, <2>3
  <2>5. QED
    BY <1>3, <1>6, <2>4 DEF Holds
<1>7. ASSUME w > MaxTenantResourceSets, NEW i \in DOMAIN feed, NEW j \in DOMAIN feed, i < j,
             1 \in ActiveIn(feed[i])
      PROVE  1 \in ActiveIn(feed[j])
  <2>1. w # 1
    BY <1>4, <1>7, FlagAssumption
  <2>2. w \in DOMAIN feed[i]
    BY <1>3, <1>5, <2>1 DEF Moves
  <2>3. Moves(feed[i], feed[j])
    BY <1>7 DEF History
  <2>4. QED
    BY <1>7, <2>2, <2>3 DEF Moves
<1>8. QED
  BY <1>4, <1>6, <1>7 DEF Past

-----------------------------------------------------------------------------
(* Views. *)

LEMMA ViewFacts ==
  ASSUME NEW v, Readable(v)
  PROVE  /\ v.agg.name \in Nat /\ Len(v.sets.sets) = v.agg.name
         /\ DOMAIN v.sets.sets = 1..v.agg.name
         /\ \A n \in 1..v.agg.name : v.sets.sets[n].active = (n = v.agg.name)
<1>1. PICK E : Rests(v, E)
  BY DEF Readable
<1>2. Shapes(v) /\ Numbered(v) /\ Taken(v)
  BY <1>1 DEF Rests, Sound
<1>3. v.agg.name \in Nat /\ Len(v.sets.sets) = v.agg.name
  BY <1>2 DEF Numbered
<1>4. DOMAIN v.sets.sets = 1..v.agg.name
  BY <1>2, SetDomain
<1>5. \A n \in 1..v.agg.name : v.sets.sets[n].active = (n = v.agg.name)
  BY <1>2, Zenon DEF Taken
<1>6. QED
  BY <1>3, <1>4, <1>5

\* The sets that are kept are all of them, or all but the first.
LEMMA KeptOnes ==
  ASSUME NEW v, Readable(v)
  PROVE  \E a \in {1, 2} : /\ Kept(v) = a..v.agg.name
                           /\ a = 2 <=> v.agg.name > MaxTenantResourceSets
<1>1. PICK k \in Nat : k = v.agg.name /\ Len(v.sets.sets) = k /\ DOMAIN v.sets.sets = 1..k
  BY ViewFacts
<1>2. CASE k > MaxTenantResourceSets
  <2>1. Kept(v) = (1..k) \ {1}
    BY <1>1, <1>2 DEF Kept, Oldest
  <2>2. (1..k) \ {1} = 2..k
    BY <1>1
  <2>3. QED
    BY <1>1, <1>2, <2>1, <2>2
<1>3. CASE ~(k > MaxTenantResourceSets)
  <2>1. Kept(v) = 1..k
    BY <1>1, <1>3 DEF Kept, Oldest
  <2>2. QED
    BY <1>1, <1>3, <2>1
<1>4. QED
  BY <1>2, <1>3

\* The sets are written one after the other, and the active one last.
Arranged(q, v) ==
    /\ IsList(q) /\ ToSet(q) = Kept(v)
    /\ \A i \in DOMAIN q : q[i] = v.agg.name => i = Len(q)

LEMMA Arrangement ==
  ASSUME NEW v, Readable(v)
  PROVE  Arranged(ActiveLast(v), v)
<1>1. PICK k \in Nat : k = v.agg.name /\ \A n \in 1..k : v.sets.sets[n].active = (n = k)
  BY ViewFacts
<1>2. PICK a \in {1, 2} : Kept(v) = a..k /\ (a = 2 => k > MaxTenantResourceSets)
  BY <1>1, KeptOnes
<1>3. PICK c \in Nat : c = k - a + 1 /\ a \in Int
  BY <1>1, <1>2, FlagAssumption
<1>4. PICK S : S = Kept(v)
  OBVIOUS
<1>5. IsFiniteSet(S) /\ Cardinality(S) = c
  <2>1. IsFiniteSet(a..k) /\ Cardinality(a..k) = IF a > k THEN 0 ELSE k - a + 1
    <3>1. a \in Int /\ k \in Int
      BY <1>3
    <3>2. QED
      BY <3>1, FS_Interval, Zenon
  <2>2. Cardinality(a..k) = c
    BY <1>3, <2>1
  <2>3. S = a..k
    BY <1>2, <1>4
  <2>4. QED
    BY <2>1, <2>2, <2>3
<1> DEFINE Fits(q) == \A i, j \in DOMAIN q : i < j => Before(v, q[i], q[j])
           f == [i \in 1..c |-> IF i = c THEN k ELSE k - i]
<1>6. f \in [1..c -> S] /\ Fits(f)
  <2>1. ASSUME NEW i \in 1..c PROVE f[i] \in S
    <3>1. k - i \in Int /\ (i # c => k - i >= a /\ k - i <= k) /\ a <= k
      BY <1>3
    <3>2. k \in a..k /\ (i # c => k - i \in a..k)
      BY <1>3, <3>1
    <3>3. f[i] = k \/ (i # c /\ f[i] = k - i)
      OBVIOUS
    <3>4. a..k = S
      BY <1>2, <1>4
    <3> HIDE DEF f
    <3>5. QED
      BY <3>2, <3>3, <3>4
  <2>2. ASSUME NEW i \in 1..c, NEW j \in 1..c, i < j PROVE Before(v, f[i], f[j])
    <3>1. f[i] = k - i /\ f[i] \in 1..k /\ f[i] # k
      <4>1. i # c /\ k - i \in 1..k /\ k - i # k
        <5>1. a >= 1 /\ i \in Nat /\ i >= 1 /\ j \in Nat /\ j <= c
          BY <1>3
        <5>2. i <= k - a /\ i # c
          BY <1>3, <2>2, <5>1
        <5>3. QED
          BY <1>3, <5>1, <5>2
      <4>2. f[i] = k - i
        BY <4>1
      <4>3. QED
        BY <4>1, <4>2, Zenon
    <3>2. v.sets.sets[f[i]].active = FALSE
      <4>1. v.sets.sets[f[i]].active = (f[i] = k)
        BY <1>1, <3>1, Zenon
      <4>2. QED
        BY <3>1, <4>1, Zenon
    <3>3. CASE j = c
      <4>1. f[j] = k /\ k \in 1..k
        BY <1>1, <1>2, <1>3, <2>2, <3>3
      <4>2. v.sets.sets[f[j]].active = (f[j] = k)
        BY <1>1, <4>1, Zenon
      <4>3. v.sets.sets[f[j]].active
        BY <4>1, <4>2, Zenon
      <4>4. QED
        BY <3>2, <4>3, Zenon DEF Before
    <3>4. CASE j # c
      <4>1. f[i] > f[j]
        BY <1>1, <1>2, <1>3, <2>2, <3>1, <3>4
      <4>2. QED
        BY <3>2, <4>1, Zenon DEF Before
    <3>5. QED
      BY <3>3, <3>4
  <2>3. QED
    BY <2>1, <2>2
<1>7. PICK q : q = ActiveLast(v)
  OBVIOUS
<1>8. q = CHOOSE r \in [1..Cardinality(S) -> S] : Fits(r)
  BY <1>4, <1>7 DEF ActiveLast, InOrder
<1> HIDE DEF f
<1>9. q \in [1..c -> S] /\ Fits(q)
  <2> HIDE DEF Fits
  <2>1. QED
    BY <1>5, <1>6, <1>8
<1>10. IsList(q) /\ Len(q) = c /\ DOMAIN q = 1..c
  BY <1>9, IsListBy
<1>11. ASSUME NEW i \in 1..c, NEW j \in 1..c, i < j
       PROVE  v.sets.sets[q[i]].active # TRUE /\ (v.sets.sets[q[j]].active \/ q[i] > q[j])
  BY <1>9, <1>10, <1>11 DEF Before
<1>12. ASSUME NEW i \in 1..c, q[i] = k PROVE i = c
  <2> SUFFICES ASSUME i # c PROVE FALSE
    OBVIOUS
  <2>1. c \in 1..c /\ i < c
    BY <1>3
  <2>2. v.sets.sets[q[i]].active # TRUE
    BY <1>11, <2>1
  <2>3. k \in 1..k
    BY <1>1, <1>2, <1>4, <1>9, <1>12
  <2>4. v.sets.sets[k].active = (k = k)
    BY <1>1, <2>3, Zenon
  <2>5. QED
    BY <1>12, <2>2, <2>4, Zenon
<1>13. ASSUME NEW i \in 1..c, NEW j \in 1..c, i < j PROVE q[i] # q[j]
  <2>1. v.sets.sets[q[i]].active # TRUE /\ (v.sets.sets[q[j]].active \/ q[i] > q[j])
    BY <1>11, <1>13
  <2>2. q[i] \in 1..k /\ q[j] \in 1..k
    BY <1>1, <1>2, <1>4, <1>9
  <2>3. v.sets.sets[q[j]].active \in BOOLEAN
    BY <1>1, <2>2
  <2>4. ASSUME q[i] = q[j] PROVE FALSE
    <3>1. ~(q[i] > q[j])
      BY <2>2, <2>4
    <3>2. QED
      BY <2>1, <2>3, <2>4, <3>1
  <2>5. QED
    BY <2>4
<1>14. q \in Injection(1..c, S)
  <2>1. \A i, j \in 1..c : q[i] = q[j] => i = j
    BY <1>13
  <2>2. QED
    BY <1>9, <2>1 DEF Injection, IsInjective
<1>15. ToSet(q) = S
  <2>1. IsFiniteSet(1..c) /\ Cardinality(1..c) = c
    BY FS_Interval
  <2>2. q \in Surjection(1..c, S)
    BY <1>5, <1>14, <2>1, FS_Injection
  <2>3. \A s \in S : \E i \in 1..c : q[i] = s
    BY <2>2 DEF Surjection
  <2>4. QED
    BY <1>9, <1>10, <2>3 DEF ToSet
<1>16. QED
  BY <1>1, <1>4, <1>7, <1>10, <1>12, <1>15 DEF Arranged

-----------------------------------------------------------------------------
(* What the Tenant controller reads. *)

LEMMA ReadStreams ==
  ASSUME Streams
  PROVE  /\ Cached(chunks) = chunks[1] /\ 1 \in DOMAIN chunks
         /\ Stored(chunks) = chunks[Len(chunks)] /\ Len(chunks) \in DOMAIN chunks
         /\ Len(chunks) \in Nat \ {0} /\ DOMAIN chunks = 1..Len(chunks)
         /\ \A i \in DOMAIN chunks : chunks[i].agg.name \in Nat
         /\ \A i \in DOMAIN chunks : Later(chunks[1], chunks[i]) /\ Later(View, chunks[i])
         /\ Top \in Nat /\ Top <= chunks[1].agg.name
         /\ \A i \in DOMAIN chunks : Top <= chunks[i].agg.name
<1>1. /\ Cached(chunks) = chunks[1] /\ 1 \in DOMAIN chunks
      /\ Stored(chunks) = chunks[Len(chunks)] /\ Len(chunks) \in DOMAIN chunks
      /\ Len(chunks) \in Nat \ {0} /\ DOMAIN chunks = 1..Len(chunks)
  BY ListEnds DEF Streams
<1>2. \A i \in DOMAIN chunks : chunks[i].agg.name \in Nat
  BY ViewFacts DEF Streams
<1>3. View.agg.name \in Nat
  BY ViewFacts DEF Streams
<1>4. ASSUME NEW i \in DOMAIN chunks PROVE Later(chunks[1], chunks[i])
  <2>1. CASE i = 1
    BY <1>1, <1>2, <2>1, LaterRefl
  <2>2. CASE i # 1
    BY <1>1, <2>2 DEF Streams
  <2>3. QED
    BY <2>1, <2>2
<1>5. ASSUME NEW i \in DOMAIN chunks PROVE Later(View, chunks[i])
  <2>1. Later(View, chunks[1])
    BY <1>1 DEF Streams
  <2>2. Later(chunks[1], chunks[i])
    BY <1>4
  <2>3. QED
    BY <1>1, <1>2, <1>3, <2>1, <2>2, LaterTrans
<1>6. \A i \in DOMAIN chunks : Top <= chunks[i].agg.name
  BY <1>5 DEF Top, Later
<1>7. QED
  BY <1>1, <1>2, <1>3, <1>4, <1>5, <1>6 DEF Top

\* While a pass goes on, it keeps its view.
LEMMA SameView ==
  ASSUME Streams, chunks' = chunks, View' = View
  PROVE  Streams' /\ Top' = Top
BY DEF Streams, Top

LEMMA PassGoesOn ==
  ASSUME pass.at # "idle", pass'.at # "idle", pass'.view = pass.view
  PROVE  View' = View
BY DEF View

\* When it has ended, the next one reads the cache.
LEMMA PassEndsReading ==
  ASSUME Streams, chunks' = chunks, pass' = Idle
  PROVE  Streams' /\ Top' \in Nat /\ Top <= Top'
<1>1. View' = Cached(chunks)
  BY DEF View, Idle
<1>2. Readable(Cached(chunks)) /\ Later(Cached(chunks), Cached(chunks))
  BY ReadStreams, LaterRefl DEF Streams
<1>3. Streams'
  BY <1>1, <1>2 DEF Streams
<1>4. Top' \in Nat /\ Top <= Top'
  BY <1>1, ReadStreams DEF Top
<1>5. QED
  BY <1>3, <1>4

LEMMA ChunkDelivered ==
  ASSUME Streams, Len(chunks) > 1, chunks' = Tail(chunks), pass' = pass
  PROVE  Streams' /\ Top' \in Nat /\ Top <= Top'
<1>1. PICK t : t = Tail(chunks)
  OBVIOUS
<1>2. /\ IsList(t) /\ t # << >>
      /\ Cached(t) = chunks[2] /\ 2 \in DOMAIN chunks
      /\ \A i \in DOMAIN t : i + 1 \in DOMAIN chunks /\ t[i] = chunks[i + 1]
  BY <1>1, DeliverList DEF Streams
<1>3. DOMAIN t = 1..Len(t) /\ Len(t) \in Nat
  BY <1>2, ListFacts
<1>4. \A i \in DOMAIN t : Readable(t[i])
  BY <1>2 DEF Streams
<1>5. ASSUME NEW i \in DOMAIN t, NEW j \in DOMAIN t, i < j PROVE Later(t[i], t[j])
  <2>1. i + 1 \in DOMAIN chunks /\ j + 1 \in DOMAIN chunks /\ i + 1 < j + 1
    BY <1>2, <1>3, <1>5
  <2>2. QED
    BY <1>2, <2>1 DEF Streams
<1>6. /\ Readable(View') /\ Later(View', Cached(t)) /\ Top' \in Nat /\ Top <= Top'
  <2>1. CASE pass.at = "idle"
    <3>1. View' = chunks[2]
      BY <1>1, <1>2, <2>1 DEF View
    <3>2. Readable(chunks[2]) /\ chunks[2].agg.name \in Nat /\ Top <= chunks[2].agg.name
      BY <1>2, ReadStreams DEF Streams
    <3>3. QED
      BY <1>2, <3>1, <3>2, LaterRefl DEF Top
  <2>2. CASE pass.at # "idle"
    <3>1. View' = View
      BY <2>2 DEF View
    <3>2. Later(View, chunks[2]) /\ Top \in Nat
      BY <1>2, ReadStreams
    <3>3. QED
      BY <1>2, <3>1, <3>2 DEF Top, Streams
  <2>3. QED
    BY <2>1, <2>2
<1>7. QED
  BY <1>1, <1>2, <1>4, <1>5, <1>6 DEF Streams

LEMMA ChunksRefreshed ==
  ASSUME Streams, chunks' = Refreshed(chunks), pass' = Idle
  PROVE  Streams' /\ Top' \in Nat /\ Top <= Top'
<1>1. PICK r, s : r = Refreshed(chunks) /\ s = Stored(chunks)
  OBVIOUS
<1>2. /\ IsList(r) /\ r # << >> /\ Cached(r) = s
      /\ \A i \in DOMAIN r : i = 1 /\ r[i] = s
  BY <1>1, RefreshList DEF Streams
<1>3. Readable(s) /\ s.agg.name \in Nat /\ Top <= s.agg.name
  BY <1>1, ReadStreams DEF Streams
<1>4. \A i, j \in DOMAIN r : ~(i < j)
  BY <1>2
<1>5. View' = s
  BY <1>1, <1>2 DEF View, Idle
<1>6. Streams'
  BY <1>1, <1>2, <1>3, <1>4, <1>5, LaterRefl DEF Streams
<1>7. QED
  BY <1>3, <1>5, <1>6 DEF Top

LEMMA ChunkStored ==
  ASSUME Streams, NEW s, Readable(s), Later(Stored(chunks), s),
         chunks' = Publish(chunks, s), pass' = Idle
  PROVE  Streams' /\ Top' \in Nat /\ Top <= Top'
<1>1. PICK p : p = Publish(chunks, s)
  OBVIOUS
<1>2. /\ IsList(p) /\ p # << >> /\ Cached(p) = Cached(chunks)
      /\ \A i \in DOMAIN p : \/ i \in DOMAIN chunks /\ p[i] = chunks[i]
                             \/ (\A j \in DOMAIN chunks : j < i) /\ p[i] = s
      /\ \A i, j \in DOMAIN p : i < j => i \in DOMAIN chunks /\ p[i] = chunks[i]
  BY <1>1, PublishList DEF Streams
<1>3. \A i \in DOMAIN p : Readable(p[i])
  BY <1>2 DEF Streams
<1>4. ASSUME NEW i \in DOMAIN chunks PROVE Later(chunks[i], s)
  <2>1. PICK n \in Nat : n = Len(chunks) /\ DOMAIN chunks = 1..n /\ n \in DOMAIN chunks
                         /\ Stored(chunks) = chunks[n]
    BY ReadStreams
  <2>2. i = n \/ Later(chunks[i], chunks[n])
    BY <2>1 DEF Streams
  <2>3. chunks[i].agg.name \in Nat /\ chunks[n].agg.name \in Nat /\ s.agg.name \in Nat
    BY <2>1, ReadStreams, ViewFacts
  <2>4. QED
    BY <2>1, <2>2, <2>3, LaterTrans
<1>5. ASSUME NEW i \in DOMAIN p, NEW j \in DOMAIN p, i < j PROVE Later(p[i], p[j])
  <2>1. i \in DOMAIN chunks /\ p[i] = chunks[i]
    BY <1>2, <1>5
  <2>2. CASE j \in DOMAIN chunks /\ p[j] = chunks[j]
    BY <1>5, <2>1, <2>2 DEF Streams
  <2>3. CASE p[j] = s
    BY <1>4, <2>1, <2>3
  <2>4. QED
    BY <1>2, <2>2, <2>3
<1>6. View' = Cached(chunks)
  BY <1>1, <1>2 DEF View, Idle
<1>7. Readable(Cached(chunks)) /\ Later(Cached(chunks), Cached(chunks))
  BY ReadStreams, LaterRefl DEF Streams
<1>8. Streams'
  BY <1>1, <1>2, <1>3, <1>5, <1>6, <1>7 DEF Streams
<1>9. Top' \in Nat /\ Top <= Top'
  BY <1>6, ReadStreams DEF Top
<1>10. QED
  BY <1>8, <1>9

-----------------------------------------------------------------------------
(* What the controllers make of the ResourceSets. *)

LEMMA TailList ==
  ASSUME NEW q, IsList(q), q # << >>
  PROVE  /\ IsList(Tail(q)) /\ Head(q) = q[1]
         /\ ToSet(q) = {Head(q)} \cup ToSet(Tail(q))
         /\ Len(q) \in Nat \ {0} /\ DOMAIN q = 1..Len(q)
         /\ \A i \in DOMAIN Tail(q) : i + 1 \in DOMAIN q /\ Tail(q)[i] = q[i + 1]
         /\ Len(Tail(q)) = Len(q) - 1
<1>1. q \in Seq(ToSet(q))
  BY DEF IsList
<1>2. PICK n \in Nat \ {0} : n = Len(q) /\ DOMAIN q = 1..n
  BY <1>1
<1>3. PICK t : t = Tail(q)
  OBVIOUS
<1>4. /\ t \in Seq(ToSet(q)) /\ Len(t) = n - 1 /\ Head(q) = q[1]
      /\ DOMAIN t = 1..(n - 1) /\ \A i \in 1..(n - 1) : t[i] = q[i + 1]
  BY <1>1, <1>2, <1>3
<1>5. IsList(t)
  BY <1>4, SeqIsList
<1>6. \A i \in DOMAIN t : i + 1 \in DOMAIN q /\ t[i] = q[i + 1]
  BY <1>2, <1>4
<1>7. ToSet(q) = {q[1]} \cup ToSet(t)
  <2>1. ASSUME NEW i \in DOMAIN q PROVE q[i] \in {q[1]} \cup ToSet(t)
    <3>1. CASE i = 1
      BY <3>1
    <3>2. CASE i # 1
      <4>1. i - 1 \in DOMAIN t /\ t[i - 1] = q[i]
        BY <1>2, <1>4, <3>2
      <4>2. QED
        BY <4>1 DEF ToSet
    <3>3. QED
      BY <3>1, <3>2
  <2>2. 1 \in DOMAIN q
    BY <1>2
  <2>3. QED
    BY <1>6, <2>1, <2>2 DEF ToSet
<1>8. QED
  BY <1>2, <1>3, <1>4, <1>5, <1>6, <1>7

\* A write of set n of the view.
LEMMA WrittenFollows ==
  ASSUME NEW v, Readable(v), NEW x, Holds(x, v.agg.name), NEW n \in Kept(v), NEW rs,
         n = v.agg.name =>
             \A m \in Kept(v) : m # n => m \notin ActiveIn(x)
  PROVE  LET y == Put(x, n, [active |-> v.sets.sets[n].active, resources |-> rs,
                             deleting |-> n \in DOMAIN x /\ x[n].deleting])
         IN  /\ Follows(x, y, v.agg.name)
             /\ ActiveIn(y) \ {n} \subseteq ActiveIn(x)
             /\ n # v.agg.name => n \notin ActiveIn(y)
<1>1. PICK k \in Nat : k = v.agg.name /\ \A m \in 1..k : v.sets.sets[m].active = (m = k)
  BY ViewFacts
<1>2. PICK a \in {1, 2} : Kept(v) = a..k /\ (a = 2 <=> k > MaxTenantResourceSets)
  BY <1>1, KeptOnes
<1>3. n \in 1..k
  BY <1>1, <1>2
<1>4. PICK act \in BOOLEAN : act = v.sets.sets[n].active /\ (act <=> n = k)
  <2>1. v.sets.sets[n].active = (n = k)
    BY <1>1, <1>3, Zenon
  <2>2. QED
    BY <2>1, Zenon
<1>5. PICK r : r = [active |-> act, resources |-> rs, deleting |-> n \in DOMAIN x /\ x[n].deleting]
  OBVIOUS
<1>6. PICK y : y = Put(x, n, r)
  OBVIOUS
<1>7. /\ y = [m \in DOMAIN y |-> y[m]] /\ DOMAIN y = DOMAIN x \cup {n}
      /\ y[n] = r /\ \A m \in DOMAIN x \ {n} : y[m] = x[m]
  BY <1>6 DEF Put
<1>8. DOMAIN x \subseteq 1..k /\ DOMAIN y \subseteq 1..k
  BY <1>1, <1>3, <1>7 DEF Holds
<1>9. ActiveIn(y) \ {n} \subseteq ActiveIn(x) /\ ActiveIn(x) \ {n} \subseteq ActiveIn(y)
  BY <1>7 DEF ActiveIn
<1>10. n \in ActiveIn(y) <=> n = k
  BY <1>4, <1>5, <1>7 DEF ActiveIn
<1>11. r.deleting \in BOOLEAN /\ (r.deleting => n \in DOMAIN x /\ x[n].deleting)
  <2>1. n \in DOMAIN x => x[n].deleting \in BOOLEAN
    BY DEF Holds, IsObject
  <2>2. r.deleting = (n \in DOMAIN x /\ x[n].deleting)
    BY <1>5
  <2>3. QED
    BY <2>1, <2>2
<1>12. IsObject(r)
  BY <1>5, <1>11 DEF IsObject
<1>13. ASSUME NEW m \in DOMAIN y
       PROVE  /\ IsObject(y[m])
              /\ ~y[m].active => m < k
              /\ y[m].deleting => ~y[m].active /\ m = 1
  <2>1. CASE m # n
    BY <1>1, <1>7, <2>1 DEF Holds
  <2>2. CASE m = n
    <3>1. ~r.active => n < k
      BY <1>3, <1>4, <1>5
    <3>2. r.deleting => n = 1 /\ n < k
      BY <1>1, <1>11 DEF Holds
    <3>3. r.active <=> n = k
      BY <1>4, <1>5
    <3>4. n < k => ~r.active
      BY <1>3, <3>3
    <3>5. QED
      BY <1>7, <1>12, <2>2, <3>1, <3>2, <3>4
  <2>3. QED
    BY <2>1, <2>2
<1>14. ASSUME NEW m \in ActiveIn(y), NEW l \in ActiveIn(y), l < m
       PROVE  l = 1 /\ m > MaxTenantResourceSets
  <2>1. CASE n # k
    <3>1. m \in ActiveIn(x) /\ l \in ActiveIn(x)
      BY <1>9, <1>10, <1>14, <2>1
    <3>2. QED
      BY <1>14, <3>1 DEF Holds
  <2>2. CASE n = k
    <3>1. ASSUME NEW i \in ActiveIn(y), i # n PROVE i = 1 /\ k > MaxTenantResourceSets
      <4>1. i \in ActiveIn(x) /\ i \in 1..k
        BY <1>8, <1>9, <3>1 DEF ActiveIn
      <4>2. i \notin a..k
        BY <1>1, <1>2, <2>2, <3>1, <4>1
      <4>3. QED
        BY <1>2, <4>1, <4>2
    <3>2. l \in 1..k /\ m \in 1..k
      BY <1>8 DEF ActiveIn
    <3>3. l # n
      BY <1>14, <2>2, <3>2
    <3>4. l = 1 /\ k > MaxTenantResourceSets
      BY <3>1, <3>3
    <3>5. m = n
      BY <1>14, <3>1, <3>4
    <3>6. QED
      BY <2>2, <3>4, <3>5
  <2>3. QED
    BY <2>1, <2>2
<1>15. Holds(y, k)
  BY <1>7, <1>8, <1>13, <1>14 DEF Holds
<1>16. k > MaxTenantResourceSets /\ 1 \in ActiveIn(x) => 1 \in ActiveIn(y)
  BY <1>2, <1>9
<1>17. Follows(x, y, k)
  BY <1>7, <1>9, <1>10, <1>15, <1>16 DEF Follows
<1>18. QED
  BY <1>1, <1>4, <1>5, <1>6, <1>9, <1>10, <1>17

LEMMA MarkedObject ==
  ASSUME NEW s, IsObject(s), NEW b
  PROVE  [s EXCEPT !.deleting = @ \/ b] =
             [active |-> s.active, resources |-> s.resources, deleting |-> s.deleting \/ b]
<1>1. PICK a, rs, d : s = [active |-> a, resources |-> rs, deleting |-> d]
  BY DEF IsObject
<1>2. s.active = a /\ s.resources = rs /\ s.deleting = d
  BY <1>1
<1>3. PICK e : e = (d \/ b)
  OBVIOUS
<1>4. [s EXCEPT !.deleting = e] = [active |-> a, resources |-> rs, deleting |-> e]
  BY <1>1
<1>5. QED
  BY <1>2, <1>3, <1>4, Zenon

\* A mark on what is inactive, for deletion.
LEMMA MarkedFollows ==
  ASSUME NEW x, NEW top, Holds(x, top), NEW gone \in SUBSET {1}, gone \cap ActiveIn(x) = {}
  PROVE  Follows(x, [n \in DOMAIN x |-> [x[n] EXCEPT !.deleting = @ \/ n \in gone]], top)
<1>1. PICK y : y = [n \in DOMAIN x |-> [x[n] EXCEPT !.deleting = @ \/ n \in gone]]
  OBVIOUS
<1>2. DOMAIN y = DOMAIN x /\ y = [n \in DOMAIN y |-> y[n]]
  BY <1>1
<1>3. ASSUME NEW n \in DOMAIN x
      PROVE  y[n] = [active |-> x[n].active, resources |-> x[n].resources,
                     deleting |-> x[n].deleting \/ n \in gone]
  <2>1. PICK s : s = x[n] /\ IsObject(s)
    BY Zenon DEF Holds
  <2>2. PICK b : b = (n \in gone)
    BY Zenon
  <2>3. y[n] = [s EXCEPT !.deleting = @ \/ b]
    <3>1. y[n] = [x[n] EXCEPT !.deleting = @ \/ n \in gone]
      BY <1>1, Zenon
    <3>2. QED
      BY <2>1, <2>2, <3>1, Zenon
  <2>4. [s EXCEPT !.deleting = @ \/ b] =
            [active |-> s.active, resources |-> s.resources, deleting |-> s.deleting \/ b]
    BY <2>1, <2>2, MarkedObject, Zenon
  <2>5. QED
    BY <2>1, <2>2, <2>3, <2>4, Zenon
<1>4. ASSUME NEW n \in DOMAIN x
      PROVE  y[n].active = x[n].active /\ y[n].deleting = (x[n].deleting \/ n \in gone)
  <2>1. PICK a, rs, d : /\ y[n] = [active |-> a, resources |-> rs, deleting |-> d]
                        /\ a = x[n].active /\ d = (x[n].deleting \/ n \in gone)
    BY <1>3, Zenon
  <2>2. y[n].active = a /\ y[n].deleting = d
    BY <2>1
  <2>3. QED
    BY <2>1, <2>2, Zenon
<1>5. ActiveIn(y) = ActiveIn(x)
  BY <1>2, <1>4 DEF ActiveIn
<1>6. ASSUME NEW n \in DOMAIN y
      PROVE  /\ IsObject(y[n])
             /\ ~y[n].active => n < top
             /\ y[n].deleting => ~y[n].active /\ n = 1
  <2>1. x[n].active \in BOOLEAN /\ x[n].deleting \in BOOLEAN /\ n \in DOMAIN x
    BY <1>2 DEF Holds, IsObject
  <2>2. IsObject(y[n])
    <3>1. PICK a, rs, d : /\ y[n] = [active |-> a, resources |-> rs, deleting |-> d]
                          /\ a = x[n].active /\ d = (x[n].deleting \/ n \in gone)
      BY <1>3, <2>1, Zenon
    <3>2. PICK r : r = y[n]
      OBVIOUS
    <3>3. r = [active |-> a, resources |-> rs, deleting |-> d] /\ a \in BOOLEAN /\ d \in BOOLEAN
      BY <2>1, <3>1, <3>2
    <3>4. r.active = a /\ r.resources = rs /\ r.deleting = d
      BY <3>3
    <3>5. IsObject(r)
      BY <3>3, <3>4 DEF IsObject
    <3>6. QED
      BY <3>2, <3>5
  <2>3. y[n].deleting => ~y[n].active /\ n = 1
    <3>1. CASE n \in gone
      BY <1>4, <2>1, <3>1 DEF ActiveIn
    <3>2. CASE n \notin gone
      BY <1>4, <2>1, <3>2 DEF Holds
    <3>3. QED
      BY <3>1, <3>2
  <2>4. QED
    BY <1>4, <2>1, <2>2, <2>3 DEF Holds
<1>7. Holds(y, top)
  BY <1>2, <1>5, <1>6 DEF Holds
<1>8. QED
  BY <1>1, <1>2, <1>5, <1>7 DEF Follows

\* A set that goes after it was marked.
LEMMA GoneFollows ==
  ASSUME NEW x, NEW top, Holds(x, top), NEW n \in DOMAIN x, x[n].deleting
  PROVE  Follows(x, Without(x, {n}), top) /\ ActiveIn(Without(x, {n})) \subseteq ActiveIn(x)
<1>1. PICK y : y = Without(x, {n})
  OBVIOUS
<1>2. DOMAIN y = DOMAIN x \ {n} /\ y = [m \in DOMAIN y |-> y[m]]
      /\ \A m \in DOMAIN y : y[m] = x[m]
  BY <1>1 DEF Without
<1>3. n = 1 /\ n \notin ActiveIn(x)
  BY DEF Holds, ActiveIn
<1>4. ActiveIn(y) = ActiveIn(x)
  BY <1>2, <1>3 DEF ActiveIn
<1>5. Holds(y, top)
  BY <1>2, <1>4 DEF Holds
<1>6. QED
  BY <1>1, <1>2, <1>3, <1>4, <1>5 DEF Follows

LEMMA LagsWritten ==
  ASSUME NEW w, NEW x, NEW latest, NEW top \in Nat, latest \in 0..top, Lags(w, x, latest),
         NEW y, Follows(x, y, top)
  PROVE  Lags(w, y, latest)
<1> SUFFICES ASSUME w # 0, w < latest PROVE w = 1 /\ 1 \in ActiveIn(y) /\ latest > MaxTenantResourceSets
  BY DEF Lags
<1>1. w = 1 /\ 1 \in ActiveIn(x) /\ latest > MaxTenantResourceSets
  BY DEF Lags
<1>2. top > MaxTenantResourceSets
  BY <1>1, FlagAssumption
<1>3. QED
  BY <1>1, <1>2 DEF Follows

-----------------------------------------------------------------------------
(* What becomes of what the two controllers agree on. *)

LEMMA NothingSeen ==
  ASSUME NEW feed, NEW top \in Nat, NEW x, NEW latest
  PROVE  Past(0, feed, top) /\ Lags(0, x, latest)
BY FlagAssumption DEF Past, Lags

LEMMA InStepLasts ==
  ASSUME InStep, Top \in Nat, Top' \in Nat, Top <= Top', sets' = sets, newest' = newest,
         worker'.set = worker.set \/ worker'.set = 0
  PROVE  InStep'
<1>1. History(sets, Top')
  BY HistoryLasts DEF InStep
<1>2. Past(newest, sets, Top') /\ Past(worker.set, sets, Top')
  BY PastLasts DEF InStep
<1>3. Past(0, sets, Top') /\ Lags(0, Stored(sets), newest)
  BY NothingSeen
<1>4. Past(worker'.set, sets, Top') /\ Lags(worker'.set, Stored(sets), newest)
  BY <1>2, <1>3 DEF InStep
<1>5. QED
  BY <1>1, <1>2, <1>4 DEF InStep

LEMMA InStepDelivered ==
  ASSUME InStep, Top' = Top, Len(sets) > 1, sets' = Tail(sets), newest' = newest,
         worker' = worker
  PROVE  InStep' /\ Stored(sets') = Stored(sets)
<1>1. History(sets', Top)
  BY HistoryDelivered DEF InStep
<1>2. Past(newest, sets', Top) /\ Past(worker.set, sets', Top)
  BY PastDelivered DEF InStep
<1>3. Stored(sets') = Stored(sets)
  BY DeliverList DEF InStep, History
<1>4. QED
  BY <1>1, <1>2, <1>3 DEF InStep

LEMMA InStepRefreshed ==
  ASSUME InStep, Top \in Nat, Top' \in Nat, Top <= Top', sets' = Refreshed(sets),
         newest' = newest, worker'.set = 0
  PROVE  InStep'
<1>1. PICK r : r = Refreshed(sets)
  OBVIOUS
<1>2. History(r, Top) /\ Past(newest, r, Top)
  BY <1>1, HistoryRefreshed, PastRefreshed DEF InStep
<1>3. History(r, Top') /\ Past(newest, r, Top')
  BY <1>2, HistoryLasts, PastLasts
<1>4. Past(0, r, Top') /\ Lags(0, Stored(r), newest)
  BY NothingSeen
<1>5. QED
  BY <1>1, <1>3, <1>4 DEF InStep

LEMMA InStepWritten ==
  ASSUME InStep, Top \in Nat, Top' = Top, NEW y, Follows(Stored(sets), y, Top),
         sets' = Publish(sets, y), newest' = newest, worker' = worker
  PROVE  InStep' /\ Stored(sets') = y
<1>1. History(sets', Top)
  BY HistoryWritten DEF InStep
<1>2. Past(newest, sets', Top) /\ Past(worker.set, sets', Top)
  BY PastWritten DEF InStep
<1>3. Stored(sets') = y
  BY PublishList DEF InStep, History
<1>4. Lags(worker.set, y, newest)
  <2>1. newest \in 0..Top
    BY DEF InStep, Past
  <2>2. QED
    BY <2>1, LagsWritten DEF InStep
<1>5. QED
  BY <1>1, <1>2, <1>3, <1>4 DEF InStep

LEMMA ReadSets ==
  ASSUME InStep, Top \in Nat
  PROVE  /\ Holds(Cached(sets), Top) /\ Holds(Stored(sets), Top)
         /\ Cached(sets) = Stored(sets) \/ Moves(Cached(sets), Stored(sets))
         /\ 1 \in DOMAIN sets /\ Cached(sets) = sets[1]
         /\ Len(sets) \in DOMAIN sets /\ Stored(sets) = sets[Len(sets)]
         /\ Len(sets) = 1 \/ 1 < Len(sets)
<1>1. /\ Len(sets) \in Nat \ {0} /\ DOMAIN sets = 1..Len(sets)
      /\ Cached(sets) = sets[1] /\ Stored(sets) = sets[Len(sets)]
      /\ 1 \in DOMAIN sets /\ Len(sets) \in DOMAIN sets
  BY ListEnds DEF InStep, History
<1>2. Len(sets) = 1 \/ 1 < Len(sets)
  BY <1>1
<1>3. QED
  BY <1>1, <1>2 DEF InStep, History

-----------------------------------------------------------------------------
(* The steps of the Tenant controller. *)

LEMMA ViewIsRead ==
  ASSUME Streams
  PROVE  Readable(View) /\ Top \in Nat
BY ReadStreams DEF Streams

LEMMA BeginPassKeeps ==
  ASSUME IInv, BeginPass
  PROVE  IInv'
<1>1. PICK v, at : v = Cached(chunks) /\ at = IF v.agg.created THEN "sets" ELSE "save"
  OBVIOUS
<1>2. /\ pass.at = "idle" /\ pass' = [at |-> at, view |-> v, todo |-> ActiveLast(v)]
      /\ UNCHANGED <<blueprint, chunks, sets, live, status, worker, newest, changes, faults>>
  BY <1>1 DEF BeginPass
<1>3. at \in {"sets", "save"} /\ pass'.at = at /\ pass'.view = v /\ pass'.todo = ActiveLast(v)
  BY <1>1, <1>2
<1>4. View = v /\ View' = v
  BY <1>1, <1>2, <1>3 DEF View
<1>5. Streams' /\ Top' = Top
  BY <1>2, <1>4, SameView DEF IInv
<1>6. Readable(v) /\ Top \in Nat
  BY <1>4, ViewIsRead DEF IInv
<1>7. InStep'
  BY <1>2, <1>5, <1>6, InStepLasts DEF IInv
<1>8. Writing(pass', Stored(sets'))
  <2>1. Arranged(ActiveLast(v), v)
    BY <1>6, Arrangement
  <2>2. Kept(v) \ ToSet(ActiveLast(v)) = {}
    BY <2>1 DEF Arranged
  <2>3. QED
    BY <1>3, <2>1, <2>2 DEF Arranged, Writing
<1>9. Types'
  BY <1>2, <1>3 DEF IInv, Types
<1>10. QED
  BY <1>5, <1>7, <1>8, <1>9 DEF IInv

\* A pass that goes on with the cluster as it is, or with the resources gone.
LEMMA PassStep ==
  ASSUME IInv, pass.at # "idle", NEW at \in {"sets", "orphans", "save"}, NEW todo,
         pass' = [at |-> at, view |-> pass.view, todo |-> todo], chunks' = chunks
  PROVE  /\ Streams' /\ Top' = Top /\ Top \in Nat
         /\ pass'.at = at /\ pass'.view = pass.view /\ pass'.todo = todo
<1>1. pass'.at = at /\ pass'.view = pass.view /\ pass'.todo = todo
  OBVIOUS
<1>2. View' = View
  BY <1>1, PassGoesOn
<1>3. Streams' /\ Top' = Top /\ Top \in Nat
  BY <1>2, SameView, ViewIsRead DEF IInv
<1>4. QED
  BY <1>1, <1>3

LEMMA WriteSetKeeps ==
  ASSUME IInv, WriteSet
  PROVE  IInv'
<1>1. PICK v, x, n, q : v = pass.view /\ x = Stored(sets) /\ n = Head(pass.todo) /\ q = pass.todo
  OBVIOUS
<1>2. PICK rs : rs = v.sets.sets[n].resources
  OBVIOUS
<1>3. PICK y : y = Put(x, n, [active |-> v.sets.sets[n].active, resources |-> rs,
                              deleting |-> n \in DOMAIN x /\ x[n].deleting])
  OBVIOUS
<1>4. /\ pass.at = "sets" /\ q # << >> /\ sets' = Publish(sets, y)
      /\ pass' = [pass EXCEPT !.todo = Tail(@)]
      /\ UNCHANGED <<blueprint, chunks, live, status, worker, newest, changes, faults>>
  BY <1>1, <1>2, <1>3 DEF WriteSet, NoFault
<1>5. pass' = [at |-> "sets", view |-> v, todo |-> Tail(q)]
  BY <1>1, <1>4 DEF IInv, Types
<1>6. /\ Streams' /\ Top' = Top /\ Top \in Nat
      /\ pass'.at = "sets" /\ pass'.view = v /\ pass'.todo = Tail(q)
  BY <1>1, <1>4, <1>5, PassStep
<1>7. /\ IsList(q) /\ ToSet(q) \subseteq Kept(v)
      /\ \A i \in DOMAIN q : q[i] = v.agg.name => i = Len(q)
      /\ \A m \in Kept(v) \ ToSet(q) : m # v.agg.name => m \notin ActiveIn(x)
  BY <1>1, <1>4 DEF IInv, Writing
<1>8. /\ IsList(Tail(q)) /\ n = q[1] /\ ToSet(q) = {n} \cup ToSet(Tail(q))
      /\ Len(q) \in Nat \ {0} /\ DOMAIN q = 1..Len(q)
      /\ \A i \in DOMAIN Tail(q) : i + 1 \in DOMAIN q /\ Tail(q)[i] = q[i + 1]
      /\ Len(Tail(q)) = Len(q) - 1
  BY <1>1, <1>4, <1>7, TailList
<1>9. View = v /\ Readable(v) /\ Top = v.agg.name /\ Holds(x, v.agg.name)
  <2>1. View = v
    BY <1>1, <1>4 DEF View
  <2>2. Readable(v) /\ Top = v.agg.name
    BY <2>1, ViewIsRead DEF IInv, Top
  <2>3. QED
    BY <1>1, <1>6, <2>1, <2>2, ReadSets DEF IInv
<1>10. n = v.agg.name => \A m \in Kept(v) : m # n => m \notin ActiveIn(x)
  <2>1. ASSUME n = v.agg.name PROVE ToSet(q) = {n}
    <3>1. Len(q) = 1
      <4>1. 1 \in DOMAIN q /\ q[1] = v.agg.name
        BY <1>8, <2>1
      <4>2. QED
        BY <1>7, <4>1
    <3>2. \A i \in DOMAIN q : q[i] = n
      BY <1>8, <3>1
    <3>3. QED
      BY <1>8, <3>2 DEF ToSet
  <2>2. QED
    BY <1>7, <2>1
<1>11. /\ Follows(x, y, v.agg.name) /\ ActiveIn(y) \ {n} \subseteq ActiveIn(x)
       /\ n # v.agg.name => n \notin ActiveIn(y)
  BY <1>3, <1>7, <1>8, <1>9, <1>10, WrittenFollows
<1>12. InStep' /\ Stored(sets') = y
  BY <1>1, <1>4, <1>6, <1>9, <1>11, InStepWritten DEF IInv
<1>13. Writing(pass', y)
  <2>1. PICK t : t = Tail(q)
    OBVIOUS
  <2>2. ASSUME NEW i \in DOMAIN t, t[i] = v.agg.name PROVE i = Len(t)
    <3>1. i + 1 \in DOMAIN q /\ q[i + 1] = v.agg.name
      BY <1>8, <2>1, <2>2
    <3>2. i + 1 = Len(q) /\ Len(t) = Len(q) - 1 /\ IsList(t)
      BY <1>7, <1>8, <2>1, <3>1
    <3>3. i \in Nat
      BY <3>2, <2>2, ListFacts
    <3>4. QED
      BY <1>8, <3>2, <3>3
  <2>3. ASSUME NEW m \in Kept(v) \ ToSet(t), m # v.agg.name PROVE m \notin ActiveIn(y)
    <3>1. CASE m = n
      BY <1>11, <2>3, <3>1
    <3>2. CASE m # n
      BY <1>7, <1>8, <1>11, <2>1, <2>3, <3>2
    <3>3. QED
      BY <3>1, <3>2
  <2>4. QED
    BY <1>6, <1>7, <1>8, <2>1, <2>2, <2>3 DEF Writing
<1>14. Types'
  BY <1>4, <1>5, <1>6 DEF IInv, Types
<1>15. QED
  BY <1>6, <1>12, <1>13, <1>14 DEF IInv

LEMMA FailSetsKeeps ==
  ASSUME IInv, FailSets
  PROVE  IInv'
<1>1. /\ pass.at = "sets" /\ pass' = [pass EXCEPT !.at = "orphans", !.todo = << >>]
      /\ UNCHANGED <<blueprint, chunks, sets, live, status, worker, newest, changes>>
      /\ NoFault \/ Fault
  BY DEF FailSets
<1>2. pass' = [at |-> "orphans", view |-> pass.view, todo |-> << >>]
  BY <1>1 DEF IInv, Types
<1>3. Streams' /\ Top' = Top /\ Top \in Nat /\ pass'.at = "orphans" /\ pass'.view = pass.view
      /\ pass'.todo = << >>
  BY <1>1, <1>2, PassStep
<1>4. InStep'
  BY <1>1, <1>3, InStepLasts DEF IInv
<1>5. Writing(pass', Stored(sets'))
  BY <1>3 DEF Writing
<1>6. faults' \in 0..MaxFaults
  BY <1>1, BoundsAssumption DEF IInv, Types, Fault, NoFault
<1>7. Types'
  BY <1>1, <1>2, <1>3, <1>6 DEF IInv, Types
<1>8. QED
  BY <1>3, <1>4, <1>5, <1>7 DEF IInv

LEMMA DeleteOldKeeps ==
  ASSUME IInv, DeleteOld
  PROVE  IInv'
<1>1. PICK x, gone : /\ x = Stored(sets)
                     /\ gone = {n \in Oldest(pass.view) \cap DOMAIN Cached(sets) :
                                    Drops(Cached(sets)[n])}
  OBVIOUS
<1>2. PICK y : y = [n \in DOMAIN x |-> [x[n] EXCEPT !.deleting = @ \/ n \in gone]]
  OBVIOUS
<1>3. /\ pass.at = "sets" /\ sets' = Publish(sets, y)
      /\ pass' = [pass EXCEPT !.at = "orphans"]
      /\ UNCHANGED <<blueprint, chunks, live, status, worker, newest, changes, faults>>
  BY <1>1, <1>2 DEF DeleteOld
<1>4. pass' = [at |-> "orphans", view |-> pass.view, todo |-> pass.todo]
  BY <1>3 DEF IInv, Types
<1>5. /\ Streams' /\ Top' = Top /\ Top \in Nat /\ pass'.at = "orphans"
      /\ pass'.view = pass.view /\ pass'.todo = pass.todo
  BY <1>3, <1>4, PassStep
<1>6. gone \in SUBSET {1}
  BY <1>1 DEF Oldest
<1>7. /\ Holds(x, Top)
      /\ x = Cached(sets) \/ Moves(Cached(sets), x)
  BY <1>1, <1>5, ReadSets DEF IInv
<1>8. gone \cap ActiveIn(x) = {}
  <2>1. ASSUME NEW n \in gone, n \in ActiveIn(x) PROVE FALSE
    <3>1. n = 1 /\ n \in DOMAIN Cached(sets) /\ n \notin ActiveIn(Cached(sets))
      BY <1>1, <1>6, <2>1 DEF Drops, ActiveIn
    <3>2. n < n
      BY <1>7, <2>1, <3>1 DEF Moves
    <3>3. QED
      BY <3>1, <3>2
  <2>2. QED
    BY <2>1
<1>9. Follows(x, y, Top)
  BY <1>2, <1>6, <1>7, <1>8, MarkedFollows
<1>10. InStep' /\ Stored(sets') = y
  BY <1>1, <1>3, <1>5, <1>9, InStepWritten DEF IInv
<1>11. Writing(pass', y)
  BY <1>5 DEF Writing
<1>12. Types'
  BY <1>3, <1>4, <1>5 DEF IInv, Types
<1>13. QED
  BY <1>5, <1>10, <1>11, <1>12 DEF IInv

LEMMA DeleteOrphansKeeps ==
  ASSUME IInv, DeleteOrphans
  PROVE  IInv'
<1>1. PICK tried : /\ NoFault \/ Fault
                   /\ live' = Without(live, tried) /\ status' = Without(status, tried)
  BY DEF DeleteOrphans
<1>2. /\ pass.at = "orphans" /\ pass' = [pass EXCEPT !.at = "save"]
      /\ UNCHANGED <<blueprint, chunks, sets, worker, newest, changes>>
  BY DEF DeleteOrphans
<1>3. pass' = [at |-> "save", view |-> pass.view, todo |-> pass.todo]
  BY <1>2 DEF IInv, Types
<1>4. /\ Streams' /\ Top' = Top /\ Top \in Nat /\ pass'.at = "save"
      /\ pass'.view = pass.view /\ pass'.todo = pass.todo
  BY <1>2, <1>3, PassStep
<1>5. InStep'
  BY <1>2, <1>4, InStepLasts DEF IInv
<1>6. Writing(pass', Stored(sets'))
  BY <1>4 DEF Writing
<1>7. faults' \in 0..MaxFaults
  BY <1>1, BoundsAssumption DEF IInv, Types, Fault, NoFault
<1>8. DOMAIN status' \subseteq DOMAIN live'
  BY <1>1 DEF IInv, Types, Without
<1>9. Types'
  BY <1>2, <1>3, <1>4, <1>7, <1>8 DEF IInv, Types
<1>10. QED
  BY <1>4, <1>5, <1>6, <1>9 DEF IInv

\* What a pass commits leaves the stream at rest, whichever statuses it sees.
LEMMA Decided ==
  ASSUME blueprint \in Blueprints, NEW v, Readable(v), NEW seen
  PROVE  LET x == Replay(v, Decide(v, seen).events)
         IN  Readable(x) /\ Later(v, x)
<1>1. PICK E : Rests(v, E) /\ Formed(v.sets) /\ Summed(v)
  BY DEF Readable
<1>2. PICK label, o : label = blueprint.prefix /\ o = Outcome(seen)
  OBVIOUS
<1>3. PICK a : a = Decide(v, seen)
  OBVIOUS
<1>4. PICK x : x = Reached(v, a)
  OBVIOUS
<1>5. x = Replay(v, Decide(v, seen).events)
  BY <1>3, <1>4 DEF Reached
<1>6. CASE v.agg.created
  <2>1. PICK env : /\ env = [tenant |-> label, templates |-> Templates, cluster |-> Cluster(seen)]
                   /\ o = Generate(blueprint, env)
    BY <1>2 DEF Outcome
  <2>2. Documents(env.templates)
    BY <2>1, TemplatesAssumption DEF Documents, IsList
  <2>3. IsList(blueprint.groups)
    BY GroupsAssumption DEF IsList
  <2>4. /\ o.failed \in BOOLEAN /\ IsList(o.resources)
        /\ Useless(o) => o.resources = << >>
    BY <2>1, <2>2, <2>3, GeneratedOutcome
  <2>5. a = GenerateResources(SetBlueprint(Load(v), label), o)
    BY <1>2, <1>3, <1>6 DEF Decide
  <2>6. Passed(v, E, label, o, Generated(o, label), a)
    BY <1>1, <2>4, <2>5, DoPass
  <2>7. IsList(a.events) /\ Rests(x, E \cup Added(a.events)) /\ Later(v, x)
    BY <1>4, <2>6 DEF Passed
  <2>8. Formed(x.sets)
    BY <1>1, <1>4, <2>7, FormedReplay DEF Reached
  <2>9. Summed(x)
    BY <1>1, <1>4, <2>4, <2>6, SummedAfter
  <2>10. QED
    BY <1>5, <2>7, <2>8, <2>9 DEF Readable
<1>7. CASE ~v.agg.created
  <2>1. a = SetBlueprint(Create(Load(v)), label)
    BY <1>2, <1>3, <1>7 DEF Decide
  <2>2. Spared(v, E, a, {"created", "label"})
    BY <1>1, <2>1, DoCreate
  <2>3. /\ IsList(a.events) /\ Rests(x, E \cup Added(a.events)) /\ Later(v, x)
        /\ x.sets.sets = v.sets.sets /\ SameBut(v.agg, x.agg, {"created", "label"})
    BY <1>4, <2>2 DEF Spared
  <2>4. Formed(x.sets)
    BY <1>1, <1>4, <2>3, FormedReplay DEF Reached
  <2>5. x.agg.name = v.agg.name /\ x.agg.sum = v.agg.sum
    BY <1>1, <2>3 DEF SameBut, AggFields, Rests, Sound, Shapes
  <2>6. Summed(x)
    BY <1>1, <2>3, <2>5 DEF Summed
  <2>7. QED
    BY <1>5, <2>3, <2>4, <2>6 DEF Readable
<1>8. QED
  BY <1>6, <1>7

\* A pass that ends; the next one reads the cache, which is no older.
LEMMA PassOver ==
  ASSUME IInv, Streams', Top' \in Nat, Top <= Top', pass' = Idle,
         UNCHANGED <<blueprint, sets, live, status, worker, newest, changes>>,
         NoFault \/ Fault
  PROVE  IInv'
<1>1. InStep'
  BY InStepLasts, ViewIsRead DEF IInv
<1>2. pass'.at = "idle" /\ pass' = [at |-> pass'.at, view |-> pass'.view, todo |-> pass'.todo]
  BY DEF Idle
<1>3. Writing(pass', Stored(sets'))
  BY <1>2 DEF Writing
<1>4. faults' \in 0..MaxFaults
  BY BoundsAssumption DEF IInv, Types, Fault, NoFault
<1>5. Types'
  BY <1>2, <1>4 DEF IInv, Types
<1>6. QED
  BY <1>1, <1>3, <1>5 DEF IInv

LEMMA SaveKeeps ==
  ASSUME IInv, Save
  PROVE  IInv'
<1>1. PICK v : v = pass.view
  OBVIOUS
<1>2. PICK seen \in {DOMAIN status, {}} :
        LET events == Decide(v, seen).events
        IN  /\ IF seen = DOMAIN status THEN NoFault ELSE Fault
            /\ chunks' = IF events # << >> /\ Accepts(v)
                         THEN Publish(chunks, Replay(v, events)) ELSE chunks
  BY <1>1 DEF Save
<1>3. /\ pass.at = "save" /\ pass' = Idle /\ (NoFault \/ Fault)
      /\ UNCHANGED <<blueprint, sets, live, status, worker, newest, changes>>
  BY <1>2 DEF Save
<1>4. CASE chunks' = chunks
  BY <1>3, <1>4, PassEndsReading, PassOver DEF IInv
<1>5. CASE chunks' # chunks
  <2>1. PICK x : x = Replay(v, Decide(v, seen).events)
    OBVIOUS
  <2>2. v = Stored(chunks) /\ chunks' = Publish(chunks, x)
    BY <1>2, <1>5, <2>1 DEF Accepts
  <2>3. View = v
    BY <1>1, <1>3 DEF View
  <2>4. Readable(x) /\ Later(v, x)
    <3>1. Readable(v) /\ blueprint \in Blueprints
      BY <2>3, ViewIsRead DEF IInv, Types
    <3>2. QED
      BY <2>1, <3>1, Decided
  <2>5. Streams' /\ Top' \in Nat /\ Top <= Top'
    BY <1>3, <2>2, <2>4, ChunkStored DEF IInv
  <2>6. QED
    BY <1>3, <2>5, PassOver
<1>6. QED
  BY <1>4, <1>5

LEMMA LoseSaveKeeps ==
  ASSUME IInv, LoseSave
  PROVE  IInv'
<1>1. /\ Fault /\ pass' = Idle
      /\ UNCHANGED <<blueprint, chunks, sets, live, status, worker, newest, changes>>
  BY DEF LoseSave
<1>2. QED
  BY <1>1, PassEndsReading, PassOver DEF IInv

-----------------------------------------------------------------------------
(* The steps of the ResourceSet controller. *)

\* Chunks and the pass stay; only the worker and the cluster change.
LEMMA PassStays ==
  ASSUME IInv, UNCHANGED <<chunks, pass>>
  PROVE  Streams' /\ Top' = Top /\ Top \in Nat
<1>1. View' = View
  BY DEF View
<1>2. QED
  BY <1>1, SameView, ViewIsRead DEF IInv

LEMMA StartSetKeeps ==
  ASSUME IInv, NEW n \in DOMAIN Cached(sets), StartSet(n)
  PROVE  IInv'
<1>1. PICK rs : worker' = [set |-> n, todo |-> rs, ids |-> Ids(rs)]
  BY DEF StartSet
<1>2. /\ n \in ActiveIn(Cached(sets))
      /\ UNCHANGED <<blueprint, chunks, sets, live, status, pass, newest, changes, faults>>
  BY DEF StartSet, Applies, ActiveIn
<1>3. Streams' /\ Top' = Top /\ Top \in Nat
  BY <1>2, PassStays
<1>4. worker'.set = n /\ worker' = [set |-> worker'.set, todo |-> worker'.todo, ids |-> worker'.ids]
  BY <1>1
<1>5. Past(n, sets, Top)
  BY <1>2, <1>3, SeenActive DEF IInv, InStep
<1>6. Lags(n, Stored(sets), newest)
  <2> SUFFICES ASSUME n # 0, n < newest
               PROVE  n = 1 /\ 1 \in ActiveIn(Stored(sets)) /\ newest > MaxTenantResourceSets
    BY DEF Lags
  <2>1. /\ 1 \in DOMAIN sets /\ Cached(sets) = sets[1]
        /\ Len(sets) \in DOMAIN sets /\ Stored(sets) = sets[Len(sets)]
        /\ Len(sets) = 1 \/ 1 < Len(sets)
    BY <1>3, ReadSets DEF IInv
  <2>2. newest # 0
    BY <1>5 DEF Past
  <2>3. n = 1 /\ newest > MaxTenantResourceSets
    BY <1>2, <2>1, <2>2 DEF IInv, InStep, Past
  <2>4. 1 \in ActiveIn(sets[1])
    BY <1>2, <2>1, <2>3
  <2>5. 1 \in ActiveIn(Stored(sets))
    BY <2>1, <2>3, <2>4 DEF IInv, InStep, Past
  <2>6. QED
    BY <2>3, <2>5
<1>7. InStep'
  BY <1>2, <1>3, <1>4, <1>5, <1>6 DEF IInv, InStep
<1>8. Writing(pass', Stored(sets')) /\ Types'
  BY <1>2, <1>4 DEF IInv, Types
<1>9. QED
  BY <1>3, <1>7, <1>8 DEF IInv

LEMMA ApplyNextKeeps ==
  ASSUME IInv, ApplyNext
  PROVE  IInv'
<1>1. /\ worker' = [worker EXCEPT !.todo = Tail(@)]
      /\ UNCHANGED <<blueprint, chunks, sets, status, pass, changes>>
      /\ \/ /\ \E r : live' = Put(live, r.id, r.sum)
            /\ newest' = IF worker.set > newest THEN worker.set ELSE newest
            /\ NoFault
         \/ Fault /\ UNCHANGED <<live, newest>>
  BY DEF ApplyNext
<1>2. worker' = [set |-> worker.set, todo |-> Tail(worker.todo), ids |-> worker.ids]
  BY <1>1 DEF IInv, Types
<1>3. worker'.set = worker.set /\ worker' = [set |-> worker'.set, todo |-> worker'.todo, ids |-> worker'.ids]
  BY <1>2
<1>4. Streams' /\ Top' = Top /\ Top \in Nat
  BY <1>1, PassStays
<1>5. newest' = newest \/ newest' = worker.set
  BY <1>1
<1>6. Past(newest', sets, Top)
  BY <1>5 DEF IInv, InStep
<1>7. Lags(worker.set, Stored(sets), newest')
  <2>1. CASE newest' = newest
    BY <2>1 DEF IInv, InStep
  <2>2. CASE newest' = worker.set
    <3>1. worker.set \in 0..Top
      BY DEF IInv, InStep, Past
    <3>2. ~(worker.set < newest')
      BY <1>4, <2>2, <3>1
    <3>3. QED
      BY <3>2 DEF Lags
  <2>3. QED
    BY <1>5, <2>1, <2>2
<1>8. InStep'
  BY <1>1, <1>3, <1>4, <1>6, <1>7 DEF IInv, InStep
<1>9. faults' \in 0..MaxFaults /\ DOMAIN live \subseteq DOMAIN live'
  <2>1. faults' \in 0..MaxFaults
    BY <1>1, BoundsAssumption DEF IInv, Types, Fault, NoFault
  <2>2. DOMAIN live \subseteq DOMAIN live'
    BY <1>1 DEF Put
  <2>3. QED
    BY <2>1, <2>2
<1>10. Types'
  BY <1>1, <1>3, <1>9 DEF IInv, Types
<1>11. Writing(pass', Stored(sets'))
  BY <1>1 DEF IInv
<1>12. QED
  BY <1>4, <1>8, <1>10, <1>11 DEF IInv

LEMMA EndSetKeeps ==
  ASSUME IInv, EndSet
  PROVE  IInv'
<1>1. /\ worker' = NoWork
      /\ UNCHANGED <<blueprint, chunks, sets, live, status, pass, newest, changes, faults>>
  BY DEF EndSet
<1>2. worker'.set = 0 /\ worker' = [set |-> worker'.set, todo |-> worker'.todo, ids |-> worker'.ids]
  BY <1>1 DEF NoWork
<1>3. Streams' /\ Top' = Top /\ Top \in Nat
  BY <1>1, PassStays
<1>4. InStep'
  BY <1>1, <1>2, <1>3, InStepLasts DEF IInv
<1>5. Writing(pass', Stored(sets')) /\ Types'
  BY <1>1, <1>2 DEF IInv, Types
<1>6. QED
  BY <1>3, <1>4, <1>5 DEF IInv

LEMMA FinalizeSetKeeps ==
  ASSUME IInv, NEW n \in DOMAIN Cached(sets), FinalizeSet(n)
  PROVE  IInv'
<1>1. PICK x, y : x = Stored(sets) /\ y = Without(x, {n})
  OBVIOUS
<1>2. /\ Cached(sets)[n].deleting /\ UpToDate(sets, n) /\ sets' = Publish(sets, y)
      /\ UNCHANGED <<blueprint, chunks, live, status, pass, worker, newest, changes, faults>>
  BY <1>1 DEF FinalizeSet
<1>3. n \in DOMAIN x /\ x[n].deleting
  BY <1>1, <1>2 DEF UpToDate
<1>4. Streams' /\ Top' = Top /\ Top \in Nat
  BY <1>2, PassStays
<1>5. Holds(x, Top)
  BY <1>1, <1>4, ReadSets DEF IInv
<1>6. Follows(x, y, Top) /\ ActiveIn(y) \subseteq ActiveIn(x)
  BY <1>1, <1>3, <1>5, GoneFollows
<1>7. InStep' /\ Stored(sets') = y
  BY <1>1, <1>2, <1>4, <1>6, InStepWritten DEF IInv
<1>8. Writing(pass', y)
  BY <1>1, <1>2, <1>6 DEF IInv, Writing
<1>9. Types'
  BY <1>2 DEF IInv, Types
<1>10. QED
  BY <1>4, <1>7, <1>8, <1>9 DEF IInv

-----------------------------------------------------------------------------
(* The steps around them. *)

LEMMA ChangeKeeps ==
  ASSUME IInv, Change
  PROVE  IInv'
<1>1. /\ blueprint' \in Blueprints /\ changes < MaxChanges /\ changes' = changes + 1
      /\ UNCHANGED <<chunks, sets, live, status, pass, worker, newest, faults>>
  BY DEF Change
<1>2. Streams' /\ Top' = Top /\ Top \in Nat
  BY <1>1, PassStays
<1>3. InStep'
  BY <1>1, <1>2, InStepLasts DEF IInv
<1>4. changes' \in 0..MaxChanges
  BY <1>1, BoundsAssumption DEF IInv, Types
<1>5. Writing(pass', Stored(sets')) /\ Types'
  BY <1>1, <1>4 DEF IInv, Types
<1>6. QED
  BY <1>2, <1>3, <1>5 DEF IInv

LEMMA ReportKeeps ==
  ASSUME IInv, Report
  PROVE  IInv'
<1>1. PICK id, v : id \in DOMAIN live /\ status' = Put(status, id, v)
  BY DEF Report
<1>2. UNCHANGED <<blueprint, chunks, sets, live, pass, worker, newest, changes, faults>>
  BY DEF Report
<1>3. Streams' /\ Top' = Top /\ Top \in Nat
  BY <1>2, PassStays
<1>4. InStep'
  BY <1>2, <1>3, InStepLasts DEF IInv
<1>5. DOMAIN status' \subseteq DOMAIN live'
  BY <1>1, <1>2 DEF IInv, Types, Put
<1>6. Writing(pass', Stored(sets')) /\ Types'
  BY <1>2, <1>5 DEF IInv, Types
<1>7. QED
  BY <1>3, <1>4, <1>6 DEF IInv

LEMMA DeliverChunkKeeps ==
  ASSUME IInv, DeliverChunk
  PROVE  IInv'
<1>1. /\ Len(chunks) > 1 /\ chunks' = Tail(chunks)
      /\ UNCHANGED <<blueprint, sets, live, status, pass, worker, newest, changes, faults>>
  BY DEF DeliverChunk
<1>2. Streams' /\ Top' \in Nat /\ Top <= Top' /\ Top \in Nat
  BY <1>1, ChunkDelivered, ViewIsRead DEF IInv
<1>3. InStep'
  BY <1>1, <1>2, InStepLasts DEF IInv
<1>4. Writing(pass', Stored(sets')) /\ Types'
  BY <1>1 DEF IInv, Types
<1>5. QED
  BY <1>2, <1>3, <1>4 DEF IInv

LEMMA DeliverSetKeeps ==
  ASSUME IInv, DeliverSet
  PROVE  IInv'
<1>1. /\ Len(sets) > 1 /\ sets' = Tail(sets)
      /\ UNCHANGED <<blueprint, chunks, live, status, pass, worker, newest, changes, faults>>
  BY DEF DeliverSet
<1>2. Streams' /\ Top' = Top /\ Top \in Nat
  BY <1>1, PassStays
<1>3. InStep' /\ Stored(sets') = Stored(sets)
  BY <1>1, <1>2, InStepDelivered DEF IInv
<1>4. Writing(pass', Stored(sets')) /\ Types'
  BY <1>1, <1>3 DEF IInv, Types
<1>5. QED
  BY <1>2, <1>3, <1>4 DEF IInv

LEMMA StartsAgainKeeps ==
  ASSUME IInv, StartsAgain, NoFault \/ Fault
  PROVE  IInv'
<1>1. /\ chunks' = Refreshed(chunks) /\ sets' = Refreshed(sets)
      /\ pass' = Idle /\ worker' = NoWork
      /\ UNCHANGED <<blueprint, live, status, newest, changes>>
  BY DEF StartsAgain
<1>2. Streams' /\ Top' \in Nat /\ Top <= Top' /\ Top \in Nat
  BY <1>1, ChunksRefreshed, ViewIsRead DEF IInv
<1>3. /\ worker'.set = 0 /\ worker' = [set |-> worker'.set, todo |-> worker'.todo, ids |-> worker'.ids]
      /\ pass'.at = "idle" /\ pass' = [at |-> pass'.at, view |-> pass'.view, todo |-> pass'.todo]
  BY <1>1 DEF NoWork, Idle
<1>4. InStep'
  BY <1>1, <1>2, <1>3, InStepRefreshed DEF IInv
<1>5. Writing(pass', Stored(sets'))
  BY <1>3 DEF Writing
<1>6. faults' \in 0..MaxFaults
  BY BoundsAssumption DEF IInv, Types, Fault, NoFault
<1>7. Types'
  BY <1>1, <1>3, <1>6 DEF IInv, Types
<1>8. QED
  BY <1>2, <1>4, <1>5, <1>7 DEF IInv

LEMMA Stuttering ==
  ASSUME IInv, UNCHANGED vars
  PROVE  IInv'
<1>1. UNCHANGED <<blueprint, chunks, sets, live, status, pass, worker, newest, changes, faults>>
  BY DEF vars
<1>2. Streams' /\ Top' = Top /\ Top \in Nat
  BY <1>1, PassStays
<1>3. InStep'
  BY <1>1, <1>2, InStepLasts DEF IInv
<1>4. Writing(pass', Stored(sets')) /\ Types'
  BY <1>1 DEF IInv, Types
<1>5. QED
  BY <1>2, <1>3, <1>4 DEF IInv

-----------------------------------------------------------------------------
(* The invariant. *)

LEMMA Initially == Init => IInv
<1> SUFFICES ASSUME Init PROVE IInv
  OBVIOUS
<1>1. /\ blueprint \in Blueprints /\ chunks = <<EmptyStream>> /\ sets = << << >> >>
      /\ live = << >> /\ status = << >> /\ pass = Idle /\ worker = NoWork
      /\ newest = 0 /\ changes = 0 /\ faults = 0
  BY DEF Init
<1>2. PICK e : e = EmptyStream
  OBVIOUS
<1>3. Readable(e) /\ e.agg.name = 0
  BY <1>2, EmptyRests DEF Readable
<1>4. /\ IsList(chunks) /\ chunks # << >> /\ Cached(chunks) = e
      /\ \A i \in DOMAIN chunks : i = 1 /\ chunks[i] = e
  <2>1. chunks \in Seq({e}) /\ Len(chunks) = 1 /\ chunks[1] = e /\ chunks # << >>
    BY <1>1, <1>2
  <2>2. IsList(chunks)
    BY <2>1, SeqIsList
  <2>3. Cached(chunks) = chunks[1] /\ DOMAIN chunks = 1..1
    BY <2>1, <2>2, ListEnds
  <2>4. QED
    BY <2>1, <2>2, <2>3
<1>5. /\ IsList(sets) /\ sets # << >> /\ Stored(sets) = << >>
      /\ \A i \in DOMAIN sets : i = 1 /\ sets[i] = << >>
  <2>1. sets \in Seq({<< >>}) /\ Len(sets) = 1 /\ sets[1] = << >> /\ sets # << >>
    BY <1>1
  <2>2. IsList(sets)
    BY <2>1, SeqIsList
  <2>3. Stored(sets) = sets[1] /\ DOMAIN sets = 1..1
    BY <2>1, <2>2, ListEnds
  <2>4. QED
    BY <2>1, <2>2, <2>3
<1>6. View = e /\ Top = 0
  BY <1>1, <1>3, <1>4 DEF View, Top, Idle
<1>7. Streams
  <2>1. \A i, j \in DOMAIN chunks : ~(i < j)
    BY <1>4
  <2>2. Later(e, e)
    BY <1>3, LaterRefl
  <2>3. QED
    BY <1>3, <1>4, <1>6, <2>1, <2>2 DEF Streams
<1>8. History(sets, 0)
  <2>1. PICK x : x = << >>
    OBVIOUS
  <2>2. DOMAIN x = {} /\ x = [n \in DOMAIN x |-> x[n]]
    BY <2>1
  <2>3. Holds(x, 0)
    BY <2>2 DEF Holds, ActiveIn
  <2>4. \A i, j \in DOMAIN sets : ~(i < j)
    BY <1>5
  <2>5. QED
    BY <1>5, <2>1, <2>3, <2>4 DEF History
<1>9. InStep
  BY <1>1, <1>6, <1>8, NothingSeen DEF InStep, NoWork
<1>10. Writing(pass, Stored(sets))
  BY <1>1 DEF Writing, Idle
<1>11. changes \in 0..MaxChanges /\ faults \in 0..MaxFaults
  BY <1>1, BoundsAssumption
<1>12. Types
  BY <1>1, <1>11 DEF Types, Idle, NoWork
<1>13. QED
  BY <1>7, <1>9, <1>10, <1>12 DEF IInv

LEMMA Stepwise == IInv /\ [Next]_vars => IInv'
<1> SUFFICES ASSUME IInv, [Next]_vars PROVE IInv'
  OBVIOUS
<1>1. CASE UNCHANGED vars
  BY <1>1, Stuttering
<1>2. CASE Change
  BY <1>2, ChangeKeeps
<1>3. CASE Restart
  BY <1>3, StartsAgainKeeps DEF Restart
<1>4. CASE Informers
  BY <1>4, DeliverChunkKeeps, DeliverSetKeeps DEF Informers
<1>5. CASE Reconciling
  BY <1>5, BeginPassKeeps, WriteSetKeeps, FailSetsKeeps, DeleteOldKeeps, DeleteOrphansKeeps
     DEF Reconciling
<1>6. CASE Saving
  BY <1>6, SaveKeeps, LoseSaveKeeps DEF Saving
<1>7. CASE Applying
  <2>1. CASE Panic
    BY <2>1, StartsAgainKeeps DEF Panic
  <2>2. QED
    BY <1>7, <2>1, StartSetKeeps, ApplyNextKeeps, EndSetKeeps DEF Applying
<1>8. CASE Finalizing
  BY <1>8, FinalizeSetKeeps DEF Finalizing
<1>9. CASE Report
  BY <1>9, ReportKeeps
<1>10. QED
  BY <1>1, <1>2, <1>3, <1>4, <1>5, <1>6, <1>7, <1>8, <1>9 DEF Next

\* The invariant holds through conflicts, faults, restarts and stale caches.
THEOREM Inductive == Spec => []IInv
BY Initially, Stepwise, PTL DEF Spec

-----------------------------------------------------------------------------
(* What it says of the cluster. *)

\* The flag is reached by the stored stream when a view of it has reached it.
LEMMA Counted ==
  ASSUME IInv
  PROVE  /\ Top \in Nat /\ Holds(Stored(sets), Top) /\ Active = ActiveIn(Stored(sets))
         /\ Top <= Stored(chunks).agg.name
         /\ DOMAIN Stored(chunks).sets.sets = 1..Stored(chunks).agg.name
         /\ Len(Stored(chunks).sets.sets) = Stored(chunks).agg.name
         /\ Stored(chunks).agg.name \in Nat
         /\ Top > MaxTenantResourceSets => Oldest(Stored(chunks)) = {1}
<1>1. PICK s : s = Stored(chunks)
  OBVIOUS
<1>2. Readable(s) /\ Top \in Nat /\ Top <= s.agg.name
  BY <1>1, ReadStreams DEF IInv, Streams
<1>3. s.agg.name \in Nat /\ Len(s.sets.sets) = s.agg.name /\ DOMAIN s.sets.sets = 1..s.agg.name
  BY <1>2, ViewFacts
<1>4. Top > MaxTenantResourceSets => Oldest(s) = {1}
  BY <1>2, <1>3, FlagAssumption DEF Oldest
<1>5. Holds(Stored(sets), Top)
  BY <1>2, ReadSets DEF IInv
<1>6. Active = ActiveIn(Stored(sets))
  BY DEF Active, ActiveIn
<1>7. QED
  BY <1>1, <1>2, <1>3, <1>4, <1>5, <1>6

\* The controllers' variables have their types, and every ResourceSet in the
\* cluster was made from the stream.
THEOREM TypesAreCorrect == Spec => []TypeOK
<1>1. ASSUME IInv PROVE TypeOK
  <2>1. /\ blueprint \in Blueprints /\ pass.at \in {"idle", "sets", "orphans", "save"}
        /\ DOMAIN status \subseteq DOMAIN live
        /\ changes \in 0..MaxChanges /\ faults \in 0..MaxFaults
    BY <1>1 DEF IInv, Types
  <2>2. chunks # << >> /\ sets # << >>
    BY <1>1 DEF IInv, Streams, InStep, History
  <2>3. PICK k \in Nat : /\ DOMAIN Stored(chunks).sets.sets = 1..k
                         /\ Len(Stored(chunks).sets.sets) = k
                         /\ Top \in Nat /\ Top <= k /\ Holds(Stored(sets), Top)
    BY <1>1, Counted
  <2>4. DOMAIN Stored(sets) \subseteq 1..k
    BY <2>3 DEF Holds
  <2>5. worker.set \in 0..k
    BY <1>1, <2>3 DEF IInv, InStep, Past
  <2>6. QED
    BY <2>1, <2>2, <2>3, <2>4, <2>5 DEF TypeOK
<1>2. QED
  BY <1>1, Inductive, PTL

\* Two ResourceSets are active only when the flag has dropped one of them
\* before it was made inactive.
THEOREM OneIsActive == Spec => []OneActiveUnlessAbandoned
<1>1. ASSUME IInv, Abandoned = {} PROVE OneActiveSet
  <2>1. /\ Top \in Nat /\ Holds(Stored(sets), Top) /\ Active = ActiveIn(Stored(sets))
        /\ Top > MaxTenantResourceSets => Oldest(Stored(chunks)) = {1}
    BY <1>1, Counted
  <2>2. ASSUME NEW m \in Active, NEW n \in Active, m < n PROVE FALSE
    <3>1. m = 1 /\ n > MaxTenantResourceSets /\ n \in 1..Top
      BY <2>1, <2>2 DEF Holds, ActiveIn
    <3>2. Top > MaxTenantResourceSets
      BY <2>1, <3>1, FlagAssumption
    <3>3. m \in Abandoned
      BY <2>1, <3>1, <3>2 DEF Abandoned
    <3>4. QED
      BY <1>1, <3>3
  <2>3. Active \subseteq 1..Top
    BY <2>1 DEF Holds, ActiveIn
  <2>4. \A m, n \in Active : m = n
    BY <2>1, <2>2, <2>3
  <2>5. Active = {} \/ \E n \in Active : Active = {n}
    BY <2>4
  <2>6. Cardinality(Active) = 0 \/ Cardinality(Active) = 1
    BY <2>5, FS_EmptySet, FS_Singleton
  <2>7. QED
    BY <2>6 DEF OneActiveSet
<1>2. IInv => OneActiveUnlessAbandoned
  BY <1>1 DEF OneActiveUnlessAbandoned
<1>3. QED
  BY <1>2, Inductive, PTL

\* A ResourceSet that has been superseded in the cluster is not applied after
\* its successor, however old the cache is that it is read from.
THEOREM SupersededStay == Spec => []NoRollback
<1>1. ASSUME IInv, Abandoned = {} PROVE worker.set = 0 \/ worker.set >= newest
  <2>1. worker.set \in 0..Top /\ newest \in 0..Top /\ Lags(worker.set, Stored(sets), newest)
    BY <1>1 DEF IInv, InStep, Past
  <2>2. /\ Top \in Nat /\ Active = ActiveIn(Stored(sets))
        /\ Top > MaxTenantResourceSets => Oldest(Stored(chunks)) = {1}
    BY <1>1, Counted
  <2>3. ASSUME worker.set # 0, worker.set < newest PROVE FALSE
    <3>1. 1 \in Active /\ newest > MaxTenantResourceSets
      BY <2>1, <2>2, <2>3 DEF Lags
    <3>2. Top > MaxTenantResourceSets
      BY <2>1, <2>2, <3>1, FlagAssumption
    <3>3. 1 \in Abandoned
      BY <2>2, <3>1, <3>2 DEF Abandoned
    <3>4. QED
      BY <1>1, <3>3
  <2>4. QED
    BY <2>1, <2>2, <2>3
<1>2. IInv => NoRollback
  BY <1>1 DEF NoRollback
<1>3. QED
  BY <1>2, Inductive, PTL

\* The check before a deletion reads the cache; what it found inactive there
\* is inactive in the cluster as well.
THEOREM DroppedAreInactive == Spec => []DroppedSetsAreInactive
<1>1. ASSUME IInv PROVE DroppedSetsAreInactive
  <2>1. Holds(Stored(sets), Top) /\ Active = ActiveIn(Stored(sets))
    BY <1>1, Counted
  <2>2. QED
    BY <2>1 DEF Holds, ActiveIn, DroppedSetsAreInactive
<1>2. QED
  BY <1>1, Inductive, PTL
=============================================================================
