------------------------------- MODULE Lemmas -------------------------------
(***************************************************************************)
(* What the proofs have in common.  Facts about feeds, for every proof     *)
(* about a controller; facts about the events of a tenant, for every       *)
(* stream, every input of a pass and every outcome of the generator: what  *)
(* the folds over lists of events and resources compute, and what a pass   *)
(* makes of a stream.                                                      *)
(***************************************************************************)
EXTENDS InformerCache, TenantEvents, ResourceGenerator, FiniteSetTheorems, TLAPS

-----------------------------------------------------------------------------
(* Feeds. *)

\* The feeds of a kind of object with states S; one is never empty.
Feeds(S) == Seq(S) \ {<< >>}

\* Cache and cluster hold states of the kind.
LEMMA FeedEnds ==
  ASSUME NEW S, NEW feed \in Feeds(S)
  PROVE  /\ Cached(feed) \in S /\ Cached(feed) = feed[1]
         /\ Stored(feed) \in S /\ Stored(feed) = feed[Len(feed)]
         /\ Len(feed) \in Nat \ {0}
BY DEF Feeds, Cached, Stored, Last

\* A write changes what is stored, and nothing that was delivered before.
LEMMA PublishFeed ==
  ASSUME NEW S, NEW feed \in Feeds(S), NEW s \in S
  PROVE  /\ Publish(feed, s) \in Feeds(S)
         /\ Stored(Publish(feed, s)) = s
         /\ Cached(Publish(feed, s)) = Cached(feed)
         /\ Len(Publish(feed, s)) \in {Len(feed), Len(feed) + 1}
         /\ \A i \in 1..Len(feed) : Publish(feed, s)[i] = feed[i]
         /\ Publish(feed, s)[Len(Publish(feed, s))] = s
<1>1. CASE s = Stored(feed)
  BY <1>1, FeedEnds DEF Publish
<1>2. CASE s # Stored(feed)
  <2>1. Publish(feed, s) = Append(feed, s)
    BY <1>2 DEF Publish
  <2>2. QED
    BY <2>1 DEF Feeds, Stored, Cached, Last
<1>3. QED
  BY <1>1, <1>2

\* A delivery leaves the stored state alone, and shifts the others.
LEMMA DeliverFeed ==
  ASSUME NEW S, NEW feed \in Feeds(S), Len(feed) > 1
  PROVE  /\ Tail(feed) \in Feeds(S)
         /\ Stored(Tail(feed)) = Stored(feed)
         /\ Cached(Tail(feed)) = feed[2]
         /\ Len(Tail(feed)) = Len(feed) - 1
         /\ \A i \in 1..(Len(feed) - 1) : Tail(feed)[i] = feed[i + 1]
BY DEF Feeds, Stored, Cached, Last

\* After a restart the cache holds what is stored.
LEMMA RefreshFeed ==
  ASSUME NEW S, NEW feed \in Feeds(S)
  PROVE  /\ Refreshed(feed) \in Feeds(S)
         /\ Stored(Refreshed(feed)) = Stored(feed)
         /\ Cached(Refreshed(feed)) = Stored(feed)
         /\ Len(Refreshed(feed)) = 1 /\ Refreshed(feed)[1] = Stored(feed)
BY FeedEnds DEF Feeds, Refreshed, Stored, Cached, Last

-----------------------------------------------------------------------------
(* Induction.  The induction theorems of the library have a predicate as   *)
(* parameter; the well-foundedness of < speaks of sets.                     *)

LEMMA Induction ==
  ASSUME NEW S, 0 \in S, \A n \in Nat : n \in S => n + 1 \in S
  PROVE  Nat \subseteq S
<1> DEFINE T == Nat \ S
           R == OpToRel(<, Nat)
<1>1. \A x, y \in Nat : <<y, x>> \in R <=> y < x
  BY DEF OpToRel
<1>2. IsWellFoundedOn(R, Nat)
  BY NatLessThanWellFounded
<1>3. ASSUME T # {} PROVE FALSE
  <2>1. T \subseteq Nat
    OBVIOUS
  <2> HIDE DEF R, T
  <2>2. PICK x \in T : \A y \in T : ~ (<<y, x>> \in R)
    BY <1>2, <1>3, <2>1, WFMin
  <2>3. x \in Nat /\ x \notin S
    BY DEF T
  <2>4. x # 0 /\ x - 1 \in Nat
    BY <2>3
  <2>5. x - 1 \notin S
    BY <2>3, <2>4
  <2>6. x - 1 \in T /\ <<x - 1, x>> \in R
    BY <1>1, <2>3, <2>4, <2>5 DEF T
  <2>7. QED
    BY <2>2, <2>6
<1>4. QED
  BY <1>3

\* Numbers up to n have a least and a greatest one.
LEMMA LeastAndGreatest ==
  ASSUME NEW n \in Nat, NEW t \in SUBSET (0..n), t # {}
  PROVE  /\ Max(t) \in t /\ \A y \in t : Max(t) >= y
         /\ Min(t) \in t /\ \A y \in t : Min(t) <= y
<1> DEFINE Has(m) == \A u \in SUBSET (0..m) : u # {} =>
                        /\ \E x \in u : \A y \in u : x >= y
                        /\ \E x \in u : \A y \in u : x <= y
           S == {m \in Nat : Has(m)}
<1>1. 0 \in S
  <2>1. ASSUME NEW u \in SUBSET (0..0), u # {} PROVE 0 \in u /\ \A y \in u : y = 0
    <3>1. \A y \in u : y = 0
      OBVIOUS
    <3>2. QED
      BY <2>1, <3>1
  <2>2. QED
    BY <2>1
<1>2. ASSUME NEW m \in Nat, m \in S PROVE m + 1 \in S
  <2> SUFFICES ASSUME NEW u \in SUBSET (0..(m + 1)), u # {}
               PROVE  /\ \E x \in u : \A y \in u : x >= y
                      /\ \E x \in u : \A y \in u : x <= y
    OBVIOUS
  <2> DEFINE v == u \ {m + 1}
  <2>1. v \in SUBSET (0..m)
    OBVIOUS
  <2>2. CASE v = {}
    <3>1. u = {m + 1}
      BY <2>2
    <3>2. QED
      BY <3>1
  <2>3. CASE v # {}
    <3>1. PICK x \in v : \A y \in v : x >= y
      BY <1>2, <2>1, <2>3
    <3>2. PICK z \in v : \A y \in v : z <= y
      BY <1>2, <2>1, <2>3
    <3>3. \A y \in u : z <= y
      BY <3>2
    <3>4. \E w \in u : \A y \in u : w >= y
      <4>1. CASE m + 1 \in u
        BY <4>1
      <4>2. CASE m + 1 \notin u
        BY <3>1, <4>2
      <4>3. QED
        BY <4>1, <4>2
    <3>5. QED
      BY <3>2, <3>3, <3>4
  <2>4. QED
    BY <2>2, <2>3
<1> HIDE DEF S
<1>3. n \in S
  BY <1>1, <1>2, Induction
<1>4. /\ \E x \in t : \A y \in t : x >= y
      /\ \E x \in t : \A y \in t : x <= y
  BY <1>3 DEF S
<1>5. QED
  BY <1>4 DEF Max, Min

-----------------------------------------------------------------------------
(* Folds.  What is folded is an operator, which no lemma can have as a     *)
(* parameter either; Step stands for all that the model folds.             *)

Step(k, x, y) ==
    CASE k.by = "agg"     -> On(x, y)
      [] k.by = "sets"    -> OnSets(x, y)
      [] k.by = "orphans" -> OnOrphans(x, y)
      [] k.by = "requeue" -> OnRequeue(x, y)
      [] k.by = "order"   -> Insert(x, y)
      [] k.by = "apply"   -> Apply(x, y)
      [] k.by = "add"     -> AddOrUpdate(x, y)
      [] k.by = "remove"  -> RemoveNext(k.wanted, x, y)
      [] k.by = "group"   -> AddGroup(x, y, k.env)
      [] k.by = "join"    -> x \o y

\* The function that FoldLeft defines.
IsIter(k, s, q, n, h) ==
    h = [t \in SUBSET (1..n) |->
            IF t = {} THEN s ELSE Step(k, h[t \ {Max(t)}], q[Max(t)])]

\* The values that a fold goes through.
IsRun(k, s, q, n, f) ==
    /\ f[0] = s
    /\ \A i \in 0..(n - 1) : f[i + 1] = Step(k, f[i], q[i + 1])

LEMMA IterExists ==
  ASSUME NEW k, NEW s, NEW q, NEW n \in Nat
  PROVE  \E h : IsIter(k, s, q, n, h)
<1> DEFINE S == {m \in Nat : \E h : IsIter(k, s, q, m, h)}
<1>1. 0 \in S
  <2> DEFINE h == [t \in SUBSET (1..0) |-> s]
  <2>1. \A t \in SUBSET (1..0) : t = {}
    OBVIOUS
  <2>2. IsIter(k, s, q, 0, h)
    BY <2>1 DEF IsIter
  <2> HIDE DEF h
  <2>3. QED
    BY <2>2
<1>2. ASSUME NEW m \in Nat, m \in S PROVE m + 1 \in S
  <2>1. PICK h : IsIter(k, s, q, m, h)
    BY <1>2
  <2> DEFINE g == [t \in SUBSET (1..(m + 1)) |->
                      IF m + 1 \in t THEN Step(k, h[t \ {m + 1}], q[m + 1]) ELSE h[t]]
  <2>2. ASSUME NEW t \in SUBSET (1..(m + 1))
        PROVE  g[t] = IF t = {} THEN s ELSE Step(k, g[t \ {Max(t)}], q[Max(t)])
    <3>1. CASE m + 1 \in t
      <4>1. Max(t) = m + 1
        <5>1. t \in SUBSET (0..(m + 1)) /\ m + 1 \in Nat
          OBVIOUS
        <5>2. Max(t) \in t /\ Max(t) >= m + 1
          BY <3>1, <5>1, LeastAndGreatest
        <5>3. Max(t) \in 1..(m + 1)
          BY <5>2
        <5>4. QED
          BY <5>2, <5>3
      <4>2. g[t \ {m + 1}] = h[t \ {m + 1}]
        OBVIOUS
      <4> HIDE DEF g
      <4>3. g[t] = Step(k, h[t \ {m + 1}], q[m + 1])
        BY <3>1 DEF g
      <4>4. QED
        BY <3>1, <4>1, <4>2, <4>3
    <3>2. CASE m + 1 \notin t
      <4>1. t \in SUBSET (1..m) /\ t \ {Max(t)} \in SUBSET (1..m)
        <5>1. \A x \in t : x \in 1..m
          BY <3>2
        <5>2. QED
          BY <5>1
      <4>2. g[t] = h[t] /\ g[t \ {Max(t)}] = h[t \ {Max(t)}]
        BY <3>2, <4>1
      <4> HIDE DEF g
      <4>3. h[t] = IF t = {} THEN s ELSE Step(k, h[t \ {Max(t)}], q[Max(t)])
        BY <2>1, <4>1 DEF IsIter
      <4>4. QED
        BY <4>2, <4>3
    <3>3. QED
      BY <3>1, <3>2
  <2>3. g = [t \in SUBSET (1..(m + 1)) |-> g[t]]
    OBVIOUS
  <2> HIDE DEF g
  <2>4. IsIter(k, s, q, m + 1, g)
    BY <2>2, <2>3 DEF IsIter
  <2>5. QED
    BY <2>4
<1> HIDE DEF S
<1>3. n \in S
  BY <1>1, <1>2, Induction
<1>4. QED
  BY <1>3 DEF S

LEMMA IterRuns ==
  ASSUME NEW k, NEW s, NEW q, NEW n \in Nat, NEW h, IsIter(k, s, q, n, h)
  PROVE  IsRun(k, s, q, n, [i \in 0..n |-> h[1..i]])
<1> DEFINE f == [i \in 0..n |-> h[1..i]]
<1>1. \A t \in SUBSET (1..n) :
          h[t] = IF t = {} THEN s ELSE Step(k, h[t \ {Max(t)}], q[Max(t)])
  BY DEF IsIter
<1>2. f[0] = s
  <2>1. 1..0 = {} /\ f[0] = h[1..0]
    OBVIOUS
  <2>2. QED
    BY <1>1, <2>1
<1>3. ASSUME NEW i \in 0..(n - 1) PROVE f[i + 1] = Step(k, f[i], q[i + 1])
  <2>1. /\ f[i + 1] = h[1..(i + 1)] /\ f[i] = h[1..i]
        /\ 1..(i + 1) \in SUBSET (1..n) /\ 1..(i + 1) # {}
        /\ (1..(i + 1)) \ {i + 1} = 1..i
    OBVIOUS
  <2>2. Max(1..(i + 1)) = i + 1
    <3>1. i + 1 \in Nat /\ 1..(i + 1) \in SUBSET (0..(i + 1)) /\ i + 1 \in 1..(i + 1)
      OBVIOUS
    <3>2. Max(1..(i + 1)) \in 1..(i + 1) /\ Max(1..(i + 1)) >= i + 1
      BY <3>1, LeastAndGreatest
    <3>3. QED
      BY <3>1, <3>2
  <2> HIDE DEF f
  <2>3. QED
    BY <1>1, <2>1, <2>2
<1>4. QED
  BY <1>2, <1>3 DEF IsRun

\* A run is determined by what it starts from and what it reads.
LEMMA SameRuns ==
  ASSUME NEW k, NEW s, NEW n \in Nat, NEW q, NEW f, IsRun(k, s, q, n, f),
         NEW m \in Nat, n <= m, NEW r, NEW g, IsRun(k, s, r, m, g),
         \A i \in 1..n : r[i] = q[i]
  PROVE  \A i \in 0..n : f[i] = g[i]
<1> DEFINE S == {i \in Nat : i <= n => f[i] = g[i]}
<1>1. 0 \in S
  BY DEF IsRun
<1>2. ASSUME NEW i \in Nat, i \in S PROVE i + 1 \in S
  <2> SUFFICES ASSUME i + 1 <= n PROVE f[i + 1] = g[i + 1]
    OBVIOUS
  <2>1. i \in 0..(n - 1) /\ i \in 0..(m - 1) /\ i + 1 \in 1..n /\ f[i] = g[i]
    BY <1>2
  <2>2. QED
    BY <2>1 DEF IsRun
<1> HIDE DEF S
<1>3. Nat \subseteq S
  BY <1>1, <1>2, Induction
<1>4. QED
  BY <1>3 DEF S
LEMMA AggRun ==
  ASSUME NEW s, NEW q, NEW n \in Nat, DOMAIN q = 1..n
  PROVE  \E f : IsRun([by |-> "agg"], s, q, n, f) /\ FoldLeft(On, s, q) = f[n]
<1> DEFINE k == [by |-> "agg"]
           IsOwn(h) == h = [t \in SUBSET (1..n) |->
               IF t = {} THEN s ELSE On(h[t \ {Max(t)}], q[Max(t)])]
           own == CHOOSE h : IsOwn(h)
<1>1. FoldLeft(On, s, q) = own[1..n]
  BY DEF FoldLeft, MapThenFoldSet
<1>2. \A x, y : Step(k, x, y) = On(x, y)
  BY DEF Step
<1> HIDE DEF k
<1>3. \A h : IsIter(k, s, q, n, h) <=> IsOwn(h)
  BY <1>2 DEF IsIter
<1>4. IsIter(k, s, q, n, own)
  BY <1>3, IterExists
<1> HIDE DEF own
<1>5. IsRun(k, s, q, n, [i \in 0..n |-> own[1..i]])
  BY <1>4, IterRuns
<1>6. [i \in 0..n |-> own[1..i]][n] = own[1..n]
  OBVIOUS
<1>7. QED
  BY <1>1, <1>5, <1>6 DEF k

LEMMA SetsRun ==
  ASSUME NEW s, NEW q, NEW n \in Nat, DOMAIN q = 1..n
  PROVE  \E f : IsRun([by |-> "sets"], s, q, n, f) /\ FoldLeft(OnSets, s, q) = f[n]
<1> DEFINE k == [by |-> "sets"]
           IsOwn(h) == h = [t \in SUBSET (1..n) |->
               IF t = {} THEN s ELSE OnSets(h[t \ {Max(t)}], q[Max(t)])]
           own == CHOOSE h : IsOwn(h)
<1>1. FoldLeft(OnSets, s, q) = own[1..n]
  BY DEF FoldLeft, MapThenFoldSet
<1>2. \A x, y : Step(k, x, y) = OnSets(x, y)
  BY DEF Step
<1> HIDE DEF k
<1>3. \A h : IsIter(k, s, q, n, h) <=> IsOwn(h)
  BY <1>2 DEF IsIter
<1>4. IsIter(k, s, q, n, own)
  BY <1>3, IterExists
<1> HIDE DEF own
<1>5. IsRun(k, s, q, n, [i \in 0..n |-> own[1..i]])
  BY <1>4, IterRuns
<1>6. [i \in 0..n |-> own[1..i]][n] = own[1..n]
  OBVIOUS
<1>7. QED
  BY <1>1, <1>5, <1>6 DEF k

LEMMA OrphansRun ==
  ASSUME NEW s, NEW q, NEW n \in Nat, DOMAIN q = 1..n
  PROVE  \E f : IsRun([by |-> "orphans"], s, q, n, f) /\ FoldLeft(OnOrphans, s, q) = f[n]
<1> DEFINE k == [by |-> "orphans"]
           IsOwn(h) == h = [t \in SUBSET (1..n) |->
               IF t = {} THEN s ELSE OnOrphans(h[t \ {Max(t)}], q[Max(t)])]
           own == CHOOSE h : IsOwn(h)
<1>1. FoldLeft(OnOrphans, s, q) = own[1..n]
  BY DEF FoldLeft, MapThenFoldSet
<1>2. \A x, y : Step(k, x, y) = OnOrphans(x, y)
  BY DEF Step
<1> HIDE DEF k
<1>3. \A h : IsIter(k, s, q, n, h) <=> IsOwn(h)
  BY <1>2 DEF IsIter
<1>4. IsIter(k, s, q, n, own)
  BY <1>3, IterExists
<1> HIDE DEF own
<1>5. IsRun(k, s, q, n, [i \in 0..n |-> own[1..i]])
  BY <1>4, IterRuns
<1>6. [i \in 0..n |-> own[1..i]][n] = own[1..n]
  OBVIOUS
<1>7. QED
  BY <1>1, <1>5, <1>6 DEF k

LEMMA RequeueRun ==
  ASSUME NEW s, NEW q, NEW n \in Nat, DOMAIN q = 1..n
  PROVE  \E f : IsRun([by |-> "requeue"], s, q, n, f) /\ FoldLeft(OnRequeue, s, q) = f[n]
<1> DEFINE k == [by |-> "requeue"]
           IsOwn(h) == h = [t \in SUBSET (1..n) |->
               IF t = {} THEN s ELSE OnRequeue(h[t \ {Max(t)}], q[Max(t)])]
           own == CHOOSE h : IsOwn(h)
<1>1. FoldLeft(OnRequeue, s, q) = own[1..n]
  BY DEF FoldLeft, MapThenFoldSet
<1>2. \A x, y : Step(k, x, y) = OnRequeue(x, y)
  BY DEF Step
<1> HIDE DEF k
<1>3. \A h : IsIter(k, s, q, n, h) <=> IsOwn(h)
  BY <1>2 DEF IsIter
<1>4. IsIter(k, s, q, n, own)
  BY <1>3, IterExists
<1> HIDE DEF own
<1>5. IsRun(k, s, q, n, [i \in 0..n |-> own[1..i]])
  BY <1>4, IterRuns
<1>6. [i \in 0..n |-> own[1..i]][n] = own[1..n]
  OBVIOUS
<1>7. QED
  BY <1>1, <1>5, <1>6 DEF k

LEMMA OrderRun ==
  ASSUME NEW s, NEW q, NEW n \in Nat, DOMAIN q = 1..n
  PROVE  \E f : IsRun([by |-> "order"], s, q, n, f) /\ FoldLeft(Insert, s, q) = f[n]
<1> DEFINE k == [by |-> "order"]
           IsOwn(h) == h = [t \in SUBSET (1..n) |->
               IF t = {} THEN s ELSE Insert(h[t \ {Max(t)}], q[Max(t)])]
           own == CHOOSE h : IsOwn(h)
<1>1. FoldLeft(Insert, s, q) = own[1..n]
  BY DEF FoldLeft, MapThenFoldSet
<1>2. \A x, y : Step(k, x, y) = Insert(x, y)
  BY DEF Step
<1> HIDE DEF k
<1>3. \A h : IsIter(k, s, q, n, h) <=> IsOwn(h)
  BY <1>2 DEF IsIter
<1>4. IsIter(k, s, q, n, own)
  BY <1>3, IterExists
<1> HIDE DEF own
<1>5. IsRun(k, s, q, n, [i \in 0..n |-> own[1..i]])
  BY <1>4, IterRuns
<1>6. [i \in 0..n |-> own[1..i]][n] = own[1..n]
  OBVIOUS
<1>7. QED
  BY <1>1, <1>5, <1>6 DEF k

LEMMA ApplyRun ==
  ASSUME NEW s, NEW q, NEW n \in Nat, DOMAIN q = 1..n
  PROVE  \E f : IsRun([by |-> "apply"], s, q, n, f) /\ FoldLeft(Apply, s, q) = f[n]
<1> DEFINE k == [by |-> "apply"]
           IsOwn(h) == h = [t \in SUBSET (1..n) |->
               IF t = {} THEN s ELSE Apply(h[t \ {Max(t)}], q[Max(t)])]
           own == CHOOSE h : IsOwn(h)
<1>1. FoldLeft(Apply, s, q) = own[1..n]
  BY DEF FoldLeft, MapThenFoldSet
<1>2. \A x, y : Step(k, x, y) = Apply(x, y)
  BY DEF Step
<1> HIDE DEF k
<1>3. \A h : IsIter(k, s, q, n, h) <=> IsOwn(h)
  BY <1>2 DEF IsIter
<1>4. IsIter(k, s, q, n, own)
  BY <1>3, IterExists
<1> HIDE DEF own
<1>5. IsRun(k, s, q, n, [i \in 0..n |-> own[1..i]])
  BY <1>4, IterRuns
<1>6. [i \in 0..n |-> own[1..i]][n] = own[1..n]
  OBVIOUS
<1>7. QED
  BY <1>1, <1>5, <1>6 DEF k

LEMMA AddRun ==
  ASSUME NEW s, NEW q, NEW n \in Nat, DOMAIN q = 1..n
  PROVE  \E f : IsRun([by |-> "add"], s, q, n, f) /\ FoldLeft(AddOrUpdate, s, q) = f[n]
<1> DEFINE k == [by |-> "add"]
           IsOwn(h) == h = [t \in SUBSET (1..n) |->
               IF t = {} THEN s ELSE AddOrUpdate(h[t \ {Max(t)}], q[Max(t)])]
           own == CHOOSE h : IsOwn(h)
<1>1. FoldLeft(AddOrUpdate, s, q) = own[1..n]
  BY DEF FoldLeft, MapThenFoldSet
<1>2. \A x, y : Step(k, x, y) = AddOrUpdate(x, y)
  BY DEF Step
<1> HIDE DEF k
<1>3. \A h : IsIter(k, s, q, n, h) <=> IsOwn(h)
  BY <1>2 DEF IsIter
<1>4. IsIter(k, s, q, n, own)
  BY <1>3, IterExists
<1> HIDE DEF own
<1>5. IsRun(k, s, q, n, [i \in 0..n |-> own[1..i]])
  BY <1>4, IterRuns
<1>6. [i \in 0..n |-> own[1..i]][n] = own[1..n]
  OBVIOUS
<1>7. QED
  BY <1>1, <1>5, <1>6 DEF k

LEMMA RemoveRun ==
  ASSUME NEW wanted, NEW a, NEW n \in Nat, DOMAIN a.state.resources = 1..n
  PROVE  LET s == [a |-> a, array |-> a.state.resources]
             q == [i \in DOMAIN a.state.resources |-> i]
         IN  \E f : /\ IsRun([by |-> "remove", wanted |-> wanted], s, q, n, f)
                    /\ RemoveUnwanted(a, wanted) = f[n].a
<1> DEFINE s == [a |-> a, array |-> a.state.resources]
           q == [i \in DOMAIN a.state.resources |-> i]
           k == [by |-> "remove", wanted |-> wanted]
           IsOwn(h) == h = [t \in SUBSET (DOMAIN q) |->
               IF t = {} THEN s ELSE RemoveNext(wanted, h[t \ {Max(t)}], q[Max(t)])]
           own == CHOOSE h : IsOwn(h)
<1>1. RemoveUnwanted(a, wanted) = own[DOMAIN q].a
  BY DEF RemoveUnwanted, FoldLeftDomain, FoldLeft, MapThenFoldSet
<1>0. DOMAIN q = 1..n
  OBVIOUS
<1>2. \A x, y : Step(k, x, y) = RemoveNext(wanted, x, y)
  BY DEF Step
<1> HIDE DEF k, q, s
<1>3. \A h : IsIter(k, s, q, n, h) <=> IsOwn(h)
  BY <1>0, <1>2 DEF IsIter
<1>4. IsIter(k, s, q, n, own)
  BY <1>3, IterExists
<1> HIDE DEF own
<1>5. IsRun(k, s, q, n, [i \in 0..n |-> own[1..i]])
  BY <1>4, IterRuns
<1>6. [i \in 0..n |-> own[1..i]][n] = own[1..n]
  OBVIOUS
<1>7. QED
  BY <1>0, <1>1, <1>5, <1>6 DEF k, q, s

\* What a run of the generator ends with.
Ended(run) ==
    [failed    |-> run.failed,
     groups    |-> run.groups # << >>,
     resources |-> FlattenSeq([i \in DOMAIN run.groups |-> run.groups[i].resources])]

LEMMA GroupRun ==
  ASSUME NEW env, NEW blueprint, NEW n \in Nat, DOMAIN blueprint.groups = 1..n
  PROVE  LET s == [failed |-> FALSE, groups |-> << >>]
         IN  \E f : /\ IsRun([by |-> "group", env |-> env], s, blueprint.groups, n, f)
                    /\ Generate(blueprint, env) = Ended(f[n])
<1> DEFINE s == [failed |-> FALSE, groups |-> << >>]
           q == blueprint.groups
           k == [by |-> "group", env |-> env]
           IsOwn(h) == h = [t \in SUBSET (DOMAIN q) |->
               IF t = {} THEN s ELSE AddGroup(h[t \ {Max(t)}], q[Max(t)], env)]
           own == CHOOSE h : IsOwn(h)
<1>1. Generate(blueprint, env) =
                         [failed    |-> own[DOMAIN q].failed,
                          groups    |-> own[DOMAIN q].groups # << >>,
                          resources |-> FlattenSeq([i \in DOMAIN own[DOMAIN q].groups |-> own[DOMAIN q].groups[i].resources])]
  BY DEF Generate, FoldLeft, MapThenFoldSet
<1>0. DOMAIN q = 1..n
  OBVIOUS
<1>2. \A x, y : Step(k, x, y) = AddGroup(x, y, env)
  BY DEF Step
<1> HIDE DEF k, q, s
<1>3. \A h : IsIter(k, s, q, n, h) <=> IsOwn(h)
  BY <1>0, <1>2 DEF IsIter
<1>4. IsIter(k, s, q, n, own)
  BY <1>3, IterExists
<1> HIDE DEF own
<1>5. IsRun(k, s, q, n, [i \in 0..n |-> own[1..i]])
  BY <1>4, IterRuns
<1>6. [i \in 0..n |-> own[1..i]][n] = own[1..n]
  OBVIOUS
<1>7. QED
  BY <1>0, <1>1, <1>5, <1>6 DEF k, q, s, Ended

-----------------------------------------------------------------------------
(* Lists. *)

IsList(q) == q \in Seq(ToSet(q))

LEMMA ListFacts ==
  ASSUME NEW q, IsList(q)
  PROVE  Len(q) \in Nat /\ DOMAIN q = 1..Len(q) /\ ToSet(q) = {q[i] : i \in 1..Len(q)}
BY DEF IsList, ToSet

LEMMA IsListBy ==
  ASSUME NEW q, NEW n \in Nat, q = [i \in 1..n |-> q[i]]
  PROVE  IsList(q) /\ Len(q) = n
<1>1. DOMAIN q = 1..n
  OBVIOUS
<1>2. \A i \in 1..n : q[i] \in ToSet(q)
  BY <1>1 DEF ToSet
<1>3. q \in [1..n -> ToSet(q)]
  BY <1>2
<1>4. QED
  BY <1>3 DEF IsList

LEMMA SeqIsList ==
  ASSUME NEW S, NEW q \in Seq(S)
  PROVE  IsList(q)
<1>1. Len(q) \in Nat /\ q = [i \in 1..Len(q) |-> q[i]]
  OBVIOUS
<1>2. QED
  BY <1>1, IsListBy

LEMMA EmptyList == IsList(<< >>) /\ Len(<< >>) = 0 /\ ToSet(<< >>) = {}
<1>1. << >> \in Seq({}) /\ Len(<< >>) = 0 /\ DOMAIN << >> = {}
  OBVIOUS
<1>2. QED
  BY <1>1, SeqIsList DEF ToSet

LEMMA AppendList ==
  ASSUME NEW q, IsList(q), NEW e
  PROVE  /\ IsList(Append(q, e)) /\ Len(Append(q, e)) = Len(q) + 1
         /\ \A i \in 1..Len(q) : Append(q, e)[i] = q[i]
         /\ Append(q, e)[Len(q) + 1] = e
         /\ ToSet(Append(q, e)) = ToSet(q) \cup {e}
<1> DEFINE S == ToSet(q) \cup {e}
           r == Append(q, e)
<1>1. q \in Seq(S)
  BY DEF IsList
<1>2. /\ r \in Seq(S) /\ Len(r) = Len(q) + 1 /\ DOMAIN r = 1..(Len(q) + 1)
      /\ \A i \in 1..Len(q) : r[i] = q[i]
      /\ r[Len(q) + 1] = e
  BY <1>1
<1>3. Len(q) \in Nat /\ DOMAIN q = 1..Len(q)
  BY <1>1
<1>4. ToSet(r) = ToSet(q) \cup {e}
  <2> HIDE DEF r
  <2>1. \A x : (\E i \in 1..(Len(q) + 1) : x = r[i]) <=> (\E i \in 1..Len(q) : x = q[i]) \/ x = e
    BY <1>2, <1>3
  <2>2. QED
    BY <1>2, <1>3, <2>1 DEF ToSet
<1>5. QED
  BY <1>2, <1>4, SeqIsList

LEMMA ReplaceList ==
  ASSUME NEW q, IsList(q), NEW i \in DOMAIN q, NEW e
  PROVE  LET r == ReplaceAt(q, i, e)
         IN  /\ IsList(r) /\ Len(r) = Len(q)
             /\ \A j \in 1..Len(q) : r[j] = IF j = i THEN e ELSE q[j]
<1> DEFINE r == ReplaceAt(q, i, e)
<1>1. Len(q) \in Nat /\ DOMAIN q = 1..Len(q)
  BY ListFacts
<1>2. r = [j \in 1..Len(q) |-> IF j = i THEN e ELSE q[j]]
  BY <1>1 DEF ReplaceAt
<1>3. r = [j \in 1..Len(q) |-> r[j]]
  BY <1>2
<1>4. QED
  BY <1>1, <1>2, <1>3, IsListBy

\* The list c is a and then b.
Joins(c, a, b) ==
    /\ Len(c) = Len(a) + Len(b)
    /\ \A j \in 1..(Len(a) + Len(b)) : c[j] = IF j <= Len(a) THEN a[j] ELSE b[j - Len(a)]

LEMMA JoinList ==
  ASSUME NEW S, NEW a \in Seq(S), NEW b \in Seq(S)
  PROVE  a \o b \in Seq(S) /\ Joins(a \o b, a, b)
BY DEF Joins

\* A list in two parts, without the elements between them.
LEMMA Parts ==
  ASSUME NEW S, NEW q \in Seq(S), NEW m \in 0..Len(q), NEW l \in (m + 1)..(Len(q) + 1),
         NEW a, a = SubSeq(q, 1, m), NEW b, b = SubSeq(q, l, Len(q))
  PROVE  /\ a \in Seq(S) /\ Len(a) = m /\ \A j \in 1..m : a[j] = q[j]
         /\ b \in Seq(S) /\ Len(b) = Len(q) + 1 - l
         /\ \A j \in 1..(Len(q) + 1 - l) : b[j] = q[l + j - 1]
OBVIOUS

LEMMA RemoveList ==
  ASSUME NEW q, IsList(q), NEW i \in DOMAIN q
  PROVE  LET r == RemoveAt(q, i)
         IN  /\ IsList(r) /\ Len(r) = Len(q) - 1
             /\ \A j \in 1..(Len(q) - 1) : r[j] = IF j < i THEN q[j] ELSE q[j + 1]
<1>1. PICK S : q \in Seq(S)
  BY DEF IsList
<1>2. PICK n \in Nat : n = Len(q)
  BY <1>1
<1>3. i \in 1..n
  BY <1>1, <1>2
<1>4. PICK a, b : a = SubSeq(q, 1, i - 1) /\ b = SubSeq(q, i + 1, Len(q))
  OBVIOUS
<1>5. /\ a \in Seq(S) /\ Len(a) = i - 1 /\ \A j \in 1..(i - 1) : a[j] = q[j]
      /\ b \in Seq(S) /\ Len(b) = n - i
      /\ \A j \in 1..(n - i) : b[j] = q[i + j]
  <2>1. PICK m, l : m = i - 1 /\ l = i + 1
    OBVIOUS
  <2>2. m \in 0..Len(q) /\ l \in (m + 1)..(Len(q) + 1)
    BY <1>2, <1>3, <2>1
  <2>3. a = SubSeq(q, 1, m) /\ b = SubSeq(q, l, Len(q))
    BY <1>4, <2>1
  <2>4. /\ a \in Seq(S) /\ Len(a) = m /\ \A j \in 1..m : a[j] = q[j]
        /\ b \in Seq(S) /\ Len(b) = Len(q) + 1 - l
        /\ \A j \in 1..(Len(q) + 1 - l) : b[j] = q[l + j - 1]
    BY <1>1, <2>2, <2>3, Parts
  <2>5. Len(q) + 1 - l = n - i /\ \A j \in 1..(n - i) : l + j - 1 = i + j
    BY <1>2, <1>3, <2>1
  <2>6. QED
    BY <2>1, <2>4, <2>5
<1>6. PICK r : r = RemoveAt(q, i)
  OBVIOUS
<1>7. r = a \o b
  BY <1>4, <1>6 DEF RemoveAt
<1>8. /\ r \in Seq(S) /\ Len(r) = n - 1
      /\ \A j \in 1..(n - 1) : r[j] = IF j <= i - 1 THEN a[j] ELSE b[j - (i - 1)]
  <2>1. Len(a) + Len(b) = n - 1 /\ Len(a) = i - 1
    <3>1. Len(a) = i - 1 /\ Len(b) = n - i
      BY <1>5, Zenon
    <3>2. QED
      BY <1>2, <1>3, <3>1
  <2>2. r \in Seq(S) /\ Joins(r, a, b)
    BY <1>5, <1>7, JoinList
  <2>3. QED
    BY <2>1, <2>2 DEF Joins
<1>9. ASSUME NEW j \in 1..(n - 1) PROVE r[j] = IF j < i THEN q[j] ELSE q[j + 1]
  <2>1. CASE j < i
    <3>1. j \in 1..(i - 1) /\ j <= i - 1
      BY <1>2, <1>3, <2>1
    <3>2. QED
      BY <1>5, <1>8, <2>1, <3>1
  <2>2. CASE ~(j < i)
    <3>1. j - (i - 1) \in 1..(n - i) /\ i + (j - (i - 1)) = j + 1 /\ ~(j <= i - 1)
      BY <1>2, <1>3, <2>2
    <3>2. QED
      BY <1>5, <1>8, <2>2, <3>1
  <2>3. QED
    BY <2>1, <2>2
<1>10. QED
  BY <1>2, <1>6, <1>8, <1>9, SeqIsList

LEMMA InsertList ==
  ASSUME NEW q, IsList(q), NEW i \in 1..(Len(q) + 1), NEW e
  PROVE  LET r == InsertAt(q, i, e)
         IN  /\ IsList(r) /\ Len(r) = Len(q) + 1
             /\ \A j \in 1..(Len(q) + 1) :
                    r[j] = IF j < i THEN q[j] ELSE IF j = i THEN e ELSE q[j - 1]
<1>1. PICK S : q \in Seq(S) /\ e \in S
  <2>1. q \in Seq(ToSet(q) \cup {e})
    BY DEF IsList
  <2>2. QED
    BY <2>1
<1>2. PICK n \in Nat : n = Len(q)
  BY <1>1
<1>3. i \in 1..(n + 1)
  BY <1>2
<1>4. PICK a, b : a = SubSeq(q, 1, i - 1) /\ b = SubSeq(q, i, Len(q))
  OBVIOUS
<1>5. /\ a \in Seq(S) /\ Len(a) = i - 1 /\ \A j \in 1..(i - 1) : a[j] = q[j]
      /\ b \in Seq(S) /\ Len(b) = n + 1 - i
      /\ \A j \in 1..(n + 1 - i) : b[j] = q[i + j - 1]
  <2>1. i - 1 \in 0..Len(q) /\ i \in (i - 1 + 1)..(Len(q) + 1)
    BY <1>2, <1>3
  <2>2. QED
    BY <1>1, <1>2, <1>4, <2>1, Parts
<1>6. PICK c : c = a \o <<e>>
  OBVIOUS
<1>7. /\ c \in Seq(S) /\ Len(c) = i
      /\ \A j \in 1..i : c[j] = IF j <= i - 1 THEN a[j] ELSE e
  <2>1. PICK o : o = <<e>>
    OBVIOUS
  <2>a. o \in Seq(S) /\ Len(o) = 1 /\ o[1] = e
    BY <1>1, <2>1
  <2>2. /\ c \in Seq(S) /\ Len(c) = Len(a) + 1
        /\ \A j \in 1..(Len(a) + 1) : c[j] = IF j <= Len(a) THEN a[j] ELSE o[j - Len(a)]
    <3>1. c = a \o o /\ a \in Seq(S)
      BY <1>5, <1>6, <2>1
    <3>2. c \in Seq(S) /\ Joins(c, a, o)
      BY <2>a, <3>1, JoinList
    <3>3. QED
      BY <2>a, <3>2 DEF Joins
  <2>3. Len(a) = i - 1 /\ Len(a) + 1 = i
    BY <1>3, <1>5
  <2>4. ASSUME NEW j \in 1..i PROVE c[j] = IF j <= i - 1 THEN a[j] ELSE e
    <3>1. c[j] = IF j <= i - 1 THEN a[j] ELSE o[j - (i - 1)]
      BY <2>2, <2>3
    <3>2. ~(j <= i - 1) => j - (i - 1) = 1
      BY <1>3
    <3>3. QED
      BY <2>a, <3>1, <3>2
  <2>5. QED
    BY <2>2, <2>3, <2>4
<1>8. PICK r : r = InsertAt(q, i, e)
  OBVIOUS
<1>9. r = c \o b
  BY <1>4, <1>6, <1>8 DEF InsertAt
<1>10. /\ r \in Seq(S) /\ Len(r) = n + 1
       /\ \A j \in 1..(n + 1) : r[j] = IF j <= i THEN c[j] ELSE b[j - i]
  <2>1. Len(c) + Len(b) = n + 1 /\ Len(c) = i
    BY <1>2, <1>3, <1>5, <1>7
  <2>2. r \in Seq(S) /\ Joins(r, c, b)
    BY <1>5, <1>7, <1>9, JoinList
  <2>3. QED
    BY <2>1, <2>2 DEF Joins
<1>11. ASSUME NEW j \in 1..(n + 1)
       PROVE  r[j] = IF j < i THEN q[j] ELSE IF j = i THEN e ELSE q[j - 1]
  <2>1. CASE j < i
    <3>1. j \in 1..(i - 1) /\ j \in 1..i /\ j <= i - 1 /\ j <= i
      BY <1>2, <1>3, <2>1
    <3>2. QED
      BY <1>5, <1>7, <1>10, <2>1, <3>1
  <2>2. CASE j = i
    <3>1. j \in 1..i /\ ~(j <= i - 1) /\ j <= i /\ ~(j < i)
      BY <1>2, <1>3, <2>2
    <3>2. QED
      BY <1>7, <1>10, <2>2, <3>1
  <2>3. CASE j > i
    <3>1. j - i \in 1..(n + 1 - i) /\ i + (j - i) - 1 = j - 1 /\ ~(j <= i) /\ ~(j < i) /\ j # i
      BY <1>2, <1>3, <2>3
    <3>2. QED
      BY <1>5, <1>10, <3>1
  <2>4. QED
    BY <1>2, <1>3, <2>1, <2>2, <2>3
<1>12. QED
  BY <1>2, <1>8, <1>10, <1>11, SeqIsList

-----------------------------------------------------------------------------
(* Lists of resources. *)

\* A resource is listed once.
Distinct(rs) == \A i, j \in DOMAIN rs : rs[i].id = rs[j].id => i = j

\* The resources of a list after an event, in any order.
After(S, e) ==
    IF e.type = "ResourceRemoved" THEN {q \in S : q.id # e.id}
    ELSE {q \in S : q.id # e.resource.id} \cup {e.resource}

\* The aggregate raises events that suit its list.
Suits(rs, e) ==
    /\ e.type \in ResourceEvents
    /\ e.type = "ResourceAdded"   => e.resource.id \notin Ids(rs)
    /\ e.type = "ResourceUpdated" => e.resource.id \in Ids(rs)

LEMMA IdsOfSet ==
  ASSUME NEW rs
  PROVE  Ids(rs) = {q.id : q \in ToSet(rs)}
BY DEF Ids, ToSet

LEMMA FindFacts ==
  ASSUME NEW rs, IsList(rs), NEW id
  PROVE  /\ Find(rs, id) \in 0..Len(rs)
         /\ Find(rs, id) = 0 <=> id \notin Ids(rs)
         /\ Find(rs, id) # 0 => rs[Find(rs, id)].id = id
<1> DEFINE I == {i \in 1..Len(rs) : rs[i].id = id}
<1>1. Find(rs, id) = IF I # {} THEN Min(I) ELSE 0
  BY DEF Find, SelectInSeq
<1>2. Len(rs) \in Nat /\ DOMAIN rs = 1..Len(rs)
  BY ListFacts
<1>3. id \in Ids(rs) <=> I # {}
  BY <1>2 DEF Ids
<1>4. CASE I = {}
  <2>1. Find(rs, id) = 0
    BY <1>1, <1>4
  <2>2. QED
    BY <1>2, <1>3, <1>4, <2>1
<1>5. CASE I # {}
  <2>1. I \in SUBSET (0..Len(rs))
    BY <1>2
  <2>2. Min(I) \in I
    BY <1>2, <1>5, <2>1, LeastAndGreatest
  <2>3. Find(rs, id) \in I
    BY <1>1, <1>5, <2>2
  <2>4. QED
    BY <1>2, <1>3, <1>5, <2>3
<1>6. QED
  BY <1>4, <1>5

\* What an event makes of a list, whatever its order is.
LEMMA ResourceEvent ==
  ASSUME NEW rs, IsList(rs), Distinct(rs), NEW e, Suits(rs, e)
  PROVE  LET new == OnResources(rs, e)
         IN  IsList(new) /\ Distinct(new) /\ ToSet(new) = After(ToSet(rs), e)
<1> DEFINE new == OnResources(rs, e)
<1>1. /\ Len(rs) \in Nat /\ DOMAIN rs = 1..Len(rs)
      /\ ToSet(rs) = {rs[i] : i \in 1..Len(rs)}
      /\ Ids(rs) = {rs[i].id : i \in 1..Len(rs)}
  BY ListFacts DEF Ids
<1>2. CASE e.type = "ResourceAdded"
  <2>1. new = Append(rs, e.resource) /\ e.resource.id \notin Ids(rs)
    BY <1>2 DEF OnResources, Suits
  <2> HIDE DEF new
  <2>2. /\ IsList(new) /\ Len(new) = Len(rs) + 1
        /\ \A i \in 1..Len(rs) : new[i] = rs[i]
        /\ new[Len(rs) + 1] = e.resource
        /\ ToSet(new) = ToSet(rs) \cup {e.resource}
    BY <2>1, AppendList
  <2>3. DOMAIN new = 1..(Len(rs) + 1)
    BY <2>2, ListFacts
  <2>4. Distinct(new)
    BY <1>1, <2>1, <2>2, <2>3 DEF Distinct
  <2>5. {q \in ToSet(rs) : q.id # e.resource.id} = ToSet(rs)
    BY <1>1, <2>1
  <2>6. After(ToSet(rs), e) = ToSet(rs) \cup {e.resource}
    BY <1>2, <2>5 DEF After
  <2>7. QED
    BY <2>2, <2>4, <2>6 DEF new
<1>3. CASE e.type = "ResourceUpdated"
  <2> DEFINE i == Find(rs, e.resource.id)
  <2>1. new = ReplaceAt(rs, i, e.resource) /\ e.resource.id \in Ids(rs)
    BY <1>3 DEF OnResources, Suits
  <2>2. i \in 1..Len(rs) /\ rs[i].id = e.resource.id
    BY <1>1, <2>1, FindFacts
  <2> HIDE DEF new, i
  <2>3. /\ IsList(new) /\ Len(new) = Len(rs)
        /\ \A j \in 1..Len(rs) : new[j] = IF j = i THEN e.resource ELSE rs[j]
    <3>1. i \in DOMAIN rs
      BY <1>1, <2>2
    <3>2. PICK r : r = e.resource
      OBVIOUS
    <3>3. LET s == ReplaceAt(rs, i, r)
          IN  /\ IsList(s) /\ Len(s) = Len(rs)
              /\ \A j \in 1..Len(rs) : s[j] = IF j = i THEN r ELSE rs[j]
      BY <3>1, ReplaceList
    <3>4. QED
      BY <2>1, <3>2, <3>3, Zenon
  <2>4. DOMAIN new = 1..Len(rs) /\ ToSet(new) = {new[j] : j \in 1..Len(rs)}
    BY <2>3, ListFacts
  <2>5. Distinct(new)
    BY <1>1, <2>2, <2>3, <2>4 DEF Distinct
  <2>6. \A j \in 1..Len(rs) : rs[j].id # e.resource.id <=> j # i
    BY <1>1, <2>2 DEF Distinct
  <2>7. ToSet(new) = {q \in ToSet(rs) : q.id # e.resource.id} \cup {e.resource}
    <3>1. \A x : (\E j \in 1..Len(rs) : x = new[j]) <=>
                 x = e.resource \/ \E j \in 1..Len(rs) : x = rs[j] /\ j # i
      BY <2>2, <2>3
    <3>2. \A x : x \in ToSet(new) <=> \E j \in 1..Len(rs) : x = new[j]
      BY <2>4
    <3>3. \A x : x \in ToSet(rs) /\ x.id # e.resource.id <=>
                 \E j \in 1..Len(rs) : x = rs[j] /\ j # i
      BY <1>1, <2>6
    <3>4. \A x : x \in ToSet(new) <=>
                 x \in {q \in ToSet(rs) : q.id # e.resource.id} \cup {e.resource}
      <4>1. \A x : x \in ToSet(new) <=>
                   x = e.resource \/ (x \in ToSet(rs) /\ x.id # e.resource.id)
        <5> SUFFICES ASSUME NEW x
                     PROVE  x \in ToSet(new) <=>
                                x = e.resource \/ (x \in ToSet(rs) /\ x.id # e.resource.id)
          OBVIOUS
        <5>1. (\E j \in 1..Len(rs) : x = new[j]) <=>
                  x = e.resource \/ (\E j \in 1..Len(rs) : x = rs[j] /\ j # i)
          BY <3>1
        <5>2. x \in ToSet(new) <=> \E j \in 1..Len(rs) : x = new[j]
          BY <3>2
        <5>3. x \in ToSet(rs) /\ x.id # e.resource.id <=>
                  \E j \in 1..Len(rs) : x = rs[j] /\ j # i
          BY <3>3
        <5>4. QED
          BY <5>1, <5>2, <5>3, Zenon
      <4>2. QED
        BY <4>1
    <3>5. QED
      BY <3>4
  <2>8. QED
    BY <1>3, <2>3, <2>5, <2>7 DEF After, new
<1>4. CASE e.type = "ResourceRemoved"
  <2> DEFINE i == Find(rs, e.id)
  <2>1. new = IF i = 0 THEN rs ELSE RemoveAt(rs, i)
    BY <1>4 DEF OnResources, RemoveFrom
  <2>2. After(ToSet(rs), e) = {q \in ToSet(rs) : q.id # e.id}
    BY <1>4 DEF After
  <2>3. CASE i = 0
    <3>1. e.id \notin Ids(rs)
      BY <2>3, FindFacts
    <3>2. {q \in ToSet(rs) : q.id # e.id} = ToSet(rs)
      BY <1>1, <3>1
    <3>3. QED
      BY <2>1, <2>2, <2>3, <3>2
  <2>4. CASE i # 0
    <3>1. i \in 1..Len(rs) /\ rs[i].id = e.id
      BY <1>1, <2>4, FindFacts
    <3>2. new = RemoveAt(rs, i)
      BY <2>1, <2>4
    <3> HIDE DEF new, i
    <3>3. /\ IsList(new) /\ Len(new) = Len(rs) - 1
          /\ \A j \in 1..(Len(rs) - 1) : new[j] = IF j < i THEN rs[j] ELSE rs[j + 1]
      BY <1>1, <3>1, <3>2, RemoveList
    <3>4. DOMAIN new = 1..(Len(rs) - 1) /\ ToSet(new) = {new[j] : j \in 1..(Len(rs) - 1)}
      BY <3>3, ListFacts
    <3>5. Distinct(new)
      <4>1. \A j, m \in 1..Len(rs) : rs[j].id = rs[m].id => j = m
        BY <1>1 DEF Distinct
      <4>2. SUFFICES ASSUME NEW j \in 1..(Len(rs) - 1), NEW m \in 1..(Len(rs) - 1),
                            new[j].id = new[m].id
                     PROVE  j = m
        BY <3>4 DEF Distinct
      <4>3. PICK u \in 1..Len(rs) : new[j] = rs[u] /\ u = IF j < i THEN j ELSE j + 1
        BY <1>1, <3>3
      <4>4. PICK v \in 1..Len(rs) : new[m] = rs[v] /\ v = IF m < i THEN m ELSE m + 1
        BY <1>1, <3>3
      <4>5. u = v
        BY <4>1, <4>2, <4>3, <4>4
      <4>6. QED
        BY <1>1, <3>1, <4>3, <4>4, <4>5
    <3>6. \A j \in 1..Len(rs) : rs[j].id # e.id <=> j # i
      BY <1>1, <3>1 DEF Distinct
    <3>7. \A x : (\E j \in 1..(Len(rs) - 1) : x = new[j]) <=>
                 \E j \in 1..Len(rs) : x = rs[j] /\ j # i
      <4>1. ASSUME NEW x, NEW j \in 1..(Len(rs) - 1), x = new[j]
            PROVE  \E m \in 1..Len(rs) : x = rs[m] /\ m # i
        BY <1>1, <3>1, <3>3, <4>1
      <4>2. ASSUME NEW x, NEW m \in 1..Len(rs), x = rs[m], m # i
            PROVE  \E j \in 1..(Len(rs) - 1) : x = new[j]
        <5>1. CASE m < i
          BY <1>1, <3>1, <3>3, <4>2, <5>1
        <5>2. CASE m > i
          <6>1. m - 1 \in 1..(Len(rs) - 1) /\ ~(m - 1 < i) /\ m - 1 + 1 = m
            BY <1>1, <3>1, <5>2
          <6>2. QED
            BY <3>3, <4>2, <6>1
        <5>3. QED
          BY <1>1, <3>1, <4>2, <5>1, <5>2
      <4>3. QED
        BY <4>1, <4>2
    <3>8. ToSet(new) = {q \in ToSet(rs) : q.id # e.id}
      <4>1. \A x : x \in ToSet(new) <=> \E j \in 1..(Len(rs) - 1) : x = new[j]
        BY <3>4
      <4>2. \A x : x \in ToSet(rs) /\ x.id # e.id <=>
                   \E j \in 1..Len(rs) : x = rs[j] /\ j # i
        BY <1>1, <3>6
      <4>3. \A x : x \in ToSet(new) <=> x \in {q \in ToSet(rs) : q.id # e.id}
        BY <3>7, <4>1, <4>2
      <4>4. QED
        BY <4>3
    <3>9. QED
      BY <2>2, <3>3, <3>5, <3>8 DEF new
  <2>5. QED
    BY <2>3, <2>4
<1>5. QED
  BY <1>2, <1>3, <1>4 DEF Suits, ResourceEvents

-----------------------------------------------------------------------------
(* Sorting. *)

Orders(rs) == \A r \in ToSet(rs) : r.order \in Nat
Sorted(rs) == \A i, j \in DOMAIN rs : i < j => rs[i].order <= rs[j].order

LEMMA Prefix ==
  ASSUME NEW n \in Nat, NEW C \in SUBSET (1..n),
         \A i \in C, j \in 1..n : j < i => j \in C
  PROVE  Cardinality(C) \in 0..n /\ C = 1..Cardinality(C)
<1>1. CASE C = {}
  <2>1. Cardinality(C) = 0
    BY <1>1, FS_EmptySet
  <2>2. QED
    BY <1>1, <2>1
<1>2. CASE C # {}
  <2>1. C \in SUBSET (0..n)
    OBVIOUS
  <2>2. PICK m : m = Max(C)
    OBVIOUS
  <2>3. m \in C /\ \A y \in C : m >= y
    BY <1>2, <2>1, <2>2, LeastAndGreatest
  <2>4. C = 1..m
    <3>1. ASSUME NEW y PROVE y \in C <=> y \in 1..m
      <4>1. y \in C => y \in 1..n /\ m >= y
        BY <2>3
      <4>2. m \in 1..n /\ (y \in 1..n /\ y < m => y \in C)
        BY <2>3
      <4>3. QED
        BY <2>3, <4>1, <4>2
    <3>2. QED
      BY <3>1
  <2>5. Cardinality(1..m) = m
    <3>1. 1 \in Int /\ m \in Int /\ 1 <= m
      BY <2>3
    <3>2. Cardinality(1..m) = m - 1 + 1
      BY <3>1, FS_Interval
    <3>3. QED
      BY <3>1, <3>2
  <2>6. QED
    BY <2>3, <2>4, <2>5
<1>3. QED
  BY <1>1, <1>2

\* Where Insert puts a resource, and what comes of it.
LEMMA InsertSorted ==
  ASSUME NEW rs, IsList(rs), Sorted(rs), Orders(rs), Distinct(rs),
         NEW r, r.order \in Nat, r.id \notin Ids(rs)
  PROVE  LET new == Insert(rs, r)
         IN  /\ IsList(new) /\ Len(new) = Len(rs) + 1
             /\ Sorted(new) /\ Orders(new) /\ Distinct(new)
             /\ ToSet(new) = ToSet(rs) \cup {r}
<1>1. PICK n : n = Len(rs)
  OBVIOUS
<1>2. n \in Nat /\ DOMAIN rs = 1..n /\ ToSet(rs) = {rs[i] : i \in 1..n}
  BY <1>1, ListFacts
<1>3. PICK C : C = {i \in DOMAIN rs : rs[i].order <= r.order}
  OBVIOUS
<1>4. \A i \in 1..n : rs[i].order \in Nat
  BY <1>2 DEF Orders
<1>5. C \in SUBSET (1..n) /\ \A i \in C, j \in 1..n : j < i => j \in C
  <2>1. ASSUME NEW i \in C, NEW j \in 1..n, j < i PROVE j \in C
    <3>1. i \in 1..n /\ rs[i].order <= r.order
      BY <1>2, <1>3
    <3>2. rs[j].order <= rs[i].order
      BY <1>2, <2>1, <3>1 DEF Sorted
    <3>3. rs[j].order <= r.order
      BY <1>4, <3>1, <3>2
    <3>4. QED
      BY <1>2, <1>3, <3>3
  <2>2. QED
    BY <1>2, <1>3, <2>1
<1>6. PICK c : c = Cardinality(C)
  OBVIOUS
<1>7. c \in 0..n /\ C = 1..c
  BY <1>2, <1>5, <1>6, Prefix
<1>8. \A j \in 1..n : IF j <= c THEN rs[j].order <= r.order ELSE r.order <= rs[j].order
  <2>1. ASSUME NEW j \in 1..n PROVE j \in C <=> rs[j].order <= r.order
    BY <1>2, <1>3
  <2>2. \A j \in 1..n : j \in C <=> j <= c
    BY <1>2, <1>7
  <2>3. QED
    BY <1>4, <2>1, <2>2
<1>9. PICK new : new = Insert(rs, r)
  OBVIOUS
<1>10. new = InsertAt(rs, c + 1, r)
  BY <1>3, <1>6, <1>9 DEF Insert
<1>11. /\ IsList(new) /\ Len(new) = n + 1
       /\ \A j \in 1..(n + 1) :
              new[j] = IF j < c + 1 THEN rs[j] ELSE IF j = c + 1 THEN r ELSE rs[j - 1]
  <2>1. c + 1 \in 1..(Len(rs) + 1)
    BY <1>1, <1>2, <1>7
  <2>2. LET s == InsertAt(rs, c + 1, r)
        IN  /\ IsList(s) /\ Len(s) = Len(rs) + 1
            /\ \A j \in 1..(Len(rs) + 1) :
                   s[j] = IF j < c + 1 THEN rs[j] ELSE IF j = c + 1 THEN r ELSE rs[j - 1]
    BY <2>1, InsertList
  <2>3. QED
    BY <1>1, <1>10, <2>2, Zenon
<1>12. DOMAIN new = 1..(n + 1) /\ ToSet(new) = {new[j] : j \in 1..(n + 1)}
  BY <1>11, ListFacts
<1>13. \A j \in 1..(n + 1) :
         /\ j < c + 1 => j \in 1..n /\ new[j] = rs[j] /\ j <= c
         /\ j = c + 1 => new[j] = r
         /\ j > c + 1 => j - 1 \in 1..n /\ new[j] = rs[j - 1] /\ ~(j - 1 <= c)
  BY <1>2, <1>7, <1>11
<1>14. ToSet(new) = ToSet(rs) \cup {r}
  <2>1. ASSUME NEW x PROVE x \in ToSet(new) => x \in ToSet(rs) \cup {r}
    BY <1>2, <1>7, <1>12, <1>13
  <2>2. ASSUME NEW j \in 1..n PROVE rs[j] \in ToSet(new)
    <3>1. CASE j <= c
      <4>1. j \in 1..(n + 1) /\ j < c + 1
        BY <1>2, <1>7, <3>1
      <4>2. QED
        BY <1>12, <1>13, <4>1
    <3>2. CASE ~(j <= c)
      <4>1. j + 1 \in 1..(n + 1) /\ j + 1 > c + 1 /\ j + 1 - 1 = j
        BY <1>2, <1>7, <3>2
      <4>2. QED
        BY <1>12, <1>13, <4>1
    <3>3. QED
      BY <3>1, <3>2
  <2>3. r \in ToSet(new)
    <3>1. c + 1 \in 1..(n + 1)
      BY <1>2, <1>7
    <3>2. QED
      BY <1>12, <1>13, <3>1
  <2>4. QED
    BY <1>2, <2>1, <2>2, <2>3
<1>15. Orders(new)
  BY <1>14 DEF Orders
<1>16. Sorted(new)
  <2> SUFFICES ASSUME NEW i \in 1..(n + 1), NEW j \in 1..(n + 1), i < j
               PROVE  new[i].order <= new[j].order
    BY <1>12 DEF Sorted
  <2>1. \A u, v \in 1..n : u < v => rs[u].order <= rs[v].order
    BY <1>2 DEF Sorted
  <2>2. CASE j < c + 1
    BY <1>2, <1>7, <1>13, <2>1, <2>2
  <2>3. CASE j = c + 1
    BY <1>2, <1>7, <1>8, <1>13, <2>3
  <2>4. CASE j > c + 1 /\ i = c + 1
    BY <1>2, <1>7, <1>8, <1>13, <2>4
  <2>5. CASE j > c + 1 /\ i < c + 1
    <3>1. i < j - 1
      BY <1>7, <2>5
    <3>2. QED
      BY <1>13, <2>1, <2>5, <3>1
  <2>6. CASE j > c + 1 /\ i > c + 1
    BY <1>2, <1>7, <1>13, <2>1, <2>6
  <2>7. QED
    BY <1>7, <2>2, <2>3, <2>4, <2>5, <2>6
<1>17. Distinct(new)
  <2> SUFFICES ASSUME NEW i \in 1..(n + 1), NEW j \in 1..(n + 1), new[i].id = new[j].id
               PROVE  i = j
    BY <1>12 DEF Distinct
  <2>1. \A u, v \in 1..n : rs[u].id = rs[v].id => u = v
    BY <1>2 DEF Distinct
  <2>2. \A u \in 1..n : rs[u].id # r.id
    BY <1>2 DEF Ids
  <2>3. CASE i = c + 1 \/ j = c + 1
    BY <1>7, <1>13, <2>2, <2>3
  <2>4. CASE i < c + 1 /\ j < c + 1
    BY <1>7, <1>13, <2>1, <2>4
  <2>5. CASE i > c + 1 /\ j > c + 1
    BY <1>7, <1>13, <2>1, <2>5
  <2>6. CASE i < c + 1 /\ j > c + 1
    <3>1. i = j - 1
      BY <1>13, <2>1, <2>6
    <3>2. QED
      BY <1>7, <1>13, <2>6, <3>1
  <2>7. CASE i > c + 1 /\ j < c + 1
    <3>1. i - 1 = j
      BY <1>13, <2>1, <2>7
    <3>2. QED
      BY <1>7, <1>13, <2>7, <3>1
  <2>8. QED
    BY <1>7, <2>3, <2>4, <2>5, <2>6, <2>7
<1>18. QED
  BY <1>1, <1>9, <1>11, <1>14, <1>15, <1>16, <1>17

\* The sort keeps the resources and puts them in order.
LEMMA SortedByOrder ==
  ASSUME NEW rs, IsList(rs), Orders(rs), Distinct(rs), NEW new, new = ByOrder(rs)
  PROVE  /\ IsList(new) /\ Sorted(new) /\ Orders(new) /\ Distinct(new)
         /\ ToSet(new) = ToSet(rs)
<1>1. PICK n : n = Len(rs)
  OBVIOUS
<1>2. n \in Nat /\ DOMAIN rs = 1..n /\ ToSet(rs) = {rs[i] : i \in 1..n}
  BY <1>1, ListFacts
<1>3. PICK f : IsRun([by |-> "order"], << >>, rs, n, f) /\ ByOrder(rs) = f[n]
  BY <1>2, OrderRun DEF ByOrder
<1>4. f[0] = << >> /\ \A i \in 0..(n - 1) : f[i + 1] = Insert(f[i], rs[i + 1])
  <2>1. \A x, y : Step([by |-> "order"], x, y) = Insert(x, y)
    BY DEF Step
  <2>2. QED
    BY <1>3, <2>1 DEF IsRun
<1> DEFINE Good(i) == /\ IsList(f[i]) /\ Sorted(f[i]) /\ Orders(f[i]) /\ Distinct(f[i])
                      /\ ToSet(f[i]) = {rs[j] : j \in 1..i}
           S == {i \in Nat : i <= n => Good(i)}
<1>5. 0 \in S
  <2>1. /\ IsList(<< >>) /\ ToSet(<< >>) = {} /\ DOMAIN << >> = {}
        /\ {rs[j] : j \in 1..0} = {}
    BY EmptyList
  <2>2. Sorted(<< >>) /\ Orders(<< >>) /\ Distinct(<< >>)
    BY <2>1 DEF Sorted, Orders, Distinct
  <2>3. QED
    BY <1>4, <2>1, <2>2
<1>6. ASSUME NEW i \in Nat, i \in S PROVE i + 1 \in S
  <2> SUFFICES ASSUME i + 1 <= n PROVE Good(i + 1)
    OBVIOUS
  <2>1. Good(i) /\ i + 1 \in 1..n /\ i \in 0..(n - 1)
    BY <1>2, <1>6
  <2>2. PICK r : r = rs[i + 1]
    OBVIOUS
  <2>3. r.order \in Nat
    BY <1>2, <2>1, <2>2 DEF Orders
  <2>4. r.id \notin Ids(f[i])
    <3>1. \A j \in 1..i : rs[j].id # r.id
      BY <1>2, <2>1, <2>2 DEF Distinct
    <3>2. QED
      BY <2>1, <3>1, IdsOfSet
  <2>5. f[i + 1] = Insert(f[i], r)
    BY <1>4, <2>1, <2>2
  <2>6. /\ IsList(f[i + 1]) /\ Sorted(f[i + 1]) /\ Orders(f[i + 1]) /\ Distinct(f[i + 1])
        /\ ToSet(f[i + 1]) = ToSet(f[i]) \cup {r}
    BY <2>1, <2>3, <2>4, <2>5, InsertSorted
  <2>7. {rs[j] : j \in 1..(i + 1)} = {rs[j] : j \in 1..i} \cup {r}
    BY <1>2, <2>1, <2>2
  <2>8. QED
    BY <2>1, <2>6, <2>7
<1> HIDE DEF S
<1>7. n \in S
  BY <1>2, <1>5, <1>6, Induction
<1>8. QED
  BY <1>2, <1>3, <1>7 DEF S

\* Two lists with the same resources are the same when one of them is sorted
\* and the other one numbered by its order.
LEMMA OneOrder ==
  ASSUME NEW rs, IsList(rs), Sorted(rs), Distinct(rs),
         NEW qs, IsList(qs), \A i \in DOMAIN qs : qs[i].order = i,
         ToSet(rs) = ToSet(qs)
  PROVE  rs = qs
<1>1. PICK m, n : m = Len(qs) /\ n = Len(rs)
  OBVIOUS
<1>2. /\ m \in Nat /\ DOMAIN qs = 1..m /\ ToSet(qs) = {qs[i] : i \in 1..m}
      /\ n \in Nat /\ DOMAIN rs = 1..n /\ ToSet(rs) = {rs[i] : i \in 1..n}
      /\ qs \in Seq(ToSet(qs)) /\ rs \in Seq(ToSet(rs))
  BY <1>1, ListFacts DEF IsList
<1>3. ASSUME NEW i \in 1..n PROVE \E j \in 1..m : rs[i] = qs[j] /\ rs[i].order = j
  <2>1. rs[i] \in {qs[j] : j \in 1..m}
    BY <1>2
  <2>2. PICK j \in 1..m : rs[i] = qs[j]
    BY <2>1
  <2>3. rs[i].order = j
    BY <1>2, <2>2
  <2>4. QED
    BY <2>2, <2>3
<1>4. ASSUME NEW j \in 1..m PROVE \E i \in 1..n : rs[i] = qs[j] /\ rs[i].order = j
  <2>1. qs[j] \in {rs[i] : i \in 1..n} /\ qs[j].order = j
    BY <1>2
  <2>2. QED
    BY <2>1
<1>5. \A i, j \in 1..n : i < j => rs[i].order < rs[j].order
  <2> SUFFICES ASSUME NEW i \in 1..n, NEW j \in 1..n, i < j
               PROVE  rs[i].order < rs[j].order
    OBVIOUS
  <2>1. rs[i].order <= rs[j].order
    BY <1>2 DEF Sorted
  <2>2. PICK u \in 1..m : rs[i] = qs[u] /\ rs[i].order = u
    BY <1>3
  <2>3. PICK v \in 1..m : rs[j] = qs[v] /\ rs[j].order = v
    BY <1>3
  <2>4. u # v
    <3>1. rs[i].id # rs[j].id
      <4>1. i \in DOMAIN rs /\ j \in DOMAIN rs /\ i # j
        BY <1>2
      <4>2. QED
        BY <4>1 DEF Distinct
    <3>2. QED
      BY <2>2, <2>3, <3>1
  <2>5. QED
    BY <2>1, <2>2, <2>3, <2>4
<1> DEFINE Up == {k \in Nat : k <= m /\ k <= n => \A i \in 1..k : rs[i].order = i}
<1>6. \A k \in Nat : k \in Up
  <2>1. 0 \in Up
    OBVIOUS
  <2>2. ASSUME NEW k \in Nat, k \in Up PROVE k + 1 \in Up
    <3> SUFFICES ASSUME k + 1 <= m, k + 1 <= n PROVE rs[k + 1].order = k + 1
      <4>1. k <= m /\ k <= n => \A i \in 1..k : rs[i].order = i
        BY <2>2
      <4>2. k + 1 <= m /\ k + 1 <= n => k <= m /\ k <= n
        BY <1>2
      <4>3. \A i \in 1..(k + 1) : i \in 1..k \/ i = k + 1
        OBVIOUS
      <4>4. QED
        BY <4>1, <4>2, <4>3
    <3>1. \A i \in 1..k : rs[i].order = i
      BY <1>2, <2>2
    <3> k + 1 \in 1..n /\ k + 1 \in 1..m
      BY <1>2
    <3>2. PICK u \in 1..n : rs[u].order = k + 1
      BY <1>4
    <3>3. PICK v \in 1..m : rs[k + 1].order = v
      BY <1>3
    <3>4. v >= k + 1
      <4>1. \A i \in 1..k : i < v
        <5>1. ASSUME NEW i \in 1..k PROVE i < v
          <6>1. i \in 1..n /\ i < k + 1 /\ rs[i].order = i
            BY <1>2, <3>1
          <6>2. rs[i].order < rs[k + 1].order
            BY <1>5, <6>1
          <6>3. QED
            BY <3>3, <6>1, <6>2
        <5>2. QED
          BY <5>1
      <4>2. QED
        BY <3>3, <4>1
    <3>5. u >= k + 1
      BY <3>1, <3>2
    <3>6. u = k + 1
      BY <1>5, <3>2, <3>3, <3>4, <3>5
    <3>7. QED
      BY <3>2, <3>6
  <2> HIDE DEF Up
  <2>3. QED
    BY <2>1, <2>2, Induction
<1>7. m = n
  <2>1. CASE m < n
    <3>1. m \in Nat /\ m <= m /\ m <= n
      BY <1>2, <2>1
    <3>2. \A i \in 1..m : rs[i].order = i
      BY <1>6, <3>1
    <3>3. PICK v \in 1..m : rs[m + 1].order = v
      BY <1>2, <1>3, <2>1
    <3>4. rs[v].order < rs[m + 1].order
      BY <1>2, <1>5, <2>1
    <3>5. QED
      BY <3>2, <3>3, <3>4
  <2>2. CASE n < m
    <3>1. n \in Nat /\ n <= m /\ n <= n
      BY <1>2, <2>2
    <3>2. \A i \in 1..n : rs[i].order = i
      BY <1>6, <3>1
    <3>3. n + 1 \in 1..m
      BY <1>2, <2>2
    <3>4. PICK u \in 1..n : rs[u].order = n + 1
      BY <1>4, <3>3
    <3>5. u = n + 1
      BY <3>2, <3>4
    <3>6. QED
      BY <1>2, <3>5
  <2>3. QED
    BY <1>2, <2>1, <2>2
<1>8. \A i \in 1..n : rs[i].order = i
  <2>1. n \in Nat /\ n <= m /\ n <= n
    BY <1>2, <1>7
  <2>2. QED
    BY <1>6, <2>1
<1>9. \A i \in 1..n : rs[i] = qs[i]
  BY <1>3, <1>8
<1>10. QED
  BY <1>2, <1>7, <1>9

-----------------------------------------------------------------------------
(* Sessions.  A session acts on the state of the aggregate event by event, *)
(* a commit replays its events to every reader: both come to the same.     *)

\* One event, to every reader.
OnStream(x, e) ==
    [agg |-> On(x.agg, e), sets |-> OnSets(x.sets, e),
     orphans |-> OnOrphans(x.orphans, e), requeue |-> OnRequeue(x.requeue, e)]

Reached(st, a) == Replay(st, a.events)

Added(es) == {es[i].resource.id : i \in {j \in DOMAIN es : es[j].type = "ResourceAdded"}}

InSession(st, a) ==
    /\ DOMAIN a = {"state", "events"}
    /\ IsList(a.events)
    /\ a.state = Reached(st, a).agg

LEMMA RunEnds ==
  ASSUME NEW k, NEW s, NEW q, IsList(q), NEW e, NEW f, NEW g,
         IsRun(k, s, q, Len(q), f),
         IsRun(k, s, Append(q, e), Len(q) + 1, g)
  PROVE  g[Len(q) + 1] = Step(k, f[Len(q)], e)
<1>1. PICK n : n = Len(q)
  OBVIOUS
<1>2. PICK r : r = Append(q, e)
  OBVIOUS
<1>3. /\ n \in Nat /\ n + 1 \in Nat /\ n <= n + 1 /\ n \in 0..n
      /\ n \in 0..((n + 1) - 1)
  BY <1>1, ListFacts
<1>4. (\A i \in 1..n : r[i] = q[i]) /\ r[n + 1] = e
  BY <1>1, <1>2, AppendList
<1>5. IsRun(k, s, q, n, f) /\ IsRun(k, s, r, n + 1, g)
  BY <1>1, <1>2
<1>6. \A i \in 0..n : f[i] = g[i]
  <2>1. PICK m \in Nat : m = n + 1
    BY <1>3
  <2>2. n <= m /\ IsRun(k, s, r, m, g) /\ \A i \in 1..n : r[i] = q[i]
    BY <1>3, <1>4, <1>5, <2>1
  <2>3. QED
    BY <1>3, <1>5, <2>2, SameRuns
<1>7. g[n + 1] = Step(k, g[n], r[n + 1])
  BY <1>3, <1>5 DEF IsRun
<1>8. QED
  BY <1>1, <1>3, <1>4, <1>6, <1>7

LEMMA ReplayAppend ==
  ASSUME NEW st, NEW es, IsList(es), NEW e
  PROVE  Replay(st, Append(es, e)) = OnStream(Replay(st, es), e)
<1>1. PICK r : r = Append(es, e)
  OBVIOUS
<1>2. PICK n : n = Len(es)
  OBVIOUS
<1>3. /\ n \in Nat /\ DOMAIN es = 1..n /\ IsList(r) /\ n + 1 \in Nat
      /\ DOMAIN r = 1..(n + 1)
  BY <1>1, <1>2, AppendList, ListFacts
<1>4. FoldLeft(On, st.agg, r) = On(FoldLeft(On, st.agg, es), e)
  <2>1. PICK f : IsRun([by |-> "agg"], st.agg, es, n, f) /\ FoldLeft(On, st.agg, es) = f[n]
    BY <1>3, AggRun
  <2>2. PICK g : IsRun([by |-> "agg"], st.agg, r, n + 1, g) /\ FoldLeft(On, st.agg, r) = g[n + 1]
    BY <1>3, AggRun
  <2>3. g[n + 1] = Step([by |-> "agg"], f[n], e)
    BY <1>1, <1>2, <2>1, <2>2, RunEnds
  <2>4. Step([by |-> "agg"], f[n], e) = On(f[n], e)
    BY DEF Step
  <2>5. QED
    BY <2>1, <2>2, <2>3, <2>4
<1>5. FoldLeft(OnSets, st.sets, r) = OnSets(FoldLeft(OnSets, st.sets, es), e)
  <2>1. PICK f : IsRun([by |-> "sets"], st.sets, es, n, f) /\ FoldLeft(OnSets, st.sets, es) = f[n]
    BY <1>3, SetsRun
  <2>2. PICK g : IsRun([by |-> "sets"], st.sets, r, n + 1, g) /\ FoldLeft(OnSets, st.sets, r) = g[n + 1]
    BY <1>3, SetsRun
  <2>3. g[n + 1] = Step([by |-> "sets"], f[n], e)
    BY <1>1, <1>2, <2>1, <2>2, RunEnds
  <2>4. Step([by |-> "sets"], f[n], e) = OnSets(f[n], e)
    BY DEF Step
  <2>5. QED
    BY <2>1, <2>2, <2>3, <2>4
<1>6. FoldLeft(OnOrphans, st.orphans, r) = OnOrphans(FoldLeft(OnOrphans, st.orphans, es), e)
  <2>1. PICK f : /\ IsRun([by |-> "orphans"], st.orphans, es, n, f)
                 /\ FoldLeft(OnOrphans, st.orphans, es) = f[n]
    BY <1>3, OrphansRun
  <2>2. PICK g : /\ IsRun([by |-> "orphans"], st.orphans, r, n + 1, g)
                 /\ FoldLeft(OnOrphans, st.orphans, r) = g[n + 1]
    BY <1>3, OrphansRun
  <2>3. g[n + 1] = Step([by |-> "orphans"], f[n], e)
    BY <1>1, <1>2, <2>1, <2>2, RunEnds
  <2>4. Step([by |-> "orphans"], f[n], e) = OnOrphans(f[n], e)
    BY DEF Step
  <2>5. QED
    BY <2>1, <2>2, <2>3, <2>4
<1>7. FoldLeft(OnRequeue, st.requeue, r) = OnRequeue(FoldLeft(OnRequeue, st.requeue, es), e)
  <2>1. PICK f : /\ IsRun([by |-> "requeue"], st.requeue, es, n, f)
                 /\ FoldLeft(OnRequeue, st.requeue, es) = f[n]
    BY <1>3, RequeueRun
  <2>2. PICK g : /\ IsRun([by |-> "requeue"], st.requeue, r, n + 1, g)
                 /\ FoldLeft(OnRequeue, st.requeue, r) = g[n + 1]
    BY <1>3, RequeueRun
  <2>3. g[n + 1] = Step([by |-> "requeue"], f[n], e)
    BY <1>1, <1>2, <2>1, <2>2, RunEnds
  <2>4. Step([by |-> "requeue"], f[n], e) = OnRequeue(f[n], e)
    BY DEF Step
  <2>5. QED
    BY <2>1, <2>2, <2>3, <2>4
<1>8. QED
  BY <1>1, <1>4, <1>5, <1>6, <1>7 DEF Replay, OnStream

LEMMA ReplayNothing ==
  ASSUME NEW st
  PROVE  Replay(st, << >>) = [agg |-> st.agg, sets |-> st.sets,
                              orphans |-> st.orphans, requeue |-> st.requeue]
<1>1. DOMAIN << >> = 1..0 /\ 0 \in Nat
  BY EmptyList, ListFacts
<1>2. FoldLeft(On, st.agg, << >>) = st.agg
  BY <1>1, AggRun DEF IsRun
<1>3. FoldLeft(OnSets, st.sets, << >>) = st.sets
  BY <1>1, SetsRun DEF IsRun
<1>4. FoldLeft(OnOrphans, st.orphans, << >>) = st.orphans
  BY <1>1, OrphansRun DEF IsRun
<1>5. FoldLeft(OnRequeue, st.requeue, << >>) = st.requeue
  BY <1>1, RequeueRun DEF IsRun
<1>6. QED
  BY <1>2, <1>3, <1>4, <1>5 DEF Replay

LEMMA LoadSession ==
  ASSUME NEW st
  PROVE  LET a == Load(st)
             x == Reached(st, a)
         IN  /\ InSession(st, a) /\ Len(a.events) = 0 /\ Added(a.events) = {}
             /\ a.state = st.agg /\ x.agg = st.agg /\ x.sets = st.sets
             /\ x.orphans = st.orphans /\ x.requeue = st.requeue
<1>1. Load(st) = [state |-> st.agg, events |-> << >>]
  BY DEF Load
<1>2. Reached(st, Load(st)) = [agg |-> st.agg, sets |-> st.sets,
                               orphans |-> st.orphans, requeue |-> st.requeue]
  BY <1>1, ReplayNothing DEF Reached
<1>3. Added(<< >>) = {}
  BY DEF Added
<1>4. QED
  BY <1>1, <1>2, <1>3, EmptyList DEF InSession

\* The resource that an event adds.
Brought(e) == IF e.type = "ResourceAdded" THEN {e.resource.id} ELSE {}

LEMMA ApplySession ==
  ASSUME NEW st, NEW a, InSession(st, a), NEW e, NEW b, b = Apply(a, e)
  PROVE  /\ InSession(st, b) /\ Len(b.events) = Len(a.events) + 1
         /\ Reached(st, b) = OnStream(Reached(st, a), e)
         /\ b.state = On(a.state, e)
         /\ Added(b.events) = Added(a.events) \cup Brought(e)
<1>1. b = Apply(a, e)
  OBVIOUS
<1>2. b = [state |-> On(a.state, e), events |-> Append(a.events, e)]
  BY <1>1 DEF Apply
<1>3. PICK n : n = Len(a.events)
  OBVIOUS
<1>4. /\ IsList(b.events) /\ Len(b.events) = n + 1
      /\ \A i \in 1..n : b.events[i] = a.events[i]
      /\ b.events[n + 1] = e
  BY <1>2, <1>3, AppendList DEF InSession
<1>5. n \in Nat /\ DOMAIN a.events = 1..n /\ DOMAIN b.events = 1..(n + 1)
  BY <1>3, <1>4, ListFacts DEF InSession
<1>6. Reached(st, b) = OnStream(Reached(st, a), e)
  BY <1>2, ReplayAppend DEF Reached, InSession
<1>7. b.state = Reached(st, b).agg
  BY <1>2, <1>6 DEF OnStream, InSession
<1>8. Added(b.events) = Added(a.events) \cup Brought(e)
  <2>1. ASSUME NEW x
        PROVE  x \in Added(b.events) <=> x \in Added(a.events) \/ x \in Brought(e)
    <3>1. x \in Added(a.events) <=>
             \E i \in 1..n : a.events[i].type = "ResourceAdded" /\ x = a.events[i].resource.id
      BY <1>5 DEF Added
    <3>2. x \in Added(b.events) <=>
             \E i \in 1..(n + 1) : b.events[i].type = "ResourceAdded" /\ x = b.events[i].resource.id
      BY <1>5 DEF Added
    <3>3. x \in Brought(e) <=> e.type = "ResourceAdded" /\ x = e.resource.id
      BY DEF Brought
    <3>4. x \in Added(b.events) => x \in Added(a.events) \/ x \in Brought(e)
      <4>1. ASSUME NEW i \in 1..(n + 1), b.events[i].type = "ResourceAdded",
                   x = b.events[i].resource.id
            PROVE  x \in Added(a.events) \/ x \in Brought(e)
        <5>1. CASE i = n + 1
          BY <1>4, <3>3, <4>1, <5>1
        <5>2. CASE i \in 1..n
          BY <1>4, <3>1, <4>1, <5>2
        <5>3. QED
          BY <1>5, <5>1, <5>2
      <4>2. QED
        BY <3>2, <4>1
    <3>5. x \in Added(a.events) => x \in Added(b.events)
      <4>1. \A i \in 1..n : i \in 1..(n + 1)
        BY <1>5
      <4>2. QED
        BY <1>4, <3>1, <3>2, <4>1
    <3>6. x \in Brought(e) => x \in Added(b.events)
      <4>1. n + 1 \in 1..(n + 1)
        BY <1>5
      <4>2. QED
        BY <1>4, <3>2, <3>3, <4>1
    <3>7. QED
      BY <3>4, <3>5, <3>6
  <2>2. QED
    BY <2>1
<1>9. QED
  BY <1>1, <1>2, <1>3, <1>4, <1>6, <1>7, <1>8 DEF InSession

-----------------------------------------------------------------------------
(* What each event does to its readers. *)

AggFields == {"created", "label", "failed", "sum", "version", "name",
              "resources", "active", "deleted"}
SetsFields == {"current", "label", "sets"}
SetFields == {"label", "active", "resources"}

\* Two records are the same but for the fields F.
SameBut(s, t, F) ==
    DOMAIN t = DOMAIN s /\ \A f \in DOMAIN s : f \notin F => t[f] = s[f]

AggStep(s, e, t) ==
    /\ e.type = "TenantCreated" => t.created = TRUE /\ SameBut(s, t, {"created"})
    /\ e.type = "LabelsChanged" => t.label = e.label /\ SameBut(s, t, {"label"})
    /\ e.type = "GenerationFailed" =>
           t.failed = TRUE /\ t.sum = e.sum /\ SameBut(s, t, {"failed", "sum"})
    /\ e.type = "GenerationSuccessful" =>
           t.failed = FALSE /\ t.sum = e.sum /\ SameBut(s, t, {"failed", "sum"})
    /\ e.type = "ResourceSetVersionChanged" =>
           t.version = e.version /\ SameBut(s, t, {"version"})
    /\ e.type = "ResourceSetCreated" => t.name = e.name /\ SameBut(s, t, {"name"})
    /\ e.type \in ResourceEvents =>
           t.resources = OnResources(s.resources, e) /\ SameBut(s, t, {"resources"})
    /\ e.type = "ResourceSetActivated" =>
           t.active = s.active \cup {e.name} /\ SameBut(s, t, {"active"})
    /\ e.type = "ResourceSetDeactivated" =>
           t.active = s.active \ {e.name} /\ SameBut(s, t, {"active"})
    /\ e.type = "TenantDeleted" => t.deleted = TRUE /\ SameBut(s, t, {"deleted"})

LEMMA OnAgg ==
  ASSUME NEW s, DOMAIN s = AggFields, NEW e, NEW t, t = On(s, e)
  PROVE  AggStep(s, e, t)
<1> USE DEF AggStep
<1>1. CASE e.type = "TenantCreated"
  <2>1. t = [s EXCEPT !.created = TRUE]
    BY <1>1 DEF On, ResourceEvents
  <2>2. QED
    BY <1>1, <2>1 DEF SameBut, AggFields, ResourceEvents
<1>2. CASE e.type = "LabelsChanged"
  <2>1. t = [s EXCEPT !.label = e.label]
    BY <1>2 DEF On, ResourceEvents
  <2>2. QED
    BY <1>2, <2>1 DEF SameBut, AggFields, ResourceEvents
<1>3. CASE e.type = "GenerationFailed"
  <2>1. t = [s EXCEPT !.failed = TRUE, !.sum = e.sum]
    BY <1>3 DEF On, ResourceEvents
  <2>2. QED
    BY <1>3, <2>1 DEF SameBut, AggFields, ResourceEvents
<1>4. CASE e.type = "GenerationSuccessful"
  <2>1. t = [s EXCEPT !.failed = FALSE, !.sum = e.sum]
    BY <1>4 DEF On, ResourceEvents
  <2>2. QED
    BY <1>4, <2>1 DEF SameBut, AggFields, ResourceEvents
<1>5. CASE e.type = "ResourceSetVersionChanged"
  <2>1. t = [s EXCEPT !.version = e.version]
    BY <1>5 DEF On, ResourceEvents
  <2>2. QED
    BY <1>5, <2>1 DEF SameBut, AggFields, ResourceEvents
<1>6. CASE e.type = "ResourceSetCreated"
  <2>1. t = [s EXCEPT !.name = e.name]
    BY <1>6 DEF On, ResourceEvents
  <2>2. QED
    BY <1>6, <2>1 DEF SameBut, AggFields, ResourceEvents
<1>7. CASE e.type \in ResourceEvents
  <2>1. t = [s EXCEPT !.resources = OnResources(@, e)]
    BY <1>7 DEF On, ResourceEvents
  <2>2. QED
    BY <1>7, <2>1 DEF SameBut, AggFields, ResourceEvents
<1>8. CASE e.type = "ResourceSetActivated"
  <2>1. t = [s EXCEPT !.active = @ \cup {e.name}]
    BY <1>8 DEF On, ResourceEvents
  <2>2. QED
    BY <1>8, <2>1 DEF SameBut, AggFields, ResourceEvents
<1>9. CASE e.type = "ResourceSetDeactivated"
  <2>1. t = [s EXCEPT !.active = @ \ {e.name}]
    BY <1>9 DEF On, ResourceEvents
  <2>2. QED
    BY <1>9, <2>1 DEF SameBut, AggFields, ResourceEvents
<1>10. CASE e.type = "TenantDeleted"
  <2>1. t = [s EXCEPT !.deleted = TRUE]
    BY <1>10 DEF On, ResourceEvents
  <2>2. QED
    BY <1>10, <2>1 DEF SameBut, AggFields, ResourceEvents
<1>11. QED
  BY <1>1, <1>2, <1>3, <1>4, <1>5, <1>6, <1>7, <1>8, <1>9, <1>10

\* The events that the projection of the sets and the orphans pass over.
Unread == {"TenantCreated", "GenerationFailed", "GenerationSuccessful",
           "ResourceSetVersionChanged", "TenantDeleted"}

SetsStep(p, e, q) ==
    /\ e.type \in Unread => q = p
    /\ e.type = "LabelsChanged" =>
           /\ DOMAIN q = SetsFields /\ q.label = e.label
           /\ q.current = p.current /\ q.sets = p.sets
    /\ e.type = "ResourceSetCreated" =>
           /\ DOMAIN q = SetsFields /\ q.label = p.label
           /\ q.current = e.name /\ q.sets = Append(p.sets, NewResourceSet(p))
    /\ e.type \in ResourceEvents =>
           /\ DOMAIN q = SetsFields /\ q.label = p.label /\ q.current = p.current
           /\ IsList(q.sets) /\ Len(q.sets) = Len(p.sets)
           /\ \A n \in DOMAIN p.sets :
                /\ DOMAIN q.sets[n] = SetFields
                /\ q.sets[n].label = p.sets[n].label
                /\ q.sets[n].active = p.sets[n].active
                /\ n # p.current => q.sets[n] = p.sets[n]
                /\ n = p.current =>
                     q.sets[n].resources = ByOrder(OnResources(p.sets[n].resources, e))
    /\ e.type = "ResourceSetActivated" =>
           /\ DOMAIN q = SetsFields /\ q.label = p.label /\ q.current = p.current
           /\ IsList(q.sets) /\ Len(q.sets) = Len(p.sets)
           /\ \A n \in DOMAIN p.sets :
                /\ SameBut(p.sets[n], q.sets[n], {"active"})
                /\ q.sets[n].active = IF n = e.name THEN TRUE ELSE p.sets[n].active
    /\ e.type = "ResourceSetDeactivated" =>
           /\ DOMAIN q = SetsFields /\ q.label = p.label /\ q.current = p.current
           /\ IsList(q.sets) /\ Len(q.sets) = Len(p.sets)
           /\ \A n \in DOMAIN p.sets :
                /\ SameBut(p.sets[n], q.sets[n], {"active"})
                /\ q.sets[n].active = IF n = e.name THEN FALSE ELSE p.sets[n].active

LEMMA OnSetsOf ==
  ASSUME NEW p, DOMAIN p = SetsFields, IsList(p.sets),
         \A n \in DOMAIN p.sets : DOMAIN p.sets[n] = SetFields,
         NEW e, NEW q, q = OnSets(p, e)
  PROVE  SetsStep(p, e, q)
<1> USE DEF SetsStep, ResourceEvents, Unread
<1>0. PICK k \in Nat : k = Len(p.sets) /\ DOMAIN p.sets = 1..k
  BY ListFacts
<1>1. CASE e.type \in Unread
  <2>1. q = p
    BY <1>1 DEF OnSets
  <2>2. QED
    BY <1>1, <2>1
<1>2. CASE e.type = "LabelsChanged"
  <2>1. q = [p EXCEPT !.label = e.label]
    BY <1>2 DEF OnSets
  <2>2. QED
    BY <1>2, <2>1 DEF SetsFields
<1>3. CASE e.type = "ResourceSetCreated"
  <2>1. q = [p EXCEPT !.current = e.name, !.sets = Append(@, NewResourceSet(p))]
    BY <1>3 DEF OnSets
  <2>2. QED
    BY <1>3, <2>1 DEF SetsFields
<1>4. CASE e.type \in ResourceEvents
  <2>1. CASE p.current \in DOMAIN p.sets
    <3>1. q = [p EXCEPT !.sets = [n \in DOMAIN p.sets |->
                 IF n \in AffectedSets(p, e)
                 THEN [p.sets[n] EXCEPT !.resources = ByOrder(OnResources(@, e))]
                 ELSE p.sets[n]]]
      BY <1>4, <2>1 DEF OnSets
    <3>2. /\ DOMAIN q = SetsFields /\ q.label = p.label /\ q.current = p.current
          /\ q.sets = [n \in 1..k |->
                IF n = p.current
                THEN [p.sets[n] EXCEPT !.resources = ByOrder(OnResources(@, e))]
                ELSE p.sets[n]]
      <4>1. \A n : n \in AffectedSets(p, e) <=> n = p.current
        BY DEF AffectedSets
      <4>2. /\ DOMAIN q = SetsFields /\ q.label = p.label /\ q.current = p.current
            /\ q.sets = [n \in DOMAIN p.sets |->
                  IF n \in AffectedSets(p, e)
                  THEN [p.sets[n] EXCEPT !.resources = ByOrder(OnResources(@, e))]
                  ELSE p.sets[n]]
        BY <3>1 DEF SetsFields
      <4>3. QED
        BY <1>0, <4>1, <4>2
    <3>3. q.sets = [n \in 1..k |-> q.sets[n]]
      BY <3>2
    <3>4. IsList(q.sets) /\ Len(q.sets) = k
      BY <1>0, <3>3, IsListBy
    <3>5. ASSUME NEW n \in DOMAIN p.sets
          PROVE  /\ DOMAIN q.sets[n] = SetFields
                 /\ q.sets[n].label = p.sets[n].label
                 /\ q.sets[n].active = p.sets[n].active
                 /\ n # p.current => q.sets[n] = p.sets[n]
                 /\ n = p.current =>
                      q.sets[n].resources = ByOrder(OnResources(p.sets[n].resources, e))
      <4>1. q.sets[n] = IF n = p.current
                        THEN [p.sets[n] EXCEPT !.resources = ByOrder(OnResources(@, e))]
                        ELSE p.sets[n]
        BY <1>0, <3>2
      <4>2. DOMAIN p.sets[n] = SetFields
        OBVIOUS
      <4>3. QED
        BY <4>1, <4>2 DEF SetFields
    <3>6. QED
      BY <1>0, <1>4, <3>2, <3>4, <3>5
  <2>2. CASE p.current \notin DOMAIN p.sets
    <3>1. q = p
      BY <1>4, <2>2 DEF OnSets
    <3>2. QED
      BY <1>4, <2>2, <3>1
  <2>3. QED
    BY <2>1, <2>2
<1>5. CASE e.type = "ResourceSetActivated"
  <2>1. CASE e.name \in DOMAIN p.sets
    <3>1. q = [p EXCEPT !.sets[e.name].active = TRUE]
      BY <1>5, <2>1 DEF OnSets
    <3>2. /\ DOMAIN q = SetsFields /\ q.label = p.label /\ q.current = p.current
          /\ q.sets = [p.sets EXCEPT ![e.name].active = TRUE]
      BY <3>1 DEF SetsFields
    <3>3. q.sets = [n \in 1..k |-> q.sets[n]]
      BY <1>0, <3>2
    <3>4. IsList(q.sets) /\ Len(q.sets) = k
      BY <1>0, <3>3, IsListBy
    <3>5. ASSUME NEW n \in DOMAIN p.sets
          PROVE  /\ SameBut(p.sets[n], q.sets[n], {"active"})
                 /\ q.sets[n].active = IF n = e.name THEN TRUE ELSE p.sets[n].active
      <4>1. q.sets[n] = IF n = e.name THEN [p.sets[n] EXCEPT !.active = TRUE] ELSE p.sets[n]
        BY <1>0, <2>1, <3>2
      <4>2. DOMAIN p.sets[n] = SetFields
        OBVIOUS
      <4>3. QED
        BY <4>1, <4>2 DEF SetFields, SameBut
    <3>6. QED
      BY <1>0, <1>5, <3>2, <3>4, <3>5
  <2>2. CASE e.name \notin DOMAIN p.sets
    <3>1. q = p
      BY <1>5, <2>2 DEF OnSets
    <3>2. QED
      BY <1>5, <2>2, <3>1 DEF SameBut
  <2>3. QED
    BY <2>1, <2>2
<1>6. CASE e.type = "ResourceSetDeactivated"
  <2>1. CASE e.name \in DOMAIN p.sets
    <3>1. q = [p EXCEPT !.sets[e.name].active = FALSE]
      BY <1>6, <2>1 DEF OnSets
    <3>2. /\ DOMAIN q = SetsFields /\ q.label = p.label /\ q.current = p.current
          /\ q.sets = [p.sets EXCEPT ![e.name].active = FALSE]
      BY <3>1 DEF SetsFields
    <3>3. q.sets = [n \in 1..k |-> q.sets[n]]
      BY <1>0, <3>2
    <3>4. IsList(q.sets) /\ Len(q.sets) = k
      BY <1>0, <3>3, IsListBy
    <3>5. ASSUME NEW n \in DOMAIN p.sets
          PROVE  /\ SameBut(p.sets[n], q.sets[n], {"active"})
                 /\ q.sets[n].active = IF n = e.name THEN FALSE ELSE p.sets[n].active
      <4>1. q.sets[n] = IF n = e.name THEN [p.sets[n] EXCEPT !.active = FALSE] ELSE p.sets[n]
        BY <1>0, <2>1, <3>2
      <4>2. DOMAIN p.sets[n] = SetFields
        OBVIOUS
      <4>3. QED
        BY <4>1, <4>2 DEF SetFields, SameBut
    <3>6. QED
      BY <1>0, <1>6, <3>2, <3>4, <3>5
  <2>2. CASE e.name \notin DOMAIN p.sets
    <3>1. q = p
      BY <1>6, <2>2 DEF OnSets
    <3>2. QED
      BY <1>6, <2>2, <3>1 DEF SameBut
  <2>3. QED
    BY <2>1, <2>2
<1>7. QED
  BY <1>1, <1>2, <1>3, <1>4, <1>5, <1>6

OrphansStep(p, e, q) ==
    /\ DOMAIN q = DOMAIN p
    /\ e.type = "ResourceAdded" =>
           /\ q.active = p.active \cup {e.resource.id}
           /\ q.deleted = p.deleted \ {e.resource.id}
    /\ e.type = "ResourceRemoved" /\ e.id \in p.active =>
           /\ q.active = p.active \ {e.id}
           /\ q.deleted = p.deleted \cup {e.id}
    /\ e.type = "ResourceRemoved" /\ e.id \notin p.active => q = p
    /\ e.type \notin {"ResourceAdded", "ResourceRemoved"} =>
           q.active = p.active /\ q.deleted = p.deleted

LEMMA OnOrphansOf ==
  ASSUME NEW p, DOMAIN p = {"active", "deleted", "deleteAllowed"},
         NEW e, NEW q, q = OnOrphans(p, e)
  PROVE  OrphansStep(p, e, q)
<1> USE DEF OrphansStep
<1>1. CASE e.type = "ResourceAdded"
  <2>1. q = [p EXCEPT !.active = @ \cup {e.resource.id}, !.deleted = @ \ {e.resource.id}]
    BY <1>1 DEF OnOrphans
  <2>2. QED
    BY <1>1, <2>1
<1>2. CASE e.type = "ResourceRemoved" /\ e.id \in p.active
  <2>1. q = [p EXCEPT !.active = @ \ {e.id}, !.deleted = @ \cup {e.id}]
    BY <1>2 DEF OnOrphans
  <2>2. QED
    BY <1>2, <2>1
<1>3. CASE e.type = "GenerationFailed"
  <2>1. q = [p EXCEPT !.deleteAllowed = FALSE]
    BY <1>3 DEF OnOrphans
  <2>2. QED
    BY <1>3, <2>1
<1>4. CASE e.type = "GenerationSuccessful"
  <2>1. q = [p EXCEPT !.deleteAllowed = TRUE]
    BY <1>4 DEF OnOrphans
  <2>2. QED
    BY <1>4, <2>1
<1>5. CASE /\ e.type \notin {"ResourceAdded", "GenerationFailed", "GenerationSuccessful"}
           /\ ~(e.type = "ResourceRemoved" /\ e.id \in p.active)
  <2>1. q = p
    BY <1>5 DEF OnOrphans
  <2>2. QED
    BY <1>5, <2>1
<1>6. QED
  BY <1>1, <1>2, <1>3, <1>4, <1>5

-----------------------------------------------------------------------------
(* What holds between any two events of a session. *)

OrphanFields == {"active", "deleted", "deleteAllowed"}

Shapes(x) ==
    /\ DOMAIN x.agg = AggFields
    /\ DOMAIN x.sets = SetsFields
    /\ DOMAIN x.orphans = OrphanFields
    /\ IsList(x.sets.sets)
    /\ \A n \in DOMAIN x.sets.sets : DOMAIN x.sets.sets[n] = SetFields

\* The projection of the sets counts like the aggregate.
Numbered(x) ==
    /\ x.agg.name \in Nat
    /\ x.sets.current = x.agg.name
    /\ Len(x.sets.sets) = x.agg.name
    /\ x.sets.label = x.agg.label

\* The current set holds what the aggregate holds, in order.
Held(x) ==
    /\ IsList(x.agg.resources) /\ Distinct(x.agg.resources) /\ Orders(x.agg.resources)
    /\ x.agg.name = 0 => x.agg.resources = << >>
    /\ x.agg.name # 0 =>
         LET cs == x.sets.sets[x.agg.name].resources
         IN  /\ IsList(cs) /\ Distinct(cs) /\ Sorted(cs)
             /\ ToSet(cs) = ToSet(x.agg.resources)

\* E are the resources that were ever added.
OrphansOf(x, E) ==
    /\ x.orphans.active = Ids(x.agg.resources)
    /\ Ids(x.agg.resources) \subseteq E
    /\ x.orphans.deleted = E \ Ids(x.agg.resources)

Sound(x, E) == Shapes(x) /\ Numbered(x) /\ Held(x) /\ OrphansOf(x, E)

LEMMA SetDomain ==
  ASSUME NEW x, Shapes(x), Numbered(x)
  PROVE  DOMAIN x.sets.sets = 1..x.agg.name
BY ListFacts DEF Shapes, Numbered

LEMMA StreamSteps ==
  ASSUME NEW x, Shapes(x), NEW e, NEW y, y = OnStream(x, e)
  PROVE  /\ AggStep(x.agg, e, y.agg)
         /\ SetsStep(x.sets, e, y.sets)
         /\ OrphansStep(x.orphans, e, y.orphans)
<1>1. y.agg = On(x.agg, e) /\ y.sets = OnSets(x.sets, e) /\ y.orphans = OnOrphans(x.orphans, e)
  BY DEF OnStream
<1>2. AggStep(x.agg, e, y.agg)
  BY <1>1, OnAgg DEF Shapes
<1>3. SetsStep(x.sets, e, y.sets)
  <2>1. PICK p : p = x.sets
    OBVIOUS
  <2>2. /\ DOMAIN p = SetsFields /\ IsList(p.sets)
        /\ \A n \in DOMAIN p.sets : DOMAIN p.sets[n] = SetFields
    BY <2>1 DEF Shapes
  <2>3. QED
    BY <1>1, <2>1, <2>2, OnSetsOf, Zenon
<1>4. OrphansStep(x.orphans, e, y.orphans)
  BY <1>1, OnOrphansOf DEF Shapes, OrphanFields
<1>5. QED
  BY <1>2, <1>3, <1>4

LEMMA UnreadEvent ==
  ASSUME NEW x, NEW E, Sound(x, E), NEW e, e.type \in Unread, NEW y, y = OnStream(x, e)
  PROVE  /\ Sound(y, E) /\ y.sets = x.sets
         /\ y.agg.label = x.agg.label /\ y.agg.name = x.agg.name
         /\ y.agg.resources = x.agg.resources /\ y.agg.active = x.agg.active
<1>1. /\ AggStep(x.agg, e, y.agg)
      /\ SetsStep(x.sets, e, y.sets)
      /\ OrphansStep(x.orphans, e, y.orphans)
  BY StreamSteps DEF Sound
<1>2. Shapes(x) /\ DOMAIN x.agg = AggFields
  BY DEF Sound, Shapes
<1>3. /\ DOMAIN y.agg = AggFields
      /\ y.agg.label = x.agg.label /\ y.agg.name = x.agg.name
      /\ y.agg.resources = x.agg.resources /\ y.agg.active = x.agg.active
  BY <1>1, <1>2 DEF AggStep, SameBut, AggFields, Unread
<1>4. y.sets = x.sets
  BY <1>1, <1>2 DEF SetsStep, Shapes
<1>5. /\ DOMAIN y.orphans = OrphanFields
      /\ y.orphans.active = x.orphans.active /\ y.orphans.deleted = x.orphans.deleted
  BY <1>1, <1>2 DEF OrphansStep, Shapes, OrphanFields, Unread
<1>6. QED
  BY <1>3, <1>4, <1>5 DEF Sound, Shapes, Numbered, Held, OrphansOf

LEMMA LabelsEvent ==
  ASSUME NEW x, NEW E, Sound(x, E), NEW e, e.type = "LabelsChanged",
         NEW y, y = OnStream(x, e)
  PROVE  /\ Sound(y, E) /\ y.sets.sets = x.sets.sets /\ y.agg.label = e.label
         /\ SameBut(x.agg, y.agg, {"label"})
<1>1. /\ AggStep(x.agg, e, y.agg)
      /\ SetsStep(x.sets, e, y.sets)
      /\ OrphansStep(x.orphans, e, y.orphans)
  BY StreamSteps DEF Sound
<1>2. Shapes(x) /\ DOMAIN x.agg = AggFields
  BY DEF Sound, Shapes
<1>3. y.agg.label = e.label /\ SameBut(x.agg, y.agg, {"label"})
  BY <1>1, <1>2 DEF AggStep
<1>4. /\ DOMAIN y.agg = AggFields
      /\ y.agg.name = x.agg.name /\ y.agg.resources = x.agg.resources
  BY <1>2, <1>3 DEF SameBut, AggFields
<1>5. /\ DOMAIN y.sets = SetsFields /\ y.sets.label = e.label
      /\ y.sets.current = x.sets.current /\ y.sets.sets = x.sets.sets
  BY <1>1, <1>2 DEF SetsStep, Shapes
<1>6. /\ DOMAIN y.orphans = OrphanFields
      /\ y.orphans.active = x.orphans.active /\ y.orphans.deleted = x.orphans.deleted
  BY <1>1, <1>2 DEF OrphansStep, Shapes, OrphanFields
<1>7. QED
  BY <1>3, <1>4, <1>5, <1>6 DEF Sound, Shapes, Numbered, Held, OrphansOf

\* From x to y, a set has been made.
SetMade(x, y) ==
    /\ y.agg.name = x.agg.name + 1
    /\ SameBut(x.agg, y.agg, {"name"})
    /\ \A n \in 1..x.agg.name : y.sets.sets[n] = x.sets.sets[n]
    /\ y.sets.sets[y.agg.name].label = x.agg.label
    /\ x.agg.name = 0 => y.sets.sets[y.agg.name].active = FALSE
    /\ x.agg.name # 0 =>
           y.sets.sets[y.agg.name].active = x.sets.sets[x.agg.name].active

LEMMA CreatedEvent ==
  ASSUME NEW x, NEW E, Sound(x, E), NEW e, e.type = "ResourceSetCreated",
         e.name = x.agg.name + 1, NEW y, y = OnStream(x, e)
  PROVE  Sound(y, E) /\ SetMade(x, y)
<1>1. /\ AggStep(x.agg, e, y.agg)
      /\ SetsStep(x.sets, e, y.sets)
      /\ OrphansStep(x.orphans, e, y.orphans)
  BY StreamSteps DEF Sound
<1>2. Shapes(x) /\ Numbered(x) /\ DOMAIN x.agg = AggFields
  BY DEF Sound, Shapes
<1>3. y.agg.name = e.name /\ SameBut(x.agg, y.agg, {"name"})
  BY <1>1, <1>2 DEF AggStep
<1>4. /\ DOMAIN y.agg = AggFields
      /\ y.agg.label = x.agg.label /\ y.agg.resources = x.agg.resources
  BY <1>2, <1>3 DEF SameBut, AggFields
<1>5. PICK m \in Nat : m = x.agg.name
  BY <1>2 DEF Numbered
<1>6. PICK new : new = NewResourceSet(x.sets)
  OBVIOUS
<1>7. DOMAIN x.sets.sets = 1..m
  BY <1>2, <1>5, SetDomain
<1>8. /\ DOMAIN y.sets = SetsFields /\ y.sets.label = x.sets.label
      /\ y.sets.current = m + 1 /\ y.sets.sets = Append(x.sets.sets, new)
  BY <1>1, <1>2, <1>5, <1>6 DEF SetsStep, Shapes
<1>9. /\ IsList(y.sets.sets) /\ Len(y.sets.sets) = m + 1
      /\ \A n \in 1..m : y.sets.sets[n] = x.sets.sets[n]
      /\ y.sets.sets[m + 1] = new
  BY <1>2, <1>5, <1>8, AppendList DEF Shapes, Numbered
<1>10. DOMAIN y.sets.sets = 1..(m + 1)
  BY <1>9, ListFacts
<1>11. /\ DOMAIN new = SetFields /\ new.label = x.sets.label
       /\ m = 0 => new.active = FALSE
       /\ m # 0 => new.active = x.sets.sets[m].active
       /\ m # 0 => new.resources = x.sets.sets[m].resources
       /\ m = 0 => new.resources = << >>
  <2>1. CASE m = 0
    <3>1. new = [[label |-> NoLabel, active |-> FALSE, resources |-> << >>]
                    EXCEPT !.label = x.sets.label]
      BY <1>2, <1>5, <1>6, <1>7, <2>1 DEF NewResourceSet, SetCopy, Numbered
    <3>2. QED
      BY <2>1, <3>1 DEF SetFields
  <2>2. CASE m # 0
    <3>1. m \in DOMAIN x.sets.sets
      BY <1>7, <2>2
    <3>2. new = [x.sets.sets[m] EXCEPT !.label = x.sets.label]
      BY <1>2, <1>5, <1>6, <3>1 DEF NewResourceSet, SetCopy, Current, Numbered
    <3>3. DOMAIN x.sets.sets[m] = SetFields
      BY <1>2, <3>1 DEF Shapes
    <3>4. QED
      BY <2>2, <3>2, <3>3 DEF SetFields
  <2>3. QED
    BY <2>1, <2>2
<1>12. /\ DOMAIN y.orphans = OrphanFields
       /\ y.orphans.active = x.orphans.active /\ y.orphans.deleted = x.orphans.deleted
  BY <1>1, <1>2 DEF OrphansStep, Shapes, OrphanFields
<1>13. Shapes(y)
  <2>1. ASSUME NEW n \in DOMAIN y.sets.sets PROVE DOMAIN y.sets.sets[n] = SetFields
    <3>1. CASE n \in 1..m
      BY <1>2, <1>7, <1>9, <3>1 DEF Shapes
    <3>2. CASE n = m + 1
      BY <1>9, <1>11, <3>2
    <3>3. QED
      BY <1>10, <3>1, <3>2
  <2>2. QED
    BY <1>4, <1>8, <1>9, <1>12, <2>1 DEF Shapes
<1>14. Numbered(y)
  BY <1>2, <1>3, <1>4, <1>5, <1>8, <1>9 DEF Numbered
<1>15. Held(y)
  <2>1. /\ IsList(new.resources) /\ Distinct(new.resources) /\ Sorted(new.resources)
        /\ ToSet(new.resources) = ToSet(x.agg.resources)
    <3>1. CASE m = 0
      <4>1. new.resources = << >> /\ x.agg.resources = << >> /\ DOMAIN << >> = {}
        BY <1>5, <1>11, <3>1 DEF Sound, Held
      <4>2. QED
        BY <4>1, EmptyList DEF Distinct, Sorted
    <3>2. CASE m # 0
      BY <1>5, <1>11, <3>2 DEF Sound, Held
    <3>3. QED
      BY <3>1, <3>2
  <2>2. y.agg.name = m + 1 /\ y.agg.name # 0
    BY <1>3, <1>5
  <2>3. y.sets.sets[y.agg.name] = new
    BY <1>9, <2>2
  <2>4. QED
    BY <1>4, <2>1, <2>2, <2>3 DEF Sound, Held
<1>16. OrphansOf(y, E)
  BY <1>4, <1>12 DEF Sound, OrphansOf
<1>17. QED
  BY <1>2, <1>3, <1>5, <1>9, <1>11, <1>13, <1>14, <1>15, <1>16 DEF Sound, Numbered, SetMade

LEMMA AfterIds ==
  ASSUME NEW S, NEW e
  PROVE  {q.id : q \in After(S, e)} =
            IF e.type = "ResourceRemoved" THEN {q.id : q \in S} \ {e.id}
            ELSE {q.id : q \in S} \cup {e.resource.id}
<1>1. CASE e.type = "ResourceRemoved"
  BY <1>1 DEF After
<1>2. CASE e.type # "ResourceRemoved"
  <2>1. \A q : q \in After(S, e) <=> (q \in S /\ q.id # e.resource.id) \/ q = e.resource
    BY <1>2 DEF After
  <2>2. ASSUME NEW v PROVE (\E q \in After(S, e) : v = q.id) <=>
                            (\E q \in S : v = q.id) \/ v = e.resource.id
    BY <2>1
  <2>3. QED
    BY <1>2, <2>2
<1>3. QED
  BY <1>1, <1>2

\* From x to y, an event has changed the resources.
ResourcesChanged(x, e, y) ==
    /\ SameBut(x.agg, y.agg, {"resources"})
    /\ y.agg.resources = OnResources(x.agg.resources, e)
    /\ ToSet(y.agg.resources) = After(ToSet(x.agg.resources), e)
    /\ \A n \in 1..x.agg.name :
         /\ y.sets.sets[n].label = x.sets.sets[n].label
         /\ y.sets.sets[n].active = x.sets.sets[n].active
         /\ n # x.agg.name => y.sets.sets[n] = x.sets.sets[n]

LEMMA OneResource ==
  ASSUME NEW x, NEW E, Sound(x, E), x.agg.name # 0,
         NEW e, Suits(x.agg.resources, e),
         e.type # "ResourceRemoved" => e.resource.order \in Nat,
         NEW y, y = OnStream(x, e)
  PROVE  /\ Sound(y, E \cup Brought(e))
         /\ ResourcesChanged(x, e, y)
<1>1. /\ AggStep(x.agg, e, y.agg)
      /\ SetsStep(x.sets, e, y.sets)
      /\ OrphansStep(x.orphans, e, y.orphans)
  BY StreamSteps DEF Sound
<1>2. Shapes(x) /\ Numbered(x) /\ Held(x) /\ DOMAIN x.agg = AggFields /\ e.type \in ResourceEvents
  BY DEF Sound, Shapes, Suits
<1>3. SameBut(x.agg, y.agg, {"resources"}) /\ y.agg.resources = OnResources(x.agg.resources, e)
  BY <1>1, <1>2 DEF AggStep
<1>4. /\ DOMAIN y.agg = AggFields
      /\ y.agg.label = x.agg.label /\ y.agg.name = x.agg.name
  BY <1>2, <1>3 DEF SameBut, AggFields
<1>5. PICK rs : rs = x.agg.resources
  OBVIOUS
<1>6. PICK rn : rn = y.agg.resources
  OBVIOUS
<1>7. IsList(rn) /\ Distinct(rn) /\ ToSet(rn) = After(ToSet(rs), e)
  BY <1>2, <1>3, <1>5, <1>6, ResourceEvent DEF Held
<1>8. \A q \in After(ToSet(rs), e) : q.order \in Nat
  BY <1>2, <1>5 DEF Held, Orders, After
<1>9. PICK m \in Nat : m = x.agg.name /\ m # 0
  BY <1>2 DEF Numbered
<1>10. DOMAIN x.sets.sets = 1..m
  BY <1>2, <1>9, SetDomain
<1>11. /\ DOMAIN y.sets = SetsFields /\ y.sets.label = x.sets.label
       /\ y.sets.current = x.sets.current
       /\ IsList(y.sets.sets) /\ Len(y.sets.sets) = Len(x.sets.sets)
       /\ \A n \in 1..m :
            /\ DOMAIN y.sets.sets[n] = SetFields
            /\ y.sets.sets[n].label = x.sets.sets[n].label
            /\ y.sets.sets[n].active = x.sets.sets[n].active
            /\ n # m => y.sets.sets[n] = x.sets.sets[n]
            /\ n = m => y.sets.sets[n].resources = ByOrder(OnResources(x.sets.sets[n].resources, e))
  <2>1. x.sets.current = m
    BY <1>2, <1>9 DEF Numbered
  <2>2. QED
    BY <1>1, <1>2, <1>10, <2>1 DEF SetsStep, Shapes
<1>12. DOMAIN y.sets.sets = 1..m
  BY <1>2, <1>9, <1>11, ListFacts DEF Numbered
<1>13. PICK cs : cs = x.sets.sets[m].resources
  OBVIOUS
<1>14. PICK cn : cn = OnResources(cs, e)
  OBVIOUS
<1>15. IsList(cs) /\ Distinct(cs) /\ ToSet(cs) = ToSet(rs)
  BY <1>2, <1>5, <1>9, <1>13 DEF Held
<1>16. IsList(cn) /\ Distinct(cn) /\ ToSet(cn) = ToSet(rn)
  <2>1. Ids(cs) = Ids(rs)
    BY <1>15, IdsOfSet
  <2>2. Suits(cs, e)
    BY <1>5, <2>1 DEF Suits
  <2>3. QED
    BY <1>7, <1>14, <1>15, <2>2, ResourceEvent
<1>a. PICK co : co = ByOrder(cn)
  OBVIOUS
<1>17. IsList(co) /\ Distinct(co) /\ Sorted(co) /\ ToSet(co) = ToSet(rn)
  <2>1. Orders(cn)
    BY <1>7, <1>8, <1>16 DEF Orders
  <2>2. IsList(co) /\ Distinct(co) /\ Sorted(co) /\ ToSet(co) = ToSet(cn)
    BY <1>16, <1>a, <2>1, SortedByOrder
  <2>3. QED
    BY <1>16, <2>2
<1>18. y.sets.sets[m].resources = co
  <2>1. m \in 1..m
    BY <1>9
  <2>2. y.sets.sets[m].resources = ByOrder(OnResources(x.sets.sets[m].resources, e))
    BY <1>11, <2>1
  <2>3. OnResources(x.sets.sets[m].resources, e) = cn
    BY <1>13, <1>14
  <2>4. QED
    BY <1>a, <2>2, <2>3
<1>19. Orders(rn)
  BY <1>7, <1>8 DEF Orders
<1>20. Held(y)
  BY <1>4, <1>6, <1>7, <1>9, <1>17, <1>18, <1>19 DEF Held
<1>21. Numbered(y)
  BY <1>2, <1>4, <1>11 DEF Numbered
<1>22. DOMAIN y.orphans = OrphanFields
  BY <1>1, <1>2 DEF OrphansStep, Shapes
<1>23. Shapes(y)
  BY <1>4, <1>11, <1>12, <1>22 DEF Shapes
<1>24. OrphansOf(y, E \cup Brought(e))
  <2>1. Ids(rn) = IF e.type = "ResourceRemoved" THEN Ids(rs) \ {e.id} ELSE Ids(rs) \cup {e.resource.id}
    <3>1. Ids(rn) = {q.id : q \in After(ToSet(rs), e)} /\ Ids(rs) = {q.id : q \in ToSet(rs)}
      BY <1>7, IdsOfSet
    <3>2. QED
      BY <3>1, AfterIds
  <2>2. /\ x.orphans.active = Ids(rs) /\ Ids(rs) \subseteq E
        /\ x.orphans.deleted = E \ Ids(rs)
    BY <1>5 DEF Sound, OrphansOf
  <2>3. /\ e.type = "ResourceAdded" =>
                /\ y.orphans.active = x.orphans.active \cup {e.resource.id}
                /\ y.orphans.deleted = x.orphans.deleted \ {e.resource.id}
        /\ e.type = "ResourceRemoved" /\ e.id \in x.orphans.active =>
                /\ y.orphans.active = x.orphans.active \ {e.id}
                /\ y.orphans.deleted = x.orphans.deleted \cup {e.id}
        /\ e.type = "ResourceRemoved" /\ e.id \notin x.orphans.active => y.orphans = x.orphans
        /\ e.type \notin {"ResourceAdded", "ResourceRemoved"} =>
                y.orphans.active = x.orphans.active /\ y.orphans.deleted = x.orphans.deleted
    <3>1. DOMAIN x.orphans = {"active", "deleted", "deleteAllowed"}
      BY <1>2 DEF Shapes, OrphanFields
    <3>2. QED
      BY <1>1, <3>1 DEF OrphansStep
  <2>4. CASE e.type = "ResourceAdded"
    <3>1. /\ Ids(rn) = Ids(rs) \cup {e.resource.id}
          /\ y.orphans.active = Ids(rs) \cup {e.resource.id}
          /\ y.orphans.deleted = (E \ Ids(rs)) \ {e.resource.id}
      BY <2>1, <2>2, <2>3, <2>4
    <3>2. QED
      BY <1>6, <2>2, <2>4, <3>1 DEF OrphansOf, Brought
  <2>5. CASE e.type = "ResourceUpdated"
    <3>1. e.resource.id \in Ids(rs)
      BY <1>5, <2>5 DEF Suits
    <3>2. Ids(rn) = Ids(rs)
      BY <2>1, <2>5, <3>1
    <3>3. QED
      BY <1>6, <2>2, <2>3, <2>5, <3>2 DEF OrphansOf, Brought
  <2>6. CASE e.type = "ResourceRemoved"
    <3>1. Ids(rn) = Ids(rs) \ {e.id}
      BY <2>1, <2>6
    <3>2. CASE e.id \in Ids(rs)
      <4>1. y.orphans.active = Ids(rs) \ {e.id} /\ y.orphans.deleted = (E \ Ids(rs)) \cup {e.id}
        BY <2>2, <2>3, <2>6, <3>2
      <4>2. QED
        BY <1>6, <2>2, <2>6, <3>1, <3>2, <4>1 DEF OrphansOf, Brought
    <3>3. CASE e.id \notin Ids(rs)
      <4>1. y.orphans.active = Ids(rs) /\ y.orphans.deleted = E \ Ids(rs)
        BY <2>2, <2>3, <2>6, <3>3
      <4>2. QED
        BY <1>6, <2>2, <2>6, <3>1, <3>3, <4>1 DEF OrphansOf, Brought
    <3>4. QED
      BY <3>2, <3>3
  <2>7. QED
    BY <1>2, <2>4, <2>5, <2>6 DEF ResourceEvents
<1>25. QED
  BY <1>3, <1>5, <1>6, <1>7, <1>9, <1>11, <1>20, <1>21, <1>23, <1>24 DEF Sound, ResourcesChanged

\* From x to y, a set has become active or inactive.
ActivityChanged(x, e, y) ==
    /\ SameBut(x.agg, y.agg, {"active"})
    /\ y.agg.active = IF e.type = "ResourceSetActivated" THEN x.agg.active \cup {e.name}
                      ELSE x.agg.active \ {e.name}
    /\ \A n \in 1..x.agg.name :
         /\ SameBut(x.sets.sets[n], y.sets.sets[n], {"active"})
         /\ n = e.name => y.sets.sets[n].active = (e.type = "ResourceSetActivated")
         /\ n # e.name => y.sets.sets[n].active = x.sets.sets[n].active

LEMMA ActivityEvent ==
  ASSUME NEW x, NEW E, Sound(x, E),
         NEW e, e.type \in {"ResourceSetActivated", "ResourceSetDeactivated"},
         NEW y, y = OnStream(x, e)
  PROVE  Sound(y, E) /\ ActivityChanged(x, e, y)
<1>1. /\ AggStep(x.agg, e, y.agg)
      /\ SetsStep(x.sets, e, y.sets)
      /\ OrphansStep(x.orphans, e, y.orphans)
  BY StreamSteps DEF Sound
<1>2. Shapes(x) /\ Numbered(x) /\ DOMAIN x.agg = AggFields
  BY DEF Sound, Shapes
<1>3. /\ SameBut(x.agg, y.agg, {"active"})
      /\ y.agg.active = IF e.type = "ResourceSetActivated" THEN x.agg.active \cup {e.name}
                        ELSE x.agg.active \ {e.name}
  BY <1>1, <1>2 DEF AggStep
<1>4. /\ DOMAIN y.agg = AggFields
      /\ y.agg.label = x.agg.label /\ y.agg.name = x.agg.name
      /\ y.agg.resources = x.agg.resources
  BY <1>2, <1>3 DEF SameBut, AggFields
<1>5. DOMAIN x.sets.sets = 1..x.agg.name
  BY <1>2, SetDomain
<1>6. /\ DOMAIN y.sets = SetsFields /\ y.sets.label = x.sets.label
      /\ y.sets.current = x.sets.current
      /\ IsList(y.sets.sets) /\ Len(y.sets.sets) = Len(x.sets.sets)
      /\ \A n \in 1..x.agg.name :
           /\ SameBut(x.sets.sets[n], y.sets.sets[n], {"active"})
           /\ n = e.name => y.sets.sets[n].active = (e.type = "ResourceSetActivated")
           /\ n # e.name => y.sets.sets[n].active = x.sets.sets[n].active
  <2>1. CASE e.type = "ResourceSetActivated"
    BY <1>1, <1>2, <1>5, <2>1 DEF SetsStep, Shapes
  <2>2. CASE e.type = "ResourceSetDeactivated"
    BY <1>1, <1>2, <1>5, <2>2 DEF SetsStep, Shapes
  <2>3. QED
    BY <2>1, <2>2
<1>7. \A n \in 1..x.agg.name : DOMAIN y.sets.sets[n] = SetFields
                               /\ y.sets.sets[n].resources = x.sets.sets[n].resources
  BY <1>2, <1>5, <1>6 DEF Shapes, SameBut, SetFields
<1>8. DOMAIN y.sets.sets = 1..x.agg.name
  BY <1>2, <1>6, ListFacts DEF Numbered
<1>9. /\ DOMAIN y.orphans = OrphanFields
      /\ y.orphans.active = x.orphans.active /\ y.orphans.deleted = x.orphans.deleted
  BY <1>1, <1>2 DEF OrphansStep, Shapes, OrphanFields
<1>10. Shapes(y)
  BY <1>4, <1>6, <1>7, <1>8, <1>9 DEF Shapes
<1>11. Numbered(y)
  BY <1>2, <1>4, <1>6 DEF Numbered
<1>12. Held(y)
  <2>1. x.agg.name # 0 => x.agg.name \in 1..x.agg.name
    BY <1>2 DEF Numbered
  <2>2. x.agg.name # 0 => y.sets.sets[x.agg.name].resources = x.sets.sets[x.agg.name].resources
    BY <1>7, <2>1
  <2>3. QED
    BY <1>4, <2>2 DEF Sound, Held
<1>13. QED
  BY <1>3, <1>4, <1>6, <1>9, <1>10, <1>11, <1>12 DEF Sound, OrphansOf, ActivityChanged

-----------------------------------------------------------------------------
(* The commands of a session, one after the other. *)

\* The labels of a set and what a superseded set holds never change.
Later(x, y) ==
    /\ x.agg.name <= y.agg.name
    /\ \A n \in 1..x.agg.name :
         /\ y.sets.sets[n].label = x.sets.sets[n].label
         /\ n < x.agg.name => y.sets.sets[n].resources = x.sets.sets[n].resources

\* The active set is the current one, as the aggregate and as the sets have it.
Taken(x) ==
    /\ x.agg.active = {x.agg.name} \/ (x.agg.name = 0 /\ x.agg.active = {})
    /\ \A n \in 1..x.agg.name : x.sets.sets[n].active = (n = x.agg.name)

\* Or else a new one is about to take over from the one before.
Taking(x) ==
    /\ x.agg.active \subseteq 0..x.agg.name
    /\ \A u, v \in x.agg.active : u = v
    /\ \A n \in 1..x.agg.name :
         /\ x.sets.sets[n].active \in BOOLEAN
         /\ n # x.agg.name => (x.sets.sets[n].active <=> n \in x.agg.active)
         /\ n = x.agg.name /\ n \in x.agg.active => x.sets.sets[n].active

Going(st, E, a) ==
    /\ InSession(st, a)
    /\ Sound(Reached(st, a), E \cup Added(a.events))
    /\ Taking(Reached(st, a))
    /\ Later(st, Reached(st, a))

Grew(a, b) == b = a \/ Len(a.events) < Len(b.events)

LEMMA SameButRefl ==
  ASSUME NEW s, NEW F
  PROVE  SameBut(s, s, F)
BY DEF SameBut

LEMMA SameButTrans ==
  ASSUME NEW r, NEW s, NEW t, NEW F, SameBut(r, s, F), SameBut(s, t, F)
  PROVE  SameBut(r, t, F)
BY DEF SameBut

LEMMA LaterTrans ==
  ASSUME NEW x, NEW y, NEW z, x.agg.name \in Nat, y.agg.name \in Nat, z.agg.name \in Nat,
         Later(x, y), Later(y, z)
  PROVE  Later(x, z)
<1>1. x.agg.name <= y.agg.name /\ y.agg.name <= z.agg.name
  BY DEF Later
<1>2. \A n \in 1..x.agg.name : n \in 1..y.agg.name /\ (n < x.agg.name => n < y.agg.name)
  BY <1>1
<1>3. QED
  BY <1>1, <1>2 DEF Later

LEMMA LaterRefl ==
  ASSUME NEW x, x.agg.name \in Nat
  PROVE  Later(x, x)
BY DEF Later

LEMMA GoingFacts ==
  ASSUME NEW st, NEW E, NEW a, Going(st, E, a)
  PROVE  /\ DOMAIN a.state = AggFields
         /\ a.state = Reached(st, a).agg
         /\ a.state.name \in Nat
         /\ IsList(a.state.resources) /\ Distinct(a.state.resources)
         /\ Orders(a.state.resources)
         /\ a.state.name = 0 => a.state.resources = << >>
         /\ IsList(a.events) /\ Len(a.events) \in Nat
<1>1. a.state = Reached(st, a).agg /\ IsList(a.events)
  BY DEF Going, InSession
<1>2. Len(a.events) \in Nat
  BY <1>1, ListFacts
<1>3. QED
  BY <1>1, <1>2 DEF Going, Sound, Shapes, Numbered, Held

LEMMA GrewTrans ==
  ASSUME NEW a, NEW b, NEW c, Len(a.events) \in Nat, Len(b.events) \in Nat,
         Len(c.events) \in Nat, Grew(a, b), Grew(b, c)
  PROVE  Grew(a, c) /\ (c = a => b = a)
BY DEF Grew

\* Events that the sets do not read.
LEMMA ApplyUnread ==
  ASSUME NEW st, st.agg.name \in Nat, NEW E, NEW a, Going(st, E, a),
         NEW e, e.type \in Unread
  PROVE  LET b == Apply(a, e)
         IN  /\ Going(st, E, b) /\ Grew(a, b) /\ b # a
             /\ AggStep(a.state, e, b.state)
             /\ Reached(st, b).sets = Reached(st, a).sets
<1>1. PICK b, x, y : b = Apply(a, e) /\ x = Reached(st, a) /\ y = Reached(st, b)
  OBVIOUS
<1>2. PICK F : F = E \cup Added(a.events)
  OBVIOUS
<1>3. /\ InSession(st, a) /\ Sound(x, F) /\ Taking(x) /\ Later(st, x) /\ a.state = x.agg
  BY <1>1, <1>2 DEF Going, InSession
<1>4. /\ InSession(st, b) /\ Len(b.events) = Len(a.events) + 1
      /\ y = OnStream(x, e) /\ b.state = y.agg
      /\ Added(b.events) = Added(a.events)
  <2>1. e.type # "ResourceAdded"
    BY DEF Unread
  <2>2. /\ InSession(st, b) /\ Len(b.events) = Len(a.events) + 1
        /\ y = OnStream(x, e)
        /\ Added(b.events) = Added(a.events) \cup Brought(e)
    BY <1>1, <1>3, ApplySession
  <2>3. QED
    BY <1>1, <2>1, <2>2 DEF InSession, Brought
<1>5. /\ Sound(y, F) /\ y.sets = x.sets
      /\ y.agg.label = x.agg.label /\ y.agg.name = x.agg.name
      /\ y.agg.resources = x.agg.resources /\ y.agg.active = x.agg.active
  BY <1>3, <1>4, UnreadEvent
<1>6. Taking(y) /\ Later(st, y)
  BY <1>3, <1>5 DEF Taking, Later
<1>7. AggStep(a.state, e, b.state)
  BY <1>3, <1>4, StreamSteps DEF Sound
<1>8. Len(a.events) \in Nat
  BY <1>3, ListFacts DEF InSession
<1>9. Grew(a, b) /\ b # a
  BY <1>4, <1>8 DEF Grew
<1>10. Going(st, E, b)
  BY <1>1, <1>2, <1>4, <1>5, <1>6 DEF Going
<1>11. QED
  BY <1>1, <1>5, <1>7, <1>9, <1>10

LEMMA DoSetBlueprint ==
  ASSUME NEW st, st.agg.name \in Nat, NEW E, NEW a, Going(st, E, a), NEW label
  PROVE  LET b == SetBlueprint(a, label)
         IN  /\ Going(st, E, b) /\ Grew(a, b)
             /\ b.state.label = label /\ SameBut(a.state, b.state, {"label"})
             /\ Reached(st, b).sets.sets = Reached(st, a).sets.sets
             /\ a.state.label = label => b = a
<1>1. CASE a.state.label = label
  <2>1. SetBlueprint(a, label) = a
    BY <1>1 DEF SetBlueprint, ApplyIf
  <2>2. QED
    BY <1>1, <2>1, SameButRefl DEF Grew
<1>2. CASE a.state.label # label
  <2>1. PICK e : e = [type |-> "LabelsChanged", label |-> label]
    OBVIOUS
  <2>2. PICK b, x, y : b = Apply(a, e) /\ x = Reached(st, a) /\ y = Reached(st, b)
    OBVIOUS
  <2>3. PICK F : F = E \cup Added(a.events)
    OBVIOUS
  <2>4. /\ InSession(st, a) /\ Sound(x, F) /\ Taking(x) /\ Later(st, x) /\ a.state = x.agg
    BY <2>2, <2>3 DEF Going, InSession
  <2>5. /\ InSession(st, b) /\ Len(b.events) = Len(a.events) + 1
        /\ y = OnStream(x, e) /\ b.state = y.agg
        /\ Added(b.events) = Added(a.events)
    <3>1. /\ InSession(st, b) /\ Len(b.events) = Len(a.events) + 1
          /\ y = OnStream(x, e)
          /\ Added(b.events) = Added(a.events) \cup Brought(e)
      BY <2>2, <2>4, ApplySession
    <3>2. QED
      BY <2>1, <2>2, <3>1 DEF InSession, Brought
  <2>6. /\ Sound(y, F) /\ y.sets.sets = x.sets.sets /\ y.agg.label = label
        /\ SameBut(x.agg, y.agg, {"label"})
    BY <2>1, <2>4, <2>5, LabelsEvent
  <2>7. y.agg.name = x.agg.name /\ y.agg.active = x.agg.active
    BY <2>4, <2>6 DEF Sound, Shapes, SameBut, AggFields
  <2>8. Taking(y) /\ Later(st, y)
    BY <2>4, <2>6, <2>7 DEF Taking, Later
  <2>9. Len(a.events) \in Nat
    BY <2>4, ListFacts DEF InSession
  <2>10. Going(st, E, b) /\ Grew(a, b)
    BY <2>2, <2>3, <2>5, <2>6, <2>8, <2>9 DEF Going, Grew
  <2>11. SetBlueprint(a, label) = b
    BY <1>2, <2>1, <2>2 DEF SetBlueprint, ApplyIf
  <2>12. QED
    BY <1>2, <2>2, <2>4, <2>5, <2>6, <2>10, <2>11
<1>3. QED
  BY <1>1, <1>2

LEMMA DoRecordOutcome ==
  ASSUME NEW st, st.agg.name \in Nat, NEW E, NEW a, Going(st, E, a),
         NEW o, o.failed \in BOOLEAN, NEW rs
  PROVE  LET b == RecordOutcome(a, o, rs)
         IN  /\ Going(st, E, b) /\ Grew(a, b)
             /\ b.state.failed = o.failed /\ b.state.sum = Sum(rs)
             /\ SameBut(a.state, b.state, {"failed", "sum"})
             /\ Reached(st, b).sets = Reached(st, a).sets
             /\ a.state.failed = o.failed /\ a.state.sum = Sum(rs) => b = a
<1>1. PICK b : b = RecordOutcome(a, o, rs)
  OBVIOUS
<1>2. CASE a.state.failed = o.failed /\ a.state.sum = Sum(rs)
  <2>1. b = a
    BY <1>1, <1>2 DEF RecordOutcome, ApplyIf
  <2>2. QED
    BY <1>1, <1>2, <2>1, SameButRefl DEF Grew
<1>3. CASE ~(a.state.failed = o.failed /\ a.state.sum = Sum(rs))
  <2>1. PICK e : e = [type |-> IF o.failed THEN "GenerationFailed" ELSE "GenerationSuccessful",
                      sum |-> Sum(rs)]
    OBVIOUS
  <2>2. b = Apply(a, e)
    BY <1>1, <1>3, <2>1 DEF RecordOutcome, ApplyIf
  <2>3. /\ e.type = (IF o.failed THEN "GenerationFailed" ELSE "GenerationSuccessful")
        /\ e.sum = Sum(rs) /\ e.type \in Unread
    BY <2>1 DEF Unread
  <2>4. /\ Going(st, E, b) /\ Grew(a, b)
        /\ AggStep(a.state, e, b.state)
        /\ Reached(st, b).sets = Reached(st, a).sets
    BY <2>2, <2>3, ApplyUnread
  <2>5. /\ b.state.failed = o.failed /\ b.state.sum = Sum(rs)
        /\ SameBut(a.state, b.state, {"failed", "sum"})
    BY <2>3, <2>4 DEF AggStep
  <2>6. QED
    BY <1>1, <1>3, <2>4, <2>5
<1>4. QED
  BY <1>2, <1>3

LEMMA DoNewVersion ==
  ASSUME NEW st, st.agg.name \in Nat, NEW E, NEW a, Going(st, E, a),
         a.state.version = a.state.name, Taken(Reached(st, a))
  PROVE  LET b == NewVersion(a)
         IN  /\ Going(st, E, b) /\ Grew(a, b) /\ b # a
             /\ b.state.name = a.state.name + 1 /\ b.state.version = b.state.name
             /\ SameBut(a.state, b.state, {"version", "name"})
             /\ Reached(st, b).sets.sets[b.state.name].label = a.state.label
<1>1. PICK e, f : /\ e = [type |-> "ResourceSetVersionChanged", version |-> a.state.version + 1]
                  /\ f = [type |-> "ResourceSetCreated", name |-> a.state.name + 1]
  OBVIOUS
<1>2. PICK c : c = Apply(a, e)
  OBVIOUS
<1>3. e.type \in Unread
  BY <1>1 DEF Unread
<1>4. /\ Going(st, E, c) /\ Grew(a, c) /\ c # a /\ AggStep(a.state, e, c.state)
      /\ Reached(st, c).sets = Reached(st, a).sets
  BY <1>2, <1>3, ApplyUnread
<1>5. c.state.version = a.state.name + 1 /\ SameBut(a.state, c.state, {"version"})
  BY <1>1, <1>4 DEF AggStep
<1>6. PICK b, x, y, w : b = Apply(c, f) /\ x = Reached(st, c) /\ y = Reached(st, b) /\ w = Reached(st, a)
  OBVIOUS
<1>7. PICK F : F = E \cup Added(c.events)
  OBVIOUS
<1>8. /\ InSession(st, c) /\ Sound(x, F) /\ Taking(x) /\ Later(st, x) /\ c.state = x.agg
      /\ a.state = w.agg /\ x.sets = w.sets /\ Taken(w)
  BY <1>4, <1>6, <1>7 DEF Going, InSession
<1>9. DOMAIN a.state = AggFields /\ a.state.name \in Nat /\ Len(a.events) \in Nat
  BY GoingFacts
<1>10. /\ c.state.name = a.state.name /\ c.state.active = a.state.active
       /\ c.state.label = a.state.label
  BY <1>5, <1>9 DEF SameBut, AggFields
<1>11. /\ InSession(st, b) /\ Len(b.events) = Len(c.events) + 1
       /\ y = OnStream(x, f) /\ b.state = y.agg
       /\ Added(b.events) = Added(c.events)
  <2>1. /\ InSession(st, b) /\ Len(b.events) = Len(c.events) + 1
        /\ y = OnStream(x, f)
        /\ Added(b.events) = Added(c.events) \cup Brought(f)
    <3>1. InSession(st, c)
      BY <1>8
    <3>2. b = Apply(c, f) /\ x = Reached(st, c) /\ y = Reached(st, b)
      BY <1>6
    <3>3. QED
      BY <3>1, <3>2, ApplySession
  <2>2. QED
    BY <1>1, <1>6, <2>1 DEF InSession, Brought
<1>12. Sound(y, F) /\ SetMade(x, y)
  <2>1. f.type = "ResourceSetCreated" /\ f.name = x.agg.name + 1
    BY <1>1, <1>8, <1>10
  <2>2. Sound(x, F) /\ y = OnStream(x, f)
    BY <1>8, <1>11
  <2>3. QED
    BY <2>1, <2>2, CreatedEvent
<1>13. PICK m \in Nat : m = x.agg.name /\ m = w.agg.name
  BY <1>8, <1>9, <1>10
<1>14. y.agg.active = w.agg.active /\ y.agg.version = y.agg.name /\ y.agg.name = m + 1
  BY <1>5, <1>8, <1>9, <1>10, <1>12, <1>13 DEF SameBut, AggFields, SetMade
<1>15. Taking(y)
  <2>1. w.agg.active = {m} \/ (m = 0 /\ w.agg.active = {})
    BY <1>8, <1>13 DEF Taken
  <2>2. \A n \in 1..m : y.sets.sets[n].active = (n = m)
    BY <1>8, <1>12, <1>13 DEF Taken, SetMade
  <2>3. y.sets.sets[m + 1].active = (m # 0)
    <3>1. CASE m = 0
      BY <1>12, <1>13, <1>14, <3>1 DEF SetMade
    <3>2. CASE m # 0
      <4>1. y.sets.sets[m + 1].active = x.sets.sets[m].active /\ m \in 1..m
        BY <1>12, <1>13, <1>14, <3>2 DEF SetMade
      <4>2. QED
        <5>1. y.sets.sets[m].active = (m = m) /\ y.sets.sets[m] = x.sets.sets[m]
          BY <1>12, <1>13, <2>2, <4>1 DEF SetMade
        <5>2. y.sets.sets[m + 1].active = TRUE /\ (m # 0) = TRUE
          BY <3>2, <4>1, <5>1
        <5>3. QED
          BY <5>2
    <3>3. QED
      BY <3>1, <3>2
  <2>4. y.agg.active \subseteq 0..(m + 1) /\ \A u, v \in y.agg.active : u = v
    BY <1>14, <2>1
  <2>5. ASSUME NEW n \in 1..(m + 1)
        PROVE  /\ y.sets.sets[n].active \in BOOLEAN
               /\ n # m + 1 => (y.sets.sets[n].active <=> n \in y.agg.active)
               /\ n = m + 1 /\ n \in y.agg.active => y.sets.sets[n].active
    <3>1. CASE n \in 1..m
      <4>1. y.sets.sets[n].active = (n = m) /\ n # m + 1
        BY <2>2, <3>1
      <4>2. n \in y.agg.active <=> n = m
        BY <1>14, <2>1, <3>1
      <4>3. y.sets.sets[n].active \in BOOLEAN
        BY <4>1
      <4>4. QED
        BY <4>1, <4>2, <4>3, Zenon
    <3>2. CASE n = m + 1
      <4>1. n \notin y.agg.active
        BY <1>14, <2>1, <3>2
      <4>2. y.sets.sets[n].active = (m # 0)
        BY <2>3, <3>2
      <4>3. y.sets.sets[n].active \in BOOLEAN
        BY <4>2
      <4>4. QED
        BY <3>2, <4>1, <4>3, Zenon
    <3>3. QED
      BY <3>1, <3>2
  <2>6. QED
    BY <1>14, <2>4, <2>5 DEF Taking
<1>16. Later(st, y)
  <2>1. st.agg.name <= m
    BY <1>8, <1>13 DEF Later
  <2>2. \A n \in 1..st.agg.name : n \in 1..m
    BY <2>1
  <2>3. QED
    BY <1>8, <1>12, <1>13, <1>14, <2>1, <2>2 DEF Later, SetMade
<1>17. Len(c.events) \in Nat
  BY <1>4, GoingFacts
<1>18. Going(st, E, b) /\ Grew(a, b) /\ b # a
  BY <1>4, <1>6, <1>7, <1>9, <1>11, <1>12, <1>15, <1>16, <1>17 DEF Going, Grew
<1>19. SameBut(a.state, b.state, {"version", "name"})
  BY <1>5, <1>8, <1>9, <1>11, <1>12 DEF SameBut, SetMade
<1>20. NewVersion(a) = b
  BY <1>1, <1>2, <1>5, <1>6 DEF NewVersion
<1>21. QED
  BY <1>8, <1>10, <1>11, <1>12, <1>13, <1>14, <1>18, <1>19, <1>20, <1>6 DEF SetMade

\* The labels and resources of the superseded sets, and what is active, stay.
LEMMA ApplyResource ==
  ASSUME NEW st, st.agg.name \in Nat, NEW E, NEW a, Going(st, E, a), a.state.name # 0,
         NEW e, Suits(a.state.resources, e),
         e.type # "ResourceRemoved" => e.resource.order \in Nat
  PROVE  LET b == Apply(a, e)
         IN  /\ Going(st, E, b) /\ Grew(a, b) /\ b # a
             /\ SameBut(a.state, b.state, {"resources"})
             /\ b.state.resources = OnResources(a.state.resources, e)
             /\ ToSet(b.state.resources) = After(ToSet(a.state.resources), e)
             /\ Later(Reached(st, a), Reached(st, b))
<1>1. PICK b, x, y : b = Apply(a, e) /\ x = Reached(st, a) /\ y = Reached(st, b)
  OBVIOUS
<1>2. PICK F : F = E \cup Added(a.events)
  OBVIOUS
<1>3. /\ InSession(st, a) /\ Sound(x, F) /\ Taking(x) /\ Later(st, x) /\ a.state = x.agg
  BY <1>1, <1>2 DEF Going, InSession
<1>4. PICK G : G = Added(a.events) \cup Brought(e)
  OBVIOUS
<1>5. /\ InSession(st, b) /\ Len(b.events) = Len(a.events) + 1
      /\ y = OnStream(x, e) /\ b.state = y.agg /\ Added(b.events) = G
  <2>1. /\ InSession(st, b) /\ Len(b.events) = Len(a.events) + 1
        /\ y = OnStream(x, e)
        /\ Added(b.events) = Added(a.events) \cup Brought(e)
    BY <1>1, <1>3, ApplySession
  <2>2. QED
    BY <1>1, <1>4, <2>1 DEF InSession
<1>6. Sound(y, E \cup G) /\ ResourcesChanged(x, e, y)
  <2>1. /\ Sound(y, F \cup Brought(e))
        /\ ResourcesChanged(x, e, y)
    BY <1>3, <1>5, OneResource
  <2>2. F \cup Brought(e) = E \cup G
    BY <1>2, <1>4
  <2>3. QED
    BY <2>1, <2>2
<1>7. /\ y.agg.name = x.agg.name /\ y.agg.active = x.agg.active /\ x.agg.name \in Nat
  BY <1>3, <1>6 DEF ResourcesChanged, Sound, Shapes, Numbered, SameBut, AggFields
<1>8. Taking(y)
  BY <1>3, <1>6, <1>7 DEF Taking, ResourcesChanged
<1>9. Later(x, y)
  BY <1>6, <1>7 DEF Later, ResourcesChanged
<1>10. Later(st, y)
  BY <1>3, <1>7, <1>9, LaterTrans
<1>11. Len(a.events) \in Nat
  BY <1>3, ListFacts DEF InSession
<1>12. Going(st, E, b) /\ Grew(a, b) /\ b # a
  BY <1>1, <1>5, <1>6, <1>8, <1>10, <1>11 DEF Going, Grew
<1>13. QED
  BY <1>1, <1>3, <1>5, <1>6, <1>9, <1>12 DEF ResourcesChanged

\* What a loop over resources makes of a session.
Looped(st, E, a, b) ==
    /\ Going(st, E, b) /\ Grew(a, b)
    /\ SameBut(a.state, b.state, {"resources"})
    /\ Later(Reached(st, a), Reached(st, b))

LEMMA LoopedRefl ==
  ASSUME NEW st, NEW E, NEW a, Going(st, E, a)
  PROVE  Looped(st, E, a, a)
<1>1. Reached(st, a).agg.name \in Nat
  BY GoingFacts
<1>2. QED
  BY <1>1, SameButRefl, LaterRefl DEF Looped, Grew

LEMMA LoopedTrans ==
  ASSUME NEW st, NEW E, NEW a, Going(st, E, a), NEW b, Looped(st, E, a, b),
         NEW c, Looped(st, E, b, c)
  PROVE  Looped(st, E, a, c) /\ (c = a => b = a)
<1>1. Going(st, E, b) /\ Going(st, E, c)
  BY DEF Looped
<1>2. /\ Reached(st, a).agg.name \in Nat /\ Reached(st, b).agg.name \in Nat
      /\ Reached(st, c).agg.name \in Nat
      /\ Len(a.events) \in Nat /\ Len(b.events) \in Nat /\ Len(c.events) \in Nat
  BY <1>1, GoingFacts
<1>3. Later(Reached(st, a), Reached(st, c))
  BY <1>2, LaterTrans DEF Looped
<1>4. Grew(a, c) /\ (c = a => b = a)
  BY <1>2, GrewTrans DEF Looped
<1>5. SameBut(a.state, c.state, {"resources"})
  BY SameButTrans DEF Looped
<1>6. QED
  BY <1>1, <1>3, <1>4, <1>5 DEF Looped

LEMMA LoopedFacts ==
  ASSUME NEW st, NEW E, NEW a, Going(st, E, a), NEW b, Looped(st, E, a, b)
  PROVE  Going(st, E, b) /\ b.state.name = a.state.name
<1>1. DOMAIN a.state = AggFields
  BY GoingFacts
<1>2. QED
  BY <1>1 DEF Looped, SameBut, AggFields

LEMMA DoAddOrUpdate ==
  ASSUME NEW st, st.agg.name \in Nat, NEW E, NEW a, Going(st, E, a), a.state.name # 0,
         NEW r, r.order \in Nat
  PROVE  LET b == AddOrUpdate(a, r)
         IN  /\ Looped(st, E, a, b)
             /\ ToSet(b.state.resources) = {q \in ToSet(a.state.resources) : q.id # r.id} \cup {r}
             /\ r \in ToSet(a.state.resources) => b = a
<1>1. PICK rs : rs = a.state.resources
  OBVIOUS
<1>2. IsList(rs) /\ Distinct(rs)
  BY <1>1, GoingFacts
<1>3. PICK i : i = Find(rs, r.id)
  OBVIOUS
<1>4. PICK b : b = AddOrUpdate(a, r)
  OBVIOUS
<1>5. /\ i \in 0..Len(rs) /\ Len(rs) \in Nat /\ DOMAIN rs = 1..Len(rs)
      /\ i = 0 <=> r.id \notin Ids(rs)
      /\ i # 0 => rs[i].id = r.id
  BY <1>2, <1>3, FindFacts, ListFacts
<1>6. CASE i = 0
  <2>1. PICK e : e = [type |-> "ResourceAdded", resource |-> r]
    OBVIOUS
  <2>2. b = Apply(a, e)
    BY <1>1, <1>3, <1>4, <1>6, <2>1 DEF AddOrUpdate
  <2>3. Suits(rs, e) /\ e.type = "ResourceAdded" /\ e.resource = r
    BY <1>5, <1>6, <2>1 DEF Suits, ResourceEvents
  <2>4. /\ Going(st, E, b) /\ Grew(a, b) /\ b # a
        /\ SameBut(a.state, b.state, {"resources"})
        /\ ToSet(b.state.resources) = After(ToSet(a.state.resources), e)
        /\ Later(Reached(st, a), Reached(st, b))
    BY <1>1, <2>2, <2>3, ApplyResource
  <2>5. r \notin ToSet(rs)
    BY <1>5, <1>6, IdsOfSet
  <2>6. QED
    BY <1>1, <1>4, <2>3, <2>4, <2>5 DEF Looped, After
<1>7. CASE i # 0 /\ rs[i] # r
  <2>1. PICK e : e = [type |-> "ResourceUpdated", resource |-> r]
    OBVIOUS
  <2>2. b = Apply(a, e)
    BY <1>1, <1>3, <1>4, <1>7, <2>1 DEF AddOrUpdate, ApplyIf
  <2>3. Suits(rs, e) /\ e.type = "ResourceUpdated" /\ e.resource = r
    BY <1>5, <1>7, <2>1 DEF Suits, ResourceEvents
  <2>4. /\ Going(st, E, b) /\ Grew(a, b) /\ b # a
        /\ SameBut(a.state, b.state, {"resources"})
        /\ ToSet(b.state.resources) = After(ToSet(a.state.resources), e)
        /\ Later(Reached(st, a), Reached(st, b))
    BY <1>1, <2>2, <2>3, ApplyResource
  <2>5. r \notin ToSet(rs)
    <3>1. ASSUME r \in ToSet(rs) PROVE FALSE
      <4>1. PICK j \in 1..Len(rs) : rs[j] = r
        BY <1>2, <3>1, ListFacts
      <4>2. i = j
        BY <1>2, <1>5, <1>7, <4>1 DEF Distinct
      <4>3. QED
        BY <1>7, <4>1, <4>2
    <3>2. QED
      BY <3>1
  <2>6. QED
    BY <1>1, <1>4, <2>3, <2>4, <2>5 DEF Looped, After
<1>8. CASE i # 0 /\ rs[i] = r
  <2>1. b = a
    BY <1>1, <1>3, <1>4, <1>8 DEF AddOrUpdate, ApplyIf
  <2>2. Looped(st, E, a, a)
    BY LoopedRefl
  <2>3. r \in ToSet(rs)
    BY <1>5, <1>8 DEF ToSet
  <2>4. \A q \in ToSet(rs) : q.id = r.id => q = r
    <3>1. \A j \in 1..Len(rs) : rs[j].id = r.id => j = i
      BY <1>2, <1>5, <1>8 DEF Distinct
    <3>2. QED
      BY <1>2, <1>8, <3>1, ListFacts
  <2>5. ToSet(rs) = {q \in ToSet(rs) : q.id # r.id} \cup {r}
    BY <2>3, <2>4
  <2>6. QED
    BY <1>1, <1>4, <2>1, <2>2, <2>5
<1>9. QED
  BY <1>6, <1>7, <1>8

\* Of the resources with the same id the last one.
Latest(rs) ==
    {rs[i] : i \in {i \in DOMAIN rs :
        \A j \in DOMAIN rs : j > i => rs[j].id # rs[i].id}}

LEMMA LatestDistinct ==
  ASSUME NEW rs, IsList(rs), Distinct(rs)
  PROVE  Latest(rs) = ToSet(rs)
<1>1. PICK n \in Nat : DOMAIN rs = 1..n /\ ToSet(rs) = {rs[i] : i \in 1..n}
  BY ListFacts
<1>2. \A i, j \in 1..n : j > i => rs[j].id # rs[i].id
  BY <1>1 DEF Distinct
<1>3. QED
  BY <1>1, <1>2 DEF Latest

LEMMA EachHasLatest ==
  ASSUME NEW rs, IsList(rs), NEW id \in Ids(rs)
  PROVE  \E r \in Latest(rs) : r.id = id
<1>1. PICK n \in Nat : DOMAIN rs = 1..n
  BY ListFacts
<1>2. PICK t : t = {i \in 1..n : rs[i].id = id}
  OBVIOUS
<1>3. t \in SUBSET (0..n) /\ t # {}
  BY <1>1, <1>2 DEF Ids
<1>4. PICK m : m = Max(t) /\ m \in t /\ \A y \in t : m >= y
  BY <1>3, LeastAndGreatest
<1>5. \A j \in 1..n : j > m => j \notin t
  BY <1>2, <1>4
<1>6. m \in DOMAIN rs /\ rs[m].id = id
  BY <1>1, <1>2, <1>4
<1>7. rs[m] \in Latest(rs)
  BY <1>1, <1>2, <1>5, <1>6 DEF Latest
<1>8. QED
  BY <1>6, <1>7

\* The first loop: what it lists, and when it has nothing to do.
LEMMA AddAll ==
  ASSUME NEW st, st.agg.name \in Nat, NEW E, NEW a, Going(st, E, a),
         NEW rs, IsList(rs), Orders(rs), a.state.name # 0 \/ rs = << >>
  PROVE  LET d == FoldLeft(AddOrUpdate, a, rs)
         IN  /\ Looped(st, E, a, d)
             /\ Ids(d.state.resources) = Ids(a.state.resources) \cup Ids(rs)
             /\ Latest(rs) \subseteq ToSet(d.state.resources)
             /\ d = a => ToSet(rs) \subseteq ToSet(a.state.resources)
             /\ ToSet(rs) \subseteq ToSet(a.state.resources) => d = a
<1>1. PICK n : n = Len(rs)
  OBVIOUS
<1>2. /\ n \in Nat /\ DOMAIN rs = 1..n /\ ToSet(rs) = {rs[j] : j \in 1..n}
      /\ Ids(rs) = {rs[j].id : j \in 1..n}
  BY <1>1, ListFacts DEF Ids
<1>3. PICK f : IsRun([by |-> "add"], a, rs, n, f) /\ FoldLeft(AddOrUpdate, a, rs) = f[n]
  BY <1>2, AddRun
<1>4. f[0] = a /\ \A i \in 0..(n - 1) : f[i + 1] = AddOrUpdate(f[i], rs[i + 1])
  <2>1. \A x, y : Step([by |-> "add"], x, y) = AddOrUpdate(x, y)
    BY DEF Step
  <2>2. QED
    BY <1>3, <2>1 DEF IsRun
<1> DEFINE R(i) == ToSet(f[i].state.resources)
           Done(i) == /\ Looped(st, E, a, f[i])
                      /\ {q.id : q \in R(i)} = {q.id : q \in R(0)} \cup {rs[j].id : j \in 1..i}
                      /\ \A j \in 1..i :
                           (\A k \in 1..i : k > j => rs[k].id # rs[j].id) => rs[j] \in R(i)
                      /\ f[i] = a => \A j \in 1..i : rs[j] \in R(0)
                      /\ ToSet(rs) \subseteq R(0) => f[i] = a
           S == {i \in Nat : i <= n => Done(i)}
<1> HIDE DEF Done
<1>5. 0 \in S
  <2>1. Looped(st, E, a, f[0])
    BY <1>4, LoopedRefl
  <2>2. {rs[j].id : j \in 1..0} = {} /\ \A j \in 1..0 : FALSE
    OBVIOUS
  <2>3. QED
    BY <1>4, <2>1, <2>2 DEF Done
<1>6. ASSUME NEW i \in Nat, i \in S PROVE i + 1 \in S
  <2> SUFFICES ASSUME i + 1 <= n PROVE Done(i + 1)
    OBVIOUS
  <2>1. Done(i) /\ i + 1 \in 1..n /\ i \in 0..(n - 1)
    BY <1>2, <1>6
  <2>2. PICK r : r = rs[i + 1]
    OBVIOUS
  <2>3. r.order \in Nat /\ r \in ToSet(rs)
    BY <1>2, <2>1, <2>2 DEF Orders
  <2>4. PICK b, c : b = f[i] /\ c = f[i + 1]
    OBVIOUS
  <2> USE DEF Done
  <2>5. Looped(st, E, a, b) /\ Going(st, E, b) /\ c = AddOrUpdate(b, r)
    BY <1>4, <2>1, <2>2, <2>4 DEF Looped
  <2>6. b.state.name # 0
    <3>1. rs # << >>
      BY <1>1, <2>1, EmptyList
    <3>2. QED
      BY <2>5, <3>1, LoopedFacts
  <2>7. /\ Looped(st, E, b, c)
        /\ ToSet(c.state.resources) = {q \in ToSet(b.state.resources) : q.id # r.id} \cup {r}
        /\ r \in ToSet(b.state.resources) => c = b
    <3>1. LET d == AddOrUpdate(b, r)
          IN  /\ Looped(st, E, b, d)
              /\ ToSet(d.state.resources) = {q \in ToSet(b.state.resources) : q.id # r.id} \cup {r}
              /\ r \in ToSet(b.state.resources) => d = b
      BY <2>3, <2>5, <2>6, DoAddOrUpdate, Zenon
    <3>2. QED
      BY <2>5, <3>1, Zenon
  <2>8. Looped(st, E, a, c) /\ (c = a => b = a)
    BY <2>5, <2>7, LoopedTrans
  <2>9. PICK U, V : U = R(i) /\ V = R(i + 1)
    OBVIOUS
  <2>10. V = {q \in U : q.id # r.id} \cup {r} /\ (r \in U => c = b)
    BY <2>4, <2>7, <2>9
  <2>11. {q.id : q \in V} = {q.id : q \in R(0)} \cup {rs[j].id : j \in 1..(i + 1)}
    <3>1. {q.id : q \in V} = {q.id : q \in U} \cup {r.id}
      <4>1. \A q : q \in V <=> (q \in U /\ q.id # r.id) \/ q = r
        BY <2>10
      <4>2. \A v : (\E q \in V : v = q.id) <=> (\E q \in U : v = q.id) \/ v = r.id
        BY <4>1
      <4>3. QED
        BY <4>2
    <3>2. {rs[j].id : j \in 1..(i + 1)} = {rs[j].id : j \in 1..i} \cup {r.id}
      BY <2>1, <2>2
    <3>3. {q.id : q \in U} = {q.id : q \in R(0)} \cup {rs[j].id : j \in 1..i}
      BY <2>1, <2>9
    <3>4. QED
      BY <3>1, <3>2, <3>3
  <2>12. ASSUME NEW j \in 1..(i + 1), \A k \in 1..(i + 1) : k > j => rs[k].id # rs[j].id
         PROVE  rs[j] \in V
    <3>1. CASE j = i + 1
      BY <2>2, <2>10, <3>1
    <3>2. CASE j # i + 1
      <4>1. j \in 1..i /\ j \in 1..n
        BY <1>2, <2>1, <3>2
      <4>2. rs[j] \in U
        <5>1. \A k \in 1..i : k \in 1..(i + 1)
          OBVIOUS
        <5>2. QED
          BY <2>1, <2>9, <2>12, <4>1, <5>1
      <4>3. rs[j].id # r.id
        <5>1. i + 1 > j /\ i + 1 \in 1..(i + 1)
          BY <4>1
        <5>2. QED
          BY <2>2, <2>12, <5>1
      <4>4. QED
        BY <2>10, <4>2, <4>3
    <3>3. QED
      BY <3>1, <3>2
  <2>13. ASSUME c = a, NEW j \in 1..(i + 1) PROVE rs[j] \in R(0)
    <3>1. b = a /\ c = b
      BY <2>8, <2>13
    <3>2. CASE j = i + 1
      <4>1. V = R(0)
        BY <1>4, <2>4, <2>9, <2>13
      <4>2. QED
        BY <2>2, <2>10, <3>2, <4>1
    <3>3. CASE j # i + 1
      BY <2>1, <2>4, <3>1, <3>3
    <3>4. QED
      BY <3>2, <3>3
  <2>14. ASSUME ToSet(rs) \subseteq R(0) PROVE c = a
    <3>1. b = a
      BY <2>1, <2>4, <2>14
    <3>2. U = R(0)
      BY <1>4, <2>4, <2>9, <3>1
    <3>3. QED
      BY <2>3, <2>10, <2>14, <3>1, <3>2
  <2>15. QED
    BY <2>4, <2>8, <2>9, <2>11, <2>12, <2>13, <2>14
<1> HIDE DEF S
<1>7. n \in S
  BY <1>2, <1>5, <1>6, Induction
<1>8. Done(n)
  BY <1>2, <1>7 DEF S
<1>9. PICK d : d = f[n]
  OBVIOUS
<1>10. /\ Looped(st, E, a, d)
       /\ {q.id : q \in ToSet(d.state.resources)} =
              {q.id : q \in ToSet(a.state.resources)} \cup {rs[j].id : j \in 1..n}
       /\ \A j \in 1..n :
            (\A k \in 1..n : k > j => rs[k].id # rs[j].id) => rs[j] \in ToSet(d.state.resources)
       /\ d = a => \A j \in 1..n : rs[j] \in ToSet(a.state.resources)
       /\ ToSet(rs) \subseteq ToSet(a.state.resources) => d = a
  BY <1>4, <1>8, <1>9 DEF Done
<1>11. Ids(d.state.resources) = Ids(a.state.resources) \cup Ids(rs)
  BY <1>2, <1>10, IdsOfSet
<1>12. Latest(rs) \subseteq ToSet(d.state.resources)
  BY <1>2, <1>10 DEF Latest
<1>13. QED
  BY <1>2, <1>3, <1>9, <1>10, <1>11, <1>12

-----------------------------------------------------------------------------
(* The loop that removes. *)

LEMMA IdsCount ==
  ASSUME NEW rs, IsList(rs)
  PROVE  /\ IsFiniteSet(Ids(rs))
         /\ Cardinality(Ids(rs)) = Len(rs) <=> Distinct(rs)
<1>1. PICK n : n = Len(rs)
  OBVIOUS
<1>2. n \in Nat /\ DOMAIN rs = 1..n
  BY <1>1, ListFacts
<1>3. PICK f : f = [i \in 1..n |-> rs[i].id]
  OBVIOUS
<1>4. Ids(rs) = {f[i] : i \in 1..n} /\ f \in [1..n -> Ids(rs)]
  BY <1>2, <1>3 DEF Ids
<1>5. f \in Surjection(1..n, Ids(rs))
  BY <1>4 DEF Surjection
<1>6. IsFiniteSet(1..n) /\ Cardinality(1..n) = n
  <2>1. IsFiniteSet(1..n) /\ Cardinality(1..n) = IF 1 > n THEN 0 ELSE n - 1 + 1
    BY <1>2, FS_Interval
  <2>2. QED
    BY <1>2, <2>1
<1>7. /\ IsFiniteSet(Ids(rs))
      /\ Cardinality(Ids(rs)) = Cardinality(1..n) <=> f \in Injection(1..n, Ids(rs))
  BY <1>5, <1>6, FS_Surjection
<1>8. f \in Injection(1..n, Ids(rs)) <=> Distinct(rs)
  BY <1>2, <1>3, <1>4 DEF Injection, IsInjective, Distinct
<1>9. QED
  BY <1>1, <1>6, <1>7, <1>8

LEMMA ShiftList ==
  ASSUME NEW array, IsList(array), NEW rs, IsList(rs), Len(rs) <= Len(array)
  PROVE  LET new == Shift(array, rs)
         IN  /\ IsList(new) /\ Len(new) = Len(array)
             /\ \A j \in 1..Len(rs) : new[j] = rs[j]
<1>1. PICK T : array \in Seq(T) /\ rs \in Seq(T)
  <2>1. array \in Seq(ToSet(array) \cup ToSet(rs)) /\ rs \in Seq(ToSet(array) \cup ToSet(rs))
    BY DEF IsList
  <2>2. QED
    BY <2>1
<1>2. PICK m, n \in Nat : m = Len(rs) /\ n = Len(array)
  BY <1>1
<1>3. PICK b : b = SubSeq(array, m + 1, n)
  OBVIOUS
<1>4. b \in Seq(T) /\ Len(b) = n - m
  <2>1. 0 \in 0..Len(array) /\ m + 1 \in (0 + 1)..(Len(array) + 1)
    BY <1>2
  <2>2. b \in Seq(T) /\ Len(b) = Len(array) + 1 - (m + 1)
    BY <1>1, <1>2, <1>3, <2>1, Parts
  <2>3. QED
    BY <1>2, <2>2
<1>5. PICK new : new = Shift(array, rs)
  OBVIOUS
<1>6. new = rs \o b
  BY <1>2, <1>3, <1>5 DEF Shift
<1>a. new \in Seq(T) /\ Joins(new, rs, b)
  BY <1>1, <1>4, <1>6, JoinList
<1>7. /\ new \in Seq(T) /\ Len(new) = Len(rs) + Len(b)
      /\ \A j \in 1..(Len(rs) + Len(b)) :
             new[j] = IF j <= Len(rs) THEN rs[j] ELSE b[j - Len(rs)]
  BY <1>a DEF Joins
<1>8. Len(new) = n /\ \A j \in 1..m : new[j] = rs[j]
  BY <1>2, <1>4, <1>7
<1>9. QED
  BY <1>2, <1>5, <1>7, <1>8, SeqIsList

\* The ids of the first k resources.
Seen(rs, k) == {rs[j].id : j \in {j \in DOMAIN rs : j <= k}}

LEMMA SeenFacts ==
  ASSUME NEW rs, IsList(rs), NEW k \in Nat
  PROVE  /\ Seen(rs, k) \subseteq Ids(rs)
         /\ k >= Len(rs) => Seen(rs, k) = Ids(rs)
         /\ k + 1 > Len(rs) => Seen(rs, k + 1) = Seen(rs, k)
         /\ k + 1 <= Len(rs) => Seen(rs, k + 1) = Seen(rs, k) \cup {rs[k + 1].id}
<1>1. PICK n \in Nat : n = Len(rs) /\ DOMAIN rs = 1..n
  BY ListFacts
<1>2. \A m \in Nat : \A v : v \in Seen(rs, m) <=> \E j \in 1..n : j <= m /\ v = rs[j].id
  BY <1>1 DEF Seen
<1>3. \A v : v \in Ids(rs) <=> \E j \in 1..n : v = rs[j].id
  BY <1>1 DEF Ids
<1>4. Seen(rs, k) \subseteq Ids(rs) /\ (k >= n => Seen(rs, k) = Ids(rs))
  BY <1>2, <1>3
<1>5. k + 1 > n => Seen(rs, k + 1) = Seen(rs, k)
  <2>1. k + 1 > n => \A j \in 1..n : j <= k + 1 /\ j <= k
    BY <1>1
  <2>2. k + 1 \in Nat
    OBVIOUS
  <2>3. QED
    BY <1>2, <2>1, <2>2
<1>6. ASSUME k + 1 <= n PROVE Seen(rs, k + 1) = Seen(rs, k) \cup {rs[k + 1].id}
  <2>1. \A j \in 1..n : j <= k + 1 <=> j <= k \/ j = k + 1
    BY <1>1
  <2>2. k + 1 \in 1..n /\ k + 1 \in Nat
    BY <1>1, <1>6
  <2>3. QED
    BY <1>2, <2>1, <2>2
<1>7. QED
  BY <1>1, <1>4, <1>5, <1>6

\* What is behind the loop and what is left, of what nobody wants.
Burden(rs, k, W) == Cardinality(Seen(rs, k) \ W) + Cardinality(Ids(rs) \ W)

LEMMA BurdenSizes ==
  ASSUME NEW rs, IsList(rs), NEW k \in Nat, NEW W
  PROVE  /\ IsFiniteSet(Seen(rs, k) \ W) /\ IsFiniteSet(Ids(rs) \ W)
         /\ Cardinality(Seen(rs, k) \ W) \in Nat /\ Cardinality(Ids(rs) \ W) \in Nat
<1>1. IsFiniteSet(Ids(rs))
  BY IdsCount
<1>2. Seen(rs, k) \ W \subseteq Ids(rs) /\ Ids(rs) \ W \subseteq Ids(rs)
  BY SeenFacts
<1>3. IsFiniteSet(Seen(rs, k) \ W) /\ IsFiniteSet(Ids(rs) \ W)
  BY <1>1, <1>2, FS_Subset
<1>4. QED
  BY <1>3, FS_CardinalityType

\* The loop passes over a resource that is wanted.
LEMMA PassedOver ==
  ASSUME NEW rs, IsList(rs), NEW k \in Nat, NEW W,
         k + 1 <= Len(rs) => rs[k + 1].id \in W
  PROVE  Burden(rs, k + 1, W) = Burden(rs, k, W)
<1>1. Len(rs) \in Nat
  BY ListFacts
<1>2. Seen(rs, k + 1) \ W = Seen(rs, k) \ W
  <2>1. CASE k + 1 > Len(rs)
    BY <2>1, SeenFacts
  <2>2. CASE k + 1 <= Len(rs)
    <3>1. Seen(rs, k + 1) = Seen(rs, k) \cup {rs[k + 1].id} /\ rs[k + 1].id \in W
      BY <2>2, SeenFacts
    <3>2. QED
      BY <3>1
  <2>3. QED
    BY <1>1, <2>1, <2>2
<1>3. QED
  BY <1>2 DEF Burden

\* It passes over one more for each that it removes.
LEMMA Removed ==
  ASSUME NEW rs, IsList(rs), Distinct(rs), NEW k \in Nat, NEW W,
         NEW id, id \notin W, k + 1 <= Len(rs) => rs[k + 1].id = id,
         NEW new, new = RemoveFrom(rs, Find(rs, id)),
         IsList(new), Ids(new) = Ids(rs) \ {id}
  PROVE  Burden(new, k + 1, W) <= Burden(rs, k, W)
<1>1. PICK n \in Nat : n = Len(rs) /\ DOMAIN rs = 1..n
  BY ListFacts
<1>2. PICK A, B, C, D : /\ A = Seen(rs, k) \ W /\ B = Ids(rs) \ W
                        /\ C = Seen(new, k + 1) \ W /\ D = Ids(new) \ W
  OBVIOUS
<1>3. /\ IsFiniteSet(A) /\ IsFiniteSet(B) /\ IsFiniteSet(C) /\ IsFiniteSet(D)
      /\ Cardinality(A) \in Nat /\ Cardinality(B) \in Nat
      /\ Cardinality(C) \in Nat /\ Cardinality(D) \in Nat
  <2>1. k + 1 \in Nat
    OBVIOUS
  <2>2. QED
    BY <1>2, <2>1, BurdenSizes
<1>4. /\ Burden(rs, k, W) = Cardinality(A) + Cardinality(B)
      /\ Burden(new, k + 1, W) = Cardinality(C) + Cardinality(D)
  BY <1>2 DEF Burden
<1>5. D = B \ {id}
  BY <1>2
<1>6. CASE k + 1 > n
  <2>1. A = B
    BY <1>1, <1>2, <1>6, SeenFacts
  <2>2. C \subseteq D
    <3>1. k + 1 \in Nat
      OBVIOUS
    <3>2. Seen(new, k + 1) \subseteq Ids(new)
      BY <3>1, SeenFacts
    <3>3. QED
      BY <1>2, <3>2
  <2>3. D \subseteq B
    BY <1>5
  <2>4. Cardinality(C) <= Cardinality(D) /\ Cardinality(D) <= Cardinality(B)
    BY <1>3, <2>2, <2>3, FS_Subset
  <2>5. QED
    BY <1>3, <1>4, <2>1, <2>4
<1>7. CASE k + 1 <= n
  <2>1. rs[k + 1].id = id /\ k + 1 \in 1..n
    BY <1>1, <1>7
  <2>2. id \in B
    BY <1>1, <1>2, <2>1 DEF Ids
  <2>3. Cardinality(D) = Cardinality(B) - 1
    BY <1>3, <1>5, <2>2, FS_RemoveElement
  <2>4. Find(rs, id) = k + 1
    <3>1. Find(rs, id) \in 1..n /\ rs[Find(rs, id)].id = id
      BY <1>1, <1>2, <2>2, FindFacts
    <3>2. QED
      BY <1>1, <2>1, <3>1 DEF Distinct
  <2>5. new = RemoveAt(rs, k + 1)
    BY <2>4 DEF RemoveFrom
  <2>6. Len(new) = n - 1 /\ \A j \in 1..(n - 1) : new[j] = IF j < k + 1 THEN rs[j] ELSE rs[j + 1]
    <3>1. k + 1 \in DOMAIN rs
      BY <1>1, <2>1
    <3>2. LET s == RemoveAt(rs, k + 1)
          IN  /\ IsList(s) /\ Len(s) = Len(rs) - 1
              /\ \A j \in 1..(Len(rs) - 1) : s[j] = IF j < k + 1 THEN rs[j] ELSE rs[j + 1]
      BY <3>1, RemoveList
    <3>3. QED
      BY <1>1, <2>5, <3>2
  <2>7. DOMAIN new = 1..(n - 1)
    BY <2>6, ListFacts
  <2>8. PICK v : v = new[k + 1].id
    OBVIOUS
  <2>9. C \subseteq A \cup {v}
    <3>1. ASSUME NEW j \in 1..(n - 1), j <= k + 1 PROVE new[j].id \in Seen(rs, k) \cup {v}
      <4>1. CASE j = k + 1
        BY <2>8, <4>1
      <4>2. CASE j # k + 1
        <5>1. j \in 1..n /\ j <= k /\ new[j] = rs[j]
          BY <1>1, <2>6, <3>1, <4>2
        <5>2. QED
          BY <1>1, <5>1 DEF Seen
      <4>3. QED
        BY <4>1, <4>2
    <3>2. Seen(new, k + 1) \subseteq Seen(rs, k) \cup {v}
      BY <2>7, <3>1 DEF Seen
    <3>3. QED
      BY <1>2, <3>2
  <2>10. IsFiniteSet(A \cup {v}) /\ Cardinality(A \cup {v}) <= Cardinality(A) + 1
    <3>1. IsFiniteSet(A)
      BY <1>3
    <3>2. /\ IsFiniteSet(A \cup {v})
          /\ Cardinality(A \cup {v}) = IF v \in A THEN Cardinality(A) ELSE Cardinality(A) + 1
      BY <3>1, FS_AddElement, Zenon
    <3>3. QED
      BY <1>3, <3>2
  <2>11. Cardinality(C) <= Cardinality(A \cup {v})
    BY <2>9, <2>10, FS_Subset
  <2>12. Cardinality(A \cup {v}) \in Nat
    BY <2>10, FS_CardinalityType
  <2>13. QED
    BY <1>3, <1>4, <2>3, <2>10, <2>11, <2>12
<1>8. QED
  BY <1>1, <1>6, <1>7

\* After i turns of the loop.
Removing(st, E, a, W, acc, i) ==
    LET old == a.state.resources
        rs  == acc.a.state.resources
    IN  /\ Looped(st, E, a, acc.a)
        /\ IsList(acc.array) /\ Len(acc.array) = Len(old)
        /\ Len(rs) <= Len(old) /\ \A j \in 1..Len(rs) : acc.array[j] = rs[j]
        /\ ToSet(rs) \subseteq ToSet(old)
        /\ \A q \in ToSet(old) : q.id \in W => q \in ToSet(rs)
        /\ Burden(rs, i, W) <= Cardinality(Ids(old) \ W)
        /\ acc.a = a => \A j \in 1..i : old[j].id \in W
        /\ Ids(old) \subseteq W => acc.a = a

LEMMA RemoveStep ==
  ASSUME NEW st, st.agg.name \in Nat, NEW E, NEW a, Going(st, E, a), NEW W,
         NEW acc, NEW i \in Nat, i + 1 <= Len(a.state.resources),
         Removing(st, E, a, W, acc, i)
  PROVE  Removing(st, E, a, W, RemoveNext(W, acc, i + 1), i + 1)
<1>1. PICK old, b, rs, array : /\ old = a.state.resources /\ b = acc.a
                               /\ rs = b.state.resources /\ array = acc.array
  OBVIOUS
<1>2. /\ Looped(st, E, a, b) /\ IsList(array) /\ Len(array) = Len(old)
      /\ Len(rs) <= Len(old) /\ (\A j \in 1..Len(rs) : array[j] = rs[j])
      /\ ToSet(rs) \subseteq ToSet(old)
      /\ (\A q \in ToSet(old) : q.id \in W => q \in ToSet(rs))
      /\ Burden(rs, i, W) <= Cardinality(Ids(old) \ W)
      /\ (b = a => \A j \in 1..i : old[j].id \in W)
      /\ (Ids(old) \subseteq W => b = a)
  BY <1>1 DEF Removing
<1>3. /\ IsList(old) /\ Distinct(old) /\ Going(st, E, b) /\ b.state.name = a.state.name
  BY <1>1, <1>2, GoingFacts, LoopedFacts
<1>4. IsList(rs) /\ Distinct(rs) /\ Len(rs) \in Nat /\ DOMAIN rs = 1..Len(rs)
  BY <1>1, <1>3, GoingFacts, ListFacts
<1>5. Len(old) \in Nat /\ i + 1 \in 1..Len(old) /\ DOMAIN old = 1..Len(old)
  BY <1>1, <1>3, ListFacts
<1>6. a.state.name # 0 /\ b.state.name # 0
  <2>1. old # << >>
    BY <1>5, EmptyList
  <2>2. QED
    BY <1>1, <1>3, <2>1, GoingFacts
<1>7. PICK id : id = array[i + 1].id
  OBVIOUS
<1>8. i + 1 <= Len(rs) => rs[i + 1].id = id
  BY <1>2, <1>4, <1>7
<1>9. PICK new : new = RemoveNext(W, acc, i + 1)
  OBVIOUS
<1>10. /\ Burden(rs, i, W) \in Nat /\ Cardinality(Ids(old) \ W) \in Nat
  <2>1. Cardinality(Seen(rs, i) \ W) \in Nat /\ Cardinality(Ids(rs) \ W) \in Nat
    BY <1>4, BurdenSizes
  <2>2. Cardinality(Ids(old) \ W) \in Nat
    BY <1>3, BurdenSizes
  <2>3. QED
    BY <2>1, <2>2 DEF Burden
<1>11. CASE id \in W
  <2>1. new = acc
    BY <1>1, <1>7, <1>9, <1>11 DEF RemoveNext
  <2>2. Burden(rs, i + 1, W) = Burden(rs, i, W)
    BY <1>4, <1>8, <1>11, PassedOver
  <2>3. ASSUME b = a, NEW j \in 1..(i + 1) PROVE old[j].id \in W
    <3>1. CASE j = i + 1
      <4>1. rs = old
        BY <1>1, <2>3
      <4>2. QED
        BY <1>5, <1>8, <1>11, <3>1, <4>1
    <3>2. CASE j # i + 1
      BY <1>2, <2>3, <3>2
    <3>3. QED
      BY <3>1, <3>2
  <2>4. QED
    BY <1>1, <1>2, <1>9, <2>1, <2>2, <2>3 DEF Removing
<1>12. CASE id \notin W
  <2>1. PICK e : e = [type |-> "ResourceRemoved", id |-> id]
    OBVIOUS
  <2>2. PICK c, rn : c = Apply(b, e) /\ rn = c.state.resources
    OBVIOUS
  <2>3. new = [a |-> c, array |-> Shift(array, rn)]
    BY <1>1, <1>7, <1>9, <1>12, <2>1, <2>2 DEF RemoveNext
  <2>4. Suits(rs, e) /\ e.type = "ResourceRemoved" /\ e.id = id
    BY <2>1 DEF Suits, ResourceEvents
  <2>5. /\ Going(st, E, c) /\ Grew(b, c) /\ c # b
        /\ SameBut(b.state, c.state, {"resources"})
        /\ rn = OnResources(rs, e)
        /\ ToSet(rn) = After(ToSet(rs), e)
        /\ Later(Reached(st, b), Reached(st, c))
    BY <1>1, <1>3, <1>6, <2>2, <2>4, ApplyResource
  <2>6. Looped(st, E, b, c)
    BY <2>5 DEF Looped
  <2>7. Looped(st, E, a, c) /\ (c = a => b = a)
    BY <1>2, <2>6, LoopedTrans
  <2>8. IsList(rn) /\ Distinct(rn)
    BY <2>2, <2>5, GoingFacts
  <2>9. ToSet(rn) = {q \in ToSet(rs) : q.id # id}
    BY <2>4, <2>5 DEF After
  <2>10. Ids(rn) = Ids(rs) \ {id}
    BY <2>9, IdsOfSet
  <2>11. rn = RemoveFrom(rs, Find(rs, id))
    BY <2>4, <2>5 DEF OnResources
  <2>12. Burden(rn, i + 1, W) <= Burden(rs, i, W)
    BY <1>4, <1>8, <1>12, <2>8, <2>10, <2>11, Removed
  <2>13. Burden(rn, i + 1, W) \in Nat
    <3>1. i + 1 \in Nat
      OBVIOUS
    <3>2. Cardinality(Seen(rn, i + 1) \ W) \in Nat /\ Cardinality(Ids(rn) \ W) \in Nat
      BY <2>8, <3>1, BurdenSizes
    <3>3. QED
      BY <3>2 DEF Burden
  <2>14. Len(rn) <= Len(rs) /\ Len(rn) \in Nat
    <3>1. CASE Find(rs, id) = 0
      BY <1>4, <2>11, <3>1 DEF RemoveFrom
    <3>2. CASE Find(rs, id) # 0
      <4>1. PICK k : k = Find(rs, id)
        OBVIOUS
      <4>2. k \in DOMAIN rs /\ rn = RemoveAt(rs, k)
        BY <1>4, <2>11, <3>2, <4>1, FindFacts DEF RemoveFrom
      <4>3. LET s == RemoveAt(rs, k)
            IN  /\ IsList(s) /\ Len(s) = Len(rs) - 1
                /\ \A j \in 1..(Len(rs) - 1) : s[j] = IF j < k THEN rs[j] ELSE rs[j + 1]
        BY <1>4, <4>2, RemoveList
      <4>4. QED
        BY <1>4, <2>8, <4>2, <4>3, ListFacts
    <3>3. QED
      BY <3>1, <3>2
  <2>15. PICK shifted : shifted = Shift(array, rn)
    OBVIOUS
  <2>16. /\ IsList(shifted) /\ Len(shifted) = Len(array)
         /\ \A j \in 1..Len(rn) : shifted[j] = rn[j]
    <3>1. Len(rn) <= Len(array)
      BY <1>2, <1>4, <1>5, <2>14
    <3>2. QED
      BY <1>2, <2>8, <2>15, <3>1, ShiftList
  <2>17. ~(Ids(old) \subseteq W)
    <3>1. ASSUME Ids(old) \subseteq W PROVE FALSE
      <4>1. rs = old
        BY <1>1, <1>2, <3>1
      <4>2. id \in Ids(old)
        BY <1>5, <1>8, <4>1 DEF Ids
      <4>3. QED
        BY <1>12, <3>1, <4>2
    <3>2. QED
      BY <3>1
  <2>18. c # a
    BY <2>5, <2>7
  <2>19. ToSet(rn) \subseteq ToSet(old) /\ \A q \in ToSet(old) : q.id \in W => q \in ToSet(rn)
    BY <1>2, <1>12, <2>9
  <2>20. Burden(rn, i + 1, W) <= Cardinality(Ids(old) \ W)
    BY <1>2, <1>10, <2>12, <2>13
  <2>21. Len(shifted) = Len(old) /\ Len(rn) <= Len(old)
    BY <1>2, <1>4, <1>5, <2>14, <2>16
  <2>22. new.a = c /\ new.array = shifted
    BY <2>3, <2>15
  <2>23. QED
    BY <1>1, <1>9, <2>2, <2>7, <2>16, <2>17, <2>18, <2>19, <2>20, <2>21, <2>22 DEF Removing
<1>13. QED
  BY <1>9, <1>11, <1>12

\* The second loop: what is wanted stays, at least half of the rest goes.
LEMMA DoRemoveUnwanted ==
  ASSUME NEW st, st.agg.name \in Nat, NEW E, NEW a, Going(st, E, a), NEW W
  PROVE  LET b   == RemoveUnwanted(a, W)
             old == a.state.resources
             rs  == b.state.resources
         IN  /\ Looped(st, E, a, b)
             /\ ToSet(rs) \subseteq ToSet(old)
             /\ \A q \in ToSet(old) : q.id \in W => q \in ToSet(rs)
             /\ 2 * Cardinality(Ids(rs) \ W) <= Cardinality(Ids(old) \ W)
             /\ b = a => Ids(old) \subseteq W
             /\ Ids(old) \subseteq W => b = a
<1>1. PICK old : old = a.state.resources
  OBVIOUS
<1>2. PICK n : n = Len(old)
  OBVIOUS
<1>3. IsList(old) /\ n \in Nat /\ DOMAIN old = 1..n
  BY <1>1, <1>2, GoingFacts, ListFacts
<1>4. PICK q, s : q = [i \in DOMAIN old |-> i] /\ s = [a |-> a, array |-> old]
  OBVIOUS
<1>5. DOMAIN q = 1..n /\ \A i \in 1..n : q[i] = i
  BY <1>3, <1>4
<1>6. PICK f : /\ IsRun([by |-> "remove", wanted |-> W], s, q, n, f)
               /\ RemoveUnwanted(a, W) = f[n].a
  BY <1>1, <1>3, <1>4, RemoveRun
<1>7. RemoveUnwanted(a, W) = f[n].a
  BY <1>6
<1>8. f[0] = s /\ \A i \in 0..(n - 1) : f[i + 1] = RemoveNext(W, f[i], i + 1)
  <2>1. \A x, y : Step([by |-> "remove", wanted |-> W], x, y) = RemoveNext(W, x, y)
    BY DEF Step
  <2>2. ASSUME NEW i \in 0..(n - 1) PROVE f[i + 1] = RemoveNext(W, f[i], i + 1)
    <3>1. q[i + 1] = i + 1
      BY <1>3, <1>5
    <3>2. QED
      BY <1>6, <2>1, <3>1 DEF IsRun
  <2>3. QED
    BY <1>6, <2>2 DEF IsRun
<1> DEFINE S == {i \in Nat : i <= n => Removing(st, E, a, W, f[i], i)}
<1>9. 0 \in S
  <2>1. PICK acc : acc = f[0]
    OBVIOUS
  <2>2. acc.a = a /\ acc.array = old
    BY <1>4, <1>8, <2>1
  <2>3. Looped(st, E, a, a)
    BY LoopedRefl
  <2>4. Burden(old, 0, W) <= Cardinality(Ids(old) \ W)
    <3>1. Seen(old, 0) = {}
      BY <1>3 DEF Seen
    <3>2. Cardinality(Seen(old, 0) \ W) = 0
      BY <3>1, FS_EmptySet
    <3>3. Cardinality(Ids(old) \ W) \in Nat
      BY <1>3, BurdenSizes
    <3>4. QED
      BY <3>2, <3>3 DEF Burden
  <2>5. Removing(st, E, a, W, acc, 0)
    BY <1>1, <1>2, <1>3, <2>2, <2>3, <2>4 DEF Removing
  <2>6. QED
    BY <2>1, <2>5
<1>10. ASSUME NEW i \in Nat, i \in S PROVE i + 1 \in S
  <2> SUFFICES ASSUME i + 1 <= n PROVE Removing(st, E, a, W, f[i + 1], i + 1)
    OBVIOUS
  <2>1. Removing(st, E, a, W, f[i], i) /\ i \in 0..(n - 1)
    BY <1>3, <1>10
  <2>2. i + 1 <= Len(a.state.resources)
    BY <1>1, <1>2
  <2>3. Removing(st, E, a, W, RemoveNext(W, f[i], i + 1), i + 1)
    BY <2>1, <2>2, RemoveStep
  <2>4. QED
    BY <1>8, <2>1, <2>3
<1> HIDE DEF S
<1>11. n \in S
  BY <1>3, <1>9, <1>10, Induction
<1>12. Removing(st, E, a, W, f[n], n)
  BY <1>3, <1>11 DEF S
<1>13. PICK b, rs : b = f[n].a /\ rs = b.state.resources
  OBVIOUS
<1>14. /\ Looped(st, E, a, b) /\ Len(rs) <= n
       /\ ToSet(rs) \subseteq ToSet(old)
       /\ (\A r \in ToSet(old) : r.id \in W => r \in ToSet(rs))
       /\ Burden(rs, n, W) <= Cardinality(Ids(old) \ W)
       /\ (b = a => \A j \in 1..n : old[j].id \in W)
       /\ (Ids(old) \subseteq W => b = a)
  BY <1>1, <1>2, <1>12, <1>13 DEF Removing
<1>15. 2 * Cardinality(Ids(rs) \ W) <= Cardinality(Ids(old) \ W)
  <2>1. IsList(rs)
    BY <1>13, <1>14, GoingFacts, LoopedFacts
  <2>2. Len(rs) \in Nat
    BY <2>1, ListFacts
  <2>3. Seen(rs, n) = Ids(rs)
    BY <1>3, <1>14, <2>1, <2>2, SeenFacts
  <2>4. Cardinality(Ids(rs) \ W) \in Nat /\ Cardinality(Ids(old) \ W) \in Nat
    BY <1>3, <2>1, BurdenSizes
  <2>5. QED
    BY <1>14, <2>3, <2>4 DEF Burden
<1>16. b = a => Ids(old) \subseteq W
  BY <1>3, <1>14 DEF Ids
<1>17. QED
  BY <1>1, <1>7, <1>13, <1>14, <1>15, <1>16

-----------------------------------------------------------------------------
(* The current set takes over. *)

\* Between the loops and the end of the session.
Activated(st, E, a, b) ==
    /\ Going(st, E, b) /\ Grew(a, b)
    /\ SameBut(a.state, b.state, {"active"})
    /\ Later(Reached(st, a), Reached(st, b))

LEMMA ApplyActivity ==
  ASSUME NEW st, st.agg.name \in Nat, NEW E, NEW a, Going(st, E, a),
         NEW e, \/ e.type = "ResourceSetDeactivated" /\ e.name # a.state.name
                \/ /\ e.type = "ResourceSetActivated" /\ e.name = a.state.name
                   /\ a.state.active = {}
  PROVE  LET b == Apply(a, e)
         IN  /\ Activated(st, E, a, b)
             /\ b.state.active = IF e.type = "ResourceSetActivated" THEN {e.name}
                                 ELSE a.state.active \ {e.name}
             /\ e.type = "ResourceSetActivated" => Taken(Reached(st, b))
<1>1. PICK b, x, y : b = Apply(a, e) /\ x = Reached(st, a) /\ y = Reached(st, b)
  OBVIOUS
<1>2. PICK F : F = E \cup Added(a.events)
  OBVIOUS
<1>3. /\ InSession(st, a) /\ Sound(x, F) /\ Taking(x) /\ Later(st, x) /\ a.state = x.agg
  BY <1>1, <1>2 DEF Going, InSession
<1>4. e.type \in {"ResourceSetActivated", "ResourceSetDeactivated"}
  OBVIOUS
<1>5. /\ InSession(st, b) /\ Len(b.events) = Len(a.events) + 1
      /\ y = OnStream(x, e) /\ b.state = y.agg /\ Added(b.events) = Added(a.events)
  <2>1. /\ InSession(st, b) /\ Len(b.events) = Len(a.events) + 1
        /\ y = OnStream(x, e)
        /\ Added(b.events) = Added(a.events) \cup Brought(e)
    BY <1>1, <1>3, ApplySession
  <2>2. QED
    BY <1>1, <1>4, <2>1 DEF InSession, Brought
<1>6. Sound(y, F) /\ ActivityChanged(x, e, y)
  BY <1>3, <1>4, <1>5, ActivityEvent
<1>7. PICK m \in Nat : m = x.agg.name
  BY <1>3 DEF Sound, Numbered
<1>8. y.agg.name = m /\ SameBut(x.agg, y.agg, {"active"})
  BY <1>3, <1>6, <1>7 DEF ActivityChanged, Sound, Shapes, SameBut, AggFields
<1>9. ASSUME NEW n \in 1..m
      PROVE  /\ y.sets.sets[n].label = x.sets.sets[n].label
             /\ y.sets.sets[n].resources = x.sets.sets[n].resources
             /\ n = e.name => y.sets.sets[n].active = (e.type = "ResourceSetActivated")
             /\ n # e.name => y.sets.sets[n].active = x.sets.sets[n].active
  <2>1. DOMAIN x.sets.sets[n] = SetFields
    <3>1. Shapes(x) /\ Numbered(x)
      BY <1>3 DEF Sound
    <3>2. DOMAIN x.sets.sets = 1..m
      BY <1>7, <3>1, SetDomain
    <3>3. QED
      BY <3>1, <3>2 DEF Shapes
  <2>2. QED
    BY <1>6, <1>7, <2>1 DEF ActivityChanged, SameBut, SetFields
<1>10. Later(x, y)
  BY <1>7, <1>8, <1>9 DEF Later
<1>11. Later(st, y)
  BY <1>3, <1>7, <1>8, <1>10, LaterTrans
<1>12. /\ x.agg.active \subseteq 0..m
       /\ \A u, v \in x.agg.active : u = v
       /\ \A n \in 1..m : x.sets.sets[n].active \in BOOLEAN
       /\ \A n \in 1..m : n # m => (x.sets.sets[n].active <=> n \in x.agg.active)
       /\ m \in 1..m /\ m \in x.agg.active => x.sets.sets[m].active
  BY <1>3, <1>7 DEF Taking
<1>13. CASE e.type = "ResourceSetDeactivated" /\ e.name # m
  <2>1. y.agg.active = x.agg.active \ {e.name}
    BY <1>6, <1>13 DEF ActivityChanged
  <2>2. ASSUME NEW n \in 1..m
        PROVE  /\ y.sets.sets[n].active \in BOOLEAN
               /\ n # m => (y.sets.sets[n].active <=> n \in y.agg.active)
               /\ n = m /\ n \in y.agg.active => y.sets.sets[n].active
    <3>1. CASE n = e.name
      <4>1. y.sets.sets[n].active = FALSE /\ n # m /\ n \notin y.agg.active
        <5>1. y.sets.sets[n].active = (e.type = "ResourceSetActivated")
          BY <1>9, <3>1
        <5>2. QED
          BY <1>13, <2>1, <3>1, <5>1
      <4>2. QED
        BY <4>1
    <3>2. CASE n # e.name
      <4>1. y.sets.sets[n].active = x.sets.sets[n].active
        BY <1>9, <3>2
      <4>2. n \in y.agg.active <=> n \in x.agg.active
        BY <2>1, <3>2
      <4>3. QED
        BY <1>12, <4>1, <4>2
    <3>3. QED
      BY <3>1, <3>2
  <2>3. y.agg.active \subseteq 0..m /\ \A u, v \in y.agg.active : u = v
    BY <1>12, <2>1
  <2>4. Taking(y)
    BY <1>8, <2>2, <2>3 DEF Taking
  <2>5. Len(a.events) \in Nat
    BY <1>3, ListFacts DEF InSession
  <2>6. Activated(st, E, a, b)
    BY <1>1, <1>2, <1>3, <1>5, <1>6, <1>8, <1>10, <1>11, <2>4, <2>5 DEF Activated, Going, Grew
  <2>7. QED
    BY <1>1, <1>3, <1>5, <1>13, <2>1, <2>6
<1>14. CASE e.type = "ResourceSetActivated" /\ e.name = m /\ x.agg.active = {}
  <2>1. y.agg.active = {m}
    BY <1>6, <1>14 DEF ActivityChanged
  <2>2. ASSUME NEW n \in 1..m PROVE y.sets.sets[n].active = (n = m)
    <3>1. CASE n = m
      <4>1. y.sets.sets[n].active = (e.type = "ResourceSetActivated")
        BY <1>9, <1>14, <3>1
      <4>2. QED
        BY <1>14, <3>1, <4>1
    <3>2. CASE n # m
      <4>1. y.sets.sets[n].active = x.sets.sets[n].active
        BY <1>9, <1>14, <3>2
      <4>2. ~x.sets.sets[n].active /\ x.sets.sets[n].active \in BOOLEAN
        BY <1>12, <1>14, <3>2
      <4>3. QED
        BY <3>2, <4>1, <4>2
    <3>3. QED
      BY <3>1, <3>2
  <2>3. Taken(y)
    BY <1>8, <2>1, <2>2 DEF Taken
  <2>4. Taking(y)
    <3>1. y.agg.active \subseteq 0..m /\ \A u, v \in y.agg.active : u = v
      BY <1>7, <2>1
    <3>2. ASSUME NEW n \in 1..m
          PROVE  /\ y.sets.sets[n].active \in BOOLEAN
                 /\ n # m => (y.sets.sets[n].active <=> n \in y.agg.active)
                 /\ n = m /\ n \in y.agg.active => y.sets.sets[n].active
      <4>1. y.sets.sets[n].active = (n = m)
        BY <2>2
      <4>2. n \in y.agg.active <=> n = m
        BY <2>1
      <4>3. QED
        BY <4>1, <4>2, Zenon
    <3>3. QED
      BY <1>8, <3>1, <3>2 DEF Taking
  <2>5. Len(a.events) \in Nat
    BY <1>3, ListFacts DEF InSession
  <2>6. Activated(st, E, a, b)
    BY <1>1, <1>2, <1>3, <1>5, <1>6, <1>8, <1>10, <1>11, <2>4, <2>5 DEF Activated, Going, Grew
  <2>7. QED
    BY <1>1, <1>3, <1>5, <1>14, <2>1, <2>3, <2>6
<1>15. QED
  BY <1>3, <1>7, <1>13, <1>14

\* There is at most one set to take over from.
LEMMA OneOther ==
  ASSUME NEW S, \A u, v \in S : u = v
  PROVE  LET q == SetToSeq(S)
         IN  \/ S = {} /\ DOMAIN q = 1..0
             \/ \E u : S = {u} /\ DOMAIN q = 1..1 /\ q[1] = u
<1>1. CASE S = {}
  <2>1. Cardinality(S) = 0
    BY <1>1, FS_EmptySet
  <2>2. << >> \in [1..0 -> S] /\ IsInjective(<< >>)
    BY DEF IsInjective
  <2>3. SetToSeq(S) \in [1..0 -> S]
    BY <2>1, <2>2 DEF SetToSeq
  <2>4. QED
    BY <1>1, <2>3
<1>2. CASE S # {}
  <2>1. PICK u : S = {u}
    BY <1>2
  <2>2. Cardinality(S) = 1
    BY <2>1, FS_Singleton
  <2>3. [i \in 1..1 |-> u] \in [1..1 -> S] /\ IsInjective([i \in 1..1 |-> u])
    BY <2>1 DEF IsInjective
  <2>4. SetToSeq(S) \in [1..1 -> S]
    BY <2>2, <2>3 DEF SetToSeq
  <2>5. PICK q : q = SetToSeq(S)
    OBVIOUS
  <2>6. DOMAIN q = 1..1 /\ q[1] = u
    BY <2>1, <2>4, <2>5
  <2>7. QED
    BY <2>1, <2>5, <2>6
<1>3. QED
  BY <1>1, <1>2

LEMMA ActivatedTrans ==
  ASSUME NEW st, NEW E, NEW a, Going(st, E, a), NEW b, Activated(st, E, a, b),
         NEW c, Activated(st, E, b, c)
  PROVE  Activated(st, E, a, c) /\ b.state.name = a.state.name
<1>1. /\ Len(a.events) \in Nat /\ Len(b.events) \in Nat /\ Len(c.events) \in Nat
      /\ DOMAIN a.state = AggFields
      /\ a.state = Reached(st, a).agg /\ b.state = Reached(st, b).agg
      /\ c.state = Reached(st, c).agg
      /\ a.state.name \in Nat /\ b.state.name \in Nat /\ c.state.name \in Nat
  BY GoingFacts DEF Activated
<1>2. Grew(a, c)
  BY <1>1, GrewTrans DEF Activated
<1>3. SameBut(a.state, c.state, {"active"})
  BY SameButTrans DEF Activated
<1>4. Later(Reached(st, a), Reached(st, c))
  BY <1>1, LaterTrans DEF Activated
<1>5. b.state.name = a.state.name
  BY <1>1 DEF Activated, SameBut, AggFields
<1>6. QED
  BY <1>2, <1>3, <1>4, <1>5 DEF Activated

LEMMA ActivatedRefl ==
  ASSUME NEW st, NEW E, NEW a, Going(st, E, a)
  PROVE  Activated(st, E, a, a)
<1>1. Later(Reached(st, a), Reached(st, a))
  BY GoingFacts, LaterRefl
<1>2. QED
  BY <1>1, SameButRefl DEF Activated, Grew

\* After it, the current set is active and nothing else.
LEMMA DoActivate ==
  ASSUME NEW st, st.agg.name \in Nat, NEW E, NEW a, Going(st, E, a)
  PROVE  LET b == ActivateCurrent(a)
         IN  /\ Activated(st, E, a, b)
             /\ Taken(Reached(st, b)) /\ b.state.active = {b.state.name}
             /\ a.state.active = {a.state.name} => b = a
<1>1. PICK others, off, c : /\ others = SetToSeq(a.state.active \ {a.state.name})
        /\ off = [i \in DOMAIN others |->
                    [type |-> "ResourceSetDeactivated", name |-> others[i]]]
        /\ c = FoldLeft(Apply, a, off)
  OBVIOUS
<1>2. PICK b : b = ActivateCurrent(a)
  OBVIOUS
<1>3. b = ApplyIf(c.state.name \notin c.state.active, c,
                  [type |-> "ResourceSetActivated", name |-> c.state.name])
  BY <1>1, <1>2 DEF ActivateCurrent
<1>4. PICK x, m, A : x = Reached(st, a) /\ m = a.state.name /\ A = a.state.active
  OBVIOUS
<1>5. /\ Taking(x) /\ a.state = x.agg /\ m \in Nat /\ m = x.agg.name
      /\ \A u, v \in A : u = v
  BY <1>4, GoingFacts DEF Going, Taking
<1>6. \/ A \ {m} = {} /\ DOMAIN off = 1..0
      \/ \E u : A \ {m} = {u} /\ DOMAIN off = 1..1
                /\ off[1] = [type |-> "ResourceSetDeactivated", name |-> u]
  <2>1. \A u, v \in A \ {m} : u = v
    BY <1>5
  <2>2. others = SetToSeq(A \ {m})
    BY <1>1, <1>4
  <2>3. \/ A \ {m} = {} /\ DOMAIN others = 1..0
        \/ \E u : A \ {m} = {u} /\ DOMAIN others = 1..1 /\ others[1] = u
    BY <2>1, <2>2, OneOther
  <2>4. /\ DOMAIN off = DOMAIN others
        /\ \A i \in DOMAIN others :
              off[i] = [type |-> "ResourceSetDeactivated", name |-> others[i]]
    BY <1>1
  <2>5. 1 \in 1..1
    OBVIOUS
  <2>6. CASE A \ {m} = {} /\ DOMAIN others = 1..0
    BY <2>4, <2>6, Zenon
  <2>7. ASSUME NEW u, A \ {m} = {u} /\ DOMAIN others = 1..1 /\ others[1] = u
        PROVE  /\ A \ {m} = {u} /\ DOMAIN off = 1..1
               /\ off[1] = [type |-> "ResourceSetDeactivated", name |-> u]
    BY <2>4, <2>5, <2>7, Zenon
  <2>8. QED
    BY <2>3, <2>6, <2>7, Zenon
<1>7. /\ Activated(st, E, a, c) /\ c.state.name = m
      /\ c.state.active = A \cap {m}
      /\ A \subseteq {m} => c = a
  <2>1. CASE A \ {m} = {} /\ DOMAIN off = 1..0
    <3>0. PICK n \in Nat : n = 0
      OBVIOUS
    <3>1. PICK f : IsRun([by |-> "apply"], a, off, n, f) /\ c = f[n]
      <4>1. DOMAIN off = 1..n
        BY <2>1, <3>0
      <4>2. \E f : IsRun([by |-> "apply"], a, off, n, f) /\ FoldLeft(Apply, a, off) = f[n]
        BY <4>1, ApplyRun
      <4>3. QED
        BY <1>1, <4>2
    <3>2. c = a
      BY <3>0, <3>1 DEF IsRun
    <3>3. Activated(st, E, a, a)
      BY ActivatedRefl
    <3>4. A \cap {m} = A
      BY <2>1
    <3>5. QED
      BY <1>4, <3>2, <3>3, <3>4
  <2>2. ASSUME NEW u, A \ {m} = {u}, DOMAIN off = 1..1,
               off[1] = [type |-> "ResourceSetDeactivated", name |-> u]
        PROVE  /\ Activated(st, E, a, c) /\ c.state.name = m
               /\ c.state.active = A \cap {m}
               /\ A \subseteq {m} => c = a
    <3>0. PICK n \in Nat : n = 1
      OBVIOUS
    <3>1. PICK f : IsRun([by |-> "apply"], a, off, n, f) /\ c = f[n]
      <4>1. DOMAIN off = 1..n
        BY <2>2, <3>0
      <4>2. \E f : IsRun([by |-> "apply"], a, off, n, f) /\ FoldLeft(Apply, a, off) = f[n]
        BY <4>1, ApplyRun
      <4>3. QED
        BY <1>1, <4>2
    <3>2. PICK e : e = off[1]
      OBVIOUS
    <3>3. e.type = "ResourceSetDeactivated" /\ e.name = u /\ u # m
      BY <2>2, <3>2
    <3>4. c = Apply(a, e)
      <4>1. 0 \in 0..(1 - 1) /\ 0 + 1 = 1
        OBVIOUS
      <4>2. f[1] = Step([by |-> "apply"], f[0], off[1]) /\ f[0] = a
        BY <3>0, <3>1, <4>1 DEF IsRun
      <4>3. QED
        BY <3>0, <3>1, <3>2, <4>2 DEF Step
    <3>5. Activated(st, E, a, c) /\ c.state.active = A \ {u}
      <4>1. e.name # a.state.name /\ e.type # "ResourceSetActivated"
        BY <1>4, <3>3
      <4>2. PICK d : d = Apply(a, e)
        OBVIOUS
      <4>3. /\ Activated(st, E, a, d)
            /\ d.state.active = IF e.type = "ResourceSetActivated" THEN {e.name}
                                 ELSE a.state.active \ {e.name}
        <5>1. \/ e.type = "ResourceSetDeactivated" /\ e.name # a.state.name
              \/ /\ e.type = "ResourceSetActivated" /\ e.name = a.state.name
                 /\ a.state.active = {}
          BY <3>3, <4>1, Zenon
        <5>2. LET z == Apply(a, e)
              IN  /\ Activated(st, E, a, z)
                  /\ z.state.active = IF e.type = "ResourceSetActivated" THEN {e.name}
                                      ELSE a.state.active \ {e.name}
                  /\ e.type = "ResourceSetActivated" => Taken(Reached(st, z))
          BY <5>1, ApplyActivity, Zenon
        <5>3. QED
          BY <4>2, <5>2, Zenon
      <4>4. d.state.active = a.state.active \ {e.name}
        BY <4>1, <4>3
      <4>5. QED
        BY <1>4, <3>3, <3>4, <4>2, <4>3, <4>4
    <3>6. c.state.name = m
      <4>1. SameBut(a.state, c.state, {"active"}) /\ DOMAIN a.state = AggFields
        BY <3>5, GoingFacts DEF Activated
      <4>2. QED
        BY <1>4, <4>1 DEF SameBut, AggFields
    <3>7. A \ {u} = A \cap {m}
      BY <1>5, <2>2
    <3>8. QED
      BY <2>2, <3>5, <3>6, <3>7
  <2>3. QED
    BY <1>6, <2>1, <2>2
<1>8. CASE m \in A
  <2>1. A = {m}
    BY <1>5, <1>8
  <2>2. b = c /\ c = a
    BY <1>3, <1>7, <1>8, <2>1 DEF ApplyIf
  <2>3. ASSUME NEW n \in 1..m PROVE x.sets.sets[n].active = (n = m)
    <3>1. /\ x.sets.sets[n].active \in BOOLEAN
          /\ n # m => (x.sets.sets[n].active <=> n \in A)
          /\ n = m /\ n \in A => x.sets.sets[n].active
      BY <1>4, <1>5 DEF Taking
    <3>2. n \in A <=> n = m
      BY <2>1
    <3>3. QED
      BY <3>1, <3>2, Zenon
  <2>4. Taken(x)
    BY <1>4, <1>5, <2>1, <2>3 DEF Taken
  <2>5. QED
    BY <1>2, <1>4, <1>7, <2>1, <2>2, <2>4
<1>9. CASE m \notin A
  <2>1. PICK e : e = [type |-> "ResourceSetActivated", name |-> m]
    OBVIOUS
  <2>2. e.type = "ResourceSetActivated" /\ e.name = m
    BY <2>1
  <2>3. c.state.active = {} /\ Going(st, E, c)
    BY <1>7, <1>9 DEF Activated
  <2>4. b = Apply(c, e)
    BY <1>3, <1>7, <2>1, <2>3 DEF ApplyIf
  <2>5. /\ Activated(st, E, c, b) /\ b.state.active = {m}
        /\ Taken(Reached(st, b))
    <3>1. e.name = c.state.name
      BY <1>7, <2>2
    <3>2. PICK d : d = Apply(c, e)
      OBVIOUS
    <3>3. /\ Activated(st, E, c, d)
          /\ d.state.active = IF e.type = "ResourceSetActivated" THEN {e.name}
                               ELSE c.state.active \ {e.name}
          /\ e.type = "ResourceSetActivated" => Taken(Reached(st, d))
      <4>1. \/ e.type = "ResourceSetDeactivated" /\ e.name # c.state.name
            \/ /\ e.type = "ResourceSetActivated" /\ e.name = c.state.name
               /\ c.state.active = {}
        BY <2>2, <2>3, <3>1, Zenon
      <4>2. LET z == Apply(c, e)
            IN  /\ Activated(st, E, c, z)
                /\ z.state.active = IF e.type = "ResourceSetActivated" THEN {e.name}
                                    ELSE c.state.active \ {e.name}
                /\ e.type = "ResourceSetActivated" => Taken(Reached(st, z))
        BY <2>3, <4>1, ApplyActivity, Zenon
      <4>3. QED
        BY <3>2, <4>2, Zenon
    <3>4. QED
      BY <2>2, <2>4, <3>2, <3>3
  <2>6. Activated(st, E, a, b)
    BY <1>7, <2>5, ActivatedTrans
  <2>7. b.state.name = m
    <3>1. SameBut(a.state, b.state, {"active"}) /\ DOMAIN a.state = AggFields
      BY <2>6, GoingFacts DEF Activated
    <3>2. QED
      BY <1>4, <3>1 DEF SameBut, AggFields
  <2>8. QED
    BY <1>2, <1>4, <1>9, <2>5, <2>6, <2>7
<1>10. QED
  BY <1>8, <1>9

-----------------------------------------------------------------------------
(* A pass. *)

\* Between two passes.
Rests(st, E) ==
    /\ st = [agg |-> st.agg, sets |-> st.sets, orphans |-> st.orphans, requeue |-> st.requeue]
    /\ Sound(st, E) /\ Taken(st)
    /\ st.agg.version = st.agg.name

LEMMA TakenIsTaking ==
  ASSUME NEW x, x.agg.name \in Nat, Taken(x)
  PROVE  Taking(x)
<1>1. PICK m \in Nat : m = x.agg.name
  OBVIOUS
<1>2. x.agg.active \subseteq 0..m /\ \A u, v \in x.agg.active : u = v
  BY <1>1 DEF Taken
<1>3. ASSUME NEW n \in 1..m
      PROVE  /\ x.sets.sets[n].active \in BOOLEAN
             /\ n # m => (x.sets.sets[n].active <=> n \in x.agg.active)
             /\ n = m /\ n \in x.agg.active => x.sets.sets[n].active
  <2>1. x.sets.sets[n].active = (n = m) /\ x.agg.active = {m}
    BY <1>1 DEF Taken
  <2>2. n \in x.agg.active <=> n = m
    BY <2>1
  <2>3. QED
    BY <2>1, <2>2, Zenon
<1>4. QED
  BY <1>1, <1>2, <1>3 DEF Taking

LEMMA TakenSame ==
  ASSUME NEW x, Taken(x), NEW y, y.agg.name = x.agg.name, y.agg.active = x.agg.active,
         y.sets.sets = x.sets.sets
  PROVE  Taken(y)
BY DEF Taken

LEMMA GoingAtFirst ==
  ASSUME NEW st, NEW E, Rests(st, E)
  PROVE  /\ Going(st, E, Load(st)) /\ Reached(st, Load(st)) = st
         /\ st.agg.name \in Nat /\ Load(st).state = st.agg /\ Load(st).events = << >>
         /\ Added(Load(st).events) = {}
<1>1. Load(st) = [state |-> st.agg, events |-> << >>]
  BY DEF Load
<1>2. Reached(st, Load(st)) = st
  BY <1>1, ReplayNothing DEF Reached, Rests
<1>3. InSession(st, Load(st)) /\ Added(Load(st).events) = {}
  BY LoadSession
<1>4. st.agg.name \in Nat
  BY DEF Rests, Sound, Numbered
<1>5. Taking(st) /\ Later(st, st)
  BY <1>4, TakenIsTaking, LaterRefl DEF Rests
<1>6. Sound(st, E \cup {})
  BY DEF Rests
<1>7. Going(st, E, Load(st))
  <2>1. PICK l : l = Load(st)
    OBVIOUS
  <2>2. Reached(st, l) = st /\ InSession(st, l) /\ Added(l.events) = {}
    BY <1>2, <1>3, <2>1
  <2>3. Sound(Reached(st, l), E \cup Added(l.events))
    BY <1>6, <2>2
  <2>4. Taking(Reached(st, l)) /\ Later(st, Reached(st, l))
    BY <1>5, <2>2
  <2>5. Going(st, E, l)
    BY <2>2, <2>3, <2>4 DEF Going
  <2>6. QED
    BY <2>1, <2>5
<1>8. QED
  BY <1>1, <1>2, <1>3, <1>4, <1>7

\* Up to the outcome of the run.
Begun(st, E, label, o, rs, b) ==
    /\ Going(st, E, b) /\ Taken(Reached(st, b))
    /\ SameBut(st.agg, b.state, {"label", "failed", "sum"})
    /\ b.state.label = label /\ b.state.failed = o.failed /\ b.state.sum = Sum(rs)
    /\ Reached(st, b).sets.sets = st.sets.sets
    /\ Grew(Load(st), b)
    /\ st.agg.label = label /\ st.agg.failed = o.failed /\ st.agg.sum = Sum(rs) => b = Load(st)

LEMMA PassBegins ==
  ASSUME NEW st, NEW E, Rests(st, E), NEW label, NEW o, o.failed \in BOOLEAN, NEW rs
  PROVE  LET a == SetBlueprint(Load(st), label)
         IN  /\ a.state.label = label /\ a.state.sum = st.agg.sum
             /\ Begun(st, E, label, o, rs, RecordOutcome(a, o, rs))
<1>1. PICK l, a, b : l = Load(st) /\ a = SetBlueprint(l, label) /\ b = RecordOutcome(a, o, rs)
  OBVIOUS
<1>2. /\ Going(st, E, l) /\ Reached(st, l) = st /\ st.agg.name \in Nat
      /\ l.state = st.agg /\ l.events = << >>
  BY <1>1, GoingAtFirst
<1>3. /\ Going(st, E, a) /\ Grew(l, a)
      /\ a.state.label = label /\ SameBut(l.state, a.state, {"label"})
      /\ Reached(st, a).sets.sets = Reached(st, l).sets.sets
      /\ l.state.label = label => a = l
  <2>1. LET d == SetBlueprint(l, label)
        IN  /\ Going(st, E, d) /\ Grew(l, d)
            /\ d.state.label = label /\ SameBut(l.state, d.state, {"label"})
            /\ Reached(st, d).sets.sets = Reached(st, l).sets.sets
            /\ l.state.label = label => d = l
    BY <1>2, DoSetBlueprint
  <2>2. QED
    BY <1>1, <2>1, Zenon
<1>4. /\ Going(st, E, b) /\ Grew(a, b)
      /\ b.state.failed = o.failed /\ b.state.sum = Sum(rs)
      /\ SameBut(a.state, b.state, {"failed", "sum"})
      /\ Reached(st, b).sets = Reached(st, a).sets
      /\ a.state.failed = o.failed /\ a.state.sum = Sum(rs) => b = a
  <2>1. LET d == RecordOutcome(a, o, rs)
        IN  /\ Going(st, E, d) /\ Grew(a, d)
            /\ d.state.failed = o.failed /\ d.state.sum = Sum(rs)
            /\ SameBut(a.state, d.state, {"failed", "sum"})
            /\ Reached(st, d).sets = Reached(st, a).sets
            /\ a.state.failed = o.failed /\ a.state.sum = Sum(rs) => d = a
    BY <1>2, <1>3, DoRecordOutcome
  <2>2. QED
    BY <1>1, <2>1, Zenon
<1>5. /\ DOMAIN l.state = AggFields /\ DOMAIN a.state = AggFields
      /\ Len(l.events) \in Nat /\ Len(a.events) \in Nat /\ Len(b.events) \in Nat
      /\ b.state = Reached(st, b).agg
  BY <1>2, <1>3, <1>4, GoingFacts
<1>6. Grew(l, b)
  BY <1>3, <1>4, <1>5, GrewTrans
<1>7. SameBut(st.agg, b.state, {"label", "failed", "sum"})
  BY <1>2, <1>3, <1>4 DEF SameBut
<1>8. /\ a.state.sum = st.agg.sum /\ a.state.failed = st.agg.failed
      /\ b.state.name = st.agg.name /\ b.state.active = st.agg.active
      /\ b.state.label = label
  BY <1>2, <1>3, <1>4, <1>5 DEF SameBut, AggFields
<1>9. Taken(Reached(st, b))
  BY <1>2, <1>3, <1>4, <1>5, <1>8, TakenSame DEF Rests
<1>10. st.agg.label = label /\ st.agg.failed = o.failed /\ st.agg.sum = Sum(rs) => b = l
  BY <1>2, <1>3, <1>4, <1>8
<1>11. Reached(st, b).sets.sets = st.sets.sets
  BY <1>2, <1>3, <1>4
<1>12. Begun(st, E, label, o, rs, b)
  BY <1>1, <1>4, <1>6, <1>7, <1>8, <1>9, <1>10, <1>11 DEF Begun
<1>13. QED
  BY <1>1, <1>3, <1>8, <1>12

\* A new set, if what the run brought out is new.
Versioned(st, E, label, rs, b, c) ==
    /\ Going(st, E, c) /\ Grew(b, c)
    /\ SameBut(b.state, c.state, {"version", "name"})
    /\ c.state.version = c.state.name
    /\ st.agg.sum = Sum(rs) => c = b /\ c.state.name = st.agg.name
    /\ st.agg.sum # Sum(rs) =>
         /\ c # b /\ c.state.name = st.agg.name + 1
         /\ Reached(st, c).sets.sets[c.state.name].label = label

LEMMA PassVersions ==
  ASSUME NEW st, NEW E, Rests(st, E), NEW label, NEW o, NEW rs, NEW b,
         Begun(st, E, label, o, rs, b)
  PROVE  Versioned(st, E, label, rs, b, IF st.agg.sum # Sum(rs) THEN NewVersion(b) ELSE b)
<1>1. st.agg.name \in Nat /\ Going(st, E, b) /\ DOMAIN b.state = AggFields
  BY GoingAtFirst, GoingFacts DEF Begun
<1>2. /\ b.state.name = st.agg.name /\ b.state.version = b.state.name
      /\ b.state.label = label
  BY <1>1 DEF Begun, SameBut, AggFields, Rests
<1>3. CASE st.agg.sum = Sum(rs)
  <2>1. Grew(b, b) /\ SameBut(b.state, b.state, {"version", "name"})
    BY SameButRefl DEF Grew
  <2>2. Versioned(st, E, label, rs, b, b)
    BY <1>1, <1>2, <1>3, <2>1 DEF Versioned
  <2>3. QED
    BY <1>3, <2>2
<1>4. CASE st.agg.sum # Sum(rs)
  <2>1. PICK c : c = NewVersion(b)
    OBVIOUS
  <2>2. Taken(Reached(st, b))
    BY DEF Begun
  <2>3. /\ Going(st, E, c) /\ Grew(b, c) /\ c # b
        /\ c.state.name = b.state.name + 1 /\ c.state.version = c.state.name
        /\ SameBut(b.state, c.state, {"version", "name"})
        /\ Reached(st, c).sets.sets[c.state.name].label = b.state.label
    BY <1>1, <1>2, <2>1, <2>2, DoNewVersion
  <2>4. Versioned(st, E, label, rs, b, c)
    BY <1>2, <1>4, <2>3 DEF Versioned
  <2>5. QED
    BY <1>4, <2>1, <2>4
<1>5. QED
  BY <1>3, <1>4

\* The loops and the activation.
Finished(st, E, rs, c, f) ==
    LET us == c.state.resources
        vs == f.state.resources
        W  == Ids(rs)
    IN  /\ Going(st, E, f) /\ Grew(c, f) /\ Taken(Reached(st, f))
        /\ SameBut(c.state, f.state, {"resources", "active"})
        /\ Later(Reached(st, c), Reached(st, f))
        /\ f.state.active = {f.state.name}
        /\ 2 * Cardinality(Ids(vs) \ W) <= Cardinality(Ids(us) \ W)
        /\ Latest(rs) \subseteq ToSet(vs)
        /\ f = c => ToSet(rs) \subseteq ToSet(us) /\ Ids(us) \subseteq W
        /\ /\ c.state.active = {c.state.name}
           /\ ToSet(rs) \subseteq ToSet(us) /\ Ids(us) \subseteq W
           => f = c

LEMMA PassEnds ==
  ASSUME NEW st, st.agg.name \in Nat, NEW E, NEW c, Going(st, E, c),
         NEW rs, IsList(rs), Orders(rs), c.state.name # 0 \/ rs = << >>
  PROVE  LET d == FoldLeft(AddOrUpdate, c, rs)
             e == RemoveUnwanted(d, Ids(rs))
         IN  Finished(st, E, rs, c, ActivateCurrent(e))
<1>1. PICK W : W = Ids(rs)
  OBVIOUS
<1>2. PICK d : d = FoldLeft(AddOrUpdate, c, rs)
  OBVIOUS
<1>3. PICK e : e = RemoveUnwanted(d, W)
  OBVIOUS
<1>4. PICK f : f = ActivateCurrent(e)
  OBVIOUS
<1>5. PICK us, ds, es, vs : /\ us = c.state.resources /\ ds = d.state.resources
                            /\ es = e.state.resources /\ vs = f.state.resources
  OBVIOUS
<1>6. /\ Looped(st, E, c, d)
      /\ Ids(ds) = Ids(us) \cup W
      /\ Latest(rs) \subseteq ToSet(ds)
      /\ d = c => ToSet(rs) \subseteq ToSet(us)
      /\ ToSet(rs) \subseteq ToSet(us) => d = c
  <2>1. LET z == FoldLeft(AddOrUpdate, c, rs)
        IN  /\ Looped(st, E, c, z)
            /\ Ids(z.state.resources) = Ids(c.state.resources) \cup Ids(rs)
            /\ Latest(rs) \subseteq ToSet(z.state.resources)
            /\ z = c => ToSet(rs) \subseteq ToSet(c.state.resources)
            /\ ToSet(rs) \subseteq ToSet(c.state.resources) => z = c
    BY AddAll, Zenon
  <2>2. QED
    BY <1>1, <1>2, <1>5, <2>1, Zenon
<1>7. Going(st, E, d)
  BY <1>6, LoopedFacts
<1>8. /\ Looped(st, E, d, e)
      /\ ToSet(es) \subseteq ToSet(ds)
      /\ \A q \in ToSet(ds) : q.id \in W => q \in ToSet(es)
      /\ 2 * Cardinality(Ids(es) \ W) <= Cardinality(Ids(ds) \ W)
      /\ e = d => Ids(ds) \subseteq W
      /\ Ids(ds) \subseteq W => e = d
  BY <1>3, <1>5, <1>7, DoRemoveUnwanted
<1>9. Looped(st, E, c, e) /\ (e = c => d = c) /\ Going(st, E, e) /\ e.state.name = c.state.name
  BY <1>6, <1>8, LoopedTrans, LoopedFacts
<1>10. /\ Activated(st, E, e, f)
       /\ Taken(Reached(st, f)) /\ f.state.active = {f.state.name}
       /\ e.state.active = {e.state.name} => f = e
  BY <1>4, <1>9, DoActivate
<1>11. Going(st, E, f)
  BY <1>10 DEF Activated
<1>12. /\ Len(c.events) \in Nat /\ Len(e.events) \in Nat /\ Len(f.events) \in Nat
       /\ DOMAIN c.state = AggFields /\ DOMAIN e.state = AggFields
       /\ c.state.name \in Nat /\ e.state.name \in Nat /\ f.state.name \in Nat
       /\ c.state = Reached(st, c).agg /\ e.state = Reached(st, e).agg
       /\ f.state = Reached(st, f).agg
  BY <1>9, <1>11, GoingFacts
<1>13. Grew(c, f) /\ (f = c => e = c)
  BY <1>9, <1>10, <1>12, GrewTrans DEF Looped, Activated
<1>14. Later(Reached(st, c), Reached(st, f))
  BY <1>9, <1>10, <1>12, LaterTrans DEF Looped, Activated
<1>15. SameBut(c.state, f.state, {"resources", "active"})
  BY <1>9, <1>10 DEF Looped, Activated, SameBut
<1>16. vs = es
  BY <1>5, <1>10, <1>12 DEF Activated, SameBut, AggFields
<1>17. c.state.active = e.state.active
  BY <1>9, <1>12 DEF Looped, SameBut, AggFields
<1>18. 2 * Cardinality(Ids(vs) \ W) <= Cardinality(Ids(us) \ W)
  <2>1. Ids(ds) \ W = Ids(us) \ W
    BY <1>6
  <2>2. QED
    BY <1>8, <1>16, <2>1
<1>19. Latest(rs) \subseteq ToSet(vs)
  <2>1. ASSUME NEW r \in Latest(rs) PROVE r \in ToSet(vs)
    <3>1. r \in ToSet(ds) /\ r.id \in W
      BY <1>1, <1>6, <2>1 DEF Latest, Ids
    <3>2. QED
      BY <1>8, <1>16, <3>1
  <2>2. QED
    BY <2>1
<1>20. f = c => ToSet(rs) \subseteq ToSet(us) /\ Ids(us) \subseteq W
  <2>1. ASSUME f = c PROVE ToSet(rs) \subseteq ToSet(us) /\ Ids(us) \subseteq W
    <3>1. e = c /\ d = c
      BY <1>9, <1>13, <2>1
    <3>2. Ids(ds) \subseteq W
      BY <1>8, <3>1
    <3>3. QED
      BY <1>6, <3>1, <3>2
  <2>2. QED
    BY <2>1
<1>21. /\ c.state.active = {c.state.name}
       /\ ToSet(rs) \subseteq ToSet(us) /\ Ids(us) \subseteq W
       => f = c
  <2>1. ASSUME c.state.active = {c.state.name}, ToSet(rs) \subseteq ToSet(us),
               Ids(us) \subseteq W
        PROVE  f = c
    <3>1. d = c
      BY <1>6, <2>1
    <3>2. Ids(ds) \subseteq W
      BY <1>6, <2>1
    <3>3. e = d
      BY <1>8, <3>2
    <3>4. e.state.active = {e.state.name}
      BY <2>1, <3>1, <3>3
    <3>5. QED
      BY <1>10, <3>1, <3>3, <3>4
  <2>2. QED
    BY <2>1
<1>22. Finished(st, E, rs, c, f)
  BY <1>1, <1>5, <1>10, <1>11, <1>13, <1>14, <1>15, <1>18, <1>19, <1>20, <1>21 DEF Finished
<1>23. QED
  BY <1>1, <1>2, <1>3, <1>4, <1>22

\* What a pass makes of the stream, up to what it found there.
Passed(st, E, label, o, rs, a) ==
    LET x  == Reached(st, a)
        us == st.agg.resources
        vs == x.agg.resources
        W  == Ids(rs)
    IN  /\ a.state = x.agg /\ IsList(a.events)
        /\ Rests(x, E \cup Added(a.events)) /\ Later(st, x)
        /\ x.agg.label = label /\ x.agg.failed = o.failed /\ x.agg.sum = Sum(rs)
        /\ x.agg.created = st.agg.created /\ x.agg.deleted = st.agg.deleted
        /\ st.agg.sum = Sum(rs) => x.agg.name = st.agg.name
        /\ st.agg.sum # Sum(rs) /\ ~Useless(o) =>
             /\ x.agg.name = st.agg.name + 1
             /\ x.sets.sets[x.agg.name].label = label
        /\ ~Useless(o) =>
             /\ x.agg.active = {x.agg.name}
             /\ 2 * Cardinality(Ids(vs) \ W) <= Cardinality(Ids(us) \ W)
             /\ Latest(rs) \subseteq ToSet(vs)
        /\ a.events = << >> /\ ~Useless(o) =>
             ToSet(rs) \subseteq ToSet(us) /\ Ids(us) \subseteq W
        /\ /\ st.agg.label = label /\ st.agg.failed = o.failed /\ st.agg.sum = Sum(rs)
           /\ ~Useless(o) => /\ st.agg.active = {st.agg.name}
                             /\ ToSet(rs) \subseteq ToSet(us) /\ Ids(us) \subseteq W
           => a.events = << >>
LEMMA ReachedForm ==
  ASSUME NEW st, NEW a, NEW x, x = Reached(st, a)
  PROVE  x = [agg |-> x.agg, sets |-> x.sets, orphans |-> x.orphans, requeue |-> x.requeue]
BY DEF Reached, Replay

LEMMA SilentSession ==
  ASSUME NEW st, NEW a, Grew(Load(st), a), Len(a.events) \in Nat
  PROVE  a.events = << >> => a = Load(st)
<1>1. Load(st).events = << >> /\ Len(<< >>) = 0
  BY EmptyList DEF Load
<1>2. QED
  BY <1>1 DEF Grew

LEMMA UselessPass ==
  ASSUME NEW st, NEW E, Rests(st, E), NEW label, NEW o, Useless(o), NEW rs, NEW b,
         Begun(st, E, label, o, rs, b)
  PROVE  Passed(st, E, label, o, rs, b)
<1>1. PICK x : x = Reached(st, b)
  OBVIOUS
<1>2. /\ DOMAIN b.state = AggFields /\ b.state = x.agg /\ st.agg.name \in Nat
      /\ Load(st).events = << >> /\ IsList(b.events)
  BY <1>1, GoingAtFirst, GoingFacts DEF Begun
<1>3. /\ x.agg.name = st.agg.name /\ x.agg.version = st.agg.version
      /\ x.agg.created = st.agg.created /\ x.agg.deleted = st.agg.deleted
  BY <1>2 DEF Begun, SameBut, AggFields
<1>4. Sound(x, E \cup Added(b.events)) /\ Later(st, x) /\ Taken(x)
  BY <1>1 DEF Begun, Going
<1>5. Rests(x, E \cup Added(b.events))
  BY <1>1, <1>3, <1>4, ReachedForm DEF Rests
<1>6. x.agg.label = label /\ x.agg.failed = o.failed /\ x.agg.sum = Sum(rs)
  BY <1>2 DEF Begun
<1>7. st.agg.label = label /\ st.agg.failed = o.failed /\ st.agg.sum = Sum(rs)
      => b.events = << >>
  BY <1>2 DEF Begun
<1>8. QED
  BY <1>1, <1>2, <1>3, <1>4, <1>5, <1>6, <1>7 DEF Passed

LEMMA UsefulPass ==
  ASSUME NEW st, NEW E, Rests(st, E), NEW label, NEW o, ~Useless(o), NEW rs, NEW b,
         Begun(st, E, label, o, rs, b),
         NEW c, Versioned(st, E, label, rs, b, c),
         NEW f, Finished(st, E, rs, c, f)
  PROVE  Passed(st, E, label, o, rs, f)
<1>1. PICK l, x : l = Load(st) /\ x = Reached(st, f)
  OBVIOUS
<1>2. /\ Going(st, E, l) /\ st.agg.name \in Nat /\ l.state = st.agg /\ l.events = << >>
  BY <1>1, GoingAtFirst
<1>3. Going(st, E, b) /\ Going(st, E, c) /\ Going(st, E, f)
  BY DEF Begun, Versioned, Finished
<1>4. /\ Len(l.events) \in Nat /\ Len(b.events) \in Nat
      /\ Len(c.events) \in Nat /\ Len(f.events) \in Nat
      /\ DOMAIN l.state = AggFields /\ DOMAIN b.state = AggFields
      /\ DOMAIN c.state = AggFields /\ DOMAIN f.state = AggFields
      /\ c.state = Reached(st, c).agg /\ f.state = x.agg
      /\ c.state.name \in Nat /\ f.state.name \in Nat /\ IsList(f.events)
  BY <1>1, <1>2, <1>3, GoingFacts
<1>5. Grew(l, b) /\ Grew(b, c) /\ Grew(c, f)
  BY <1>1 DEF Begun, Versioned, Finished
<1>6. Grew(l, f) /\ (f = l => c = l /\ b = l)
  BY <1>4, <1>5, GrewTrans
<1>7. f.events = << >> => f = l
  BY <1>1, <1>4, <1>6, SilentSession
<1>8. /\ c.state.created = st.agg.created /\ c.state.deleted = st.agg.deleted
      /\ c.state.label = label /\ c.state.failed = o.failed /\ c.state.sum = Sum(rs)
      /\ c.state.resources = st.agg.resources /\ c.state.active = st.agg.active
      /\ c.state.version = c.state.name
  BY <1>2, <1>4 DEF Begun, Versioned, SameBut, AggFields
<1>9. /\ x.agg.created = st.agg.created /\ x.agg.deleted = st.agg.deleted
      /\ x.agg.label = label /\ x.agg.failed = o.failed /\ x.agg.sum = Sum(rs)
      /\ x.agg.name = c.state.name /\ x.agg.version = x.agg.name
  BY <1>4, <1>8 DEF Finished, SameBut, AggFields
<1>10. Sound(x, E \cup Added(f.events)) /\ Later(st, x) /\ Taken(x)
  BY <1>1, <1>3 DEF Going, Finished
<1>11. Rests(x, E \cup Added(f.events))
  BY <1>1, <1>9, <1>10, ReachedForm DEF Rests
<1>12. st.agg.sum = Sum(rs) => c = b /\ c.state.name = st.agg.name
  BY DEF Versioned
<1>13. st.agg.sum # Sum(rs) => /\ x.agg.name = st.agg.name + 1
                               /\ x.sets.sets[x.agg.name].label = label
  <2>1. ASSUME st.agg.sum # Sum(rs)
        PROVE  /\ x.agg.name = st.agg.name + 1
               /\ x.sets.sets[x.agg.name].label = label
    <3>1. /\ c.state.name = st.agg.name + 1
          /\ Reached(st, c).sets.sets[c.state.name].label = label
      BY <2>1 DEF Versioned
    <3>2. Later(Reached(st, c), x)
      BY <1>1 DEF Finished
    <3>3. c.state.name \in 1..Reached(st, c).agg.name
      BY <1>2, <1>4, <3>1
    <3>4. QED
      BY <1>9, <3>1, <3>2, <3>3 DEF Later
  <2>2. QED
    BY <2>1
<1>14. PICK us, vs, W : us = st.agg.resources /\ vs = x.agg.resources /\ W = Ids(rs)
  OBVIOUS
<1>15. /\ x.agg.active = {x.agg.name}
       /\ 2 * Cardinality(Ids(vs) \ W) <= Cardinality(Ids(us) \ W)
       /\ Latest(rs) \subseteq ToSet(vs)
       /\ f = c => ToSet(rs) \subseteq ToSet(us) /\ Ids(us) \subseteq W
       /\ /\ c.state.active = {c.state.name}
          /\ ToSet(rs) \subseteq ToSet(us) /\ Ids(us) \subseteq W
          => f = c
  BY <1>4, <1>8, <1>14 DEF Finished
<1>16. f.events = << >> => ToSet(rs) \subseteq ToSet(us) /\ Ids(us) \subseteq W
  BY <1>6, <1>7, <1>15
<1>17. /\ st.agg.label = label /\ st.agg.failed = o.failed /\ st.agg.sum = Sum(rs)
       /\ st.agg.active = {st.agg.name}
       /\ ToSet(rs) \subseteq ToSet(us) /\ Ids(us) \subseteq W
       => f.events = << >>
  <2>1. ASSUME st.agg.label = label, st.agg.failed = o.failed, st.agg.sum = Sum(rs),
               st.agg.active = {st.agg.name},
               ToSet(rs) \subseteq ToSet(us), Ids(us) \subseteq W
        PROVE  f.events = << >>
    <3>1. b = l
      BY <1>1, <2>1 DEF Begun
    <3>2. c = b /\ c.state.name = st.agg.name
      BY <1>12, <2>1
    <3>3. f = c
      BY <1>8, <1>15, <2>1, <3>2
    <3>4. QED
      BY <1>2, <3>1, <3>2, <3>3
  <2>2. QED
    BY <2>1
<1>18. QED
  BY <1>1, <1>4, <1>9, <1>10, <1>11, <1>12, <1>13, <1>14, <1>15, <1>16, <1>17 DEF Passed

\* A set carries the labels of what the aggregate has summed up.
Summed(x) ==
    x.agg.sum # NoSum /\ x.agg.sum.of # << >> =>
        /\ x.agg.name # 0
        /\ x.sets.sets[x.agg.name].label = x.agg.sum.of[1].sum[2]

LEMMA SumFacts ==
  ASSUME NEW rs
  PROVE  Sum(rs) # NoSum /\ Sum(rs).of = rs
<1>1. DOMAIN Sum(rs) = {"of"} /\ DOMAIN NoSum = {"none"}
  BY DEF Sum, NoSum
<1>2. QED
  BY <1>1 DEF Sum

LEMMA GeneratedList ==
  ASSUME NEW o, IsList(o.resources), NEW label
  PROVE  LET rs == Generated(o, label)
         IN  /\ IsList(rs) /\ Orders(rs) /\ Len(rs) = Len(o.resources)
             /\ \A i \in DOMAIN rs : rs[i].order = i /\ rs[i].sum[2] = label
<1>1. PICK n \in Nat : n = Len(o.resources) /\ DOMAIN o.resources = 1..n
  BY ListFacts
<1>2. PICK rs : rs = Generated(o, label)
  OBVIOUS
<1>3. rs = [i \in 1..n |-> [id |-> o.resources[i].id, order |-> i,
                            sum |-> <<o.resources[i].body, label>>]]
  BY <1>1, <1>2 DEF Generated
<1>4. rs = [i \in 1..n |-> rs[i]]
  BY <1>3
<1>5. IsList(rs) /\ Len(rs) = n
  BY <1>4, IsListBy
<1>6. \A i \in DOMAIN rs : rs[i].order = i /\ rs[i].sum[2] = label
  BY <1>3
<1>7. Orders(rs)
  BY <1>3, <1>6 DEF Orders, ToSet
<1>8. QED
  BY <1>1, <1>2, <1>5, <1>6, <1>7

LEMMA DoPass ==
  ASSUME NEW st, NEW E, Rests(st, E), Summed(st),
         NEW label, NEW o, o.failed \in BOOLEAN, IsList(o.resources)
  PROVE  Passed(st, E, label, o, Generated(o, label),
                GenerateResources(SetBlueprint(Load(st), label), o))
<1>1. PICK a : a = SetBlueprint(Load(st), label)
  OBVIOUS
<1>2. PICK rs : rs = Generated(o, label)
  OBVIOUS
<1>3. PICK b : b = RecordOutcome(a, o, rs)
  OBVIOUS
<1>4. PICK c : c = IF st.agg.sum # Sum(rs) THEN NewVersion(b) ELSE b
  OBVIOUS
<1>5. PICK f : f = ActivateCurrent(RemoveUnwanted(FoldLeft(AddOrUpdate, c, rs), Ids(rs)))
  OBVIOUS
<1>6. a.state.label = label /\ a.state.sum = st.agg.sum /\ Begun(st, E, label, o, rs, b)
  BY <1>1, <1>3, PassBegins
<1>7. GenerateResources(a, o) = IF Useless(o) THEN b ELSE f
  BY <1>2, <1>3, <1>4, <1>5, <1>6 DEF GenerateResources
<1>8. CASE Useless(o)
  <2>1. Passed(st, E, label, o, rs, b)
    BY <1>6, <1>8, UselessPass
  <2>2. QED
    BY <1>1, <1>2, <1>7, <1>8, <2>1
<1>9. CASE ~Useless(o)
  <2>1. Versioned(st, E, label, rs, b, c)
    BY <1>4, <1>6, PassVersions
  <2>2. IsList(rs) /\ Orders(rs)
    BY <1>2, GeneratedList
  <2>3. Going(st, E, c) /\ st.agg.name \in Nat
    BY <2>1, GoingAtFirst DEF Versioned
  <2>4. c.state.name # 0 \/ rs = << >>
    <3>1. CASE st.agg.sum = Sum(rs)
      BY <2>1, <3>1, SumFacts DEF Versioned, Summed
    <3>2. CASE st.agg.sum # Sum(rs)
      BY <2>1, <2>3, <3>2 DEF Versioned
    <3>3. QED
      BY <3>1, <3>2
  <2>5. Finished(st, E, rs, c, f)
    BY <1>5, <2>2, <2>3, <2>4, PassEnds
  <2>6. Passed(st, E, label, o, rs, f)
    BY <1>6, <1>9, <2>1, <2>5, UsefulPass
  <2>7. QED
    BY <1>1, <1>2, <1>7, <1>9, <2>6
<1>10. QED
  BY <1>8, <1>9

LEMMA SummedAfter ==
  ASSUME NEW st, NEW E, Rests(st, E), Summed(st), NEW label, NEW o, IsList(o.resources),
         Useless(o) => o.resources = << >>,
         NEW a, Passed(st, E, label, o, Generated(o, label), a)
  PROVE  Summed(Reached(st, a))
<1>1. PICK x, rs : x = Reached(st, a) /\ rs = Generated(o, label)
  OBVIOUS
<1>2. x.agg.sum = Sum(rs)
  BY <1>1 DEF Passed
<1>3. x.agg.sum.of = rs
  BY <1>2, SumFacts
<1> SUFFICES ASSUME rs # << >>
             PROVE  x.agg.name # 0 /\ x.sets.sets[x.agg.name].label = rs[1].sum[2]
  BY <1>1, <1>3 DEF Summed
<1>4. /\ IsList(rs) /\ Len(rs) = Len(o.resources)
      /\ \A i \in DOMAIN rs : rs[i].sum[2] = label
  BY <1>1, GeneratedList
<1>5. Len(rs) # 0 /\ 1 \in DOMAIN rs /\ Len(rs) \in Nat
  <2>1. Len(rs) \in Nat /\ DOMAIN rs = 1..Len(rs) /\ rs \in Seq(ToSet(rs))
    BY <1>4, ListFacts DEF IsList
  <2>2. QED
    BY <1>3, <2>1
<1>6. rs[1].sum[2] = label /\ ~Useless(o)
  <2>1. Len(<< >>) = 0
    BY EmptyList
  <2>2. QED
    BY <1>4, <1>5, <2>1
<1>7. st.agg.name \in Nat
  BY DEF Rests, Sound, Numbered
<1>8. CASE st.agg.sum = Sum(rs)
  <2>1. st.agg.name # 0 /\ st.sets.sets[st.agg.name].label = label
    BY <1>6, <1>8, SumFacts DEF Summed
  <2>2. x.agg.name = st.agg.name /\ Later(st, x)
    BY <1>1, <1>8 DEF Passed
  <2>3. QED
    BY <1>3, <1>6, <1>7, <2>1, <2>2 DEF Later
<1>9. CASE st.agg.sum # Sum(rs)
  BY <1>1, <1>3, <1>6, <1>7, <1>9 DEF Passed
<1>10. QED
  BY <1>8, <1>9

-----------------------------------------------------------------------------
(* What the generator returns. *)

LEMMA JoinLists ==
  ASSUME NEW a, IsList(a), NEW b, IsList(b)
  PROVE  IsList(a \o b)
<1>1. PICK S : S = ToSet(a) \cup ToSet(b)
  OBVIOUS
<1>2. a \in Seq(S) /\ b \in Seq(S)
  BY <1>1 DEF IsList
<1>3. a \o b \in Seq(S)
  BY <1>2, JoinList
<1>4. QED
  BY <1>3, SeqIsList

LEMMA FlattenList ==
  ASSUME NEW seqs, IsList(seqs), \A i \in DOMAIN seqs : IsList(seqs[i])
  PROVE  IsList(FlattenSeq(seqs)) /\ (seqs = << >> => FlattenSeq(seqs) = << >>)
<1> DEFINE n == Len(seqs)
           IsOwn(h) == h = [i \in 1..n |-> IF i = 1 THEN seqs[i] ELSE h[i - 1] \o seqs[i]]
           own == CHOOSE h : IsOwn(h)
<1>1. n \in Nat /\ DOMAIN seqs = 1..n
  BY ListFacts
<1>2. CASE n = 0
  <2>1. FlattenSeq(seqs) = seqs
    BY <1>2 DEF FlattenSeq
  <2>2. QED
    BY <2>1
<1>3. CASE n # 0
  <2>1. FlattenSeq(seqs) = own[n]
    BY <1>3 DEF FlattenSeq
  <2>2. PICK h : IsIter([by |-> "join"], << >>, seqs, n, h)
    BY <1>1, IterExists
  <2>3. PICK f : IsRun([by |-> "join"], << >>, seqs, n, f)
    BY <1>1, <2>2, IterRuns
  <2>4. f[0] = << >> /\ \A i \in 0..(n - 1) : f[i + 1] = f[i] \o seqs[i + 1]
    <3>1. \A x, y : Step([by |-> "join"], x, y) = x \o y
      BY DEF Step
    <3>2. QED
      BY <2>3, <3>1 DEF IsRun
  <2>5. IsOwn([i \in 1..n |-> f[i]])
    <3>1. PICK g : g = [i \in 1..n |-> f[i]]
      OBVIOUS
    <3>2. ASSUME NEW i \in 1..n
          PROVE  f[i] = IF i = 1 THEN seqs[i] ELSE g[i - 1] \o seqs[i]
      <4>1. CASE i = 1
        <5>1. f[1] = << >> \o seqs[1]
          <6>1. 0 \in 0..(n - 1) /\ 0 + 1 = 1
            BY <1>1, <1>3
          <6>2. QED
            BY <2>4, <6>1
        <5>2. seqs[1] \in Seq(ToSet(seqs[1]))
          BY <1>1, <4>1 DEF IsList
        <5>3. << >> \o seqs[1] = seqs[1]
          BY <5>2
        <5>4. QED
          BY <4>1, <5>1, <5>3
      <4>2. CASE i # 1
        <5>1. i - 1 \in 0..(n - 1) /\ (i - 1) + 1 = i /\ i - 1 \in 1..n
          BY <1>1, <4>2
        <5>2. f[(i - 1) + 1] = f[i - 1] \o seqs[(i - 1) + 1]
          BY <2>4, <5>1
        <5>3. g[i - 1] = f[i - 1]
          BY <3>1, <5>1
        <5>4. QED
          BY <4>2, <5>1, <5>2, <5>3
      <4>3. QED
        BY <4>1, <4>2
    <3>3. QED
      BY <3>1, <3>2
  <2>6. IsOwn(own)
    BY <2>5
  <2> HIDE DEF own
  <2>7. \A i \in 1..n : own[i] = IF i = 1 THEN seqs[i] ELSE own[i - 1] \o seqs[i]
    BY <2>6
  <2> DEFINE S == {i \in Nat : i + 1 <= n => IsList(own[i + 1])}
  <2>8. 0 \in S
    BY <1>1, <1>3, <2>7
  <2>9. ASSUME NEW i \in Nat, i \in S PROVE i + 1 \in S
    <3> SUFFICES ASSUME (i + 1) + 1 <= n PROVE IsList(own[(i + 1) + 1])
      OBVIOUS
    <3>1. i + 1 <= n /\ IsList(own[i + 1])
      BY <1>1, <2>9
    <3>2. (i + 1) + 1 \in 1..n /\ (i + 1) + 1 # 1 /\ ((i + 1) + 1) - 1 = i + 1
      BY <1>1
    <3>3. own[(i + 1) + 1] = own[i + 1] \o seqs[(i + 1) + 1]
      BY <2>7, <3>2
    <3>4. IsList(seqs[(i + 1) + 1])
      BY <1>1, <3>2
    <3>5. QED
      BY <3>1, <3>3, <3>4, JoinLists
  <2> HIDE DEF S
  <2>10. n - 1 \in Nat /\ n - 1 \in S
    BY <1>1, <1>3, <2>8, <2>9, Induction
  <2>11. IsList(own[n])
    <3>1. (n - 1) + 1 <= n /\ (n - 1) + 1 = n
      BY <1>1
    <3>2. QED
      BY <2>10, <3>1 DEF S
  <2>12. seqs # << >>
    BY <1>3, EmptyList
  <2>13. QED
    BY <2>1, <2>11, <2>12
<1>4. QED
  BY <1>2, <1>3

\* The groups that have come out.
Groups(gs) == IsList(gs) /\ \A i \in DOMAIN gs : IsList(gs[i].resources)

\* The documents of a template are lists.
Documents(templates) ==
    \A t \in DOMAIN templates : IsList(templates[t].raw) /\ IsList(templates[t].resources)

LEMMA GroupList ==
  ASSUME NEW g, NEW groups, NEW env, Documents(env.templates), FromGroup(g, groups, env).ok
  PROVE  IsList(FromGroup(g, groups, env).value)
<1> DEFINE t == env.templates[g.template]
           docs == t.raw \o t.resources
           params == [i \in DOMAIN t.parameters |->
                         Parameter(t.parameters[i], g.parameters, groups, env)]
           Index(name) == SelectInSeq(t.parameters, LAMBDA p : p.name = name)
           Known(doc)  == \A f \in DOMAIN doc.text : Index(doc.text[f]) # 0
           Made(i) == [id   |-> Id(docs[i], t.rules, env),
                       body |-> [f \in DOMAIN docs[i].text |->
                                     params[Index(docs[i].text[f])].value]]
<1>1. FromGroup(g, groups, env) =
        IF g.template \notin DOMAIN env.templates THEN Fail
        ELSE IF \/ \E i \in DOMAIN params : ~params[i].ok
                \/ \E i \in DOMAIN docs : ~Known(docs[i])
        THEN Fail ELSE Ok([i \in DOMAIN docs |-> Made(i)])
  BY Zenon DEF FromGroup, SelectInSeq
<1>2. Fail.ok = FALSE /\ \A v : Ok(v).value = v
  BY DEF Fail, Ok
<1> HIDE DEF params, Known, Made, docs
<1>3. /\ g.template \in DOMAIN env.templates
      /\ FromGroup(g, groups, env).value = [i \in DOMAIN docs |-> Made(i)]
  BY <1>1, <1>2
<1>4. IsList(docs)
  BY <1>3, JoinLists DEF Documents, docs
<1>5. PICK n \in Nat : DOMAIN docs = 1..n
  BY <1>4, ListFacts
<1>6. PICK v : v = FromGroup(g, groups, env).value
  OBVIOUS
<1>7. v = [i \in 1..n |-> v[i]]
  BY <1>3, <1>5, <1>6
<1>8. QED
  BY <1>6, <1>7, IsListBy

LEMMA GeneratedOutcome ==
  ASSUME NEW blueprint, IsList(blueprint.groups), NEW env, Documents(env.templates)
  PROVE  LET o == Generate(blueprint, env)
         IN  /\ o.failed \in BOOLEAN /\ IsList(o.resources)
             /\ Useless(o) => o.resources = << >>
<1>1. PICK n \in Nat : n = Len(blueprint.groups) /\ DOMAIN blueprint.groups = 1..n
  BY ListFacts
<1>2. PICK s, k, q : s = [failed |-> FALSE, groups |-> << >>] /\ k = [by |-> "group", env |-> env]
                     /\ q = blueprint.groups
  OBVIOUS
<1>3. PICK o : o = Generate(blueprint, env)
  OBVIOUS
<1>4. PICK f : IsRun(k, s, q, n, f) /\ o = Ended(f[n])
  BY <1>1, <1>2, <1>3, GroupRun
<1> DEFINE Good(run) == /\ DOMAIN run = {"failed", "groups"} /\ run.failed \in BOOLEAN
                        /\ Groups(run.groups)
           S == {i \in Nat : i <= n => Good(f[i])}
<1>5. 0 \in S
  <2>1. f[0] = s
    BY <1>4 DEF IsRun
  <2>2. Groups(<< >>)
    BY EmptyList DEF Groups
  <2>3. DOMAIN s = {"failed", "groups"} /\ s.failed = FALSE /\ s.groups = << >>
    BY <1>2
  <2>4. DOMAIN f[0] = {"failed", "groups"} /\ f[0].failed \in BOOLEAN /\ f[0].groups = << >>
    BY <2>1, <2>3
  <2>5. Groups(f[0].groups)
    BY <2>2, <2>4
  <2>6. QED
    BY <2>4, <2>5
<1>6. ASSUME NEW i \in Nat, i \in S PROVE i + 1 \in S
  <2> SUFFICES ASSUME i + 1 <= n PROVE Good(f[i + 1])
    OBVIOUS
  <2>1. PICK run, g, made : run = f[i] /\ g = q[i + 1] /\ made = FromGroup(g, run.groups, env)
    OBVIOUS
  <2>2. Good(run) /\ i \in 0..(n - 1)
    BY <1>6, <2>1
  <2>3. f[i + 1] = AddGroup(run, g, env)
    BY <1>2, <1>4, <2>1, <2>2 DEF IsRun, Step
  <2>4. CASE made.ok
    <3>1. PICK new : new = [name |-> g.name, resources |-> made.value]
      OBVIOUS
    <3>2. f[i + 1] = [run EXCEPT !.groups = Append(@, new)]
      BY <2>1, <2>3, <2>4, <3>1 DEF AddGroup
    <3>3. IsList(new.resources)
      BY <2>1, <2>4, <3>1, GroupList
    <3>4. PICK gs : gs = run.groups
      OBVIOUS
    <3>5. Groups(Append(gs, new))
      <4>1. IsList(gs) /\ \A j \in DOMAIN gs : IsList(gs[j].resources)
        BY <2>2, <3>4 DEF Groups
      <4>2. PICK m \in Nat : m = Len(gs) /\ DOMAIN gs = 1..m
        BY <4>1, ListFacts
      <4>3. /\ IsList(Append(gs, new)) /\ Len(Append(gs, new)) = m + 1
            /\ \A j \in 1..m : Append(gs, new)[j] = gs[j]
            /\ Append(gs, new)[m + 1] = new
        BY <4>1, <4>2, AppendList
      <4>4. DOMAIN Append(gs, new) = 1..(m + 1)
        BY <4>3, ListFacts
      <4>5. ASSUME NEW j \in 1..(m + 1) PROVE IsList(Append(gs, new)[j].resources)
        <5>1. CASE j = m + 1
          BY <3>3, <4>3, <5>1
        <5>2. CASE j # m + 1
          <6>1. j \in 1..m
            BY <4>2, <5>2
          <6>2. QED
            BY <4>1, <4>2, <4>3, <6>1
        <5>3. QED
          BY <5>1, <5>2
      <4>6. QED
        BY <4>3, <4>4, <4>5 DEF Groups
    <3>6. QED
      BY <2>2, <3>2, <3>4, <3>5
  <2>5. CASE ~made.ok
    <3>1. f[i + 1] = [run EXCEPT !.failed = TRUE]
      BY <2>1, <2>3, <2>5 DEF AddGroup
    <3>2. QED
      BY <2>2, <3>1
  <2>6. QED
    BY <2>4, <2>5
<1> HIDE DEF S
<1>7. n \in S
  BY <1>1, <1>5, <1>6, Induction
<1>8. Good(f[n])
  BY <1>1, <1>7 DEF S
<1>9. PICK gs, rss : gs = f[n].groups /\ rss = [i \in DOMAIN gs |-> gs[i].resources]
  OBVIOUS
<1>10. Groups(gs)
  BY <1>8, <1>9
<1>11. PICK m \in Nat : m = Len(gs) /\ DOMAIN gs = 1..m
  BY <1>10, ListFacts DEF Groups
<1>12. rss = [i \in 1..m |-> rss[i]] /\ \A i \in 1..m : IsList(rss[i])
  BY <1>9, <1>10, <1>11 DEF Groups
<1>13. IsList(rss) /\ Len(rss) = m /\ DOMAIN rss = 1..m
  BY <1>12, IsListBy, ListFacts
<1>14. IsList(FlattenSeq(rss)) /\ (rss = << >> => FlattenSeq(rss) = << >>)
  BY <1>12, <1>13, FlattenList
<1>15. o.resources = FlattenSeq(rss) /\ o.failed = f[n].failed /\ o.groups = (gs # << >>)
  BY <1>4, <1>9 DEF Ended
<1>16. gs = << >> => rss = << >>
  BY <1>9
<1>17. Useless(o) => o.resources = << >>
  BY <1>14, <1>15, <1>16 DEF Useless
<1>18. QED
  BY <1>3, <1>8, <1>14, <1>15, <1>17

-----------------------------------------------------------------------------
(* The sets are records, whatever happens. *)

IsSet(s) == s = [label |-> s.label, active |-> s.active, resources |-> s.resources]

Formed(p) ==
    /\ p = [current |-> p.current, label |-> p.label, sets |-> p.sets]
    /\ IsList(p.sets)
    /\ \A n \in DOMAIN p.sets : IsSet(p.sets[n])

LEMMA NewSetFormed ==
  ASSUME NEW p, Formed(p)
  PROVE  IsSet(NewResourceSet(p))
<1>1. PICK s : s = SetCopy(p)
  OBVIOUS
<1>2. IsSet(s)
  <2>1. CASE p.current \in DOMAIN p.sets
    BY <1>1, <2>1 DEF SetCopy, Current, Formed
  <2>2. CASE p.current \notin DOMAIN p.sets
    BY <1>1, <2>2 DEF SetCopy, IsSet
  <2>3. QED
    BY <2>1, <2>2
<1>3. PICK l : l = p.label
  OBVIOUS
<1>4. NewResourceSet(p) = [s EXCEPT !.label = l]
  BY <1>1, <1>3 DEF NewResourceSet
<1>5. NewResourceSet(p) = [label |-> l, active |-> s.active, resources |-> s.resources]
  BY <1>2, <1>4 DEF IsSet
<1>6. QED
  BY <1>5 DEF IsSet

LEMMA SetsFormed ==
  ASSUME NEW p, Formed(p), NEW e
  PROVE  Formed(OnSets(p, e))
<1>1. PICK k \in Nat : k = Len(p.sets) /\ DOMAIN p.sets = 1..k
  BY ListFacts DEF Formed
<1>2. PICK ss, c, l : ss = p.sets /\ c = p.current /\ l = p.label
  OBVIOUS
<1>3. /\ p = [current |-> c, label |-> l, sets |-> ss] /\ IsList(ss)
      /\ DOMAIN ss = 1..k /\ \A n \in 1..k : IsSet(ss[n])
  BY <1>1, <1>2 DEF Formed
<1>4. PICK q : q = OnSets(p, e)
  OBVIOUS
<1>5. ASSUME NEW d, NEW t, NEW rs, q = [current |-> d, label |-> t, sets |-> rs],
             IsList(rs), \A n \in DOMAIN rs : IsSet(rs[n])
      PROVE  Formed(q)
  BY <1>5 DEF Formed
<1>6. ASSUME NEW rs, rs = [n \in 1..k |-> rs[n]], q = [p EXCEPT !.sets = rs],
             \A n \in 1..k : IsSet(rs[n])
      PROVE  Formed(q)
  <2>1. IsList(rs) /\ DOMAIN rs = 1..k
    BY <1>6, IsListBy
  <2>2. q = [current |-> c, label |-> l, sets |-> rs]
    BY <1>3, <1>6
  <2>3. QED
    BY <1>5, <1>6, <2>1, <2>2
<1>7. CASE e.type = "LabelsChanged"
  <2>1. q = [p EXCEPT !.label = e.label]
    BY <1>4, <1>7 DEF OnSets, ResourceEvents
  <2>2. q = [current |-> c, label |-> e.label, sets |-> ss]
    BY <1>3, <2>1
  <2>3. QED
    BY <1>3, <1>4, <1>5, <2>2
<1>8. CASE e.type = "ResourceSetCreated"
  <2>1. PICK new, all : new = NewResourceSet(p) /\ all = Append(ss, new)
    OBVIOUS
  <2>9. q = [p EXCEPT !.current = e.name, !.sets = Append(@, NewResourceSet(p))]
    <3>1. e.type # "LabelsChanged"
      BY <1>8
    <3>2. QED
      BY <1>4, <1>8, <3>1 DEF OnSets, ResourceEvents
  <2>2. q = [p EXCEPT !.current = e.name, !.sets = all]
    BY <1>2, <2>1, <2>9
  <2>3. q = [current |-> e.name, label |-> l, sets |-> all]
    BY <1>3, <2>2
  <2>4. IsSet(new)
    BY <2>1, NewSetFormed
  <2>5. /\ IsList(all) /\ Len(all) = k + 1
        /\ \A n \in 1..k : all[n] = ss[n]
        /\ all[k + 1] = new
    BY <1>1, <1>2, <1>3, <2>1, AppendList
  <2>6. DOMAIN all = 1..(k + 1)
    BY <2>5, ListFacts
  <2>7. ASSUME NEW n \in 1..(k + 1) PROVE IsSet(all[n])
    <3>1. CASE n = k + 1
      BY <2>4, <2>5, <3>1
    <3>2. CASE n # k + 1
      <4>1. n \in 1..k
        BY <3>2
      <4>2. QED
        BY <1>3, <2>5, <4>1
    <3>3. QED
      BY <3>1, <3>2
  <2>8. QED
    BY <1>4, <1>5, <2>3, <2>5, <2>6, <2>7
<1>9. CASE e.type \in ResourceEvents /\ c \in DOMAIN ss
  <2>1. PICK rs : rs = [n \in 1..k |->
           IF n \in AffectedSets(p, e)
           THEN [ss[n] EXCEPT !.resources = ByOrder(OnResources(@, e))]
           ELSE ss[n]]
    OBVIOUS
  <2>2. q = [p EXCEPT !.sets = rs]
    BY <1>1, <1>2, <1>4, <1>9, <2>1 DEF OnSets, ResourceEvents
  <2>3. ASSUME NEW n \in 1..k PROVE IsSet(rs[n])
    <3>1. PICK s, r : s = ss[n] /\ r = ByOrder(OnResources(s.resources, e))
      OBVIOUS
    <3>2. rs[n] = IF n \in AffectedSets(p, e) THEN [s EXCEPT !.resources = r] ELSE s
      BY <2>1, <3>1
    <3>3. s = [label |-> s.label, active |-> s.active, resources |-> s.resources]
      BY <1>3, <3>1 DEF IsSet
    <3>4. [s EXCEPT !.resources = r] = [label |-> s.label, active |-> s.active, resources |-> r]
      BY <3>3
    <3>5. IsSet([s EXCEPT !.resources = r])
      BY <3>4 DEF IsSet
    <3>6. QED
      BY <1>3, <3>1, <3>2, <3>5
  <2>4. rs = [n \in 1..k |-> rs[n]]
    BY <2>1
  <2>5. QED
    BY <1>4, <1>6, <2>2, <2>3, <2>4
<1>10. ASSUME NEW b, e.name \in DOMAIN ss, q = [p EXCEPT !.sets[e.name].active = b]
       PROVE  Formed(q)
  <2>1. PICK rs : rs = [ss EXCEPT ![e.name] = [ss[e.name] EXCEPT !.active = b]]
    OBVIOUS
  <2>2. q = [p EXCEPT !.sets = rs]
    BY <1>2, <1>10, <2>1
  <2>3. ss = [n \in 1..k |-> ss[n]]
    <3>1. ss \in Seq(ToSet(ss))
      BY <1>3 DEF IsList
    <3>2. QED
      BY <1>3, <3>1
  <2>4. rs = [n \in 1..k |-> rs[n]] /\ \A n \in 1..k : n # e.name => rs[n] = ss[n]
    BY <2>1, <2>3
  <2>5. ASSUME NEW n \in 1..k PROVE IsSet(rs[n])
    <3>1. CASE n = e.name
      <4>1. PICK s : s = ss[n]
        OBVIOUS
      <4>2. rs[n] = [s EXCEPT !.active = b]
        BY <1>3, <2>1, <2>3, <3>1, <4>1
      <4>3. s = [label |-> s.label, active |-> s.active, resources |-> s.resources]
        BY <1>3, <4>1 DEF IsSet
      <4>4. rs[n] = [label |-> s.label, active |-> b, resources |-> s.resources]
        BY <4>2, <4>3
      <4>5. QED
        BY <4>4 DEF IsSet
    <3>2. CASE n # e.name
      BY <1>3, <2>4, <3>2
    <3>3. QED
      BY <3>1, <3>2
  <2>6. QED
    BY <1>6, <2>2, <2>4, <2>5
<1>11. CASE q = p
  BY <1>4, <1>11
<1>12. \/ q = p
       \/ e.type = "LabelsChanged"
       \/ e.type = "ResourceSetCreated"
       \/ e.type \in ResourceEvents /\ c \in DOMAIN ss
       \/ e.name \in DOMAIN ss /\ q = [p EXCEPT !.sets[e.name].active = TRUE]
       \/ e.name \in DOMAIN ss /\ q = [p EXCEPT !.sets[e.name].active = FALSE]
  BY <1>2, <1>4, Zenon DEF OnSets
<1>13. QED
  BY <1>4, <1>7, <1>8, <1>9, <1>10, <1>11, <1>12

LEMMA FormedReplay ==
  ASSUME NEW st, Formed(st.sets), NEW es, IsList(es)
  PROVE  Formed(Replay(st, es).sets)
<1>1. PICK n \in Nat : n = Len(es) /\ DOMAIN es = 1..n
  BY ListFacts
<1>2. PICK f : IsRun([by |-> "sets"], st.sets, es, n, f) /\ FoldLeft(OnSets, st.sets, es) = f[n]
  BY <1>1, SetsRun
<1>3. Replay(st, es).sets = f[n]
  BY <1>2 DEF Replay
<1> DEFINE S == {i \in Nat : i <= n => Formed(f[i])}
<1>4. 0 \in S
  BY <1>2 DEF IsRun
<1>5. ASSUME NEW i \in Nat, i \in S PROVE i + 1 \in S
  <2> SUFFICES ASSUME i + 1 <= n PROVE Formed(f[i + 1])
    OBVIOUS
  <2>1. i \in 0..(n - 1) /\ Formed(f[i])
    BY <1>5
  <2>2. f[i + 1] = OnSets(f[i], es[i + 1])
    BY <1>2, <2>1 DEF IsRun, Step
  <2>3. QED
    BY <2>1, <2>2, SetsFormed
<1> HIDE DEF S
<1>6. n \in S
  BY <1>4, <1>5, Induction
<1>7. QED
  BY <1>3, <1>6 DEF S

-----------------------------------------------------------------------------
(* The other two sessions. *)

\* Sets and resources are as they were.
Spared(st, E, a, F) ==
    LET x == Reached(st, a)
    IN  /\ Rests(x, E \cup Added(a.events)) /\ Later(st, x)
        /\ x.sets.sets = st.sets.sets
        /\ SameBut(st.agg, x.agg, F)
        /\ IsList(a.events)

LEMMA KeptSession ==
  ASSUME NEW st, NEW E, Rests(st, E), NEW a, Going(st, E, a),
         NEW F, F \subseteq {"created", "label", "deleted"}, SameBut(st.agg, a.state, F),
         Reached(st, a).sets.sets = st.sets.sets
  PROVE  Spared(st, E, a, F)
<1>1. PICK x : x = Reached(st, a)
  OBVIOUS
<1>2. /\ a.state = x.agg /\ IsList(a.events) /\ DOMAIN a.state = AggFields
      /\ DOMAIN st.agg = AggFields
  BY <1>1, GoingFacts DEF Rests, Sound, Shapes
<1>3. /\ x.agg.name = st.agg.name /\ x.agg.version = st.agg.version
      /\ x.agg.active = st.agg.active
  BY <1>2 DEF SameBut, AggFields
<1>4. Taken(x)
  BY <1>1, <1>3, TakenSame DEF Rests
<1>5. Rests(x, E \cup Added(a.events)) /\ Later(st, x)
  BY <1>1, <1>3, <1>4, ReachedForm DEF Going, Rests
<1>6. QED
  BY <1>1, <1>2, <1>5 DEF Spared

LEMMA DoDelete ==
  ASSUME NEW st, NEW E, Rests(st, E)
  PROVE  LET a == Delete(Load(st))
         IN  Spared(st, E, a, {"deleted"}) /\ Reached(st, a).agg.deleted
<1>1. PICK l : l = Load(st)
  OBVIOUS
<1>2. /\ Going(st, E, l) /\ Reached(st, l) = st /\ st.agg.name \in Nat /\ l.state = st.agg
  BY <1>1, GoingAtFirst
<1>3. CASE st.agg.deleted
  <2>1. Delete(l) = l
    BY <1>2, <1>3 DEF Delete, ApplyIf
  <2>2. Spared(st, E, l, {"deleted"})
    BY <1>2, KeptSession, SameButRefl
  <2>3. QED
    BY <1>1, <1>2, <1>3, <2>1, <2>2
<1>4. CASE ~st.agg.deleted
  <2>1. PICK e, b : e = [type |-> "TenantDeleted"] /\ b = Apply(l, e)
    OBVIOUS
  <2>2. Delete(l) = b
    BY <1>2, <1>4, <2>1 DEF Delete, ApplyIf
  <2>3. /\ Going(st, E, b) /\ AggStep(l.state, e, b.state)
        /\ Reached(st, b).sets = Reached(st, l).sets
    BY <1>2, <2>1, ApplyUnread DEF Unread
  <2>4. b.state.deleted = TRUE /\ SameBut(st.agg, b.state, {"deleted"})
    BY <1>2, <2>1, <2>3 DEF AggStep
  <2>5. Reached(st, b).sets.sets = st.sets.sets /\ b.state = Reached(st, b).agg
    BY <1>2, <2>3, GoingFacts
  <2>6. Spared(st, E, b, {"deleted"})
    BY <2>3, <2>4, <2>5, KeptSession
  <2>7. QED
    BY <1>1, <2>2, <2>4, <2>5, <2>6
<1>5. QED
  BY <1>3, <1>4

LEMMA DoCreate ==
  ASSUME NEW st, NEW E, Rests(st, E), NEW label
  PROVE  LET a == SetBlueprint(Create(Load(st)), label)
         IN  /\ Spared(st, E, a, {"created", "label"}) /\ a.events # << >>
             /\ Reached(st, a).agg.created = TRUE /\ Reached(st, a).agg.label = label
<1>1. PICK l, e, b, c : /\ l = Load(st) /\ e = [type |-> "TenantCreated"]
                        /\ b = Apply(l, e) /\ c = SetBlueprint(b, label)
  OBVIOUS
<1>2. /\ Going(st, E, l) /\ Reached(st, l) = st /\ st.agg.name \in Nat /\ l.state = st.agg
      /\ l.events = << >> /\ DOMAIN st.agg = AggFields
  BY <1>1, GoingAtFirst DEF Rests, Sound, Shapes
<1>3. b = Create(l)
  BY <1>1 DEF Create
<1>4. /\ Going(st, E, b) /\ Grew(l, b) /\ b # l /\ AggStep(l.state, e, b.state)
      /\ Reached(st, b).sets = Reached(st, l).sets
  BY <1>1, <1>2, ApplyUnread DEF Unread
<1>5. b.state.created = TRUE /\ SameBut(st.agg, b.state, {"created"})
  BY <1>1, <1>2, <1>4 DEF AggStep
<1>6. /\ Going(st, E, c) /\ Grew(b, c)
      /\ c.state.label = label /\ SameBut(b.state, c.state, {"label"})
      /\ Reached(st, c).sets.sets = Reached(st, b).sets.sets
  BY <1>1, <1>2, <1>4, DoSetBlueprint
<1>7. /\ Len(l.events) \in Nat /\ Len(b.events) \in Nat /\ Len(c.events) \in Nat
      /\ c.state = Reached(st, c).agg
  BY <1>2, <1>4, <1>6, GoingFacts
<1>8. Grew(l, c) /\ (c = l => b = l)
  BY <1>4, <1>6, <1>7, GrewTrans
<1>9. c.events # << >>
  BY <1>1, <1>4, <1>7, <1>8, SilentSession
<1>10. SameBut(st.agg, c.state, {"created", "label"})
  BY <1>5, <1>6 DEF SameBut
<1>11. c.state.created = TRUE
  BY <1>2, <1>5, <1>6 DEF SameBut, AggFields
<1>12. Spared(st, E, c, {"created", "label"})
  BY <1>2, <1>4, <1>6, <1>10, KeptSession
<1>13. QED
  BY <1>1, <1>3, <1>6, <1>7, <1>9, <1>11, <1>12

LEMMA EmptyRests ==
  /\ Rests(EmptyStream, {}) /\ Formed(EmptyStream.sets) /\ Summed(EmptyStream)
  /\ EmptyStream.agg.name = 0 /\ EmptyStream.agg.label = NoLabel
  /\ EmptyStream.agg.sum = NoSum /\ EmptyStream.agg.created = FALSE
  /\ EmptyStream.agg.resources = << >>
<1>1. PICK st : st = EmptyStream
  OBVIOUS
<1>2. st.agg = NewTenant /\ st.sets = NoSets /\ st.orphans = NoOrphans
  BY <1>1 DEF EmptyStream
<1>3. st = [agg |-> st.agg, sets |-> st.sets, orphans |-> st.orphans, requeue |-> st.requeue]
  BY <1>1 DEF EmptyStream
<1>4. DOMAIN << >> = 1..0 /\ IsList(<< >>) /\ Len(<< >>) = 0 /\ ToSet(<< >>) = {}
  BY EmptyList, ListFacts
<1>5. /\ st.agg.name = 0 /\ st.agg.version = 0 /\ st.agg.resources = << >>
      /\ st.agg.active = {} /\ st.agg.label = NoLabel /\ st.agg.sum = NoSum
      /\ st.agg.created = FALSE /\ DOMAIN st.agg = AggFields
  BY <1>2 DEF NewTenant, AggFields
<1>6. /\ st.sets.current = 0 /\ st.sets.label = NoLabel /\ st.sets.sets = << >>
      /\ DOMAIN st.sets = SetsFields
      /\ st.sets = [current |-> st.sets.current, label |-> st.sets.label, sets |-> st.sets.sets]
  BY <1>2 DEF NoSets, SetsFields
<1>7. /\ st.orphans.active = {} /\ st.orphans.deleted = {} /\ DOMAIN st.orphans = OrphanFields
  BY <1>2 DEF NoOrphans, OrphanFields
<1>8. Shapes(st) /\ Formed(st.sets)
  BY <1>4, <1>5, <1>6, <1>7 DEF Shapes, Formed
<1>9. Numbered(st)
  BY <1>4, <1>5, <1>6 DEF Numbered
<1>10. Held(st)
  BY <1>4, <1>5 DEF Held, Distinct, Orders
<1>11. OrphansOf(st, {})
  BY <1>4, <1>5, <1>7 DEF OrphansOf, Ids
<1>12. Taken(st)
  BY <1>5 DEF Taken
<1>13. Rests(st, {})
  BY <1>3, <1>5, <1>8, <1>9, <1>10, <1>11, <1>12 DEF Rests, Sound
<1>14. Summed(st)
  BY <1>5 DEF Summed
<1>15. QED
  BY <1>1, <1>5, <1>8, <1>13, <1>14
=============================================================================
