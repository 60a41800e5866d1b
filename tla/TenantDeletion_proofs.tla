------------------------ MODULE TenantDeletion_proofs ------------------------
(***************************************************************************)
(* Proofs about the end of a tenant, for any number of ResourceSets, any   *)
(* resources and any number of faults.                                     *)
(*                                                                         *)
(* The inductive invariant says what a reading of the stream, however old, *)
(* still tells of what is stored (Stream, Names), how the readings of the  *)
(* sets follow each other (Onward), what a pass has counted (Counts), that *)
(* a sealed reading is a reading of the whole stream (Whole), and what the *)
(* ResourceSet controller may still apply (Applier): every resource that   *)
(* is there is one that the stream has orphaned or that an active set has  *)
(* (Owned), and once the stream goes none is applied any more (Cleared).   *)
(***************************************************************************)
EXTENDS TenantDeletion, Lemmas, SequenceTheorems

-----------------------------------------------------------------------------
(* Sets of numbers, in their order. *)

IsAscending(s, S) ==
    /\ s \in [1..Cardinality(S) -> S]
    /\ \A i, j \in 1..Cardinality(S) : i < j => s[i] < s[j]

\* A bounded set of numbers can be put in order: there is no least bound of
\* one that cannot.
LEMMA CanBeAscending ==
  ASSUME NEW n \in Nat, NEW S \in SUBSET (1..n)
  PROVE  \E s : IsAscending(s, S)
<1> DEFINE Bad == {m \in Nat : \E D \in SUBSET (1..m) : ~ \E s : IsAscending(s, D)}
           R == OpToRel(<, Nat)
<1>1. \A x, y \in Nat : <<y, x>> \in R <=> y < x
  BY DEF OpToRel
<1>2. IsWellFoundedOn(R, Nat)
  BY NatLessThanWellFounded
<1>3. ASSUME Bad # {} PROVE FALSE
  <2>1. Bad \subseteq Nat
    OBVIOUS
  <2> HIDE DEF R, Bad
  <2>2. PICK m \in Bad : \A y \in Bad : ~ (<<y, m>> \in R)
    BY <1>2, <1>3, <2>1, WFMin
  <2>3. m \in Nat /\ \E D \in SUBSET (1..m) : ~ \E s : IsAscending(s, D)
    BY DEF Bad
  <2>4. PICK D \in SUBSET (1..m) : ~ \E s : IsAscending(s, D)
    BY <2>3
  <2>5. IsFiniteSet(D) /\ Cardinality(D) \in Nat
    <3>1. IsFiniteSet(1..m)
      BY <2>3, FS_Interval
    <3>2. QED
      BY <3>1, FS_Subset, FS_CardinalityType
  <2>6. CASE D = {}
    <3>1. PICK s : s = [i \in 1..0 |-> 0]
      OBVIOUS
    <3>2. Cardinality(D) = 0 /\ 1..0 = D
      BY <2>6, FS_EmptySet
    <3>3. IsAscending(s, D)
      BY <3>1, <3>2 DEF IsAscending
    <3>4. QED
      BY <2>4, <3>3
  <2>7. CASE D # {}
    <3>1. m # 0 /\ m - 1 \in Nat
      <4>1. PICK x : x \in D
        BY <2>7
      <4>2. x \in 1..m
        BY <2>4, <4>1
      <4>3. QED
        BY <2>3, <4>2
    <3>2. m - 1 \notin Bad
      <4>1. <<m - 1, m>> \in R
        BY <1>1, <2>3, <3>1
      <4>2. QED
        BY <2>2, <4>1
    <3>3. PICK E : E = D \ {m}
      OBVIOUS
    <3>4. E \in SUBSET (1..(m - 1))
      BY <2>3, <2>4, <3>1, <3>3
    <3>5. PICK s : IsAscending(s, E)
      BY <3>1, <3>2, <3>4 DEF Bad
    <3>6. m \in D
      <4>1. CASE m \notin D
        BY <2>4, <3>3, <3>5, <4>1, D = E
      <4>2. QED
        BY <4>1
    <3>7. PICK N : N = Cardinality(E)
      OBVIOUS
    <3>8. N \in Nat /\ Cardinality(D) = N + 1
      <4>1. IsFiniteSet(E) /\ N = Cardinality(D) - 1
        BY <2>5, <3>3, <3>6, <3>7, FS_RemoveElement
      <4>2. N \in Nat
        BY <3>7, <4>1, FS_CardinalityType
      <4>3. QED
        BY <2>5, <4>1, <4>2
    <3>9. PICK t : t = [i \in 1..(N + 1) |-> IF i = N + 1 THEN m ELSE s[i]]
      OBVIOUS
    <3>10. s \in [1..N -> E] /\ \A i, j \in 1..N : i < j => s[i] < s[j]
      BY <3>5, <3>7 DEF IsAscending
    <3>11. t \in [1..(N + 1) -> D]
      BY <3>3, <3>6, <3>8, <3>9, <3>10
    <3>12. ASSUME NEW i \in 1..(N + 1), NEW j \in 1..(N + 1), i < j PROVE t[i] < t[j]
      <4>1. i \in 1..N /\ t[i] = s[i] /\ s[i] \in 1..(m - 1)
        <5>1. i \in 1..N
          BY <3>8, <3>12
        <5>2. t[i] = s[i] /\ s[i] \in E
          BY <3>8, <3>9, <3>10, <5>1
        <5>3. QED
          BY <3>4, <5>1, <5>2
      <4>2. CASE j = N + 1
        BY <2>3, <3>9, <4>1, <4>2
      <4>3. CASE j \in 1..N
        BY <3>8, <3>9, <3>10, <3>12, <4>1, <4>3
      <4>4. QED
        BY <3>8, <4>2, <4>3
    <3>13. IsAscending(t, D)
      BY <3>8, <3>11, <3>12 DEF IsAscending
    <3>14. QED
      BY <2>4, <3>13
  <2>8. QED
    BY <2>6, <2>7
<1>4. QED
  BY <1>3

\* Ascending and Descending list the members of a set.
LEMMA Listing ==
  ASSUME NEW n \in Nat, NEW S \in SUBSET (1..n)
  PROVE  /\ IsFiniteSet(S) /\ Cardinality(S) \in Nat
         /\ Ascending(S) \in Seq(S) /\ Len(Ascending(S)) = Cardinality(S)
         /\ ToSet(Ascending(S)) = S
         /\ \A i, j \in 1..Cardinality(S) : i < j => Ascending(S)[i] < Ascending(S)[j]
         /\ Descending(S) \in Seq(S) /\ ToSet(Descending(S)) = S
         /\ Ascending(S) \in Seq(Nat) /\ Descending(S) \in Seq(Nat)
<1>1. PICK N : N = Cardinality(S)
  OBVIOUS
<1>2. IsFiniteSet(S) /\ N \in Nat
  <2>1. IsFiniteSet(1..n)
    BY FS_Interval
  <2>2. QED
    BY <1>1, <2>1, FS_Subset, FS_CardinalityType
<1>3. PICK s : s = Ascending(S)
  OBVIOUS
<1>4. /\ s \in [1..N -> S]
      /\ \A i, j \in 1..N : i < j => s[i] < s[j]
  <2>1. s = CHOOSE f \in [1..N -> S] : \A i, j \in 1..N : i < j => f[i] < f[j]
    BY <1>1, <1>3 DEF Ascending
  <2>2. \E f \in [1..N -> S] : \A i, j \in 1..N : i < j => f[i] < f[j]
    BY <1>1, CanBeAscending DEF IsAscending
  <2>3. QED
    BY <2>1, <2>2
<1>5. s \in Seq(S) /\ Len(s) = N /\ DOMAIN s = 1..N
  BY <1>2, <1>4
<1>6. {s[i] : i \in 1..N} = S
  <2>1. \A i, j \in 1..N : s[i] = s[j] => i = j
    <3>1. \A i \in 1..N : s[i] \in 1..n
      BY <1>4
    <3>2. QED
      BY <1>2, <1>4, <3>1
  <2>2. s \in Injection(1..N, S)
    BY <1>4, <2>1 DEF Injection, IsInjective
  <2>3. Cardinality(1..N) = N
    BY <1>2, FS_Interval
  <2>4. s \in Surjection(1..N, S)
    BY <1>1, <1>2, <2>2, <2>3, FS_Injection
  <2>5. QED
    BY <1>4, <2>4 DEF Surjection
<1>7. PICK r : r = Descending(S)
  OBVIOUS
<1>8. r = [i \in 1..N |-> s[(N - i) + 1]]
  BY <1>3, <1>5, <1>7 DEF Descending, Reverse
<1>9. r \in Seq(S) /\ DOMAIN r = 1..N
  BY <1>2, <1>4, <1>8
<1>10. {r[i] : i \in 1..N} = {s[i] : i \in 1..N}
  <2>1. \A i \in 1..N : (N - i) + 1 \in 1..N /\ r[(N - i) + 1] = s[i]
    BY <1>2, <1>8
  <2>2. QED
    BY <1>8, <2>1
<1>11. ToSet(s) = S /\ ToSet(r) = S
  BY <1>5, <1>6, <1>9, <1>10 DEF ToSet
<1>12. s \in Seq(Nat) /\ r \in Seq(Nat)
  <2>1. ASSUME NEW i \in 1..N PROVE s[i] \in Nat /\ r[i] \in Nat
    <3>1. (N - i) + 1 \in 1..N /\ r[i] = s[(N - i) + 1]
      BY <1>2, <1>8
    <3>2. s[i] \in S /\ r[i] \in S
      BY <1>4, <3>1
    <3>3. s[i] \in 1..n /\ r[i] \in 1..n
      BY <3>2
    <3>4. QED
      BY <3>3
  <2>2. QED
    BY <1>5, <1>9, <2>1
<1>13. QED
  BY <1>1, <1>2, <1>3, <1>4, <1>5, <1>7, <1>9, <1>11, <1>12

\* The greatest of them is one of them.
LEMMA Greatest ==
  ASSUME NEW n \in Nat, NEW S \in SUBSET (1..n), S # {}
  PROVE  Max(S) \in S /\ \A x \in S : x <= Max(S)
<1>1. PICK s : s = Ascending(S)
  OBVIOUS
<1>2. PICK N : N = Cardinality(S)
  OBVIOUS
<1>3. /\ N \in Nat /\ s \in Seq(S) /\ Len(s) = N /\ ToSet(s) = S
      /\ \A i, j \in 1..N : i < j => s[i] < s[j]
  BY <1>1, <1>2, Listing
<1>4. \A x \in S : \E i \in 1..N : x = s[i]
  BY <1>3 DEF ToSet
<1>5. N \in 1..N
  <2>1. PICK x : x \in S
    OBVIOUS
  <2>2. PICK i \in 1..N : x = s[i]
    BY <1>4, <2>1
  <2>3. QED
    BY <1>3, <2>2
<1>6. s[N] \in S /\ \A x \in S : x <= s[N]
  <2>1. ASSUME NEW i \in 1..N PROVE s[i] <= s[N]
    <3>1. s[i] \in 1..n /\ s[N] \in 1..n
      <4>1. s[i] \in S /\ s[N] \in S
        BY <1>3, <1>5
      <4>2. QED
        BY <4>1
    <3>2. CASE i = N
      BY <3>1, <3>2
    <3>3. CASE i < N
      BY <1>3, <1>5, <3>1, <3>3
    <3>4. QED
      BY <1>3, <3>2, <3>3
  <2>2. QED
    BY <1>3, <1>4, <1>5, <2>1
<1>7. \E x \in S : \A y \in S : x >= y
  BY <1>6
<1>8. Max(S) \in S /\ \A y \in S : Max(S) >= y
  BY <1>7 DEF Max
<1>9. QED
  BY <1>8

LEMMA HeadAndTail ==
  ASSUME NEW S, NEW q \in Seq(S), q # << >>
  PROVE  /\ Head(q) \in S /\ Tail(q) \in Seq(S) /\ Len(Tail(q)) = Len(q) - 1
         /\ ToSet(q) = {Head(q)} \cup ToSet(Tail(q))
<1>1. PICK t : t = Tail(q)
  OBVIOUS
<1>2. PICK n : n = Len(q)
  OBVIOUS
<1>3. /\ n \in Nat \ {0} /\ DOMAIN q = 1..n /\ t \in Seq(S) /\ Len(t) = n - 1
      /\ DOMAIN t = 1..(n - 1) /\ Head(q) = q[1] /\ q[1] \in S
      /\ \A i \in 1..(n - 1) : t[i] = q[i + 1]
  BY <1>1, <1>2
<1>4. ToSet(q) = {q[i] : i \in 1..n} /\ ToSet(t) = {t[i] : i \in 1..(n - 1)}
  BY <1>3 DEF ToSet
<1>5. \A i \in 1..n : i = 1 \/ (i - 1 \in 1..(n - 1) /\ q[i] = t[i - 1])
  BY <1>3
<1>6. \A i \in 1..(n - 1) : i + 1 \in 1..n
  BY <1>3
<1>7. 1 \in 1..n
  BY <1>3
<1>8. ToSet(q) = {q[1]} \cup ToSet(t)
  BY <1>3, <1>4, <1>5, <1>6, <1>7
<1>9. QED
  BY <1>1, <1>2, <1>3, <1>8

-----------------------------------------------------------------------------
(* The inductive invariant. *)

Bounded == UNION {SUBSET (1..b) : b \in Nat}
Commits == [makes : SUBSET SetNumbers, seals : BOOLEAN]
Streams == UNION {[D -> Commits] : D \in Bounded}
States == [active : BOOLEAN, held : BOOLEAN, deleting : BOOLEAN, terminating : BOOLEAN]
Tables == UNION {[D -> States] : D \in SUBSET SetNumbers}

Types ==
    /\ chunks \in Feeds(Streams) /\ sets \in Feeds(Tables)
    /\ gone \in BOOLEAN /\ taken \in BOOLEAN
    /\ resources \in [DOMAIN Resources -> {"absent", "live", "terminating"}]
    /\ served \cup Passing = DOMAIN Resources
    /\ pass \in [at : {"idle", "orphans", "sets", "chunks", "seal"}, view : Streams,
                 ready : BOOLEAN, todo : Seq(Nat), counted : Nat]
    /\ worker \in [set : Nat, at : {"idle", "apply", "clean"},
                   todo : Seq(DOMAIN Resources), clean : BOOLEAN]
    /\ missed \subseteq {"unborn", "unheld", "uncached", "unseen", "orphaned"}

\* A pass counts each set it has visited once at most.
Counts ==
    pass.counted + (IF pass.at \in {"orphans", "sets"} THEN Len(pass.todo) ELSE 0)
        <= Cardinality(Named(pass.view))

\* The commits that are not the seal.
Makers(table) == {v \in DOMAIN table : ~table[v].seals}

\* The cache may lack the newest commit of the live tenant.
Behind == ~taken /\ ~Sealed(Cached(chunks))

\* The pass deletes the sets and the stream, or is about to.
Deleting == pass.at \in {"sets", "chunks"} \/ (pass.at = "orphans" /\ Sealed(pass.view))

\* No commit but a seal is added any more: what is stored of the others is in
\* every reading of the stream, and a pass that deletes it leaves none.
Stream ==
    /\ \A i \in 1..Len(chunks) :
          Makers(Stored(chunks)) \subseteq Makers(chunks[i]) \/ (i = 1 /\ Behind)
    /\ Deleting =>
          /\ Makers(Stored(chunks)) \subseteq Makers(pass.view)
          /\ Makers(Stored(chunks)) \subseteq Makers(Cached(chunks))
    /\ pass.at = "chunks" => Makers(Stored(chunks)) \subseteq ToSet(pass.todo)
    /\ pass.at # "idle" => DOMAIN pass.view # {}
    /\ gone /\ "unseen" \notin missed => Makers(Stored(chunks)) = {}

\* The stream names all sets.  When a pass has counted as many as it names,
\* no set is left but those it has still to visit.
Names ==
    "uncached" \notin missed =>
        /\ \A i \in 1..Len(chunks) : DOMAIN Stored(sets) \subseteq Named(chunks[i])
        /\ pass.at \in {"orphans", "sets"}
              /\ pass.counted + Len(pass.todo) = Cardinality(Named(pass.view)) =>
                 DOMAIN Stored(sets) \subseteq ToSet(pass.todo)
        /\ pass.at = "chunks" \/ taken \/ gone => DOMAIN Stored(sets) = {}

\* A later reading of the sets: marks are not taken back.
Follows(s, t) ==
    \A n \in DOMAIN s \cap DOMAIN t :
        /\ s[n].deleting => t[n].deleting
        /\ s[n].terminating => t[n].terminating

Onward == \A i, j \in 1..Len(sets) : i <= j => Follows(sets[i], sets[j])

\* A sealed stream names no set more: until a chunk of it is deleted, each
\* sealed reading names the sets that the stored stream names, which are all
\* that any reading of the sets has.
Whole ==
    /\ pass.at \in {"sets", "chunks"} => Sealed(pass.view)
    /\ ~taken =>
          /\ \A i \in 1..Len(chunks) : Sealed(chunks[i]) => Named(chunks[i]) = Named(Stored(chunks))
          /\ pass.at # "idle" /\ Sealed(pass.view) => Named(pass.view) = Named(Stored(chunks))
          /\ \A i \in 1..Len(sets) : DOMAIN sets[i] \subseteq Named(Stored(chunks))
          /\ worker.at = "apply" => worker.set \in Named(Stored(chunks))

\* The worker is at resources of its set.  A finalizer works for a marked
\* set, and has deleted what it no longer has to do.
Marked ==
    /\ worker.at # "idle" =>
          worker.set \in SetNumbers /\ worker.todo \in Seq(Contents[worker.set])
    /\ worker.at = "clean" /\ worker.set \in DOMAIN Stored(sets) =>
          Stored(sets)[worker.set].deleting /\ Stored(sets)[worker.set].terminating
    /\ worker.at = "clean" /\ worker.clean =>
          \A r \in Contents[worker.set] : r \in ToSet(worker.todo) \/ resources[r] = "absent"

\* The sets that a reading has the controller apply, and the set that the
\* stored stream has last.
Live(table) == {n \in Active(table) : ~table[n].deleting}
TopSet == LastNamed(Stored(chunks))
Intact == missed = {} /\ ~taken

\* From the reading on that shows the current set, and when that set has been
\* deleted, a reading has no set applied that is not active.
Readings ==
    Intact =>
        \A i, j \in 1..Len(sets) :
            i <= j /\ (TopSet \cap DOMAIN sets[i] # {} \/ TopSet \cap ActiveSets = {}) =>
                Live(sets[j]) \subseteq ActiveSets

\* What is applied belongs to an active set, or the current set is there,
\* which has it or has orphaned it.
Applies ==
    Intact /\ worker.at = "apply" =>
        worker.set \in ActiveSets \/ TopSet \cap ActiveSets # {}

Owned ==
    Intact =>
        \A r \in DOMAIN Resources :
            \/ resources[r] = "absent"
            \/ r \in Orphans(Stored(chunks)) \cup ResourcesOf(ActiveSets)

Cleared ==
    missed = {} /\ (taken \/ pass.at = "chunks") =>
        /\ \A r \in DOMAIN Resources : resources[r] # "live"
        /\ worker.at # "apply"
        /\ \A i \in 1..Len(sets) : Live(sets[i]) = {}

Applier == Marked /\ Readings /\ Applies /\ Owned /\ Cleared

IInv == Types /\ Counts /\ Stream /\ Names /\ Whole /\ Onward /\ Applier

-----------------------------------------------------------------------------
(* Readings of the stream. *)

LEMMA StreamFacts ==
  ASSUME NEW view \in Streams
  PROVE  /\ view \in [DOMAIN view -> Commits]
         /\ \E b \in Nat : DOMAIN view \in SUBSET (1..b)
         /\ Named(view) \in SUBSET (1..MaxSets)
         /\ Makers(view) \subseteq DOMAIN view
<1>1. PICK D \in Bounded : view \in [D -> Commits]
  BY DEF Streams
<1>2. PICK b \in Nat : D \in SUBSET (1..b)
  BY DEF Bounded
<1>3. DOMAIN view = D
  BY <1>1
<1>4. \A v \in DOMAIN view : view[v].makes \in SUBSET SetNumbers
  BY <1>1, <1>3 DEF Commits
<1>5. Named(view) \in SUBSET (1..MaxSets)
  BY <1>4 DEF Named, AllMade, SetNumbers
<1>6. QED
  BY <1>1, <1>2, <1>3, <1>5 DEF Makers

LEMMA NothingNamed ==
  /\ << >> \in Streams /\ DOMAIN << >> = {} /\ Named(<< >>) = {}
  /\ \A view \in Streams : DOMAIN view = {} => view = << >>
<1>1. DOMAIN << >> = {} /\ << >> \in [{} -> Commits]
  OBVIOUS
<1>2. {} \in Bounded
  <2>1. {} \in SUBSET (1..0)
    OBVIOUS
  <2>2. QED
    BY <2>1 DEF Bounded
<1>3. << >> \in Streams
  BY <1>1, <1>2 DEF Streams
<1>4. Named(<< >>) = {}
  BY <1>1 DEF Named, AllMade
<1>5. ASSUME NEW view \in Streams, DOMAIN view = {} PROVE view = << >>
  <2>1. view \in [{} -> Commits]
    BY <1>5, StreamFacts
  <2>2. QED
    BY <1>1, <2>1
<1>6. QED
  BY <1>1, <1>3, <1>4, <1>5

\* A sealing commit is added, a commit is deleted.
LEMMA AddSeal ==
  ASSUME NEW table \in Streams, NEW b \in Nat, NEW v \in 1..b, v \notin DOMAIN table
  PROVE  LET new == Put(table, v, Seal)
         IN  /\ new \in Streams /\ Makers(new) = Makers(table)
             /\ Named(new) = Named(table)
<1>1. PICK new : new = Put(table, v, Seal)
  OBVIOUS
<1>2. DOMAIN new = DOMAIN table \cup {v} /\ new[v] = Seal
      /\ \A j \in DOMAIN table : new[j] = table[j]
  BY <1>1 DEF Put
<1>3. Seal \in Commits
  BY DEF Seal, Commits
<1>4. table \in [DOMAIN table -> Commits]
  BY StreamFacts
<1>5. PICK c \in Nat : DOMAIN table \in SUBSET (1..c)
  BY StreamFacts
<1>6. DOMAIN new \in Bounded
  <2>1. DOMAIN new \in SUBSET (1..(b + c))
    BY <1>2, <1>5
  <2>2. QED
    BY <2>1 DEF Bounded
<1>7. new \in [DOMAIN new -> Commits]
  BY <1>1, <1>2, <1>3, <1>4 DEF Put
<1>8. new \in Streams
  BY <1>6, <1>7 DEF Streams
<1>9. Makers(new) = Makers(table)
  BY <1>2 DEF Makers, Seal
<1>10. Named(new) = Named(table)
  BY <1>2 DEF Named, AllMade, Seal
<1>11. QED
  BY <1>1, <1>8, <1>9, <1>10

LEMMA TakeCommit ==
  ASSUME NEW table \in Streams, NEW v
  PROVE  LET new == Without(table, {v})
         IN  new \in Streams /\ Makers(new) = Makers(table) \ {v}
<1>1. PICK new : new = Without(table, {v})
  OBVIOUS
<1>2. DOMAIN new = DOMAIN table \ {v} /\ \A j \in DOMAIN new : new[j] = table[j]
  BY <1>1 DEF Without
<1>3. table \in [DOMAIN table -> Commits]
  BY StreamFacts
<1>4. PICK c \in Nat : DOMAIN table \in SUBSET (1..c)
  BY StreamFacts
<1>5. DOMAIN new \in Bounded
  BY <1>2, <1>4 DEF Bounded
<1>6. new \in [DOMAIN new -> Commits]
  BY <1>1, <1>2, <1>3 DEF Without
<1>7. Makers(new) = Makers(table) \ {v}
  BY <1>2 DEF Makers
<1>8. QED
  BY <1>1, <1>5, <1>6, <1>7 DEF Streams

-----------------------------------------------------------------------------
(* Writes to the sets. *)

LEMMA TableFacts ==
  ASSUME NEW t \in Tables
  PROVE  /\ t \in [DOMAIN t -> States] /\ DOMAIN t \in SUBSET SetNumbers
         /\ Active(t) \subseteq DOMAIN t /\ Active(t) \subseteq Nat
BY DEF Tables, Active, SetNumbers

\* What the controllers write: sets are deleted and marked, none is made or
\* made active.
Rewrites(s, t) ==
    /\ t \in Tables /\ DOMAIN t \subseteq DOMAIN s
    /\ \A n \in DOMAIN t :
          /\ t[n].active = s[n].active
          /\ s[n].deleting => t[n].deleting
          /\ s[n].terminating => t[n].terminating

LEMMA RewriteFollows ==
  ASSUME NEW r \in Tables, NEW s \in Tables, NEW t, Follows(r, s), Rewrites(s, t)
  PROVE  Follows(r, t)
BY DEF Follows, Rewrites

LEMMA WriteSets ==
  ASSUME sets \in Feeds(Tables), Onward, NEW t, Rewrites(Stored(sets), t),
         sets' = Publish(sets, t)
  PROVE  /\ sets' \in Feeds(Tables) /\ Onward'
         /\ Stored(sets') = t /\ Cached(sets') = Cached(sets)
         /\ \A i \in 1..Len(sets') :
               IF i \in 1..Len(sets) THEN sets'[i] = sets[i] ELSE sets'[i] = t
<1>1. PICK N : N = Len(sets)
  OBVIOUS
<1>2. /\ N \in Nat \ {0} /\ Stored(sets) \in Tables /\ Stored(sets) = sets[N]
      /\ \A i \in 1..N : sets[i] \in Tables
  BY <1>1, FeedEnds DEF Feeds
<1>3. t \in Tables
  BY DEF Rewrites
<1>4. /\ sets' \in Feeds(Tables) /\ Stored(sets') = t /\ Cached(sets') = Cached(sets)
      /\ Len(sets') \in {N, N + 1} /\ sets'[Len(sets')] = t
      /\ \A i \in 1..N : sets'[i] = sets[i]
  BY <1>1, <1>3, PublishFeed
<1>5. \A i \in 1..Len(sets') : i \in 1..N \/ i = Len(sets')
  BY <1>2, <1>4
<1>6. \A i \in 1..N : Follows(sets[i], t)
  BY <1>1, <1>2, RewriteFollows DEF Onward
<1>7. Follows(t, t)
  BY DEF Follows
<1>8. ASSUME NEW i \in 1..Len(sets'), NEW j \in 1..Len(sets'), i <= j
      PROVE  Follows(sets'[i], sets'[j])
  <2>1. CASE j = Len(sets')
    BY <1>4, <1>5, <1>6, <1>7, <2>1
  <2>2. CASE j # Len(sets')
    <3>1. i \in 1..N /\ j \in 1..N
      BY <1>2, <1>4, <1>5, <1>8, <2>2
    <3>2. QED
      BY <1>1, <1>4, <1>8, <3>1 DEF Onward
  <2>3. QED
    BY <2>1, <2>2
<1>9. Onward'
  BY <1>8 DEF Onward
<1>10. QED
  BY <1>1, <1>4, <1>5, <1>9

\* Nothing written is such a write.
LEMMA SameSets ==
  ASSUME sets \in Feeds(Tables)
  PROVE  Rewrites(Stored(sets), Stored(sets)) /\ Publish(sets, Stored(sets)) = sets
BY FeedEnds DEF Rewrites, Publish

LEMMA DropSet ==
  ASSUME NEW s \in Tables, NEW n
  PROVE  /\ Rewrites(s, Without(s, {n})) /\ DOMAIN Without(s, {n}) = DOMAIN s \ {n}
         /\ Active(Without(s, {n})) = Active(s) \ {n}
<1>1. PICK t : t = Without(s, {n})
  OBVIOUS
<1>2. DOMAIN t = DOMAIN s \ {n} /\ \A j \in DOMAIN t : t[j] = s[j]
  BY <1>1 DEF Without
<1>3. s \in [DOMAIN s -> States] /\ DOMAIN s \in SUBSET SetNumbers
  BY TableFacts
<1>4. t \in [DOMAIN t -> States] /\ DOMAIN t \in SUBSET SetNumbers
  BY <1>1, <1>2, <1>3 DEF Without
<1>5. t \in Tables
  BY <1>4 DEF Tables
<1>6. Active(t) = Active(s) \ {n}
  BY <1>2 DEF Active
<1>7. QED
  BY <1>1, <1>2, <1>5, <1>6 DEF Rewrites

LEMMA MarkSet ==
  ASSUME NEW s \in Tables, NEW n \in DOMAIN s, NEW t,
         t \in {[s EXCEPT ![n].held = TRUE], [s EXCEPT ![n].deleting = TRUE],
                [s EXCEPT ![n].terminating = TRUE]}
  PROVE  Rewrites(s, t) /\ DOMAIN t = DOMAIN s /\ Active(t) = Active(s)
<1>1. s \in [DOMAIN s -> States] /\ DOMAIN s \in SUBSET SetNumbers
  BY TableFacts
<1>2. DOMAIN t = DOMAIN s /\ \A m \in DOMAIN s : m # n => t[m] = s[m]
  BY <1>1
<1>3. s[n] \in States
  BY <1>1
<1>4. /\ t[n] \in States /\ t[n].active = s[n].active
      /\ s[n].deleting => t[n].deleting
      /\ s[n].terminating => t[n].terminating
  BY <1>1, <1>3 DEF States
<1>5. t \in [DOMAIN t -> States]
  BY <1>1, <1>2, <1>4
<1>6. t \in Tables
  BY <1>1, <1>2, <1>5 DEF Tables
<1>7. \A m \in DOMAIN t : /\ t[m].active = s[m].active
                          /\ s[m].deleting => t[m].deleting
                          /\ s[m].terminating => t[m].terminating
  BY <1>2, <1>4
<1>8. QED
  BY <1>2, <1>6, <1>7 DEF Rewrites, Active

-----------------------------------------------------------------------------
(* Deliveries. *)

LEMMA ShiftChunks ==
  ASSUME Types, chunks' = Refreshed(chunks) \/ (Len(chunks) > 1 /\ chunks' = Tail(chunks))
  PROVE  /\ chunks' \in Feeds(Streams) /\ Stored(chunks') = Stored(chunks)
         /\ \A i \in 1..Len(chunks') : \E j \in 1..Len(chunks) :
               chunks'[i] = chunks[j] /\ (j = 1 => Stored(chunks) = chunks[1])
<1>1. chunks \in Feeds(Streams)
  BY DEF Types
<1>2. CASE chunks' = Refreshed(chunks)
  <2>1. /\ chunks' \in Feeds(Streams) /\ Stored(chunks') = Stored(chunks)
        /\ Len(chunks') = 1 /\ chunks'[1] = Stored(chunks)
    BY <1>1, <1>2, RefreshFeed
  <2>2. Stored(chunks) = chunks[Len(chunks)] /\ Len(chunks) \in Nat \ {0}
    BY <1>1, FeedEnds
  <2>3. QED
    BY <2>1, <2>2
<1>3. CASE Len(chunks) > 1 /\ chunks' = Tail(chunks)
  <2>1. /\ chunks' \in Feeds(Streams) /\ Stored(chunks') = Stored(chunks)
        /\ Len(chunks') = Len(chunks) - 1
        /\ \A i \in 1..(Len(chunks) - 1) : chunks'[i] = chunks[i + 1]
    BY <1>1, <1>3, DeliverFeed
  <2>2. Len(chunks) \in Nat \ {0}
    BY <1>1, FeedEnds
  <2>3. \A i \in 1..(Len(chunks) - 1) : i + 1 \in 1..Len(chunks) /\ i + 1 # 1
    BY <2>2
  <2>4. QED
    BY <2>1, <2>3
<1>4. QED
  BY <1>2, <1>3

LEMMA ShiftSets ==
  ASSUME Types, Onward, sets' = Refreshed(sets) \/ (Len(sets) > 1 /\ sets' = Tail(sets))
  PROVE  /\ sets' \in Feeds(Tables) /\ Stored(sets') = Stored(sets) /\ Onward'
         /\ \A i \in 1..Len(sets') : \E j \in 1..Len(sets) : sets'[i] = sets[j]
         /\ \A i, j \in 1..Len(sets') : i <= j =>
               \E k, l \in 1..Len(sets) : k <= l /\ sets'[i] = sets[k] /\ sets'[j] = sets[l]
<1>1. sets \in Feeds(Tables) /\ Len(sets) \in Nat \ {0} /\ Stored(sets) = sets[Len(sets)]
  BY FeedEnds DEF Types
<1>2. CASE sets' = Refreshed(sets)
  <2>1. /\ sets' \in Feeds(Tables) /\ Stored(sets') = Stored(sets)
        /\ Len(sets') = 1 /\ sets'[1] = Stored(sets)
    BY <1>1, <1>2, RefreshFeed
  <2>2. Onward'
    BY <1>1, <2>1 DEF Onward
  <2>3. \A i, j \in 1..Len(sets') : i = 1 /\ j = 1
    BY <2>1
  <2>4. Len(sets) \in 1..Len(sets) /\ Len(sets) <= Len(sets)
    BY <1>1
  <2>5. QED
    BY <1>1, <2>1, <2>2, <2>3, <2>4
<1>3. CASE Len(sets) > 1 /\ sets' = Tail(sets)
  <2>1. /\ sets' \in Feeds(Tables) /\ Stored(sets') = Stored(sets)
        /\ Len(sets') = Len(sets) - 1
        /\ \A i \in 1..(Len(sets) - 1) : sets'[i] = sets[i + 1]
    BY <1>1, <1>3, DeliverFeed
  <2>2. \A i \in 1..(Len(sets) - 1) : i + 1 \in 1..Len(sets)
    BY <1>1
  <2>3. \A i, j \in 1..(Len(sets) - 1) : i <= j => Follows(sets[i + 1], sets[j + 1])
    BY <1>1, <2>2 DEF Onward
  <2>4. Onward'
    BY <2>1, <2>3 DEF Onward
  <2>5. \A i, j \in 1..(Len(sets) - 1) : i <= j => i + 1 <= j + 1
    BY <1>1
  <2>6. QED
    BY <2>1, <2>2, <2>4, <2>5
<1>4. QED
  BY <1>2, <1>3

\* What a delivery of the stream leaves of the invariant.
LEMMA ShiftedStream ==
  ASSUME IInv, chunks' = Refreshed(chunks) \/ (Len(chunks) > 1 /\ chunks' = Tail(chunks)),
         pass' = pass \/ pass' = Idle,
         gone' = gone, taken' = taken, missed' = missed,
         DOMAIN Stored(sets') = DOMAIN Stored(sets)
  PROVE  chunks' \in Feeds(Streams) /\ Counts' /\ Stream' /\ Names'
<1>1. /\ chunks' \in Feeds(Streams) /\ Stored(chunks') = Stored(chunks)
      /\ \A i \in 1..Len(chunks') : \E j \in 1..Len(chunks) :
            chunks'[i] = chunks[j] /\ (j = 1 => Stored(chunks) = chunks[1])
  BY ShiftChunks DEF IInv
<1>2. 1 \in 1..Len(chunks') /\ Cached(chunks') = chunks'[1]
  BY <1>1, FeedEnds
<1>3. Idle.at = "idle" /\ Idle.view = << >> /\ Idle.counted = 0
  BY DEF Idle
<1>4. \A i \in 1..Len(chunks') : Makers(Stored(chunks')) \subseteq Makers(chunks'[i])
  <2>1. \A j \in 1..Len(chunks) : j = 1 /\ Stored(chunks) = chunks[1] =>
            Makers(Stored(chunks)) \subseteq Makers(chunks[j])
    OBVIOUS
  <2>2. QED
    BY <1>1, <2>1 DEF IInv, Stream
<1>5. Stream'
  <2>1. Makers(Stored(chunks')) \subseteq Makers(Cached(chunks'))
    BY <1>2, <1>4
  <2>2. pass'.at # "idle" => pass' = pass
    BY <1>3
  <2>3. Deleting' => Deleting /\ pass' = pass
    BY <1>3 DEF Deleting
  <2>4. QED
    BY <1>1, <1>4, <2>1, <2>2, <2>3 DEF IInv, Stream
<1>6. Names'
  <2>1. \A i \in 1..Len(chunks') : \E j \in 1..Len(chunks) : chunks'[i] = chunks[j]
    BY <1>1
  <2>2. pass'.at # "idle" => pass' = pass
    BY <1>3
  <2>3. QED
    BY <2>1, <2>2 DEF IInv, Names
<1>7. Counts'
  <2>1. CASE pass' = pass
    BY <2>1 DEF IInv, Counts
  <2>2. CASE pass' = Idle
    <3>1. Cardinality(Named(Idle.view)) = 0
      BY <1>3, NothingNamed, FS_EmptySet
    <3>2. QED
      BY <1>3, <2>2, <3>1 DEF Counts
  <2>3. QED
    BY <2>1, <2>2
<1>8. QED
  BY <1>1, <1>5, <1>6, <1>7

\* What a step that the Tenant controller does not take leaves of it.
LEMMA SameStream ==
  ASSUME IInv, UNCHANGED <<gone, chunks, pass, missed, taken>>,
         DOMAIN Stored(sets') \subseteq DOMAIN Stored(sets)
  PROVE  Counts' /\ Stream' /\ Names'
<1>1. Counts' /\ Stream'
  BY DEF IInv, Counts, Stream, Behind, Deleting
<1>2. Names'
  BY DEF IInv, Names
<1>3. QED
  BY <1>1, <1>2

\* Readings that name the same sets have the same orphans.
LEMMA SameNames ==
  ASSUME NEW v, NEW w, Named(v) = Named(w)
  PROVE  LastNamed(v) = LastNamed(w) /\ Orphans(v) = Orphans(w)
BY DEF Named, LastNamed, Orphans

\* What a step leaves of Whole by which no reading is added.
LEMMA StillWhole ==
  ASSUME IInv, taken' = taken, Stored(chunks') = Stored(chunks),
         \A i \in 1..Len(chunks') : \E j \in 1..Len(chunks) : chunks'[i] = chunks[j],
         \/ pass' = pass \/ pass'.at = "idle"
         \/ /\ pass.at # "idle" /\ pass'.view = pass.view
            /\ pass'.at \in {"sets", "chunks"} => Sealed(pass.view),
         \A i \in 1..Len(sets') : \E j \in 1..Len(sets) : DOMAIN sets'[i] \subseteq DOMAIN sets[j],
         worker'.at = "apply" =>
            \/ worker.at = "apply" /\ worker'.set = worker.set
            \/ \E j \in 1..Len(sets) : worker'.set \in DOMAIN sets[j]
  PROVE  Whole'
<1>1. pass'.at \in {"sets", "chunks"} => Sealed(pass'.view)
  BY DEF IInv, Whole
<1>2. ASSUME ~taken'
      PROVE  /\ \A i \in 1..Len(chunks') :
                   Sealed(chunks'[i]) => Named(chunks'[i]) = Named(Stored(chunks'))
             /\ pass'.at # "idle" /\ Sealed(pass'.view) =>
                   Named(pass'.view) = Named(Stored(chunks'))
             /\ \A i \in 1..Len(sets') : DOMAIN sets'[i] \subseteq Named(Stored(chunks'))
             /\ worker'.at = "apply" => worker'.set \in Named(Stored(chunks'))
  <2>1. ~taken
    BY <1>2
  <2>2. \A i \in 1..Len(chunks') :
            Sealed(chunks'[i]) => Named(chunks'[i]) = Named(Stored(chunks'))
    BY <2>1 DEF IInv, Whole
  <2>3. pass'.at # "idle" /\ Sealed(pass'.view) => Named(pass'.view) = Named(Stored(chunks'))
    BY <2>1 DEF IInv, Whole
  <2>4. \A i \in 1..Len(sets') : DOMAIN sets'[i] \subseteq Named(Stored(chunks'))
    BY <2>1 DEF IInv, Whole
  <2>5. worker'.at = "apply" => worker'.set \in Named(Stored(chunks'))
    BY <2>1 DEF IInv, Whole
  <2>6. QED
    BY <2>2, <2>3, <2>4, <2>5
<1>3. QED
  BY <1>1, <1>2 DEF Whole

\* What a step leaves of Applier that is no concern of the ResourceSets.
LEMMA SameWork ==
  ASSUME IInv, UNCHANGED <<sets, resources, worker>>, missed \subseteq missed', taken => taken',
         taken' \/ Named(Stored(chunks')) = Named(Stored(chunks))
  PROVE  Onward' /\ Marked' /\ Readings' /\ Applies' /\ Owned'
<1>1. Onward' /\ Marked'
  BY DEF IInv, Onward, Applier, Marked
<1>2. ActiveSets' = ActiveSets
  BY DEF ActiveSets
<1>3. Intact' => Intact /\ TopSet' = TopSet /\ Orphans(Stored(chunks')) = Orphans(Stored(chunks))
  <2>1. ASSUME Intact' PROVE Intact /\ Named(Stored(chunks')) = Named(Stored(chunks))
    BY <2>1 DEF Intact
  <2>2. QED
    BY <2>1, SameNames DEF TopSet
<1>4. Readings' /\ Applies' /\ Owned'
  BY <1>2, <1>3 DEF IInv, Applier, Readings, Applies, Owned
<1>5. QED
  BY <1>1, <1>4

LEMMA SameApplier ==
  ASSUME IInv, UNCHANGED <<sets, resources, worker>>, missed \subseteq missed', taken => taken',
         taken' \/ Named(Stored(chunks')) = Named(Stored(chunks)),
         taken' \/ pass'.at = "chunks" => taken \/ pass.at = "chunks"
  PROVE  Onward' /\ Applier'
<1>1. Onward' /\ Marked' /\ Readings' /\ Applies' /\ Owned'
  BY SameWork
<1>2. missed' = {} => missed = {}
  OBVIOUS
<1>3. Cleared'
  BY <1>2 DEF IInv, Applier, Cleared
<1>4. QED
  BY <1>1, <1>3 DEF Applier

LEMMA DeliverChunkKeeps ==
  ASSUME IInv, DeliverChunk
  PROVE  IInv'
<1>1. chunks' \in Feeds(Streams) /\ Counts' /\ Stream' /\ Names'
  BY ShiftedStream DEF DeliverChunk
<1>2. /\ Stored(chunks') = Stored(chunks)
      /\ \A i \in 1..Len(chunks') : \E j \in 1..Len(chunks) : chunks'[i] = chunks[j]
  BY ShiftChunks DEF IInv, DeliverChunk
<1>3. UNCHANGED <<gone, sets, resources, served, mapper, pass, worker, missed, taken, faults>>
  BY DEF DeliverChunk, kinds
<1>4. Onward' /\ Applier'
  BY <1>2, <1>3, SameApplier
<1>5. Whole'
  BY <1>2, <1>3, StillWhole
<1>6. Types'
  BY <1>1, <1>3 DEF IInv, Types
<1>7. QED
  BY <1>1, <1>4, <1>5, <1>6 DEF IInv

\* A delivery of the sets, also together with the end of the passes.
LEMMA ShiftedSets ==
  ASSUME IInv, sets' = Refreshed(sets) \/ (Len(sets) > 1 /\ sets' = Tail(sets)),
         worker' = worker \/ worker' = NoWork, pass' = pass \/ pass' = Idle,
         Stored(chunks') = Stored(chunks), UNCHANGED <<resources, missed, taken>>
  PROVE  /\ sets' \in Feeds(Tables) /\ Stored(sets') = Stored(sets) /\ Onward' /\ Applier'
         /\ \A i \in 1..Len(sets') : \E j \in 1..Len(sets) : sets'[i] = sets[j]
<1>1. /\ sets' \in Feeds(Tables) /\ Stored(sets') = Stored(sets) /\ Onward'
      /\ \A i \in 1..Len(sets') : \E j \in 1..Len(sets) : sets'[i] = sets[j]
      /\ \A i, j \in 1..Len(sets') : i <= j =>
            \E k, l \in 1..Len(sets) : k <= l /\ sets'[i] = sets[k] /\ sets'[j] = sets[l]
  BY ShiftSets DEF IInv
<1>2. NoWork.at = "idle" /\ Idle.at = "idle"
  BY DEF NoWork, Idle
<1>3. worker'.at # "idle" => worker' = worker
  BY <1>2
<1>4. ActiveSets' = ActiveSets /\ TopSet' = TopSet /\ (Intact' <=> Intact)
  BY <1>1 DEF ActiveSets, TopSet, Intact
<1>5. Marked'
  BY <1>1, <1>3 DEF IInv, Applier, Marked
<1>6. Readings'
  <2>1. ASSUME Intact', NEW i \in 1..Len(sets'), NEW j \in 1..Len(sets'), i <= j,
               TopSet' \cap DOMAIN sets'[i] # {} \/ TopSet' \cap ActiveSets' = {}
        PROVE  Live(sets'[j]) \subseteq ActiveSets'
    <3>1. PICK k, l \in 1..Len(sets) : k <= l /\ sets'[i] = sets[k] /\ sets'[j] = sets[l]
      BY <1>1, <2>1
    <3>2. QED
      BY <1>4, <2>1, <3>1 DEF IInv, Applier, Readings
  <2>2. QED
    BY <2>1 DEF Readings
<1>7. Applies' /\ Owned'
  BY <1>3, <1>4 DEF IInv, Applier, Applies, Owned
<1>8. Cleared'
  <2>1. taken' \/ pass'.at = "chunks" => taken \/ pass.at = "chunks"
    BY <1>2
  <2>2. QED
    BY <1>1, <1>3, <2>1 DEF IInv, Applier, Cleared
<1>9. QED
  BY <1>1, <1>5, <1>6, <1>7, <1>8 DEF Applier

LEMMA DeliverSetKeeps ==
  ASSUME IInv, DeliverSet
  PROVE  IInv'
<1>1. UNCHANGED <<gone, chunks, resources, served, mapper, pass, worker, missed, taken, faults>>
  BY DEF DeliverSet, kinds
<1>2. /\ sets' \in Feeds(Tables) /\ Stored(sets') = Stored(sets) /\ Onward' /\ Applier'
      /\ \A i \in 1..Len(sets') : \E j \in 1..Len(sets) : sets'[i] = sets[j]
  BY <1>1, ShiftedSets DEF DeliverSet
<1>3. Counts' /\ Stream' /\ Names'
  BY <1>1, <1>2, SameStream
<1>4. Whole'
  BY <1>1, <1>2, StillWhole
<1>5. Types'
  BY <1>1, <1>2 DEF IInv, Types
<1>6. QED
  BY <1>2, <1>3, <1>4, <1>5 DEF IInv

LEMMA AtRest ==
  /\ Idle \in [at : {"idle", "orphans", "sets", "chunks", "seal"}, view : Streams,
               ready : BOOLEAN, todo : Seq(Nat), counted : Nat]
  /\ NoWork \in [set : Nat, at : {"idle", "apply", "clean"},
                 todo : Seq(DOMAIN Resources), clean : BOOLEAN]
<1>1. << >> \in Seq(Nat) /\ << >> \in Seq(DOMAIN Resources)
  OBVIOUS
<1>2. QED
  BY <1>1, NothingNamed DEF Idle, NoWork

LEMMA StartsAgainKeeps ==
  ASSUME IInv, StartsAgain
  PROVE  IInv'
<1>1. /\ chunks' = Refreshed(chunks) /\ sets' = Refreshed(sets) /\ pass' = Idle
      /\ worker' = NoWork /\ UNCHANGED <<gone, resources, served, missed, taken>>
  BY DEF StartsAgain
<1>2. /\ Stored(chunks') = Stored(chunks)
      /\ \A i \in 1..Len(chunks') : \E j \in 1..Len(chunks) : chunks'[i] = chunks[j]
  BY <1>1, ShiftChunks DEF IInv
<1>3. /\ sets' \in Feeds(Tables) /\ Stored(sets') = Stored(sets) /\ Onward' /\ Applier'
      /\ \A i \in 1..Len(sets') : \E j \in 1..Len(sets) : sets'[i] = sets[j]
  BY <1>1, <1>2, ShiftedSets
<1>4. chunks' \in Feeds(Streams) /\ Counts' /\ Stream' /\ Names'
  BY <1>1, <1>3, ShiftedStream
<1>5. pass'.at = "idle" /\ worker'.at = "idle"
  BY <1>1 DEF Idle, NoWork
<1>6. Whole'
  BY <1>1, <1>2, <1>3, <1>5, StillWhole
<1>7. Types'
  BY <1>1, <1>3, <1>4, AtRest DEF IInv, Types
<1>8. QED
  BY <1>3, <1>4, <1>6, <1>7 DEF IInv

-----------------------------------------------------------------------------
(* The steps of the Tenant controller. *)

LEMMA CachedStream ==
  ASSUME IInv
  PROVE  /\ Cached(chunks) \in Streams /\ Stored(chunks) \in Streams
         /\ Cached(sets) \in Tables /\ Stored(sets) \in Tables
         /\ 1 \in 1..Len(chunks) /\ Cached(chunks) = chunks[1]
         /\ \/ Makers(Stored(chunks)) \subseteq Makers(Cached(chunks))
            \/ Behind
BY FeedEnds DEF IInv, Types, Stream

LEMMA BeginPassKeeps ==
  ASSUME IInv, BeginPass
  PROVE  IInv'
<1>1. PICK view : view = Cached(chunks)
  OBVIOUS
<1>2. /\ view \in Streams /\ ~gone /\ pass.at = "idle"
      /\ UNCHANGED <<served, mapper, chunks, sets, resources, worker, taken, faults>>
  BY <1>1, CachedStream DEF BeginPass, kinds
<1>3. Onward' /\ Applier'
  <2>1. missed \subseteq missed'
    BY <1>1 DEF BeginPass
  <2>2. pass'.at = "chunks" => pass.at = "chunks"
    BY <1>1 DEF BeginPass
  <2>3. QED
    BY <1>2, <2>1, <2>2, SameApplier
<1>4. CASE NothingLeft(view)
  <2>1. /\ gone' = TRUE /\ pass' = pass
        /\ missed' = IF view = << >> /\ ~taken THEN missed \cup {"unseen"} ELSE missed
    BY <1>1, <1>4 DEF BeginPass
  <2>2. view = << >> /\ Makers(view) = {} /\ Named(view) = {}
    BY <1>2, <1>4, NothingNamed, StreamFacts DEF NothingLeft
  <2>3. "unseen" \notin missed' => Makers(Stored(chunks)) = {}
    <3>1. ASSUME "unseen" \notin missed' PROVE Makers(Stored(chunks)) = {}
      <4>1. taken
        BY <2>1, <2>2, <3>1
      <4>2. Makers(Stored(chunks)) \subseteq Makers(view)
        BY <1>1, <4>1, CachedStream DEF Behind
      <4>3. QED
        BY <2>2, <4>2
    <3>2. QED
      BY <3>1
  <2>4. Stream'
    BY <1>2, <2>1, <2>3 DEF IInv, Stream, Behind, Deleting
  <2>5. Names'
    <3>1. "uncached" \notin missed' => "uncached" \notin missed
      BY <2>1
    <3>2. "uncached" \notin missed' => DOMAIN Stored(sets) = {}
      BY <1>1, <2>2, <3>1, CachedStream DEF IInv, Names
    <3>3. QED
      BY <1>2, <2>1, <3>1, <3>2 DEF IInv, Names
  <2>6. Types'
    BY <1>2, <2>1 DEF IInv, Types
  <2>7. Counts'
    BY <1>2, <2>1 DEF IInv, Counts
  <2>8. Whole'
    BY <1>2, <2>1, StillWhole
  <2>9. QED
    BY <1>3, <2>4, <2>5, <2>6, <2>7, <2>8 DEF IInv
<1>5. CASE ~NothingLeft(view)
  <2>1. /\ gone' = FALSE /\ missed' = missed
        /\ \E ready \in {FALSE, Ready(view)} :
              pass' = [at |-> "orphans", view |-> view, ready |-> ready,
                       todo |-> Ascending(Named(view)), counted |-> 0]
    BY <1>1, <1>5 DEF BeginPass
  <2>2. PICK ready \in {FALSE, Ready(view)} :
              pass' = [at |-> "orphans", view |-> view, ready |-> ready,
                       todo |-> Ascending(Named(view)), counted |-> 0]
    BY <2>1
  <2>3. ready \in BOOLEAN
    BY DEF Ready
  <2>4. PICK S : S = Named(view)
    OBVIOUS
  <2>5. /\ S \in SUBSET (1..MaxSets) /\ Cardinality(S) \in Nat
        /\ Ascending(S) \in Seq(S) /\ Len(Ascending(S)) = Cardinality(S)
        /\ ToSet(Ascending(S)) = S /\ Ascending(S) \in Seq(Nat)
    BY <1>2, <2>4, StreamFacts, Listing, MaxSetsAssumption
  <2>6. Ascending(S) \in Seq(Nat)
    BY <2>5
  <2>7. /\ pass'.at = "orphans" /\ pass'.view = view /\ pass'.todo = Ascending(S) /\ pass'.counted = 0
    BY <2>2, <2>4
  <2>8. Types'
    <3>1. pass' \in [at : {"idle", "orphans", "sets", "chunks", "seal"}, view : Streams,
                     ready : BOOLEAN, todo : Seq(Nat), counted : Nat]
      BY <1>2, <2>2, <2>3, <2>4, <2>6
    <3>2. QED
      BY <1>2, <2>1, <3>1 DEF IInv, Types
  <2>9. Counts'
    BY <2>4, <2>5, <2>7 DEF Counts
  <2>10. Stream'
    <3>1. Sealed(view) => Makers(Stored(chunks)) \subseteq Makers(view)
      BY <1>1, CachedStream DEF Behind
    <3>2. DOMAIN view # {}
      BY <1>5 DEF NothingLeft
    <3>3. \A i \in 1..Len(chunks) :
             Makers(Stored(chunks)) \subseteq Makers(chunks[i]) \/ (i = 1 /\ Behind)
      BY DEF IInv, Stream
    <3>4. QED
      BY <1>1, <1>2, <2>1, <2>7, <3>1, <3>2, <3>3 DEF Stream, Behind, Deleting
  <2>11. Names'
    <3>1. "uncached" \notin missed => DOMAIN Stored(sets) \subseteq S
      BY <1>1, <2>4, CachedStream DEF IInv, Names
    <3>2. QED
      BY <1>2, <2>1, <2>5, <2>7, <3>1 DEF IInv, Names
  <2>12. Whole'
    BY <1>1, <1>2, <2>7, CachedStream DEF IInv, Whole
  <2>13. QED
    BY <1>3, <2>8, <2>9, <2>10, <2>11, <2>12 DEF IInv
<1>6. QED
  BY <1>4, <1>5

\* What a step leaves of Applier by which resources only go.
LEMMA FewerResources ==
  ASSUME IInv, UNCHANGED <<chunks, sets, missed, taken>>, pass'.at = "chunks" => pass.at = "chunks",
         worker'.at = worker.at, worker'.set = worker.set,
         \A r \in DOMAIN Resources :
            /\ resources[r] = "absent" => resources'[r] = "absent"
            /\ resources'[r] = "live" => resources[r] = "live"
  PROVE  Readings' /\ Applies' /\ Owned' /\ Cleared'
<1>1. ActiveSets' = ActiveSets /\ TopSet' = TopSet /\ (Intact' <=> Intact)
  BY DEF ActiveSets, TopSet, Intact
<1>2. Readings'
  BY <1>1 DEF IInv, Applier, Readings
<1>3. Applies' /\ Owned'
  BY <1>1 DEF IInv, Applier, Applies, Owned
<1>4. Cleared'
  BY DEF IInv, Applier, Cleared
<1>5. QED
  BY <1>2, <1>3, <1>4

\* The resources of a set, in either order.
LEMMA InOrder ==
  ASSUME NEW n \in SetNumbers
  PROVE  /\ Contents[n] \subseteq DOMAIN Resources /\ n \in Nat
         /\ Ascending(Contents[n]) \in Seq(Contents[n])
         /\ Descending(Contents[n]) \in Seq(Contents[n])
         /\ ToSet(Descending(Contents[n])) = Contents[n]
<1>1. Len(Resources) \in Nat /\ DOMAIN Resources = 1..Len(Resources)
  BY ResourcesAssumption
<1>2. Contents[n] \in SUBSET (1..Len(Resources)) /\ n \in Nat
  BY <1>1, ContentsAssumption DEF SetNumbers
<1>3. QED
  BY <1>1, <1>2, Listing

LEMMA Sublist ==
  ASSUME NEW S, NEW T, S \subseteq T, NEW q \in Seq(S)
  PROVE  q \in Seq(T)
OBVIOUS

LEMMA DeleteOrphansKeeps ==
  ASSUME IInv, DeleteOrphans
  PROVE  IInv'
<1>1. /\ pass.at = "orphans"
      /\ pass' = [pass EXCEPT !.at = IF Sealed(pass.view) THEN "sets" ELSE "seal"]
      /\ UNCHANGED <<gone, chunks, sets, served, worker, missed, taken>>
      /\ \E D \in SUBSET DOMAIN Resources :
            /\ \A r \in D : resources[r] = "live"
            /\ resources' = [r \in DOMAIN Resources |->
                                IF r \in D THEN "terminating" ELSE resources[r]]
  <2>1. PICK deleted, failed :
            /\ \A r \in deleted : resources[r] = "live"
            /\ resources' = [r \in DOMAIN Resources |->
                   IF r \in deleted \ failed THEN "terminating" ELSE resources[r]]
    BY DEF DeleteOrphans
  <2>2. PICK D : D = {r \in DOMAIN Resources : r \in deleted \ failed}
    OBVIOUS
  <2>3. /\ D \in SUBSET DOMAIN Resources /\ \A r \in D : resources[r] = "live"
        /\ resources' = [r \in DOMAIN Resources |-> IF r \in D THEN "terminating" ELSE resources[r]]
    BY <2>1, <2>2
  <2>4. QED
    BY <2>3 DEF DeleteOrphans
<1>2. /\ pass \in [at : {"idle", "orphans", "sets", "chunks", "seal"}, view : Streams,
                   ready : BOOLEAN, todo : Seq(Nat), counted : Nat]
      /\ resources \in [DOMAIN Resources -> {"absent", "live", "terminating"}]
  BY DEF IInv, Types
<1>3. /\ pass'.at = (IF Sealed(pass.view) THEN "sets" ELSE "seal")
      /\ pass'.view = pass.view /\ pass'.todo = pass.todo /\ pass'.counted = pass.counted
      /\ pass' \in [at : {"idle", "orphans", "sets", "chunks", "seal"}, view : Streams,
                    ready : BOOLEAN, todo : Seq(Nat), counted : Nat]
  BY <1>1, <1>2
<1>4. /\ resources' \in [DOMAIN Resources -> {"absent", "live", "terminating"}]
      /\ \A r \in DOMAIN Resources :
            /\ resources[r] = "absent" => resources'[r] = "absent"
            /\ resources'[r] = "live" => resources[r] = "live"
  BY <1>1, <1>2
<1>5. Types'
  BY <1>1, <1>3, <1>4 DEF IInv, Types
<1>6. Counts'
  <2>1. PICK C : C = Cardinality(Named(pass.view))
    OBVIOUS
  <2>2. C \in Nat
    BY <1>2, <2>1, StreamFacts, Listing, MaxSetsAssumption
  <2>3. /\ pass.counted + Len(pass.todo) <= C /\ pass.counted \in Nat
        /\ Len(pass.todo) \in Nat
    BY <1>1, <1>2, <2>1 DEF IInv, Counts
  <2>4. Cardinality(Named(pass'.view)) = C
    BY <1>3, <2>1
  <2>5. pass'.at = "sets" \/ pass'.at = "seal"
    BY <1>3
  <2>6. QED
    BY <1>3, <2>2, <2>3, <2>4, <2>5 DEF Counts
<1>7. Stream'
  <2>1. Deleting' => Deleting
    BY <1>1, <1>3 DEF Deleting
  <2>2. QED
    BY <1>1, <1>3, <2>1 DEF IInv, Stream, Behind
<1>8. Names'
  BY <1>1, <1>3 DEF IInv, Names
<1>9. Whole'
  BY <1>1, <1>3, StillWhole
<1>10. Onward'
  BY <1>1 DEF IInv, Onward
<1>11. Marked'
  <2>1. worker.at = "clean" => Contents[worker.set] \subseteq DOMAIN Resources
    BY InOrder DEF IInv, Applier, Marked
  <2>2. QED
    BY <1>1, <1>4, <2>1 DEF IInv, Applier, Marked
<1>12. Readings' /\ Applies' /\ Owned' /\ Cleared'
  BY <1>1, <1>3, <1>4, FewerResources
<1>13. QED
  BY <1>5, <1>6, <1>7, <1>8, <1>9, <1>10, <1>11, <1>12 DEF IInv, Applier

LEMMA EndSetsKeeps ==
  ASSUME IInv, EndSets
  PROVE  IInv'
<1>1. /\ pass.at = "sets" /\ pass.todo = << >>
      /\ UNCHANGED <<served, mapper, gone, chunks, sets, resources, worker, taken, faults>>
  BY DEF EndSets, kinds
<1>2. /\ missed \subseteq missed'
      /\ missed' \subseteq {"unborn", "unheld", "uncached", "unseen", "orphaned"}
      /\ "uncached" \notin missed' => "uncached" \notin missed
      /\ "unseen" \notin missed' => "unseen" \notin missed
  BY DEF EndSets, IInv, Types
<1>3. pass \in [at : {"idle", "orphans", "sets", "chunks", "seal"}, view : Streams,
                ready : BOOLEAN, todo : Seq(Nat), counted : Nat]
  BY DEF IInv, Types
<1>4. PICK b \in Nat : DOMAIN pass.view \in SUBSET (1..b)
  BY <1>3, StreamFacts
<1>5. /\ Descending(DOMAIN pass.view) \in Seq(DOMAIN pass.view)
      /\ ToSet(Descending(DOMAIN pass.view)) = DOMAIN pass.view
  BY <1>4, Listing
<1>6. Descending(DOMAIN pass.view) \in Seq(Nat)
  BY <1>4, <1>5
<1>7. pass' = IF pass.counted = Cardinality(Named(pass.view))
              THEN [pass EXCEPT !.at = "chunks", !.todo = Descending(DOMAIN pass.view)]
              ELSE [pass EXCEPT !.at = "seal"]
  BY DEF EndSets
<1>8. /\ pass'.at \in {"chunks", "seal"}
      /\ pass'.view = pass.view /\ pass'.counted = pass.counted
      /\ pass'.at = "chunks" =>
            /\ pass.counted = Cardinality(Named(pass.view))
            /\ pass'.todo = Descending(DOMAIN pass.view)
            /\ missed' = {} => \A i \in Orphans(pass.view) : resources[i] # "live"
  BY <1>3, <1>7 DEF EndSets
<1>9. Types'
  <2>1. pass' \in [at : {"idle", "orphans", "sets", "chunks", "seal"}, view : Streams,
                   ready : BOOLEAN, todo : Seq(Nat), counted : Nat]
    BY <1>3, <1>6, <1>7
  <2>2. QED
    BY <1>1, <1>2, <2>1 DEF IInv, Types
<1>10. Len(pass.todo) = 0 /\ ToSet(pass.todo) = {}
  BY <1>1 DEF ToSet
<1>11. Counts'
  BY <1>1, <1>3, <1>8, <1>10 DEF IInv, Counts
<1>12. Stream'
  <2>1. Deleting' => Deleting
    BY <1>1, <1>8 DEF Deleting
  <2>2. pass'.at = "chunks" => Makers(Stored(chunks)) \subseteq ToSet(pass'.todo)
    BY <1>1, <1>3, <1>5, <1>8, StreamFacts DEF IInv, Stream, Deleting
  <2>3. QED
    BY <1>1, <1>2, <1>8, <2>1, <2>2 DEF IInv, Stream, Behind
<1>13. pass'.at = "chunks" /\ "uncached" \notin missed => DOMAIN Stored(sets) = {}
  <2>1. pass'.at = "chunks" => pass.counted + Len(pass.todo) = Cardinality(Named(pass.view))
    BY <1>3, <1>8, <1>10
  <2>2. QED
    BY <1>1, <1>10, <2>1 DEF IInv, Names
<1>14. Names'
  BY <1>1, <1>2, <1>8, <1>13 DEF IInv, Names
<1>15. Whole'
  <2>1. Sealed(pass.view)
    BY <1>1 DEF IInv, Whole
  <2>2. QED
    BY <1>1, <1>8, <2>1, StillWhole
<1>16. Onward' /\ Marked' /\ Readings' /\ Applies' /\ Owned'
  BY <1>1, <1>2, SameWork
<1>17. Cleared'
  <2>1. ASSUME missed' = {}, ~taken, pass'.at = "chunks"
        PROVE  /\ \A r \in DOMAIN Resources : resources[r] # "live"
               /\ worker.at # "apply"
               /\ \A i \in 1..Len(sets) : Live(sets[i]) = {}
    <3>1. missed = {} /\ Intact
      BY <1>2, <2>1 DEF Intact
    <3>2. ActiveSets = {}
      BY <1>13, <2>1, <3>1 DEF ActiveSets, Active
    <3>3. Orphans(pass.view) = Orphans(Stored(chunks))
      <4>1. Named(pass.view) = Named(Stored(chunks))
        BY <1>1, <2>1 DEF IInv, Whole
      <4>2. QED
        BY <4>1, SameNames
    <3>4. ResourcesOf(ActiveSets) = {}
      BY <3>2 DEF ResourcesOf
    <3>5. \A r \in DOMAIN Resources : resources[r] # "live"
      BY <1>8, <2>1, <3>1, <3>3, <3>4 DEF IInv, Applier, Owned
    <3>6. worker.at # "apply"
      BY <3>1, <3>2 DEF IInv, Applier, Applies
    <3>7. \A i \in 1..Len(sets) : Live(sets[i]) = {}
      <4>1. \A i \in 1..Len(sets) : i <= i
        OBVIOUS
      <4>2. QED
        BY <3>1, <3>2, <4>1 DEF IInv, Applier, Readings
    <3>8. QED
      BY <3>5, <3>6, <3>7
  <2>2. ASSUME missed' = {}, taken
        PROVE  /\ \A r \in DOMAIN Resources : resources[r] # "live"
               /\ worker.at # "apply"
               /\ \A i \in 1..Len(sets) : Live(sets[i]) = {}
    <3>1. missed = {}
      BY <1>2, <2>2
    <3>2. QED
      BY <2>2, <3>1 DEF IInv, Applier, Cleared
  <2>3. QED
    BY <1>1, <2>1, <2>2 DEF Cleared
<1>18. QED
  BY <1>9, <1>11, <1>12, <1>14, <1>15, <1>16, <1>17 DEF IInv, Applier

LEMMA DeleteChunkKeeps ==
  ASSUME IInv, DeleteChunk
  PROVE  IInv'
<1>1. /\ pass.at = "chunks" /\ pass.todo # << >>
      /\ UNCHANGED <<served, mapper, gone, sets, resources, worker, missed>>
  BY DEF DeleteChunk, kinds
<1>2. Onward' /\ Applier'
  <2>1. (taken => taken') /\ (taken' \/ Stored(chunks') = Stored(chunks))
    BY DEF DeleteChunk
  <2>2. QED
    BY <1>1, <2>1, SameApplier
<1>3. /\ pass \in [at : {"idle", "orphans", "sets", "chunks", "seal"}, view : Streams,
                   ready : BOOLEAN, todo : Seq(Nat), counted : Nat]
      /\ chunks \in Feeds(Streams) /\ Len(chunks) \in Nat \ {0}
  BY FeedEnds DEF IInv, Types
<1>4. CASE UNCHANGED <<chunks, taken>> /\ pass' = [pass EXCEPT !.at = "seal"]
  <2>1. pass'.at = "seal" /\ pass'.view = pass.view /\ pass'.counted = pass.counted
    BY <1>3, <1>4
  <2>2. Types'
    BY <1>1, <1>3, <1>4 DEF IInv, Types
  <2>3. Counts' /\ Stream' /\ Names'
    BY <1>1, <1>4, <2>1 DEF IInv, Counts, Stream, Behind, Deleting, Names
  <2>4. Whole'
    BY <1>1, <1>4, <2>1, StillWhole
  <2>5. QED
    BY <1>2, <2>2, <2>3, <2>4 DEF IInv
<1>5. CASE /\ chunks' = Publish(chunks, Without(Stored(chunks), {Head(pass.todo)}))
           /\ taken' = TRUE /\ pass' = [pass EXCEPT !.todo = Tail(@)]
  <2>1. PICK h, new : h = Head(pass.todo) /\ new = Without(Stored(chunks), {h})
    OBVIOUS
  <2>2. new \in Streams /\ Makers(new) = Makers(Stored(chunks)) \ {h}
    BY <2>1, CachedStream, TakeCommit
  <2>3. /\ chunks' \in Feeds(Streams) /\ Stored(chunks') = new
        /\ Cached(chunks') = Cached(chunks)
        /\ Len(chunks') \in {Len(chunks), Len(chunks) + 1} /\ chunks'[Len(chunks')] = new
        /\ \A i \in 1..Len(chunks) : chunks'[i] = chunks[i]
    <3>1. chunks' = Publish(chunks, new)
      BY <1>5, <2>1
    <3>2. PICK feed : feed = chunks
      OBVIOUS
    <3>3. feed \in Feeds(Streams)
      BY <1>3, <3>2
    <3>4. QED
      BY <2>2, <3>1, <3>2, <3>3, PublishFeed
  <2>4. /\ pass'.at = "chunks" /\ pass'.view = pass.view /\ pass'.todo = Tail(pass.todo)
        /\ pass'.counted = pass.counted
    BY <1>1, <1>3, <1>5
  <2>5. Tail(pass.todo) \in Seq(Nat) /\ ToSet(pass.todo) = {h} \cup ToSet(Tail(pass.todo))
    BY <1>1, <1>3, <2>1, HeadAndTail
  <2>6. Types'
    BY <1>1, <1>3, <1>5, <2>3, <2>5 DEF IInv, Types
  <2>7. Counts'
    BY <1>1, <2>4 DEF IInv, Counts
  <2>8. Stream'
    <3>1. \A i \in 1..Len(chunks) : Makers(new) \subseteq Makers(chunks[i])
      <4>1. \A i \in 1..Len(chunks) : Makers(Stored(chunks)) \subseteq Makers(chunks[i])
        BY <1>1, CachedStream DEF IInv, Stream, Deleting
      <4>2. QED
        BY <2>2, <4>1
    <3>2. \A i \in 1..Len(chunks') : Makers(new) \subseteq Makers(chunks'[i])
      BY <1>3, <2>3, <3>1
    <3>3. Makers(new) \subseteq ToSet(pass'.todo)
      BY <1>1, <2>2, <2>4, <2>5 DEF IInv, Stream
    <3>4. Makers(new) \subseteq Makers(pass'.view) /\ Makers(new) \subseteq Makers(Cached(chunks'))
      BY <1>1, <2>2, <2>3, <2>4 DEF IInv, Stream, Deleting
    <3>5. DOMAIN pass'.view # {}
      BY <1>1, <2>4 DEF IInv, Stream
    <3>6. gone' /\ "unseen" \notin missed' => Makers(new) = {}
      BY <1>1, <2>2 DEF IInv, Stream
    <3>7. QED
      BY <2>3, <3>2, <3>3, <3>4, <3>5, <3>6 DEF Stream, Deleting
  <2>9. Names'
    <3>1. "uncached" \notin missed' => DOMAIN Stored(sets') = {}
      BY <1>1 DEF IInv, Names
    <3>2. QED
      BY <2>4, <3>1 DEF Names
  <2>10. Whole'
    BY <1>1, <1>5, <2>4 DEF IInv, Whole
  <2>11. QED
    BY <1>2, <2>6, <2>7, <2>8, <2>9, <2>10 DEF IInv
<1>6. QED
  BY <1>4, <1>5 DEF DeleteChunk

LEMMA EndChunksKeeps ==
  ASSUME IInv, EndChunks
  PROVE  IInv'
<1>1. /\ pass.at = "chunks" /\ pass.todo = << >>
      /\ UNCHANGED <<served, mapper, chunks, sets, resources, worker, missed, taken, faults>>
      /\ IF pass.ready THEN gone' = TRUE /\ pass' = Idle
                       ELSE gone' = FALSE /\ pass' = [pass EXCEPT !.at = "seal"]
  BY DEF EndChunks, kinds
<1>2. Onward' /\ Applier'
  BY <1>1, SameApplier
<1>3. /\ pass \in [at : {"idle", "orphans", "sets", "chunks", "seal"}, view : Streams,
                   ready : BOOLEAN, todo : Seq(Nat), counted : Nat]
  BY DEF IInv, Types
<1>4. Makers(Stored(chunks)) = {}
  <2>1. ToSet(pass.todo) = {}
    BY <1>1 DEF ToSet
  <2>2. QED
    BY <1>1, <2>1 DEF IInv, Stream
<1>5. \/ pass'.at = "seal" /\ pass'.view = pass.view /\ pass'.counted = pass.counted
      \/ pass'.at = "idle" /\ pass'.view = << >> /\ pass'.counted = 0
  BY <1>1, <1>3 DEF Idle
<1>6. Types'
  <2>1. pass' \in [at : {"idle", "orphans", "sets", "chunks", "seal"}, view : Streams,
                   ready : BOOLEAN, todo : Seq(Nat), counted : Nat]
    BY <1>1, <1>3, AtRest
  <2>2. QED
    BY <1>1, <2>1 DEF IInv, Types
<1>7. Counts'
  <2>1. Cardinality(Named(<< >>)) = 0
    BY NothingNamed, FS_EmptySet
  <2>2. QED
    BY <1>1, <1>5, <2>1 DEF IInv, Counts
<1>8. Stream'
  BY <1>1, <1>4, <1>5 DEF IInv, Stream, Behind, Deleting
<1>9. Names'
  BY <1>1, <1>5 DEF IInv, Names
<1>10. Whole'
  BY <1>1, <1>5, StillWhole
<1>11. QED
  BY <1>2, <1>6, <1>7, <1>8, <1>9, <1>10 DEF IInv

LEMMA SaveSealKeeps ==
  ASSUME IInv, SaveSeal
  PROVE  IInv'
<1>1. /\ pass.at = "seal" /\ pass' = Idle
      /\ UNCHANGED <<served, mapper, gone, sets, resources, worker, missed, taken>>
  BY DEF SaveSeal, kinds
<1>3. /\ pass \in [at : {"idle", "orphans", "sets", "chunks", "seal"}, view : Streams,
                   ready : BOOLEAN, todo : Seq(Nat), counted : Nat]
      /\ chunks \in Feeds(Streams) /\ Len(chunks) \in Nat \ {0}
      /\ Stored(chunks) = chunks[Len(chunks)]
  BY FeedEnds DEF IInv, Types
<1>4. PICK next : next = Max(DOMAIN pass.view) + 1
  OBVIOUS
<1>5. PICK b \in Nat : DOMAIN pass.view \in SUBSET (1..b)
  BY <1>3, StreamFacts
<1>6. next \in 1..(b + 1) /\ b + 1 \in Nat
  <2>1. DOMAIN pass.view # {}
    BY <1>1 DEF IInv, Stream
  <2>2. Max(DOMAIN pass.view) \in DOMAIN pass.view
    BY <1>5, <2>1, Greatest
  <2>3. QED
    BY <1>4, <1>5, <2>2
<1>7. PICK new : new = Put(Stored(chunks), next, Seal)
  OBVIOUS
<1>8. chunks' = chunks \/ (next \notin DOMAIN Stored(chunks) /\ chunks' = Publish(chunks, new))
  BY <1>4, <1>7 DEF SaveSeal
<1>9. /\ chunks' \in Feeds(Streams) /\ Cached(chunks') = Cached(chunks)
      /\ Makers(Stored(chunks')) = Makers(Stored(chunks))
      /\ Named(Stored(chunks')) = Named(Stored(chunks))
      /\ \A i \in 1..Len(chunks') :
            chunks'[i] \in {chunks[j] : j \in 1..Len(chunks)} \cup {Stored(chunks')}
      /\ \A i \in 1..Len(chunks') : \E j \in 1..Len(chunks) :
            /\ Makers(chunks'[i]) = Makers(chunks[j]) /\ Named(chunks'[i]) = Named(chunks[j])
            /\ i # 1 => j # 1 \/ chunks[1] = Stored(chunks)
  <2>1. CASE chunks' = chunks
    BY <1>3, <2>1
  <2>2. CASE next \notin DOMAIN Stored(chunks) /\ chunks' = Publish(chunks, new)
    <3>1. /\ new \in Streams /\ Makers(new) = Makers(Stored(chunks))
          /\ Named(new) = Named(Stored(chunks))
      BY <1>6, <1>7, <2>2, CachedStream, AddSeal
    <3>2. /\ chunks' \in Feeds(Streams) /\ Stored(chunks') = new
          /\ Cached(chunks') = Cached(chunks)
          /\ Len(chunks') \in {Len(chunks), Len(chunks) + 1} /\ chunks'[Len(chunks')] = new
          /\ \A i \in 1..Len(chunks) : chunks'[i] = chunks[i]
      <4>1. new \in Streams /\ chunks \in Feeds(Streams) /\ chunks' = Publish(chunks, new)
        BY <1>3, <2>2, <3>1
      <4>2. QED
        BY <4>1, PublishFeed
    <3>3. ASSUME NEW i \in 1..Len(chunks')
          PROVE  \E j \in 1..Len(chunks) :
                   /\ Makers(chunks'[i]) = Makers(chunks[j])
                   /\ Named(chunks'[i]) = Named(chunks[j])
                   /\ i # 1 => j # 1 \/ chunks[1] = Stored(chunks)
      <4>1. CASE i \in 1..Len(chunks)
        BY <3>2, <4>1
      <4>2. CASE i = Len(chunks')
        <5>1. /\ Makers(chunks'[i]) = Makers(chunks[Len(chunks)])
              /\ Named(chunks'[i]) = Named(chunks[Len(chunks)])
          BY <1>3, <3>1, <3>2, <4>2
        <5>2. Len(chunks) \in 1..Len(chunks)
          BY <1>3
        <5>3. QED
          BY <1>3, <5>1, <5>2
      <4>3. QED
        BY <1>3, <3>2, <4>1, <4>2
    <3>4. \A i \in 1..Len(chunks') : i \in 1..Len(chunks) \/ i = Len(chunks')
      BY <1>3, <3>2
    <3>5. \A i \in 1..Len(chunks') :
             chunks'[i] \in {chunks[j] : j \in 1..Len(chunks)} \cup {Stored(chunks')}
      BY <3>2, <3>4
    <3>6. QED
      BY <3>1, <3>2, <3>3, <3>5
  <2>3. QED
    BY <1>8, <2>1, <2>2
<1>10. pass'.at = "idle" /\ pass'.view = << >> /\ pass'.counted = 0
  BY <1>1 DEF Idle
<1>11. Types'
  BY <1>1, <1>9, AtRest DEF IInv, Types
<1>12. Counts'
  <2>1. Cardinality(Named(<< >>)) = 0
    BY NothingNamed, FS_EmptySet
  <2>2. QED
    BY <1>10, <2>1 DEF Counts
<1>13. Stream'
  <2>1. Behind' <=> Behind
    BY <1>1, <1>9 DEF Behind
  <2>2. ASSUME NEW i \in 1..Len(chunks')
        PROVE  Makers(Stored(chunks')) \subseteq Makers(chunks'[i]) \/ (i = 1 /\ Behind')
    <3>1. PICK j \in 1..Len(chunks) :
              /\ Makers(chunks'[i]) = Makers(chunks[j])
              /\ i # 1 => j # 1 \/ chunks[1] = Stored(chunks)
      BY <1>9
    <3>2. CASE j = 1 /\ chunks[1] = Stored(chunks)
      BY <1>9, <3>1, <3>2
    <3>3. CASE ~(j = 1 /\ chunks[1] = Stored(chunks))
      BY <1>9, <2>1, <3>1, <3>3 DEF IInv, Stream
    <3>4. QED
      BY <3>2, <3>3
  <2>3. gone' /\ "unseen" \notin missed' => Makers(Stored(chunks')) = {}
    BY <1>1, <1>9 DEF IInv, Stream
  <2>4. QED
    BY <1>10, <2>2, <2>3 DEF Stream, Deleting
<1>14. Names'
  BY <1>1, <1>9, <1>10 DEF IInv, Names
<1>15. Onward' /\ Applier'
  BY <1>1, <1>9, <1>10, SameApplier
<1>16. Whole'
  <2>1. ASSUME ~taken PROVE \A i \in 1..Len(chunks') :
                                Sealed(chunks'[i]) => Named(chunks'[i]) = Named(Stored(chunks'))
    BY <1>9, <2>1 DEF IInv, Whole
  <2>2. taken' = taken /\ sets' = sets /\ worker' = worker
    BY <1>1
  <2>3. QED
    BY <1>9, <1>10, <2>1, <2>2 DEF IInv, Whole
<1>17. QED
  BY <1>11, <1>12, <1>13, <1>14, <1>15, <1>16 DEF IInv

\* A set of a pass is visited: AfterDelete is what remains, which needs no
\* resource of it unless the set is missed.
LEMMA VisitedSet ==
  ASSUME NEW s \in Tables, NEW n
  PROVE  /\ Rewrites(s, AfterDelete(s, n))
         /\ n \notin DOMAIN s \/ ~s[n].active \/ s[n].held =>
               Active(AfterDelete(s, n)) = Active(s)
<1>1. PICK t : t = AfterDelete(s, n)
  OBVIOUS
<1>2. CASE n \notin DOMAIN s
  BY <1>2 DEF AfterDelete, Rewrites
<1>3. CASE n \in DOMAIN s /\ s[n].held
  <2>1. t = [s EXCEPT ![n].deleting = TRUE]
    BY <1>1, <1>3 DEF AfterDelete
  <2>2. Rewrites(s, t) /\ Active(t) = Active(s)
    BY <1>3, <2>1, MarkSet
  <2>3. QED
    BY <1>1, <2>2
<1>4. CASE n \in DOMAIN s /\ ~s[n].held
  <2>1. t = Without(s, {n})
    BY <1>1, <1>4 DEF AfterDelete
  <2>2. Rewrites(s, t) /\ Active(t) = Active(s) \ {n}
    BY <2>1, DropSet
  <2>3. ~s[n].active => Active(t) = Active(s)
    BY <2>2 DEF Active
  <2>4. QED
    BY <1>1, <1>4, <2>2, <2>3
<1>5. QED
  BY <1>2, <1>3, <1>4

\* A write to the sets by which none stops being active leaves Applier alone,
\* as long as the worker applies nothing new.
LEMMA WrittenSets ==
  ASSUME IInv, NEW t, Rewrites(Stored(sets), t), sets' = Publish(sets, t),
         missed \subseteq missed', missed' = {} => Active(t) = Active(Stored(sets)),
         UNCHANGED <<chunks, taken, resources>>
  PROVE  /\ sets' \in Feeds(Tables) /\ Onward' /\ Stored(sets') = t
         /\ Cached(sets') = Cached(sets) /\ DOMAIN t \subseteq DOMAIN Stored(sets)
         /\ \A i \in 1..Len(sets') :
               \E j \in 1..Len(sets) : DOMAIN sets'[i] \subseteq DOMAIN sets[j]
         /\ Readings' /\ Owned'
         /\ Intact' => Intact /\ ActiveSets' = ActiveSets /\ TopSet' = TopSet
         /\ (\A i \in 1..Len(sets) : Live(sets[i]) = {}) =>
               \A i \in 1..Len(sets') : Live(sets'[i]) = {}
<1>1. /\ sets' \in Feeds(Tables) /\ Onward' /\ Stored(sets') = t
      /\ Cached(sets') = Cached(sets)
      /\ \A i \in 1..Len(sets') :
            IF i \in 1..Len(sets) THEN sets'[i] = sets[i] ELSE sets'[i] = t
  BY WriteSets DEF IInv, Types
<1>2. ActiveSets = Active(Stored(sets)) /\ ActiveSets' = Active(t)
  BY <1>1 DEF ActiveSets, Active
<1>3. /\ Len(sets) \in Nat \ {0} /\ Stored(sets) = sets[Len(sets)]
      /\ Len(sets') \in Nat \ {0}
  BY <1>1, FeedEnds DEF IInv, Types
<1>4. Intact' => Intact /\ ActiveSets' = ActiveSets /\ TopSet' = TopSet
  BY <1>2 DEF Intact, TopSet
<1>5. DOMAIN t \subseteq DOMAIN Stored(sets)
  BY DEF Rewrites
<1>6. \A i \in 1..Len(sets') :
         \E j \in 1..Len(sets) : DOMAIN sets'[i] \subseteq DOMAIN sets[j]
  <2>1. Len(sets) \in 1..Len(sets)
    BY <1>3
  <2>2. QED
    BY <1>1, <1>3, <1>5, <2>1
<1>7. Live(t) \subseteq ActiveSets' /\ Live(t) \subseteq Live(Stored(sets))
  <2>1. Live(t) \subseteq ActiveSets'
    BY <1>2 DEF Live
  <2>2. Live(t) \subseteq Live(Stored(sets))
    BY DEF Live, Active, Rewrites
  <2>3. QED
    BY <2>1, <2>2
<1>8. Readings'
  <2>1. ASSUME Intact', NEW i \in 1..Len(sets'), NEW j \in 1..Len(sets'), i <= j,
               TopSet' \cap DOMAIN sets'[i] # {} \/ TopSet' \cap ActiveSets' = {}
        PROVE  Live(sets'[j]) \subseteq ActiveSets'
    <3>1. CASE j \in 1..Len(sets)
      <4>1. i \in 1..Len(sets)
        BY <1>3, <2>1, <3>1
      <4>2. sets'[i] = sets[i] /\ sets'[j] = sets[j]
        BY <1>1, <3>1, <4>1
      <4>3. QED
        BY <1>4, <2>1, <3>1, <4>1, <4>2 DEF IInv, Applier, Readings
    <3>2. CASE j \notin 1..Len(sets)
      <4>1. sets'[j] = t
        BY <1>1, <3>2
      <4>2. QED
        BY <1>7, <4>1
    <3>3. QED
      BY <3>1, <3>2
  <2>2. QED
    BY <2>1 DEF Readings
<1>9. Owned'
  BY <1>4 DEF IInv, Applier, Owned
<1>10. (\A i \in 1..Len(sets) : Live(sets[i]) = {}) =>
          \A i \in 1..Len(sets') : Live(sets'[i]) = {}
  <2>1. Len(sets) \in 1..Len(sets)
    BY <1>3
  <2>2. QED
    BY <1>1, <1>3, <1>7, <2>1
<1>11. QED
  BY <1>1, <1>4, <1>5, <1>6, <1>8, <1>9, <1>10

\* What the worker cleans up stays marked.
LEMMA StillMarked ==
  ASSUME IInv, Rewrites(Stored(sets), Stored(sets')), resources' = resources,
         worker' = worker \/ worker' = NoWork
  PROVE  Marked'
BY DEF IInv, Applier, Marked, Rewrites, NoWork

\* Then the rest of Applier follows, when the worker does the same or nothing.
LEMMA StillApplier ==
  ASSUME IInv, NEW t, Rewrites(Stored(sets), t), sets' = Publish(sets, t),
         missed \subseteq missed', missed' = {} => Active(t) = Active(Stored(sets)),
         UNCHANGED <<chunks, taken, resources>>, pass'.at = "chunks" => pass.at = "chunks",
         worker' = worker \/ worker' = NoWork
  PROVE  /\ sets' \in Feeds(Tables) /\ Onward' /\ Stored(sets') = t /\ Applier'
         /\ DOMAIN t \subseteq DOMAIN Stored(sets)
         /\ \A i \in 1..Len(sets') :
               \E j \in 1..Len(sets) : DOMAIN sets'[i] \subseteq DOMAIN sets[j]
<1>1. /\ sets' \in Feeds(Tables) /\ Onward' /\ Stored(sets') = t
      /\ DOMAIN t \subseteq DOMAIN Stored(sets)
      /\ \A i \in 1..Len(sets') :
            \E j \in 1..Len(sets) : DOMAIN sets'[i] \subseteq DOMAIN sets[j]
      /\ Readings' /\ Owned'
      /\ Intact' => Intact /\ ActiveSets' = ActiveSets /\ TopSet' = TopSet
      /\ (\A i \in 1..Len(sets) : Live(sets[i]) = {}) =>
            \A i \in 1..Len(sets') : Live(sets'[i]) = {}
  BY WrittenSets
<1>2. worker'.at # "idle" => worker' = worker
  BY DEF NoWork
<1>3. Marked'
  BY <1>1, StillMarked
<1>4. Applies'
  BY <1>1, <1>2 DEF IInv, Applier, Applies
<1>5. Cleared'
  <2>1. missed' = {} /\ (taken' \/ pass'.at = "chunks") =>
           missed = {} /\ (taken \/ pass.at = "chunks")
    OBVIOUS
  <2>2. QED
    BY <1>1, <1>2, <2>1 DEF IInv, Applier, Cleared
<1>6. QED
  BY <1>1, <1>3, <1>4, <1>5 DEF Applier

LEMMA DeleteSetKeeps ==
  ASSUME IInv, DeleteSet
  PROVE  IInv'
<1>1. PICK n : n = Head(pass.todo)
  OBVIOUS
<1>2. PICK t : t = IF n \in DOMAIN Cached(sets) THEN AfterDelete(Stored(sets), n)
                                                ELSE Stored(sets)
  OBVIOUS
<1>3. /\ pass.at = "sets" /\ pass.todo # << >>
      /\ UNCHANGED <<served, mapper, gone, chunks, resources, worker, taken>>
      /\ pass' = [pass EXCEPT !.todo = Tail(@), !.counted = @ + Count(n)]
  BY <1>1 DEF DeleteSet, kinds
<1>4. \/ sets' = (IF n \in DOMAIN Cached(sets) THEN Publish(sets, AfterDelete(Stored(sets), n))
                                               ELSE sets)
         /\ missed' = missed \cup NewlyMissed(n)
      \/ n \in DOMAIN Cached(sets) /\ UNCHANGED <<sets, missed>>
  BY <1>1 DEF DeleteSet
<1>5. /\ Stored(sets) \in Tables /\ sets \in Feeds(Tables)
      /\ Rewrites(Stored(sets), Stored(sets)) /\ Publish(sets, Stored(sets)) = sets
  BY CachedStream, SameSets DEF IInv, Types
<1>6. /\ pass \in [at : {"idle", "orphans", "sets", "chunks", "seal"}, view : Streams,
                   ready : BOOLEAN, todo : Seq(Nat), counted : Nat]
  BY DEF IInv, Types
<1>7. /\ Tail(pass.todo) \in Seq(Nat) /\ Len(Tail(pass.todo)) = Len(pass.todo) - 1
      /\ ToSet(pass.todo) = {n} \cup ToSet(Tail(pass.todo)) /\ Len(pass.todo) \in Nat
  BY <1>1, <1>3, <1>6, HeadAndTail
<1>8. Count(n) \in {0, 1} /\ (Count(n) = 1 <=> n \notin DOMAIN Cached(sets))
  BY DEF Count
<1>9. /\ pass'.at = "sets" /\ pass'.view = pass.view /\ pass'.todo = Tail(pass.todo)
      /\ pass'.counted = pass.counted + Count(n)
  BY <1>3, <1>6
<1>10. PICK u : /\ sets' = Publish(sets, u) /\ Rewrites(Stored(sets), u)
                /\ missed' = {} => missed = {} /\ Active(u) = Active(Stored(sets))
  <2>1. CASE UNCHANGED <<sets, missed>>
    BY <1>5, <2>1
  <2>2. CASE n \notin DOMAIN Cached(sets) /\ sets' = sets /\ missed' = missed \cup NewlyMissed(n)
    BY <1>5, <2>2
  <2>3. CASE /\ n \in DOMAIN Cached(sets)
             /\ sets' = Publish(sets, AfterDelete(Stored(sets), n))
             /\ missed' = missed \cup NewlyMissed(n)
    <3>1. missed' = {} => missed = {} /\ NewlyMissed(n) = {}
      BY <2>3
    <3>2. NewlyMissed(n) = {} /\ n \in DOMAIN Stored(sets) =>
              ~Stored(sets)[n].active \/ Stored(sets)[n].held
      BY <2>3 DEF NewlyMissed
    <3>3. QED
      BY <1>5, <2>3, <3>1, <3>2, VisitedSet
  <2>4. QED
    BY <1>4, <2>1, <2>2, <2>3
<1>11. missed \subseteq missed' /\ missed' \subseteq {"unborn", "unheld", "uncached", "unseen", "orphaned"}
  BY <1>4 DEF IInv, Types, NewlyMissed
<1>12. /\ sets' \in Feeds(Tables) /\ Onward' /\ Stored(sets') = u /\ Applier'
       /\ DOMAIN u \subseteq DOMAIN Stored(sets)
       /\ \A i \in 1..Len(sets') :
             \E j \in 1..Len(sets) : DOMAIN sets'[i] \subseteq DOMAIN sets[j]
  BY <1>3, <1>9, <1>10, <1>11, StillApplier
<1>13. Types'
  <2>1. pass' \in [at : {"idle", "orphans", "sets", "chunks", "seal"}, view : Streams,
                   ready : BOOLEAN, todo : Seq(Nat), counted : Nat]
    <3>1. pass.counted + Count(n) \in Nat
      BY <1>6, <1>8
    <3>2. QED
      BY <1>3, <1>6, <1>7, <3>1
  <2>2. QED
    BY <1>3, <1>11, <1>12, <2>1 DEF IInv, Types
<1>14. PICK C : C = Cardinality(Named(pass.view))
  OBVIOUS
<1>15. C \in Nat /\ pass.counted \in Nat /\ pass.counted + Len(pass.todo) <= C
  <2>1. C \in Nat
    BY <1>6, <1>14, StreamFacts, Listing, MaxSetsAssumption
  <2>2. QED
    BY <1>3, <1>6, <1>14, <2>1 DEF IInv, Counts
<1>16. Counts'
  BY <1>7, <1>8, <1>9, <1>14, <1>15 DEF Counts
<1>17. Stream'
  BY <1>3, <1>9, <1>11 DEF IInv, Stream, Behind, Deleting
<1>18. Names'
  <2>1. ASSUME "uncached" \notin missed',
               pass'.counted + Len(pass'.todo) = Cardinality(Named(pass'.view))
        PROVE  DOMAIN Stored(sets') \subseteq ToSet(pass'.todo)
    <3>1. n \notin DOMAIN Cached(sets) /\ pass.counted + Len(pass.todo) = C
      BY <1>7, <1>8, <1>9, <1>14, <1>15, <2>1
    <3>2. n \notin DOMAIN Stored(sets)
      BY <1>4, <2>1, <3>1 DEF NewlyMissed
    <3>3. DOMAIN Stored(sets) \subseteq ToSet(pass.todo)
      BY <1>3, <1>11, <1>14, <2>1, <3>1 DEF IInv, Names
    <3>4. QED
      BY <1>7, <1>9, <1>12, <3>2, <3>3
  <2>2. QED
    BY <1>3, <1>9, <1>11, <1>12, <2>1 DEF IInv, Names
<1>19. Whole'
  <2>1. Sealed(pass.view)
    BY <1>3 DEF IInv, Whole
  <2>2. QED
    BY <1>3, <1>9, <1>12, <2>1, StillWhole
<1>20. QED
  BY <1>12, <1>13, <1>16, <1>17, <1>18, <1>19 DEF IInv

-----------------------------------------------------------------------------
(* The steps of the ResourceSet controller. *)

\* The current set, when there is one, is one set, and orphans none that it has.
LEMMA OneTopSet ==
  /\ \A n \in TopSet : TopSet = {n}
  /\ Orphans(Stored(chunks)) = ResourcesOf(Named(Stored(chunks))) \ ResourcesOf(TopSet)
BY DEF TopSet, LastNamed, Orphans

LEMMA SameSetIsStored ==
  ASSUME NEW n \in DOMAIN Cached(sets), UpToDate(sets, n)
  PROVE  n \in DOMAIN Stored(sets) /\ Stored(sets)[n] = Cached(sets)[n]
BY DEF UpToDate

LEMMA StartSetKeeps ==
  ASSUME IInv, NEW n \in SetNumbers, StartSet(n)
  PROVE  IInv'
<1>1. PICK set : set = Cached(sets)[n]
  OBVIOUS
<1>2. /\ worker = NoWork /\ n \in DOMAIN Cached(sets) /\ ~set.deleting
      /\ set.held \/ UpToDate(sets, n)
      /\ sets' = (IF set.held THEN sets
                  ELSE Publish(sets, [Stored(sets) EXCEPT ![n].held = TRUE]))
      /\ worker' = (IF set.active THEN Applying(n, Ascending(Contents[n])) ELSE worker)
      /\ UNCHANGED <<served, mapper, gone, chunks, resources, pass, missed, taken, faults>>
  BY <1>1 DEF StartSet, kinds
<1>3. /\ Stored(sets) \in Tables /\ sets \in Feeds(Tables)
      /\ Rewrites(Stored(sets), Stored(sets)) /\ Publish(sets, Stored(sets)) = sets
      /\ Cached(sets) = sets[1] /\ 1 \in 1..Len(sets)
  BY CachedStream, SameSets, FeedEnds DEF IInv, Types
<1>4. PICK t : /\ sets' = Publish(sets, t) /\ Rewrites(Stored(sets), t)
               /\ Active(t) = Active(Stored(sets))
  <2>1. CASE set.held
    BY <1>2, <1>3, <2>1
  <2>2. CASE ~set.held
    <3>1. n \in DOMAIN Stored(sets)
      BY <1>2, <2>2, SameSetIsStored
    <3>2. PICK t : t = [Stored(sets) EXCEPT ![n].held = TRUE]
      OBVIOUS
    <3>3. Rewrites(Stored(sets), t) /\ Active(t) = Active(Stored(sets))
      BY <1>3, <3>1, <3>2, MarkSet
    <3>4. QED
      BY <1>2, <2>2, <3>2, <3>3
  <2>3. QED
    BY <2>1, <2>2
<1>5. /\ sets' \in Feeds(Tables) /\ Onward' /\ Stored(sets') = t
      /\ DOMAIN t \subseteq DOMAIN Stored(sets)
      /\ \A i \in 1..Len(sets') :
            \E j \in 1..Len(sets) : DOMAIN sets'[i] \subseteq DOMAIN sets[j]
      /\ Readings' /\ Owned'
      /\ Intact' => Intact /\ ActiveSets' = ActiveSets /\ TopSet' = TopSet
      /\ (\A i \in 1..Len(sets) : Live(sets[i]) = {}) =>
            \A i \in 1..Len(sets') : Live(sets'[i]) = {}
  BY <1>2, <1>4, WrittenSets
<1>6. CASE ~set.active
  <2>1. worker' = worker
    BY <1>2, <1>6
  <2>2. Applier'
    BY <1>2, <1>4, <2>1, StillApplier
  <2>3. Types'
    BY <1>2, <1>5, <2>1 DEF IInv, Types
  <2>4. Counts' /\ Stream' /\ Names'
    BY <1>2, <1>5, SameStream
  <2>5. worker'.at # "apply"
    BY <1>2, <2>1 DEF NoWork
  <2>6. \A i \in 1..Len(chunks') : \E j \in 1..Len(chunks) : chunks'[i] = chunks[j]
    BY <1>2
  <2>7. Whole'
    BY <1>2, <1>5, <2>5, <2>6, StillWhole
  <2>8. QED
    BY <1>5, <2>2, <2>3, <2>4, <2>7 DEF IInv
<1>7. CASE set.active
  <2>1. /\ worker'.at = "apply" /\ worker'.set = n
        /\ worker'.todo = Ascending(Contents[n]) /\ worker'.clean = TRUE
        /\ worker' = [set |-> n, at |-> "apply", todo |-> Ascending(Contents[n]), clean |-> TRUE]
    BY <1>2, <1>7 DEF Applying
  <2>2. Ascending(Contents[n]) \in Seq(Contents[n]) /\ n \in Nat
        /\ Ascending(Contents[n]) \in Seq(DOMAIN Resources)
    BY InOrder, Sublist
  <2>3. Marked'
    BY <2>1, <2>2 DEF Marked
  <2>4. n \in Live(sets[1])
    BY <1>1, <1>2, <1>3, <1>7 DEF Live, Active
  <2>5. Applies'
    <3>1. ASSUME Intact', TopSet' \cap ActiveSets' = {} PROVE n \in ActiveSets'
      <4>1. Live(sets[1]) \subseteq ActiveSets
        BY <1>3, <1>5, <3>1 DEF IInv, Applier, Readings
      <4>2. QED
        BY <1>5, <2>4, <3>1, <4>1
    <3>2. QED
      BY <2>1, <3>1 DEF Applies
  <2>6. Cleared'
    BY <1>2, <1>3, <2>4 DEF IInv, Applier, Cleared
  <2>7. Types'
    <3>1. worker' \in [set : Nat, at : {"idle", "apply", "clean"},
                       todo : Seq(DOMAIN Resources), clean : BOOLEAN]
      BY <2>1, <2>2
    <3>2. QED
      BY <1>2, <1>5, <3>1 DEF IInv, Types
  <2>8. Counts' /\ Stream' /\ Names'
    BY <1>2, <1>5, SameStream
  <2>9. Whole'
    <3>1. \E j \in 1..Len(sets) : worker'.set \in DOMAIN sets[j]
      BY <1>2, <1>3, <2>1
    <3>2. \A i \in 1..Len(chunks') : \E j \in 1..Len(chunks) : chunks'[i] = chunks[j]
      BY <1>2
    <3>3. QED
      BY <1>2, <1>5, <3>1, <3>2, StillWhole
  <2>10. QED
    BY <1>5, <2>3, <2>5, <2>6, <2>7, <2>8, <2>9 DEF IInv, Applier
<1>8. QED
  BY <1>6, <1>7

LEMMA ApplyNextKeeps ==
  ASSUME IInv, ApplyNext
  PROVE  IInv'
<1>1. PICK i : i = Head(worker.todo)
  OBVIOUS
<1>2. /\ worker.at = "apply" /\ worker.todo # << >>
      /\ \/ resources' = [resources EXCEPT ![i] = IF @ = "absent" THEN "live" ELSE @]
         \/ resources' = resources
      /\ worker' = [worker EXCEPT !.todo = Tail(@)]
      /\ UNCHANGED <<gone, chunks, sets, served, pass, missed, taken>>
  BY <1>1 DEF ApplyNext
<1>3. /\ worker \in [set : Nat, at : {"idle", "apply", "clean"},
                     todo : Seq(DOMAIN Resources), clean : BOOLEAN]
      /\ resources \in [DOMAIN Resources -> {"absent", "live", "terminating"}]
      /\ worker.set \in SetNumbers /\ worker.todo \in Seq(Contents[worker.set])
  BY <1>2 DEF IInv, Types, Applier, Marked
<1>4. /\ Tail(worker.todo) \in Seq(DOMAIN Resources)
      /\ Tail(worker.todo) \in Seq(Contents[worker.set]) /\ i \in Contents[worker.set]
  BY <1>1, <1>2, <1>3, HeadAndTail
<1>5. /\ worker'.at = "apply" /\ worker'.set = worker.set /\ worker'.todo = Tail(worker.todo)
      /\ worker' \in [set : Nat, at : {"idle", "apply", "clean"},
                      todo : Seq(DOMAIN Resources), clean : BOOLEAN]
  BY <1>2, <1>3, <1>4
<1>6. /\ ActiveSets' = ActiveSets /\ TopSet' = TopSet /\ (Intact' <=> Intact)
      /\ Orphans(Stored(chunks')) = Orphans(Stored(chunks))
  BY <1>2 DEF ActiveSets, TopSet, Intact
<1>7. /\ resources' \in [DOMAIN Resources -> {"absent", "live", "terminating"}]
      /\ \A r \in DOMAIN Resources : r # i => resources'[r] = resources[r]
  BY <1>2, <1>3
<1>8. Types'
  BY <1>2, <1>5, <1>7 DEF IInv, Types
<1>9. Onward' /\ Counts' /\ Stream' /\ Names'
  BY <1>2, SameStream DEF IInv, Onward
<1>10. Whole'
  BY <1>2, <1>5, StillWhole
<1>11. Marked'
  BY <1>3, <1>4, <1>5 DEF Marked
<1>12. Readings' /\ Applies'
  BY <1>2, <1>5, <1>6 DEF IInv, Applier, Readings, Applies
<1>13. Owned'
  <2>1. ASSUME Intact PROVE i \in Orphans(Stored(chunks)) \cup ResourcesOf(ActiveSets)
    <3>1. CASE worker.set \in ActiveSets
      BY <1>4, <3>1 DEF ResourcesOf
    <3>2. CASE worker.set \notin ActiveSets
      <4>1. TopSet \cap ActiveSets # {}
        BY <1>2, <2>1, <3>2 DEF IInv, Applier, Applies
      <4>2. TopSet \subseteq ActiveSets
        BY <4>1, OneTopSet
      <4>3. worker.set \in Named(Stored(chunks))
        BY <1>2, <2>1 DEF IInv, Whole, Intact
      <4>4. i \in ResourcesOf(Named(Stored(chunks)))
        BY <1>4, <4>3 DEF ResourcesOf
      <4>5. ResourcesOf(TopSet) \subseteq ResourcesOf(ActiveSets)
        BY <4>2 DEF ResourcesOf
      <4>6. QED
        BY <4>4, <4>5, OneTopSet
    <3>3. QED
      BY <3>1, <3>2
  <2>2. QED
    BY <1>6, <1>7, <2>1 DEF IInv, Applier, Owned
<1>14. Cleared'
  BY <1>2 DEF IInv, Applier, Cleared
<1>15. QED
  BY <1>8, <1>9, <1>10, <1>11, <1>12, <1>13, <1>14 DEF IInv, Applier

LEMMA EndSetKeeps ==
  ASSUME IInv, EndSet
  PROVE  IInv'
<1>1. /\ worker.at = "apply" /\ worker' = NoWork
      /\ UNCHANGED <<served, mapper, gone, chunks, sets, resources, pass, missed, taken, faults>>
  BY DEF EndSet, kinds
<1>2. /\ sets \in Feeds(Tables) /\ Rewrites(Stored(sets), Stored(sets))
      /\ Publish(sets, Stored(sets)) = sets
  BY SameSets DEF IInv, Types
<1>3. /\ Onward' /\ Applier' /\ DOMAIN Stored(sets') \subseteq DOMAIN Stored(sets)
      /\ \A i \in 1..Len(sets') :
            \E j \in 1..Len(sets) : DOMAIN sets'[i] \subseteq DOMAIN sets[j]
  BY <1>1, <1>2, StillApplier
<1>4. Counts' /\ Stream' /\ Names'
  BY <1>1, SameStream
<1>5. Types'
  BY <1>1, AtRest DEF IInv, Types
<1>6. Whole'
  <2>1. worker'.at # "apply"
    BY <1>1 DEF NoWork
  <2>2. QED
    BY <1>1, <1>3, <2>1, StillWhole
<1>7. QED
  BY <1>3, <1>4, <1>5, <1>6 DEF IInv

\* A mark in the cache is a mark in what is stored.
LEMMA MarksStay ==
  ASSUME IInv, NEW n \in DOMAIN Cached(sets), n \in DOMAIN Stored(sets)
  PROVE  /\ Cached(sets)[n].deleting => Stored(sets)[n].deleting
         /\ Cached(sets)[n].terminating => Stored(sets)[n].terminating
<1>1. PICK N : N = Len(sets)
  OBVIOUS
<1>2. /\ N \in Nat \ {0} /\ Cached(sets) = sets[1] /\ Stored(sets) = sets[N]
  BY <1>1, FeedEnds DEF IInv, Types
<1>3. Follows(sets[1], sets[N])
  BY <1>1, <1>2 DEF IInv, Onward
<1>4. QED
  BY <1>2, <1>3 DEF Follows

LEMMA StartFinalizerKeeps ==
  ASSUME IInv, NEW n \in SetNumbers, StartFinalizer(n)
  PROVE  IInv'
<1>1. PICK set : set = Cached(sets)[n]
  OBVIOUS
<1>2. PICK list : list = Descending(Contents[n])
  OBVIOUS
<1>3. /\ worker = NoWork /\ n \in DOMAIN Cached(sets) /\ set.deleting
      /\ UNCHANGED <<served, mapper, gone, chunks, resources, pass, missed, taken, faults>>
      /\ \/ /\ ~set.active /\ UpToDate(sets, n)
            /\ sets' = Publish(sets, Without(Stored(sets), {n}))
            /\ worker' = worker
         \/ /\ UpToDate(sets, n)
            /\ sets' = Publish(sets, [Stored(sets) EXCEPT ![n].terminating = TRUE])
            /\ worker' = worker
         \/ /\ set.terminating
            /\ worker' = [set |-> n, at |-> "clean", clean |-> TRUE, todo |-> list]
            /\ sets' = sets
  BY <1>1, <1>2 DEF StartFinalizer, kinds, Terminating
<1>4. /\ Stored(sets) \in Tables /\ sets \in Feeds(Tables)
      /\ Rewrites(Stored(sets), Stored(sets)) /\ Publish(sets, Stored(sets)) = sets
  BY CachedStream, SameSets DEF IInv, Types
<1>5. PICK t : /\ sets' = Publish(sets, t) /\ Rewrites(Stored(sets), t)
               /\ Active(t) = Active(Stored(sets))
               /\ worker' # worker => t = Stored(sets)
  <2>1. CASE /\ ~set.active /\ UpToDate(sets, n)
             /\ sets' = Publish(sets, Without(Stored(sets), {n})) /\ worker' = worker
    <3>1. n \in DOMAIN Stored(sets) /\ ~Stored(sets)[n].active
      BY <1>1, <1>3, <2>1, SameSetIsStored
    <3>2. PICK t : t = Without(Stored(sets), {n})
      OBVIOUS
    <3>3. Rewrites(Stored(sets), t) /\ Active(t) = Active(Stored(sets)) \ {n}
      BY <1>4, <3>2, DropSet
    <3>4. Active(t) = Active(Stored(sets))
      BY <3>1, <3>3 DEF Active
    <3>5. QED
      BY <2>1, <3>2, <3>3, <3>4
  <2>2. CASE /\ UpToDate(sets, n) /\ worker' = worker
             /\ sets' = Publish(sets, [Stored(sets) EXCEPT ![n].terminating = TRUE])
    <3>1. n \in DOMAIN Stored(sets)
      BY <1>3, <2>2, SameSetIsStored
    <3>2. PICK t : t = [Stored(sets) EXCEPT ![n].terminating = TRUE]
      OBVIOUS
    <3>3. Rewrites(Stored(sets), t) /\ Active(t) = Active(Stored(sets))
      BY <1>4, <3>1, <3>2, MarkSet
    <3>4. QED
      BY <2>2, <3>2, <3>3
  <2>3. CASE sets' = sets
    BY <1>4, <2>3
  <2>4. QED
    BY <1>3, <2>1, <2>2, <2>3
<1>6. \/ worker' = worker /\ worker'.at = "idle"
      \/ /\ set.terminating /\ sets' = sets
         /\ worker' = [set |-> n, at |-> "clean", clean |-> TRUE, todo |-> list]
         /\ worker'.at = "clean" /\ worker'.set = n /\ worker'.todo = list
  BY <1>3 DEF NoWork
<1>7. /\ sets' \in Feeds(Tables) /\ Onward' /\ Stored(sets') = t
      /\ DOMAIN t \subseteq DOMAIN Stored(sets)
      /\ \A i \in 1..Len(sets') :
            \E j \in 1..Len(sets) : DOMAIN sets'[i] \subseteq DOMAIN sets[j]
      /\ Readings' /\ Owned'
      /\ Intact' => Intact /\ ActiveSets' = ActiveSets /\ TopSet' = TopSet
      /\ (\A i \in 1..Len(sets) : Live(sets[i]) = {}) =>
            \A i \in 1..Len(sets') : Live(sets'[i]) = {}
  BY <1>3, <1>5, WrittenSets
<1>8. Applier'
  <2>1. CASE worker' = worker /\ worker'.at = "idle"
    BY <1>3, <1>5, <2>1, StillApplier
  <2>2. CASE /\ set.terminating /\ sets' = sets
             /\ worker'.at = "clean" /\ worker'.set = n /\ worker'.todo = list
    <3>1. n \in DOMAIN Stored(sets) =>
              Stored(sets)[n].deleting /\ Stored(sets)[n].terminating
      BY <1>1, <1>3, <2>2, MarksStay
    <3>2. ToSet(worker'.todo) = Contents[n] /\ worker'.todo \in Seq(Contents[n])
      BY <1>2, <2>2, InOrder
    <3>3. Marked'
      BY <2>2, <3>1, <3>2 DEF Marked
    <3>4. Applies'
      BY <2>2 DEF Applies
    <3>5. Cleared'
      BY <1>3, <1>7, <2>2 DEF IInv, Applier, Cleared
    <3>6. QED
      BY <1>7, <3>3, <3>4, <3>5 DEF Applier
  <2>3. QED
    BY <1>6, <2>1, <2>2
<1>9. Counts' /\ Stream' /\ Names'
  BY <1>3, <1>7, SameStream
<1>10. Types'
  <2>1. worker' \in [set : Nat, at : {"idle", "apply", "clean"},
                     todo : Seq(DOMAIN Resources), clean : BOOLEAN]
    <3>1. n \in Nat /\ list \in Seq(DOMAIN Resources)
      BY <1>2, InOrder, Sublist
    <3>2. CASE worker' = worker
      BY <3>2 DEF IInv, Types
    <3>3. CASE worker' = [set |-> n, at |-> "clean", clean |-> TRUE, todo |-> list]
      BY <3>1, <3>3
    <3>4. QED
      BY <1>6, <3>2, <3>3
  <2>2. QED
    BY <1>3, <1>7, <2>1 DEF IInv, Types
<1>11. Whole'
  <2>1. worker'.at # "apply"
    BY <1>6
  <2>2. \A i \in 1..Len(chunks') : \E j \in 1..Len(chunks) : chunks'[i] = chunks[j]
    BY <1>3
  <2>3. QED
    BY <1>3, <1>7, <2>1, <2>2, StillWhole
<1>12. QED
  BY <1>7, <1>8, <1>9, <1>10, <1>11 DEF IInv

LEMMA CleanNextKeeps ==
  ASSUME IInv, CleanNext
  PROVE  IInv'
<1>1. PICK i : i = Head(worker.todo)
  OBVIOUS
<1>2. PICK state \in {"absent", "terminating", resources[i]} :
        /\ resources[i] = "absent" \/ ~Maps(i) => state = resources[i]
        /\ resources' = [resources EXCEPT ![i] = state]
        /\ worker' = [worker EXCEPT !.todo = Tail(@),
                         !.clean = @ /\ Maps(i) /\ state # "live" /\ Confirmed(state)]
  BY <1>1 DEF CleanNext
<1>3. /\ worker.at = "clean" /\ worker.todo # << >>
      /\ UNCHANGED <<gone, chunks, sets, served, pass, missed, taken>>
  BY DEF CleanNext
<1>4. /\ worker \in [set : Nat, at : {"idle", "apply", "clean"},
                     todo : Seq(DOMAIN Resources), clean : BOOLEAN]
      /\ resources \in [DOMAIN Resources -> {"absent", "live", "terminating"}]
  BY DEF IInv, Types
<1>14. worker.set \in SetNumbers /\ worker.todo \in Seq(Contents[worker.set])
  BY <1>3 DEF IInv, Applier, Marked
<1>5. /\ Tail(worker.todo) \in Seq(DOMAIN Resources) /\ i \in DOMAIN Resources
      /\ Tail(worker.todo) \in Seq(Contents[worker.set])
      /\ ToSet(worker.todo) = {i} \cup ToSet(Tail(worker.todo))
  BY <1>1, <1>3, <1>4, <1>14, HeadAndTail
<1>6. PICK done \in BOOLEAN : done <=> Maps(i) /\ state # "live" /\ Confirmed(state)
  OBVIOUS
<1>7. /\ worker'.at = "clean" /\ worker'.set = worker.set
      /\ worker'.todo = Tail(worker.todo)
      /\ worker'.clean => worker.clean /\ state = "absent"
      /\ worker' \in [set : Nat, at : {"idle", "apply", "clean"},
                      todo : Seq(DOMAIN Resources), clean : BOOLEAN]
  BY <1>2, <1>3, <1>4, <1>5 DEF Confirmed
<1>8. /\ resources' \in [DOMAIN Resources -> {"absent", "live", "terminating"}]
      /\ resources'[i] = state
      /\ \A r \in DOMAIN Resources :
            /\ resources[r] = "absent" => resources'[r] = "absent"
            /\ resources'[r] = "live" => resources[r] = "live"
  BY <1>2, <1>4, <1>5
<1>9. Types'
  BY <1>3, <1>7, <1>8 DEF IInv, Types
<1>10. Onward' /\ Counts' /\ Stream' /\ Names'
  BY <1>3, SameStream DEF IInv, Onward
<1>11. Marked'
  <2>1. worker'.clean =>
          \A r \in Contents[worker'.set] : r \in ToSet(worker'.todo) \/ resources'[r] = "absent"
    <3>1. Contents[worker.set] \subseteq DOMAIN Resources
      BY <1>14, InOrder
    <3>2. QED
      BY <1>3, <1>5, <1>7, <1>8, <3>1 DEF IInv, Applier, Marked
  <2>2. QED
    BY <1>3, <1>14, <1>5, <1>7, <2>1 DEF IInv, Applier, Marked
<1>12. Readings' /\ Applies' /\ Owned' /\ Cleared'
  BY <1>3, <1>7, <1>8, FewerResources
<1>13. Whole'
  <2>1. worker'.at # "apply"
    BY <1>7
  <2>2. QED
    BY <1>3, <2>1, StillWhole
<1>15. QED
  BY <1>9, <1>10, <1>11, <1>12, <1>13 DEF IInv, Applier

\* A set that the cache shows as deleted is not applied from a later reading.
LEMMA NotApplied ==
  ASSUME IInv, NEW n \in DOMAIN Cached(sets), Cached(sets)[n].deleting
  PROVE  \A i \in 1..Len(sets) : n \notin Live(sets[i])
<1>1. Len(sets) \in Nat \ {0} /\ Cached(sets) = sets[1]
  BY FeedEnds DEF IInv, Types
<1>2. \A i \in 1..Len(sets) : Follows(sets[1], sets[i])
  BY <1>1 DEF IInv, Onward
<1>3. QED
  BY <1>1, <1>2 DEF Follows, Live, Active

LEMMA EndCleanKeeps ==
  ASSUME IInv, EndClean
  PROVE  IInv'
<1>1. PICK n : n = worker.set
  OBVIOUS
<1>2. /\ worker.at = "clean" /\ worker.todo = << >> /\ worker' = NoWork
      /\ sets' = IF worker.clean /\ UpToDate(sets, n)
                 THEN Publish(sets, Without(Stored(sets), {n})) ELSE sets
      /\ UNCHANGED <<served, mapper, gone, chunks, resources, pass, missed, taken, faults>>
  BY <1>1 DEF EndClean, kinds
<1>3. /\ Stored(sets) \in Tables /\ sets \in Feeds(Tables)
      /\ Rewrites(Stored(sets), Stored(sets)) /\ Publish(sets, Stored(sets)) = sets
      /\ Len(sets) \in Nat \ {0} /\ Stored(sets) = sets[Len(sets)] /\ Cached(sets) = sets[1]
  BY CachedStream, SameSets, FeedEnds DEF IInv, Types
<1>4. worker'.at = "idle"
  BY <1>2 DEF NoWork
<1>5. PICK t : /\ sets' = Publish(sets, t) /\ Rewrites(Stored(sets), t)
               /\ \/ Active(t) = Active(Stored(sets))
                  \/ /\ worker.clean /\ UpToDate(sets, n) /\ n \in Active(Stored(sets))
                     /\ Active(t) = Active(Stored(sets)) \ {n}
  <2>1. CASE worker.clean /\ UpToDate(sets, n)
    <3>1. PICK t : t = Without(Stored(sets), {n})
      OBVIOUS
    <3>2. Rewrites(Stored(sets), t) /\ Active(t) = Active(Stored(sets)) \ {n}
      BY <1>3, <3>1, DropSet
    <3>3. QED
      BY <1>2, <2>1, <3>1, <3>2
  <2>2. CASE ~(worker.clean /\ UpToDate(sets, n))
    BY <1>2, <1>3, <2>2
  <2>3. QED
    BY <2>1, <2>2
<1>6. /\ sets' \in Feeds(Tables) /\ Onward' /\ Stored(sets') = t
      /\ \A i \in 1..Len(sets') :
            IF i \in 1..Len(sets) THEN sets'[i] = sets[i] ELSE sets'[i] = t
  BY <1>3, <1>5, WriteSets DEF IInv
<1>7. DOMAIN t \subseteq DOMAIN Stored(sets)
  BY <1>5 DEF Rewrites
<1>8. Counts' /\ Stream' /\ Names' /\ Types'
  <2>1. Counts' /\ Stream' /\ Names'
    BY <1>2, <1>6, <1>7, SameStream
  <2>2. Types'
    BY <1>2, <1>6, AtRest DEF IInv, Types
  <2>3. QED
    BY <2>1, <2>2
<1>9. Whole'
  <2>1. \A i \in 1..Len(sets') :
           \E j \in 1..Len(sets) : DOMAIN sets'[i] \subseteq DOMAIN sets[j]
    <3>1. Len(sets) \in 1..Len(sets)
      BY <1>3
    <3>2. QED
      BY <1>3, <1>6, <1>7, <3>1
  <2>2. \A i \in 1..Len(chunks') : \E j \in 1..Len(chunks) : chunks'[i] = chunks[j]
    BY <1>2
  <2>3. QED
    BY <1>2, <1>4, <2>1, <2>2, StillWhole
<1>10. CASE Active(t) = Active(Stored(sets))
  <2>1. Applier'
    BY <1>2, <1>5, <1>10, StillApplier
  <2>2. QED
    BY <1>6, <1>8, <1>9, <2>1 DEF IInv
<1>11. CASE /\ worker.clean /\ UpToDate(sets, n) /\ n \in Active(Stored(sets))
            /\ Active(t) = Active(Stored(sets)) \ {n}
  <2>1. n \in DOMAIN Cached(sets) /\ Cached(sets)[n].deleting
    <3>1. n \in DOMAIN Stored(sets)
      BY <1>11 DEF Active
    <3>2. Stored(sets)[n].deleting
      BY <1>1, <1>2, <3>1 DEF IInv, Applier, Marked
    <3>3. QED
      BY <1>11, <3>1, <3>2 DEF UpToDate
  <2>2. \A i \in 1..Len(sets) : n \notin Live(sets[i])
    BY <2>1, NotApplied
  <2>3. /\ ActiveSets' = ActiveSets \ {n} /\ TopSet' = TopSet /\ (Intact' <=> Intact)
        /\ Orphans(Stored(chunks')) = Orphans(Stored(chunks)) /\ n \in ActiveSets
    BY <1>2, <1>6, <1>11 DEF ActiveSets, Active, TopSet, Intact
  <2>4. Live(t) \subseteq ActiveSets' /\ Live(t) \subseteq Live(Stored(sets))
    <3>1. Live(t) \subseteq ActiveSets'
      BY <1>6 DEF Live, ActiveSets, Active
    <3>2. Live(t) \subseteq Live(Stored(sets))
      BY <1>5 DEF Live, Active, Rewrites
    <3>3. QED
      BY <3>1, <3>2
  <2>5. Marked' /\ Applies'
    BY <1>4 DEF Marked, Applies
  <2>6. ASSUME Intact', NEW i \in 1..Len(sets'), NEW j \in 1..Len(sets'), i <= j,
               TopSet' \cap DOMAIN sets'[i] # {} \/ TopSet' \cap ActiveSets' = {}
        PROVE  Live(sets'[j]) \subseteq ActiveSets'
    <3>1. CASE j \notin 1..Len(sets)
      BY <1>6, <2>4, <3>1
    <3>2. CASE j \in 1..Len(sets)
      <4>1. i \in 1..Len(sets) /\ sets'[i] = sets[i] /\ sets'[j] = sets[j]
        <5>1. Len(sets') \in Nat \ {0}
          BY <1>6, FeedEnds
        <5>2. i \in 1..Len(sets)
          BY <1>3, <2>6, <3>2, <5>1
        <5>3. QED
          BY <1>6, <3>2, <5>2
      <4>2. CASE TopSet \cap DOMAIN sets[i] # {} \/ TopSet \cap ActiveSets = {}
        <5>1. Live(sets[j]) \subseteq ActiveSets
          BY <2>3, <2>6, <3>2, <4>1, <4>2 DEF IInv, Applier, Readings
        <5>2. QED
          BY <2>2, <2>3, <3>2, <4>1, <5>1
      <4>3. CASE TopSet \cap ActiveSets # {} /\ TopSet \cap (ActiveSets \ {n}) = {}
        <5>1. n \in TopSet /\ n \in DOMAIN sets[1] /\ 1 \in 1..Len(sets) /\ 1 <= j
          BY <1>3, <2>1, <3>2, <4>3
        <5>2. Live(sets[j]) \subseteq ActiveSets
          BY <2>3, <2>6, <3>2, <5>1 DEF IInv, Applier, Readings
        <5>3. QED
          BY <2>2, <2>3, <3>2, <4>1, <5>2
      <4>4. QED
        BY <2>3, <2>6, <4>1, <4>2, <4>3
    <3>3. QED
      BY <3>1, <3>2
  <2>7. Readings'
    BY <2>6 DEF Readings
  <2>8. Owned'
    <3>1. ToSet(worker.todo) = {}
      BY <1>2 DEF ToSet
    <3>2. \A r \in Contents[n] : resources[r] = "absent"
      BY <1>1, <1>2, <1>11, <3>1 DEF IInv, Applier, Marked
    <3>3. ResourcesOf(ActiveSets) \subseteq ResourcesOf(ActiveSets \ {n}) \cup Contents[n]
      BY DEF ResourcesOf
    <3>4. QED
      BY <1>2, <2>3, <3>2, <3>3 DEF IInv, Applier, Owned
  <2>9. Cleared'
    <3>1. ASSUME \A i \in 1..Len(sets) : Live(sets[i]) = {}
          PROVE  \A i \in 1..Len(sets') : Live(sets'[i]) = {}
      <4>1. Live(t) = {}
        <5>1. Len(sets) \in 1..Len(sets)
          BY <1>3
        <5>2. QED
          BY <1>3, <2>4, <3>1, <5>1
      <4>2. QED
        BY <1>6, <3>1, <4>1
    <3>2. QED
      BY <1>2, <1>4, <3>1 DEF IInv, Applier, Cleared
  <2>10. QED
    BY <1>6, <1>8, <1>9, <2>5, <2>7, <2>8, <2>9 DEF IInv, Applier
<1>12. QED
  BY <1>5, <1>10, <1>11

-----------------------------------------------------------------------------
(* What else happens to resources. *)

LEMMA GoesAway ==
  ASSUME IInv, NEW i \in DOMAIN Resources,
         resources' = [resources EXCEPT ![i] = "absent"] \/ resources' = resources,
         UNCHANGED <<gone, chunks, sets, pass, worker, missed, taken>>,
         served' \cup Passing = DOMAIN Resources
  PROVE  IInv'
<1>1. /\ resources' \in [DOMAIN Resources -> {"absent", "live", "terminating"}]
      /\ \A r \in DOMAIN Resources :
            /\ resources[r] = "absent" => resources'[r] = "absent"
            /\ resources'[r] = "live" => resources[r] = "live"
  <2>1. resources \in [DOMAIN Resources -> {"absent", "live", "terminating"}]
    BY DEF IInv, Types
  <2>2. CASE resources' = resources
    BY <2>1, <2>2
  <2>3. CASE resources' = [resources EXCEPT ![i] = "absent"]
    BY <2>1, <2>3
  <2>4. QED
    BY <2>1, <2>2, <2>3
<1>2. Types'
  BY <1>1 DEF IInv, Types
<1>3. Onward' /\ Counts' /\ Stream' /\ Names'
  BY SameStream DEF IInv, Onward
<1>4. Marked'
  <2>1. worker.at = "clean" => Contents[worker.set] \subseteq DOMAIN Resources
    BY InOrder DEF IInv, Applier, Marked
  <2>2. QED
    BY <1>1, <2>1 DEF IInv, Applier, Marked
<1>5. Readings' /\ Applies' /\ Owned' /\ Cleared'
  BY <1>1, FewerResources
<1>6. Whole'
  BY StillWhole
<1>7. QED
  BY <1>2, <1>3, <1>4, <1>5, <1>6 DEF IInv, Applier

LEMMA ResourceKeeps ==
  ASSUME IInv,
         \/ \E i \in DOMAIN Resources : Vanish(i)
         \/ \E i \in Passing : Withdraw(i) \/ Restore(i)
  PROVE  IInv'
<1> USE DEF kinds
<1>0. served \cup Passing = DOMAIN Resources
  BY DEF IInv, Types
<1>1. ASSUME NEW i \in DOMAIN Resources, Vanish(i) PROVE IInv'
  <2>1. /\ resources' = [resources EXCEPT ![i] = "absent"] /\ served' = served
        /\ UNCHANGED <<gone, chunks, sets, pass, worker, missed, taken>>
    BY <1>1 DEF Vanish
  <2>2. QED
    BY <1>0, <2>1, GoesAway
<1>2. ASSUME NEW i \in Passing, Withdraw(i) PROVE IInv'
  <2>1. i \in DOMAIN Resources
    BY PassingAssumption
  <2>2. served' \cup Passing = DOMAIN Resources
    BY <1>0, <1>2 DEF Withdraw
  <2>3. /\ resources' = [resources EXCEPT ![i] = "absent"]
        /\ UNCHANGED <<gone, chunks, sets, pass, worker, missed, taken>>
    BY <1>2 DEF Withdraw
  <2>4. QED
    BY <2>1, <2>2, <2>3, GoesAway
<1>3. ASSUME NEW i \in Passing, Restore(i) PROVE IInv'
  <2>1. i \in DOMAIN Resources
    BY PassingAssumption
  <2>2. served' \cup Passing = DOMAIN Resources
    BY <1>0, <1>3, <2>1 DEF Restore
  <2>3. UNCHANGED <<gone, chunks, sets, resources, pass, worker, missed, taken>>
    BY <1>3 DEF Restore
  <2>4. QED
    BY <2>1, <2>2, <2>3, GoesAway
<1>4. QED
  BY <1>1, <1>2, <1>3

-----------------------------------------------------------------------------
(* What a live tenant leaves. *)

LEMMA Lines ==
  ASSUME NEW top \in 0..(MaxSets + 1)
  PROVE  /\ Line(top) \in Streams /\ ~Sealed(Line(top)) /\ Makers(Line(top)) = 1..top
         /\ Named(Line(top)) = 1..(top - 1)
<1>1. PICK line : line = Line(top)
  OBVIOUS
<1>2. DOMAIN line = 1..top /\ \A v \in 1..top : line[v] = Created(v)
  BY <1>1 DEF Line
<1>3. top \in Nat /\ MaxSets \in Nat /\ top <= MaxSets + 1
  BY MaxSetsAssumption
<1>4. \A v \in 1..top : Created(v).makes = {v - 1} \ {0} /\ Created(v).seals = FALSE
  BY DEF Created
<1>5. \A v \in 1..top : {v - 1} \ {0} \subseteq 1..MaxSets
  BY <1>3
<1>6. \A v \in 1..top : Created(v) \in Commits
  BY <1>5 DEF Created, Commits, SetNumbers
<1>7. line \in [1..top -> Commits]
  BY <1>1, <1>6 DEF Line
<1>8. 1..top \in Bounded
  BY <1>3 DEF Bounded
<1>9. line \in Streams
  BY <1>7, <1>8 DEF Streams
<1>10. ~Sealed(line) /\ Makers(line) = 1..top
  BY <1>2, <1>4 DEF Sealed, Makers
<1>11. ASSUME NEW n \in 1..(top - 1) PROVE n \in Named(line)
  <2>1. n + 1 \in 1..top /\ n \in {(n + 1) - 1} \ {0}
    BY <1>3
  <2>2. n \in line[n + 1].makes
    BY <1>2, <1>4, <2>1
  <2>3. QED
    BY <1>2, <2>1, <2>2 DEF Named, AllMade
<1>12. ASSUME NEW n \in Named(line) PROVE n \in 1..(top - 1)
  <2>1. PICK v \in 1..top : n \in line[v].makes
    BY <1>2, <1>12 DEF Named, AllMade
  <2>2. n \in {v - 1} \ {0}
    BY <1>2, <1>4, <2>1
  <2>3. QED
    BY <1>3, <2>1, <2>2
<1>13. QED
  BY <1>1, <1>9, <1>10, <1>11, <1>12

LEMMA LiveTable ==
  ASSUME NEW newest \in Int, newest <= MaxSets, NEW t \in LiveTables(newest)
  PROVE  /\ t \in Tables /\ DOMAIN t \subseteq 1..newest
         /\ \A n \in DOMAIN t : ~t[n].terminating
         /\ newest \in DOMAIN t => newest \in Active(t)
<1>1. PICK D \in SUBSET (1..newest) :
         t \in [D -> {Set(a, h) : a, h \in BOOLEAN} \cup {Dropped}]
  BY DEF LiveTables
<1>2. ASSUME NEW a \in BOOLEAN, NEW h \in BOOLEAN
      PROVE  Set(a, h) \in States /\ ~Set(a, h).terminating
  <2>1. PICK x : x = Set(a, h)
    OBVIOUS
  <2>2. x = [active |-> a, held |-> h, deleting |-> FALSE, terminating |-> FALSE]
    BY <2>1 DEF Set
  <2>3. x \in States /\ ~x.terminating
    BY <2>2 DEF States
  <2>4. QED
    BY <2>1, <2>3
<1>3. PICK d : d = Set(FALSE, TRUE)
  OBVIOUS
<1>4. Dropped \in States /\ ~Dropped.terminating
  <2>1. d \in States /\ ~d.terminating
    BY <1>2, <1>3
  <2>2. PICK e : e = [d EXCEPT !.deleting = TRUE]
    OBVIOUS
  <2>3. e \in States /\ ~e.terminating
    BY <2>1, <2>2 DEF States
  <2>4. QED
    BY <1>3, <2>2, <2>3 DEF Dropped
<1>5. t \in [D -> States] /\ \A n \in D : ~t[n].terminating
  BY <1>1, <1>2, <1>4
<1>6. D \in SUBSET SetNumbers
  BY MaxSetsAssumption DEF SetNumbers
<1>7. t \in Tables /\ DOMAIN t = D
  BY <1>5, <1>6 DEF Tables
<1>8. newest \in DOMAIN t => newest \in Active(t)
  BY DEF LiveTables
<1>9. QED
  BY <1>5, <1>7, <1>8

\* The readings of the cache, none of which takes a mark back.
LEMMA LiveFeed ==
  ASSUME NEW newest \in Int, newest <= MaxSets, sets \in LiveFeeds(newest)
  PROVE  /\ sets \in Feeds(Tables) /\ Onward
         /\ \A i \in 1..Len(sets) : sets[i] \in LiveTables(newest)
         /\ \A i, j \in 1..Len(sets) : i <= j => Succeeds(sets[j], sets[i], newest)
<1>1. PICK l \in 1..MaxLag : sets \in [1..l -> LiveTables(newest)]
  BY DEF LiveFeeds
<1>2. l \in Nat \ {0}
  BY MaxLagAssumption
<1>3. \A i \in 1..l : sets[i] \in Tables /\ sets[i] \in LiveTables(newest)
  BY <1>1, LiveTable
<1>4. sets \in Seq(Tables) /\ Len(sets) = l /\ DOMAIN sets = 1..l
  BY <1>1, <1>2, <1>3
<1>5. sets \in Feeds(Tables)
  BY <1>2, <1>4 DEF Feeds
<1>6. \A i, j \in 1..Len(sets) : i <= j => Succeeds(sets[j], sets[i], newest)
  BY <1>4 DEF LiveFeeds
<1>7. \A i, j \in 1..Len(sets) : i <= j => Follows(sets[i], sets[j])
  <2>1. \A i \in 1..Len(sets) : \A n \in DOMAIN sets[i] : ~sets[i][n].terminating
    BY <1>3, <1>4, LiveTable
  <2>2. QED
    BY <1>6, <2>1 DEF Follows, Succeeds
<1>8. QED
  BY <1>3, <1>4, <1>5, <1>6, <1>7 DEF Onward

LEMMA Initially == Init => IInv
<1> SUFFICES ASSUME Init PROVE IInv
  OBVIOUS
<1>1. PICK top \in 1..(MaxSets + 1) : \E cached \in {top - 1, top} :
          /\ chunks = [i \in 1..(top - cached + 1) |-> Line(cached + i - 1)]
          /\ sets \in LiveFeeds(cached - 1)
          /\ missed = IF DOMAIN Stored(sets) # {} /\ top - 1 \notin DOMAIN Stored(sets)
                      THEN {"unborn"} ELSE {}
  BY DEF Init
<1>2. PICK cached \in {top - 1, top} :
          /\ chunks = [i \in 1..(top - cached + 1) |-> Line(cached + i - 1)]
          /\ sets \in LiveFeeds(cached - 1)
          /\ missed = IF DOMAIN Stored(sets) # {} /\ top - 1 \notin DOMAIN Stored(sets)
                      THEN {"unborn"} ELSE {}
  BY <1>1
<1>3. /\ served = DOMAIN Resources /\ gone = FALSE /\ pass = Idle /\ taken = FALSE
      /\ resources \in [DOMAIN Resources -> {"absent", "live", "terminating"}]
      /\ \A i \in DOMAIN Resources : resources[i] # "absent" => i \in Applied(Stored(sets))
  BY DEF Init
<1>4. MaxSets \in Nat /\ top \in Nat \ {0} /\ cached \in Nat /\ top <= MaxSets + 1
  BY MaxSetsAssumption
<1>5. PICK newest \in Int : newest = cached - 1
  BY <1>4
<1>6. /\ newest <= MaxSets /\ newest <= top - 1
      /\ 1..newest \subseteq 1..(top - 1) /\ 1..newest \subseteq SetNumbers
  BY <1>4, <1>5 DEF SetNumbers
<1>7. /\ sets \in Feeds(Tables) /\ Onward
      /\ \A i \in 1..Len(sets) : sets[i] \in LiveTables(newest)
      /\ \A i, j \in 1..Len(sets) : i <= j => Succeeds(sets[j], sets[i], newest)
  BY <1>2, <1>5, <1>6, LiveFeed
<1>8. PICK L : L = Len(sets)
  OBVIOUS
<1>9. L \in Nat \ {0} /\ L \in 1..L /\ Stored(sets) = sets[L]
  BY <1>7, <1>8, FeedEnds
<1>10. \A i \in 1..L : DOMAIN sets[i] \subseteq 1..newest
  BY <1>6, <1>7, <1>8, LiveTable
<1>11. /\ Idle.at = "idle" /\ Idle.view = << >> /\ Idle.counted = 0 /\ NoWork.at = "idle"
  BY DEF Idle, NoWork
<1>12. \/ worker = NoWork
       \/ \E n \in DOMAIN Stored(sets) : \E todo \in Suffixes(Ascending(Contents[n])) :
             worker = Applying(n, todo)
  BY DEF Init
<1>13. /\ worker \in [set : Nat, at : {"idle", "apply", "clean"},
                      todo : Seq(DOMAIN Resources), clean : BOOLEAN]
       /\ worker.at = "idle" \/
             /\ worker.at = "apply" /\ worker.set \in DOMAIN Stored(sets)
             /\ worker.set \in SetNumbers /\ worker.todo \in Seq(Contents[worker.set])
  <2>1. CASE worker = NoWork
    BY <1>11, <2>1, AtRest
  <2>2. ASSUME NEW n \in DOMAIN Stored(sets), NEW todo \in Suffixes(Ascending(Contents[n])),
               worker = Applying(n, todo)
        PROVE  /\ worker \in [set : Nat, at : {"idle", "apply", "clean"},
                              todo : Seq(DOMAIN Resources), clean : BOOLEAN]
               /\ worker.at = "apply" /\ worker.set = n /\ n \in SetNumbers
               /\ worker.todo \in Seq(Contents[n])
    <3>1. n \in SetNumbers
      BY <1>6, <1>9, <1>10, <2>2
    <3>2. /\ Contents[n] \subseteq DOMAIN Resources /\ n \in Nat
          /\ Ascending(Contents[n]) \in Seq(Contents[n])
      BY <3>1, InOrder
    <3>3. PICK s : s = Ascending(Contents[n])
      OBVIOUS
    <3>4. todo \in Seq(Contents[n])
      <4>1. CASE todo = << >>
        BY <4>1
      <4>2. ASSUME NEW i \in 1..Len(s), todo = SubSeq(s, i, Len(s))
            PROVE  todo \in Seq(Contents[n])
        <5>1. s \in Seq(Contents[n]) /\ Len(s) \in 1..Len(s)
          BY <3>2, <3>3
        <5>2. \A k \in i..Len(s) : s[k] \in Contents[n]
          BY <5>1
        <5>3. PICK l : l = Len(s)
          OBVIOUS
        <5>4. i \in Int /\ l \in Int /\ \A k \in i..l : s[k] \in Contents[n]
          BY <5>1, <5>2, <5>3
        <5>5. SubSeq(s, i, l) \in Seq(Contents[n])
          BY <5>4, SubSeqProperties, Zenon
        <5>6. QED
          BY <4>2, <5>3, <5>5
      <4>3. QED
        BY <2>2, <3>3, <4>1, <4>2 DEF Suffixes
    <3>5. todo \in Seq(DOMAIN Resources)
      BY <3>2, <3>4, Sublist
    <3>6. QED
      BY <2>2, <3>1, <3>2, <3>4, <3>5 DEF Applying
  <2>3. QED
    BY <1>12, <2>1, <2>2
<1>14. PICK N : N = top - cached + 1
  OBVIOUS
<1>15. /\ N \in {1, 2} /\ cached + N - 1 = top
       /\ chunks = [i \in 1..N |-> Line(cached + i - 1)]
  BY <1>2, <1>4, <1>14
<1>16. \A i \in 1..N : cached + i - 1 \in 0..(MaxSets + 1)
  BY <1>4, <1>15
<1>17. chunks \in Seq(Streams) /\ Len(chunks) = N
  <2>1. \A i \in 1..N : chunks[i] \in Streams
    BY <1>15, <1>16, Lines
  <2>2. QED
    BY <1>15, <2>1
<1>18. chunks \in Feeds(Streams)
  BY <1>15, <1>17 DEF Feeds
<1>19. Stored(chunks) = Line(top) /\ Cached(chunks) = chunks[1]
  <2>1. Stored(chunks) = chunks[N] /\ N \in 1..N /\ Cached(chunks) = chunks[1]
    BY <1>15, <1>17, <1>18, FeedEnds
  <2>2. QED
    BY <1>15, <2>1
<1>20. Named(Stored(chunks)) = 1..(top - 1)
  BY <1>4, <1>19, Lines
<1>21. \A i \in 1..N : ~Sealed(chunks[i])
  BY <1>15, <1>16, Lines
<1>22. Types
  <2>1. served \cup Passing = DOMAIN Resources
    BY <1>3, PassingAssumption
  <2>2. missed \subseteq {"unborn", "unheld", "uncached", "unseen", "orphaned"}
    BY <1>2
  <2>3. QED
    BY <1>3, <1>7, <1>13, <1>18, <2>1, <2>2, AtRest DEF Types
<1>23. Counts
  <2>1. Cardinality(Named(<< >>)) = 0
    BY NothingNamed, FS_EmptySet
  <2>2. QED
    BY <1>3, <1>11, <2>1 DEF Counts
<1>24. Stream
  <2>1. ASSUME NEW i \in 1..Len(chunks)
        PROVE  Makers(Stored(chunks)) \subseteq Makers(chunks[i]) \/ (i = 1 /\ Behind)
    <3>1. CASE i = N
      <4>1. chunks[i] = Line(top)
        BY <1>15, <1>17, <2>1, <3>1
      <4>2. QED
        BY <1>19, <4>1
    <3>2. CASE i # N
      <4>1. i = 1
        BY <1>15, <1>17, <2>1, <3>2
      <4>2. QED
        BY <1>3, <1>15, <1>19, <1>21, <4>1 DEF Behind
    <3>3. QED
      BY <3>1, <3>2
  <2>2. QED
    BY <1>3, <1>11, <2>1 DEF Stream, Deleting
<1>25. Names
  <2>1. ASSUME NEW i \in 1..Len(chunks) PROVE DOMAIN Stored(sets) \subseteq Named(chunks[i])
    <3>1. PICK l : l = cached + i - 1
      OBVIOUS
    <3>2. chunks[i] = Line(l) /\ l \in 0..(MaxSets + 1) /\ newest <= l - 1
      BY <1>4, <1>5, <1>15, <1>16, <1>17, <2>1, <3>1
    <3>3. 1..newest \subseteq 1..(l - 1)
      BY <1>5, <3>2
    <3>4. QED
      BY <1>9, <1>10, <3>2, <3>3, Lines
  <2>2. QED
    BY <1>3, <1>11, <2>1 DEF Names
<1>26. Whole
  <2>1. \A i \in 1..Len(sets) : DOMAIN sets[i] \subseteq Named(Stored(chunks))
    BY <1>6, <1>8, <1>10, <1>20
  <2>2. worker.at = "apply" => worker.set \in Named(Stored(chunks))
    BY <1>8, <1>9, <1>13, <2>1
  <2>3. QED
    BY <1>3, <1>11, <1>17, <1>21, <2>1, <2>2 DEF Whole
<1>27. CASE missed = {} /\ DOMAIN Stored(sets) = {}
  <2>1. \A i \in 1..L : DOMAIN sets[i] = {}
    <3>1. ASSUME NEW i \in 1..L PROVE Succeeds(sets[L], sets[i], newest)
      BY <1>7, <1>8, <1>9
    <3>2. QED
      BY <1>9, <1>27, <3>1 DEF Succeeds
  <2>2. \A i \in 1..L : Live(sets[i]) = {}
    BY <2>1 DEF Live, Active
  <2>3. \A r \in DOMAIN Resources : resources[r] = "absent"
    BY <1>3, <1>27 DEF Applied, ResourcesOf
  <2>4. worker.at = "idle"
    BY <1>13, <1>27
  <2>5. Readings /\ Applies /\ Owned
    BY <1>8, <2>2, <2>3, <2>4 DEF Readings, Applies, Owned
  <2>6. Marked
    BY <2>4 DEF Marked
  <2>7. Cleared
    BY <1>3, <1>11 DEF Cleared
  <2>8. QED
    BY <1>7, <1>22, <1>23, <1>24, <1>25, <1>26, <2>5, <2>6, <2>7 DEF IInv, Applier
<1>28. CASE missed = {} /\ DOMAIN Stored(sets) # {}
  <2>1. top - 1 \in DOMAIN Stored(sets)
    BY <1>2, <1>28
  <2>2. newest = top - 1 /\ newest \in 1..(top - 1)
    <3>1. top - 1 \in 1..newest
      BY <1>9, <1>10, <2>1
    <3>2. QED
      BY <1>4, <1>6, <3>1
  <2>3. \A i \in 1..L : newest \in DOMAIN sets[i] => newest \in Active(sets[i])
    BY <1>6, <1>7, <1>8, LiveTable
  <2>4. newest \in ActiveSets
    BY <1>9, <2>1, <2>2, <2>3 DEF ActiveSets
  <2>5. TopSet = {newest}
    <3>1. 1..(top - 1) \in SUBSET (1..(top - 1)) /\ 1..(top - 1) # {} /\ top - 1 \in Nat
      BY <1>4, <2>2
    <3>2. /\ Max(1..(top - 1)) \in 1..(top - 1)
          /\ \A x \in 1..(top - 1) : x <= Max(1..(top - 1))
      BY <3>1, Greatest
    <3>3. Max(1..(top - 1)) = newest
      BY <1>4, <2>2, <3>2
    <3>4. AllMade(Stored(chunks)) = 1..(top - 1)
      BY <1>20 DEF Named
    <3>5. QED
      BY <3>1, <3>3, <3>4 DEF TopSet, LastNamed
  <2>6. Readings
    <3>1. ASSUME NEW i \in 1..L, NEW j \in 1..L, i <= j,
                 TopSet \cap DOMAIN sets[i] # {} \/ TopSet \cap ActiveSets = {}
          PROVE  Live(sets[j]) \subseteq ActiveSets
      <4>1. newest \in DOMAIN sets[i] /\ newest \in Active(sets[i])
        BY <2>3, <2>4, <2>5, <3>1
      <4>2. Succeeds(sets[j], sets[i], newest) /\ Succeeds(sets[L], sets[j], newest)
        BY <1>7, <1>8, <1>9, <3>1
      <4>3. newest \in DOMAIN sets[j]
        BY <4>1, <4>2 DEF Succeeds
      <4>4. Active(sets[j]) \subseteq Active(sets[L])
        BY <4>2, <4>3 DEF Succeeds
      <4>5. QED
        BY <1>9, <4>4 DEF ActiveSets, Live
    <3>2. QED
      BY <1>8, <3>1 DEF Readings
  <2>7. Applies
    BY <2>4, <2>5 DEF Applies
  <2>8. Owned
    <3>1. ASSUME NEW r \in DOMAIN Resources, resources[r] # "absent"
          PROVE  r \in Orphans(Stored(chunks)) \cup ResourcesOf(ActiveSets)
      <4>1. r \in Applied(Stored(sets))
        BY <1>3, <3>1
      <4>2. PICK n \in SetNumbers, m \in DOMAIN Stored(sets) : r \in Contents[n] /\ n <= m
        <5>1. PICK n \in SetNumbers : /\ r \in Contents[n]
                                      /\ \E m \in DOMAIN Stored(sets) :
                                            n < m \/ (n = m /\ Stored(sets)[m].held)
          BY <4>1 DEF Applied, ResourcesOf
        <5>2. PICK m \in DOMAIN Stored(sets) : n < m \/ n = m
          BY <5>1
        <5>3. m \in 1..newest
          BY <1>9, <1>10, <5>2
        <5>4. n <= m
          BY <5>2, <5>3 DEF SetNumbers
        <5>5. QED
          BY <5>1, <5>2, <5>4
      <4>3. n \in 1..(top - 1)
        <5>1. m \in 1..newest
          BY <1>9, <1>10, <4>2
        <5>2. QED
          BY <1>6, <4>2, <5>1 DEF SetNumbers
      <4>4. r \in ResourcesOf(Named(Stored(chunks)))
        BY <1>20, <4>2, <4>3 DEF ResourcesOf
      <4>5. ResourcesOf(TopSet) \subseteq ResourcesOf(ActiveSets)
        BY <2>4, <2>5 DEF ResourcesOf
      <4>6. QED
        BY <4>4, <4>5, OneTopSet
    <3>2. QED
      BY <3>1 DEF Owned
  <2>9. Marked
    BY <1>13 DEF Marked
  <2>10. Cleared
    BY <1>3, <1>11 DEF Cleared
  <2>11. QED
    BY <1>7, <1>22, <1>23, <1>24, <1>25, <1>26, <2>6, <2>7, <2>8, <2>9, <2>10
       DEF IInv, Applier
<1>29. CASE missed # {}
  <2>1. Readings /\ Applies /\ Owned
    BY <1>29 DEF Readings, Applies, Owned, Intact
  <2>2. Marked
    BY <1>13 DEF Marked
  <2>3. Cleared
    BY <1>29 DEF Cleared
  <2>4. QED
    BY <1>7, <1>22, <1>23, <1>24, <1>25, <1>26, <2>1, <2>2, <2>3 DEF IInv, Applier
<1>30. QED
  BY <1>27, <1>28, <1>29

-----------------------------------------------------------------------------
(* The theorems. *)

LEMMA Stuttering == IInv /\ UNCHANGED vars => IInv'
<1> SUFFICES ASSUME IInv, UNCHANGED vars PROVE IInv'
  OBVIOUS
<1>1. UNCHANGED <<gone, chunks, sets, resources, served, pass, worker, missed, taken>>
  BY DEF vars, kinds
<1>2. Types' /\ Counts' /\ Stream' /\ Names'
  BY <1>1 DEF IInv, Types, Counts, Stream, Behind, Deleting, Names
<1>3. Whole'
  BY <1>1, StillWhole
<1>4. Onward' /\ Applier'
  BY <1>1, SameApplier
<1>5. QED
  BY <1>2, <1>3, <1>4 DEF IInv

LEMMA Stepwise == IInv /\ [Next]_vars => IInv'
<1> SUFFICES ASSUME IInv, [Next]_vars PROVE IInv'
  OBVIOUS
<1>1. CASE UNCHANGED vars
  BY <1>1, Stuttering
<1>2. CASE DeliverChunk \/ DeliverSet \/ Restart
  BY <1>2, DeliverChunkKeeps, DeliverSetKeeps, StartsAgainKeeps DEF Restart
<1>3. CASE \/ \E i \in DOMAIN Resources : Vanish(i)
           \/ \E i \in Passing : Withdraw(i) \/ Restore(i)
  BY <1>3, ResourceKeeps
<1>4. CASE Finalizing
  BY <1>4, BeginPassKeeps, DeleteOrphansKeeps, DeleteSetKeeps, EndSetsKeeps, DeleteChunkKeeps, EndChunksKeeps,
     SaveSealKeeps DEF Finalizing
<1>5. CASE Working
  BY <1>5, ApplyNextKeeps, EndSetKeeps, StartsAgainKeeps, CleanNextKeeps, EndCleanKeeps
     DEF Working, Panic
<1>6. ASSUME NEW n \in SetNumbers, StartSet(n) \/ StartFinalizer(n) PROVE IInv'
  BY <1>6, StartSetKeeps, StartFinalizerKeeps
<1>7. QED
  BY <1>1, <1>2, <1>3, <1>4, <1>5, <1>6 DEF Next

\* The invariant holds from the deletion of a tenant on, whatever the live
\* tenant has left half-done.
THEOREM Inductive == Spec => []IInv
BY Initially, Stepwise, PTL DEF Spec

\* The variables of both controllers keep their types, a pass counts no set
\* twice, and a finalizer works for a set that is marked for it.
THEOREM TypesAreCorrect == Spec => []TypeOK
<1>1. IInv => TypeOK
  <2> SUFFICES ASSUME IInv PROVE TypeOK
    OBVIOUS
  <2>1. DOMAIN Stored(sets) \subseteq SetNumbers
    BY CachedStream, TableFacts
  <2>2. /\ pass \in [at : {"idle", "orphans", "sets", "chunks", "seal"}, view : Streams,
                     ready : BOOLEAN, todo : Seq(Nat), counted : Nat]
    BY DEF IInv, Types
  <2>3. PICK C : C = Cardinality(Named(pass.view))
    OBVIOUS
  <2>4. C \in Nat
    BY <2>2, <2>3, StreamFacts, Listing, MaxSetsAssumption
  <2>5. pass.counted <= C
    <3>1. Len(pass.todo) \in Nat /\ pass.counted \in Nat
      BY <2>2
    <3>2. QED
      BY <2>3, <2>4, <3>1 DEF IInv, Counts
  <2>6. pass.counted \in 0..Cardinality(Named(pass.view))
    BY <2>2, <2>3, <2>4, <2>5
  <2>7. QED
    BY <2>1, <2>2, <2>6 DEF IInv, Types, Applier, Marked, TypeOK
<1>2. QED
  BY <1>1, Inductive, PTL

\* The stream, which alone knows the names of the sets, is deleted after all
\* of them: a pass that counts as many deleted sets as the stream names has
\* found none of them in the cluster.
THEOREM SetsGoFirst == Spec => []SetsGoBeforeTheStream
<1>1. IInv => SetsGoBeforeTheStream
  BY DEF IInv, Names, SetsGoBeforeTheStream
<1>2. QED
  BY <1>1, Inductive, PTL

\* The last active set goes after its resources, and no reading of an active
\* set that is still on its way to the cache brings one of them back; what is
\* left are orphans, and they are being deleted before the stream goes.
THEOREM ResourcesGoFirst == Spec => []ResourcesGoBeforeTheSet
<1>1. IInv => ResourcesGoBeforeTheSet
  <2> SUFFICES ASSUME IInv, missed = {}, ActiveSets = {}, NEW r \in DOMAIN resources
               PROVE  \/ resources[r] = "absent"
                      \/ ~taken /\ r \in Orphans(Stored(chunks))
                      \/ taken /\ resources[r] = "terminating"
    BY DEF ResourcesGoBeforeTheSet
  <2>1. resources \in [DOMAIN Resources -> {"absent", "live", "terminating"}]
    BY DEF IInv, Types
  <2>2. CASE taken
    BY <2>1, <2>2 DEF IInv, Applier, Cleared
  <2>3. CASE ~taken
    <3>1. ResourcesOf(ActiveSets) = {}
      BY DEF ResourcesOf
    <3>2. QED
      BY <2>1, <2>3, <3>1 DEF IInv, Applier, Owned, Intact
  <2>4. QED
    BY <2>2, <2>3
<1>2. QED
  BY <1>1, Inductive, PTL

\* A tenant that is gone has left nothing of its stream but seals, even when
\* one pass has deleted the stream in part and another has sealed the rest.
THEOREM SealsRemain == Spec => []OnlySealsAreLeft
<1>1. IInv => OnlySealsAreLeft
  BY DEF IInv, Stream, Makers, OnlySealsAreLeft
<1>2. QED
  BY <1>1, Inductive, PTL
=============================================================================
