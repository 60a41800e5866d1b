------------------------- MODULE EventStore_proofs --------------------------
(***************************************************************************)
(* Proofs about the event store, for any number of operator processes and  *)
(* any bounds.                                                             *)
(*                                                                         *)
(* The inductive invariant says why a name is lock enough: while the       *)
(* stream is linear every revision of it is, and until the first deletion  *)
(* an earlier revision is a part of every later one.  A process whose      *)
(* stream lacks a commit therefore names its own after a version that is   *)
(* taken.                                                                  *)
(***************************************************************************)
EXTENDS EventStore, TLAPS

\* While the line of commits is unbroken, so was every revision of it.
Prefix(s) == \E n \in 0..MaxVersion : Present(s) = 1..n
AllLinear ==
    ~forked => \A i \in 1..Len(feed) : Linear(feed[i]) /\ Prefix(feed[i])

\* Until the first deletion chunks are only added.
OnlyGrows ==
    \A i, j \in 1..Len(feed) : i <= j =>
        \A v \in Present(feed[i]) : feed[j][v] = feed[i][v]

\* Until the first deletion a process that deletes is about to delete the
\* newest chunk of the sealed stream it has loaded.
DeletersAtSeal ==
    \A w \in Writers : phase[w] = "deleting" =>
        /\ IsSealed(feed[view[w]])
        /\ pos[w] = StreamVersion(feed[view[w]])

\* A process seals the stream only when it knows of the tenant's deletion,
\* and from then on it never takes the tenant for alive.
SealersKnow ==
    /\ \A w \in Writers : phase[w] = "finalizer" => w \in told
    /\ \A i \in 1..Len(feed) : \A v \in Versions : feed[i][v].kind = "seal" =>
           feed[i][v].by \in told /\ phase[feed[i][v].by] # "live"

BeforeDeletion == ~dropped => ~forked /\ OnlyGrows /\ DeletersAtSeal

IInv == TypeOK /\ AllLinear /\ BeforeDeletion /\ SealersKnow

-----------------------------------------------------------------------------
(* The operators on a loaded stream. *)

\* Greatest finds the greatest number of a set that has one.
LEMMA GreatestIs ==
  ASSUME NEW S \in SUBSET Nat, NEW m \in S, \A n \in S : n <= m
  PROVE  Greatest(S) = m
<1>1. m \in Tops(S)
  BY DEF Tops
<1>2. \A k \in Tops(S) : k = m
  BY DEF Tops
<1>3. QED
  BY <1>1, <1>2 DEF Greatest

\* Greatest stays within the numbers it is asked about.
LEMMA GreatestType ==
  ASSUME NEW S
  PROVE  Greatest(S) \in S \cup {0}
BY DEF Greatest, Tops

\* A chunk is never mistaken for the absence of one.
LEMMA ChunkFacts ==
  ASSUME NEW c \in Chunk
  PROVE  /\ c # NoChunk
         /\ c.first \in Nat \ {0} /\ c.count \in Nat \ {0}
         /\ End(c) \in Nat /\ c.first <= End(c)
         /\ c.kind \in {"data", "seal"}
BY BoundsAssumption DEF Chunk, NoChunk, End

LEMMA PresentFacts ==
  ASSUME NEW s \in Chunks, NEW v \in Versions
  PROVE  v \in Present(s) <=> s[v] \in Chunk
BY ChunkFacts DEF Present, Chunks

\* The version and the last event of a stream whose commits are 1..n.
LEMMA LoadedStream ==
  ASSUME NEW s \in Chunks, NEW n \in 0..MaxVersion,
         Present(s) = 1..n, Gapless(s)
  PROVE  /\ StreamVersion(s) = n
         /\ n = 0 => LastEventSequence(s) = 0
         /\ n > 0 => LastEventSequence(s) = End(s[n])
<1> USE BoundsAssumption
<1>1. CASE n = 0
  <2>1. Present(s) = {}
    BY <1>1
  <2>2. {End(s[v]) : v \in Present(s)} = {}
    BY <2>1
  <2>3. QED
    BY <1>1, <2>1, <2>2 DEF StreamVersion, LastEventSequence, Greatest, Tops
<1>2. CASE n > 0
  <2> DEFINE Ends == {End(s[v]) : v \in Present(s)}
  <2>1. /\ n \in Present(s)
        /\ \A v \in Present(s) : v \in Versions /\ v <= n /\ s[v] \in Chunk
    BY <1>2, PresentFacts DEF Versions, Present
  <2>2. Present(s) \in SUBSET Nat
    BY DEF Present, Versions
  <2>3. StreamVersion(s) = n
    BY <2>1, <2>2, GreatestIs DEF StreamVersion
  <2>4. \A v \in Present(s) : End(s[v]) \in Nat
    BY <2>1, ChunkFacts
  <2>5. \A v \in Present(s) : End(s[v]) <= End(s[n])
    <3>1. SUFFICES ASSUME NEW v \in Present(s), v # n
                   PROVE  End(s[v]) <= End(s[n])
      BY <2>4, <2>1
    <3>2. v \in 1..(n - 1)
      BY <3>1, <2>1 DEF Present, Versions
    <3>3. End(s[v]) < s[n].first
      BY <3>2, <2>1 DEF Gapless
    <3>4. s[n].first <= End(s[n]) /\ s[n].first \in Nat
      BY <2>1, ChunkFacts
    <3>5. QED
      BY <3>3, <3>4, <2>4, <2>1
  <2>6. Ends \in SUBSET Nat /\ End(s[n]) \in Ends /\ \A e \in Ends : e <= End(s[n])
    BY <2>1, <2>4, <2>5
  <2>7. Greatest(Ends) = End(s[n])
    BY <2>6, GreatestIs
  <2>8. QED
    BY <1>2, <2>3, <2>7 DEF LastEventSequence
<1>3. QED
  BY <1>1, <1>2

\* May the commit c follow a stream s of n commits?
Follows(s, n, c) ==
    /\ c.first = LastEventSequence(s) + 1
    /\ c.kind = "seal" => n > 0 /\ ~IsSealed(s)
    /\ c.kind = "data" =>
           \A v \in Versions : s[v].kind = "seal" => s[v].by # c.by

\* A commit that may follow a linear stream extends it.
LEMMA ExtendLinear ==
  ASSUME NEW s \in Chunks, NEW n \in 0..MaxVersion, NEW c \in Chunk,
         Present(s) = 1..n, Linear(s), n + 1 \in Versions, Follows(s, n, c)
  PROVE  LET t == [s EXCEPT ![n + 1] = c]
         IN  t \in Chunks /\ Linear(t) /\ Present(t) = 1..(n + 1)
<1> USE BoundsAssumption
<1> DEFINE t == [s EXCEPT ![n + 1] = c]
<1>1. t \in Chunks
  BY DEF Chunks
<1>2. t[n + 1] = c /\ \A v \in Versions : v # n + 1 => t[v] = s[v]
  BY DEF Chunks
<1>3. Present(t) = 1..(n + 1)
  BY <1>2, ChunkFacts DEF Present, Versions
<1>f. c.first = LastEventSequence(s) + 1
  BY DEF Follows
<1> HIDE DEF t
<1>4. Gapless(t)
  <2>1. SUFFICES ASSUME NEW v \in 1..(n + 1)
                 PROVE  /\ \A u \in 1..(v - 1) : /\ u \in Present(t)
                                               /\ End(t[u]) < t[v].first
                        /\ t[v].first = IF v = 1 THEN 1 ELSE End(t[v - 1]) + 1
    BY <1>3 DEF Gapless
  <2>2. v \in Versions /\ n \in Nat
    BY DEF Versions
  <2>3. CASE v <= n
    <3>1. /\ v \in Present(s) /\ t[v] = s[v]
          /\ \A u \in 1..(v - 1) : t[u] = s[u] /\ u \in Present(t)
      BY <2>2, <2>3, <1>2, <1>3 DEF Versions
    <3>2. /\ \A u \in 1..(v - 1) : End(s[u]) < s[v].first
          /\ s[v].first = IF v = 1 THEN 1 ELSE End(s[v - 1]) + 1
      BY <3>1 DEF Linear, Gapless
    <3>3. v = 1 \/ v - 1 \in 1..(v - 1)
      BY <2>2 DEF Versions
    <3>4. QED
      BY <3>1, <3>2, <3>3
  <2>4. CASE v = n + 1
    <3>1. \A u \in 1..n : /\ t[u] = s[u] /\ u \in Present(t) /\ u \in Present(s)
                         /\ s[u] \in Chunk /\ End(s[u]) \in Nat
      BY <2>2, <1>2, <1>3, PresentFacts, ChunkFacts DEF Versions
    <3>2. CASE n = 0
      <4>1. v = 1 /\ t[v] = c /\ 1..(v - 1) = {}
        BY <3>2, <2>4, <1>2
      <4>2. LastEventSequence(s) = 0
        BY <3>2, LoadedStream DEF Linear
      <4>3. c.first = 1
        BY <4>2, <1>f
      <4>4. QED
        BY <4>1, <4>3
    <3>3. CASE n > 0
      <4>1. c.first = End(s[n]) + 1
        BY <3>3, <1>f, LoadedStream DEF Linear
      <4>2. n \in 1..n /\ s[n].first <= End(s[n]) /\ s[n].first \in Nat
        BY <3>3, <3>1, ChunkFacts
      <4>3. \A u \in 1..n : u # n => End(s[u]) < s[n].first
        <5>1. SUFFICES ASSUME NEW u \in 1..(n - 1)
                       PROVE  End(s[u]) < s[n].first
          OBVIOUS
        <5>2. QED
          BY <4>2, <3>1, <5>1 DEF Linear, Gapless
      <4>4. \A u \in 1..n : End(s[u]) < c.first
        <5>1. SUFFICES ASSUME NEW u \in 1..n
                       PROVE  End(s[u]) < End(s[n]) + 1
          BY <4>1
        <5>2. End(s[u]) \in Nat /\ End(s[n]) \in Nat
          BY <3>1, <4>2
        <5>3. u = n \/ End(s[u]) < s[n].first
          BY <4>3
        <5>4. QED
          BY <5>2, <5>3, <4>2
      <4>5. v - 1 = n /\ v # 1 /\ t[v] = c /\ t[n] = s[n]
        BY <2>4, <3>1, <3>3, <4>2, <1>2
      <4>6. QED
        BY <3>1, <4>1, <4>4, <4>5
    <3>4. QED
      BY <3>2, <3>3
  <2>5. QED
    BY <2>2, <2>3, <2>4
<1>5. OneSeal(t)
  <2>1. SUFFICES ASSUME NEW v \in Versions, t[v].kind = "seal"
                 PROVE  /\ v > 1
                        /\ \A u \in Present(t) :
                               u > v => t[u].kind = "data" /\ t[u].by # t[v].by
    BY DEF OneSeal
  <2>2. \A u \in Present(t) : u \in Versions /\ u <= n + 1
    BY <1>3 DEF Present
  <2>3. CASE v = n + 1
    <3>1. n > 0
      BY <1>2, <2>1, <2>3 DEF Follows
    <3>2. QED
      BY <2>2, <2>3, <3>1 DEF Versions
  <2>4. CASE v # n + 1
    <3>1. s[v].kind = "seal" /\ t[v] = s[v]
      BY <1>2, <2>1, <2>4
    <3>2. v > 1 /\ \A u \in Present(s) :
                      u > v => s[u].kind = "data" /\ s[u].by # s[v].by
      BY <3>1 DEF Linear, OneSeal
    <3>3. c.kind = "data" /\ s[v].by # c.by
      BY <3>1, ChunkFacts DEF Follows, IsSealed
    <3>4. ASSUME NEW u \in Present(t), u > v, u # n + 1
          PROVE  u \in Present(s) /\ t[u] = s[u]
      BY <1>2, <2>2, <3>4 DEF Present
    <3>5. QED
      BY <1>2, <3>1, <3>2, <3>3, <3>4
  <2>5. QED
    BY <2>3, <2>4
<1>6. QED
  BY <1>1, <1>3, <1>4, <1>5 DEF Linear, t

\* A linear stream stays linear when its last chunk is taken away.
LEMMA ShortenLinear ==
  ASSUME NEW s \in Chunks, NEW n \in 1..MaxVersion,
         Present(s) = 1..n, Linear(s)
  PROVE  LET t == [s EXCEPT ![n] = NoChunk]
         IN  t \in Chunks /\ Linear(t) /\ Present(t) = 1..(n - 1)
<1> USE BoundsAssumption
<1> DEFINE t == [s EXCEPT ![n] = NoChunk]
<1>1. n \in Versions /\ t \in Chunks
  BY DEF Chunks, Versions
<1>2. t[n] = NoChunk /\ \A v \in Versions : v # n => t[v] = s[v]
  BY <1>1 DEF Chunks
<1>3. Present(t) = 1..(n - 1)
  BY <1>1, <1>2 DEF Present, Versions
<1>4. \A v \in 1..(n - 1) : v \in Versions /\ v \in Present(s) /\ t[v] = s[v]
  BY <1>1, <1>2 DEF Versions
<1>5. Gapless(t)
  <2>1. SUFFICES ASSUME NEW v \in 1..(n - 1)
                 PROVE  /\ \A u \in 1..(v - 1) : /\ u \in Present(t)
                                               /\ End(t[u]) < t[v].first
                        /\ t[v].first = IF v = 1 THEN 1 ELSE End(t[v - 1]) + 1
    BY <1>3 DEF Gapless
  <2>2. \A u \in 1..(v - 1) : u \in 1..(n - 1)
    OBVIOUS
  <2>3. v = 1 \/ v - 1 \in 1..(v - 1)
    OBVIOUS
  <2>4. QED
    BY <1>3, <1>4, <2>2, <2>3 DEF Linear, Gapless
<1>6. OneSeal(t)
  <2>1. SUFFICES ASSUME NEW v \in Versions, t[v].kind = "seal"
                 PROVE  /\ v > 1
                        /\ \A u \in Present(t) :
                               u > v => t[u].kind = "data" /\ t[u].by # t[v].by
    BY DEF OneSeal
  <2>2. v # n /\ t[v] = s[v]
    BY <1>2, <2>1 DEF NoChunk
  <2>3. QED
    BY <1>3, <1>4, <2>1, <2>2 DEF Linear, OneSeal
<1>7. QED
  BY <1>1, <1>3, <1>5, <1>6 DEF Linear
-----------------------------------------------------------------------------
(* The invariant. *)

LEMMA InitIInv == Init => IInv
<1> USE BoundsAssumption
<1> SUFFICES ASSUME Init PROVE IInv
  OBVIOUS
<1> DEFINE none == [v \in Versions |-> NoChunk]
<1>1. feed = << none >> /\ Len(feed) = 1 /\ feed[1] = none
  BY DEF Init
<1>2. none \in Chunks /\ Present(none) = {}
  BY DEF Chunks, Present
<1>3. TypeOK
  <2> HIDE DEF none
  <2>1. feed \in Seq(Chunks) /\ feed # << >>
    BY <1>1, <1>2
  <2>2. 1 \in 1..Len(feed) /\ 0 \in 0..MaxVersion
    BY <1>1
  <2>3. QED
    BY <2>1, <2>2 DEF Init, TypeOK
<1>4. Linear(none) /\ Prefix(none)
  <2>1. OneSeal(none) /\ Gapless(none)
    BY <1>2 DEF OneSeal, Gapless, NoChunk
  <2>2. 0 \in 0..MaxVersion /\ 1..0 = {}
    OBVIOUS
  <2>3. QED
    BY <1>2, <2>1, <2>2 DEF Linear, Prefix
<1>5. AllLinear /\ BeforeDeletion
  BY <1>1, <1>2, <1>4 DEF Init, AllLinear, BeforeDeletion, OnlyGrows, DeletersAtSeal
<1>6. SealersKnow
  BY <1>1 DEF Init, SealersKnow, NoChunk
<1>7. QED
  BY <1>3, <1>5, <1>6 DEF IInv

\* The stream that a process has loaded, and the one in the cluster.
LEMMA Revisions ==
  ASSUME TypeOK
  PROVE  /\ Len(feed) \in Nat \ {0}
         /\ Now \in Chunks
         /\ \A i \in 1..Len(feed) : feed[i] \in Chunks
         /\ \A w \in Writers : view[w] \in 1..Len(feed)
BY DEF TypeOK, Now

\* A write leaves the earlier revisions as they are.
LEMMA Written ==
  ASSUME TypeOK, NEW s \in Chunks, Write(s)
  PROVE  /\ feed' \in Seq(Chunks) /\ feed' # << >>
         /\ Len(feed') = Len(feed) + 1
         /\ \A i \in 1..Len(feed) : feed'[i] = feed[i]
         /\ Now' = s /\ feed'[Len(feed) + 1] = s
BY DEF TypeOK, Write, Now

\* Until the first deletion a free name means that nothing was missed.
LEMMA FreeNameMeansWholeStream ==
  ASSUME IInv, ~dropped, NEW w \in Writers,
         NextVersion(w) \in Versions, NameFree(NextVersion(w))
  PROVE  Extends(w)
<1> USE BoundsAssumption
<1> DEFINE s == feed[view[w]]
<1>1. s \in Chunks /\ Now \in Chunks /\ view[w] \in 1..Len(feed)
      /\ Len(feed) \in 1..Len(feed)
  BY Revisions DEF IInv
<1>2. Linear(s) /\ Prefix(s) /\ Linear(Now) /\ Prefix(Now)
  BY <1>1 DEF IInv, AllLinear, BeforeDeletion, Now
<1>3. \A v \in Present(s) : Now[v] = s[v]
  BY <1>1 DEF IInv, BeforeDeletion, OnlyGrows, Now
<1>4. PICK n \in 0..MaxVersion : Present(s) = 1..n
  BY <1>2 DEF Prefix
<1>5. PICK m \in 0..MaxVersion : Present(Now) = 1..m
  BY <1>2 DEF Prefix
<1>6. NextVersion(w) = n + 1
  BY <1>1, <1>2, <1>4, LoadedStream DEF NextVersion, Linear
<1>7. n + 1 \notin Present(Now)
  BY <1>6 DEF NameFree, Present
<1>8. m <= n
  BY <1>5, <1>7
<1>9. \A v \in Versions : Now[v] = s[v]
  <2>1. SUFFICES ASSUME NEW v \in Versions, v \notin Present(s)
                 PROVE  Now[v] = s[v]
    BY <1>3
  <2>2. v \notin Present(Now)
    BY <2>1, <1>4, <1>5, <1>8 DEF Versions
  <2>3. QED
    BY <2>1, <2>2 DEF Present
<1>10. s = Now
  BY <1>1, <1>9 DEF Chunks
<1>11. QED
  BY <1>10 DEF Extends

\* Until the first deletion a deleting process stands at a chunk of the
\* stream in the cluster, the one that seals it or a later one.
LEMMA FirstDeletion ==
  ASSUME IInv, ~dropped, NEW w \in Writers, phase[w] = "deleting"
  PROVE  \E k, m \in Versions :
            /\ Present(Now) = 1..m /\ Now[k].kind = "seal"
            /\ k <= pos[w] /\ pos[w] <= m /\ pos[w] \in Versions
<1> USE BoundsAssumption
<1> DEFINE s == feed[view[w]]
<1>1. s \in Chunks /\ Now \in Chunks /\ view[w] \in 1..Len(feed)
      /\ Len(feed) \in 1..Len(feed)
  BY Revisions DEF IInv
<1>2. Linear(s) /\ Prefix(s) /\ Linear(Now) /\ Prefix(Now)
  BY <1>1 DEF IInv, AllLinear, BeforeDeletion, Now
<1>3. \A v \in Present(s) : Now[v] = s[v]
  BY <1>1 DEF IInv, BeforeDeletion, OnlyGrows, Now
<1>4. IsSealed(s) /\ pos[w] = StreamVersion(s)
  BY DEF IInv, BeforeDeletion, DeletersAtSeal
<1>5. PICK n \in 0..MaxVersion : Present(s) = 1..n
  BY <1>2 DEF Prefix
<1>6. PICK m \in 0..MaxVersion : Present(Now) = 1..m
  BY <1>2 DEF Prefix
<1>7. pos[w] = n
  BY <1>1, <1>2, <1>4, <1>5, LoadedStream DEF Linear
<1>8. PICK k \in Versions : s[k].kind = "seal"
  BY <1>4 DEF IsSealed
<1>9. k \in Present(s) /\ k <= n /\ Now[k].kind = "seal"
  BY <1>3, <1>5, <1>8 DEF Present, NoChunk
<1>10. n \in Present(s) /\ n \in Versions
  BY <1>5, <1>9 DEF Versions
<1>11. n \in Present(Now)
  BY <1>3, <1>10 DEF Present
<1>12. n <= m /\ m \in Versions
  BY <1>6, <1>11 DEF Versions
<1>13. QED
  BY <1>6, <1>7, <1>9, <1>10, <1>12

\* A step that leaves the chunks and the deletions alone keeps the
\* invariant when it keeps the types.
LEMMA QuietStep ==
  ASSUME IInv, TypeOK', SealersKnow', UNCHANGED <<feed, dropped, forked>>,
         \A w \in Writers : phase'[w] = "deleting" =>
             \/ phase[w] = "deleting" /\ view'[w] = view[w] /\ pos'[w] = pos[w]
             \/ IsSealed(feed[view'[w]]) /\ pos'[w] = StreamVersion(feed[view'[w]])
  PROVE  IInv'
<1>1. AllLinear'
  BY DEF IInv, AllLinear
<1>2. ASSUME ~dropped PROVE ~forked' /\ OnlyGrows'
  BY <1>2 DEF IInv, BeforeDeletion, OnlyGrows
<1>3. ASSUME ~dropped PROVE DeletersAtSeal'
  BY <1>3 DEF IInv, BeforeDeletion, DeletersAtSeal
<1>4. QED
  BY <1>1, <1>2, <1>3 DEF IInv, BeforeDeletion

\* A step that writes no chunk and starts no pass keeps who may have sealed.
LEMMA SealersStay ==
  ASSUME IInv, UNCHANGED feed, told \subseteq told',
         \A w \in Writers : phase'[w] \in {"live", "finalizer"} => phase'[w] = phase[w]
  PROVE  SealersKnow'
<1>1. ASSUME NEW i \in 1..Len(feed), NEW v \in Versions, feed[i][v].kind = "seal"
      PROVE  feed[i][v].by \in Writers
  BY <1>1, Revisions DEF IInv, Chunks, Chunk, NoChunk
<1>2. QED
  BY <1>1 DEF IInv, SealersKnow

\* The call of w on the repository ends: the types and the deletions of the
\* other processes stay.
LEMMA Returned ==
  ASSUME TypeOK, NEW w \in Writers, Return(w)
  PROVE  /\ phase' \in [Writers -> {"idle", "live", "finalizer", "deleting"}]
         /\ \A x \in Writers :
               phase'[x] \in {"live", "finalizer"} => phase'[x] = phase[x]
         /\ view' \in [Writers -> 1..Len(feed)]
         /\ pos' \in [Writers -> 0..MaxVersion]
         /\ \A x \in Writers : phase'[x] = "deleting" =>
               phase[x] = "deleting" /\ view'[x] = view[x] /\ pos'[x] = pos[x]
<1>1. 1 \in 1..Len(feed) /\ 0 \in 0..MaxVersion
  BY BoundsAssumption DEF TypeOK
<1>2. QED
  BY <1>1 DEF TypeOK, Return

\* A revision that is linear, like all before it, keeps AllLinear.
LEMMA NewRevision ==
  ASSUME TypeOK, AllLinear, NEW s \in Chunks, Write(s),
         ~forked' => ~forked /\ Linear(s) /\ Prefix(s)
  PROVE  AllLinear'
<1>1. SUFFICES ASSUME ~forked', NEW i \in 1..Len(feed')
               PROVE  Linear(feed'[i]) /\ Prefix(feed'[i])
  BY DEF AllLinear
<1>2. CASE i \in 1..Len(feed)
  BY <1>1, <1>2, Written DEF AllLinear
<1>3. CASE i = Len(feed) + 1
  BY <1>1, <1>3, Written
<1>4. i \in 1..Len(feed) \/ i = Len(feed) + 1
  BY Written, Revisions
<1>5. QED
  BY <1>2, <1>3, <1>4

\* A write that keeps every chunk keeps the order of the revisions.
LEMMA GrowsByOne ==
  ASSUME TypeOK, OnlyGrows, NEW s \in Chunks, Write(s),
         \A u \in Present(Now) : s[u] = Now[u]
  PROVE  OnlyGrows'
<1>1. SUFFICES ASSUME NEW i \in 1..Len(feed'), NEW j \in 1..Len(feed'), i <= j,
                      NEW v \in Present(feed'[i])
               PROVE  feed'[j][v] = feed'[i][v]
  BY DEF OnlyGrows
<1>2. /\ Len(feed) \in Nat \ {0} /\ Len(feed') = Len(feed) + 1
      /\ \A k \in 1..Len(feed) : feed'[k] = feed[k]
      /\ feed'[Len(feed) + 1] = s
  BY Written, Revisions
<1>3. CASE j <= Len(feed)
  <2>1. i \in 1..Len(feed) /\ j \in 1..Len(feed)
    BY <1>1, <1>2, <1>3
  <2>2. QED
    BY <1>1, <1>2, <2>1 DEF OnlyGrows
<1>4. CASE i <= Len(feed) /\ j = Len(feed) + 1
  <2>1. i \in 1..Len(feed) /\ Len(feed) \in 1..Len(feed) /\ i <= Len(feed)
    BY <1>2, <1>4
  <2>2. Now[v] = feed[i][v]
    BY <1>1, <1>2, <2>1 DEF OnlyGrows, Now
  <2>3. v \in Present(Now)
    BY <1>1, <1>2, <2>1, <2>2 DEF Present
  <2>4. QED
    BY <1>2, <1>4, <2>1, <2>2, <2>3
<1>5. CASE i = Len(feed) + 1
  <2>1. j = i
    BY <1>1, <1>2, <1>5
  <2>2. QED
    BY <2>1
<1>6. QED
  BY <1>2, <1>3, <1>4, <1>5

LEMMA DeliverStep ==
  ASSUME IInv, NEW w \in Writers, Deliver(w)
  PROVE  IInv'
<1>1. cursor[w] + 1 \in 1..Len(feed)
  BY Revisions DEF IInv, TypeOK, Deliver
<1>2. TypeOK'
  BY <1>1 DEF IInv, TypeOK, Deliver
<1>3. SealersKnow'
  BY SealersStay DEF Deliver
<1>4. QED
  BY <1>2, <1>3, QuietStep DEF Deliver

LEMMA LearnDeletionStep ==
  ASSUME IInv, NEW w \in Writers, LearnDeletion(w)
  PROVE  IInv'
<1>1. TypeOK'
  BY DEF IInv, TypeOK, LearnDeletion
<1>2. SealersKnow'
  BY SealersStay DEF LearnDeletion
<1>3. QED
  BY <1>1, <1>2, QuietStep DEF LearnDeletion

LEMMA GetStep ==
  ASSUME IInv, NEW w \in Writers, Get(w)
  PROVE  IInv'
<1>1. TypeOK'
  BY DEF IInv, TypeOK, Get
<1>2. \A x \in Writers : phase'[x] = "deleting" =>
         phase[x] = "deleting" /\ view'[x] = view[x] /\ pos'[x] = pos[x]
  BY DEF IInv, TypeOK, Get
<1>3. SealersKnow'
  <2>1. \A x \in Writers : /\ phase'[x] = "finalizer" => x \in told
                          /\ phase'[x] = "live" => phase[x] = "live" \/ x \notin told
    BY DEF IInv, TypeOK, SealersKnow, Get
  <2>2. ASSUME NEW i \in 1..Len(feed), NEW v \in Versions, feed[i][v].kind = "seal"
        PROVE  feed[i][v].by \in Writers
    BY <2>2, Revisions DEF IInv, Chunks, Chunk, NoChunk
  <2>3. QED
    BY <2>1, <2>2 DEF IInv, SealersKnow, Get
<1>4. QED
  BY <1>1, <1>2, <1>3, QuietStep DEF Get

\* GiveUp, SaveConflict, EndDelete: the call ends and nothing is written.
LEMMA ReturnStep ==
  ASSUME IInv, NEW w \in Writers, Return(w),
         UNCHANGED <<feed, cursor, told, dropped, forked>>
  PROVE  IInv'
<1>1. TypeOK'
  BY Returned DEF IInv, TypeOK
<1>2. SealersKnow'
  BY Returned, SealersStay DEF IInv
<1>3. QED
  BY <1>1, <1>2, Returned, QuietStep DEF IInv

LEMMA RestartStep ==
  ASSUME IInv, NEW w \in Writers, Restart(w)
  PROVE  IInv'
<1>1. Len(feed) \in 1..Len(feed)
  BY Revisions DEF IInv
<1>2. TypeOK'
  BY <1>1, Returned DEF IInv, TypeOK, Restart
<1>3. SealersKnow'
  BY Returned, SealersStay DEF IInv, Restart
<1>4. QED
  BY <1>2, <1>3, Returned, QuietStep DEF IInv, Restart

LEMMA BeginDeleteStep ==
  ASSUME IInv, NEW w \in Writers, BeginDelete(w)
  PROVE  IInv'
<1>1. StreamVersion(feed[view[w]]) \in 0..MaxVersion
  BY BoundsAssumption, GreatestType DEF StreamVersion, Present, Versions
<1>2. TypeOK'
  BY <1>1 DEF IInv, TypeOK, BeginDelete, NewestFirst
<1>3. \A x \in Writers : phase'[x] = "deleting" =>
        \/ phase[x] = "deleting" /\ view'[x] = view[x] /\ pos'[x] = pos[x]
        \/ IsSealed(feed[view'[x]]) /\ pos'[x] = StreamVersion(feed[view'[x]])
  BY <1>1 DEF IInv, TypeOK, BeginDelete, NewestFirst
<1>4. SealersKnow'
  <2>1. \A x \in Writers : phase'[x] \in {"live", "finalizer"} => phase'[x] = phase[x]
    BY DEF IInv, TypeOK, BeginDelete
  <2>2. QED
    BY <2>1, SealersStay DEF BeginDelete
<1>5. QED
  BY <1>2, <1>3, <1>4, QuietStep DEF BeginDelete

\* The commit that a process makes of the whole stream may follow it.
LEMMA NewChunkFollows ==
  ASSUME IInv, NEW w \in Writers, NEW count \in 1..MaxCount,
         NEW kind \in {"data", "seal"}, MaySave(w, count, kind),
         NEW n \in 0..MaxVersion, Present(feed[view[w]]) = 1..n
  PROVE  Follows(feed[view[w]], n, NewChunk(w, count, kind))
<1> DEFINE s == feed[view[w]]
           c == NewChunk(w, count, kind)
<1>1. c.first = LastEventSequence(s) + 1 /\ c.kind = kind /\ c.by = w
  BY DEF NewChunk
<1>2. CASE kind = "seal"
  <2>1. ~IsSealed(s) /\ Present(s) # {}
    BY <1>2 DEF MaySave
  <2>2. n > 0
    BY <2>1, BoundsAssumption
  <2>3. QED
    BY <1>1, <1>2, <2>1, <2>2 DEF Follows
<1>3. CASE kind = "data"
  <2>1. phase[w] = "live"
    BY <1>3 DEF MaySave
  <2>2. \A v \in Versions : s[v].kind = "seal" => s[v].by # w
    BY <2>1, Revisions DEF IInv, SealersKnow
  <2>3. QED
    BY <1>1, <1>3, <2>2 DEF Follows
<1>4. QED
  BY <1>2, <1>3

LEMMA SaveStep ==
  ASSUME IInv, NEW w \in Writers, NEW count \in 1..MaxCount,
         NEW kind \in {"data", "seal"}, Save(w, count, kind)
  PROVE  IInv'
<1> USE BoundsAssumption
<1> DEFINE c == NewChunk(w, count, kind)
           v == NextVersion(w)
           t == [Now EXCEPT ![v] = c]
<1>1. /\ MaySave(w, count, kind) /\ v \in Versions /\ NameFree(v)
      /\ c.first \in 1..MaxSequence /\ Write(t) /\ Return(w)
      /\ forked' = (forked \/ ~Extends(w)) /\ UNCHANGED <<cursor, told, dropped>>
  BY DEF Save, MaySave
<1>2. c \in Chunk /\ c.by = w /\ c.kind = kind
  BY <1>1 DEF NewChunk, Chunk
<1> HIDE DEF c, v
<1>3. t \in Chunks
  BY <1>1, <1>2, Revisions DEF IInv, Chunks
<1>4. TypeOK'
  <2>1. /\ feed' \in Seq(Chunks) /\ feed' # << >> /\ Len(feed') = Len(feed) + 1
        /\ Len(feed) \in Nat
    BY <1>1, <1>3, Written, Revisions DEF IInv
  <2>2. 1..Len(feed) \subseteq 1..Len(feed')
    BY <2>1
  <2>3. cursor' \in [Writers -> 1..Len(feed')] /\ view' \in [Writers -> 1..Len(feed')]
    BY <1>1, <2>2, Returned DEF IInv, TypeOK
  <2>4. QED
    BY <1>1, <2>1, <2>3, Returned DEF IInv, TypeOK
<1>5. ASSUME ~forked' PROVE ~forked /\ Linear(t) /\ Prefix(t)
  <2>1. ~forked /\ feed[view[w]] = Now
    BY <1>1, <1>5 DEF Extends
  <2>2. Linear(Now) /\ Now \in Chunks /\ Prefix(Now)
    BY <2>1, Revisions DEF IInv, AllLinear, Now
  <2>3. PICK n \in 0..MaxVersion : Present(Now) = 1..n
    BY <2>2 DEF Prefix
  <2>4. v = n + 1
    BY <2>1, <2>2, <2>3, LoadedStream DEF Linear, v, NextVersion
  <2>5. Follows(Now, n, c)
    BY <1>1, <2>1, <2>3, NewChunkFollows DEF c
  <2>6. Linear(t) /\ Present(t) = 1..(n + 1)
    BY <1>1, <1>2, <2>2, <2>3, <2>4, <2>5, ExtendLinear
  <2>7. n + 1 \in 0..MaxVersion
    BY <1>1, <2>4 DEF Versions
  <2>8. QED
    BY <2>1, <2>6, <2>7 DEF Prefix
<1>6. AllLinear'
  BY <1>1, <1>3, <1>5, NewRevision DEF IInv
<1>7. ASSUME ~dropped PROVE ~forked'
  BY <1>1, <1>7, FreeNameMeansWholeStream DEF IInv, BeforeDeletion, v
<1>8. ASSUME ~dropped PROVE OnlyGrows'
  <2>1. \A u \in Present(Now) : t[u] = Now[u]
    BY <1>1, Revisions DEF IInv, Chunks, NameFree, Present
  <2>2. QED
    BY <1>1, <1>3, <1>8, <2>1, GrowsByOne DEF IInv, BeforeDeletion
<1>9. ASSUME ~dropped PROVE DeletersAtSeal'
  <2>1. SUFFICES ASSUME NEW x \in Writers, phase'[x] = "deleting"
                 PROVE  IsSealed(feed'[view'[x]]) /\ pos'[x] = StreamVersion(feed'[view'[x]])
    BY DEF DeletersAtSeal
  <2>2. phase[x] = "deleting" /\ view'[x] = view[x] /\ pos'[x] = pos[x]
    BY <1>1, <2>1, Returned DEF IInv
  <2>3. feed'[view[x]] = feed[view[x]]
    BY <1>1, <1>3, Written, Revisions DEF IInv
  <2>4. QED
    BY <1>9, <2>2, <2>3 DEF IInv, BeforeDeletion, DeletersAtSeal
<1>10. SealersKnow'
  <2>1. \A x \in Writers : phase'[x] \in {"live", "finalizer"} => phase'[x] = phase[x]
    BY <1>1, Returned DEF IInv
  <2>2. SUFFICES ASSUME NEW i \in 1..Len(feed'), NEW u \in Versions,
                        feed'[i][u].kind = "seal"
                 PROVE  feed'[i][u].by \in told' /\ phase'[feed'[i][u].by] # "live"
    BY <1>1, <2>1 DEF IInv, SealersKnow
  <2>3. /\ Len(feed) \in 1..Len(feed) /\ Now = feed[Len(feed)]
        /\ i \in 1..Len(feed) \/ feed'[i] = t
        /\ i \in 1..Len(feed) => feed'[i] = feed[i]
    BY <1>1, <1>3, Written, Revisions DEF IInv, Now
  <2>4. ASSUME NEW j \in 1..Len(feed), feed[j][u].kind = "seal"
        PROVE  feed[j][u].by \in told' /\ phase'[feed[j][u].by] # "live"
    <3>1. feed[j][u].by \in told /\ phase[feed[j][u].by] # "live"
      BY <2>4 DEF IInv, SealersKnow
    <3>2. feed[j][u].by \in Writers
      BY <3>1 DEF IInv, TypeOK
    <3>3. QED
      BY <1>1, <2>1, <3>1, <3>2
  <2>5. CASE i \notin 1..Len(feed) /\ u = v
    <3>1. feed'[i][u] = c
      BY <1>1, <2>3, <2>5, Revisions DEF IInv, Chunks
    <3>2. phase[w] = "finalizer" /\ c.by = w
      BY <1>1, <1>2, <2>2, <3>1 DEF MaySave
    <3>3. w \in told /\ phase'[w] = "idle"
      BY <1>1, <3>2 DEF IInv, SealersKnow, Return, TypeOK
    <3>4. QED
      BY <1>1, <3>1, <3>2, <3>3
  <2>6. CASE i \notin 1..Len(feed) /\ u # v
    <3>1. feed'[i][u] = Now[u]
      BY <1>1, <2>3, <2>6, Revisions DEF IInv, Chunks
    <3>2. QED
      BY <2>2, <2>3, <2>4, <3>1
  <2>7. CASE i \in 1..Len(feed)
    BY <2>2, <2>3, <2>4, <2>7
  <2>8. QED
    BY <2>5, <2>6, <2>7
<1>11. QED
  BY <1>1, <1>4, <1>6, <1>7, <1>8, <1>9, <1>10 DEF IInv, BeforeDeletion

LEMMA DeleteChunkStep ==
  ASSUME IInv, NEW w \in Writers, DeleteChunk(w)
  PROVE  IInv'
<1> USE BoundsAssumption
<1> DEFINE t == [Now EXCEPT ![pos[w]] = NoChunk]
<1>1. /\ phase[w] = "deleting" /\ pos[w] # 0 /\ pos[w] \in Versions
      /\ UNCHANGED <<cursor, phase, view, told>>
      /\ pos' = [pos EXCEPT ![w] = NextBelow(feed[view[w]], @)]
  BY DEF DeleteChunk, IInv, TypeOK, Versions
<1>2. pos' \in [Writers -> 0..MaxVersion]
  <2>1. NextBelow(feed[view[w]], pos[w]) \in 0..MaxVersion
    BY GreatestType DEF NextBelow, Present, Versions
  <2>2. QED
    BY <1>1, <2>1 DEF IInv, TypeOK
<1>3. CASE NameFree(pos[w])
  <2>1. UNCHANGED <<feed, dropped, forked>>
    BY <1>3 DEF DeleteChunk
  <2>2. dropped
    <3>1. ASSUME ~dropped PROVE pos[w] \in Present(Now)
      BY <1>1, <3>1, FirstDeletion DEF Versions
    <3>2. QED
      BY <1>3, <3>1 DEF NameFree, Present
  <2>3. TypeOK' /\ AllLinear'
    BY <1>1, <1>2, <2>1 DEF IInv, TypeOK, AllLinear
  <2>4. SealersKnow'
    BY <1>1, <2>1, SealersStay
  <2>5. QED
    BY <2>1, <2>2, <2>3, <2>4 DEF IInv, BeforeDeletion
<1>4. CASE ~NameFree(pos[w])
  <2>1. Write(t) /\ dropped' = TRUE /\ forked' = (forked \/ ~Shortens(pos[w]))
    BY <1>4 DEF DeleteChunk
  <2>2. t \in Chunks
    BY <1>1, Revisions DEF IInv, Chunks
  <2>3. TypeOK'
    <3>1. /\ feed' \in Seq(Chunks) /\ feed' # << >> /\ Len(feed') = Len(feed) + 1
          /\ Len(feed) \in Nat
      BY <2>1, <2>2, Written, Revisions DEF IInv
    <3>2. 1..Len(feed) \subseteq 1..Len(feed')
      BY <3>1
    <3>3. cursor' \in [Writers -> 1..Len(feed')] /\ view' \in [Writers -> 1..Len(feed')]
      BY <1>1, <3>2 DEF IInv, TypeOK
    <3>4. QED
      BY <1>1, <1>2, <2>1, <3>1, <3>3 DEF IInv, TypeOK
  <2>4. ASSUME ~forked' PROVE ~forked /\ Linear(t) /\ Prefix(t)
    <3>1. ~forked /\ Shortens(pos[w])
      BY <2>1, <2>4
    <3>2. Linear(Now) /\ Now \in Chunks /\ Prefix(Now)
      BY <3>1, Revisions DEF IInv, AllLinear, Now
    <3>3. PICK n \in 0..MaxVersion : Present(Now) = 1..n
      BY <3>2 DEF Prefix
    <3>4. pos[w] \in 1..n
      BY <1>1, <1>4, <3>3 DEF NameFree, Present
    <3>5. n \in Present(Now)
      BY <3>3, <3>4
    <3>6. pos[w] = n
      BY <3>1, <3>4, <3>5 DEF Shortens, Present
    <3>7. n \in 1..MaxVersion /\ n - 1 \in 0..MaxVersion
      BY <3>4
    <3>8. Linear(t) /\ Present(t) = 1..(n - 1)
      BY <3>2, <3>3, <3>6, <3>7, ShortenLinear
    <3>9. QED
      BY <3>1, <3>7, <3>8 DEF Prefix
  <2>5. AllLinear'
    BY <2>1, <2>2, <2>4, NewRevision DEF IInv
  <2>6. SealersKnow'
    <3>1. SUFFICES ASSUME NEW i \in 1..Len(feed'), NEW u \in Versions,
                          feed'[i][u].kind = "seal"
                   PROVE  feed'[i][u].by \in told /\ phase[feed'[i][u].by] # "live"
      BY <1>1 DEF IInv, SealersKnow
    <3>2. /\ Len(feed) \in 1..Len(feed) /\ Now = feed[Len(feed)]
          /\ i \in 1..Len(feed) \/ feed'[i] = t
          /\ i \in 1..Len(feed) => feed'[i] = feed[i]
      BY <2>1, <2>2, Written, Revisions DEF IInv, Now
    <3>3. t[u] = Now[u] \/ t[u] = NoChunk
      BY Revisions DEF IInv, Chunks
    <3>4. NoChunk.kind # "seal"
      BY DEF NoChunk
    <3>5. feed'[i][u] = Now[u] \/ i \in 1..Len(feed)
      <4> HIDE DEF t
      <4>1. QED
        BY <3>1, <3>2, <3>3, <3>4
    <3>6. QED
      BY <3>1, <3>2, <3>5 DEF IInv, SealersKnow
  <2>7. QED
    BY <2>1, <2>3, <2>5, <2>6 DEF IInv, BeforeDeletion
<1>5. QED
  BY <1>3, <1>4

LEMMA NextIInv == IInv /\ [Next]_vars => IInv'
<1> SUFFICES ASSUME IInv, [Next]_vars PROVE IInv'
  OBVIOUS
<1>1. CASE UNCHANGED vars
  <2>1. TypeOK'
    BY <1>1 DEF IInv, TypeOK, vars
  <2>2. SealersKnow'
    BY <1>1, SealersStay DEF vars
  <2>3. QED
    BY <1>1, <2>1, <2>2, QuietStep DEF vars
<1>2. ASSUME NEW w \in Writers, Step(w) PROVE IInv'
  <2>1. CASE Deliver(w)
    BY <2>1, DeliverStep
  <2>2. CASE Get(w)
    BY <2>2, GetStep
  <2>3. CASE GiveUp(w)
    BY <2>3, ReturnStep DEF GiveUp
  <2>4. ASSUME NEW count \in 1..MaxCount, NEW kind \in {"data", "seal"},
               Save(w, count, kind)
        PROVE  IInv'
    BY <2>4, SaveStep
  <2>5. CASE SaveConflict(w)
    BY <2>5, ReturnStep DEF SaveConflict
  <2>6. CASE BeginDelete(w)
    BY <2>6, BeginDeleteStep
  <2>7. CASE DeleteChunk(w)
    BY <2>7, DeleteChunkStep
  <2>8. CASE EndDelete(w)
    BY <2>8, ReturnStep DEF EndDelete
  <2>9. CASE Restart(w)
    BY <2>9, RestartStep
  <2>10. CASE LearnDeletion(w)
    BY <2>10, LearnDeletionStep
  <2>11. QED
    BY <1>2, <2>1, <2>2, <2>3, <2>4, <2>5, <2>6, <2>7, <2>8, <2>9, <2>10 DEF Step
<1>3. QED
  BY <1>1, <1>2 DEF Next

THEOREM Invariance == Spec => []IInv
BY InitIInv, NextIInv, PTL DEF Spec
-----------------------------------------------------------------------------
(* The properties. *)

\* The store's variables keep their types.
THEOREM TypeCorrect == Spec => []TypeOK
<1>1. IInv => TypeOK
  BY DEF IInv
<1>2. QED
  BY <1>1, Invariance, PTL

\* The stored stream is linear as long as no process has written to a
\* stream it had not seen whole, and none has before the first deletion.
THEOREM StoredStreamIsLinear == Spec => []LinearLog
<1>1. IInv => LinearLog
  BY Revisions DEF IInv, AllLinear, BeforeDeletion, LinearLog, Now
<1>2. QED
  BY <1>1, Invariance, PTL

\* Only Save adds a chunk, and its writer returns to revision 1 afterwards,
\* so SavesAreInformed speaks of the view before the step.
LEMMA OnlySaveAdds ==
  ASSUME IInv, Next, NEW v \in Present(Now') \ Present(Now)
  PROVE  \E w \in Writers, count \in 1..MaxCount, kind \in {"data", "seal"} :
            Save(w, count, kind) /\ v = NextVersion(w) /\ Now'[v].by = w
<1>1. PICK w \in Writers : Step(w)
  BY DEF Next
<1>2. v \in Versions
  BY DEF Present
<1>3. CASE UNCHANGED feed
  BY <1>3 DEF Now, Present
<1>4. ASSUME DeleteChunk(w), ~UNCHANGED feed PROVE FALSE
  <2> DEFINE t == [Now EXCEPT ![pos[w]] = NoChunk]
  <2>1. Write(t) /\ t \in Chunks
    BY <1>4, Revisions DEF DeleteChunk, IInv, Chunks
  <2>2. Now' = t
    BY <2>1, Written DEF IInv
  <2>3. t[v] = Now[v] \/ t[v] = NoChunk
    BY <1>2, Revisions DEF IInv, Chunks
  <2>4. QED
    BY <1>2, <2>2, <2>3 DEF Present
<1>5. ASSUME NEW count \in 1..MaxCount, NEW kind \in {"data", "seal"},
             Save(w, count, kind)
      PROVE  v = NextVersion(w) /\ Now'[v].by = w
  <2> DEFINE c == NewChunk(w, count, kind)
             t == [Now EXCEPT ![NextVersion(w)] = c]
  <2>1. Write(t) /\ NextVersion(w) \in Versions /\ c.by = w /\ c \in Chunk
    BY <1>5 DEF Save, MaySave, NewChunk, Chunk
  <2>2. t \in Chunks
    BY <2>1, Revisions DEF IInv, Chunks
  <2>3. Now' = t
    BY <2>1, <2>2, Written DEF IInv
  <2>4. v = NextVersion(w)
    BY <1>2, <2>1, <2>3, Revisions DEF IInv, Chunks, Present
  <2>5. t[v] = c
    BY <2>1, <2>4, Revisions DEF IInv, Chunks
  <2>6. QED
    BY <2>1, <2>3, <2>4, <2>5
<1>6. QED
  BY <1>1, <1>3, <1>4, <1>5
     DEF Step, Deliver, LearnDeletion, Get, GiveUp, SaveConflict, BeginDelete, EndDelete, Restart

\* Until the first deletion a commit is stored only from the whole stream.
THEOREM CommitsComeFromTheWholeStream == Spec => SavesAreInformed
<1> DEFINE A == ~dropped => \A v \in Present(Now') \ Present(Now) :
                              feed[view[Now'[v].by]] = Now
<1>1. IInv /\ [Next]_vars => [A]_vars
  <2>1. SUFFICES ASSUME IInv, Next, ~dropped, NEW v \in Present(Now') \ Present(Now)
                 PROVE  feed[view[Now'[v].by]] = Now
    OBVIOUS
  <2>2. PICK w \in Writers, count \in 1..MaxCount, kind \in {"data", "seal"} :
          Save(w, count, kind) /\ v = NextVersion(w) /\ Now'[v].by = w
    BY <2>1, OnlySaveAdds
  <2>3. NextVersion(w) \in Versions /\ NameFree(NextVersion(w))
    BY <2>2 DEF Save, MaySave
  <2>4. QED
    BY <2>1, <2>2, <2>3, FreeNameMeansWholeStream DEF Extends
<1>2. QED
  BY <1>1, Invariance, PTL DEF Spec, SavesAreInformed

\* The first chunk to be deleted is the one that holds TenantDeleted or one
\* that another process has stored after it.
THEOREM DeletionSparesTheLife == Spec => DeletionStartsAtSeal
<1> DEFINE A == dropped' /\ ~dropped =>
                  \E v \in Present(Now) : /\ Now[v].kind = "seal"
                                          /\ 1..(v - 1) \subseteq Present(Now')
<1>1. IInv /\ [Next]_vars => [A]_vars
  <2>1. SUFFICES ASSUME IInv, Next, ~dropped, dropped'
                 PROVE  \E v \in Present(Now) : /\ Now[v].kind = "seal"
                                               /\ 1..(v - 1) \subseteq Present(Now')
    OBVIOUS
  <2>2. PICK w \in Writers : DeleteChunk(w) /\ ~UNCHANGED dropped
    BY <2>1 DEF Next, Step, Deliver, LearnDeletion, Get, GiveUp, Save, SaveConflict,
                BeginDelete, EndDelete, Restart
  <2> DEFINE t == [Now EXCEPT ![pos[w]] = NoChunk]
  <2>3. PICK k, m \in Versions :
          /\ Present(Now) = 1..m /\ Now[k].kind = "seal"
          /\ k <= pos[w] /\ pos[w] <= m /\ pos[w] \in Versions
    BY <2>1, <2>2, FirstDeletion DEF DeleteChunk
  <2>4. Write(t)
    BY <2>2 DEF DeleteChunk
  <2>5. t \in Chunks /\ Now \in Chunks
    BY <2>1, <2>3, Revisions DEF IInv, Chunks
  <2>6. Now' = t
    BY <2>1, <2>4, <2>5, Written DEF IInv
  <2>7. k \in Present(Now)
    BY <2>3 DEF Versions
  <2>8. \A u \in 1..(k - 1) : u \in Versions /\ u \in Present(Now) /\ t[u] = Now[u]
    BY BoundsAssumption, <2>3, <2>5 DEF Versions, Chunks
  <2>9. 1..(k - 1) \subseteq Present(t)
    BY <2>8 DEF Present
  <2>10. QED
    BY <2>3, <2>6, <2>7, <2>9
<1>2. QED
  BY <1>1, Invariance, PTL DEF Spec, DeletionStartsAtSeal
-----------------------------------------------------------------------------
(* The refinement. *)

\* The log that a linear stream stands for.
LogOf(s) == [v \in 1..StreamVersion(s) |-> s[v]]

\* A stream whose commits are 1..n is a log of n commits.
LEMMA LogFacts ==
  ASSUME NEW s \in Chunks, NEW n \in 0..MaxVersion,
         Present(s) = 1..n, Linear(s)
  PROVE  /\ LogOf(s) \in Seq(Chunk) /\ Len(LogOf(s)) = n
         /\ LogOf(s) = [v \in 1..n |-> s[v]]
<1>1. StreamVersion(s) = n
  BY LoadedStream DEF Linear
<1>2. \A v \in 1..n : s[v] \in Chunk
  BY PresentFacts, BoundsAssumption DEF Versions
<1>3. QED
  BY <1>1, <1>2, BoundsAssumption DEF LogOf

\* To store the next commit is to append it to the log.
LEMMA LogExtends ==
  ASSUME NEW s \in Chunks, NEW n \in 0..MaxVersion, NEW c \in Chunk,
         Present(s) = 1..n, Linear(s), n + 1 \in Versions, Follows(s, n, c)
  PROVE  LET t == [s EXCEPT ![n + 1] = c]
         IN  LogOf(t) = Append(LogOf(s), c)
<1> USE BoundsAssumption
<1> DEFINE t == [s EXCEPT ![n + 1] = c]
<1>1. t \in Chunks /\ Linear(t) /\ Present(t) = 1..(n + 1)
  BY ExtendLinear
<1>2. n + 1 \in 0..MaxVersion
  BY DEF Versions
<1>3. LogOf(t) = [v \in 1..(n + 1) |-> t[v]] /\ LogOf(t) \in Seq(Chunk)
  BY <1>1, <1>2, LogFacts
<1>4. /\ LogOf(s) = [v \in 1..n |-> s[v]] /\ LogOf(s) \in Seq(Chunk)
      /\ Len(LogOf(s)) = n
  BY LogFacts
<1>5. t[n + 1] = c /\ \A v \in 1..n : t[v] = s[v]
  BY DEF Chunks, Versions
<1> HIDE DEF t
<1>6. Append(LogOf(s), c) = [v \in 1..(n + 1) |-> IF v = n + 1 THEN c ELSE LogOf(s)[v]]
  BY <1>4
<1>7. \A v \in 1..(n + 1) : t[v] = IF v = n + 1 THEN c ELSE LogOf(s)[v]
  BY <1>4, <1>5
<1>8. [v \in 1..(n + 1) |-> t[v]]
         = [v \in 1..(n + 1) |-> IF v = n + 1 THEN c ELSE LogOf(s)[v]]
  BY <1>7
<1>9. LogOf(t) = Append(LogOf(s), c)
  BY <1>3, <1>6, <1>8
<1>10. QED
  BY <1>9 DEF t

\* To delete the last chunk is to take the last commit off the log.
LEMMA LogShortens ==
  ASSUME NEW s \in Chunks, NEW n \in 1..MaxVersion,
         Present(s) = 1..n, Linear(s)
  PROVE  LET t == [s EXCEPT ![n] = NoChunk]
         IN  LogOf(t) = SubSeq(LogOf(s), 1, Len(LogOf(s)) - 1)
<1> USE BoundsAssumption
<1> DEFINE t == [s EXCEPT ![n] = NoChunk]
<1>1. t \in Chunks /\ Linear(t) /\ Present(t) = 1..(n - 1)
  BY ShortenLinear
<1>2. n - 1 \in 0..MaxVersion
  OBVIOUS
<1>3. LogOf(t) = [v \in 1..(n - 1) |-> t[v]]
  BY <1>1, <1>2, LogFacts
<1>4. LogOf(s) = [v \in 1..n |-> s[v]] /\ Len(LogOf(s)) = n /\ LogOf(s) \in Seq(Chunk)
  BY LogFacts
<1>5. \A v \in 1..(n - 1) : t[v] = s[v] /\ s[v] = LogOf(s)[v]
  BY <1>4 DEF Chunks, Versions
<1> HIDE DEF t
<1>6. SubSeq(LogOf(s), 1, n - 1) = [v \in 1..(n - 1) |-> LogOf(s)[v]]
  BY <1>4
<1>7. [v \in 1..(n - 1) |-> t[v]] = [v \in 1..(n - 1) |-> LogOf(s)[v]]
  BY <1>5
<1>8. LogOf(t) = SubSeq(LogOf(s), 1, Len(LogOf(s)) - 1)
  BY <1>3, <1>4, <1>6, <1>7
<1>9. QED
  BY <1>8 DEF t

\* The log of a stream is sealed iff the stream is.
LEMMA SealedLog ==
  ASSUME NEW s \in Chunks, NEW n \in 0..MaxVersion, Present(s) = 1..n
  PROVE  IsSealed(s) <=> \E v \in 1..n : s[v].kind = "seal"
<1>1. \A v \in Versions : s[v].kind = "seal" => v \in 1..n
  BY DEF Present, NoChunk
<1>2. 1..n \subseteq Versions
  BY BoundsAssumption DEF Versions
<1>3. QED
  BY <1>1, <1>2 DEF IsSealed

\* What the refinement mapping makes of the store.
MappedLog == IF forked THEN << >> ELSE LogOf(Now)

\* The newest commit of an extended log.
LEMMA LastOfAppend ==
  ASSUME NEW L \in Seq(Chunk), NEW c \in Chunk
  PROVE  /\ Len(Append(L, c)) = Len(L) + 1
         /\ Append(L, c)[Len(Append(L, c))] = c
OBVIOUS

\* A save is an Extend, or it breaks the log, or the log is broken already.
LEMMA SaveRefines ==
  ASSUME IInv, IInv', NEW w \in Writers, NEW count \in 1..MaxCount,
         NEW kind \in {"data", "seal"}, Save(w, count, kind)
  PROVE  [Log!Next]_(Log!vars)
<1> USE BoundsAssumption
<1> DEFINE c == NewChunk(w, count, kind)
           v == NextVersion(w)
           t == [Now EXCEPT ![v] = c]
<1>1. /\ MaySave(w, count, kind) /\ v \in Versions
      /\ c.first \in 1..MaxSequence /\ Write(t)
      /\ forked' = (forked \/ ~Extends(w)) /\ UNCHANGED dropped
  BY DEF Save, MaySave
<1>2. c \in Chunk
  BY <1>1 DEF NewChunk, Chunk
<1> HIDE DEF c, v
<1>3. t \in Chunks
  BY <1>1, <1>2, Revisions DEF IInv, Chunks
<1>4. Now' = t
  BY <1>1, <1>3, Written DEF IInv
<1>5. CASE forked
  BY <1>1, <1>5 DEF Log!vars
<1>6. CASE ~forked /\ forked'
  <2>1. dropped
    BY <1>1, <1>6 DEF IInv, BeforeDeletion
  <2>2. Log!Break
    BY <1>1, <1>6, <2>1 DEF Log!Break, IInv, TypeOK
  <2>3. QED
    BY <2>2 DEF Log!Next
<1>7. CASE ~forked'
  <2>1. ~forked /\ feed[view[w]] = Now
    BY <1>1, <1>7 DEF Extends
  <2>2. Linear(Now) /\ Now \in Chunks /\ Prefix(Now)
    BY <2>1, Revisions DEF IInv, AllLinear, Now
  <2>3. PICK n \in 0..MaxVersion : Present(Now) = 1..n
    BY <2>2 DEF Prefix
  <2>4. v = n + 1
    BY <2>1, <2>2, <2>3, LoadedStream DEF Linear, v, NextVersion
  <2>5. Follows(Now, n, c)
    BY <1>1, <2>1, <2>3, NewChunkFollows DEF c
  <2>6. LogOf(t) = Append(LogOf(Now), c)
    BY <1>1, <1>2, <2>2, <2>3, <2>4, <2>5, LogExtends
  <2>7. LogOf(Now) \in Seq(Chunk) /\ Len(LogOf(Now)) = n /\ LogOf(Now) = [u \in 1..n |-> Now[u]]
    BY <2>2, <2>3, LogFacts
  <2>8. MappedLog = LogOf(Now) /\ MappedLog' = LogOf(t)
    BY <1>4, <1>7, <2>1 DEF MappedLog, LogOf
  <2>9. c.kind = "seal" => /\ MappedLog # << >>
                            /\ ~\E i \in DOMAIN MappedLog : MappedLog[i].kind = "seal"
    <3>1. IsSealed(Now) <=> \E u \in 1..n : Now[u].kind = "seal"
      BY <2>2, <2>3, SealedLog
    <3>2. DOMAIN LogOf(Now) = 1..n /\ \A u \in 1..n : LogOf(Now)[u] = Now[u]
      BY <2>7
    <3>3. QED
      BY <2>5, <2>7, <2>8, <3>1, <3>2 DEF Follows
  <2>10. /\ Len(MappedLog') = Len(MappedLog) + 1
         /\ MappedLog'[Len(MappedLog')] = c
         /\ MappedLog' = Append(MappedLog, c)
    <3>1. MappedLog \in Seq(Chunk) /\ MappedLog' = Append(MappedLog, c)
      BY <2>6, <2>7, <2>8
    <3>2. QED
      BY <1>2, <3>1, LastOfAppend
  <2>11. Log!Extend
    BY <1>1, <1>2, <1>7, <2>1, <2>9, <2>10
       DEF Log!Extend, Log!Sealed, Log!Newest, ChunkSeals, MappedLog, LogOf
  <2>12. QED
    BY <2>11 DEF Log!Next
<1>8. QED
  BY <1>5, <1>6, <1>7
\* A deletion is a DropLast, or it breaks the log, or the log is broken.
LEMMA DeleteRefines ==
  ASSUME IInv, NEW w \in Writers, DeleteChunk(w)
  PROVE  [Log!Next]_(Log!vars)
<1> USE BoundsAssumption
<1> DEFINE t == [Now EXCEPT ![pos[w]] = NoChunk]
<1>1. CASE NameFree(pos[w])
  BY <1>1 DEF DeleteChunk, Log!vars, Now
<1>2. CASE ~NameFree(pos[w])
  <2>1. Write(t) /\ dropped' = TRUE /\ forked' = (forked \/ ~Shortens(pos[w]))
    BY <1>2 DEF DeleteChunk
  <2>2. pos[w] \in Versions
    BY DEF DeleteChunk, IInv, TypeOK, Versions
  <2>3. t \in Chunks /\ Now \in Chunks
    BY Revisions DEF IInv, Chunks
  <2>4. Now' = t
    BY <2>1, <2>3, Written DEF IInv
  <2>5. CASE dropped /\ forked
    BY <2>1, <2>5 DEF Log!vars
  <2>6. ASSUME ~forked
        PROVE  \E n \in 1..MaxVersion :
                  /\ Linear(Now) /\ Present(Now) = 1..n /\ pos[w] \in 1..n
                  /\ LogOf(Now) \in Seq(Chunk) /\ Len(LogOf(Now)) = n
                  /\ LogOf(Now) = [u \in 1..n |-> Now[u]]
    <3>1. Linear(Now) /\ Prefix(Now)
      BY <2>6, Revisions DEF IInv, AllLinear, Now
    <3>2. PICK n \in 0..MaxVersion : Present(Now) = 1..n
      BY <3>1 DEF Prefix
    <3>3. pos[w] \in 1..n
      BY <2>2, <1>2, <3>2 DEF NameFree, Present
    <3>4. n \in 1..MaxVersion
      BY <3>3
    <3>5. /\ LogOf(Now) \in Seq(Chunk) /\ Len(LogOf(Now)) = n
          /\ LogOf(Now) = [u \in 1..n |-> Now[u]]
      BY <2>3, <3>1, <3>2, LogFacts
    <3>6. QED
      BY <3>1, <3>2, <3>3, <3>4, <3>5
  <2>7. ASSUME ~forked PROVE Log!Sealed \/ dropped
    <3>1. PICK n \in 1..MaxVersion :
             /\ Present(Now) = 1..n /\ LogOf(Now) = [u \in 1..n |-> Now[u]]
      BY <2>6, <2>7
    <3>2. ASSUME ~dropped PROVE \E u \in 1..n : Now[u].kind = "seal"
      <4>1. PICK k, m \in Versions :
              /\ Present(Now) = 1..m /\ Now[k].kind = "seal"
              /\ k <= pos[w] /\ pos[w] <= m /\ pos[w] \in Versions
        BY <3>2, FirstDeletion DEF DeleteChunk
      <4>2. k \in Present(Now)
        BY <4>1 DEF Versions
      <4>3. QED
        BY <3>1, <4>1, <4>2
    <3>3. DOMAIN LogOf(Now) = 1..n /\ \A u \in 1..n : LogOf(Now)[u] = Now[u]
      BY <3>1
    <3>4. (\E u \in 1..n : Now[u].kind = "seal") => Log!Sealed
      BY <2>7, <3>3 DEF Log!Sealed, ChunkSeals, LogOf
    <3>5. QED
      BY <3>2, <3>4
  <2>8. CASE ~forked /\ forked'
    <3>1. Log!Break
      BY <2>1, <2>7, <2>8 DEF Log!Break
    <3>2. QED
      BY <3>1 DEF Log!Next
  <2>9. CASE ~forked /\ ~forked'
    <3>1. PICK n \in 1..MaxVersion :
             /\ Linear(Now) /\ Present(Now) = 1..n /\ pos[w] \in 1..n
             /\ LogOf(Now) \in Seq(Chunk) /\ Len(LogOf(Now)) = n
             /\ LogOf(Now) = [u \in 1..n |-> Now[u]]
      BY <2>6, <2>9
    <3>2. Shortens(pos[w])
      BY <2>1, <2>9
    <3>3. pos[w] = n
      <4>1. n \in Present(Now) /\ n \in Nat
        BY <3>1
      <4>2. QED
        BY <3>1, <3>2, <4>1 DEF Shortens, Present
    <3>4. LogOf(t) = SubSeq(LogOf(Now), 1, Len(LogOf(Now)) - 1)
      BY <2>3, <3>1, <3>3, LogShortens
    <3>5. MappedLog = LogOf(Now) /\ MappedLog' = LogOf(t)
      BY <2>4, <2>9 DEF MappedLog, LogOf
    <3>6. LogOf(Now) # << >>
      BY <3>1
    <3>7. Log!DropLast
      BY <2>1, <2>7, <2>9, <3>4, <3>5, <3>6 DEF Log!DropLast, MappedLog, LogOf
    <3>8. QED
      BY <3>7 DEF Log!Next
  <2>10. CASE forked
    <3>1. dropped
      BY <2>10 DEF IInv, BeforeDeletion
    <3>2. QED
      BY <2>1, <2>5, <2>10, <3>1
  <2>11. QED
    BY <2>8, <2>9, <2>10
<1>3. QED
  BY <1>1, <1>2

\* The store implements the log: every step appends a commit to the whole
\* log, takes down its last one, or gives the log up, never before the first
\* deletion.
THEOREM StoreImplementsLog == Spec => ImplementsLog
<1>1. Init => Log!Init
  <2>1. SUFFICES ASSUME Init PROVE MappedLog = << >> /\ dropped = FALSE /\ forked = FALSE
    BY DEF Log!Init, MappedLog, LogOf
  <2>2. Now = [v \in Versions |-> NoChunk] /\ Now \in Chunks
    BY <2>1 DEF Init, Now, Chunks
  <2>3. Present(Now) = 1..0 /\ 0 \in 0..MaxVersion /\ Linear(Now)
    BY <2>2, BoundsAssumption DEF Present, Linear, Gapless, OneSeal, NoChunk
  <2>4. LogOf(Now) \in Seq(Chunk) /\ Len(LogOf(Now)) = 0
    BY <2>2, <2>3, LogFacts
  <2>5. QED
    BY <2>1, <2>4 DEF MappedLog, Init
<1>2. IInv /\ IInv' /\ [Next]_vars => [Log!Next]_(Log!vars)
  <2>1. SUFFICES ASSUME IInv, IInv', [Next]_vars PROVE [Log!Next]_(Log!vars)
    OBVIOUS
  <2>2. CASE UNCHANGED <<feed, dropped, forked>>
    BY <2>2 DEF Log!vars, Now
  <2>3. ASSUME NEW w \in Writers, Step(w) PROVE [Log!Next]_(Log!vars)
    BY <2>1, <2>2, <2>3, SaveRefines, DeleteRefines
       DEF Step, Deliver, LearnDeletion, Get, GiveUp, SaveConflict, BeginDelete, EndDelete, Restart
  <2>4. QED
    BY <2>1, <2>2, <2>3 DEF Next, vars
<1>3. QED
  BY <1>1, <1>2, Invariance, PTL DEF Spec, ImplementsLog, Log!Spec
=============================================================================
