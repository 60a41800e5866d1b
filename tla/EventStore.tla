----------------------------- MODULE EventStore -----------------------------
(***************************************************************************)
(* The event store of one tenant stream: internal/pkg/eventstore over the  *)
(* EventStreamChunk objects of the cluster.                                *)
(*                                                                         *)
(* A commit is stored as one chunk whose NAME holds the version that       *)
(* follows the version the writer has loaded, so the API server's refusal  *)
(* to create a name twice is the store's only concurrency control.         *)
(* Writers are operator processes (a restarted or a not yet deposed leader *)
(* is a writer of its own).  Each reads through informer caches: that of   *)
(* the chunks holds them as they were at some earlier revision, that of    *)
(* the Tenant shows its deletion at some time after the user asked for it. *)
(* The two lag on their own, so a pass may take the tenant for alive and   *)
(* load a stream that another process has sealed.                          *)
(***************************************************************************)
EXTENDS Naturals, Sequences, FiniteSets

CONSTANTS
    Writers,      \* operator processes
    MaxVersion,   \* bound: versions a stream reaches
    MaxCount,     \* bound: events in one commit
    MaxSequence,  \* bound: event sequence numbers
    MaxRevision   \* bound: writes to the chunk objects

ASSUME BoundsAssumption ==
    /\ MaxVersion \in Nat /\ MaxCount \in Nat
    /\ MaxSequence \in Nat /\ MaxRevision \in Nat

VARIABLES
    feed,     \* the chunks after each write, oldest first; the last is now
    cursor,   \* cursor[w]: the revision w's informer cache has reached
    phase,    \* phase[w]: where w is in a call on the repository
    view,     \* view[w]: the revision that Get returned to w
    pos,      \* pos[w]: while w deletes, the version it deletes next
    told,     \* the processes whose cache shows the tenant's deletion
    dropped,  \* history: has a chunk been deleted?
    forked    \* history: has a write broken the line of commits?

vars == <<feed, cursor, phase, view, pos, told, dropped, forked>>

Versions == 1..MaxVersion

\* A chunk holds the events numbered first .. first + count - 1.  The kind
\* "seal" stands for a commit that carries TenantDeleted.
Chunk == [first : 1..MaxSequence, count : 1..MaxCount,
          kind : {"data", "seal"}, by : Writers]
NoChunk == [first |-> 0, count |-> 0, kind |-> "none"]
Chunks == [Versions -> Chunk \cup {NoChunk}]

Now == feed[Len(feed)]

-----------------------------------------------------------------------------
(* A loaded stream. *)

Present(s) == {v \in Versions : s[v] # NoChunk}

\* The greatest of a finite set of numbers, 0 when it is empty.
Tops(S) == {m \in S : \A n \in S : n <= m}
Greatest(S) == IF Tops(S) = {} THEN 0 ELSE CHOOSE m \in Tops(S) : TRUE

End(c) == c.first + c.count - 1

\* Stream.Version is the sequence of the last commit.
StreamVersion(s) == Greatest(Present(s))

\* The sequence of the last event that LoadFromHistoricalEvents replays;
\* ForgottenSequence: a loaded aggregate that numbers its events from 1 again.
ForgottenSequence(s) == 0
LastEventSequence(s) == Greatest({End(s[v]) : v \in Present(s)})

\* TenantDeleted is among the events of the stream.
IsSealed(s) == \E v \in Versions : s[v].kind = "seal"

-----------------------------------------------------------------------------
(* The API server. *)

\* Is the name of the chunk with version v free?  AnyNameFree: a write that
\* replaces the chunk (an update or an apply) in the place of Create.
AnyNameFree(v) == TRUE
NameFree(v) == Now[v] = NoChunk

\* Every write to the chunks is a new revision.
Write(s) ==
    /\ Len(feed) < MaxRevision
    /\ feed' = Append(feed, s)

\* A save extends the line of commits iff its writer has seen all of it;
\* a deletion shortens it iff it takes its last chunk.
Extends(w) == feed[view[w]] = Now
Shortens(v) == \A u \in Versions : u > v => Now[u] = NoChunk

-----------------------------------------------------------------------------
Init ==
    /\ feed = << [v \in Versions |-> NoChunk] >>
    /\ cursor = [w \in Writers |-> 1]
    /\ phase = [w \in Writers |-> "idle"]
    /\ view = [w \in Writers |-> 1]
    /\ pos = [w \in Writers |-> 0]
    /\ told = {}
    /\ dropped = FALSE
    /\ forked = FALSE

\* The informer of w delivers the next change of the chunks.
Deliver(w) ==
    /\ cursor[w] < Len(feed)
    /\ cursor' = [cursor EXCEPT ![w] = @ + 1]
    /\ UNCHANGED <<feed, phase, view, pos, told, dropped, forked>>

\* The informer of w delivers the Tenant with its deletion timestamp.
LearnDeletion(w) ==
    /\ w \notin told
    /\ told' = told \cup {w}
    /\ UNCHANGED <<feed, cursor, phase, view, pos, dropped, forked>>

\* The call on the repository is over.
Return(w) ==
    /\ phase' = [phase EXCEPT ![w] = "idle"]
    /\ view' = [view EXCEPT ![w] = 1]
    /\ pos' = [pos EXCEPT ![w] = 0]

\* A pass reads the Tenant, which decides between the branch for a live
\* tenant and the finalizer, and calls Repository.Get: the chunks in the
\* cache, as they are at this moment.
Get(w) ==
    /\ phase[w] = "idle"
    /\ phase' = [phase EXCEPT ![w] = IF w \in told THEN "finalizer" ELSE "live"]
    /\ view' = [view EXCEPT ![w] = cursor[w]]
    /\ UNCHANGED <<feed, cursor, pos, told, dropped, forked>>

\* The pass ends with nothing to save (the finalizer: on an empty stream, or
\* a sealed one whose resource sets remain), or an error other than a
\* conflict ends the save or the deletion; the store stays as it is.
GiveUp(w) ==
    /\ phase[w] # "idle"
    /\ Return(w)
    /\ UNCHANGED <<feed, cursor, told, dropped, forked>>

\* The commit that is made from the loaded stream: its events are numbered
\* after the last event of the stream.  EmptyChunk: a commit without events
\* is stored too.
EmptyChunk(w, count, kind) ==
    [first |-> LastEventSequence(feed[view[w]]) + 1, count |-> count - 1,
     kind |-> kind, by |-> w]
NewChunk(w, count, kind) ==
    [first |-> LastEventSequence(feed[view[w]]) + 1, count |-> count,
     kind |-> kind, by |-> w]

\* The version that TenantAggregate.Commit gives the commit.  NextFreeVersion:
\* the version that is free in the cluster, whatever was loaded.
NextFreeVersion(w) == StreamVersion(Now) + 1
NextVersion(w) == StreamVersion(feed[view[w]]) + 1

\* The live branch saves what SetBlueprint and GenerateResources made, to
\* whatever stream it has loaded, empty or sealed.  The finalizer saves one
\* event, TenantDeleted, to a stream that has events and not this one.
MaySave(w, count, kind) ==
    /\ \/ kind = "data" /\ phase[w] = "live"
       \/ /\ kind = "seal" /\ count = 1 /\ phase[w] = "finalizer"
          /\ Present(feed[view[w]]) # {}
          /\ ~IsSealed(feed[view[w]])
    /\ NextVersion(w) \in Versions

\* Repository.Save: one Create, which lands when the name is free.  The
\* pass is over whether or not the reply arrives.
Save(w, count, kind) ==
    LET c == NewChunk(w, count, kind)
        v == NextVersion(w)
    IN  /\ MaySave(w, count, kind)
        /\ c.first \in 1..MaxSequence
        /\ NameFree(v)
        /\ Write([Now EXCEPT ![v] = c])
        /\ Return(w)
        /\ forked' = (forked \/ ~Extends(w))
        /\ UNCHANGED <<cursor, told, dropped>>

\* Repository.Save when the API server answers AlreadyExists.
SaveConflict(w) ==
    /\ \E count \in 1..MaxCount, kind \in {"data", "seal"} : MaySave(w, count, kind)
    /\ ~NameFree(NextVersion(w))
    /\ Return(w)
    /\ UNCHANGED <<feed, cursor, told, dropped, forked>>

\* Repository.Delete walks the commits of the loaded stream from the newest
\* down (OldestFirst: from the other end); 0 when none is left below v.
OldestFirst(s) == CHOOSE v \in Present(s) : \A u \in Present(s) : v <= u
NewestFirst(s) == StreamVersion(s)
NextBelow(s, v) == Greatest({u \in Present(s) : u < v})

\* ReconcileDelete calls it only for a stream that holds TenantDeleted.
BeginDelete(w) ==
    /\ phase[w] = "finalizer"
    /\ IsSealed(feed[view[w]])
    /\ phase' = [phase EXCEPT ![w] = "deleting"]
    /\ pos' = [pos EXCEPT ![w] = NewestFirst(feed[view[w]])]
    /\ UNCHANGED <<feed, cursor, view, told, dropped, forked>>

\* One round of the loop.  A chunk that is gone already is passed over
\* (NotFound is ignored); an error in between is GiveUp.
DeleteChunk(w) ==
    /\ phase[w] = "deleting"
    /\ pos[w] # 0
    /\ IF NameFree(pos[w])
       THEN UNCHANGED <<feed, dropped, forked>>
       ELSE /\ Write([Now EXCEPT ![pos[w]] = NoChunk])
            /\ dropped' = TRUE
            /\ forked' = (forked \/ ~Shortens(pos[w]))
    /\ pos' = [pos EXCEPT ![w] = NextBelow(feed[view[w]], @)]
    /\ UNCHANGED <<cursor, phase, view, told>>

\* The loop has passed the last commit.
EndDelete(w) ==
    /\ phase[w] = "deleting"
    /\ pos[w] = 0
    /\ Return(w)
    /\ UNCHANGED <<feed, cursor, told, dropped, forked>>

\* A process restarts: its call is lost and its informer lists the chunks.
Restart(w) ==
    /\ Return(w)
    /\ cursor' = [cursor EXCEPT ![w] = Len(feed)]
    /\ UNCHANGED <<feed, told, dropped, forked>>

Step(w) ==
    \/ Deliver(w)
    \/ LearnDeletion(w)
    \/ Get(w)
    \/ GiveUp(w)
    \/ \E count \in 1..MaxCount, kind \in {"data", "seal"} : Save(w, count, kind)
    \/ SaveConflict(w)
    \/ BeginDelete(w)
    \/ DeleteChunk(w)
    \/ EndDelete(w)
    \/ Restart(w)

Next == \E w \in Writers : Step(w)

Spec == Init /\ [][Next]_vars

-----------------------------------------------------------------------------
(* Properties. *)

\* Every revision is a table of chunks and every process stands at one.
TypeOK ==
    /\ feed \in Seq(Chunks) /\ feed # << >>
    /\ cursor \in [Writers -> 1..Len(feed)]
    /\ phase \in [Writers -> {"idle", "live", "finalizer", "deleting"}]
    /\ view \in [Writers -> 1..Len(feed)]
    /\ pos \in [Writers -> 0..MaxVersion]
    /\ told \in SUBSET Writers
    /\ dropped \in BOOLEAN
    /\ forked \in BOOLEAN

\* The versions of a stream are 1..n and its events are numbered without a
\* gap or a repetition.  TenantDeleted is in it at most once and never
\* first, and what follows it is the work of processes other than the one
\* that sealed the stream: they still took the tenant for alive.  (With one
\* process nothing follows it.)
Gapless(s) ==
    \A v \in Present(s) :
        /\ \A u \in 1..(v - 1) : u \in Present(s) /\ End(s[u]) < s[v].first
        /\ s[v].first = IF v = 1 THEN 1 ELSE End(s[v - 1]) + 1
OneSeal(s) ==
    \A v \in Versions : s[v].kind = "seal" =>
        /\ v > 1
        /\ \A u \in Present(s) :
               u > v => s[u].kind = "data" /\ s[u].by # s[v].by
Linear(s) == Gapless(s) /\ OneSeal(s)

\* The stored stream is linear until a process that had not seen all of it
\* writes to it, and until the first chunk is deleted no process can.  This
\* is what the naming of the chunks is for (NewCommit with version + 1).
LinearLog == (~forked => Linear(Now)) /\ (~dropped => ~forked)

\* Until the first deletion a commit is stored only by a process whose loaded
\* stream is the whole stream: no decision taken on a stale cache persists.
SavesAreInformed ==
    [][~dropped => \A v \in Present(Now') \ Present(Now) :
                       feed[view[Now'[v].by]] = Now]_vars

\* The deletion of a stream begins with the commit that holds TenantDeleted
\* or with one that another process has put after it; the life of the tenant
\* before it is whole.  So a deletion by the only process that is interrupted
\* leaves a stream the finalizer can seal again.
DeletionStartsAtSeal ==
    [][dropped' /\ ~dropped =>
          \E v \in Present(Now) : /\ Now[v].kind = "seal"
                                  /\ 1..(v - 1) \subseteq Present(Now')]_vars

\* The store implements the log it promises.
ChunkSeals(c) == c.kind = "seal"
Log == INSTANCE EventLog
         WITH Commit <- Chunk, Sealing <- ChunkSeals,
              log <- IF forked THEN << >>
                     ELSE [v \in 1..StreamVersion(Now) |-> Now[v]],
              intact <- ~forked

\* Every step of the store is a step of the abstract log: append to the
\* whole, take down from the end, or, with or after the first deletion, give
\* up.
ImplementsLog == Log!Spec
=============================================================================
