---------------------------- MODULE InformerCache ----------------------------
(***************************************************************************)
(* What the operator reads through the manager's cache.  A feed is a       *)
(* sequence of states whose first is the cached one and whose last is the  *)
(* one in the cluster; an informer delivers one change at a time, in the   *)
(* order in which the changes were made.                                   *)
(***************************************************************************)
EXTENDS Naturals, Sequences, SequencesExt

Cached(feed) == Head(feed)
Stored(feed) == Last(feed)

\* The feed after a write that makes s of the stored state, and after a
\* restart, when the cache is read afresh.
Publish(feed, s) == IF s = Stored(feed) THEN feed ELSE Append(feed, s)
Refreshed(feed) == <<Stored(feed)>>

\* The objects of one kind, by key.
Put(f, k, x) == [j \in DOMAIN f \cup {k} |-> IF j = k THEN x ELSE f[j]]
Without(f, K) == [j \in DOMAIN f \ K |-> f[j]]

\* A write to object k is accepted when the cached one is the stored one:
\* Create fails when it exists, Update when its version has changed.
UpToDate(feed, k) ==
    /\ k \in DOMAIN Cached(feed) <=> k \in DOMAIN Stored(feed)
    /\ k \in DOMAIN Stored(feed) => Cached(feed)[k] = Stored(feed)[k]
=============================================================================
