------------------------------ MODULE EventLog ------------------------------
(***************************************************************************)
(* What the event store promises for one stream: a linear log of commits.  *)
(* A commit is appended to the whole log or not at all, one commit at most *)
(* seals the log, and only a log that is sealed is taken down, from its    *)
(* end.  The promise is unconditional until the first commit is taken      *)
(* down; with that step or after it the store may give it up (Break), and  *)
(* an intact log is the only state in which the log can be relied upon.    *)
(***************************************************************************)
EXTENDS Naturals, Sequences

CONSTANTS Commit,     \* the commits writers make
          Sealing(_)  \* does a commit end the life of the stream?

VARIABLES log,        \* the commits, oldest first
          dropped,    \* has a commit been taken down?
          intact      \* does the promise still hold?

vars == <<log, dropped, intact>>

Sealed == \E i \in DOMAIN log : Sealing(log[i])

Init ==
    /\ log = << >>
    /\ dropped = FALSE
    /\ intact = TRUE

\* The commit that a step puts at the end of the log.
Newest == log'[Len(log')]

Extend ==
    /\ intact
    /\ Len(log') = Len(log) + 1
    /\ Newest \in Commit
    /\ Sealing(Newest) => log # << >> /\ ~Sealed
    /\ log' = Append(log, Newest)
    /\ UNCHANGED <<dropped, intact>>

DropLast ==
    /\ intact
    /\ log # << >>
    /\ Sealed \/ dropped
    /\ log' = SubSeq(log, 1, Len(log) - 1)
    /\ dropped' = TRUE
    /\ UNCHANGED intact

Break ==
    /\ Sealed \/ dropped
    /\ intact' = FALSE
    /\ log' = << >>
    /\ dropped' = TRUE

Next == Extend \/ DropLast \/ Break

Spec == Init /\ [][Next]_vars
=============================================================================
