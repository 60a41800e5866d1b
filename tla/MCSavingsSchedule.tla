-------------------------- MODULE MCSavingsSchedule --------------------------
(***************************************************************************)
(* A day of six slots; zones on both sides of UTC and one with summer      *)
(* time; office hours, a range past Sunday, single days, whole days.       *)
(***************************************************************************)
EXTENDS SavingsSchedule

UTC    == [now |-> 0, january |-> 0]
East   == [now |-> 3, january |-> 3]
West   == [now |-> -2, january |-> -2]
Summer == [now |-> 2, january |-> 1]

MCZones == {UTC, East, West, Summer}

Pattern(from, to, start, end, zone) ==
    [from |-> from, to |-> to, start |-> start, end |-> end, zone |-> zone]

MCPatternLists ==
    { {Pattern(0, 4, 2, 4, z)} : z \in MCZones }
    \cup { {Pattern(5, 0, 0, 5, z)} : z \in MCZones }
    \cup { {Pattern(6, 6, 0, 1, z), Pattern(2, 1, 4, 5, UTC)} : z \in MCZones }
    \cup { {Pattern(3, 3, 5, 5, East), Pattern(3, 3, 0, 0, West)} }

MCMonths == { [this |-> 31, before |-> 31],
              [this |-> 28, before |-> 31], [this |-> 31, before |-> 28],
              [this |-> 30, before |-> 31], [this |-> 31, before |-> 30] }
=============================================================================
