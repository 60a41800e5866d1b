\* The clock stops with the month.
CHECK_DEADLOCK FALSE
SPECIFICATION ScheduleSpec
CONSTANTS
    SlotsPerDay = 6
    PatternLists <- MCPatternLists
    Months <- MCMonths
INVARIANTS
    FollowsTheClock
