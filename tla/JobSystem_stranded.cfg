CONSTANTS
    Workers = {w1, w2}
    Requests = {r1, r2}
    Slots = 2
    IntervalUnit = 2
    Intervals <- ShortInterval
    MaxIndex = 2
SPECIFICATION FairSpec
PROPERTIES DueIsExecuted
CHECK_DEADLOCK FALSE
