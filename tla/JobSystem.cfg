CONSTANTS
    Workers = {w1, w2}
    Requests = {r1, r2}
    Slots = 3
    IntervalUnit = 2
    Intervals <- TestedIntervals
    MaxIndex = 3
SPECIFICATION FairSpec
INVARIANTS HeldOnce LessThanOneTurn ExecutedWhenDue NotTooEarly
PROPERTIES AddedIsHandedOver ImplementsTimedExecutor
CHECK_DEADLOCK FALSE
