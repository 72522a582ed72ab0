CONSTANTS
    Processors = 3
    Events = {e1, e2}
    MaxTimeouts = 2
    MayFail = TRUE
SPECIFICATION FairSpec
INVARIANTS ThreadsSpanPool
PROPERTIES CloseEnds PostedIsHandled ImplementsEventPool
CHECK_DEADLOCK FALSE
