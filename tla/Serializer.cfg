CONSTANTS
    Threads = {t1, t2, t3}
    Requests = {r1, r2, r3, r4}
SPECIFICATION FairSpec
INVARIANTS MutualExclusion InOrderOnce
PROPERTIES OwnerLeavesNothingOlder EveryCallReturns AnnouncedIsExecuted ImplementsSerialExecutor
CHECK_DEADLOCK FALSE
