CONSTANTS
    Users = {u1, u2}
    Logger = logger
    Nobody = nobody
    Texts = {x}
    Kinds = {"exception", "parameter", "purecall"}
    MaxCrashes = 2
    MayFail = TRUE
SPECIFICATION FairSpec
INVARIANTS TypeOK CrashLinesKept EveryCrashReported
PROPERTIES CrashEnds
CHECK_DEADLOCK FALSE
