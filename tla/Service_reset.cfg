CONSTANTS
    Workers = {w1, w2}
    Clients = {c1, c2}
    PeerMayReset = TRUE
    UserMayClose = FALSE
    MayStarve = FALSE
SPECIFICATION FairSpec
PROPERTIES EveryClientAccepted
CHECK_DEADLOCK FALSE
