CONSTANTS
    Workers = {w1, w2}
    Clients = {c1}
    PeerMayReset = FALSE
    UserMayClose = FALSE
    MayStarve = FALSE
SPECIFICATION FairSpec
PROPERTIES CloseIsTold
CHECK_DEADLOCK FALSE
