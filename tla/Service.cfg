CONSTANTS
    Workers = {w1, w2}
    Clients = {c1, c2}
    PeerMayReset = TRUE
    UserMayClose = TRUE
    MayStarve = TRUE
SPECIFICATION FairSpec
INVARIANTS OneAccept ErasedAfterInserted KeepsAccepting
PROPERTIES DeadConnectionErased ImplementsServerCallbacks
CHECK_DEADLOCK FALSE
