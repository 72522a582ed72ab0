CONSTANTS
    Workers = {w1, w2}
    Ends = {client, server}
    UserCalls <- Orderly
    BadPackets = FALSE
    MayReset = TRUE
    MaxSends = 1
SPECIFICATION FairSpec
PROPERTIES ClosedIsTold
CHECK_DEADLOCK FALSE
