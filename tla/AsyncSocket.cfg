CONSTANTS
    Workers = {w1, w2}
    Ends = {client, server}
    UserCalls <- Everything
    BadPackets = TRUE
    MayReset = TRUE
    MaxSends = 1
SPECIFICATION FairSpec
INVARIANTS OneReceive ClosedIsLast NeverDeaf
PROPERTIES DisconnectEndsBoth ArmedIsTold ImplementsClientCallbacks
CHECK_DEADLOCK FALSE
