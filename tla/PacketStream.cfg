CONSTANTS
    Size = 8
    HeadSize = 4
    FieldSize = 2
    SizeLimit = 16
    SendSize = 10
    Packets <- SmallPackets
    MaxPackets = 3
SPECIFICATION FairSpec
INVARIANTS InBuffer DeliveredAsSent
PROPERTIES AllDelivered
CHECK_DEADLOCK FALSE
