CONSTANTS
    MaxUp = 2
    MaxDown = 2
    MaxData = 2
    MaxBatch = 2
    QueueDepth = 1
    OutCap = 1
    MaxFaults = 1
    MaxAttempts = 2
SPECIFICATION FairSpec
PROPERTIES UplinkIsStream DownlinkIsStream CloseWriteEnds DownlinkDelivers
CHECK_DEADLOCK FALSE
