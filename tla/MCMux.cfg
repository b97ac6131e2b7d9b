CONSTANTS
    MaxStreams = 1
    MaxChunks = 2
    Writers = {"client"}
    MaxQueued = 1
    AcceptCap = 1
    ConnCap = 1
SPECIFICATION FairSpec
INVARIANTS QueueAccounted CloseReachesStreams FinishedIsForgotten
PROPERTIES MuxIsStream WriteEnds
\* Two closed sessions have nothing left to do.
CHECK_DEADLOCK FALSE
