SPECIFICATION FairSpec
CONSTANTS
    Indices <- IndicesDef
    Streams = {1, 2}
    Workloads <- WorkloadsDef
    MaxOps = 3
    MaxSyncs = 2
    MaxBlobs = 2
    Points = {0, 1}
INVARIANTS TypeOK ScreenIsAFrame AcksAreShown ReadyFrameIsRequested EveryStreamAnswered
PROPERTY EveryFrameShown
CHECK_DEADLOCK FALSE
