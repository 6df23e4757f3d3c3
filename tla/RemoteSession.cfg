SPECIFICATION FairSpec
CONSTANTS
    MaxUp = 1
    Bursts <- BurstsDef
    MaxBursts = 1
    Failing <- FailingDef
INVARIANTS TypeOK ClosedStaysClosed HiddenOnlyWhileOpen HandlerLeavesNothing FirstReasonRecorded
PROPERTIES AllOfItEnds
CHECK_DEADLOCK FALSE
