CONSTANTS t1 = t1 t2 = t2 k1 = k1 k2 = k2 None = None
CONSTANTS Txns = {t1, t2} Pumps = {k1, k2} MaxId = 4 Batch = 2
CONSTANTS MayCheckpoint = TRUE MayRefuse = TRUE
CONSTANT LegacyPrev <- Forked
SPECIFICATION FairSpec
CHECK_DEADLOCK FALSE
INVARIANTS ChainNeverForks StreamMissesNothing CheckpointRestoresExports
PROPERTIES LogNeverWedged EveryEntryStreams
