CONSTANTS
  Rows = {1, 2}
  Workers = {w1, w2}
  MaxAttempts = 2
  Batch = 2
  Concurrency = 1
  HTTPTimeout = 1
  ClaimLease = 3
  BackoffCap = 2
  Topics = {"backchannel_logout", "ciba_push"}
  NoBackoff = {"ciba_push"}
  Settings <- PushSetting
  MaxFaults = 1
SPECIFICATION FairSpec
PROPERTIES EveryNoticeSettles
CHECK_DEADLOCK FALSE
