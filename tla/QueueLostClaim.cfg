SPECIFICATION FairSpec
CONSTANTS
  w1 = w1
  w2 = w2
  p1 = p1
  p2 = p2
  Nobody = Nobody
  NoKey = NoKey
  NoTask = NoTask
  t1 = t1
  t2 = t2
  Workers = {w1, w2}
  Procs = {p1}
  ProcOf <- OneProcess
  Producers = {w1}
  Consumers = {w2}
  Purgers = {w2}
  Serialized = FALSE
  TaskIDs = {t1}
  Priorities = {0}
  MaxRetries = 2
  Backend = "ipc"
  MaxClock = 2
  MaxErrors = 0
  MaxCrashes = 1
  VisibilityTimeout = 1
PROPERTIES
  VisibilityTimeoutRecovers
