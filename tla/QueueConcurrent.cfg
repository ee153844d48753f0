SPECIFICATION BoundedSpec
SYMMETRY Same
CHECK_DEADLOCK FALSE
CONSTANTS
  w1 = w1
  w2 = w2
  p1 = p1
  p2 = p2
  Nobody = Nobody
  NoKey = NoKey
  NoTask = NoTask
  t1 = t1
  t2 = t2
  Workers = {w1, w2}
  Procs = {p1}
  ProcOf <- OneProcess
  Producers = {w1, w2}
  Consumers = {w1, w2}
  Purgers = {w1, w2}
  Serialized = FALSE
  TaskIDs = {t1, t2}
  Priorities = {0}
  MaxRetries = 2
  Backend = "scanPrefix"
  MaxClock = 0
  MaxErrors = 1
  MaxCrashes = 0
  MaxClaims = 2
  VisibilityTimeout = 1
INVARIANTS
  TypeOK
  TaskRecordsSound
  OneKeyPerTask
  TotalsNeverOvercount
