SPECIFICATION Spec
SYMMETRY MCSymmetry
CONSTANTS
  n1 = n1
  n2 = n2
  n3 = n3
  n4 = n4
  GraphNodes = {n1, n2, n3, n4}
  StoredNodes = {n1, n2, n3}
  Start = n1
  Links <- MCLinks
  MaxDepths = {1, 2, 3}
  MaxEvents = 1
  TextLengths = {3, 7, 13}
  Priorities = {1, 2}
  Budgets = {0, 2}
  DefaultBudget = 3
  MaxSections = 3
  NoResult = NoResult
  a1 = a1
  a2 = a2
  h1 = h1
  h2 = h2
  k1 = k1
  k2 = k2
  Actors = {a1, a2}
  Handles = {h1, h2}
  CacheKeys = {k1, k2}
  Scores = {1, 2}
  Threshold = 0
  TTLs = {0, 1}
  MaxClock = 3
  MaxCalls = 3
  Incomparable = Incomparable
  NoEntry = NoEntry
  NoKey = NoKey
INVARIANTS
  NothingTooFar
  BFSFindsAll
  DeepWalksAreComplete
  TailDropKeepsFirst
  HeadDropTight
  ProportionalNear
  KeysMatch
  PurgeSparesLive
  SweepsComplete
  BestHit
  CountsExact
