SPECIFICATION MCSpec
SYMMETRY Same
CONSTANTS
  NoTxn = NoTxn
  Threads = {g1, g2}
  TxnIDs = {1, 2, 3}
  Calls = {"update", "put", "get", "scan", "manual"}
  MaxFaults = 1
  g1 = g1
  g2 = g2
  v1 = v1
  v2 = v2
  Metadata = Metadata
  NoHandle = NoHandle
  Clients = {g1, g2}
  VectorIDs = {v1, v2}
  Dimensions = {0, 1}
  Lengths = {1, 2}
  Tracers = {g1, g2}
  MaxIdentifiers = 4
  MaxMicros = 2
  e1 = e1
  e2 = e2
  Extractors = {g1, g2}
  ItemFacts = {e1, e2}
  ItemTypes = {"one", "two"}
  Confidences = {0, 1, 2, 3}
  FullConfidence = 3
  MinConfidence = 2
  EntityTypes = {}
  RelationTypes = {"one"}
  ItemID <- MCItemID
  Extracted <- MCExtracted
  MaxCommits = 3
  r1 = r1
  r2 = r2
  d1 = d1
  d2 = d2
  Retrievers = {r1, r2}
  Docs = {d1, d2}
  NoText = NoText
  Texts <- MCTexts
  LexicalWeight = 3
  SemanticWeight = 7
  RRFConstant = 60
  Limit = 1
  MaxIndexings = 2
  Radix = 4
  Width = 2
  Slash = 1
  Prefix <- MCPrefix
  QueueIDs <- MCQueueIDs
  TaskIDs <- MCTaskIDs
  TaskPriorities <- MCTaskPriorities
  ReadyTimes <- MCReadyTimes
  Sequences <- MCSequences
  MaxKeys = 2
INVARIANTS
  FlagsTellTruth
  OutcomeIsTrue
  NothingLeaks
  CurrentFits
  CreatorsLook
  DeletesWhole
  HalfDeletedIsClosed
  SpansAttached
  EndsAreKept
  FoundTogether
  MatchesFirst
  KeysFaithful
PROPERTIES
  ImplementsCell
