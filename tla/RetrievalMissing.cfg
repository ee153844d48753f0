SPECIFICATION RetrievalSpec
CONSTANTS
  r1 = r1
  r2 = r2
  d1 = d1
  d2 = d2
  Retrievers = {r1, r2}
  Docs = {d1, d2}
  NoText = NoText
  Texts <- MCTexts
  LexicalWeight = 3
  SemanticWeight = 7
  RRFConstant = 60
  Limit = 2
  MaxIndexings = 2
INVARIANTS
  MissingRankLast
CHECK_DEADLOCK FALSE
