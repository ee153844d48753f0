SPECIFICATION Spec
CONSTANTS
  w1 = w1
  w2 = w2
  c1 = c1
  c2 = c2
  f1 = f1
  f2 = f2
  s1 = s1
  s2 = s2
  i1 = i1
  Writers = {w1}
  Consolidators = {c1, c2}
  Facts = {f1, f2}
  Sources = {s1}
  GivenIDs = {i1}
  GivenTimes = {}
  KeyOrder <- ByFact
  Superseded <- RetractF1
  UseTemporalUpdates = TRUE
  MaxConflictAge = 0
  MaxTime = 1
  MaxAdds = 3
SYMMETRY Same
INVARIANTS
  ContradictionsGrounded
  CleanRunRefreshes
