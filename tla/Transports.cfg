SPECIFICATION MCFairSpec
CONSTANTS
  g1 = g1
  g2 = g2
  g3 = g3
  v1 = v1
  Absent = Absent
  Empty = Empty
  Free = Free
  Threads = {g1, g2, g3}
  Callers = {g1, g2}
  RemoteValues = {v1}
  MaxRemoteCalls = 2
  Values = {Empty, v1}
INVARIANTS
  RepliesPair
PROPERTIES
  ImplementsService
  CallsReturn
  ImplementsRemote
  RemoteCallsReturn
