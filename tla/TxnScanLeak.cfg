SPECIFICATION FairSpec
CONSTANTS
  NoTxn = NoTxn
  Threads = {g1, g2}
  TxnIDs = {1, 2}
  Calls = {"scan"}
  MaxFaults = 0
PROPERTIES
  ScanReleases
CHECK_DEADLOCK FALSE
