\* A document is deleted and added again.
SPECIFICATION Spec
CONSTANTS
  w1 = w1
  Writers = {w1}
  Docs = {1}
  Loaded = {1}
  Words <- TwoWords
  DtcKey <- OwnKeys
  UnionFields = {}
  UnionKey = 3
  Contents <- AnyContent
  Cmds = {"add", "delete"}
  FaultKinds = {}
  Queries = {}
  MaxCmds = 3
  MaxFaults = 0
  MaxCrashes = 0
INVARIANTS QuietSearchable
CHECK_DEADLOCK FALSE
