\* An add with a field of the wrong type is rolled back.
SPECIFICATION Spec
CONSTANTS
  w1 = w1
  Writers = {w1}
  Docs = {1}
  Loaded = {1}
  Words <- TwoWords
  DtcKey <- OwnKeys
  UnionFields = {}
  UnionKey = 3
  Contents <- AnyContent
  Cmds = {"add"}
  FaultKinds = {"bad_field"}
  Queries = {}
  MaxCmds = 1
  MaxFaults = 1
  MaxCrashes = 0
INVARIANTS RollbackRemovesRows
CHECK_DEADLOCK FALSE
