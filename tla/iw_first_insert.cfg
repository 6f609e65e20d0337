\* Two writers add the same new document.
SPECIFICATION Spec
CONSTANTS
  w1 = w1
  w2 = w2
  Writers = {w1, w2}
  Docs = {1}
  Loaded = {}
  Words <- TwoWords
  DtcKey <- OwnKeys
  UnionFields = {}
  UnionKey = 3
  Contents <- AnyContent
  Cmds = {"add"}
  FaultKinds = {}
  Queries = {}
  MaxCmds = 2
  MaxFaults = 0
  MaxCrashes = 0
PROPERTIES FirstInsertIsNew
CHECK_DEADLOCK FALSE
