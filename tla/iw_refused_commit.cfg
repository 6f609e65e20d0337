\* The snapshot update of an add fails after the old rows were queued.
SPECIFICATION Spec
CONSTANTS
  w1 = w1
  Writers = {w1}
  Docs = {1}
  Loaded = {1}
  Words <- TwoWords
  DtcKey <- OwnKeys
  UnionFields = {}
  UnionKey = 3
  Contents <- DisjointContents
  Cmds = {"add"}
  FaultKinds = {"refused"}
  Queries = {}
  MaxCmds = 1
  MaxFaults = 1
  MaxCrashes = 0
INVARIANTS QuietSearchable
CHECK_DEADLOCK FALSE
