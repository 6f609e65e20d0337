\* One writer that crashes, an old and a new document, a searcher.
SPECIFICATION Spec
CONSTANTS
  w1 = w1
  Writers = {w1}
  Docs = {1, 2}
  Loaded = {1}
  Words <- TwoWords
  DtcKey <- OwnKeys
  UnionFields = {1, 2}
  UnionKey = 3
  Contents <- TwoContents
  Cmds = {"add"}
  FaultKinds = {}
  Queries = {1, 2}
  MaxCmds = 3
  MaxFaults = 0
  MaxCrashes = 2
INVARIANTS SearchSound
PROPERTIES AnswerSound ImplementsDocStore
CHECK_DEADLOCK FALSE
