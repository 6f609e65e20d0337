\* Two writers on a document that exists, with a searcher, no failures.
SPECIFICATION Spec
CONSTANTS
  w1 = w1
  w2 = w2
  Writers = {w1, w2}
  Docs = {1}
  Loaded = {1}
  Words <- TwoWords
  DtcKey <- SharedKey
  UnionFields = {1, 2}
  UnionKey = 3
  Contents <- TwoContents
  Cmds = {"add"}
  FaultKinds = {}
  Queries = {2}
  MaxCmds = 3
  MaxFaults = 0
  MaxCrashes = 0
SYMMETRY WriterSymmetry
INVARIANTS ExclusiveVersion SearchSound SettledSearchable IInv
PROPERTIES AnswerSound ImplementsDocStore
CHECK_DEADLOCK FALSE
