\* One writer, all commands and failures, one crash, under fairness.
SPECIFICATION FairSpec
CONSTANTS
  w1 = w1
  Writers = {w1}
  Docs = {1}
  Loaded = {1}
  Words <- TwoWords
  DtcKey <- SharedKey
  UnionFields = {}
  UnionKey = 3
  Contents <- TwoContents
  Cmds = {"add", "delete"}
  FaultKinds = {"refused", "lost", "bad_field"}
  Queries = {}
  MaxCmds = 3
  MaxFaults = 1
  MaxCrashes = 1
INVARIANTS TypeOK
PROPERTIES RequestsEnd RetiredFlushed
CHECK_DEADLOCK FALSE
