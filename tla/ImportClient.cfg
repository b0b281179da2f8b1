SPECIFICATION FairSpec
CONSTANTS
  ta = ta
  tb = tb
  tc = tc
  Tables = {ta, tb}
  Chunks <- MCChunks
  Preserved = {ta}
  Matching = {ta}
  Silent = {}
  Doubled = {}
  NumWorkers = 2
  MaxPending = 1
  MaxFaults = 3
INVARIANTS
  TypeOK
  CheckpointSound
  LoadsFindTheirTable
  PreservedRowsSafe
  PendingBounded
  AfterSeesWholeImport
PROPERTIES
  RefinesResumableImport
  ResumingConverges
