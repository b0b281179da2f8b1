SPECIFICATION FairSpec
CONSTANTS
  ta = ta
  tb = tb
  tc = tc
  ts = ts
  Tables = {ta, tb, tc, ts}
  Chunks <- MCChunks
  Silent = {ts}
  Preserved = {ta, tb}
  NumWorkers = 2
  MaxPending = 1
  MaxFaults = 2
INVARIANTS
  TypeOK
  ChunksHaveTheirTable
  KeptRowsSurvive
  SuccessIsWhole
PROPERTIES
  LoadsConverge
