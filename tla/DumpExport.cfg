SPECIFICATION Spec
CONSTANTS
  ta = ta
  ts = ts
  Tables = {ta, ts}
  Chunks <- MCChunks
  Silent = {ts}
  HasPreserves = TRUE
  HasPostProcess = FALSE
  MaxExports = 2
  MaxFaults = 2
CHECK_DEADLOCK FALSE
INVARIANTS
  PublishedIsWhole
  AcceptedIsWhole
