SPECIFICATION Spec
CONSTANTS
  ta = ta
  tb = tb
  tc = tc
  Tables = {ta, tb}
  Chunks <- MCChunks
  Preserved = {ta}
  Matching = {ta}
  Silent = {}
  Doubled = {ta}
  NumWorkers = 2
  MaxPending = 1
  MaxFaults = 1
INVARIANT CheckpointSound
