SPECIFICATION FairSpec
CONSTANTS
  ta = ta
  tb = tb
  tc = tc
  Tables = {tb, tc}
  Chunks <- MCChunks
  Preserved = {}
  Matching = {}
  Silent = {tc}
  Doubled = {}
  NumWorkers = 2
  MaxPending = 1
  MaxFaults = 1
PROPERTY ResumingConverges
