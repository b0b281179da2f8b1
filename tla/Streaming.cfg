SPECIFICATION FairSpec
CONSTANTS
  te = te
  tf = tf
  tg = tg
  ta = ta
  ts = ts
  tv = tv
  w1 = w1
  w2 = w2
  Tables = {te, tf, tg, ta, ts, tv}
  Chunks <- MCChunks
  Excluded = {te}
  Aggregate = {ta, ts}
  Silent = {ts}
  Spare <- MCSpare
  Workers = {w1, w2}
  Full <- MCFull
  Crew = 2
  Turn <- MCTurn
  ChannelCap = 1
  BufCap = 2
  PipeCap = 1
  MaxFaults = 1
INVARIANTS
  DoneMeansAll
PROPERTIES
  RefinesTableStream
  EveryoneEnds
