SPECIFICATION FairSpec
CHECK_DEADLOCK FALSE
CONSTANTS
  c1 = c1
  c2 = c2
  c3 = c3
  current = current
  stale = stale
  old = old
  None = None
  Clients = {c1, c2, c3}
  Builds = {current, stale, old}
  Carried <- MCCarried
  DryRun = {c2}
  ClientVersion <- MCClientVersion
  ServerVersion <- MCServerVersion
  Blocks = 2
  MaxLeaves = 1
INVARIANTS
  RunsItsOwn
  PeersAgree
  InStep
PROPERTIES
  RunsEnd
