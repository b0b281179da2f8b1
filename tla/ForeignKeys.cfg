SPECIFICATION FairSpec
CONSTANTS
  fa = fa
  fb = fb
  old = old
  new = new
  None = None
  Keys = {fa, fb}
  Defs = {old, new}
  Reports <- MCReports
  MaxFaults = 2
  MaxEdits = 2
INVARIANTS
  DefinitionsSurvive
  SuccessRestores
  DroppedStaysDropped
PROPERTIES
  KeysComeBack
