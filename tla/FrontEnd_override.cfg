SPECIFICATION Spec
CONSTANTS
  Numeral <- MCNumeral
  Truth <- MCTruth
  BadRegex <- MCBadRegex
  Projects <- MCProjects
  Texts <- MCTexts
  GetArgs <- MCGetArgs
INVARIANT
  LaterDeclarationsOverride
CHECK_DEADLOCK FALSE
