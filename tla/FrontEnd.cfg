SPECIFICATION Spec
CONSTANTS
  Numeral <- MCNumeral
  Truth <- MCTruth
  BadRegex <- MCBadRegex
  Projects <- MCProjects
  Texts <- MCTexts
  GetArgs <- MCGetArgs
INVARIANTS
  ParsedAsWritten
  ConditionsKeepTheirShape
  CheckPredictsImport
  GivenValuesWin
  PlansAreReady
  ImportsRunFirst
  FormatsAgree
PROPERTIES
  ParserAdvances
CHECK_DEADLOCK FALSE
