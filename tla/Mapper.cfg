SPECIFICATION DocSpec
CONSTANTS
  Names <- MCNames
  Candidates <- AllCandidates
  FunctionNameLength = 3
  MaxFunctions = 2
  NULL = NULL
INVARIANT TypeOK
PROPERTIES ImplementsRegistry WritesMeasuredAndPlaceholders
