SPECIFICATION Spec
CONSTANTS
  Words <- MCWords
  Typed <- MCTyped
  Nothing = "none"
  AsDouble <- MCAsDouble
  AsInt <- MCAsInt
  IntOf <- MCIntOf
  MaxSymbols = 2
  MaxCalls = 2
CHECK_DEADLOCK FALSE
INVARIANTS
  EmptyKindIsDefault
