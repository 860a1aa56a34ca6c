SPECIFICATION TerminalSpec
CONSTANTS
  Words <- MCWords
  Typed <- MCTyped
  Nothing = "none"
  AsDouble <- MCAsDouble
  AsInt <- MCAsInt
  IntOf <- MCIntOf
  MaxSymbols = 2
  MaxCalls = 2
  MaxDepth = 6
  MaxRows = 3
  MaxCommands = 2
CHECK_DEADLOCK FALSE
INVARIANTS
  TypeOK
  PlacesWhatWasEntered
  NothingAfterAFailedRead
  ShownWholeOrNotAtAll
  EndsOnlyForLack
