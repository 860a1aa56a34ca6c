SPECIFICATION Spec
CONSTANTS
  OrderIds = {o1}
  Instruments = {btc}
  Sides = {"buy"}
  Amounts = {1}
  Prices = {2}
  ReadCalls = {}
  MaxCmds = 1
  MaxSessions = 1
  StrictCancel = TRUE
CHECK_DEADLOCK FALSE
INVARIANT NotPlacedMeansNoTrade
