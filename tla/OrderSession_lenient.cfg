SPECIFICATION FairSpec
CONSTANTS
  OrderIds = {o1, o2}
  Instruments = {btc}
  Sides = {"buy", "hold"}
  Amounts = {1, 2}
  Prices = {2}
  ReadCalls = {"open_orders"}
  MaxCmds = 2
  MaxSessions = 2
  StrictCancel = FALSE
CHECK_DEADLOCK FALSE
INVARIANT VerdictsHold
PROPERTIES CommandEnds
