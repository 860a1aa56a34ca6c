SPECIFICATION Spec
CONSTANTS
  OrderIds = {o1, o2, o3}
  Instruments = {btc}
  Sides = {"buy"}
  Amounts = {1}
  Prices = {2}
  ReadCalls = {}
  MaxCmds = 3
  MaxSessions = 2
  StrictCancel = TRUE
SYMMETRY Symmetry
CHECK_DEADLOCK FALSE
INVARIANTS
  AtMostOneOrder
  OneSuccessor
