SPECIFICATION Spec
CONSTANTS
  OrderIds = {o1, o2}
  Instruments = {btc}
  Sides = {"buy", "hold"}
  Amounts = {1, 2}
  Prices = {2}
  ReadCalls = {"open_orders", "account_summary", "market_data"}
  MaxCmds = 2
  MaxSessions = 2
  StrictCancel = TRUE
SYMMETRY Symmetry
CHECK_DEADLOCK FALSE
INVARIANTS
  TypeOK
  StragglersAreFlagged
  VerdictsHold
  ReplacementFollowsCancel
PROPERTIES EffectsInTime KeepsPromise
