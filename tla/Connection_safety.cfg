SPECIFICATION Spec
CONSTANTS
    Symbol     = {"BTC", "bad"}
    BadSymbols = {"bad"}
    Symbols    <- GoodAndBad
    Answers    = {"accepted", "partial", "malformed", "rejected"}
    Bursts     <- AllBursts
    MaxReads   = 3
INVARIANTS TypeOK OneRead OneWrite QueueOrder NoLostWakeup CloseTimed AllOrNothing
PROPERTY KeepsPromise
CHECK_DEADLOCK FALSE
