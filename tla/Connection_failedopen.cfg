SPECIFICATION Spec
CONSTANTS
    Symbol     = {"BTC", "bad"}
    BadSymbols = {"bad"}
    Symbols    <- OneSymbol
    Answers    = {"accepted", "badExtensions"}
    Bursts     <- FewBursts
    MaxReads   = 1
INVARIANT OpenOrFail
CHECK_DEADLOCK FALSE
