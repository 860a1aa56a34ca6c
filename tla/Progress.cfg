SPECIFICATION ProgressSpec
CONSTANTS
    Symbol     = {"BTC", "bad"}
    BadSymbols = {"bad"}
    Symbols    <- OneSymbol
    Answers    = {"accepted", "partial", "malformed", "rejected", "badExtensions"}
    Bursts     <- FewBursts
    MaxReads   = 2
INVARIANT OnePending
PROPERTIES Settles RunEnds AnsweredOnce
CHECK_DEADLOCK FALSE
