SPECIFICATION AnswersSpec
CONSTANTS
    MaxLength   = 9
    MaxNumbers  = 6
    MaxStrings  = 7
    MaxPairs    = 8
    MaxMarks    = 5
    MaxUnsigned = 101
    MaxNegative = 11
INVARIANTS
    TokensAreExact RefusesOnlyWrongTokens
    ParsesTheDocument RefusesOnlyWrongText ReferencesAreAPath StacksAgree
CHECK_DEADLOCK FALSE
