\* A division whose left side is a sum.
SPECIFICATION Spec
CONSTANTS
    Goals = {"operators"}
    Alphabet <- AllAlphabets
    Before <- AllBefore
    MaxTokens <- AllLengths
    After <- AllAfter
    NestedProperties <- Nesting
    InLess <- LessReading
    Parse <- Reading
INVARIANTS TiersBind
CHECK_DEADLOCK FALSE
