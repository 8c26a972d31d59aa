\* A query of Less that calls a detached ruleset.
SPECIFICATION Spec
CONSTANTS
    Goals = {"queries"}
    Alphabet <- AllAlphabets
    Before <- AllBefore
    MaxTokens <- AllLengths
    After <- AllAfter
    NestedProperties <- Nesting
    InLess <- LessReading
    Parse <- Reading
INVARIANTS NeverUnreachable
CHECK_DEADLOCK FALSE
