\* Calls of mixins whose last group ends with a comma.
SPECIFICATION Spec
CONSTANTS
    Goals = {"call"}
    Alphabet <- AllAlphabets
    Before <- AllBefore
    MaxTokens <- AllLengths
    After <- AllAfter
    NestedProperties <- Nesting
    InLess <- LessReading
    Parse <- Reading
INVARIANTS SeparatorAssertionsHold
CHECK_DEADLOCK FALSE
