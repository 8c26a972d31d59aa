\* Every grammar over the sources of its goals.
SPECIFICATION Spec
CONSTANTS
    Goals <- AllGoalNames
    Alphabet <- AllAlphabets
    Before <- AllBefore
    MaxTokens <- AllLengths
    After <- AllAfter
    NestedProperties <- Nesting
    InLess <- LessReading
    Parse <- Reading
INVARIANTS SpansNest EveryTokenOnce Binding OneCombinatorBetween SeparatorsCounted
    BlocksMatch OpenBlocksReported StatementsSeparated BraceMakesARule ChildrenIndented RereadBounded
    KeyframesOneLevel OneWordJoins
CHECK_DEADLOCK FALSE
