\* Blocks and continuation lines of the indented syntax.
SPECIFICATION MCSpec
CONSTANTS
    Sources <- MCSources
    Kinds = {"decl", "rule", "value", "clause", "comma"}
    MaxLines = 4
    MaxWidth = 2
INVARIANTS TypeOK LevelsAccounted EveryDedentCloses ChildrenDeeper
PROPERTIES ReadsLayout StepsBounded
