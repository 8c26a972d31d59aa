\* A block at the depth of another statement's continuation line.
SPECIFICATION Spec
CONSTANTS
    Sources <- MCSources
    Kinds = {"decl", "rule", "value"}
    MaxLines = 4
    MaxWidth = 2
INVARIANTS BlockIsOwn
CHECK_DEADLOCK FALSE
