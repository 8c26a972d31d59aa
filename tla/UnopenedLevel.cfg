\* A block whose first line starts with a group.
SPECIFICATION Spec
CONSTANTS
    Sources <- MCSources
    Kinds = {"decl", "comma", "group"}
    MaxLines = 3
    MaxWidth = 2
PROPERTIES LevelReopened
CHECK_DEADLOCK FALSE
