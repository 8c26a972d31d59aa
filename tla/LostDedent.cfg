\* The Dedent that a comment between two line breaks loses.
SPECIFICATION Spec
CONSTANTS
    Sources <- CommentedLayoutSources
    MaxAtoms = 0
    MaxLines = 4
    MaxWidth = 1
    Dialects = {"Sass"}
    IndentMod = 65536
PROPERTIES DedentReachesParser
CHECK_DEADLOCK FALSE
