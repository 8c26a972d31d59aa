\* Layout, comments, strings, urls and interpolations in every dialect.
SPECIFICATION FairSpec
CONSTANTS
    Sources <- TokenSources
    MaxAtoms = 4
    MaxLines = 4
    MaxWidth = 4
    Dialects = {"Css", "Scss", "Sass", "Less"}
    IndentMod = 4
INVARIANTS TypeOK IndentStack DedentPerLevel DedentsBeforeContent ReadOnce DepthsExact
PROPERTIES LaysOutLines StepsBounded Terminates
CHECK_DEADLOCK FALSE
