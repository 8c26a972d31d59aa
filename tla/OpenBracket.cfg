\* Brackets in the interpolations of raw preludes, and where the prelude ends.
SPECIFICATION Spec
CONSTANTS
    Sources <- BracketSources
    Scans = {"prelude"}
    Dialects = {"Sass"}
    Short = 3
    Long = 3
INVARIANT PreludeEndsWithLine
CHECK_DEADLOCK FALSE
