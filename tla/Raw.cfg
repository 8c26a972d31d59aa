\* Raw runs: pairs, interpolated strings, errors at the end of the source, annotations.
SPECIFICATION MCSpec
CONSTANTS
    Sources <- RawSources
    Scans = {"value", "nonblock", "prelude", "parens", "args", "progid", "unknown"}
    Dialects = {"Css", "Sass"}
    Short = 3
    Long = 4
INVARIANTS TypeOK EofErrorAtOpener ImportantOutside LongestBalanced StringsWhole
PROPERTIES StepsBounded
