\* Rolling back with lookahead, comments, errors, contexts, rescans and the
\* continuation lines of the indented syntax.
SPECIFICATION Spec
CONSTANTS
    Streams <- MCStreams
    Alphabet = {"token", "block", "line"}
    MaxLen = 2
    Contexts = {c1, c2}
    MaxErrors = 1
    MaxDepth = 3
INVARIANTS TypeOK EachItemOnce SnapshotsSound LineCommentsScoped
PROPERTIES Transactional TypedValueHasNoLineComment
CHECK_DEADLOCK FALSE
