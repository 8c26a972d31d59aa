----------------------------- MODULE Tokenizer -----------------------------
(***************************************************************************)
(* The tokenizer of crates/oxc_css_parser/src/tokenizer/mod.rs as a state   *)
(* machine: the cursor, the layout (indentation) of the indented syntax,    *)
(* the comment list, and the bracket and interpolation depths, together     *)
(* with the protocol by which the parser drives it through interpolated     *)
(* strings and url() bodies.                                               *)
(*                                                                         *)
(* The bytes are those of module Bytes.  bump() is a loop over whitespace   *)
(* and comments followed by one token; each turn of the loop is a step, so  *)
(* a reader sees what the loop overwrites.  Everything runs on one thread:  *)
(* the nondeterminism is the source, the dialect and what the parser asks   *)
(* for next.                                                               *)
(***************************************************************************)
EXTENDS Bytes, SequencesExt

CONSTANTS
    Sources,    \* the sources to tokenize
    Dialects,   \* the syntaxes to tokenize them as
    IndentMod   \* indents are u16: 2^16 in the code

ASSUME TokenizerAssumption ==
    /\ Sources \subseteq Seq(ByteClass)
    /\ Dialects \subseteq Syntax
    /\ IndentMod \in Nat \ {0}

VARIABLES
    src, syntax,    \* Tokenizer::source and Tokenizer::syntax
    st,             \* Tokenizer::state (struct TokenizerState)
    comments,       \* Tokenizer::comments
    phase,          \* "idle" between calls, "skip" inside skip_ws_or_comment, "failed"
    indent,         \* the local `indent` of skip_ws_or_comment (a sequence, empty = None)
    out,            \* the tokens returned so far
    nest,           \* the groups the parser has open, outermost first
    resume,         \* the interpolated construct whose next static piece the parser must scan
    reopened        \* how many levels reopen_indent_level has opened

vars == <<src, syntax, st, comments, phase, indent, out, nest, resume, reopened>>

----------------------------------------------------------------------------
Top == Last(st.indents)

Pop(seq) == Front(seq)

\* Indentation counts only in the indented syntax, outside every group.
IndentSensitive == syntax = "Sass" /\ st.parenDepth = 0

\* Mutant of Decrement: it does not saturate.
DecrementWraps(n) == n - 1

Decrement(n) == IF n = 0 THEN 0 ELSE n - 1

\* Tokenizer::new; the indented syntax steps over leading line breaks.
Init ==
    /\ src \in Sources /\ syntax \in Dialects
    /\ \E p \in First({k \in 0..Len(src) : syntax # "Sass" \/ At(src, k) \notin Newline}) :
         st = [pos |-> p, currentIndent |-> 0,
               indents |-> IF syntax = "Sass" THEN <<0>> ELSE <<>>,
               parenDepth |-> 0, lineComments |-> TRUE, interpDepth |-> 0,
               openerPending |-> FALSE, lineCommentsSeen |-> 0]
    /\ comments = <<>> /\ out = <<>> /\ nest = <<>>
    /\ phase = "idle" /\ indent = <<>> /\ resume = "none" /\ reopened = 0

Emitted == out # <<>>
AtEof   == Emitted /\ Last(out).kind = "Eof"

\* The caller keeps every token; a repeated Eof is the same token.
Emit(t) == out' = IF t.kind = "Eof" /\ AtEof THEN out ELSE Append(out, t)

----------------------------------------------------------------------------
(***************************************************************************)
(* bump: skip_ws_or_comment, then next.                                     *)
(***************************************************************************)
\* Mutants of PendingDedent: a level is kept open; Eof does not end the layout.
PendingDedentBut1 == IndentSensitive /\ Top > st.currentIndent + 1 /\ st.pos < Len(src)

\* More than one level can close at once: a Dedent of width zero for each
\* level that is left, before anything else is read.
PendingDedent == IndentSensitive /\ Top > st.currentIndent /\ st.pos < Len(src)

\* The static piece in front of a hole has just been read: the parser expects
\* the hole's `{` next and fails on any other token.
HoleDue == Emitted /\ Last(out).kind \in {"StrTemplate", "UrlTemplate"}

BumpPendingDedent ==
    /\ phase = "idle" /\ resume = "none" /\ PendingDedent
    /\ st' = [st EXCEPT !.indents = Pop(@)]
    /\ Emit(Outcome("Dedent", st.pos, st.pos, st.pos))
    /\ phase' = IF HoleDue THEN "failed" ELSE "idle"
    /\ UNCHANGED <<src, syntax, comments, indent, nest, resume, reopened>>

BumpStart ==
    /\ phase = "idle" /\ resume = "none" /\ ~PendingDedent
    /\ phase' = "skip" /\ indent' = <<>>
    /\ UNCHANGED <<src, syntax, st, comments, out, nest, resume, reopened>>

\* scan_indent over the blank run st.pos..c-1; b is the start of c's line.
IndentToken(len, b, c) ==
    Outcome(CASE len > Top -> "Indent" [] len < Top -> "Dedent" [] OTHER -> "Linebreak", b, c, c)

\* Mutants of Levels: a line as wide as its level opens another; one Dedent
\* closes every level the line has left.
LevelsPushEqual(len) ==
    IF len >= Top THEN Append(st.indents, len) ELSE Pop(st.indents)

LevelsPopAll(len) ==
    IF len > Top THEN Append(st.indents, len)
    ELSE SelectSeq(st.indents, LAMBDA level : level <= len)

\* A deeper line opens a level, a shallower one closes the innermost.
Levels(len) ==
    IF len > Top THEN Append(st.indents, len)
    ELSE IF len < Top THEN Pop(st.indents) ELSE st.indents

ScanIndent ==
    /\ phase = "skip" /\ At(src, st.pos) \in Ws /\ IndentSensitive
    /\ \E c \in WsEnd(src, st.pos) :
         IF c = Len(src)
           THEN /\ st' = [st EXCEPT !.pos = c]
                /\ indent' = <<Outcome("Eof", c, c, c)>>
         ELSE IF LineStarts(src, st.pos, c) = {}
           THEN /\ st' = [st EXCEPT !.pos = c]
                /\ indent' = <<>>
         ELSE \E b \in LineStarts(src, st.pos, c) :
                LET len == (c - b) % IndentMod
                IN  /\ st' = [st EXCEPT !.pos = c, !.currentIndent = len, !.indents = Levels(len)]
                    /\ indent' = <<IndentToken(len, b, c)>>
    /\ UNCHANGED <<src, syntax, comments, phase, out, nest, resume, reopened>>

SkipWs ==
    /\ phase = "skip" /\ At(src, st.pos) \in Ws /\ ~IndentSensitive
    /\ \E c \in WsEnd(src, st.pos) : st' = [st EXCEPT !.pos = c]
    /\ UNCHANGED <<src, syntax, comments, phase, indent, out, nest, resume, reopened>>

ScanBlockComment ==
    /\ phase = "skip" /\ CommentStart(src, st.pos) /\ At(src, st.pos + 1) = "star"
    /\ \E t \in BlockComment(src, st.pos) :
         /\ st' = [st EXCEPT !.pos = t.next]
         /\ comments' = Append(comments, t)
    /\ UNCHANGED <<src, syntax, phase, indent, out, nest, resume, reopened>>

\* `//` is a comment outside Css, unless a custom property value is being
\* rescanned as text; inside `#{...}` it always is.
LineCommentsOn == syntax # "Css" /\ (st.lineComments \/ st.interpDepth > 0)

\* In the indented syntax a comment that starts its line owns the deeper lines below.
ScanLineComment ==
    /\ phase = "skip" /\ CommentStart(src, st.pos) /\ At(src, st.pos + 1) = "slash"
    /\ LineCommentsOn
    /\ \E t \in LineComment(src, syntax, st.pos) :
       \E k \in IF IndentSensitive /\ StartsLine(src, st.pos)
                THEN ContinuationEnd(src, t.next, st.currentIndent, IndentMod)
                ELSE {t.next} :
         /\ st' = [st EXCEPT !.pos = k, !.lineCommentsSeen = @ + 1]
         /\ comments' = Append(comments,
                          IF k = t.next THEN t ELSE Outcome("Line", t.start, k, k))
    /\ UNCHANGED <<src, syntax, phase, indent, out, nest, resume, reopened>>

\* Nothing left to skip.
Skipped ==
    /\ phase = "skip"
    /\ At(src, st.pos) \notin Ws
    /\ ~(CommentStart(src, st.pos) /\ (At(src, st.pos + 1) = "star" \/ LineCommentsOn))

\* The layout token the loop left in `indent` is the token of this bump.
BumpLayout ==
    /\ Skipped /\ indent # <<>>
    /\ Emit(indent[1])
    /\ phase' = "idle" /\ indent' = <<>>
    /\ UNCHANGED <<src, syntax, st, comments, nest, resume, reopened>>

(***************************************************************************)
(* next: what a token does to the tokenizer's depths, and what the parser   *)
(* notes about the groups it is in.                                        *)
(***************************************************************************)
\* Sass counts `{`, like `(`, as a group in which line breaks mean nothing.
Brace == IF syntax = "Sass" THEN 1 ELSE 0

Opens(t)  == t.kind \in {"LParen", "LBrace", "HashLBrace"}
Closes(t) == t.kind \in {"RParen", "RBrace"}

\* A `{` counts towards the interpolation it opens or is nested in.
OpenBrace(t) ==
    [st EXCEPT !.pos = t.next, !.parenDepth = @ + Brace, !.openerPending = FALSE,
               !.interpDepth = IF st.openerPending \/ @ > 0 THEN @ + 1 ELSE @]

Depths(t) ==
    CASE t.kind = "LParen" -> [st EXCEPT !.pos = t.next, !.parenDepth = @ + 1]
      [] t.kind = "RParen" -> [st EXCEPT !.pos = t.next, !.parenDepth = Decrement(@)]
      [] t.kind = "LBrace" -> OpenBrace(t)
      [] t.kind = "HashLBrace" ->
            [st EXCEPT !.pos = t.next, !.parenDepth = @ + Brace, !.interpDepth = @ + 1]
      [] t.kind = "RBrace" ->
            [st EXCEPT !.pos = t.next, !.interpDepth = Decrement(@),
                       !.parenDepth = IF Brace = 1 THEN Decrement(@) ELSE @]
      [] t.kind = "StrTemplate" /\ syntax # "Less" ->
            [st EXCEPT !.pos = t.next, !.openerPending = TRUE]
      [] OTHER -> [st EXCEPT !.pos = t.next]

\* The group a token opens: the hole of a string or url when its template has
\* just been read, a plain brace or `#{` otherwise.
Group(t) ==
    CASE t.kind = "LParen" -> "paren"
      [] t.kind = "HashLBrace" -> "hash"
      [] OTHER -> IF Emitted /\ Last(out).kind = "StrTemplate" THEN "str"
                  ELSE IF Emitted /\ Last(out).kind = "UrlTemplate" THEN "url" ELSE "brace"

\* A closer of the wrong kind ends the parser's construct with an error.
Matches(t) == /\ nest # <<>>
              /\ (t.kind = "RParen") = (Last(nest) = "paren")

\* The parser's side: SassInterpolatedStr, LessInterpolatedStr and
\* SassInterpolatedUrl scan the next static piece directly behind the brace
\* that closes their hole.
Follow(t) ==
    /\ nest' = IF Opens(t) THEN Append(nest, Group(t))
               ELSE IF Closes(t) /\ nest # <<>> THEN Pop(nest) ELSE nest
    /\ resume' = IF t.kind = "RBrace" /\ Matches(t) /\ Last(nest) \in {"str", "url"}
                 THEN Last(nest) ELSE "none"

Accept(t) ==
    IF t.kind = "Err" \/ (Closes(t) /\ nest # <<>> /\ ~Matches(t))
      THEN /\ phase' = "failed"
           /\ UNCHANGED <<st, out, nest, resume>>
      ELSE /\ phase' = "idle" /\ st' = Depths(t) /\ Emit(t) /\ Follow(t)

BumpToken ==
    /\ Skipped /\ indent = <<>>
    /\ \E t \in Lex(src, syntax, st.pos) : Accept(t)
    /\ UNCHANGED <<src, syntax, comments, indent, reopened>>

----------------------------------------------------------------------------
(***************************************************************************)
(* The scanners the parser calls past the dispatch.                         *)
(***************************************************************************)
Layout == {"Indent", "Dedent", "Linebreak", "Eof"}

\* bump_without_ws_or_comments: a piece glued to the content token before it.
BumpWithoutWs ==
    /\ phase = "idle" /\ resume = "none"
    /\ Emitted /\ Last(out).kind \notin Layout
    /\ \E t \in Lex(src, syntax, st.pos) : Accept(t)
    /\ UNCHANGED <<src, syntax, comments, indent, reopened>>

\* scan_string_template behind an interpolation.
ScanStringTemplate ==
    /\ phase = "idle" /\ resume = "str"
    /\ \E t \in StringPiece(src, syntax, FALSE, st.pos, st.pos) : Accept(t)
    /\ UNCHANGED <<src, syntax, comments, indent, reopened>>

\* Mutant of CloseUrl: the depth of the `(` is never left.
CloseUrlKeepsDepth(t) == [st EXCEPT !.pos = t.next]

\* A url scanner consumes the `)` whose `(` was a token, and leaves its depth.
CloseUrl(t) == [st EXCEPT !.pos = t.next, !.parenDepth = Decrement(@)]

AcceptUrl(t) ==
    CASE t.kind = "Err" -> phase' = "failed" /\ UNCHANGED <<st, out, nest, resume>>
      [] t.kind = "UrlTemplate" ->
            /\ phase' = "idle" /\ Emit(t) /\ resume' = "none" /\ UNCHANGED nest
            /\ st' = [st EXCEPT !.pos = t.next, !.openerPending = TRUE]
      [] OTHER ->
            /\ phase' = "idle" /\ Emit(t) /\ resume' = "none" /\ nest' = Pop(nest)
            /\ st' = CloseUrl(t)

\* Url::parse has just consumed `url(`; is_start_of_url_string leaves a quoted
\* body to the dispatch.
ScanUrlRawOrTemplate ==
    /\ phase = "idle" /\ resume = "none"
    /\ Len(out) >= 2 /\ Last(out).kind = "LParen"
    /\ out[Len(out) - 1].kind = "Ident" /\ out[Len(out) - 1].end = Last(out).start
    /\ Last(out).end = st.pos
    /\ \E c \in WsEnd(src, st.pos) :
         /\ At(src, c) # "quote"
         /\ \E t \in UrlPiece(src, syntax, TRUE, c) : AcceptUrl(t)
    /\ UNCHANGED <<src, syntax, comments, indent, reopened>>

ScanUrlTemplate ==
    /\ phase = "idle" /\ resume = "url"
    /\ \E t \in UrlPiece(src, syntax, FALSE, st.pos) : AcceptUrl(t)
    /\ UNCHANGED <<src, syntax, comments, indent, reopened>>

(***************************************************************************)
(* SimpleBlock::parse drains a Dedent, peeks one token further in search of *)
(* an Indent, and only then calls reopen_indent_level: the depths that call *)
(* reads are those behind the peeked token.                                 *)
(***************************************************************************)
\* Mutant of ReopenIndentLevel: a level that is open is opened again.
ReopenIndentLevelAgain ==
    /\ phase = "idle" /\ resume = "none"
    /\ Len(out) >= 2 /\ out[Len(out) - 1].kind = "Dedent"
    /\ Last(out).kind # "Indent"
    /\ IndentSensitive
    /\ st' = [st EXCEPT !.indents = Append(@, st.currentIndent)]
    /\ reopened' = reopened + 1
    /\ UNCHANGED <<src, syntax, comments, phase, indent, out, nest, resume>>

ReopenIndentLevel ==
    /\ phase = "idle" /\ resume = "none"
    /\ Len(out) >= 2 /\ out[Len(out) - 1].kind = "Dedent"
    /\ Last(out).kind # "Indent"
    /\ IndentSensitive /\ Top < st.currentIndent
    /\ st' = [st EXCEPT !.indents = Append(@, st.currentIndent)]
    /\ reopened' = reopened + 1
    /\ UNCHANGED <<src, syntax, comments, phase, indent, out, nest, resume>>

\* parse_sass_custom_property_value: line comments are off from the colon of
\* the property to the terminator of its value, which has been peeked.
LineCommentsOff ==
    /\ phase = "idle" /\ resume = "none" /\ syntax \in {"Scss", "Sass"}
    /\ Emitted /\ Last(out).kind = "Punct" /\ st.lineComments
    /\ st' = [st EXCEPT !.lineComments = FALSE]
    /\ UNCHANGED <<src, syntax, comments, phase, indent, out, nest, resume, reopened>>

LineCommentsRestored ==
    /\ phase = "idle" /\ resume = "none" /\ ~st.lineComments
    /\ st' = [st EXCEPT !.lineComments = TRUE]
    /\ UNCHANGED <<src, syntax, comments, phase, indent, out, nest, resume, reopened>>

Bump == \/ BumpPendingDedent \/ BumpStart \/ ScanIndent \/ SkipWs
        \/ ScanBlockComment \/ ScanLineComment \/ BumpLayout \/ BumpToken

Next == \/ Bump
        \/ BumpWithoutWs \/ ScanStringTemplate
        \/ ScanUrlRawOrTemplate \/ ScanUrlTemplate
        \/ ReopenIndentLevel \/ LineCommentsOff \/ LineCommentsRestored

Spec == Init /\ [][Next]_vars

\* The parser's loops run until the tokenizer reports Eof or an error.
FairSpec == Spec /\ WF_vars(Bump) /\ WF_vars(ScanStringTemplate) /\ WF_vars(ScanUrlTemplate)

----------------------------------------------------------------------------
(***************************************************************************)
(* What the tokenizer promises.                                             *)
(***************************************************************************)
\* Every variable has the shape of its field in the code.
TypeOK ==
    /\ src \in Seq(ByteClass) /\ syntax \in Syntax
    /\ st \in [pos : 0..Len(src), currentIndent : 0..(IndentMod - 1), indents : Seq(Nat),
               parenDepth : Nat, lineComments : BOOLEAN, interpDepth : Nat,
               openerPending : BOOLEAN, lineCommentsSeen : Nat]
    /\ phase \in {"idle", "skip", "failed"}
    /\ resume \in {"none", "str", "url"}
    /\ nest \in Seq({"paren", "brace", "hash", "str", "url"})
    /\ reopened \in Nat

\* TokenizerState::indents is a stack of strictly deeper levels over the root
\* level 0 in the indented syntax and is never used in the others: pop() never
\* removes the root, whatever the lines' widths (and their wrapping to u16).
IndentStack ==
    IF syntax = "Sass"
      THEN /\ st.indents # <<>> /\ st.indents[1] = 0
           /\ \A i \in 1..(Len(st.indents) - 1) : st.indents[i] < st.indents[i + 1]
      ELSE st.indents = <<>>

\* Tokens of a kind made so far, the one about to be returned included.
CountKind(kind) == LET made == out \o indent
                   IN  Cardinality({i \in 1..Len(made) : made[i].kind = kind})

\* The levels on the stack are exactly the Indents the parser has been given or
\* has reopened minus the Dedents it has been given: it closes one block per
\* Dedent, so with one more or one less every later statement of the sheet would
\* hang in the wrong block.
DedentPerLevel ==
    (syntax = "Sass" /\ comments = <<>>) =>
      Len(st.indents) = 1 + CountKind("Indent") - CountKind("Dedent") + reopened

\* "Sass can dedent more than one level at a time, so we need to produce a
\* dedent token for each level" (mod.rs:288): the Dedent made for a level that
\* was popped reaches the parser.
DedentReachesParser ==
    [][(indent # <<>> /\ indent[1].kind = "Dedent" /\ indent' # indent)
         => out' = Append(out, indent[1])]_vars

\* A line's content is handed out only when every level it left is closed: the
\* token of a string template, of a declaration or of a selector never has a
\* Dedent of an earlier line behind it.  A block comment between the line break
\* and the content loses the Dedent of the break (DedentReachesParser), and the
\* next one comes behind the content; a line comment does not.
OnlyLineComments == \A k \in 1..Len(comments) : comments[k].kind = "Line"

DedentsBeforeContent ==
    (/\ syntax = "Sass" /\ OnlyLineComments
     /\ phase = "idle" /\ Emitted /\ Last(out).kind \notin Layout)
      => Top <= st.currentIndent

\* Every byte the cursor is past is whitespace, in exactly one comment, in
\* exactly one token, the `#` (Less `@`) in front of an interpolated string's or
\* url's `{`, or the `)` behind a url body: nothing is lost, nothing read twice,
\* and the tokens come out in source order, layout tokens included.
Covers(t, i) == t.start <= i /\ i < t.end

Readers(i) == Cardinality({k \in 1..Len(out) : Covers(out[k], i)})
              + Cardinality({k \in 1..Len(comments) : Covers(comments[k], i)})

InOrder ==
    \A i \in 1..(Len(out) - 1) : out[i].start <= out[i].end /\ out[i].end <= out[i + 1].start

ReadOnce ==
    /\ InOrder
    /\ phase # "failed" => \A i \in 0..(st.pos - 1) :
        LET b == At(src, i)
        IN  \/ Readers(i) = 1
            \/ b \in Ws /\ Readers(i) = 0
            \/ b \in {"hash", "at"} /\ At(src, i + 1) = "lbrace" /\ Readers(i) = 0
            \/ b = "close" /\ Readers(i) = 0
                 /\ \E k \in 1..Len(out) : /\ out[k].kind \in {"UrlRaw", "UrlTail"}
                                           /\ out[k].next = i + 1

\* The two depths, kept by saturating counters, are the real nesting.
\* sass_interpolation_depth counts the braces open from the outermost
\* interpolation on, although strings and urls hand their opener over through a
\* flag; paren_depth counts the open groups (and, in the indented syntax,
\* braces), outside all of which a line break is layout.
Interpolations == {i \in 1..Len(nest) : nest[i] \in {"hash", "str", "url"}}

InInterpolation == {i \in 1..Len(nest) : nest[i] # "paren" /\ \E k \in Interpolations : k <= i}

Groups == {i \in 1..Len(nest) : nest[i] = "paren" \/ syntax = "Sass"}

DepthsExact ==
    phase # "failed" =>
      /\ st.parenDepth = Cardinality(Groups)
      /\ syntax \in {"Scss", "Sass"} => st.interpDepth = Cardinality(InInterpolation)

\* The opener flag is never stale: while it is set the next byte is the `{` it
\* was set for, so no other brace can be taken for an interpolation.
OpenerIsNext == st.openerPending => At(src, st.pos) = "lbrace"

\* Eof is final: the nested indented blocks of a source all end at the one Eof,
\* which no Dedent follows however many levels the source leaves open.
EofIsFinal == [][AtEof => out' = out]_vars

\* Every step of a bump, and every scanner the parser calls, reads something of the
\* source, closes a level or returns, up to the first Eof: only the parser's switch
\* of the line comments does not count.  So no loop of the tokenizer goes round
\* without reading, and the Dedents of a source are bounded by its length.
Budget ==
    LET one(p) == IF p THEN 1 ELSE 0
    IN  6 * (Len(src) - st.pos)
        + Len(st.indents) + 2 * one(syntax = "Sass" /\ Top # st.currentIndent)
        + 2 * one(indent # <<>>) + 2 * one(~AtEof)
        + CASE phase = "idle" -> 2
            [] phase = "skip" -> 1
            [] OTHER          -> 0

StepsBounded ==
    [][\/ AtEof \/ LineCommentsOff \/ LineCommentsRestored
       \/ Budget' \in Nat /\ Budget' < Budget]_vars

\* Tokenizing ends, whatever the source.
Terminates == <>(AtEof \/ phase = "failed")

----------------------------------------------------------------------------
(***************************************************************************)
(* The layout of plain lines.  Where no comment, bracket, brace or string is *)
(* in the way, the tokenizer of the indented syntax implements LineLayout.   *)
(* A line is known by the offset of its first byte that is no blank.         *)
(***************************************************************************)
Plain ==
    /\ syntax = "Sass"
    /\ \A i \in 0..(Len(src) - 1) :
          /\ At(src, i) \in {"name", "sp", "nl", "cr", "slash", "star", "hash", "at", "punct"}
          /\ ~CommentStart(src, i)

LineFirsts == {i \in 0..(Len(src) - 1) : At(src, i) \notin Ws /\ StartsLine(src, i)}

\* How far the line is indented whose content begins at i.
WidthAt(i) ==
    LET start == CHOOSE b \in 0..i : /\ b = 0 \/ At(src, b - 1) \in Newline
                                     /\ \A k \in b..(i - 1) : At(src, k) = "sp"
    IN  (i - start) % IndentMod

\* The next content is the first of its line, and the line break is behind the cursor.
LineBegun == \E c \in WsEnd(src, st.pos) : c \in LineFirsts /\ LineStarts(src, st.pos, c) = {}

\* The token that was made last, unless the next one is being looked for.
Made ==
    LET made == out \o indent
    IN  IF made = <<>> \/ (phase = "skip" /\ indent = <<>>) THEN "none"
        ELSE CASE Last(made).kind = "Indent" -> "indent"
               [] Last(made).kind = "Dedent" -> "dedent"
               [] Last(made).kind = "Linebreak" -> "linebreak"
               [] Last(made).kind = "Eof" -> "eof"
               [] OTHER -> "word"

L == INSTANCE LineLayout
       WITH widths <- [i \in LineFirsts |-> WidthAt(i)],
            left <- {i \in LineFirsts : i >= st.pos},
            begun <- LineBegun, indents <- st.indents, width <- st.currentIndent, token <- Made

\* The layout tokens of plain lines are those the blocks of the indented syntax are
\* parsed from (module Blocks), whatever the blanks in front of a line, behind its
\* content and on empty lines, and wherever the width wraps: where the source is
\* plain, the tokenizer behaves as L!LSpec says.
LaysOutLines ==
    /\ Plain => L!LInit
    /\ [][Plain => [L!LNext]_(L!lvars)]_vars

=============================================================================
