------------------------------- MODULE Blocks -------------------------------
(***************************************************************************)
(* Statements and blocks of the indented syntax: parse_statements and       *)
(* SimpleBlock::parse (crates/oxc_css_parser/src/parser/stmt.rs), with the  *)
(* continuation lines of sass.rs and reopen_indent_level of                *)
(* tokenizer/mod.rs.                                                       *)
(*                                                                         *)
(* The parser never compares columns.  It trusts that every Indent it was   *)
(* given, as the opening of a block or inside a statement that runs on, is  *)
(* met by one Dedent; this module says when that trust is right.            *)
(*                                                                         *)
(* A source is a sequence of lines, each with its width and one word on it; *)
(* words are told apart by what the statement they belong to does next:     *)
(*   "decl"    the statement ends on this line and takes no block  (a: b)   *)
(*   "rule"    it ends here and may take a block                   (.a)     *)
(*   "group"   the same, and its first token opens a group         ([a])    *)
(*   "value"   it must run on, and takes no block                  ($a:)    *)
(*   "clause"  it must run on, and takes a block           (@each $a in)    *)
(*   "comma"   a selector list that a deeper line continues        (a,)     *)
(* Tokens of a line beyond its first, `;` as a separator and comments       *)
(* (module Tokenizer) are left out.                                        *)
(***************************************************************************)
EXTENDS Integers, Sequences, SequencesExt

CONSTANT Sources    \* the sources to parse

Kind == {"decl", "rule", "group", "value", "clause", "comma"}

Line == [width : Nat, kind : Kind]

ASSUME BlocksAssumption == Sources \subseteq Seq(Line)

VARIABLES
    lines,      \* the source
    indents,    \* TokenizerState::indents
    width,      \* TokenizerState::current_indent
    next,       \* the line of the next word
    begun,      \* the line break before that word has been read
    cached,     \* ParserCursor::cached_token; "none" = None
    pending,    \* Parser::sass_pending_indents
    mode,       \* the function that is running
    stmt,       \* the statement being parsed, by its first line
    reads,      \* what its header still reads: "end", "open" or "comma"
    eaten,      \* the Indents its header has consumed
    drained,    \* the local `drained`
    open,       \* the blocks that are open, innermost last
    stmts       \* the statements met so far

layout == <<indents, width, next, begun>>

vars == <<lines, indents, width, next, begun, cached, pending, mode, stmt, reads,
          eaten, drained, open, stmts>>

TakesBlock(kind) == kind \notin {"decl", "value"}

Top == Last(indents)

\* The line of the word that has been read last.
Here == next - 1

----------------------------------------------------------------------------
(***************************************************************************)
(* Tokenizer::bump over the lines.  Blanks in front of the first line are    *)
(* indentation only if a line break is among them.                          *)
(***************************************************************************)
Init ==
    /\ lines \in Sources
    /\ indents = <<0>> /\ width = 0 /\ next = 1 /\ begun \in BOOLEAN
    /\ cached = "none" /\ pending = 0 /\ mode = "statements"
    /\ stmt = 0 /\ reads = "end" /\ eaten = 0 /\ drained = FALSE
    /\ open = <<>> /\ stmts = <<>>

Running == mode \notin {"done", "failed"}

Token(t) == cached' = t /\ UNCHANGED <<lines, pending, mode, stmt, reads, eaten, drained, open, stmts>>

\* One of the levels the line has left besides the innermost.
PeekPendingDedent ==
    /\ Running /\ cached = "none" /\ next <= Len(lines)
    /\ Top > width
    /\ indents' = Front(indents) /\ Token("dedent")
    /\ UNCHANGED <<width, next, begun>>

PeekWord ==
    /\ Running /\ cached = "none" /\ next <= Len(lines) /\ begun
    /\ Top <= width
    /\ next' = next + 1 /\ begun' = FALSE /\ Token("word")
    /\ UNCHANGED <<indents, width>>

\* Mutant of PeekLayout: a line as wide as its level opens another.
PeekLayoutPushEqual ==
    /\ Running /\ cached = "none" /\ next <= Len(lines) /\ ~begun
    /\ Top <= width
    /\ begun' = TRUE /\ width' = lines[next].width
    /\ \/ width' >= Top /\ indents' = Append(indents, width') /\ Token("indent")
       \/ width' < Top /\ indents' = Front(indents) /\ Token("dedent")
    /\ UNCHANGED next

\* scan_indent
PeekLayout ==
    /\ Running /\ cached = "none" /\ next <= Len(lines) /\ ~begun
    /\ Top <= width
    /\ begun' = TRUE /\ width' = lines[next].width
    /\ \/ width' > Top /\ indents' = Append(indents, width') /\ Token("indent")
       \/ width' < Top /\ indents' = Front(indents) /\ Token("dedent")
       \/ width' = Top /\ UNCHANGED indents /\ Token("linebreak")
    /\ UNCHANGED next

PeekEof ==
    /\ Running /\ cached = "none" /\ next > Len(lines)
    /\ Token("eof") /\ UNCHANGED layout

Peek == PeekPendingDedent \/ PeekWord \/ PeekLayout \/ PeekEof

\* cursor.bump of the token that has been peeked
Take(t) == cached = t /\ cached' = "none"

----------------------------------------------------------------------------
(***************************************************************************)
(* The loop of parse_statements, dispatching on the peeked token.            *)
(***************************************************************************)
Owner == IF open = <<>> THEN 0 ELSE Last(open).owner

Way == IF open = <<>> THEN "root" ELSE Last(open).way

\* How the header reads on behind a word.  Only a selector list reads on behind
\* a comma, and only behind a comma.
ReadsOn(first, kind) ==
    CASE first = "comma" -> IF kind = "comma" THEN "comma" ELSE "end"
      [] first # "comma" /\ kind \in {"value", "clause"} -> "open"
      [] OTHER -> "end"

BeginStatement ==
    /\ mode = "statements" /\ Take("word")
    /\ mode' = "header" /\ stmt' = Here /\ eaten' = 0
    /\ reads' = ReadsOn(lines[Here].kind, lines[Here].kind)
    /\ stmts' = Append(stmts, [line |-> Here, parent |-> Owner, way |-> Way, level |-> Top,
                              owed |-> pending])
    /\ UNCHANGED <<lines, layout, pending, drained, open>>

SkipLinebreak ==
    /\ mode = "statements" /\ Take("linebreak")
    /\ UNCHANGED <<lines, layout, pending, mode, stmt, reads, eaten, drained, open, stmts>>

\* An Indent begins no statement.
EndStatements ==
    /\ mode = "statements" /\ cached \in {"dedent", "eof", "indent"}
    /\ mode' = IF cached = "indent" THEN "failed" ELSE "close"
    /\ UNCHANGED <<lines, layout, cached, pending, stmt, reads, eaten, drained, open, stmts>>

Fail ==
    /\ mode' = "failed"
    /\ UNCHANGED <<lines, layout, cached, pending, stmt, reads, eaten, drained, open, stmts>>

----------------------------------------------------------------------------
(***************************************************************************)
(* The header of a statement.                                              *)
(***************************************************************************)
\* Mutant of EatLineContinuation: an Indent is dropped like a line break.
EatLineContinuationFree ==
    /\ mode = "header" /\ reads = "open"
    /\ Take("indent") \/ Take("linebreak")
    /\ UNCHANGED <<lines, layout, pending, mode, stmt, reads, eaten, drained, open, stmts>>

\* A turn of eat_sass_line_continuation.
EatLineContinuation ==
    /\ mode = "header" /\ reads = "open"
    /\ \/ Take("indent") /\ pending' = pending + 1 /\ eaten' = eaten + 1
       \/ Take("linebreak") /\ UNCHANGED <<pending, eaten>>
    /\ UNCHANGED <<lines, layout, mode, stmt, reads, drained, open, stmts>>

\* The word behind it goes on with the header.
ReadOn ==
    /\ mode = "header" /\ reads = "open" /\ Take("word")
    /\ reads' = ReadsOn(lines[stmt].kind, lines[Here].kind)
    /\ UNCHANGED <<lines, layout, pending, mode, stmt, eaten, drained, open, stmts>>

\* SelectorList::parse behind a comma: a deeper line continues the list, a line of
\* the same width does not.
CommaContinues ==
    /\ mode = "header" /\ reads = "comma" /\ cached = "indent"
    /\ reads' = "open"
    /\ UNCHANGED <<lines, layout, cached, pending, mode, stmt, eaten, drained, open, stmts>>

CommaTrails ==
    /\ mode = "header" /\ reads = "comma" /\ cached = "linebreak"
    /\ reads' = "end"
    /\ UNCHANGED <<lines, layout, cached, pending, mode, stmt, eaten, drained, open, stmts>>

\* A Dedent or Eof where the grammar requires more.
ExpectMore == mode = "header" /\ reads # "end" /\ cached \in {"dedent", "eof"} /\ Fail

HeaderEnds ==
    /\ mode = "header" /\ reads = "end"
    /\ mode' = IF TakesBlock(lines[stmt].kind) THEN "block" ELSE "after"
    /\ drained' = FALSE
    /\ UNCHANGED <<lines, layout, cached, pending, stmt, reads, eaten, open, stmts>>

----------------------------------------------------------------------------
(***************************************************************************)
(* SimpleBlock::parse: drain, then one of four ways in.                      *)
(***************************************************************************)
\* Mutant of DrainPendingDedents: every Dedent is drained.
DrainEveryDedent ==
    /\ mode \in {"block", "after"} /\ Take("dedent")
    /\ pending' = pending - 1 /\ drained' = TRUE
    /\ UNCHANGED <<lines, layout, mode, stmt, reads, eaten, open, stmts>>

\* A turn of drain_sass_pending_dedents, here and behind a statement.
DrainPendingDedents ==
    /\ mode \in {"block", "after"} /\ pending > 0 /\ Take("dedent")
    /\ pending' = pending - 1 /\ drained' = TRUE
    /\ UNCHANGED <<lines, layout, mode, stmt, reads, eaten, open, stmts>>

\* The loop has ended: nothing is pending, or something else was peeked.
Drained == cached # "none" /\ ~(pending > 0 /\ cached = "dedent")

Enter(way) ==
    /\ open' = Append(open, [owner |-> stmt, way |-> way])
    /\ mode' = "statements"

\* At the depth of a continuation line, of this statement or (foreign) of one before.
EnterContinued(way) == Enter(IF eaten > 0 THEN way ELSE "foreign")

EnterIndented ==
    /\ mode = "block" /\ Take("indent")
    /\ Enter("indented")
    /\ UNCHANGED <<lines, layout, pending, stmt, reads, eaten, drained, stmts>>

\* reopen_indent_level: paren_depth counts the group that the peeked token opened.
InGroup == cached = "word" /\ lines[Here].kind = "group"

Reopens == drained /\ pending = 0 /\ ~InGroup /\ Top < width

AtBlock == mode = "block" /\ Drained /\ cached # "indent"

EnterReopened ==
    /\ AtBlock /\ Reopens
    /\ indents' = Append(indents, width)
    /\ EnterContinued("reopened")
    /\ UNCHANGED <<lines, width, next, begun, cached, pending, stmt, reads, eaten, drained, stmts>>

\* Mutant of EnterVirtual: the Indent stays owed.
EnterVirtualKeepsDebt ==
    /\ AtBlock /\ ~Reopens /\ pending > 0
    /\ EnterContinued("virtual")
    /\ UNCHANGED <<lines, layout, cached, pending, stmt, reads, eaten, drained, stmts>>

EnterVirtual ==
    /\ AtBlock /\ ~Reopens /\ pending > 0
    /\ pending' = pending - 1
    /\ EnterContinued("virtual")
    /\ UNCHANGED <<lines, layout, cached, stmt, reads, eaten, drained, stmts>>

\* The statement has no block.
EmptyBlock ==
    /\ AtBlock /\ ~Reopens /\ pending = 0
    /\ mode' = "after" /\ drained' = FALSE
    /\ UNCHANGED <<lines, layout, cached, pending, stmt, reads, eaten, open, stmts>>

\* The block's own Dedent, or the Eof that closes every block.
CloseBlock ==
    /\ mode = "close" /\ open # <<>>
    /\ Take("dedent") \/ Take("eof")
    /\ stmt' = Owner /\ open' = Front(open)
    /\ mode' = "after" /\ drained' = FALSE
    /\ UNCHANGED <<lines, layout, pending, reads, eaten, stmts>>

\* Stylesheet::parse expects Eof.
ParseEnds ==
    /\ mode = "close" /\ open = <<>>
    /\ mode' = IF cached = "eof" THEN "done" ELSE "failed"
    /\ UNCHANGED <<lines, layout, cached, pending, stmt, reads, eaten, drained, open, stmts>>

----------------------------------------------------------------------------
(***************************************************************************)
(* Behind a statement: drain, then its terminator.                          *)
(***************************************************************************)
BackToStatements ==
    /\ mode' = "statements"
    /\ UNCHANGED <<lines, layout, pending, stmt, reads, eaten, drained, open, stmts>>

AfterDrained ==
    /\ mode = "after" /\ Drained /\ drained
    /\ BackToStatements /\ UNCHANGED cached

AtTerminator == mode = "after" /\ Drained /\ ~drained

LastStatement == AtTerminator /\ cached \in {"dedent", "eof"}
                 /\ mode' = "close"
                 /\ UNCHANGED <<lines, layout, cached, pending, stmt, reads, eaten, drained,
                                open, stmts>>

\* is_block_element: a statement that takes a block needs no terminator.
TakeTerminator == AtTerminator /\ Take("linebreak") /\ BackToStatements

NoTerminator ==
    /\ AtTerminator /\ cached \in {"word", "indent"}
    /\ TakesBlock(lines[stmt].kind)
    /\ BackToStatements /\ UNCHANGED cached

ExpectLinebreak ==
    /\ AtTerminator /\ cached \in {"word", "indent"}
    /\ ~TakesBlock(lines[stmt].kind)
    /\ Fail

Next ==
    \/ Peek
    \/ BeginStatement \/ SkipLinebreak \/ EndStatements
    \/ EatLineContinuation \/ ReadOn \/ CommaContinues \/ CommaTrails \/ ExpectMore \/ HeaderEnds
    \/ DrainPendingDedents \/ EnterIndented \/ EnterReopened \/ EnterVirtual \/ EmptyBlock
    \/ CloseBlock \/ ParseEnds
    \/ AfterDrained \/ LastStatement \/ TakeTerminator \/ NoTerminator \/ ExpectLinebreak

Spec == Init /\ [][Next]_vars

----------------------------------------------------------------------------
(***************************************************************************)
(* What the parser promises.                                                *)
(***************************************************************************)
Mode == {"statements", "header", "block", "after", "close", "done", "failed"}

Ways == {"indented", "reopened", "virtual", "foreign"}

\* Every variable has the shape of its field in the code.
TypeOK ==
    /\ lines \in Seq(Line)
    /\ indents \in Seq(Nat) /\ width \in Nat /\ next \in Nat \ {0} /\ begun \in BOOLEAN
    /\ cached \in {"none", "word", "indent", "dedent", "linebreak", "eof"}
    /\ pending \in Nat /\ mode \in Mode /\ stmt \in Nat
    /\ reads \in {"end", "open", "comma"} /\ eaten \in Nat /\ drained \in BOOLEAN
    /\ open \in Seq([owner : Nat, way : Ways])
    /\ stmts \in Seq([line : Nat, parent : Nat, way : Ways \cup {"root"}, level : Nat, owed : Nat])

\* The levels the tokenizer has open and the parser has been told of are the
\* blocks the parser has open and the Indents it owes a Dedent for, however
\* statements run on over lines and wherever their blocks begin.  At the end of
\* the source blocks close without a Dedent.
Told == Len(indents) - 1 + (IF cached = "dedent" THEN 1 ELSE 0)
                         - (IF cached = "indent" THEN 1 ELSE 0)

LevelsAccounted ==
    /\ Len(open) + pending <= Told
    /\ next <= Len(lines) => Len(open) + pending = Told

\* No Dedent is left over: the sheet ends at Eof and never at a Dedent that
\* closes nothing.
EveryDedentCloses == ~(mode = "close" /\ open = <<>> /\ cached = "dedent")

\* A statement in a block is deeper than the statement the block belongs to, unless
\* that one was dedented to a width between two levels, or began while an Indent of
\* an earlier statement was owed: the Dedent that should close its block is then
\* drained for that Indent, and the block goes on with the statements beside it.
Regular(p) == lines[stmts[p].line].width = stmts[p].level /\ stmts[p].owed = 0

ChildrenDeeper ==
    \A k, p \in 1..Len(stmts) :
        (stmts[k].parent = stmts[p].line /\ Regular(p)) =>
          lines[stmts[k].line].width > lines[stmts[p].line].width

\* A continuation line makes a block of the statement that ran on to it and of no
\* other: "The statement's clause consumed this block's `Indent` as a line
\* continuation" (stmt.rs:469), so no statement is parsed in a block that was
\* entered on an Indent of an earlier statement.
BlockIsOwn == \A k \in 1..Len(stmts) : stmts[k].way # "foreign"

\* A block whose level sat between two known indents is not taken for an empty
\* one: "When the parser is about to open a block there, it can re-open that
\* level" (tokenizer/mod.rs:138).
LevelReopened == [][EmptyBlock => ~(drained /\ Top < width)]_vars

\* The tokenizer, as far as this module has it, lays the lines out like that of
\* module Tokenizer: the blocks are parsed from the same tokens.
L == INSTANCE LineLayout
       WITH widths <- [i \in 1..Len(lines) |-> lines[i].width],
            left <- next..Len(lines), token <- cached

\* No token is read twice, and a Dedent for every level a line left is read before
\* the line's word, whatever the parser does between its peeks; it opens a level
\* itself only where a line was dedented to a width between two levels.
ReadsLayout == L!LSpec

\* Every turn of the parser's loops takes something of the source, closes something
\* or gets nearer to returning: a line pays for reading its break and its word, a
\* level for its Dedent, a token for what it begins, a block and an owed Indent for
\* being left.  So the parse ends, whatever the source, after a number of steps
\* that grows with its lines: no line break is skipped twice, and no block entered
\* again and again at a level that nothing closes.
Budget ==
    LET one(p) == IF p THEN 1 ELSE 0
    IN  25 * (2 * (Len(lines) + 1 - next) + one(~begun))
        + 11 * one(Top # width)
        + 7 * (Len(indents) + one(cached \notin {"none", "eof"}))
        + 4 * (Len(open) + pending)
        + one(cached = "none")
        + CASE mode = "header"     -> 5 + (CASE reads = "comma" -> 2
                                             [] reads = "open"  -> 1
                                             [] OTHER           -> 0)
            [] mode = "block"      -> 4
            [] mode = "after"      -> 3
            [] mode = "statements" -> 2
            [] mode = "close"      -> 1
            [] OTHER               -> 0

StepsBounded == [][Budget' \in Nat /\ Budget' < Budget]_vars
=============================================================================
