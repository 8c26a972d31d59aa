----------------------------- MODULE RawTokens -----------------------------
(***************************************************************************)
(* Text the typed grammars cannot express is kept as a run of raw tokens:   *)
(* seven loops that take tokens until something ends the run                *)
(* (crates/oxc_css_parser/src/parser/token_seq.rs, stmt.rs, value.rs and     *)
(* at_rule/mod.rs).  They balance pairs with a stack of their own, and they  *)
(* drive the tokenizer through strings with interpolations, whose tokens     *)
(* depend on where they are read.                                           *)
(*                                                                         *)
(* A source is a sequence of symbols; "hash" is the `#` of `#{`, "stray" a    *)
(* byte no token starts with, "nl" and "indent" line breaks before a line of  *)
(* the same width and before a deeper one.  The scan of a run is one of       *)
(*   "value"    parse_declaration_value_tokens(false)                       *)
(*   "nonblock" parse_declaration_value_tokens(true)                        *)
(*   "prelude"  parse_raw_prelude_tokens                                    *)
(*   "parens"   parse_tokens_in_parens, behind the `(`                       *)
(*   "args"     parse_raw_function_args_into, behind the `(`                 *)
(*   "progid"   the path of parse_progid_function, with "args" behind it     *)
(*   "unknown"  the first attempt of parse_unknown_at_rule_prelude          *)
(* No step is left between a peek and the bump of what it saw, so the         *)
(* lookahead has no variable here.                                          *)
(***************************************************************************)
EXTENDS Integers, Sequences, SequencesExt

CONSTANTS
    Sources,    \* the sources to scan
    Scans,      \* the loops to run on them
    Dialects    \* the syntaxes they are read in

Symbol == {"word", "bang", "important", "semi", "stray", "nl", "indent", "dq", "sq", "hash",
           "lparen", "rparen", "lbracket", "rbracket", "lbrace", "rbrace"}

Scan == {"value", "nonblock", "prelude", "parens", "args", "progid", "unknown"}

ASSUME RawTokensAssumption ==
    Sources \subseteq Seq(Symbol) /\ Scans \subseteq Scan /\ Dialects \subseteq {"Css", "Scss", "Sass"}

VARIABLES
    src,        \* the source
    syntax,     \* its dialect
    scan,       \* the loop that is running
    pos,        \* the tokenizer's cursor: the index of the next symbol
    depth,      \* TokenizerState::paren_depth
    pairs,      \* the local `pairs`
    outermost,  \* the local `outermost_pair_span`, by its start; 0 = None
    templates,  \* the interpolated strings being read, innermost last
    values,     \* the tokens taken
    errors,     \* the recoverable errors pushed
    mode,       \* "scan", "stopped" behind the loop, "done" or "failed"
    important   \* the `!` of the annotation taken from the run; 0 = None

vars == <<src, syntax, scan, pos, depth, pairs, outermost, templates, values, errors, mode,
          important>>

----------------------------------------------------------------------------
(***************************************************************************)
(* The tokenizer.                                                           *)
(***************************************************************************)
At(i) == IF i <= Len(src) THEN src[i] ELSE "eof"

LineBreak == {"nl", "indent"}
Quote     == {"dq", "sq"}

\* The `#{` that opens an interpolation.
Interpolates(i) == syntax # "Css" /\ At(i) = "hash" /\ At(i + 1) = "lbrace"

Least(P) == CHOOSE i \in P : \A j \in P : i <= j

\* Where the static piece of a string that goes on at i ends.
PieceEnd(quote, i) ==
    Least({k \in i..(Len(src) + 1) :
             k > Len(src) \/ At(k) \in LineBreak \cup {quote} \/ Interpolates(k)})

\* Line breaks are blanks except in the indented syntax outside all groups.
Blank(i) == At(i) \in LineBreak /\ ~(syntax = "Sass" /\ depth = 0)

Outcome(kind, start, next) == [kind |-> kind, start |-> start, next |-> next]

\* scan_string_or_template
StringHead(i) ==
    LET e == PieceEnd(At(i), i + 1)
    IN  CASE At(e) = At(i)  -> Outcome("Str", i, e + 1)
          [] Interpolates(e) -> Outcome("StrTemplate", i, e + 1)
          [] OTHER -> Outcome(IF syntax = "Css" THEN "BadStr" ELSE "Err", i,
                              IF e > Len(src) THEN e ELSE e + 1)

\* The next token.
Peek ==
    LET i == Least({k \in pos..(Len(src) + 1) : ~Blank(k)})
    IN  CASE At(i) \in Quote -> StringHead(i)
          [] Interpolates(i) -> Outcome("hashlbrace", i, i + 2)
          [] OTHER -> Outcome(At(i), i, IF i > Len(src) THEN i ELSE i + 1)

Brackets == {"lparen", "lbracket", "rparen", "rbracket"}
Braces   == {"lbrace", "hashlbrace", "rbrace"}
Opener   == {"lparen", "lbracket", "lbrace", "hashlbrace"}
Closer   == {"rparen", "rbracket", "rbrace"}

\* Mutant of Down: the depth does not saturate.
DownBelow(n) == n - 1

Down(n) == IF n = 0 THEN 0 ELSE n - 1

\* cursor.bump: braces count in the indented syntax only.
Bump(t) ==
    /\ pos' = t.next
    /\ depth' = CASE t.kind \notin Brackets \cup (IF syntax = "Sass" THEN Braces ELSE {}) -> depth
                  [] t.kind \in Opener -> depth + 1
                  [] OTHER -> Down(depth)

----------------------------------------------------------------------------
(***************************************************************************)
(* track_paired_token: what it makes of the stack, and whether it lets the   *)
(* token pass.                                                              *)
(***************************************************************************)
PairOf == [t \in Opener \cup Closer |->
    CASE t \in {"lparen", "rparen"} -> "Paren"
      [] t \in {"lbracket", "rbracket"} -> "Bracket"
      [] OTHER -> "Brace"]

Push(stack, t) == Append(stack, PairOf[t])

\* A closer pops whatever is on top.
Track(stack, kind) ==
    CASE kind \in Opener -> Push(stack, kind)
      [] kind \in Closer /\ stack # <<>> -> Front(stack)
      [] OTHER -> stack

\* Mutant of Passes: any opener will do.
PassesAny(stack, kind) == kind \in Closer => stack # <<>>

Passes(stack, kind) == kind \in Closer => stack # <<>> /\ Last(stack) = PairOf[kind]

----------------------------------------------------------------------------
(***************************************************************************)
(* What ends each loop, besides a closer that does not pass.                 *)
(***************************************************************************)
Declaration == scan \in {"value", "nonblock"}

\* Mutant of EndsAnywhere: a pair left open runs on behind the end of the source.
EndsAnywhereInLine ==
    CASE Declaration        -> {"nl"}
      [] scan = "prelude"   -> LineBreak
      [] scan = "unknown"   -> LineBreak \cup {"lbrace", "rbrace", "semi"}
      [] OTHER              -> IF pairs = <<>> THEN {"eof"} ELSE {}

\* Tokens that end the run wherever they stand, and those that do outside pairs.
EndsAnywhere ==
    {"eof"} \cup CASE Declaration        -> {"nl"}
                   [] scan = "prelude"   -> LineBreak
                   [] scan = "unknown"   -> LineBreak \cup {"lbrace", "rbrace", "semi"}
                   [] OTHER              -> {}

EndsOutside ==
    CASE scan = "value"    -> {"semi"}
      [] scan \in {"nonblock", "prelude"} -> {"semi", "lbrace"}
      [] scan = "progid"   -> {"lparen", "semi", "rbrace", "rparen"} \cup LineBreak
      [] OTHER             -> {}

Ends(kind) == kind \in EndsAnywhere \/ (pairs = <<>> /\ kind \in EndsOutside)

\* "unknown" tracks no pairs.
Tracks == scan # "unknown"

\* How a loop takes an interpolated string: as one value, in its pieces, not at all.
Typed  == scan \in {"value", "nonblock", "args"}

\* Mutant of Pieces: an interpolated string between parentheses is a plain token.
PiecesOfPreludes == scan = "prelude"

Pieces == scan \in {"prelude", "parens"}

----------------------------------------------------------------------------
Init ==
    /\ src \in Sources /\ syntax \in Dialects /\ scan \in Scans
    /\ pos = 1 /\ depth = (IF scan \in {"parens", "args"} THEN 1 ELSE 0)
    /\ pairs = <<>> /\ outermost = 0 /\ templates = <<>>
    /\ values = <<>> /\ errors = <<>> /\ mode = "scan" /\ important = 0

Value(t) == [kind |-> t.kind, start |-> t.start]

Scanning == mode = "scan" /\ templates = <<>>

Fail ==
    /\ mode' = "failed"
    /\ UNCHANGED <<src, syntax, scan, pos, depth, pairs, outermost, templates, values, errors,
                   important>>

\* The tokenizer fails, whoever asks.
TokenizerFails == mode = "scan" /\ (templates # <<>> => Last(templates).at # "piece")
                  /\ Peek.kind = "Err" /\ Fail

\* An unclosed pair at the end of the source is an error at its opener.
Stop ==
    /\ Scanning /\ Ends(Peek.kind)
    /\ mode' = "stopped"
    /\ errors' = IF Declaration /\ Peek.kind = "eof" /\ pairs # <<>>
                   THEN Append(errors, [kind |-> IF Head(pairs) = "Brace" THEN "EofInBlock"
                                                                          ELSE "UnclosedParen",
                                        start |-> outermost])
                   ELSE errors
    /\ UNCHANGED <<src, syntax, scan, pos, depth, pairs, outermost, templates, values, important>>

StopAtCloser ==
    /\ Scanning /\ ~Ends(Peek.kind) /\ Tracks /\ ~Passes(pairs, Peek.kind)
    /\ mode' = "stopped" /\ pairs' = Track(pairs, Peek.kind)
    /\ UNCHANGED <<src, syntax, scan, pos, depth, outermost, templates, values, errors, important>>

\* "parens" rejects a stray delimiter in a dialect, "unknown" rolls back at an
\* interpolation.
Rejects(kind) ==
    \/ scan = "parens" /\ syntax # "Css" /\ kind = "stray"
    \/ scan = "unknown" /\ kind \in {"StrTemplate", "hashlbrace"}

Reject == Scanning /\ Rejects(Peek.kind) /\ Fail

BadString(t) ==
    IF Declaration /\ t.kind = "BadStr"
      THEN <<[kind |-> IF t.next > Len(src) /\ Last(src) \notin LineBreak
                         THEN "UnterminatedString" ELSE "BadString",
              start |-> t.start]>>
      ELSE <<>>

\* Mutant of Outermost: every opener is noted.
OutermostInner(t) == IF t.kind \in Opener THEN t.start ELSE outermost

Outermost(t) == IF t.kind \in Opener /\ pairs = <<>> THEN t.start ELSE outermost

TakeToken ==
    LET t == Peek
    IN  /\ Scanning /\ t.kind # "Err" /\ ~Ends(t.kind)
        /\ Tracks => Passes(pairs, t.kind)
        /\ ~(t.kind = "StrTemplate" /\ (Typed \/ Pieces))
        /\ ~Rejects(t.kind)
        /\ Bump(t)
        /\ values' = Append(values, Value(t))
        /\ errors' = errors \o BadString(t)
        /\ IF Tracks THEN pairs' = Track(pairs, t.kind) /\ outermost' = Outermost(t)
                     ELSE UNCHANGED <<pairs, outermost>>
        /\ UNCHANGED <<src, syntax, scan, templates, mode, important>>

----------------------------------------------------------------------------
(***************************************************************************)
(* Interpolated strings: consume_str_template_tokens_into for the pieces,    *)
(* SassInterpolatedStr::parse for one value.  Both read `{`, an expression,   *)
(* `}`, and then ask the tokenizer for the next static piece.                *)
(***************************************************************************)
Innermost == Last(templates)

\* The pieces and what is between them are tokens of the run.
Note(t) == IF Pieces THEN Append(values, Value(t)) ELSE values

SetInnermost(template) == templates' = Append(Front(templates), template)

BeginTemplate ==
    /\ mode = "scan" /\ (Typed \/ Pieces)
    /\ templates # <<>> => Innermost.at = "expression"
    /\ Peek.kind = "StrTemplate"
    /\ Bump(Peek)
    /\ templates' = Append(templates, [quote |-> At(Peek.start), start |-> Peek.start,
                                       at |-> "open", nest |-> <<>>, from |-> 0])
    /\ values' = Note(Peek)
    /\ UNCHANGED <<src, syntax, scan, pairs, outermost, errors, mode, important>>

OpenInterpolation ==
    /\ mode = "scan" /\ templates # <<>> /\ Innermost.at = "open"
    /\ Bump(Peek)
    /\ SetInnermost([Innermost EXCEPT !.at = "expression", !.from = Peek.next])
    /\ values' = Note(Peek)
    /\ UNCHANGED <<src, syntax, scan, pairs, outermost, errors, mode, important>>

InExpression == mode = "scan" /\ templates # <<>> /\ Innermost.at = "expression"

\* The pieces only count braces, an expression is balanced.
Nested(kind) == IF Pieces /\ kind \notin Braces THEN "word" ELSE kind

TakeOfExpression ==
    LET t == Peek
        kind == Nested(t.kind)
    IN  /\ InExpression
        /\ t.kind \notin {"Err", "eof", "StrTemplate"}
        /\ ~(t.kind = "rbrace" /\ Innermost.nest = <<>>)
        /\ Typed => /\ t.kind \notin {"lbrace", "semi", "nl", "indent", "bang", "stray"}
                    /\ Passes(Innermost.nest, kind)
        /\ Bump(t)
        /\ SetInnermost([Innermost EXCEPT !.nest = Track(@, kind)])
        /\ values' = Note(t)
        /\ UNCHANGED <<src, syntax, scan, pairs, outermost, errors, mode, important>>

\* An expression is not empty, a run of tokens may be.
CloseInterpolation ==
    /\ InExpression /\ Peek.kind = "rbrace" /\ Innermost.nest = <<>>
    /\ Typed => pos > Innermost.from
    /\ Bump(Peek)
    /\ SetInnermost([Innermost EXCEPT !.at = "piece"])
    /\ values' = Note(Peek)
    /\ UNCHANGED <<src, syntax, scan, pairs, outermost, errors, mode, important>>

\* The grammar of the expression may not take what it finds: which expressions it
\* takes is left open.
RejectExpression == InExpression /\ Typed /\ Peek.kind # "Err" /\ Fail

\* Ok(()) of the innermost string, and then of each around it.
EofInTemplate ==
    /\ InExpression /\ Pieces /\ Peek.kind = "eof"
    /\ templates' = <<>>
    /\ UNCHANGED <<src, syntax, scan, pos, depth, pairs, outermost, values, errors, mode, important>>

InPiece == mode = "scan" /\ templates # <<>> /\ Innermost.at = "piece"

\* Where scan_string_template stops.
Piece == PieceEnd(Innermost.quote, pos)

ScanPiece ==
    /\ InPiece /\ (At(Piece) = Innermost.quote \/ Interpolates(Piece))
    /\ pos' = Piece + 1
    /\ IF At(Piece) = Innermost.quote
         THEN /\ templates' = Front(templates)
              /\ values' = CASE Pieces -> Append(values, [kind |-> "StrTail", start |-> pos])
                             [] Typed /\ Len(templates) = 1
                                  -> Append(values, [kind |-> "InterpolableStr",
                                                     start |-> Innermost.start])
                             [] OTHER -> values
         ELSE /\ SetInnermost([Innermost EXCEPT !.at = "open"])
              /\ values' = IF Pieces THEN Append(values, [kind |-> "StrPiece", start |-> pos])
                                     ELSE values
    /\ UNCHANGED <<src, syntax, scan, depth, pairs, outermost, errors, mode, important>>

PieceFails ==
    /\ InPiece /\ At(Piece) # Innermost.quote /\ ~Interpolates(Piece)
    /\ Fail

----------------------------------------------------------------------------
(***************************************************************************)
(* Behind the loop.                                                         *)
(***************************************************************************)
\* parse_progid_function: the function's own `(`, then its contents.
OpenArgs ==
    /\ mode = "stopped" /\ scan = "progid" /\ Peek.kind = "lparen"
    /\ Bump(Peek)
    /\ scan' = "args" /\ mode' = "scan" /\ pairs' = <<>>
    /\ UNCHANGED <<src, syntax, outermost, templates, values, errors, important>>

\* No `(` behind the path; a block behind a value that is none: BlockInDeclarationValue.
CallerRejects ==
    /\ mode = "stopped"
    /\ \/ scan = "progid" /\ Peek.kind # "lparen"
       \/ scan = "nonblock" /\ Peek.kind = "lbrace"
    /\ Fail

\* The pairs behind the first k values, as take_raw_important replays them.
Replay[k \in 0..Len(values)] == IF k = 0 THEN <<>> ELSE Track(Replay[k - 1], values[k].kind)

\* Nothing is open behind the first n values, and none of them is a closer without
\* its opener.
BalancedTo(n) == /\ \A k \in 1..n : Passes(Replay[k - 1], values[k].kind)
                 /\ Replay[n] = <<>>

EndsImportant ==
    /\ Len(values) >= 2
    /\ values[Len(values) - 1].kind = "bang" /\ values[Len(values)].kind = "important"

\* Mutant of RawImportant: the pairs are not replayed.
RawImportantAnywhere == EndsImportant

RawImportant == EndsImportant /\ BalancedTo(Len(values) - 2)

\* take_raw_important, behind a declaration's value.
TakeRawImportant ==
    /\ mode = "stopped" /\ Declaration /\ ~(scan = "nonblock" /\ Peek.kind = "lbrace")
    /\ mode' = "done"
    /\ IF RawImportant
         THEN /\ important' = values[Len(values) - 1].start
              /\ values' = SubSeq(values, 1, Len(values) - 2)
         ELSE UNCHANGED <<important, values>>
    /\ UNCHANGED <<src, syntax, scan, pos, depth, pairs, outermost, templates, errors>>

Return ==
    /\ mode = "stopped" /\ ~Declaration /\ scan # "progid"
    /\ mode' = "done"
    /\ UNCHANGED <<src, syntax, scan, pos, depth, pairs, outermost, templates, values, errors,
                   important>>

Next ==
    \/ TokenizerFails \/ Stop \/ StopAtCloser \/ Reject \/ TakeToken
    \/ BeginTemplate \/ OpenInterpolation \/ TakeOfExpression \/ CloseInterpolation
    \/ RejectExpression \/ EofInTemplate \/ ScanPiece \/ PieceFails
    \/ OpenArgs \/ CallerRejects \/ TakeRawImportant \/ Return

Spec == Init /\ [][Next]_vars

----------------------------------------------------------------------------
(***************************************************************************)
(* What a run is, read off the source: Nesting[i] is what is open in front    *)
(* of the symbol i, quotes and brackets with the place they were opened at.   *)
(* Inside an interpolation of a string only braces are counted.              *)
(***************************************************************************)
Innards(open) == \E k \in 1..Len(open) : open[k].by \in Quote

Quoted(open) == open # <<>> /\ Last(open).by \in Quote

\* The brace of `#{` belongs to the token that begins at the hash.
Behind(i) == i > 1 /\ Interpolates(i - 1)

Enter(open, i) == Append(open, [by |-> src[i], at |-> IF Behind(i) THEN i - 1 ELSE i])

Beyond(open, i) ==
    LET s == src[i]
    IN  CASE Quoted(open) ->
               (CASE s \in LineBreak \cup {Last(open).by} -> Front(open)
                  [] s = "lbrace" /\ Behind(i) -> Enter(open, i)
                  [] OTHER -> open)
          [] ~Quoted(open) /\ s \in Quote \cup {"lbrace"} -> Enter(open, i)
          [] ~Quoted(open) /\ s \in {"lparen", "lbracket"} /\ ~Innards(open) -> Enter(open, i)
          [] ~Quoted(open) /\ s \in Closer /\ (Innards(open) => s = "rbrace") /\ open # <<>>
               /\ PairOf[Last(open).by] = PairOf[s] -> Front(open)
          [] OTHER -> open

Nesting[i \in 1..(Len(src) + 1)] == IF i = 1 THEN <<>> ELSE Beyond(Nesting[i - 1], i - 1)

\* Where the run has to end: at the end of the source, outside strings at a closer
\* that closes nothing, outside everything at a terminator.
ClosesNothing(open, i) ==
    /\ ~Quoted(open) /\ src[i] \in Closer
    /\ Innards(open) => src[i] = "rbrace"
    /\ open = <<>> \/ PairOf[Last(open).by] # PairOf[src[i]]

EndOfRun(terminators) ==
    LET open == Nesting
    IN  Least({i \in 1..(Len(src) + 1) :
                 \/ i = Len(src) + 1
                 \/ open[i] = <<>> /\ src[i] \in terminators /\ ~Behind(i)
                 \/ ClosesNothing(open[i], i)})

Over == mode \in {"stopped", "done"}

Pair == {"Paren", "Bracket", "Brace"}

TakenKind == Symbol \cup {"hashlbrace", "Str", "BadStr", "StrTemplate", "StrPiece", "StrTail",
                          "InterpolableStr"}

Template == [quote : Quote, start : 1..Len(src), at : {"open", "expression", "piece"},
             nest : Seq(Pair), from : Nat]

Taken == [kind : TakenKind, start : 1..Len(src)]

Complaint == [kind : {"EofInBlock", "UnclosedParen", "BadString", "UnterminatedString"},
              start : 1..Len(src)]

TypeOK ==
    /\ src \in Seq(Symbol) /\ syntax \in {"Css", "Scss", "Sass"} /\ scan \in Scan
    /\ pos \in 1..(Len(src) + 1) /\ depth \in Nat
    /\ pairs \in Seq(Pair) /\ outermost \in 0..Len(src)
    /\ templates \in Seq(Template) /\ values \in Seq(Taken) /\ errors \in Seq(Complaint)
    /\ mode \in {"scan", "stopped", "done", "failed"} /\ important \in 0..Len(src)

\* A run is the longest balanced one: it ends at the first terminator outside all
\* pairs and strings or at the first closer without an opener, however strings,
\* interpolations and pairs are nested in it and whatever their tokens look like.
Terminators == EndsOutside \cup (IF syntax = "Sass" THEN EndsAnywhere \cap LineBreak ELSE {})

\* The depth counts brackets in the expressions of a raw string, but nobody there
\* balances them: one left open makes blanks of the line breaks behind the string.
BracketsCount ==
    (syntax = "Sass" /\ scan = "prelude") =>
      \A i \in 1..Len(src) : Innards(Nesting[i]) => src[i] \notin Brackets

LongestBalanced ==
    (Over /\ scan \in {"value", "nonblock", "prelude", "parens"} /\ BracketsCount) =>
      Peek.start = EndOfRun(Terminators)

\* parse_raw_prelude_tokens "stops (without consuming) at [...] a statement boundary
\* (`;`, EOF, indentation)" (token_seq.rs:56-57): it passes no line break outside all
\* pairs and strings.
PreludeEndsWithLine ==
    (Over /\ scan = "prelude" /\ syntax = "Sass") =>
      ~\E i \in 1..(Peek.start - 1) : src[i] \in LineBreak /\ Nesting[i] = <<>>

\* The path of a progid function is the only run that takes the beginning of an
\* interpolated string for a token, and goes on in the middle of the string.
StringInPath ==
    scan \in {"progid", "args"} /\ \E k \in 1..Len(values) : values[k].kind = "StrTemplate"

\* Interpolated strings are read as strings to their end: no token of a run, and
\* not the one that ends it, begins inside a string's text.
StringsWhole ==
    (Over /\ ~StringInPath) =>
            LET open == Nesting
                InText(i) == Quoted(open[i]) /\ ~Behind(i)
            IN  /\ \A k \in 1..Len(values) :
                      values[k].kind \notin {"StrPiece", "StrTail"} => ~InText(values[k].start)
                /\ Peek.start <= Len(src) => ~InText(Peek.start)

Unclosed == {k \in 1..Len(errors) : errors[k].kind \in {"EofInBlock", "UnclosedParen"}}

\* What is open at the end of the source, but for a string without its quote.
LeftOpen ==
    LET open == Nesting[Len(src) + 1]
    IN  IF Quoted(open) THEN Front(open) ELSE open

\* An unclosed value is reported once, as a block or a parenthesis, at the opener
\* of the outermost pair that is still open at the end of the source ("so the EOF
\* parse error can point at the opener", stmt.rs:549), never at one already closed.
EofErrorAtOpener ==
    (Over /\ Declaration) =>
      IF Peek.kind = "eof" /\ LeftOpen # <<>>
        THEN \E k \in 1..Len(errors) :
               /\ Unclosed = {k} /\ errors[k].start = LeftOpen[1].at
               /\ errors[k].kind = "EofInBlock" <=> LeftOpen[1].by = "lbrace"
        ELSE Unclosed = {}

\* Outside all pairs line breaks are blanks, and tokens in the indented syntax.
Gap(i, j) == \A n \in i..(j - 1) : src[n] \in LineBreak /\ syntax # "Sass"

\* An annotation is taken off the run exactly when it stands at its end outside
\* all pairs, with nothing but blanks in it and behind it: at the end of the source
\* "an unclosed `(... !important` must keep the annotation inside the value"
\* (stmt.rs:193).  The declaration gets the `!` that stands there.
ImportantOutside ==
    mode = "done" /\ Declaration =>
      \A i \in 1..Len(src) :
        important = i <=> /\ src[i] = "bang" /\ Nesting[i] = <<>>
                          /\ \E k \in (i + 1)..(Peek.start - 1) :
                               /\ src[k] = "important"
                               /\ Gap(i + 1, k) /\ Gap(k + 1, Peek.start)

\* Every turn of every loop takes something of the source or leaves the loop for
\* good, so the loops, the string loops within them included, end after at most
\* four turns for a symbol and two more; none goes round again at the end of the source.
Budget == 4 * (Len(src) + 1 - pos)
          + CASE mode = "scan"    -> IF templates = <<>> THEN 2 ELSE 3
              [] mode = "stopped" -> 1
              [] OTHER            -> 0

StepsBounded == [][Budget' \in Nat /\ Budget' < Budget]_vars
=============================================================================
