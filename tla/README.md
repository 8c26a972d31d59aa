# A verification project for oxc-css-parser

oxc-css-parser reads CSS, SCSS, indented Sass and Less into one syntax tree. It is a
hand-written recursive-descent parser on one thread: there is no concurrency in it, no
persistence and no I/O. What makes it hard is state. The tokenizer is modal (indentation,
brackets, interpolations, line comments), the parser drives it past its own dispatch in a
dozen places, the grammar is ambiguous, so the parser speculates and rolls back, and the
indented syntax has no braces, so blocks are opened and closed by a count that several
functions keep together. A test sees one source at a time; the questions here are about all
sources of a shape.

Paths below are relative to `crates/oxc_css_parser/src/`.

## The system

| Part | State | Operations | How it interacts |
|---|---|---|---|
| Tokenizer (`tokenizer/mod.rs`) | `TokenizerState`: cursor, `indents`, `current_indent`, `paren_depth`, `sass_interpolation_depth`, `sass_interpolation_opener_pending`, `line_comments`, `line_comments_seen`; the comment list | `bump`, `bump_without_ws_or_comments`, `scan_string_template`, `scan_url_raw_or_template`, `scan_url_template`, `scan_placeholder`, `reopen_indent_level`, `current_offset` | called by the cursor, and past the cursor by the drivers of interpolated strings and urls; its state is public to the parser and copied by `try_parse` |
| Cursor (`ParserCursor`, `parser/mod.rs`) | one token of lookahead | `peek`, `bump`, `eat_*`, `expect_*`, `expect_*_without_ws_or_comments` | every parse function reads through it |
| Backtracking (`try_parse`, `parser/mod.rs`) | a snapshot on the Rust stack | begin, keep, roll back | nested to the depth of the grammar |
| Context (`parser/state.rs`) | `ParserState`: the surrounding rule, function, parentheses, keyframes, statement | `with_state`, `Drop for WithState` | restored by a guard's destructor, never by `try_parse` |
| Statements and blocks (`parser/stmt.rs`) | `recoverable_errors`, `sass_pending_indents` | `parse_statements`, `SimpleBlock::parse`, `parse_rule_or_declaration` | layout tokens in, tree out; shares the pending count with the continuation lines |
| Continuation lines (`parser/sass.rs`) | `sass_pending_indents` | `eat_sass_line_continuation` (some thirty callers), `drain_sass_pending_dedents` | consumes the tokenizer's Indents in mid-statement |
| Interpolation drivers (`SassInterpolatedStr`, `SassInterpolatedUrl`, `LessInterpolatedStr`, `token_seq.rs`) | none of their own | read `{`, an expression, `}`, then ask the tokenizer for the next static piece | must call the scanner directly behind the `}` |
| Custom property values (`stmt.rs`) | the tokenizer's `line_comments` | a typed attempt, else a rescan of the text | switches a tokenizer mode inside a scope |
| Raw token runs (`token_seq.rs`, `util.rs`, loops in `stmt.rs`, `value.rs`, `at_rule/mod.rs`) | a local stack of pairs, the outermost open pair | `parse_declaration_value_tokens`, `parse_raw_prelude_tokens`, `parse_tokens_in_parens`, `parse_raw_function_args_into`, `parse_progid_function`, `consume_str_template_tokens_into`, `take_raw_important` | fallback of the typed grammars behind a failed attempt; push recoverable errors |
| Values and SassScript (`value.rs`, `sass.rs`) | the flags of the context: division, parentheses, functions | lists, operators, maps, calculations, functions and their arguments | pure functions of the tokens and the context; try each other and roll back |
| Selectors (`selector.rs`) | none | lists, combinators, pseudo-classes and their arguments, An+B | read in front of every block |
| Declarations (`stmt.rs`) | `in_statement`, the context of the name and of the value | names, typed and raw values, annotations | tried behind a rule, where the first token does not tell |
| At-rules (`at_rule/`, `sass.rs`) | the flags they set for their block | a prelude grammar each, its raw fallbacks, a block | dispatched by name |
| Statement dispatch (`stmt.rs`) | `is_block_element`, `recoverable_errors` | the first token's arm, `parse_rule_or_declaration`, separators | reads blocks of itself |
| Less (`less.rs`) | `less_ctx` | mixins, guards, operations, detached rulesets, lookups | its own arms of the dispatch and of the values |
| Tree, errors, builder, conversions | none | data | - |

What is hard, by part:

- *Rolling back.* `try_parse` saves six things by hand, lists by their length, and leaves the
  context to destructors. A thing left out goes unnoticed until an attempt fails after
  touching it. (`Transactional`, `EachItemOnce`, `SnapshotsSound`.)
- *Two records of one fact.* `line_comments_seen` is restored by value and the comment list
  by length; `interpDepth` saturates while the nesting does not; the level stack counts what
  the parser's recursion counts. (`TypedValueHasNoLineComment`, `DepthsExact`, `DedentPerLevel`,
  `LevelsAccounted`.)
- *Order of layout tokens.* A line that leaves three levels yields three Dedents in three
  calls; brackets switch layout off; comments stand in between; the end of the source closes
  blocks without Dedents. (`DedentsBeforeContent`, `EveryDedentCloses`,
  `LaysOutLines`, `ReadsLayout`.)
- *Scoped modes.* Line comments off, the opener flag, keyframes. (`LineCommentsScoped`,
  `DepthsExact`, `KeyframesOneLevel`.)
- *Blocks by depth.* The parser never compares columns; a block is where an Indent was, is
  owed, or would have been. (`ChildrenDeeper`, and two violations.)
- *Raw runs.* What the typed grammars cannot express is kept as tokens by loops that each
  balance pairs with a stack of their own, and drive interpolated strings piece by piece.
  (`LongestBalanced`, `StringsWhole`, `EofErrorAtOpener`, `ImportantOutside`, `BlocksMatch`,
  and one violation.)
- *One source, several grammars.* Almost every construct is tried as one thing and then read
  again as another: a rule before a declaration, a typed value before raw tokens, an
  expression before a map. What is kept must not show what was tried, and what is tried again
  must not grow with it. (`EveryTokenOnce`, `OpenBlocksReported`, `BraceMakesARule`,
  `RereadBounded`.)
- *Facts kept beside the tree.* Spans, commas, combinators, separators, tiers and owed Indents
  are computed by hand, apart from the nodes they are about. (`SpansNest`, `SeparatorsCounted`,
  `OneCombinatorBetween`, `StatementsSeparated`, `Binding`, `ChildrenIndented`, `OneWordJoins`.)
- *Termination.* Every loop consumes something. (`Terminates`, `StepsBounded`.)

## The modules

**Bytes** is the lexical grammar as pure operators. A source is a sequence of byte classes,
the distinctions the tokenizer branches on, and a scanner is the set of its outcomes: kind,
span and the offset the cursor is left at. Where the code scans byte by byte, the module says
where the scan stops (`First(StringStops(...))`).

**Tokenizer** is the state machine over it. `st` is `TokenizerState` field by field. `bump` is
a loop over blanks and comments followed by a token; each turn is an action (`ScanIndent`,
`SkipWs`, `ScanBlockComment`, `ScanLineComment`, then `BumpLayout` or `BumpToken`), because
what a later turn overwrites matters. The parser is present as far as it drives the tokenizer:
`nest` is the stack of groups it has open, `resume` says that the next call must be a piece
scanner. Any other interleaving of calls is allowed. A closer of the wrong kind ends the run:
the construct that was open returns an error.

**LineLayout** is the abstract specification of the layout of the indented syntax: lines of a
width, levels, and the tokens that compare the two. In front of a line's words comes one Indent,
one Linebreak, or a Dedent for each level the line leaves; a level between two others can be
reopened; the end closes nothing. Both sides of the layout implement it: Tokenizer makes these
tokens from the bytes of plain sources (`LaysOutLines`), Blocks parses blocks from them
(`ReadsLayout`).

**Transaction** is the abstract specification of speculative parsing: work, a context, and a
stack of attempts and scopes holding *copies*. A failed attempt restores its copy; a scope
restores its context however it is left.

**Backtrack** is how the code does it: lengths, a lookahead token, a tokenizer state by value,
a pending count, guards, and the rescan of custom property values. The tokenizer is reduced
to a cursor over items and the two line-comment fields. The grammar is left open: any program
that nests these operations. `Transactional` is the refinement: `Transaction` instantiated
with every list cut to its saved length and every context taken from the guard that will put
it back.

**Blocks** is the indented syntax above the tokens: `parse_statements`, `SimpleBlock::parse`
with its four ways in, continuation lines, drains and reopened levels, over sources that are
lines of a width and a kind. The kind of a word says what its statement's header asks for
next: nothing, a block, a continuation, or a continuation if the next line is deeper. A line
holds one word. `stmts` records each statement with the statement whose block it is in.

**RawTokens** is the seven loops that take raw tokens, one action per thing they do with the
token they see, with the interpolated strings they meet: in pieces, each a token of the run
(`consume_str_template_tokens_into`), or as one value (`SassInterpolatedStr`, whose
expressions are any balanced tokens the grammar may take or reject). `Nesting` is the
reference: what is open in front of each symbol, read off the source without tokens. The raw
`!important` behind a value and the rejection of a block in it belong to the callers and are
actions of their own.

**Grammar** and the modules on top of it are the parse functions themselves, as pure functions
from an index in a sequence of tokens and a context to a result: a tree whose nodes have the
spans the code computes for them, or a failure; with the tokens errors were reported at, the
number of tokens taken, those of abandoned attempts included, and the debug assertions that
did not hold. `Then` is the code's `?`, `Else` its `try_parse`. A token has a kind, a text where
the code looks at it, and says whether it touches the one before (`glued`), whether a blank is
between them (`tight`), and whether it begins a line. That a failed attempt leaves nothing
else behind is what Backtrack shows; here it is assumed.

| Module | Models |
|---|---|
| Values | lists, binary and unary operators, the split of signed numbers, maps, interpolated identifiers, arguments, calculations, functions, brackets (`value.rs`, `sass.rs`) |
| Selectors | lists, complex and compound selectors, combinators, attributes, pseudo-classes by the kind of their argument, An+B, extensions (`selector.rs`, `less.rs`) |
| Declarations | names, typed and raw values, annotations (`stmt.rs`) |
| Preludes | the conditions of media, containers, supports and styles, imports, names, raw preludes (`at_rule/`) |
| SassPreludes | `@each` to `@forward`, parameters and arguments, variables and flags (`sass.rs`, `at_rule/`) |
| LessGrammar | operations, guards, variables and lookups, calls and definitions of mixins, detached rulesets, imports and plugins, and the arms of Less (`less.rs`, `stmt.rs`, `value.rs`) |
| Statements | the arms of `parse_statements`, rules or declarations, blocks in both syntaxes, keyframes, `@if`, at-rules, separators (`stmt.rs`, `at_rule/mod.rs`, `sass.rs`) |

`goal` says which grammar reads a source. A source is written token by token (`Write`), between
the tokens the goal's sources begin and end with, and read once (`Read`). Two constants stand
for functions of modules above the one that calls them: `NestedProperties` is a block of
properties, which the values of Sass can hold, and `InLess` is what Less reads in its own way at
a place the other syntaxes have too (a value, an argument, a condition, a query, a statement).

`MCTokenizer`, `MCBacktrack`, `MCBlocks`, `MCRawTokens` and `MCGrammar` give the sources.

The theorems are in `BacktrackProofs`, `BlocksProofs`, `TokenizerProofs`, `LineLayoutProofs`,
`RawTokensProofs` and `RawEndsProofs`, each about the component of its name (`LineLayoutProofs`
about Tokenizer's side of the layout, the last two about RawTokens). They share `Stacks`, lemmas
on pushing, popping and counting, and TokenizerProofs uses `BytesProofs`, what each scanner's
outcome covers.

The modules meet at two interfaces. Tokenizer and Blocks meet in LineLayout: every sequence of
layout tokens the one makes of plain lines, and every one the other reads, is a behaviour of it.
Blocks' `InGroup` is the one effect of brackets it needs. Backtrack's pending count is Blocks';
Backtrack lets any program change it, Blocks is the program.

## The runs

| Run | Sources | Shows |
|---|---|---|
| `Tokens` | up to 5 lines of a name, or 4 with brackets, at widths 0..4 (widths wrap at 4); up to 5 lines of a name or a line comment, widths 0..2, with and without a last line break; a block comment, with and without a blank behind it, in front of an interpolated string on the last of 3 lines; up to 4 atoms of comment or string bytes; up to 8 quotes, `#{` and `}`, 4 with braces, brackets, line breaks, 5 around `url(`; up to 7 names, blanks and line feeds; all four syntaxes | the level stack is strictly increasing over a root that is never popped; levels are Indents less Dedents (as long as no comment was skipped, see *LostDedent*); content waits for its Dedents (as long as no block comment was skipped); plain lines are laid out as LineLayout says, so nothing follows Eof; every byte read once, spans in order; depths are the real nesting; reading ends, and every step towards the end is counted |
| `Backtrack` | streams of 2 tokens and comments, or of a continuation line, 2 contexts, 3 nested attempts, 1 error | rolling back is transactional; the invariants the proof needs |
| `Blocks` | every source of up to 4 lines, 5 kinds of word, widths 0..2, the first line at the margin or, of up to 3 lines, at width 1, its break read or not | blocks, owed Indents and levels balance; children are deeper (see *Findings* for whose); the tokens read are those of LineLayout; every step towards the end is counted, and parsing stops nowhere else |
| `Raw` | up to 4 pairs, terminators and annotations, up to 3 with quotes and line breaks, up to 6 atoms of nested strings, up to 3 symbols behind a string whose interpolation leaves brackets open, up to 4 of words, annotations and line breaks; all seven loops, Css and Sass | runs are the longest balanced ones, strings are never split, errors and annotations are where they belong; no loop goes round without reading, and none gets stuck |
| `Grammars` | the goals below: some 600 000 sources | what every grammar owes its reader, and what the parser keeps beside the tree |
| `LostDedent`, `StolenBlock`, `UnopenedLevel`, `OpenBracket`, `TiersBind`, `CalledQuery`, `TrailingComma` | as small as the case | see *Findings* |

What `Grammars` checks:

| Property | Says |
|---|---|
| `SpansNest` | a node covers its children, which stand in the order of the source |
| `EveryTokenOnce` | a tree holds every token that was taken for good, once |
| `Binding` | operators bind by their tiers, and from the left within one |
| `OneCombinatorBetween` | between two compounds there is one combinator, made where they stand apart |
| `SeparatorsCounted` | the assertions on the counts of separators hold, but for the two cases in *Findings*; in the tree there is one separator between the items of a list, of the kind the list says, and the values made one list have no semicolon |
| `BlocksMatch` | in a source whose brackets are in order, the braces of a block belong together |
| `OpenBlocksReported` | what is reported at a brace is what the tree that is kept left open |
| `StatementsSeparated` | a separator stands between two statements, unless the first ends with a block |
| `BraceMakesARule` | a brace outside of all pairs is in no declaration |
| `ChildrenIndented` | what a statement's blocks hold is never shallower than the statement |
| `RereadBounded` | the tokens read in all grow with the depth of a source, not with its length |
| `KeyframesOneLevel` | the selectors of keyframes are read right below their rule and nowhere else |
| `OneWordJoins` | a condition of media or of styles is joined by one word |

Goals of `Grammars` (`MCGrammar`): ten for lists, operators and lookups, two for arguments and
calculations, eight for selectors in the four syntaxes, and some seventy for statements, one for
each prelude and each choice between readings, of which Less has nineteen. A goal has an alphabet of the tokens its
grammar tells apart and three to seven of them, behind what its sources begin with: an
alphabet without a token that a grammar treats like another one loses nothing.

Bounds. `IndentMod` is 65536 in the code; `Tokens` uses 4 with widths up to 4 so that widths
wrap onto smaller, equal and larger levels. Five lines at five widths reach stacks of four
levels and a line that leaves several of them; four lines in Blocks reach a continuation
behind a block, a block behind a continuation, and a dedent to a width between the two, which
is what the four ways into a block tell apart. In Backtrack, two items are enough for a
comment before the lookahead and one behind it, or for an Indent and its Dedent; three frames are an attempt in a scope in an
attempt, or an attempt in a rescan in an attempt. `MaxErrors` and `MaxDepth` bound lists that
the code does not bound. `CHECK_DEADLOCK FALSE` stands where parsing stops: at
Eof, or with an error that nothing catches. Blocks and Raw check for deadlocks: their `MCSpec`
lets a parse that has returned stay as it is, and any other state without a next one is an error.

In Grammars, five tokens are two operators with their operands, a condition of two operands
without its first parenthesis, or a block with one statement in it; goals begin with what a
grammar needs in order to get that far. Seven tokens of layout are what a block inside a block
that a clause has gone over needs.

Of names, blanks and line feeds, seven are three lines at widths that tell deeper, equal, shallower and
wrapped apart, with blanks on an empty line between them or behind the last one.

In Raw, four symbols are two pairs, or a pair that closes in front of one that does not, or an
annotation in a pair; six atoms are a string in the interpolation of a string, closed.

Fairness. Tokenizer has weak fairness on `bump` and on the piece scanners: the parser's loops ask for
tokens until Eof or an error, and behind a template's `}` they ask for the next piece. Its
other actions (glued tokens, switching line comments, reopening) are at the caller's choice
and have none. Safety properties do not depend on it. Blocks and RawTokens are one thread that runs
until it returns; they need no fairness. `StepsBounded` says that what they do comes to an end, the
deadlock check that it does so only where they return, and `BudgetStep`, the lemma behind the
theorem, that no action leaves everything as it is (which a formula of TLA+ cannot tell from
doing nothing).

## Findings

- **LostDedent** (`tokenizer/mod.rs:305`). `indent = self.scan_indent()` sits in a loop. When a
  comment separates two line breaks, the second overwrites the Dedent or Indent of the first,
  whose level has already been popped or pushed. A block comment behind a line break does the
  same with a blank behind it, which is no line break at all: the Dedent becomes nothing, and the
  line's content comes in front of the Dedents it still owes. When that content is the head of an
  interpolated string, the next token is one of those Dedents where the parser expects the `{` of
  the interpolation (a debug assertion at `token_seq.rs:107`). `DedentsBeforeContent` is stated for
  sources whose comments are line comments.
- **StolenBlock** (`parser/stmt.rs:468`). `sass_pending_indents` does not say whose Indents it
  counts. In `$a:` / `  b` / `  .x` / `  c: d` the rule `.x` has no block, takes the value's
  continuation line for one, and swallows the declaration beside it. When `.x` has a block of its
  own, the Dedent that ends it is drained for the Indent `$a:` owes (`stmt.rs:1167`), and what
  follows the block is parsed as one more of `.x`'s children: `$a:` / `  b` / `  .x` / `    c: d` /
  `  e: f`.
- **UnopenedLevel** (`parser/stmt.rs:463`). `reopen_indent_level` reads `paren_depth` behind the
  peeked first token of the block. When that is `[`, `(` or `#{`, the level is not reopened and
  the block counts as empty.
- **OpenBracket** (`parser/token_seq.rs:124`). In the expressions of a string that is read in pieces
  nobody balances brackets, but they count in `paren_depth`. When the interpolation of a prelude's
  string leaves a `(` open, as in `@a "#{(}"`, the line breaks behind the string are blanks, and the
  prelude goes on over the lines that follow; the comment at `:56` says it stops at indentation.
- **TiersBind** (`parser/sass.rs:286`). Outside of parentheses a `/` divides if what stands to its
  left is an expression, whichever operator that ends with: `a or b / c` is `(a or b) / c`, and
  `1 + 2/3` is `(1 + 2)/3`. The comment at `:168` puts `/` in the tightest tier.
- **CalledQuery** (`parser/at_rule/media.rs:231`). A media query of Less that is a variable is read
  by a function that also returns calls of detached rulesets; the match on its result declares
  every third kind `unreachable!()`. `@media @a() {}` panics.
- **TrailingComma** (`parser/less.rs:1960`). A call of a mixin takes a comma behind every argument,
  also one that only the `)` follows; when semicolons separate the arguments, all commas of the last
  group are handed to its list, and the assertion that a list has fewer commas than elements fails
  for `.m(a; b, c,)`.

`ChildrenDeeper` therefore is about the blocks whose owner began with no Indent owed, and about
owners whose width is a level: a line dedented to a width between two levels (which Sass itself
rejects) is accepted at the deeper of the two. `LongestBalanced` is about the preludes whose
strings have no bracket in their interpolations (`BracketsCount`), and about every other run of
the loops that balance pairs. `Binding` holds for everything but the left sides of such a `/` and of a
split sign. A reading that panics counts as no tree (`Accepted`). `SeparatorsCounted` holds for every
assertion on separators but two: the one *TrailingComma* breaks, in a source with such a comma, and
the one that a list has a separator, in a source where an annotation touches what stands before it
(`Refuted`). The assertions of lists that are read by one loop of an item and a comma (`sass.rs:681`,
`943`, `1238`, `1436`, `less.rs:806`, `895`, `965`, `media.rs:260`, `keyframes.rs:27`, `document.rs:19`,
`selector.rs:781`) are read off the tree: one comma between two items.

Also met, without a run of its own:

- A Css string whose last byte is a backslash is a tokenizer error (`tokenizer/mod.rs:625`); the
  comment at `:841` promises a bad-string token.
- The path of a `progid:` function takes the beginning of an interpolated string for a plain
  token (`value.rs:732`); the rest of the string is lexed as tokens, and its closing quote begins
  another. `StringsWhole` is stated for the runs without one.
- A signed number splits without regard to what follows: `1 +1 * 2` is `(1 + 1) * 2`
  (`sass.rs:193`). `not` is read as a tight unary operator; the comment at `:168` puts it between
  `and` and `==`.
- The debug assertion that a list has a separator fails for a value that touches its annotation,
  `$v: a!important` (`sass.rs:160`) and `@a: b!important` in Less (`less.rs:766`).
- A raw value of the indented syntax ends at a Linebreak or a Dedent but takes an Indent, which
  nobody counts, for one of its tokens (`stmt.rs:554`); the comment at `:532` says it ends at a
  statement boundary. An `!important` with an Indent in it or behind it is therefore left in the
  value (`ImportantOutside` says so).
- `f((a))` in Css, and `f((;))` in Scss, close `f` at the inner parenthesis (`value.rs:251`).
- The conditions of supports and containers mix `and` with `or`, which `supports.rs:12` forbids.
- `2n 3` is taken for An+B; Css takes `a > {`.
- A failing attempt is read twice at every level, so `a:b{a:b{...` in Css (`stmt.rs:704`) and
  `@a ((((#{` take time exponential in their depth; `RereadBounded` bounds the base.
- Spans that do not cover their nodes: a combinator at the end of a selector, an id that goes on
  with an interpolation, `@forward` (`sass.rs:1084`), `selector()` in a condition, a url
  (`value.rs:1295`), a custom selector's name, and `@content` at a token that was peeked.
- In Sass, a statement without a block inside a block that was entered virtually takes the
  outer Indent for its own; `@if a a` on one line needs no separator; an empty rule inside
  `@keyframes` in Css inherits its state, and blocks of nested properties inherit
  `in_statement`.

Met in Less:

- Parameters need no separator: `.m(1 1;) {}` has a list of two without a comma. In a definition
  with a semicolon the group behind the last one is not made a list when a comma ends it
  (`.m(a; b, c,) {}`), nor when dots do.
- A split-off sign collects the products behind it for a dimension, not for a plain number:
  `1px+1px*2` is read, `1+1*2` leaves the product to a loop that is past its tier and is rejected.
- A comma or a slash is taken for an operand behind an operator (`1 + , 2`); a `>` that no name
  follows is eaten by the callee of a mixin call and lost (`.a >`).
- `@import (less) 'a'` at the end of the source is rejected without its `;` (`less.rs:983`).
- A space in front of the dot of a call in a value ends the value: `a: b .c` fails there.
- Whether a call takes `!important` depends on a context that leaks into detached rulesets:
  `a: f({ .m() !important; })` is rejected.

## The proofs

TLAPS checks every theorem for all sources, contexts and bounds, from the named assumptions on
the constants only: streams are sequences of items, there is a context, the bounds are naturals
(`BacktrackAssumption`); sources are sequences of lines (`BlocksAssumption`), of byte classes
(`TokenizerAssumption`, with a modulus of widths that is not 0) or of symbols
(`RawTokensAssumption`), and the dialects are those there are.

**Tokenizer** (`TokenizerProofs`, `BytesProofs`). `Core` is what every proof starts from: types, that
a layout token is in hand only inside the loop of `skip_ws_or_comment` (`Flow`), the order of the
levels, and that a url's hole is inside the url's parenthesis. Then each property has a
strengthening of its own. The flag of a template is up exactly while its brace is due
(`FlagIsHole`). Behind Eof nothing is left to read (`AtTheEnd`). A level that a line has left stays
open only until the bump that follows, so that brackets open at the level of their own line
(`LevelsClosed`). A Dedent that a later line break could overwrite has a comment in front of it
(`NothingOverwritten`). `ReadOnce` needs to know where the token that comes next must begin
(`Frontier`: the layout token's start while one is in hand), and that the blanks of that token are
nobody else's (`LayoutUnread`); the lemmas of BytesProofs say of each scanner which bytes its
outcome covers, discards and leaves. `DepthsExact` counts groups on the parser's stack; the
saturating decrements never saturate, because a closer that is accepted has its opener there.

**Layout** (`LineLayoutProofs`, `BlocksProofs`). Two refinements of LineLayout. A line is known by
the offset of its first byte that is no blank, so the lines left to read are those at or behind the
cursor (`left`), and a line break has been read when nothing but blanks of one line stands between
the cursor and the next content (`LineBegun`). Every step of a bump is then a step of LineLayout or a
stutter: `ScanIndent` is `Break`, or nothing where the blanks end no line; a name is `FirstWord` or
`FurtherWord`. That needs `NothingOverwritten` (the token in hand is the one that is returned),
`LevelsClosed` (a further word is read at its line's level) and that the source has no brackets open
(`PlainState`). The property is stated under `Plain`, which never changes, so that one
run has plain and other sources (`PlainLinesImplement` is the refinement in its usual form); what is
proved of it holds for every width, wrapped ones included. In Blocks the lines are the source's own,
and the one thing to know is that the rest of a line that was begun is still there to read (`LeftoversBegun`).

**The end** (`StepsBounded`, in the three modules). Liveness itself is out of the prover's reach, but
what it rests on is not: each module has a `Budget`, a natural number that every step lowers. Reading
a byte (a line, a symbol) pays for what it can make: in Tokenizer, for a level, for the token in
hand, for the level being apart from the line's width, and for the return to the parser. A Dedent is
paid for by its level, a reopened level by the width no longer being apart, the return of a layout
token by that token; Eof is paid for once. So it has to be shown that each of the scanners, twelve
hand-written loops, goes past at least one byte unless it reports the end or fails
(`LexAdvances`, `StringAdvances`, `UrlAdvances` in BytesProofs). In Blocks the line of the next word is
never further than one behind the last (`NextInRange`), and what the parser does between two tokens,
owed Indents, open blocks and the arms of its loops, is ranked below the tokens it waits for. In
RawTokens every turn of a loop takes a token or ends, and a string's pieces are ranked inside it. The
number bounds the Dedents of a source, and the turns of every loop, by its length. Tokenizer's switch
of the line comments is the caller's and reads nothing; it is the one step that is not counted.

**Backtracking** (`BacktrackProofs`). `EachItemOnce` is not inductive: rolling back makes it
true of a state that has been saved, so the invariant says of every saved snapshot, cut as it
will be cut, what it says of the current state (`SnapshotsOnce`); that a cut of a cut is the
outer cut needs the saved lengths to nest (`SnapshotsNest`); and the line-comment flag an
attempt will restore depends on where it sits below a rescan (`SavedModes`). The three are
`SnapshotsSound`; their conjunction with types is `IInv`. The steps fall into four classes, each
with one lemma: *work* that only extends the lists, *push* of a frame, *pop* of a frame, and
*rollback*. `Refinement` shows that each class is the transaction of its name: the lemmas say what
a step does to the sequence of copies. The counter of line comments follows the list because each
saved counter counts the list cut to its saved length (`SeenSaved`).

**Blocks** (`BlocksProofs`). `EveryDedentCloses` needs the balance `LevelsAccounted`, and the
balance needs to know where a Dedent can be looked at: never in the loop of `parse_statements`
while an Indent is owed (`DedentIsBlocks`), because that loop only ever asks for a token where
the line's levels are closed (`StatementsStart`), which holds because every Indent or Linebreak
that was consumed left the line as wide as its level (`AtLineStart`). `ChildrenDeeper` compares
widths, which the parser never does: the invariant is that the owner of the i-th open block
stands at the level i (`OwnersStand`, `StmtStands`), for which the balance must be exact as long as
there are lines (`Exactly`).

**Raw runs** (`RawTokensProofs`, `RawEndsProofs`). The reference, `Nesting`, is a recursive function;
that it exists is proved first, from the least place where it would fail (`NestingDefined`). What
is open inside a string is what was open in front of it, the string, and a brace for each brace
of the expression being read (`InString`); from there each token is followed through `Nesting`
(`TokenPasses`). A run of tokens in pieces that meets the end of the source in an expression returns
without a word (`Cut`), the one place where the loop's pairs are not the open ones; everywhere else
`pairs` is the kinds of what is open outside the innermost interpolated string and `outermost` its
first opener (`PairsOpen`). `LongestBalanced` needs in the indented syntax that the depth is the
pairs and what is open in the expressions, string by string (`DepthIs`): a line break is a token
exactly where nothing is open. Then nothing that has been passed ends the run (`NoEnd`), and a loop
stops at a token exactly when the run has to end there (`StopsAtEnds`). `ImportantOutside` compares
the two last values with the source, so it needs that the values leave nothing else out: each ends
in front of line breaks, and behind them the next one begins (`Chain`). The replayed pairs are the
loop's, value by value (`Replays`); a recursive function again, but here the loop supplies the
solution.

| Theorem | States |
|---|---|
| `TokenizerProofs!TypeCorrect` | `TypeOK` |
| `TokenizerProofs!LevelsSound` | `IndentStack` |
| `TokenizerProofs!LevelsAreIndentsLessDedents` | `DedentPerLevel` |
| `TokenizerProofs!ContentBehindDedents` | `DedentsBeforeContent` |
| `TokenizerProofs!EveryByteReadOnce` | `ReadOnce` |
| `TokenizerProofs!DepthsAreNesting` | `DepthsExact` |
| `TokenizerProofs!FlagIsFresh` | (the opener flag is up only in front of its brace; what `DepthsExact` rests on) |
| `TokenizerProofs!NothingAfterEof` | (nothing follows Eof, in any dialect) |
| `TokenizerProofs!BumpsAreBounded` | `StepsBounded` |
| `LineLayoutProofs!PlainLinesLaidOut` | `LaysOutLines` |
| `LineLayoutProofs!PlainLinesImplement` | (`Tokenizer` on plain sources implements LineLayout) |
| `BacktrackProofs!TypeCorrect` | `TypeOK` |
| `BacktrackProofs!ReadsEachItemOnce` | `EachItemOnce` |
| `BacktrackProofs!SnapshotsStaySound` | `SnapshotsSound` |
| `BacktrackProofs!RescanScopesLineComments` | `LineCommentsScoped` |
| `BacktrackProofs!Refinement` | `Transactional` |
| `BacktrackProofs!CounterFollowsList` | (the counter of line comments counts those of the list; what `TypedValueHasNoLineComment` rests on) |
| `BacktrackProofs!TypedValuesAreWhole` | `TypedValueHasNoLineComment` |
| `BlocksProofs!TypeCorrect` | `TypeOK` |
| `BlocksProofs!LevelsBalance` | `LevelsAccounted` |
| `BlocksProofs!NoDedentLeftOver` | `EveryDedentCloses` |
| `BlocksProofs!ChildrenAreDeeper` | `ChildrenDeeper` |
| `BlocksProofs!BlocksReadLayout` | `ReadsLayout` |
| `BlocksProofs!ParseIsBounded` | `StepsBounded` |
| `RawTokensProofs!TypeCorrect` | `TypeOK` |
| `RawTokensProofs!StringsAreRead` | `StringsWhole` |
| `RawTokensProofs!UnclosedIsOutermost` | `EofErrorAtOpener` |
| `RawTokensProofs!LoopsEnd` | `StepsBounded` |
| `RawEndsProofs!RunsAreLongest` | `LongestBalanced` |
| `RawEndsProofs!AnnotationsAreOutside` | `ImportantOutside` |

The proofs found what the runs could not, their sources being too small: that a block comment
loses Dedents (above, *LostDedent*), that a drained Dedent may be a block's (*StolenBlock*),
*OpenBracket*, and that an Indent behind an annotation undoes it. The properties were
corrected, and the runs have sources now that show each case.

Only model-checked: the grammars, which are recursive operators, so that no theorem can be
stated in their modules; and `Terminates`, liveness under fairness being out of the
prover's reach: that no step is without progress is proved (`StepsBounded`), that the parser goes on
asking until Eof is the fairness TLC assumes.

## What is not modelled

- Numbers, unicode ranges, backtick code, placeholders and ident templates in the tokenizer: one
  token each, without effect on its other state. The values of tokens and the text of errors.
- In the grammars: the inside of strings and urls (Tokenizer and RawTokens have it), the text of
  custom properties in Sass, unicode ranges, `element()`, and levels that are reopened (Blocks
  has them).
- In Less: the nodes of interpolated strings (their protocol is in Tokenizer and RawTokens), and
  which names a function has.
- The tree, its generated visitors and conversions, which are data. The builder.

## The plan

Done so far: the tokenizer, backtracking, blocks of the indented syntax, raw runs, and the
grammars of Css, Scss, Sass and Less; of the first four, all safety properties, the refinements of
their abstract specifications and the measures of termination are proved. Left:

1. **RawTokens**, the rest: the spans of sequences (`current_offset` behind a lookahead);
   composition with Tokenizer, whose depths the runs share.
2. **Tokens**: numbers and dimensions, `url(` recognition, placeholders, ident templates.
