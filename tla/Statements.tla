----------------------------- MODULE Statements -----------------------------
(***************************************************************************)
(* Statements, the blocks that hold them and the rules of which they are,   *)
(* in Css, Scss and Sass: what the first token of a statement says, which   *)
(* readings are tried where it does not say enough, and what ends it.       *)
(***************************************************************************)
EXTENDS SassPreludes

RECURSIVE Statements(_, _, _, _)

\* A statement that has been read; the separator behind a block may be missing.
Finished(r, block) ==
    As(r, LAMBDA n : Node(IF block THEN "Braced" ELSE "Plain", "", n.from, n.to, <<n>>))

LastOf(node) == node.kids[Len(node.kids)]

EndsInBlock(node) == node.kids # <<>> /\ LastOf(node).kind = "Block"

\* The last value of a declaration, `!important` aside.
EndsNested(decl) ==
    LET n == Len(decl.kids)
        last == IF LastOf(decl).kind = "Important" THEN n - 1 ELSE n
    IN  decl.kids[last].kind = "Nested"

(***************************************************************************)
(* Blocks.  In the indented syntax a statement may owe Dedents for the      *)
(* Indents it went over (sass_pending_indents): those pending where it      *)
(* began, and those it holds beyond the Dedents of its own blocks.          *)
(***************************************************************************)
Pending(i, c) == c.owed + Count(c.from, i, "Indent") - Count(c.from, i, "Dedent")

\* Mutant of Drained: every Dedent is taken for one that is owed.
DrainedAll(i, c) == IF c.syntax # "Sass" THEN i ELSE Beyond(i, {"Dedent"})

\* drain_sass_pending_dedents
Drained(i, c) ==
    LET end == Beyond(i, {"Dedent"})
    IN  IF c.syntax # "Sass" THEN i
        ELSE IF end <= i + Pending(i, c) THEN end ELSE i + Pending(i, c)

Block(from, to, statements) == Node("Block", "", from, to, statements)

\* Mutant of BracedBlock: a block left open is reported where the file ends.
BracedBlockReportsEof(i, c) ==
    Then(Expect(i, "LBrace"), LAMBDA open :
        Then(Statements(open.at, <<>>, FALSE, [c EXCEPT !.from = open.at]), LAMBDA r :
            IF c.syntax = "Css" /\ At(r.at, {"Eof"})
            THEN Report(Done(r.at, Block(Start(i), Start(r.at), r.node.kids)), r.at)
            ELSE As(Expect(r.at, "RBrace"), LAMBDA close :
                     Block(Start(i), close.to, r.node.kids))))

BracedBlock(i, c) ==
    Then(Expect(i, "LBrace"), LAMBDA open :
        Then(Statements(open.at, <<>>, FALSE, [c EXCEPT !.from = open.at]), LAMBDA r :
            IF c.syntax = "Css" /\ At(r.at, {"Eof"})
            THEN Report(Done(r.at, Block(Start(i), Start(r.at), r.node.kids)), i)
            ELSE As(Expect(r.at, "RBrace"), LAMBDA close :
                     Block(Start(i), close.to, r.node.kids))))

\* The block's Indent is next, or its clause has gone over it, or there is no
\* block at all; `owed` are the Dedents still owed inside.  A level between two
\* known ones (reopen_indent_level) is in Blocks.
IndentedBlock(i, c) ==
    LET j == Drained(i, c)
        Inside(k, start, owed) ==
            Then(Statements(k, <<>>, FALSE, [c EXCEPT !.from = k, !.owed = owed]), LAMBDA r :
                IF ~At(r.at, {"Dedent", "Eof"}) THEN Failed(r.at, "ExpectDedentOrEof")
                ELSE Done(IF At(r.at, {"Eof"}) THEN r.at ELSE r.at + 1,
                          Block(start, IF r.node.kids = <<>> THEN Start(r.at) ELSE LastOf(r.node).to,
                                r.node.kids)))
    IN  IF At(j, {"Indent"})
        THEN Then(Bump(j, "Indent"), LAMBDA r : Inside(r.at, r.node.to, Pending(j, c)))
        ELSE IF Pending(j, c) > 0 THEN Inside(j, Start(j), Pending(j, c) - 1)
        ELSE Done(j, Node("Block", "empty", Start(j), Start(j), <<>>))

SimpleBlock(i, c) == IF c.syntax = "Sass" THEN IndentedBlock(i, c) ELSE BracedBlock(i, c)

BlockAhead(i) == At(i, {"LBrace", "Indent"})

MaybeBlock(i, c) == IF BlockAhead(i) THEN SimpleBlock(i, c) ELSE Done(i, Nothing)

\* What stands in front of a block, and the block.
WithBlock(r, kind, c) ==
    Then(r, LAMBDA head :
        As(SimpleBlock(head.at, c), LAMBDA block :
            Node(kind, "", head.node.from, block.to, <<head.node, block>>)))

\* A block of nested properties, as a value.
Nesting(i, c) ==
    As(SimpleBlock(i, c), LAMBDA block : Node("Nested", "", block.from, block.to, <<block>>))

(***************************************************************************)
(* Rules and declarations.                                                  *)
(***************************************************************************)
QualifiedRule(i, c) == WithBlock(SelectorList(i, InSelector(c)), "Rule", c)

UnknownQualifiedRule(i, c) == WithBlock(RawPrelude(i), "UnknownRule", c)

StatementDeclaration(i, c) == DeclarationOf(i, [c EXCEPT !.statement = TRUE])

\* What a declaration that met a block is read as, in Css.
ShapedRule(decl, i, c) ==
    IF c.syntax = "Css" /\ decl.node.kind = "BlockInDeclarationValue"
    THEN UnknownQualifiedRule(i, c)
    ELSE Failed(i, "TryParseError")

\* Mutant of RuleOrDeclaration: the rule is read again for its error.
RuleOrDeclarationRereads(i, top, preferRule, c) ==
    LET rule == QualifiedRule(i, c)
        decl == StatementDeclaration(i, c)
        shaped == ShapedRule(decl, i, c)
    IN  IF rule.ok THEN Finished(rule, TRUE)
        ELSE Else(rule,
            IF decl.ok
            THEN Finished(IF top THEN Report(decl, i) ELSE decl, EndsNested(decl.node))
            ELSE Else(decl, IF shaped.ok THEN Finished(shaped, TRUE) ELSE Else(rule, decl)))

\* parse_rule_or_declaration
RuleOrDeclaration(i, top, preferRule, c) ==
    LET rule == QualifiedRule(i, c)
        decl == StatementDeclaration(i, c)
        shaped == ShapedRule(decl, i, c)
    IN  IF rule.ok THEN Finished(rule, TRUE)
        ELSE Else(rule,
            IF decl.ok
            THEN Finished(IF top THEN Report(decl, i) ELSE decl, EndsNested(decl.node))
            ELSE Else(decl, IF shaped.ok THEN Finished(shaped, TRUE)
                            ELSE IF preferRule THEN rule ELSE decl))

Numeric == {"Percentage", "Number", "Dimension"}

\* parse_css_statement
CssStatement(i, top, c) ==
    LET read == RuleOrDeclaration(i, top, TRUE, c)
    IN  IF read.ok \/ ~At(i, Numeric) THEN read
        ELSE Else(read, Finished(UnknownQualifiedRule(i, c), TRUE))

EmptyRule(i, c) ==
    As(SimpleBlock(i, c), LAMBDA block : Span("Rule", "", <<block>>))

(***************************************************************************)
(* Keyframes.                                                               *)
(***************************************************************************)
RangeNames == {"entry"}

KeyframeSelector(i, c) ==
    IF At(i, {"Percentage"}) THEN Bump(i, "Percentage")
    ELSE Then(InterpolableIdent(i, c), LAMBDA name :
             LET Known(r, names) == IF name.node.kind = "Ident" /\ name.node.op \notin names
                                    THEN Report(r, i) ELSE r
             IN  IF At(name.at, {"Percentage"})
                 THEN Known(As(Bump(name.at, "Percentage"), LAMBDA percentage :
                                Span("Range", "", <<name.node, percentage>>)), RangeNames)
                 ELSE Known(Done(name.at, name.node), {"from", "to"}))

\* Mutant of KeyframeBlock: the blocks inside are keyframes as well.
KeyframeBlockInherits(i, c) ==
    WithBlock(Commas(i, "KeyframeSelectors", LAMBDA j : KeyframeSelector(j, c)), "KeyframeBlock", c)

KeyframeBlock(i, c) ==
    WithBlock(Commas(i, "KeyframeSelectors", LAMBDA j : KeyframeSelector(j, c)), "KeyframeBlock",
              [c EXCEPT !.keyframes = FALSE])

KeyframeBlockOrDeclaration(i, c) ==
    LET decl == StatementDeclaration(i, c)
        shaped == ShapedRule(decl, i, c)
    IN  Else(Finished(KeyframeBlock(i, c), TRUE),
             IF decl.ok THEN Finished(decl, FALSE)
             ELSE Else(decl, IF shaped.ok THEN Finished(shaped, TRUE) ELSE decl))

(***************************************************************************)
(* @if and its clauses.                                                     *)
(***************************************************************************)
Clause(i, c) ==
    Then(LineContinuation(i, c), LAMBDA r : WithBlock(Value(r.at, c), "Clause", c))

\* Linebreaks are gone over only to reach an `@else`.
ElseClauses(i, parts, c) ==
    LET RECURSIVE Rest(_, _)
        Rest(j, clauses) ==
            LET k == Beyond(j, {"Linebreak"})
                word == Peek(k).text
                With(r) == Then(r, LAMBDA x :
                               Rest(x.at, clauses \o <<Leaf(k, "AtKeyword"), x.node>>))
            IN  IF ~At(k, {"AtKeyword"}) \/ word \notin {"else", "elseif"}
                THEN Done(j, Group(clauses))
                ELSE IF word = "elseif"
                THEN Then(Bump(k, "AtKeyword"), LAMBDA r : With(Clause(r.at, c)))
                ELSE Then(Bump(k, "AtKeyword"), LAMBDA r :
                     Then(LineContinuation(r.at, c), LAMBDA x :
                        IF AtIdent(x.at, {"if"})
                        THEN Then(Bump(x.at, "Word"), LAMBDA if : With(Clause(if.at, c)))
                        ELSE Then(SimpleBlock(x.at, c), LAMBDA block :
                                 Done(block.at,
                                      Group(clauses \o <<Leaf(k, "AtKeyword"), block.node>>)))))
    IN  Rest(i, parts)

SassIf(i, c) ==
    Then(Bump(i, "AtKeyword"), LAMBDA keyword :
    Then(Clause(keyword.at, c), LAMBDA clause :
    As(ElseClauses(clause.at, <<keyword.node, clause.node>>, c), LAMBDA parts :
        Span("If", "", parts.kids))))

(***************************************************************************)
(* At-rules: the prelude and the block of each.                             *)
(***************************************************************************)
CssRules ==
    {"media", "keyframes", "import", "charset", "font-face", "supports", "layer", "container",
     "page", "namespace", "color-profile", "font-feature-values", "counter-style", "custom-media",
     "custom-selector", "nest", "property", "scope", "document"}

SassRules ==
    {"each", "while", "for", "mixin", "include", "content", "use", "function", "return", "extend",
     "warn", "forward", "at-root"}

\* The rule a keyword names; a function of Css is told by its name.
RuleOf(i, c) ==
    LET name == Peek(i).text
    IN  IF name = "function" /\ AtIdent(i + 1, {"--a"}) THEN "css-function"
        ELSE IF \/ name \in CssRules
                \/ IsSass(c) /\ name \in SassRules
                \/ c.syntax = "Less" /\ name = "plugin"
        THEN name
        ELSE "unknown"

\* The preludes that Scss and Sass read.
SassPrelude(rule, i, c) ==
    CASE rule = "each" -> SassEach(i, c)
      [] rule = "while" -> Then(LineContinuation(i, c), LAMBDA r : Value(r.at, c))
      [] rule = "for" -> SassFor(i, c)
      [] rule = "mixin" -> SassMixin(i, c)
      [] rule = "include" -> SassInclude(i, c)
      [] rule = "content" -> IF At(i, {"LParen"}) THEN SassArguments(i, c) ELSE Done(i, Nothing)
      [] rule = "use" -> SassUse(i, c)
      [] rule = "function" -> SassFunction(i, c)
      [] rule = "return" ->
            LET expr == Expression(i, [c EXCEPT !.div = TRUE])
            IN  IF c.function THEN expr ELSE Report(expr, i - 1)
      [] rule = "extend" -> SassExtend(i, c)
      [] rule = "warn" -> Expression(i, c)
      [] rule = "forward" -> SassForward(i, c)
      [] rule = "at-root" -> SassAtRoot(i, c)

ImportOf(i, c) ==
    CASE IsSass(c) -> SassImport(i, c)
      [] c.syntax = "Less" -> Else(ImportPrelude(i, c), InLess("Import", i, c))
      [] c.syntax = "Css" -> ImportPrelude(i, c)

Prelude(rule, i, c) ==
    CASE rule = "media" -> MediaRule(i, c)
      [] rule = "keyframes" ->
            IF At(i, {"LBrace"}) THEN Done(i, Nothing)
            ELSE Else(FullPrelude(KeyframesName(i, c)), UnknownPrelude(i, c))
      [] rule = "import" -> ImportOf(i, c)
      [] rule = "plugin" -> InLess("Plugin", i, c)
      [] rule = "charset" -> Expect(i, "Str")
      [] rule = "font-face" -> Done(i, Nothing)
      [] rule = "supports" -> Condition(i, "Supports", TRUE, FALSE, c)
      [] rule = "layer" -> LayerRule(i, c)
      [] rule = "container" -> ContainerRule(i, c)
      [] rule = "page" -> Else(PageSelectorList(i, c), Done(i, Nothing))
      [] rule = "namespace" -> NamespacePrelude(i, c)
      [] rule = "color-profile" -> ColorProfile(i, c)
      [] rule = "font-feature-values" -> FontFamily(i, c)
      [] rule = "counter-style" -> CounterStyle(i, c)
      [] rule = "custom-media" -> CustomMedia(i, c)
      [] rule = "custom-selector" -> CustomSelector(i, c)
      [] rule = "nest" -> SelectorList(i, c)
      [] rule = "property" -> DashedIdent(i, c)
      [] rule = "scope" -> IF At(i, {"LParen", "Ident"}) THEN ScopePrelude(i, c) ELSE Done(i, Nothing)
      [] rule = "document" -> DocumentPrelude(i, c)
      [] rule = "css-function" -> RawPrelude(i)
      [] rule = "unknown" -> UnknownPrelude(i, c)
      [] rule \in SassRules -> SassPrelude(rule, i, c)

Blockless ==
    {"import", "charset", "namespace", "custom-media", "custom-selector", "content", "use",
     "return", "extend", "warn", "forward", "plugin"}

\* The state the statements of a block are read in.
BlockContext(rule, c) ==
    CASE rule = "keyframes" -> [c EXCEPT !.keyframes = TRUE]
      [] rule = "at-root" -> [c EXCEPT !.keyframes = FALSE]
      [] rule = "css-function" -> [c EXCEPT !.fnBody = TRUE]
      [] rule = "function" -> [c EXCEPT !.function = TRUE]
      [] rule \in {"mixin", "include"} \/ (rule = "unknown" /\ IsSass(c)) ->
            [c EXCEPT !.keyframeBlock = TRUE]
      [] OTHER -> c

\* The block may be missing where it may be none; the one of `@page` is tried.
RuleBlock(rule, prelude, i, c) ==
    LET inside == BlockContext(rule, c)
        block == MaybeBlock(i, inside)
    IN  CASE rule \in Blockless -> Done(i, Nothing)
          [] rule = "page" -> Else(SimpleBlock(i, inside), Done(i, Nothing))
          [] rule = "layer" ->
                IF BlockAhead(i) /\ prelude.kind = "LayerNames" /\ Len(prelude.kids) > 1
                THEN Report(block, i) ELSE block
          [] rule \in {"document", "include", "unknown"} -> block
          [] OTHER -> SimpleBlock(i, inside)

AtRuleNode(name, parts, end) == Node("AtRule", name, parts[1].from, end, parts)

\* The span of a rule without prelude and block is its keyword's, except that
\* `@content` ends where the tokenizer is: behind the next token.
AtRule(i, c) ==
    LET rule == RuleOf(i, c)
    IN  Then(Bump(i, "AtKeyword"), LAMBDA keyword :
        Then(Prelude(rule, keyword.at, c), LAMBDA prelude :
        As(RuleBlock(rule, prelude.node, prelude.at, c), LAMBDA block :
            LET parts == Present(<<keyword.node, prelude.node, block>>)
            IN  AtRuleNode(rule, parts,
                    IF rule = "content" /\ Len(parts) = 1
                    THEN (IF At(i + 1, {"Eof"}) THEN Start(i + 1) ELSE End(i + 1))
                    ELSE parts[Len(parts)].to))))

\* `@`, a name with interpolations, and what an unknown rule has.
UnknownSassAtRule(i, c) ==
    Then(Bump(i, "At"), LAMBDA at :
    Then(InterpolableIdent(at.at, c), LAMBDA name :
        IF ~Peek(at.at).glued THEN Failed(at.at, "UnexpectedWhitespaceOrComments")
        ELSE Then(UnknownPrelude(name.at, c), LAMBDA prelude :
             As(MaybeBlock(prelude.at, BlockContext("unknown", c)), LAMBDA block :
                LET parts == Present(<<at.node, name.node, prelude.node, block>>)
                IN  AtRuleNode("unknown", parts, parts[Len(parts)].to)))))

\* `=name` and `+name`
Shorthand(rule, prelude, c) ==
    Then(prelude, LAMBDA p :
        LET inside == BlockContext(rule, c)
        IN  As(IF rule = "mixin" THEN SimpleBlock(p.at, inside) ELSE MaybeBlock(p.at, inside),
               LAMBDA block :
                LET parts == Present(<<p.node, block>>)
                IN  Node("AtRule", rule, Start(c.from), parts[Len(parts)].to, parts)))

(***************************************************************************)
(* Placeholders.  What follows one belongs to it on the same line, or glued *)
(* to it up to a brace.                                                     *)
(***************************************************************************)
Brace(k) == At(k, {"LBrace", "HashLBrace"})

OwnsBlock(i) ==
    LET rest == (i + 1)..Len(source)
        lines == {k \in rest : Peek(k).fresh}
    IN  IF Peek(i + 1).glued THEN \E k \in rest : Brace(k)
        ELSE \E k \in rest :
                /\ Brace(k)
                /\ \A l \in lines : k <= l
                /\ k \in lines => At(k, {"LBrace"})

OwnsDeclaration(i) == ~At(i + 1, {"Eof"}) /\ ~Peek(i + 1).fresh

PlaceholderStatement(i, c) ==
    Finished(Else(IF OwnsBlock(i) THEN QualifiedRule(i, c) ELSE Failed(i, "TryParseError"),
                 Else(IF OwnsDeclaration(i) THEN DeclarationOf(i, c) ELSE Failed(i, "TryParseError"),
                      Bump(i, "Placeholder"))),
            TRUE)

(***************************************************************************)
(* Statements.                                                              *)
(***************************************************************************)
IdentStatement(i, top, c) ==
    LET variable == SassVariableDeclaration(i, c)
        read == IF c.keyframes THEN KeyframeBlockOrDeclaration(i, c)
                ELSE RuleOrDeclaration(i, top, top, c)
    IN  IF IsSass(c) /\ variable.ok THEN Finished(variable, FALSE)
        ELSE IF IsSass(c) THEN Else(variable, read)
        ELSE read

\* Mutant of AtKeywordStatement: every at-rule ends with a block.
AtKeywordStatementBraced(i, c) ==
    IF IsSass(c) /\ Peek(i).text = "if" THEN Finished(SassIf(i, c), TRUE)
    ELSE IF IsSass(c) /\ Peek(i).text = "else" THEN Failed(i, "UnexpectedSassElseAtRule")
    ELSE Finished(AtRule(i, c), TRUE)

AtKeywordStatement(i, c) ==
    IF IsSass(c) /\ Peek(i).text = "if" THEN Finished(SassIf(i, c), TRUE)
    ELSE IF IsSass(c) /\ Peek(i).text = "else" THEN Failed(i, "UnexpectedSassElseAtRule")
    ELSE Then(AtRule(i, c), LAMBDA r : Finished(Done(r.at, r.node), EndsInBlock(r.node)))

\* A selector's first token begins a rule, but `*` may be a hack.
SelectorStatement(i, top, c) ==
    IF At(i, {"Asterisk"}) THEN RuleOrDeclaration(i, top, top, c)
    ELSE Finished(QualifiedRule(i, c), TRUE)

Statement(i, top, c) ==
    IF c.syntax = "Less" THEN InLess(IF top THEN "TopStatement" ELSE "Statement", i, c) ELSE
    CASE At(i, {"Ident", "HashLBrace"}) -> IdentStatement(i, top, c)
      [] At(i, {"AtKeyword"}) -> AtKeywordStatement(i, c)
      [] At(i, {"Placeholder"}) -> PlaceholderStatement(i, c)
      [] At(i, {"Percent"}) -> Finished(QualifiedRule(i, c), TRUE)
      [] At(i, {"DollarVar"}) /\ IsSass(c) -> Finished(SassVariableDeclaration(i, c), FALSE)
      [] At(i, {"DollarVar"}) /\ c.syntax = "Css" ->
            Else(Finished(SimpleVarDeclaration(i, c), FALSE), CssStatement(i, top, c))
      [] At(i, {"Percentage"}) /\ (c.keyframes \/ c.keyframeBlock) ->
            Finished(KeyframeBlock(i, c), TRUE)
      [] At(i, {"At"}) ->
            IF IsSass(c)
            THEN Then(UnknownSassAtRule(i, c), LAMBDA r :
                     Finished(Done(r.at, r.node), EndsInBlock(r.node)))
            ELSE Failed(i, "ExpectRule")
      [] At(i, {"LBrace"}) /\ c.syntax = "Css" -> Finished(EmptyRule(i, c), TRUE)
      [] At(i, {"Equal"}) /\ c.syntax = "Sass" ->
            Finished(Shorthand("mixin", SassMixin(i + 1, c), c), TRUE)
      [] At(i, {"Plus"}) /\ c.syntax = "Sass" /\ At(i + 1, {"Ident"}) /\ Peek(i + 1).glued ->
            Then(Shorthand("include", SassInclude(i + 1, c), c), LAMBDA r :
                Finished(Done(r.at, r.node), EndsInBlock(r.node)))
      [] At(i, StartsCompound) /\ IsSass(c) /\ ~c.keyframes -> SelectorStatement(i, top, c)
      [] At(i, Combinators) /\ IsSass(c) -> Finished(QualifiedRule(i, c), TRUE)
      [] OTHER ->
            IF c.syntax = "Css" /\ ~c.keyframes THEN CssStatement(i, top, c)
            ELSE Failed(i, "ExpectRule")

EndOfStatements == {"RBrace", "Eof", "Dedent"}

\* What separates a statement from the next; a Dedent that was owed does.
Separator(i, block, c) ==
    LET line == At(i, {"Semicolon"}) \/ (c.syntax = "Sass" /\ At(i, {"Linebreak"}))
    IN  IF Drained(i, c) > i THEN Done(Drained(i, c), Nothing)
        ELSE IF At(i, EndOfStatements) THEN Done(i, Nothing)
        ELSE IF line THEN Bump(i, "Separator")
        ELSE IF block THEN Done(i, Nothing)
        ELSE Failed(i, "Semicolon")

Statements(i, list, top, c) ==
    IF At(i, EndOfStatements) THEN Done(i, Group(list))
    ELSE IF At(i, {"Semicolon", "Linebreak", "Cdo", "Cdc"})
    THEN Then(Bump(i, "Separator"), LAMBDA r : Statements(r.at, list, top, c))
    ELSE LET inside == [c EXCEPT !.from = i, !.owed = Pending(i, c)]
         IN  Then(Statement(i, top, inside), LAMBDA s :
             Then(Separator(s.at, s.node.kind = "Braced", inside), LAMBDA r :
                Statements(r.at, list \o s.node.kids, top, c)))

Stylesheet(c) ==
    Then(Statements(1, <<>>, TRUE, c), LAMBDA r :
        As(Expect(r.at, "Eof"), LAMBDA eof :
            Node("Stylesheet", "", 0, Start(r.at) + 1, r.node.kids)))

(***************************************************************************)
(* Properties.                                                              *)
(***************************************************************************)
\* Brackets as the source has them, whatever grammar reads it.
Opener(i) == Peek(i).kind \in DOMAIN Closer

Depth(i, j) ==
    Cardinality({k \in i..j : Opener(k)}) - Cardinality({k \in i..j : Closes(k)})

Partner(i, j) ==
    /\ i < j
    /\ Depth(i, j) = 0
    /\ \A k \in i..(j - 1) : Depth(i, k) > 0

WellNested ==
    /\ \A i \in DOMAIN source : Depth(1, i) >= 0
    /\ \A i \in DOMAIN source :
          Opener(i) => \E j \in DOMAIN source : Partner(i, j) /\ At(j, {Closer[Peek(i).kind]})

AtKeywords == {Peek(i).text : i \in {k \in DOMAIN source : At(k, {"AtKeyword"})}}

Braced(node) == node.kind = "Block" /\ At(TokenAt(node.from), {"LBrace"})

LeftOpen(node) == Braced(node) /\ node.to = Start(Len(source) + 1)

\* Raw preludes, raw values and typed ones count pairs each in its own way, or
\* not at all: in a source whose brackets are in order the braces of every
\* block are those that belong together.
BlocksMatch ==
    Accepted /\ WellNested =>
        \A node \in Nodes(result.node) :
            Braced(node) => Partner(TokenAt(node.from), TokenAt(node.to - 1))

Raw(node) ==
    \/ node.kind \in {"Declaration", "Function"} /\ node.op = "raw"
    \/ node.kind \in {"Import", "TokenSeq"}

\* A rule is tried before a declaration, typed grammars before raw ones, and
\* each attempt reports the blocks it leaves open at the end of the file: what
\* is reported at a brace is what the tree that is kept left open, or belongs
\* to a raw value, or to a list of layers that has a block.
OpenBlocksReported ==
    Accepted =>
        LET nodes == Nodes(result.node)
        IN  \A i \in DOMAIN source :
                At(i, {"LBrace"}) =>
                    /\ (\E n \in nodes : LeftOpen(n) /\ n.from = Start(i)) => i \in result.errs
                    /\ i \in result.errs =>
                          \E n \in nodes :
                              \/ LeftOpen(n) /\ n.from = Start(i)
                              \/ Raw(n) /\ n.from <= Start(i) /\ Start(i) < n.to
                              \/ n.kind = "AtRule" /\ EndsInBlock(n) /\ LastOf(n).from = Start(i)

RECURSIVE ClosesBlock(_)
ClosesBlock(node) ==
    \/ node.kind \in {"Block", "Placeholder"}
    \/ node.kind = "Declaration" /\ EndsNested(node)
    \/ node.kids # <<>> /\ ClosesBlock(LastOf(node))

\* Whether a statement needs a separator is computed apart from its tree, by
\* each kind of statement for itself: two statements have a separator between
\* them, the Dedent of an Indent that was gone over included, unless the first
\* one ends with a block.
StatementsSeparated ==
    Accepted =>
        \A node \in Nodes(result.node) :
            node.kind \in {"Block", "Stylesheet"} =>
                \A k \in 2..Len(node.kids) :
                    \/ ClosesBlock(node.kids[k - 1])
                    \/ \E i \in TokenAt(node.kids[k - 1].to - 1)..TokenAt(node.kids[k].from) :
                          At(i, {"Semicolon", "Linebreak", "Dedent", "Placeholder"})

\* A brace outside of all pairs makes a rule of what looked like a declaration,
\* whichever grammar read the value, unless it opens a block of nested
\* properties; custom properties are exempt, and so is what functions hold raw.
BraceMakesARule ==
    Accepted =>
        \A node \in Nodes(result.node) :
            /\ node.kind = "Declaration"
            /\ ~IsCustomProperty(node.kids[1])
            /\ "function" \notin AtKeywords
            /\ \A n \in Nodes(node) : n.kind # "Nested"
            => \A i \in TokenAt(node.from)..TokenAt(node.to - 1) :
                  At(i, {"LBrace"}) => Depth(TokenAt(node.from), i - 1) > 0

Level(i) == Count(1, i, "Indent") - Count(1, i, "Dedent")

\* A statement of Sass may go over the Indent of its own block, and owes the
\* Dedent then, up to which the block goes on: what the blocks of a statement
\* hold is never shallower than the statement.
ChildrenIndented ==
    Accepted =>
        LET nodes == Nodes(result.node)
            blocks == {n \in nodes : n.kind = "Block" /\ ~Braced(n)}
        IN  \A holder \in blocks \cup {result.node} : \A k \in DOMAIN holder.kids :
                LET statement == holder.kids[k]
                IN  \A block \in blocks \cap Nodes(statement) : \A m \in DOMAIN block.kids :
                        Level(TokenAt(block.kids[m].from)) >= Level(TokenAt(statement.from))

\* An attempt that fails has read what is then read again, at every level of
\* nesting: a rule before a declaration, a list before a map, a condition before
\* the tokens it is made of.  What is read in all grows with the depth of the
\* source, by three for a level at most, and not with the length of a level.
RereadBounded ==
    \E i, j \in 0..Len(source) :
        /\ Depth(i, j) >= 0
        /\ result.work <= 4 * (Len(source) + 1) * 3 ^ Depth(i, j)

\* The selectors of keyframes are read by a flag of the parser, which what
\* stands inside has to put back: they are read right below their rule, where
\* no rule has selectors, and no block of theirs holds another.
KeyframesOneLevel ==
    Accepted =>
        LET nodes == Nodes(result.node)
        IN  /\ \A rule \in {n \in nodes : n.kind = "AtRule" /\ n.op = "keyframes"} :
                  \A k \in DOMAIN LastOf(rule).kids :
                      LET n == LastOf(rule).kids[k] IN n.kind = "Rule" => Len(n.kids) = 1
            /\ \A n \in nodes :
                  n.kind = "KeyframeBlock" /\ AtKeywords \subseteq {"keyframes"} =>
                      \A m \in Nodes(n) \ {n} : m.kind # "KeyframeBlock"

\* A condition of media, and of styles, is joined by one word throughout; what
\* is between parentheses may have another.
OneWordJoins ==
    Accepted =>
        \A node \in Nodes(result.node) :
            node.kind = "Condition" /\ node.op \in {"Media", "Style"} =>
                Cardinality({node.kids[k].op : k \in 2..Len(node.kids)}) <= 1
=============================================================================
