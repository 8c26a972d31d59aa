------------------------------ MODULE Preludes ------------------------------
(***************************************************************************)
(* The preludes of the at-rules of Css: conditions and the features in      *)
(* them, the lists of names and selectors, imports, and the raw tokens kept *)
(* where no typed grammar reads the whole.                                  *)
(***************************************************************************)
EXTENDS Declarations

RECURSIVE Condition(_, _, _, _, _), Chain(_, _, _, _, _), UnknownTokens(_, _)

(***************************************************************************)
(* Features of media and of containers.                                     *)
(***************************************************************************)
\* What is read has to end at the parenthesis.
Closed(r) ==
    Then(r, LAMBDA x : IF At(x.at, {"RParen"}) THEN Done(x.at, x.node)
                       ELSE Failed(x.at, "ExpectMediaFeatureName"))

IsName(node) == node.kind \in {"Ident", "Interpolated"}

Negative(i) == Peek(i).text \in {"-1", "0"}

FeatureValue(i, c) ==
    Then(IF IsSass(c) THEN BinExpr(i, 1, FALSE, c) ELSE Value(i, c), LAMBDA v :
        IF v.node.kind = "Number" /\ Peek(i).text # "-1" /\ At(v.at, {"Solidus"})
        THEN Then(Bump(v.at, "Solidus"), LAMBDA slash :
             Then(Expect(slash.at, "Number"), LAMBDA n :
                LET ratio == Done(n.at, Span("Ratio", "", <<v.node, n.node>>))
                IN  IF Negative(slash.at) THEN Report(ratio, slash.at) ELSE ratio))
        ELSE Done(v.at, v.node))

Comparisons == {"LessThan", "LessThanEqual", "GreaterThan", "GreaterThanEqual", "Equal"}

FeatureRange(left, i, c) ==
    IF ~At(i, Comparisons) THEN Failed(i, "ExpectMediaFeatureComparison")
    ELSE Then(Bump(i, "Comparison"), LAMBDA op :
         Then(FeatureValue(op.at, c), LAMBDA right :
            LET range == Done(right.at, Span("Feature", "range", <<left, op.node, right.node>>))
            IN  IF IsName(right.node) /\ At(right.at, Comparisons)
                THEN Then(Bump(right.at, "Comparison"), LAMBDA second :
                     As(FeatureValue(second.at, c), LAMBDA last :
                        Span("Feature", "interval",
                             <<left, op.node, right.node, second.node, last>>)))
                ELSE IF IsName(left) \/ IsName(right.node) THEN range
                ELSE Report(range, op.at)))

MediaFeature(i, c) ==
    Then(FeatureValue(i, c), LAMBDA v :
        LET name == v.node
        IN  IF IsName(name) /\ At(v.at, {"Colon"})
            THEN Then(Bump(v.at, "Colon"), LAMBDA colon :
                 As(FeatureValue(colon.at, c), LAMBDA value :
                    Span("Feature", "plain", <<name, value>>)))
            ELSE IF name.kind = "Variable" \/ (IsName(name) /\ ~At(v.at, Comparisons))
            THEN Done(v.at, Span("Feature", "boolean", <<name>>))
            ELSE FeatureRange(name, v.at, c))

(***************************************************************************)
(* Conditions: operands joined by words.  The kinds of conditions differ in *)
(* their words, and in whether the first word read is the only one.         *)
(***************************************************************************)
LogicWords(kind, or) ==
    CASE kind = "Media" -> IF or THEN {"and", "or"} ELSE {"and"}
      [] kind = "Container" -> {"and", "or", "not"}
      [] OTHER -> {"and", "or"}

\* Mutant of NextWords: every word may follow every other.
NextWordsAny(kind, word, words) == words

NextWords(kind, word, words) == IF kind \in {"Media", "Style"} THEN {word} ELSE words

\* A name that touches a parenthesis.
Called(name, i, kind, Inside(_)) ==
    IF At(i, {"LParen"}) /\ Peek(i).glued
    THEN As(Parens(i, kind, Inside), LAMBDA p :
             Node(kind, "", name.from, p.to, <<name>> \o p.kids))
    ELSE Failed(i, "LParen")

MediaInParens(i, c) ==
    IF IsSass(c) /\ At(i, {"HashLBrace", "Placeholder"}) THEN InterpolableIdent(i, c)
    ELSE Parens(i, "MediaInParens", LAMBDA j :
             Else(Closed(Condition(j, "Media", TRUE, FALSE, c)),
                  Else(Closed(MediaFeature(j, c)), TokensInParens(j, c))))

\* A word alone, in Css, is kept as an operand.
MediaOperand(i, after, c) ==
    IF /\ after
       /\ c.syntax = "Css"
       /\ At(i, {"Ident"})
       /\ ~AtIdent(i, {"not"})
       /\ ~(At(i + 1, {"LParen"}) /\ Peek(i + 1).glued)
    THEN Bump(i, "Token")
    ELSE MediaInParens(i, c)

StyleInParens(i, c) ==
    Parens(i, "StyleInParens", LAMBDA j :
        Else(Condition(j, "Style", TRUE, FALSE, c), DeclarationOf(j, c)))

\* The name of a custom property alone.
StyleName(i, c) ==
    Then(InterpolableIdent(i, c), LAMBDA name :
        IF name.node.kind = "Ident" /\ IsCustomProperty(name.node) /\ At(name.at, {"RParen"})
        THEN Done(name.at, name.node)
        ELSE Failed(name.at, "TryParseError"))

StyleQuery(i, c) ==
    Else(Condition(i, "Style", TRUE, FALSE, c),
         Else(StyleName(i, c),
              Then(DeclarationOf(i, c), LAMBDA r :
                  As(Eat(r.at, "Semicolon"), LAMBDA semicolon : r.node))))

QueryInParens(i, c) ==
    IF At(i, {"LParen"})
    THEN Parens(i, "QueryInParens", LAMBDA j :
             Else(Closed(Condition(j, "Container", TRUE, FALSE, c)),
                  Else(Closed(MediaFeature(j, c)), TokensInParens(j, c))))
    ELSE Then(Expect(i, "Ident"), LAMBDA name :
             Called(name.node, name.at, "QueryInParens", LAMBDA j :
                 CASE name.node.op = "style" -> StyleQuery(j, c)
                   [] name.node.op = "scroll-state" -> MediaFeature(j, c)
                   [] OTHER -> TokensInParens(j, c)))

\* `selector(...)`: its span is that of the selectors.
SupportsSelector(name, i, c) ==
    Then(Expect(i, "LParen"), LAMBDA open :
        Then(SelectorList(open.at, c), LAMBDA list :
            As(Expect(list.at, "RParen"), LAMBDA close :
                Node("SupportsSelector", "", list.node.from, list.node.to, <<name, list.node>>))))

PureInterpolation(node) ==
    \/ node.kind = "Placeholder"
    \/ node.kind = "Interpolated" /\ Len(node.kids) = 1 /\ node.kids[1].kind = "Interpolation"

SupportsInParens(i, c) ==
    CASE At(i, {"LParen"}) ->
            Else(Parens(i, "SupportsDecl", LAMBDA j : DeclarationOf(j, c)),
                 Else(Parens(i, "SupportsInParens", LAMBDA j :
                          Condition(j, "Supports", TRUE, FALSE, c)),
                      Parens(i, "SupportsInParens", LAMBDA j : TokensInParens(j, c))))
      [] At(i, {"Ident", "HashLBrace", "Placeholder"}) ->
            Then(InterpolableIdent(i, c), LAMBDA name :
                IF name.node.kind = "Ident" /\ name.node.op = "selector"
                THEN SupportsSelector(name.node, name.at, c)
                ELSE IF At(name.at, {"LParen"}) /\ Peek(name.at).glued
                THEN RawFunction(name.node, name.at)
                ELSE IF PureInterpolation(name.node) THEN Done(name.at, name.node)
                ELSE Failed(name.at, "Unexpected"))
      [] OTHER -> Failed(i, "Unexpected")

Operand(i, kind, after, c) ==
    CASE kind = "Media" -> MediaOperand(i, after, c)
      [] kind = "Style" -> StyleInParens(i, c)
      [] kind = "Container" -> QueryInParens(i, c)
      [] kind = "Supports" -> SupportsInParens(i, c)

Logic(i, kind, after, c) ==
    Then(Bump(i, "Word"), LAMBDA word :
        As(Operand(word.at, kind, after, c), LAMBDA operand :
            Span("Logic", Peek(i).text, <<word.node, operand>>)))

Chain(i, parts, kind, words, c) ==
    IF AtIdent(i, words)
    THEN Then(Logic(i, kind, TRUE, c), LAMBDA r :
             Chain(r.at, Append(parts, r.node), kind, NextWords(kind, Peek(i).text, words), c))
    ELSE Done(i, Span("Condition", kind, parts))

Condition(i, kind, or, after, c) ==
    IF AtIdent(i, {"not"})
    THEN As(Logic(i, kind, FALSE, c), LAMBDA not : Span("Condition", kind, <<not>>))
    ELSE Then(Operand(i, kind, after, c), LAMBDA first :
             Chain(first.at, <<first.node>>, kind, LogicWords(kind, or), c))

(***************************************************************************)
(* Media queries.                                                           *)
(***************************************************************************)
MediaType(i, c) ==
    Then(InterpolableIdent(i, c), LAMBDA type :
        IF type.node.kind = "Ident" /\ AtIdent(i, {"only", "not", "and", "or", "layer"})
        THEN Report(Done(type.at, type.node), i)
        ELSE Done(type.at, type.node))

AfterMediaType(i, c) ==
    Then(Bump(i, "Word"), LAMBDA and :
        As(Condition(and.at, "Media", FALSE, TRUE, c), LAMBDA condition :
            Span("Logic", "and", <<and.node, condition>>)))

QueryWithType(i, c) ==
    Then(IF AtIdent(i, {"not", "only"}) THEN Bump(i, "Word") ELSE Done(i, Nothing), LAMBDA modifier :
    Then(MediaType(modifier.at, c), LAMBDA type :
    Then(IF AtIdent(type.at, {"and"}) THEN AfterMediaType(type.at, c) ELSE Done(type.at, Nothing),
         LAMBDA condition :
            LET parts == Present(<<modifier.node, type.node, condition.node>>)
            IN  IF Len(parts) = 1 /\ At(condition.at, {"LParen"}) /\ Peek(condition.at).glued
                THEN Then(Bump(condition.at, "LParen"), LAMBDA open :
                     Then(FunctionArgs(open.at, <<>>, c), LAMBDA args :
                     As(Expect(args.at, "RParen"), LAMBDA close :
                        Node("Function", "", type.node.from, close.to,
                             <<type.node>> \o args.node.kids))))
                ELSE Done(condition.at, Span("Query", "", parts)))))

MediaQuery(i, c) ==
    Else(Condition(i, "Media", TRUE, FALSE, c),
         IF c.syntax = "Less" /\ At(i, {"AtKeyword", "Dot", "Hash"}) THEN InLess("Query", i, c)
         ELSE QueryWithType(i, c))

MediaQueryList(i, c) == Commas(i, "Queries", LAMBDA j : MediaQuery(j, c))

(***************************************************************************)
(* Raw preludes.                                                            *)
(***************************************************************************)
PreludeEnd == {"LBrace", "Indent", "Semicolon", "Dedent", "Linebreak", "Eof"}

\* try_parse_full_prelude
FullPrelude(r) ==
    Then(r, LAMBDA x : IF At(x.at, PreludeEnd) THEN Done(x.at, x.node)
                       ELSE Failed(x.at, "Unexpected"))

TokenSeq(node) == IF node.kids = <<>> THEN Nothing ELSE Span("TokenSeq", "", node.kids)

RawPrelude(i) == As(Balanced(i, <<>>, <<>>, {"Semicolon", "LBrace"}, Layout), TokenSeq)

\* try_parse_substituted_raw_prelude
SubstitutedPrelude(i, c) ==
    Then(RawPrelude(i), LAMBDA r :
        IF \E k \in i..(r.at - 1) :
              \/ IsSass(c) /\ At(k, {"HashLBrace"})
              \/ c.syntax = "Less" /\ At(k, {"AtKeyword", "AtLBraceVar"})
        THEN Done(r.at, r.node)
        ELSE Failed(i, "TryParseError"))

UnknownTokens(i, tokens) ==
    CASE At(i, PreludeEnd \cup {"RBrace"}) -> Done(i, TokenSeq(Group(tokens)))
      [] At(i, {"HashLBrace"}) -> Failed(i, "TryParseError")
      [] OTHER -> Then(Bump(i, "Token"), LAMBDA r : UnknownTokens(r.at, Append(tokens, r.node)))

\* The tokens up to a brace, whatever pairs they open; then a value; then the
\* tokens in their pairs.
UnknownPrelude(i, c) ==
    Else(UnknownTokens(i, <<>>),
         Else(FullPrelude(IF c.syntax = "Css" THEN Value(i, c) ELSE MaybeSassList(i, TRUE, c)),
              RawPrelude(i)))

(***************************************************************************)
(* Names.                                                                   *)
(***************************************************************************)
WideKeywords == {"inherit"}

\* A literal name the rule reports.
Restricted(r, Wrong(_)) ==
    Then(r, LAMBDA x : IF x.node.kind = "Ident" /\ Wrong(x.node.op)
                       THEN Report(Done(x.at, x.node), TokenAt(x.node.from))
                       ELSE Done(x.at, x.node))

DashedIdent(i, c) == Restricted(InterpolableIdent(i, c), LAMBDA name : name # "--a")

ColorProfile(i, c) ==
    Restricted(InterpolableIdent(i, c), LAMBDA name : name \notin {"--a", "device-cmyk"})

CounterStyle(i, c) ==
    Restricted(InterpolableIdent(i, c), LAMBDA name : name \in WideKeywords \cup {"none"})

KeyframesName(i, c) ==
    CASE At(i, {"Ident", "HashLBrace", "AtLBraceVar"}) ->
            Restricted(InterpolableIdent(i, c), LAMBDA name : name \in WideKeywords \cup {"default"})
      [] At(i, {"AtKeyword"}) -> Bump(i, "LessVariable")
      [] At(i, {"Tilde"}) -> EscapedStr(i)
      [] OTHER -> Expect(i, "Str")

FontFamily(i, c) ==
    IF At(i, {"Str"}) THEN Bump(i, "Str")
    ELSE Then(InterpolableIdent(i, c), LAMBDA first :
             Run(first.at, "FontFamily", <<first.node>>, {"Ident", "HashLBrace"},
                 LAMBDA j : InterpolableIdent(j, c)))

\* Names with dots between them, all touching.
LayerName(i, c) ==
    LET RECURSIVE Rest(_, _)
        Rest(j, idents) ==
            IF At(j, {"Dot"}) /\ Peek(j).glued
            THEN Then(Bump(j, "Dot"), LAMBDA dot :
                 Then(InterpolableIdent(dot.at, c), LAMBDA ident :
                    IF Peek(dot.at).glued THEN Rest(ident.at, Append(idents, ident.node))
                    ELSE Failed(dot.at, "UnexpectedWhitespaceOrComments")))
            ELSE LET wide == {k \in DOMAIN idents :
                                 idents[k].kind = "Ident" /\ idents[k].op \in WideKeywords}
                     name == Done(j, Span("LayerName", "", idents))
                 IN  IF wide = {} THEN name
                     ELSE Report(name, TokenAt(idents[CHOOSE k \in wide :
                                                          \A l \in wide : k <= l].from))
    IN  Then(InterpolableIdent(i, c), LAMBDA first : Rest(first.at, <<first.node>>))

LayerNames(i, c) == Commas(i, "LayerNames", LAMBDA j : LayerName(j, c))

PseudoPage(i, c) ==
    Then(Bump(i, "Colon"), LAMBDA colon :
        Then(InterpolableIdent(colon.at, c), LAMBDA name :
            IF ~Peek(colon.at).glued THEN Failed(colon.at, "UnexpectedWhitespaceOrComments")
            ELSE IF At(name.at, {"LParen"}) /\ Peek(name.at).glued
            THEN As(Parens(name.at, "Arg", LAMBDA j : TokensInParens(j, c)), LAMBDA arg :
                     Node("PseudoPage", "", Start(i), arg.to, <<name.node>> \o arg.kids))
            ELSE Done(name.at, Node("PseudoPage", "", Start(i), name.node.to, <<name.node>>))))

PageSelector(i, c) ==
    LET colons == {"Colon", "ColonColon"}
        RECURSIVE Rest(_, _)
        Rest(j, parts) ==
            IF At(j, colons) /\ Peek(j).glued
            THEN Then(PseudoPage(j, c), LAMBDA r : Rest(r.at, Append(parts, r.node)))
            ELSE Done(j, Span("PageSelector", "", parts))
    IN  Then(IF At(i, colons) THEN PseudoPage(i, c) ELSE InterpolableIdent(i, c), LAMBDA first :
            Rest(first.at, <<first.node>>))

PageSelectorList(i, c) == Commas(i, "PageSelectors", LAMBDA j : PageSelector(j, c))

(***************************************************************************)
(* Scopes, custom selectors, custom media, documents and namespaces.        *)
(***************************************************************************)
ScopeSelectors(i, c) ==
    Parens(i, "ScopeSelectors", LAMBDA j :
        IF At(j, {"RParen"}) THEN Done(j, Nothing) ELSE SelectorList(j, c))

ScopeEnd(i, c) ==
    Then(Bump(i, "Word"), LAMBDA to :
        As(ScopeSelectors(to.at, c), LAMBDA list : Span("ScopeEnd", "", <<to.node, list>>)))

ScopePrelude(i, c) ==
    Then(IF At(i, {"LParen"}) THEN ScopeSelectors(i, c) ELSE Done(i, Nothing), LAMBDA start :
    Then(IF AtIdent(start.at, {"to"}) THEN ScopeEnd(start.at, c) ELSE Done(start.at, Nothing),
         LAMBDA end :
            LET parts == Present(<<start.node, end.node>>)
            IN  IF parts = <<>> THEN Failed(end.at, "Unexpected")
                ELSE Done(end.at, Span("Scope", "", parts))))

CustomSelectorArgs(i) ==
    LET RECURSIVE Rest(_, _)
        Rest(j, args) ==
            IF At(j, {"RParen"}) THEN Done(j, Span("Args", "", args))
            ELSE Then(Expect(j, "DollarVar"), LAMBDA arg :
                 Then(IF At(arg.at, {"RParen"}) THEN Done(arg.at, Nothing)
                      ELSE Expect(arg.at, "Comma"),
                      LAMBDA r : Rest(r.at, Append(args, arg.node))))
    IN  Parens(i, "CustomSelectorArgs", LAMBDA j :
            IF At(j, {"RParen"}) THEN Done(j, Nothing) ELSE Rest(j, <<>>))

\* The span begins at the name, behind the colon.
CustomSelector(i, c) ==
    Then(Eat(i, "DollarVar"), LAMBDA prefix :
    Then(Expect(prefix.at, "Colon"), LAMBDA colon :
    Then(IF prefix.at > i /\ ~Peek(prefix.at).glued
         THEN Failed(prefix.at, "UnexpectedWhitespaceOrComments")
         ELSE ExpectGlued(colon.at, "Ident"),
         LAMBDA name :
    Then(IF At(name.at, {"LParen"}) THEN CustomSelectorArgs(name.at) ELSE Done(name.at, Nothing),
         LAMBDA args :
    As(SelectorList(args.at, c), LAMBDA list :
        Span("CustomSelector", "", Present(<<prefix.node, name.node, args.node>>) \o <<list>>))))))

CustomMedia(i, c) ==
    Then(DashedIdent(i, c), LAMBDA name :
        As(IF AtIdent(name.at, {"true", "false"}) THEN Bump(name.at, "Word")
           ELSE MediaQueryList(name.at, c),
           LAMBDA value : Span("CustomMedia", "", <<name.node, value>>)))

\* A url, or a function.
DocumentMatcher(i, c) ==
    IF At(i, {"Url"}) THEN Bump(i, "Url")
    ELSE Then(InterpolableIdent(i, c), LAMBDA name :
             IF Peek(name.at).glued THEN Function(name.node, name.at, c)
             ELSE Failed(name.at, "LParen"))

DocumentPrelude(i, c) ==
    LET typed == Commas(i, "Document", LAMBDA j : DocumentMatcher(j, c))
    IN  IF typed.ok \/ At(i, {"LBrace", "Indent", "Semicolon"}) THEN typed
        ELSE Else(typed, RawPrelude(i))

NamespacePrelude(i, c) ==
    LET typed ==
            Then(IF At(i, {"Ident"}) /\ ~AtIdent(i, {"url"}) THEN Bump(i, "Ident")
                 ELSE IF At(i, {"HashLBrace"}) THEN InterpolableIdent(i, c) ELSE Done(i, Nothing),
                 LAMBDA prefix :
                As(IF At(prefix.at, {"Str"}) THEN Bump(prefix.at, "Str")
                   ELSE Expect(prefix.at, "Url"),
                   LAMBDA uri : Span("Namespace", "", Present(<<prefix.node, uri>>))))
    IN  Else(typed, SubstitutedPrelude(i, c))

ContainerPrelude(i, c) ==
    LET ident == InterpolableIdent(i, c)
        name == Then(ident, LAMBDA r :
                    IF /\ r.node.kind = "Ident"
                       /\ \/ r.node.op \in {"not", "scroll-state"}
                          \/ At(r.at, {"LParen"}) /\ Peek(r.at).glued
                    THEN Failed(i, "TryParseError")
                    ELSE Done(r.at, r.node))
        condition == Condition(name.at, "Container", TRUE, FALSE, c)
    IN  IF name.ok
        THEN Then(name, LAMBDA n :
                 As(Else(condition, Done(n.at, Nothing)), LAMBDA query :
                     Span("Container", "", Present(<<n.node, query>>))))
        ELSE Else(name, As(Condition(i, "Container", TRUE, FALSE, c), LAMBDA query :
                               Span("Container", "", <<query>>)))

\* A list of queries, and what an interpolation completes, are kept raw.
ContainerRule(i, c) ==
    LET one == ContainerPrelude(i, c)
        isList == one.ok /\ At(one.at, {"Comma"})
    IN  Else(FullPrelude(one), IF isList THEN RawPrelude(i) ELSE SubstitutedPrelude(i, c))

MediaRule(i, c) ==
    LET list == FullPrelude(MediaQueryList(i, c))
    IN  Else(list,
             IF At(i, {"LBrace", "Indent"}) THEN Done(i, Nothing)
             ELSE Else(SubstitutedPrelude(i, c), MediaQueryList(i, c)))

LayerRule(i, c) == Else(LayerNames(i, c), Else(SubstitutedPrelude(i, c), Done(i, Nothing)))

(***************************************************************************)
(* Imports.                                                                 *)
(***************************************************************************)
ImportEnd == {"Semicolon", "Eof", "RBrace", "Dedent", "Linebreak"}

\* A path of Sass without quotes: the tokens that touch.
UnquotedPath(i) ==
    LET RECURSIVE Rest(_, _)
        Rest(j, tokens) ==
            IF At(j, {"Ident", "Dot", "Minus", "Solidus"}) /\ Peek(j).glued
            THEN Then(Bump(j, "Token"), LAMBDA r : Rest(r.at, Append(tokens, r.node)))
            ELSE Done(j, Span("Path", "", tokens))
    IN  Then(Bump(i, "Token"), LAMBDA first : Rest(first.at, <<first.node>>))

ImportHref(i, c) ==
    CASE At(i, {"Str", "Url"}) -> Bump(i, Peek(i).kind)
      [] c.syntax = "Sass" /\ At(i, {"Ident"}) /\ ~(At(i + 1, {"LParen"}) /\ Peek(i + 1).glued) ->
            UnquotedPath(i)
      [] IsSass(c) /\ AtIdent(i, {"url"}) ->
            Then(Bump(i, "Ident"), LAMBDA name : Function(name.node, name.at, c))
      [] OTHER -> Failed(i, "ExpectUrl")

ImportLayer(i, c) ==
    IF ~AtIdent(i, {"layer"}) THEN Done(i, Nothing)
    ELSE Then(Bump(i, "Ident"), LAMBDA word :
             IF At(word.at, {"LParen"}) /\ Peek(word.at).glued
             THEN Called(word.node, word.at, "ImportLayer", LAMBDA j : LayerName(j, c))
             ELSE Done(word.at, word.node))

ImportSupports(i, c) ==
    IF ~AtIdent(i, {"supports"}) THEN Failed(i, "TryParseError")
    ELSE Then(Bump(i, "Ident"), LAMBDA word :
             Called(word.node, word.at, "ImportSupports", LAMBDA j :
                 Else(Condition(j, "Supports", TRUE, FALSE, c), DeclarationOf(j, c))))

\* parse_structured_tail
ImportTail(i, c) ==
    Then(ImportLayer(i, c), LAMBDA layer :
    Then(Else(ImportSupports(layer.at, c), Done(layer.at, Nothing)), LAMBDA supports :
    Then(IF At(supports.at, ImportEnd) THEN Done(supports.at, Nothing)
         ELSE MediaQueryList(supports.at, c),
         LAMBDA media :
            IF At(media.at, ImportEnd)
            THEN Done(media.at, Group(Present(<<layer.node, supports.node, media.node>>)))
            ELSE Failed(media.at, "TryParseError"))))

RawImportTail(i) ==
    Then(RawValue(i, TRUE), LAMBDA r :
        IF r.at > i /\ At(r.at - 1, {"Comma"}) THEN Failed(r.at, "ExpectRule")
        ELSE Done(r.at, Group(r.node.kids)))

ImportPrelude(i, c) ==
    Then(ImportHref(i, c), LAMBDA href :
        As(Else(ImportTail(href.at, c), RawImportTail(href.at)), LAMBDA tail :
            Span("Import", "", <<href.node>> \o tail.kids)))
=============================================================================
