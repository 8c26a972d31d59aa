----------------------------- MODULE Selectors -----------------------------
(***************************************************************************)
(* Selectors: lists of complex selectors, what compounds are made of, the   *)
(* arguments of pseudo-classes and pseudo-elements, and An+B.               *)
(***************************************************************************)
EXTENDS Values, Integers

RECURSIVE SimpleSelector(_, _), CompoundRest(_, _, _), ComplexRest(_, _, _, _),
          SelectorListRest(_, _, _), CommaList(_, _, _, _), PartNames(_, _, _), ExtraCommas(_, _)

(***************************************************************************)
(* An+B.                                                                    *)
(***************************************************************************)
NthNode(from, kids) == Node("AnPlusB", "", from, kids[Len(kids)].to, kids)

WholeNumbers == {"1", "+1", "-1"}

UnsignedInt(i) ==
    IF At(i, {"Number"}) /\ Peek(i).text # "1" THEN Failed(i, "ExpectUnsignedInteger")
    ELSE Expect(i, "Number")

\* What a word says of itself: whether a number may follow, whether it has to,
\* or whether it holds one already.
NthForms ==
    [open |-> {"n", "-n", "2n"}, minus |-> {"n-", "-n-", "2n-"}, done |-> {"n-1", "-n-1", "2n-1"}]

\* What follows `n`: a sign and an unsigned number, a number, or nothing.
NthOpen(i, word, from) ==
    CASE At(i, {"Plus", "Minus"}) ->
            Then(Bump(i, "Operator"), LAMBDA sign :
                As(UnsignedInt(sign.at), LAMBDA n : NthNode(from, <<word, n>>)))
      [] At(i, {"Number"}) ->
            IF Peek(i).text \in WholeNumbers
            THEN As(Bump(i, "Number"), LAMBDA n : NthNode(from, <<word, n>>))
            ELSE Failed(i, "ExpectInteger")
      [] OTHER -> Done(i, NthNode(from, <<word>>))

\* The word at `i`; `from` is where a `+` glued to it began.
NthWord(i, from) ==
    LET text == Peek(i).text
    IN  Then(Bump(i, "Word"), LAMBDA w :
            CASE text \in NthForms.open -> NthOpen(w.at, w.node, from)
              [] text \in NthForms.minus ->
                    As(UnsignedInt(w.at), LAMBDA n : NthNode(from, <<w.node, n>>))
              [] text \in NthForms.done -> Done(w.at, NthNode(from, <<w.node>>))
              [] OTHER -> Failed(i, "InvalidAnPlusB"))

\* Behind a `+` no word has a sign of its own.
AnPlusB(i) ==
    CASE At(i, {"Dimension", "Ident"}) -> NthWord(i, Start(i))
      [] At(i, {"Plus"}) ->
            Then(Bump(i, "Operator"), LAMBDA plus :
                IF ~At(plus.at, {"Ident"}) \/ ~Peek(plus.at).glued THEN Failed(plus.at, "Ident")
                ELSE IF Peek(plus.at).text \in {"-n", "-n-", "-n-1"}
                THEN Failed(plus.at, "InvalidAnPlusB")
                ELSE NthWord(plus.at, Start(i)))
      [] OTHER -> Failed(i, "InvalidAnPlusB")

NthIndex(i) ==
    IF AtIdent(i, {"odd", "even"}) THEN Bump(i, "Ident")
    ELSE IF At(i, {"Number"})
    THEN IF Peek(i).text \in WholeNumbers THEN Bump(i, "Number") ELSE Failed(i, "ExpectInteger")
    ELSE AnPlusB(i)

(***************************************************************************)
(* Names.                                                                   *)
(***************************************************************************)
IdentStart == {"Ident", "HashLBrace", "AtLBraceVar"}

\* A name with a namespace in front: `tight` when no blank may stand in it.
BarAhead(i, tight) == At(i, {"Bar"}) /\ (tight => Peek(i).tight)

\* What follows the bar of a type selector, close to it.
AfterBar(i, prefix, from, c) ==
    IF ~(At(i, {"Ident", "HashLBrace", "Asterisk"}))
    THEN Failed(i, "ExpectTypeSelector")
    ELSE Then(IF At(i, {"Asterisk"}) THEN Bump(i, "Universal") ELSE InterpolableIdent(i, c),
              LAMBDA name :
                 IF Peek(i).tight
                 THEN Done(name.at, Node("Type", "", from, name.node.to, Append(prefix, name.node)))
                 ELSE Failed(i, "UnexpectedWhitespace"))

TypeSelector(i, c) ==
    IF At(i, {"Bar"}) THEN Then(Bump(i, "Bar"), LAMBDA r : AfterBar(r.at, <<>>, Start(i), c))
    ELSE Then(IF At(i, {"Asterisk"}) THEN Bump(i, "Universal") ELSE InterpolableIdent(i, c),
              LAMBDA r :
            IF BarAhead(r.at, TRUE)
            THEN Then(Bump(r.at, "Bar"), LAMBDA x : AfterBar(x.at, <<r.node>>, Start(i), c))
            ELSE Done(r.at, Span("Type", "", <<r.node>>)))

\* The name of an attribute, where blanks may stand.
AttributeName(i, c) ==
    CASE At(i, IdentStart) ->
            Then(InterpolableIdent(i, c), LAMBDA name :
                IF BarAhead(name.at, FALSE)
                THEN Then(Bump(name.at, "Bar"), LAMBDA bar :
                         As(InterpolableIdent(bar.at, c), LAMBDA last :
                             Span("WqName", "", <<name.node, last>>)))
                ELSE Done(name.at, name.node))
      [] At(i, {"Asterisk", "Bar"}) ->
            Then(IF At(i, {"Asterisk"}) THEN Bump(i, "Universal") ELSE Done(i, Nothing), LAMBDA r :
                Then(Expect(r.at, "Bar"), LAMBDA bar :
                    As(InterpolableIdent(bar.at, c), LAMBDA name :
                        Node("WqName", "", Start(i), name.to, <<name>>))))
      [] OTHER -> Failed(i, "ExpectWqName")

Matchers == {"Equal", "TildeEqual", "BarEqual", "CaretEqual", "DollarEqual", "AsteriskEqual"}

RawUntilBracket(i) ==
    LET end == CHOOSE k \in i..(Len(source) + 1) :
                  /\ At(k, {"RBracket", "Eof"})
                  /\ \A j \in i..(k - 1) : ~At(j, {"RBracket", "Eof"})
    IN  [Done(end, Node("TokenSeq", "", Start(i), End(end - 1), [k \in 1..(end - i) |-> Leaf(i + k - 1, "Token")]))
            EXCEPT !.work = end - i]

AttributeValue(i, c) ==
    CASE At(i, IdentStart \cup {"Placeholder"}) -> InterpolableIdent(i, c)
      [] At(i, {"Str", "Number", "Dimension"}) -> Bump(i, "Value")
      [] At(i, {"Percentage"}) /\ c.syntax = "Less" -> Bump(i, "Value")
      [] At(i, {"Tilde"}) /\ c.syntax = "Less" -> EscapedStr(i)
      [] At(i, {"RBracket"}) -> Report(Done(i, Nothing), i)
      [] OTHER -> IF c.syntax = "Css" THEN RawUntilBracket(i)
                  ELSE Failed(i, "ExpectAttributeSelectorValue")

AttributeSelector(i, c) ==
    LET Close(j, kids) ==
            As(Expect(j, "RBracket"), LAMBDA close : Node("Attribute", "", Start(i), close.to, kids))
    IN  Then(Expect(i, "LBracket"), LAMBDA open :
        Then(AttributeName(open.at, c), LAMBDA name :
            IF At(name.at, {"RBracket"}) THEN Close(name.at, <<name.node>>)
            ELSE IF ~At(name.at, Matchers) THEN Failed(name.at, "ExpectAttributeSelectorMatcher")
            ELSE Then(Bump(name.at, "Matcher"), LAMBDA matcher :
                 Then(AttributeValue(matcher.at, c), LAMBDA value :
                    IF value.node.kind = "Nothing" THEN Close(value.at, <<name.node, matcher.node>>)
                    ELSE IF At(value.at, {"Ident", "HashLBrace"})
                    THEN Then(InterpolableIdent(value.at, c), LAMBDA modifier :
                             Close(modifier.at,
                                   <<name.node, matcher.node, value.node, modifier.node>>))
                    ELSE Close(value.at, <<name.node, matcher.node, value.node>>)))))

ClassSelector(i, c) ==
    Then(Expect(i, "Dot"), LAMBDA dot :
        Then(IF c.syntax = "Css" /\ ~At(dot.at, {"Placeholder"}) THEN ExpectGlued(dot.at, "Ident")
             ELSE IF At(dot.at, {"Placeholder"}) THEN ExpectGlued(dot.at, "Placeholder")
             ELSE InterpolableIdent(dot.at, c),
             LAMBDA name :
            IF Peek(dot.at).glued
            THEN Done(name.at, Node("Class", "", Start(i), name.node.to, <<name.node>>))
            ELSE Failed(dot.at, "UnexpectedWhitespaceOrComments")))

DigitLed(i) == At(i, {"Hash"}) /\ Peek(i).text = "#1"

\* `#name`, an interpolation glued to which belongs to it; the span of such a
\* name begins at the interpolation.
IdSelector(i, c) ==
    Then(Bump(i, "IdName"), LAMBDA hash :
        LET name == [hash.node EXCEPT !.from = Start(i) + 1]
            Id(last) == Node("Id", "", Start(i), last.to, <<last>>)
        IN  CASE At(i, {"NumberSign"}) -> As(InterpolableIdent(hash.at, c), Id)
              [] At(i, {"Hash"}) /\ IsSass(c) /\ At(hash.at, {"HashLBrace"}) /\ Peek(hash.at).glued ->
                    As(InterpolableIdent(hash.at, c), LAMBDA rest :
                        Id(Node("IdName", "", rest.from, rest.to,
                                <<name>> \o (IF rest.kind = "Interpolated" THEN rest.kids ELSE <<rest>>))))
              [] OTHER -> IF DigitLed(i) THEN Report(Done(hash.at, Id(name)), i)
                          ELSE Done(hash.at, Id(name)))

\* `&`, and a word or an interpolation glued to it.
NestingSelector(i, c) ==
    Then(Expect(i, "Ampersand"), LAMBDA amp :
        Then(IF c.syntax = "Css"
             THEN IF At(amp.at, {"Ident"}) /\ Peek(amp.at).glued THEN Bump(amp.at, "Ident")
                  ELSE Done(amp.at, Nothing)
             ELSE IF At(amp.at, Interpolations(c) \cup {"Ident"}) /\ Peek(amp.at).glued
             THEN InterpolableIdent(amp.at, c)
             ELSE Done(amp.at, Nothing),
             LAMBDA suffix :
            IF suffix.node.kind = "Nothing" THEN Done(suffix.at, amp.node)
            ELSE Done(suffix.at, Span("Nesting", "", <<amp.node, suffix.node>>))))

SassPlaceholder(i, c) ==
    Then(Expect(i, "Percent"), LAMBDA percent :
        Then(InterpolableIdent(percent.at, c), LAMBDA name :
            IF Peek(percent.at).glued
            THEN Done(name.at, Node("SassPlaceholder", "", Start(i), name.node.to, <<name.node>>))
            ELSE Failed(percent.at, "UnexpectedWhitespaceOrComments")))

(***************************************************************************)
(* Compound selectors, and complex ones.                                    *)
(***************************************************************************)
Glues(i, c) ==
    /\ Peek(i).tight
    /\ \/ At(i, {"Dot", "Hash", "NumberSign", "LBracket", "Colon", "ColonColon", "Ident", "Asterisk",
                 "HashLBrace", "Bar", "Ampersand", "AtLBraceVar", "Placeholder"})
       \/ At(i, {"Percent"}) /\ IsSass(c)

CompoundRest(i, children, c) ==
    IF Glues(i, c)
    THEN Then(SimpleSelector(i, c), LAMBDA r : CompoundRest(r.at, Append(children, r.node), c))
    ELSE Done(i, Span("Compound", "", children))

CompoundSelector(i, c) ==
    Then(SimpleSelector(i, c), LAMBDA r : CompoundRest(r.at, <<r.node>>, c))

Combinators == {"GreaterThan", "Plus", "Tilde", "BarBar"}

StartsCompound ==
    {"Ident", "Dot", "Hash", "Colon", "ColonColon", "LBracket", "Asterisk", "Ampersand", "Bar",
     "AtLBraceVar", "NumberSign", "HashLBrace", "Percent", "Placeholder"}

Slashed(i) ==
    Then(Bump(i, "Solidus"), LAMBDA open :
        Then(ExpectGlued(open.at, "Ident"), LAMBDA name :
            As(ExpectGlued(name.at, "Solidus"), LAMBDA close :
                Node("Combinator", "/", Start(i), close.to, <<name.node>>))))

Caret(i) == At(i, {"Unknown"}) /\ Peek(i).text = "^"

\* Mutant of Combinator: a blank in front of a combinator is one of its own.
CombinatorOfBlank(i, pos, c) ==
    CASE At(i, StartsCompound \cup Combinators) /\ pos < Start(i) ->
            Done(i, Node("Gap", "", pos, Start(i), <<>>))
      [] At(i, Combinators) -> Bump(i, "Combinator")
      [] OTHER -> Done(i, Nothing)

\* A combinator behind what ends at `pos`, if there is one.
Combinator(i, pos, c) ==
    CASE At(i, StartsCompound) /\ pos < Start(i) ->
            Done(i, Node("Gap", "", pos, Start(i), <<>>))
      [] At(i, Combinators) -> Bump(i, "Combinator")
      [] At(i, {"Solidus"}) /\ ~IsSass(c) -> Else(Slashed(i), Done(i, Nothing))
      [] Caret(i) /\ ~IsSass(c) ->
            Then(Bump(i, "Combinator"), LAMBDA r :
                IF Caret(r.at) /\ Peek(r.at).glued
                THEN As(Bump(r.at, "Combinator"), LAMBDA last :
                         Node("Combinator", "^^", Start(i), last.to, <<>>))
                ELSE Done(r.at, r.node))
      [] OTHER -> Done(i, Nothing)

Descends(node) == node.kind = "Gap"

IsCombinator(node) == node.kind = "Combinator" \/ Descends(node)

\* Compounds and combinators in turn; where a combinator ends the selector, the
\* span ends before it.
ComplexRest(i, children, end, c) ==
    LET last == children[Len(children)]
        Stop == Done(i, Node(IF IsCombinator(last) THEN "Dangling" ELSE "Complex", "",
                             children[1].from, end, children))
    IN  IF At(i, {"LBrace", "Indent", "Linebreak"}) THEN Stop
        ELSE IF IsCombinator(last)
        THEN IF IsSass(c) /\ At(i, Combinators)
             THEN Then(Combinator(i, end, c), LAMBDA r :
                      ComplexRest(r.at, Append(children, r.node), r.node.to, c))
             ELSE IF IsSass(c) /\ At(i, {"RParen", "Comma", "RBrace", "Eof"}) THEN Stop
             ELSE Then(CompoundSelector(i, c), LAMBDA r :
                      ComplexRest(r.at, Append(children, r.node), r.node.to, c))
        ELSE Then(Combinator(i, end, c), LAMBDA r :
                 IF \/ r.node.kind = "Nothing"
                    \/ c.syntax = "Less" /\ Descends(r.node) /\ AtIdent(r.at, {"when"})
                 THEN Done(r.at, Stop.node)
                 ELSE ComplexRest(r.at, Append(children, r.node), end, c))

ComplexSelector(i, c) ==
    Then(IF At(i, Combinators) THEN Combinator(i, Start(i), c) ELSE CompoundSelector(i, c),
         LAMBDA r : ComplexRest(r.at, <<r.node>>, r.node.to, c))

\* A combinator may stand in front; the blank before a selector is none.
RelativeSelector(i, c) ==
    Then(Combinator(i, End(i - 1), c), LAMBDA lead :
        As(ComplexSelector(lead.at, c), LAMBDA selector :
            IF lead.node.kind = "Nothing" \/ Descends(lead.node)
            THEN Span("Relative", "", <<selector>>)
            ELSE Span("Relative", "", <<lead.node, selector>>)))

(***************************************************************************)
(* Extensions of Less.                                                      *)
(***************************************************************************)
IsAll(node) ==
    /\ node.kind = "Compound"
    /\ Len(node.kids) = 1
    /\ node.kids[1].kind = "Type"
    /\ Len(node.kids[1].kids) = 1
    /\ node.kids[1].kids[1].kind = "Ident"
    /\ node.kids[1].kids[1].op = "all"

\* `selector all`: the last compound is taken off the selector.
LessExtend(i, c) ==
    As(ComplexSelector(i, c), LAMBDA selector :
        LET kids == selector.kids
            n == Len(kids)
        IN  IF n > 2 /\ IsAll(kids[n]) /\ Descends(kids[n - 1])
            THEN Node("Extend", "all", selector.from, selector.to,
                      <<Node("Complex", "", selector.from, kids[n - 2].to, SubSeq(kids, 1, n - 2)),
                        kids[n].kids[1].kids[1]>>)
            ELSE Span("Extend", "", <<selector>>))

(***************************************************************************)
(* Lists.                                                                   *)
(***************************************************************************)
Element(i, kind, c) ==
    CASE kind = "Compound" -> CompoundSelector(i, c)
      [] kind = "Relative" -> RelativeSelector(i, c)
      [] kind = "Extend" -> LessExtend(i, c)
      [] kind = "Language" -> IF At(i, {"Str"}) THEN Bump(i, "Str") ELSE InterpolableIdent(i, c)

CommaList(i, kind, items, c) ==
    Then(Element(i, kind, c), LAMBDA r :
        LET list == Append(items, r.node)
        IN  IF ~At(r.at, {"Comma"}) THEN Done(r.at, Span("List", kind, list))
            ELSE Then(Bump(r.at, "Comma"), LAMBDA comma :
                 Then(IF kind = "Compound" THEN LineContinuation(comma.at, c)
                      ELSE Done(comma.at, Nothing),
                      LAMBDA x : CommaList(x.at, kind, list, c))))

ExtraCommas(i, list) ==
    IF At(i, {"Comma"})
    THEN Then(Bump(i, "Comma"), LAMBDA r :
             ExtraCommas(r.at, [list EXCEPT !.commas = @ + 1, !.end = r.node.to]))
    ELSE Done(i, list)

\* `list`: the selectors, how many commas, and where the list ends.
SelectorListRest(i, list, c) ==
    LET Finish(j, l) ==
            DebugAssert(Done(j, Node("SelectorList", "", l.items[1].from, l.end, l.items)),
                   IF c.syntax = "Css" THEN Len(l.items) = l.commas + 1
                   ELSE Len(l.items) <= l.commas + 1,
                   "commas")
        Trailing(j) == c.syntax # "Css" /\ At(j, {"LBrace", "Indent", "Linebreak"})
        More(j, l) ==
            Then(ComplexSelector(j, c), LAMBDA r :
                SelectorListRest(r.at, [l EXCEPT !.items = Append(@, r.node), !.end = r.node.to], c))
    IN  IF ~At(i, {"Comma"}) THEN Finish(i, list)
        ELSE Then(IF c.syntax = "Scss" THEN ExtraCommas(i, list)
                  ELSE Then(Bump(i, "Comma"), LAMBDA r :
                           Done(r.at, [list EXCEPT !.commas = @ + 1, !.end = r.node.to])),
                  LAMBDA r :
                IF c.syntax = "Sass" /\ At(r.at, {"Indent"})
                THEN Then(LineContinuation(r.at, c), LAMBDA x : More(x.at, r.node))
                ELSE IF Trailing(r.at) THEN Finish(r.at, r.node)
                ELSE More(r.at, r.node))

SelectorList(i, c) ==
    Then(ComplexSelector(i, c), LAMBDA r :
        SelectorListRest(r.at, [items |-> <<r.node>>, commas |-> 0, end |-> r.node.to], c))

(***************************************************************************)
(* What pseudo-classes and pseudo-elements take.                            *)
(***************************************************************************)
\* parse_tokens_in_parens
TokensInParens(i, c) ==
    Then(Balanced(i, <<>>, <<>>, {}, IF c.syntax = "Css" THEN {} ELSE {"Unknown"}), LAMBDA r :
        IF At(r.at, {"Unknown"}) THEN Failed(r.at, "UnknownToken")
        ELSE IF r.at = i THEN Done(i, Nothing)
        ELSE Done(r.at, Span("TokenSeq", "", r.node.kids)))

\* `of`, and what it matches, which may be missing before the parenthesis.
NthMatcher(i, c) ==
    Then(Bump(i, "Ident"), LAMBDA word :
        IF At(word.at, {"RParen"}) THEN Done(word.at, Span("NthMatcher", "", <<word.node>>))
        ELSE As(SelectorList(word.at, c), LAMBDA list :
                 Span("NthMatcher", "", <<word.node, list>>)))

Nth(i, c) ==
    Then(NthIndex(i), LAMBDA index :
        IF AtIdent(index.at, {"of"})
        THEN As(NthMatcher(index.at, c), LAMBDA matcher :
                 Span("Nth", "", <<index.node, matcher>>))
        ELSE Done(index.at, Span("Nth", "", <<index.node>>)))

NthArgument(i, matches, c) ==
    LET Checked(r) == IF r.ok /\ ~matches /\ Len(r.node.kids) = 2 THEN Report(r, i) ELSE r
    IN  IF c.syntax = "Css" THEN Checked(Nth(i, c))
        ELSE Else(Checked(Nth(i, c)), TokensInParens(i, c))

PseudoClassArgument(name, i, c) ==
    CASE name = "nth-child" -> NthArgument(i, TRUE, c)
      [] name = "nth-col" -> NthArgument(i, FALSE, c)
      [] name \in {"not", "host"} -> SelectorList(i, c)
      [] name = "has" -> CommaList(i, "Relative", <<>>, c)
      [] name = "dir" -> InterpolableIdent(i, c)
      [] name = "lang" -> CommaList(i, "Language", <<>>, c)
      [] name = "current" -> CommaList(i, "Compound", <<>>, c)
      [] name = "extend" /\ c.syntax = "Less" -> CommaList(i, "Extend", <<>>, c)
      [] OTHER -> TokensInParens(i, c)

PartNames(i, parts, c) ==
    IF At(i, IdentStart)
    THEN Then(InterpolableIdent(i, c), LAMBDA r : PartNames(r.at, Append(parts, r.node), c))
    ELSE Done(i, Span("IdentList", "", parts))

PseudoElementArgument(name, i, c) ==
    CASE name = "part" ->
            Then(InterpolableIdent(i, c), LAMBDA r : PartNames(r.at, <<r.node>>, c))
      [] name = "cue" -> CompoundSelector(i, c)
      [] name = "slotted" -> CommaList(i, "Compound", <<>>, c)
      [] OTHER -> TokensInParens(i, c)

\* The colons, a name with no blank in front, and what is in the parentheses
\* that touch the name.
Pseudo(i, kind, Take(_, _), c) ==
    Then(Bump(i, "Colon"), LAMBDA colon :
        Then(InterpolableIdent(colon.at, c), LAMBDA r :
            LET name == r.node
                literal == IF name.kind = "Ident" THEN name.op ELSE ""
            IN  IF ~Peek(colon.at).tight THEN Failed(colon.at, "UnexpectedWhitespace")
                ELSE IF ~(At(r.at, {"LParen"}) /\ Start(r.at) = name.to)
                THEN Done(r.at, Node(kind, literal, Start(i), name.to, <<name>>))
                ELSE Then(Bump(r.at, "LParen"), LAMBDA open :
                     Then(Take(literal, open.at), LAMBDA arg :
                        As(Expect(arg.at, "RParen"), LAMBDA close :
                            Node(kind, literal, Start(i), close.to,
                                 IF arg.node.kind = "Nothing" THEN <<name>>
                                 ELSE <<name, arg.node>>))))))

PseudoClass(i, c) == Pseudo(i, "PseudoClass", LAMBDA n, j : PseudoClassArgument(n, j, c), c)

PseudoElement(i, c) == Pseudo(i, "PseudoElement", LAMBDA n, j : PseudoElementArgument(n, j, c), c)

SimpleSelector(i, c) ==
    CASE At(i, {"Dot"}) -> ClassSelector(i, c)
      [] At(i, {"Hash", "NumberSign"}) -> IdSelector(i, c)
      [] At(i, {"LBracket"}) -> AttributeSelector(i, c)
      [] At(i, {"Colon"}) -> PseudoClass(i, c)
      [] At(i, {"ColonColon"}) -> PseudoElement(i, c)
      [] At(i, {"Ident", "Asterisk", "HashLBrace", "Bar", "AtLBraceVar"}) -> TypeSelector(i, c)
      [] At(i, {"Ampersand"}) -> NestingSelector(i, c)
      [] At(i, {"Percent"}) /\ c.syntax # "Less" -> SassPlaceholder(i, c)
      [] At(i, {"Placeholder"}) ->
            As(InterpolableIdent(i, c), LAMBDA name : Span("Type", "", <<name>>))
      [] OTHER -> Failed(i, "ExpectSimpleSelector")

\* The rule `&:extend(...);` of Less: an `&` alone, and the pseudo-class glued
\* to it.
LessExtendRule(i, c) ==
    Then(NestingSelector(i, c), LAMBDA nesting :
        IF nesting.node.kind = "Nesting" THEN Failed(i, "ExpectLessExtendRule")
        ELSE Then(IF At(nesting.at, {"Colon"}) THEN PseudoClass(nesting.at, c)
                  ELSE Failed(nesting.at, "Colon"),
                  LAMBDA r :
                IF ~Peek(nesting.at).glued THEN Failed(nesting.at, "UnexpectedWhitespaceOrComments")
                ELSE IF r.node.op = "extend" /\ Len(r.node.kids) = 2
                THEN Done(r.at, Span("ExtendRule", "", <<nesting.node, r.node>>))
                ELSE Failed(i, "ExpectLessExtendRule")))

(***************************************************************************)
(* Reading a selector.                                                      *)
(***************************************************************************)
InSelector(c) == [c EXCEPT !.rule = "Selector"]

(***************************************************************************)
(* Properties.                                                              *)
(***************************************************************************)
\* Where the selectors of a list, the combinators of a selector and the simple
\* selectors of a compound begin follows from the blanks alone: two compounds
\* stand next to each other nowhere, and a gap is a combinator of its own only
\* where no other one is.
OneCombinatorBetween ==
    Accepted =>
        \A node \in Nodes(result.node) :
            node.kind \in {"Complex", "Dangling"} =>
                \A k \in 2..Len(node.kids) :
                    LET left == node.kids[k - 1]
                        right == node.kids[k]
                    IN  /\ IsCombinator(left) \/ IsCombinator(right)
                        /\ Descends(left) => ~IsCombinator(right)
                        /\ Descends(right) => ~IsCombinator(left)
=============================================================================
