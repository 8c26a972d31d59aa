------------------------------- MODULE Values -------------------------------
(***************************************************************************)
(* Component values: lists, the maps and operators of SassScript,           *)
(* calculations, functions and their arguments.  What only Less has is in   *)
(* LessGrammar.                                                             *)
(*                                                                         *)
(* A context `c` is the part of ParserState the grammars depend on:         *)
(* `syntax`, the flags `div` (SASS_CTX_ALLOW_DIV), `parens`                 *)
(* (SASS_CTX_IN_PARENS) and `function` (SASS_CTX_IN_FUNCTION), `rule`       *)
(* (qualified_rule_ctx), the marks `statement`, `keyframes`,                *)
(* `keyframeBlock` and `fnBody` of the statement it stands in, where that   *)
(* begins (`from`), and the Indents pending there (`owed`).                 *)
(***************************************************************************)
EXTENDS Grammar

CONSTANTS
    NestedProperties(_, _),     \* a block of properties, in Statements
    InLess(_, _, _)             \* what only Less reads, in LessGrammar

RECURSIVE MaybeSassList(_, _, _), ListTail(_, _, _), BinExpr(_, _, _, _),
          BinTail(_, _, _, _, _), Unary(_, _), Atom(_, _), FunctionArgs(_, _, _),
          InvocationArgs(_, _, _), MapItems(_, _, _), CalcExpr(_, _, _, _),
          CalcTail(_, _, _, _, _), MulTail(_, _, _, _), CalcArgs(_, _, _, _),
          BracketValues(_, _, _), IdentRest(_, _, _)

IsSass(c) == c.syntax \in {"Scss", "Sass"}

Value(i, c) ==
    CASE IsSass(c) -> BinExpr(i, 1, TRUE, c)
      [] c.syntax = "Less" -> InLess("Value", i, c)
      [] c.syntax = "Css" -> Atom(i, c)

(***************************************************************************)
(* Lists.  `list` is the loop's state: the elements, how many commas, the   *)
(* separator, and where the list ends.                                      *)
(***************************************************************************)
ImportantAnnotation(i, c) ==
    Then(Expect(i, "Exclamation"), LAMBDA bang :
        Then(LineContinuation(bang.at, c), LAMBDA r :
            IF AtIdent(r.at, {"important"})
            THEN As(Bump(r.at, "Important"),
                    LAMBDA word : Node("Important", "", Start(i), word.to, <<word>>))
            ELSE Failed(r.at, "ExpectImportantAnnotation")))

ListEnd ==
    {"LBrace", "RBrace", "RParen", "Semicolon", "Colon", "DotDotDot", "Eof"}

FinishList(i, list) ==
    IF Len(list.items) = 1 /\ list.sep # "Comma"
    THEN Done(i, list.items[1])
    ELSE DebugAssert(Done(i, Node("List", list.sep, list.items[1].from, list.end, list.items)),
                list.sep # "Unknown", "separator")

MaybeSassList(i, allowComma, c) ==
    Then(IF allowComma THEN MaybeSassList(i, FALSE, c)
         ELSE IF At(i, {"Exclamation"}) THEN ImportantAnnotation(i, c)
         ELSE Value(i, c),
         LAMBDA r : ListTail(r.at, [items |-> <<r.node>>, commas |-> 0, sep |-> "Unknown",
                                    end |-> r.node.to, comma |-> allowComma], c))

\* Mutant of Extend: the list ends where it ended before.
ExtendKeepsEnd(list, node, sep) == [list EXCEPT !.items = Append(@, node), !.sep = sep]

Extend(list, node, sep) ==
    [list EXCEPT !.items = Append(@, node), !.sep = sep, !.end = node.to]

ListTail(i, list, c) ==
    CASE At(i, ListEnd) -> FinishList(i, list)
      [] At(i, Layout) ->
            IF list.commas = 0 \/ ~c.parens THEN FinishList(i, list)
            ELSE Then(Bump(i, "Layout"), LAMBDA r : ListTail(r.at, list, c))
      [] At(i, {"Comma"}) ->
            IF ~list.comma \/ list.sep = "Space" THEN FinishList(i, list)
            ELSE Then(Bump(i, "Comma"), LAMBDA r :
                     ListTail(r.at, [list EXCEPT !.commas = @ + 1, !.sep = "Comma",
                                                 !.end = r.node.to], c))
      [] At(i, {"Exclamation"}) ->
            LET r == ImportantAnnotation(i, c)
                sep == IF list.end < r.node.from /\ list.sep = "Unknown" THEN "Space" ELSE list.sep
            IN  IF r.ok THEN Then(r, LAMBDA x : ListTail(x.at, Extend(list, x.node, sep), c))
                ELSE Else(r, FinishList(i, list))
      [] OTHER ->
            LET sep == IF list.sep = "Unknown" THEN "Space" ELSE list.sep
            IN  Then(IF sep = "Comma" THEN MaybeSassList(i, FALSE, c) ELSE Value(i, c),
                     LAMBDA r : ListTail(r.at, Extend(list, r.node, sep), c))

(***************************************************************************)
(* Binary and unary operators.                                              *)
(***************************************************************************)
Multiply == 6
Plus == 5

\* Mutant of Tier: sums bind as products do.
TierFlat(i, cmp) ==
    CASE At(i, {"Asterisk", "Plus", "Minus"}) -> Multiply
      [] At(i, {"GreaterThan", "GreaterThanEqual", "LessThan", "LessThanEqual"}) /\ cmp -> 4
      [] At(i, {"EqualEqual", "ExclamationEqual"}) -> 3
      [] AtIdent(i, {"and"}) -> 2
      [] AtIdent(i, {"or"}) -> 1
      [] OTHER -> 0

\* The operators but `/` and `%`, by tier.
Tier(i, cmp) ==
    CASE At(i, {"Asterisk"}) -> Multiply
      [] At(i, {"Plus", "Minus"}) -> Plus
      [] At(i, {"GreaterThan", "GreaterThanEqual", "LessThan", "LessThanEqual"}) /\ cmp -> 4
      [] At(i, {"EqualEqual", "ExclamationEqual"}) -> 3
      [] AtIdent(i, {"and"}) -> 2
      [] AtIdent(i, {"or"}) -> 1
      [] OTHER -> 0

\* A `/` divides in parentheses, and behind what only an expression can be.
Divides(left, c) ==
    c.div \/ left.kind \in {"Parenthesized", "Binary", "Unary", "Variable", "Function",
                            "QualifiedName"}

OperatorTier(i, left, cmp, c) ==
    IF At(i, {"Solidus"}) THEN (IF Divides(left, c) THEN Multiply ELSE 0) ELSE Tier(i, cmp)

Binary(left, op, right) == Span("Binary", op, <<left, right>>)

\* A number whose sign the tokenizer took for its own: `+1`, or `-1` glued to
\* the operand.
Signed(i) == At(i, {"Number", "Dimension"}) /\ Peek(i).text \in {"+1", "-1", "+1px", "-1px"}

IsPlus(i) == Peek(i).text \in {"+1", "+1px"}

SignedOperand(i, left) == Signed(i) /\ (IsPlus(i) \/ Start(i) = left.to)

Unsigned(i) == [Leaf(i, Peek(i).kind) EXCEPT !.from = Start(i) + 1]

SignOf(i) == IF IsPlus(i) THEN "Plus" ELSE "Minus"

IsDelimiter(node) == node.kind = "Delimiter"

BinExpr(i, min, cmp, c) ==
    Then(Unary(i, c), LAMBDA r :
        IF IsDelimiter(r.node) THEN Done(r.at, r.node) ELSE BinTail(r.at, r.node, min, cmp, c))

Modulo(i, cmp, c) ==
    Then(Bump(i, "Percent"), LAMBDA r :
        Then(LineContinuation(r.at, c), LAMBDA x : BinExpr(x.at, Multiply + 1, cmp, c)))

BinTail(i, left, min, cmp, c) ==
    LET tier == OperatorTier(i, left, cmp, c)
    IN
    IF Plus >= min /\ SignedOperand(i, left)
    THEN Then(Bump(i, "Number"), LAMBDA r :
             BinTail(r.at, Binary(left, SignOf(i), Unsigned(i)), min, cmp, c))
    ELSE IF At(i, {"Percent"}) /\ Multiply >= min
    THEN LET right == Modulo(i, cmp, c)
         IN  IF right.ok
             THEN Then(right, LAMBDA r : BinTail(r.at, Binary(left, "Percent", r.node), min, cmp, c))
             ELSE Else(right, Done(i, left))
    ELSE IF tier # 0 /\ tier >= min
    THEN Then(Bump(i, "Operator"), LAMBDA op :
             Then(LineContinuation(op.at, c), LAMBDA x :
                 Then(BinExpr(x.at, tier + 1, cmp, c), LAMBDA right :
                     IF IsDelimiter(right.node) THEN Failed(i, "ExpectSassExpression")
                     ELSE BinTail(right.at, Binary(left, Peek(i).text, right.node), min, cmp, c))))
    ELSE Done(i, left)

Unary(i, c) ==
    IF At(i, {"Percent"}) THEN Bump(i, "Token")
    ELSE IF At(i, {"Plus", "Minus"}) \/ AtIdent(i, {"not"})
    THEN Then(Bump(i, "Operator"), LAMBDA op :
             Then(LineContinuation(op.at, c), LAMBDA x :
                 As(Unary(x.at, c),
                    LAMBDA expr : Node("Unary", Peek(i).text, Start(i), expr.to, <<expr>>))))
    ELSE Atom(i, c)

(***************************************************************************)
(* Parentheses: an expression, or else a map.                               *)
(***************************************************************************)
Parenthesized(i, c) ==
    Parens(i, "Parenthesized", LAMBDA j :
        Then(Eat(j, "Indent"), LAMBDA x :
            MaybeSassList(x.at, TRUE, [c EXCEPT !.div = TRUE, !.parens = TRUE])))

MapItem(i, c) ==
    Then(MaybeSassList(i, FALSE, c), LAMBDA key :
        Then(Expect(key.at, "Colon"), LAMBDA colon :
            As(MaybeSassList(colon.at, FALSE, c), LAMBDA value :
                Span("MapItem", "", <<key.node, value>>))))

MapItems(i, items, c) ==
    CASE At(i, {"RParen"}) -> Done(i, Node("Items", "", 0, 0, items))
      [] At(i, Layout) -> Then(Bump(i, "Layout"), LAMBDA r : MapItems(r.at, items, c))
      [] OTHER ->
            Then(MapItem(i, c), LAMBDA item :
                Then(IF At(item.at, Layout) THEN Bump(item.at, "Layout") ELSE Done(item.at, Nothing),
                     LAMBDA r :
                Then(IF At(r.at, {"RParen"}) THEN Done(r.at, Nothing) ELSE Expect(r.at, "Comma"),
                     LAMBDA x : MapItems(x.at, Append(items, item.node), c))))

Map(i, c) ==
    Then(Expect(i, "LParen"), LAMBDA open :
        Then(MapItems(open.at, <<>>, c), LAMBDA r :
            As(Expect(r.at, "RParen"), LAMBDA close :
                Node("Map", "", Start(i), close.to, r.node.kids))))

(***************************************************************************)
(* Identifiers with interpolations.                                         *)
(***************************************************************************)
InterpolationElement(i, c) ==
    IF At(i, {"Placeholder", "AtLBraceVar", "DollarLBraceVar"}) THEN Bump(i, Peek(i).kind)
    ELSE Then(Expect(i, "HashLBrace"), LAMBDA open :
             Then(MaybeSassList(open.at, TRUE, c), LAMBDA expr :
                 As(Expect(expr.at, "RBrace"), LAMBDA close :
                     Node("Interpolation", "", Start(i), close.to, <<expr.node>>))))

\* What may be interpolated; nothing is in a Css identifier, nor in a Less one
\* that stands in the value of a declaration.
Interpolations(c) ==
    CASE IsSass(c) -> {"HashLBrace", "Placeholder"}
      [] c.syntax = "Less" /\ c.rule = "Name" -> {"AtLBraceVar", "DollarLBraceVar"}
      [] c.syntax = "Less" /\ c.rule \in {"None", "Selector"} -> {"AtLBraceVar"}
      [] OTHER -> {}

IdentRest(i, parts, c) ==
    IF At(i, {"Ident"}) /\ Peek(i).glued
    THEN Then(Bump(i, "Ident"), LAMBDA r : IdentRest(r.at, Append(parts, r.node), c))
    ELSE IF At(i, Interpolations(c)) /\ Peek(i).glued
    THEN Then(InterpolationElement(i, c), LAMBDA r : IdentRest(r.at, Append(parts, r.node), c))
    ELSE IF Len(parts) = 1 /\ parts[1].kind \in {"Ident", "Placeholder"} THEN Done(i, parts[1])
    ELSE Done(i, Span("Interpolated", "", parts))

InterpolableIdent(i, c) ==
    IF Interpolations(c) = {} THEN Expect(i, "Ident")
    ELSE IF At(i, Interpolations(c) \cup {"Ident"})
    THEN Then(IF At(i, {"Ident"}) THEN Bump(i, "Ident") ELSE InterpolationElement(i, c),
              LAMBDA r : IdentRest(r.at, <<r.node>>, c))
    ELSE Failed(i, "ExpectOneOf")

(***************************************************************************)
(* Arguments.                                                               *)
(***************************************************************************)
Group(nodes) == Node("Group", "", 0, 0, nodes)

\* What may follow a value read as an argument of Scss: `...`, or, behind a
\* variable, a colon and the value it names.
Argument(r, Next(_)) ==
    Then(r, LAMBDA v :
        IF At(v.at, {"DotDotDot"})
        THEN As(Bump(v.at, "DotDotDot"),
                LAMBDA dots : Node("Spread", "", v.node.from, dots.to, <<v.node>>))
        ELSE IF v.node.kind = "Variable" /\ At(v.at, {"Colon"})
        THEN Then(Bump(v.at, "Colon"), LAMBDA colon :
                 As(Next(colon.at), LAMBDA value : Span("Keyword", "", <<v.node, value>>)))
        ELSE Done(v.at, v.node))

\* Arguments separated by commas: `args` holds the values and the commas.
InvocationArgs(i, args, c) ==
    CASE At(i, {"RParen", "Eof"}) ->
            DebugAssert(Done(i, Group(<<Group(args.values), Group(args.commas)>>)),
                        Len(args.values) - Len(args.commas) \in {0, 1}, "commas of arguments")
      [] At(i, {"Comma"}) ->
            Then(Report(Bump(i, "Comma"), i), LAMBDA r : InvocationArgs(r.at, args, c))
      [] OTHER ->
            Then(Argument(MaybeSassList(i, FALSE, c), LAMBDA j : MaybeSassList(j, FALSE, c)),
                 LAMBDA arg :
                LET values == Append(args.values, arg.node)
                IN  IF At(arg.at, {"RParen", "Eof"})
                    THEN InvocationArgs(arg.at, [args EXCEPT !.values = values], c)
                    ELSE Then(Expect(arg.at, "Comma"), LAMBDA r :
                             InvocationArgs(r.at, [values |-> values,
                                                   commas |-> Append(args.commas, r.node)], c)))

NoArgs == [values |-> <<>>, commas |-> <<>>]

\* Arguments that are a run of values and delimiters; what is no value is
\* kept as a token.
FunctionArgs(i, args, c) ==
    CASE At(i, {"RParen", "Eof"}) -> Done(i, Group(args))
      [] At(i, {"Semicolon"}) ->
            Then(Bump(i, "Delimiter"), LAMBDA r : FunctionArgs(r.at, Append(args, r.node), c))
      [] At(i, {"Exclamation"}) /\ IsSass(c) ->
            Then(ImportantAnnotation(i, c), LAMBDA r :
                FunctionArgs(r.at, Append(args, r.node), c))
      [] At(i, Layout) -> Then(Bump(i, "Layout"), LAMBDA r : FunctionArgs(r.at, args, c))
      [] At(i, {"Unknown"}) /\ c.syntax # "Css" -> Failed(i, "UnknownToken")
      [] At(i, {"LBrace", "Dot", "NumberSign"}) /\ c.syntax = "Less" ->
            Then(InLess("Argument", i, c), LAMBDA r :
                FunctionArgs(r.at, Append(args, r.node), c))
      [] OTHER ->
            LET value == Value(i, c)
            IN  Then(IF ~value.ok THEN Else(value, Bump(i, "Token"))
                     ELSE IF IsSass(c) THEN Argument(value, LAMBDA j : Value(j, c))
                     ELSE value,
                     LAMBDA r : FunctionArgs(r.at, Append(args, r.node), c))

(***************************************************************************)
(* Calculations.  `tier` is 0, PRECEDENCE_PLUS or PRECEDENCE_MULTIPLY, and  *)
(* one more for the operand of a product.                                   *)
(***************************************************************************)
CalcPlus == 1
CalcMultiply == 2

Calc(left, op, right) == Span("Calc", op, <<left, right>>)

\* A unary sign has to be glued to a parenthesis.
CalcOperand(i, modulo, c) ==
    IF At(i, {"LParen"})
    THEN Parens(i, "CalcParenthesized", LAMBDA j : CalcExpr(j, 0, modulo, c))
    ELSE IF IsSass(c) /\ At(i, {"Plus", "Minus"}) /\ At(i + 1, {"LParen"}) /\ Peek(i + 1).glued
    THEN Then(Bump(i, "Operator"), LAMBDA op :
             As(CalcExpr(op.at, CalcMultiply, modulo, c),
                LAMBDA expr : Node("Unary", Peek(i).text, Start(i), expr.to, <<expr>>)))
    ELSE IF c.syntax = "Less" /\ At(i, {"Minus"}) THEN InLess("Negative", i, c)
    ELSE Atom(i, c)

CalcExpr(i, tier, modulo, c) ==
    Then(IF tier >= CalcMultiply THEN CalcOperand(i, modulo, c)
         ELSE CalcExpr(i, tier + 1, modulo, c),
         LAMBDA left :
        IF /\ tier = CalcPlus
           /\ IsSass(c)
           /\ left.node.kind = "Function"
           /\ Signed(left.at)
           /\ Peek(left.at).glued
        THEN Then(Bump(left.at, "Number"), LAMBDA n :
                 Then(MulTail(n.at, Unsigned(left.at), modulo, c), LAMBDA right :
                     CalcTail(right.at, Calc(left.node, SignOf(left.at), right.node), tier, modulo,
                              c)))
        ELSE CalcTail(left.at, left.node, tier, modulo, c))

MulOperator(i, modulo) ==
    At(i, {"Asterisk", "Solidus"}) \/ (At(i, {"Percent"}) /\ modulo)

CalcTail(i, left, tier, modulo, c) ==
    IF \/ tier = CalcMultiply /\ MulOperator(i, modulo)
       \/ tier = CalcPlus /\ At(i, {"Plus", "Minus"})
    THEN Then(Bump(i, "Operator"), LAMBDA op :
             Then(CalcExpr(op.at, tier + 1, modulo, c), LAMBDA right :
                 CalcTail(right.at, Calc(left, Peek(i).text, right.node), tier, modulo, c)))
    ELSE Done(i, left)

\* The product that a split-off sign belongs to.
MulTail(i, left, modulo, c) ==
    IF MulOperator(i, modulo)
    THEN Then(Bump(i, "Operator"), LAMBDA op :
             Then(CalcExpr(op.at, CalcMultiply + 1, modulo, c), LAMBDA right :
                 MulTail(right.at, Calc(left, Peek(i).text, right.node), modulo, c)))
    ELSE Done(i, left)

Spreads(args, modulo, c) ==
    /\ modulo
    /\ IsSass(c)
    /\ args # <<>>
    /\ \A k \in DOMAIN args : args[k].kind # "Spread"

CalcArgs(i, args, modulo, c) ==
    CASE At(i, {"RParen"}) -> Done(i, Group(args))
      [] At(i, {"Comma"}) ->
            Then(Bump(i, "Delimiter"), LAMBDA r : CalcArgs(r.at, Append(args, r.node), modulo, c))
      [] At(i, {"DotDotDot"}) /\ Spreads(args, modulo, c) ->
            LET last == args[Len(args)]
            IN  Then(Bump(i, "DotDotDot"), LAMBDA r :
                    CalcArgs(r.at, [args EXCEPT ![Len(args)] =
                                        Node("Spread", "", last.from, r.node.to, <<last>>)],
                             modulo, c))
      [] OTHER ->
            Then(CalcExpr(i, 0, modulo, c), LAMBDA r :
                CalcArgs(r.at, Append(args, r.node), modulo, c))

(***************************************************************************)
(* Functions.                                                               *)
(***************************************************************************)
CalcNames == {"calc", "max"}

\* The values and the commas of a call, in turn.
Interleave(values, commas) ==
    LET With(k) == IF k > 1 /\ k - 1 \in DOMAIN commas THEN <<commas[k - 1], values[k]>>
                   ELSE <<values[k]>>
        upTo[k \in 0..Len(values)] == IF k = 0 THEN <<>> ELSE upTo[k - 1] \o With(k)
    IN  upTo[Len(values)]

\* A calculation that is none is a call of Sass, if it has a keyword argument.
CalcOrCall(i, modulo, c) ==
    LET args == CalcArgs(i, <<>>, modulo, c)
        typed == IF args.ok /\ ~At(args.at, {"RParen"}) THEN Failed(args.at, "Unexpected") ELSE args
        call == InvocationArgs(i, NoArgs, c)
        values == call.node.kids[1].kids
        commas == call.node.kids[2].kids
    IN  IF ~IsSass(c) THEN args
        ELSE IF typed.ok THEN typed
        ELSE IF call.ok /\ \A k \in DOMAIN values : values[k].kind # "Keyword"
        THEN ElseFirst(typed, Failed(call.at, "NoKeyword"))
        ELSE Else(typed, As(call, LAMBDA node : Group(Interleave(values, commas))))

Function(name, i, c) ==
    Then(Expect(i, "LParen"), LAMBDA open :
        Then(IF At(open.at, {"RParen"}) THEN Done(open.at, Group(<<>>))
             ELSE IF name.kind = "Ident" /\ name.op \in CalcNames
             THEN CalcOrCall(open.at, IsSass(c) /\ name.op = "max", c)
             ELSE IF name.kind = "Ident" /\ name.op = "if" /\ c.syntax = "Less"
             THEN Then(InLess("Condition", open.at, c), LAMBDA condition :
                      FunctionArgs(condition.at, <<condition.node>>, c))
             ELSE FunctionArgs(open.at, <<>>, c),
             LAMBDA args :
            As(Expect(args.at, "RParen"), LAMBDA close :
                Node("Function", name.op, name.from, close.to, <<name>> \o args.node.kids))))

RawFunction(name, i) ==
    Then(Expect(i, "LParen"), LAMBDA open :
        Then(Balanced(open.at, <<>>, <<>>, {}, {}), LAMBDA args :
            As(Expect(args.at, "RParen"), LAMBDA close :
                Node("Function", "raw", name.from, close.to, <<name>> \o args.node.kids))))

\* `type(`, `if(`: typed arguments, or else raw ones.
SpecialNames == {"type", "if"}

FunctionTypedOrRaw(name, i, c) == Else(Function(name, i, c), RawFunction(name, i))

\* `module.$member`, or `module.member(...)`; `i` is the dot.
QualifiedName(module, i) ==
    Then(Expect(i, "Dot"), LAMBDA dot :
        As(IF At(dot.at, {"DollarVar"}) THEN ExpectGlued(dot.at, "DollarVar")
           ELSE ExpectGlued(dot.at, "Ident"),
           LAMBDA member : Span("QualifiedName", Peek(dot.at).kind, <<module, member>>)))

QualifiedValue(module, i, c) ==
    Then(QualifiedName(module, i), LAMBDA name :
        IF name.node.op = "DollarVar" THEN Done(name.at, name.node)
        ELSE Then(ExpectGlued(name.at, "LParen"), LAMBDA open :
                 Then(FunctionArgs(open.at, <<>>, c), LAMBDA args :
                     As(Expect(args.at, "RParen"), LAMBDA close :
                         Node("Function", "", name.node.from, close.to,
                              <<name.node>> \o args.node.kids)))))

(***************************************************************************)
(* A single value.                                                          *)
(***************************************************************************)
BracketValues(i, values, c) ==
    IF At(i, {"RBracket"}) THEN Done(i, Group(values))
    ELSE Then(Value(i, c), LAMBDA r : BracketValues(r.at, Append(values, r.node), c))

BracketBlock(i, c) ==
    Then(Expect(i, "LBracket"), LAMBDA open :
        Then(BracketValues(open.at, <<>>, c), LAMBDA r :
            As(Expect(r.at, "RBracket"), LAMBDA close :
                Node("BracketBlock", "", Start(i), close.to, r.node.kids))))

\* What an identifier begins: a function, a member of a module, or itself.
IdentValue(ident, i, c) ==
    IF At(i, {"LParen"}) /\ Peek(i).glued
    THEN IF ident.kind = "Ident" /\ ident.op \in SpecialNames THEN FunctionTypedOrRaw(ident, i, c)
         ELSE Function(ident, i, c)
    ELSE IF At(i, {"Dot"}) /\ Peek(i).glued /\ IsSass(c) /\ ident.kind = "Ident"
    THEN Else(QualifiedValue(ident, i, c), Done(i, ident))
    ELSE Done(i, ident)

\* A dot that is no member's: only glued to a word, as a token.
BareDot(i) ==
    IF At(i + 1, {"Ident"}) /\ Peek(i + 1).glued THEN Bump(i, "Token")
    ELSE Failed(i, "ExpectComponentValue")

BlockOpener(c) ==
    CASE c.syntax = "Scss" -> {"LBrace"} [] c.syntax = "Sass" -> {"Indent"} [] OTHER -> {}

\* The first tokens of the values only Less has, or reads in its own way.
LessValues ==
    {"AtKeyword", "Dot", "At", "Hash", "DollarVar", "Tilde", "Percent", "BacktickCode"}

\* `~'a'`
EscapedStr(i) ==
    Then(Expect(i, "Tilde"), LAMBDA tilde :
        As(ExpectGlued(tilde.at, "Str"), LAMBDA str :
            Node("Escaped", "", Start(i), str.to, <<str>>)))

Atom(i, c) ==
    IF c.syntax = "Less" /\ At(i, LessValues) THEN InLess("Atom", i, c) ELSE
    CASE At(i, {"Ident"}) ->
            Then(InterpolableIdent(i, c), LAMBDA ident : IdentValue(ident.node, ident.at, c))
      [] At(i, {"Solidus", "Comma"}) -> Bump(i, "Delimiter")
      [] At(i, {"Number", "Dimension", "Percentage", "Hash", "Str", "Placeholder"}) ->
            Bump(i, Peek(i).kind)
      [] At(i, {"LBracket"}) -> BracketBlock(i, c)
      [] At(i, {"DollarVar"}) -> Bump(i, "Variable")
      [] At(i, {"LParen"}) /\ IsSass(c) -> ElseFirst(Parenthesized(i, c), Map(i, c))
      [] At(i, {"HashLBrace"}) /\ IsSass(c) ->
            Then(InterpolableIdent(i, c), LAMBDA ident :
                IF At(ident.at, {"LParen"}) /\ Peek(ident.at).glued
                THEN Function(ident.node, ident.at, c)
                ELSE Done(ident.at, ident.node))
      [] At(i, {"Ampersand"}) /\ IsSass(c) -> Bump(i, "ParentSelector")
      [] At(i, BlockOpener(c)) /\ c.rule = "Value" -> NestedProperties(i, c)
      [] At(i, {"Dot"}) /\ IsSass(c) -> BareDot(i)
      [] OTHER -> Failed(i, "ExpectComponentValue")

(***************************************************************************)
(* Reading a value.                                                         *)
(***************************************************************************)
Context(syntax) ==
    [syntax |-> syntax, div |-> FALSE, parens |-> FALSE, function |-> FALSE, rule |-> "None",
     statement |-> FALSE, keyframes |-> FALSE, keyframeBlock |-> FALSE, fnBody |-> FALSE,
     from |-> 1, owed |-> 0]

Scss == Context("Scss")
Sass == Context("Sass")
Less == Context("Less")
Css == Context("Css")

(***************************************************************************)
(* Properties.                                                              *)
(***************************************************************************)
BindingTier(node) ==
    CASE node.op = "or" -> 1
      [] node.op = "and" -> 2
      [] node.op = "EqualEqual" -> 3
      [] node.op \in {"Plus", "Minus"} -> 5
      [] node.op \in {"Asterisk", "Solidus", "Percent", "Dot"} -> 6

Infix == {"Binary", "Calc", "Operation", "GuardLogic"}

\* The guards of Less bind from the right within a tier.
FromRight(node) == node.kind = "GuardLogic"

BindsLeft(node) ==
    node.kids[1].kind \in Infix =>
        \/ BindingTier(node.kids[1]) > BindingTier(node)
        \/ BindingTier(node.kids[1]) = BindingTier(node) /\ ~FromRight(node)

BindsRight(node) ==
    node.kids[2].kind \in Infix =>
        \/ BindingTier(node.kids[2]) > BindingTier(node)
        \/ BindingTier(node.kids[2]) = BindingTier(node) /\ FromRight(node)

\* The two operators that bind otherwise than by their tier: a `/`, whose left
\* side is whatever makes it a division, and the sign split off a number.
SplitSign(node) == node.kind \in {"Binary", "Operation"} /\ node.kids[2].from % 3 = 1

IsQuotient(node) == node.kind = "Binary" /\ node.op = "Solidus"

\* An operator's tier is passed down through the operands, the loops over them
\* and the attempts that are taken back, by six functions in four notations
\* (SassScript, calculations, the operations of Less and its guards): whatever
\* was tried, a tree binds the way the tiers say, and within one of them from
\* the left, guards from the right; on the left of a `/` of SassScript and of a
\* split-off sign it does not (see TiersBind).
Binding ==
    Accepted =>
        \A node \in Nodes(result.node) :
            node.kind \in Infix =>
                /\ BindsRight(node)
                /\ ~IsQuotient(node) /\ ~SplitSign(node.kids[1]) => BindsLeft(node)

\* "A SassScript binary-operator expression, loosest tier first: or -> and ->
\* not -> ==/!= -> </>/<=/>= -> +/- -> */%// -> <unary-expression>" (sass.rs:168):
\* the left operand of no operator is a looser one.
TiersBind ==
    Accepted => \A node \in Nodes(result.node) : node.kind \in Infix => BindsLeft(node)
=============================================================================
