---------------------------- MODULE LessGrammar ----------------------------
(***************************************************************************)
(* What only Less has: operations, guards, variables and lookups, calls and *)
(* definitions of mixins, detached rulesets, imports with options, plugins, *)
(* and the statements of a block.                                           *)
(***************************************************************************)
EXTENDS Statements

RECURSIVE Operation(_, _, _, _), OperationTail(_, _, _, _, _), SplitProduct(_, _, _, _),
          Guard(_, _, _, _), CallArguments(_, _, _), ParameterList(_, _, _)

Math(c) == [c EXCEPT !.div = TRUE]

\* parse_maybe_less_list: the loop of the lists of Sass, without its layout.
LessList(i, allowComma, c) == MaybeSassList(i, allowComma, c)

(***************************************************************************)
(* Operations.                                                              *)
(***************************************************************************)
Sums == 1
Products == 2

Arithmetic(left, op, right) == Span("Operation", op, <<left, right>>)

\* can_be_division_operand
DividesLess(left, c) ==
    c.div \/ left.kind \in {"LessVariable", "PropertyVariable", "Operation", "Parenthesized"}

\* A sign is an operator only with a blank behind it, or in parentheses; a dot
\* is the beginning of `./`.
OperatorAt(i, tier, left, c) ==
    \/ tier = Products /\ At(i, {"Asterisk", "Dot"})
    \/ tier = Products /\ At(i, {"Solidus"}) /\ DividesLess(left, c)
    \/ tier = Sums /\ At(i, {"Plus", "Minus"}) /\ (c.div \/ ~Peek(i + 1).tight)

OperatorOf(i) ==
    Then(Bump(i, "Operator"), LAMBDA op :
        IF At(i, {"Dot"}) THEN ExpectGlued(op.at, "Solidus") ELSE Done(op.at, op.node))

ParenthesizedOperation(i, calls, c) ==
    Parens(i, "Parenthesized", LAMBDA j : Operation(j, 0, calls, Math(c)))

\* The sign of a variable or of parentheses that touch it.
NegativeValue(i, c) ==
    Then(Expect(i, "Minus"), LAMBDA minus :
        As(CASE At(minus.at, {"AtKeyword", "At", "DollarVar"}) /\ Peek(minus.at).glued ->
                    Atom(minus.at, c)
             [] At(minus.at, {"LParen"}) /\ Peek(minus.at).glued ->
                    ParenthesizedOperation(minus.at, TRUE, c)
             [] OTHER -> Failed(minus.at, "ExpectOneOf"),
           LAMBDA value : Node("Negative", "", Start(i), value.to, <<value>>)))

\* A `-` that is a word: right before the end of the statement.
BareMinus(i) == At(i + 1, {"Semicolon", "RBrace"}) /\ Peek(i + 1).glued

\* Where calls of mixins may not stand they are reported.
Term(i, calls, c) ==
    LET value == Atom(i, c)
    IN  CASE At(i, {"LParen"}) -> ParenthesizedOperation(i, calls, c)
          [] At(i, {"Minus"}) -> IF BareMinus(i) THEN Bump(i, "Ident") ELSE NegativeValue(i, c)
          [] OTHER -> IF value.ok /\ value.node.kind = "MixinCall" /\ ~calls THEN Report(value, i)
                      ELSE value

Operation(i, tier, calls, c) ==
    Then(IF tier >= Products THEN Term(i, calls, c) ELSE Operation(i, tier + 1, calls, c),
         LAMBDA left :
            IF IsDelimiter(left.node) THEN Done(left.at, left.node)
            ELSE OperationTail(left.at, left.node, tier, calls, c))

\* A sign the tokenizer took for the number's splits off only if the number
\* touches the operand; what multiplies a dimension comes before that sum.
OperationTail(i, left, tier, calls, c) ==
    IF OperatorAt(i, tier, left, c)
    THEN Then(OperatorOf(i), LAMBDA op :
         Then(Operation(op.at, tier + 1, calls, c), LAMBDA right :
            OperationTail(right.at, Arithmetic(left, Peek(i).text, right.node), tier, calls, c)))
    ELSE IF tier = Sums /\ Signed(i) /\ Start(i) = left.to
    THEN Then(Bump(i, "Number"), LAMBDA n :
         Then(IF At(i, {"Dimension"}) THEN SplitProduct(n.at, Unsigned(i), calls, c)
              ELSE Done(n.at, Unsigned(i)),
              LAMBDA right :
            OperationTail(right.at, Arithmetic(left, SignOf(i), right.node), tier, calls, c)))
    ELSE Done(i, left)

SplitProduct(i, left, calls, c) ==
    IF At(i, {"Asterisk", "Solidus"})
    THEN Then(Bump(i, "Operator"), LAMBDA op :
         Then(Operation(op.at, Products + 1, calls, c), LAMBDA right :
            SplitProduct(right.at, Arithmetic(left, Peek(i).text, right.node), calls, c)))
    ELSE Done(i, left)

(***************************************************************************)
(* Guards.                                                                  *)
(***************************************************************************)
\* `=`, and a `<` or `>` that touches it.
Comparison(i) ==
    IF At(i, {"Equal"}) /\ At(i + 1, {"GreaterThan", "LessThan"}) /\ Peek(i + 1).glued
    THEN Then(Bump(i, "Equal"), LAMBDA equal :
             As(Bump(equal.at, "Comparison"), LAMBDA than :
                 Node("Comparison", "", Start(i), than.to, <<>>)))
    ELSE Bump(i, "Comparison")

ConditionAtom(i, c) ==
    Then(Operation(i, 0, FALSE, c), LAMBDA left :
        IF ~At(left.at, Comparisons) THEN Done(left.at, left.node)
        ELSE Then(Comparison(left.at), LAMBDA op :
             As(Operation(op.at, 0, FALSE, c), LAMBDA right :
                Span("Compared", "", <<left.node, op.node, right>>))))

\* `((1 + 2) > 3)`: parentheses that were read as those of a condition.
IsOperand(node, i) ==
    /\ node.kind = "GuardParens"
    /\ node.kids[1].kind = "Operation"
    /\ At(i, Comparisons \cup {"Plus", "Minus", "Asterisk", "Solidus"})

GuardParens(i, needs, c) ==
    LET inside == Math(c)
    IN  Parens(i, "GuardParens", LAMBDA j :
            Else(Then(Guard(j, "or", needs, inside), LAMBDA r :
                     IF IsOperand(r.node, r.at) THEN Failed(j, "TryParseError")
                     ELSE Done(r.at, r.node)),
                 ConditionAtom(j, inside)))

\* `needs`: whether a condition has to stand in parentheses; a negated one may
\* do without them.
GuardTerm(i, needs, c) ==
    CASE At(i, {"LParen"}) -> GuardParens(i, needs, c)
      [] AtIdent(i, {"not"}) ->
            Then(Bump(i, "Word"), LAMBDA not :
                As(IF At(not.at, {"LParen"}) THEN GuardParens(not.at, needs, c)
                   ELSE ConditionAtom(not.at, c),
                   LAMBDA inner : Span("Negated", "", <<not.node, inner>>)))
      [] OTHER -> IF needs THEN Failed(i, "LParen") ELSE ConditionAtom(i, c)

\* Conditions joined by one word: the right side takes all that follow.
Guard(i, word, needs, c) ==
    Then(IF word = "and" THEN GuardTerm(i, needs, c) ELSE Guard(i, "and", needs, c),
         LAMBDA left :
            IF ~AtIdent(left.at, {word}) THEN Done(left.at, left.node)
            ELSE Then(Bump(left.at, "Word"), LAMBDA op :
                 As(Guard(op.at, word, needs, c), LAMBDA right :
                    Span("GuardLogic", word, <<left.node, right>>))))

\* `when`, and guards; a comma behind which there is none is not taken.
Guards(i, c) ==
    LET RECURSIVE Rest(_, _)
        Rest(j, list) ==
            LET next == Then(Expect(j, "Comma"), LAMBDA comma : Guard(comma.at, "or", TRUE, c))
            IN  IF next.ok THEN Then(next, LAMBDA r : Rest(r.at, Append(list, r.node)))
                ELSE Else(next, Done(j, Span("Guards", "", list)))
    IN  Then(Bump(i, "When"), LAMBDA when :
        Then(Guard(when.at, "or", TRUE, c), LAMBDA first :
        As(Rest(first.at, <<first.node>>), LAMBDA guards : Group(<<when.node, guards>>))))

MaybeGuards(i, c) ==
    IF AtIdent(i, {"when"}) THEN Guards(i, c) ELSE Done(i, Group(<<>>))

\* Only a single selector may be guarded.
LessQualifiedRule(i, c) ==
    Then(SelectorList(i, InSelector(c)), LAMBDA list :
        IF AtIdent(list.at, {"when"}) /\ Len(list.node.kids) > 1
        THEN Failed(list.at, "LessGuardOnMultipleComplexSelectors")
        ELSE Then(MaybeGuards(list.at, c), LAMBDA guards :
             As(SimpleBlock(guards.at, c), LAMBDA block :
                Node("Rule", "", list.node.from, block.to,
                     <<list.node>> \o guards.node.kids \o <<block>>))))

(***************************************************************************)
(* Variables and lookups.                                                   *)
(***************************************************************************)
VariableVariable(i) ==
    Then(Expect(i, "At"), LAMBDA at :
        As(ExpectGlued(at.at, "AtKeyword"), LAMBDA variable :
            Node("VariableVariable", "", Start(i), variable.to, <<variable>>)))

\* `$@a`: the `$` alone is no token of Less.
LookupName(i) ==
    CASE At(i, {"AtKeyword", "DollarVar"}) -> Bump(i, Peek(i).kind)
      [] At(i, {"At"}) -> VariableVariable(i)
      [] At(i, {"Unknown"}) /\ Peek(i).text = "$" ->
            Then(Bump(i, "Unknown"), LAMBDA dollar :
                As(ExpectGlued(dollar.at, "AtKeyword"), LAMBDA variable :
                    Node("PropertyInterpolation", "", Start(i), variable.to, <<variable>>)))
      [] OTHER -> Expect(i, "Ident")

Lookup(i) ==
    Then(Expect(i, "LBracket"), LAMBDA open :
        Then(IF At(open.at, {"RBracket"}) THEN Done(open.at, Nothing) ELSE LookupName(open.at),
             LAMBDA name :
            As(Expect(name.at, "RBracket"), LAMBDA close :
                Node("Lookup", "", Start(i), close.to, Present(<<name.node>>)))))

Lookups(i) ==
    Then(Lookup(i), LAMBDA first :
        Run(first.at, "Lookups", <<first.node>>, {"LBracket"}, LAMBDA j : Lookup(j)))

Looked(callee) ==
    As(Lookups(callee.at), LAMBDA lookups : Span("NamespaceValue", "", <<callee.node, lookups>>))

\* A detached ruleset is called where parentheses touch the variable.
LessVariableCall(i) ==
    Then(Expect(i, "AtKeyword"), LAMBDA variable :
        Then(ExpectGlued(variable.at, "LParen"), LAMBDA open :
            As(Expect(open.at, "RParen"), LAMBDA close :
                Node("VariableCall", "", Start(i), close.to, <<variable.node>>))))

VariableValue(i) ==
    IF At(i + 1, {"LParen"}) /\ Peek(i + 1).glued THEN LessVariableCall(i)
    ELSE Then(Bump(i, "LessVariable"), LAMBDA variable :
             IF At(variable.at, {"LBracket"}) /\ Peek(variable.at).glued THEN Looked(variable)
             ELSE Done(variable.at, variable.node))

(***************************************************************************)
(* Calls of mixins.                                                         *)
(***************************************************************************)
\* `.3d`: a name that begins with a digit is one token with its dot.
DotDimension(i) == At(i, {"Dimension"}) /\ Peek(i).text = ".3d"

StartsMixin(i) == At(i, {"Dot", "Hash"}) \/ DotDimension(i)

MixinName(i) ==
    CASE DotDimension(i) -> Bump(i, "MixinName")
      [] At(i, {"Dot"}) ->
            Then(Bump(i, "Dot"), LAMBDA dot :
                As(ExpectGlued(dot.at, "Ident"), LAMBDA name :
                    Node("MixinName", "", Start(i), name.to, <<name>>)))
      [] At(i, {"Hash"}) ->
            IF DigitLed(i) THEN Report(Bump(i, "MixinName"), i) ELSE Bump(i, "MixinName")
      [] OTHER -> Failed(i, "ExpectOneOf")

\* Names, with a `>` in between or none; a `>` that no name follows is lost.
Callee(i) ==
    LET RECURSIVE Rest(_, _)
        Rest(j, names) ==
            Then(Eat(j, "GreaterThan"), LAMBDA child :
                IF ~StartsMixin(child.at) THEN Done(child.at, Span("Callee", "", names))
                ELSE Then(MixinName(child.at), LAMBDA name :
                         Rest(name.at, names \o Present(<<child.node, name.node>>))))
    IN  Then(MixinName(i), LAMBDA first : Rest(first.at, <<first.node>>))

Detached(i, c) == As(SimpleBlock(i, c), LAMBDA block : Span("Detached", "", <<block>>))

(***************************************************************************)
(* The arguments of a call and the parameters of a definition.  Commas      *)
(* separate them, until a semicolon says that semicolons do and that the    *)
(* commas were those of lists.  `list` is the loop's state: the items, how  *)
(* many of them stand before the group that may become a list, the commas   *)
(* of that group, and the semicolons.                                       *)
(***************************************************************************)
NoItems == [items |-> <<>>, group |-> 0, commas |-> 0, semicolons |-> 0]

Put(list, item) == [list EXCEPT !.items = Append(@, item)]

\* wrap_less_mixin_args_into_less_list and the one for parameters: the items of
\* the group are one list, which a name in front of them names.
Wrap(i, list) ==
    LET group == SubSeq(list.items, list.group + 1, Len(list.items))
        named == group[1].kind = "Named" /\ Len(group[1].kids) = 2
        values == IF named THEN <<group[1].kids[2]>> \o Tail(group) ELSE group
        wrapped == Span("ArgumentGroup", "Comma", values)
        item == IF named THEN Span("Named", "", <<group[1].kids[1], wrapped>>) ELSE wrapped
    IN  IF Len(group) < 2 THEN Done(i, list)
        ELSE IF \E k \in DOMAIN values : values[k].kind \in {"Named", "Parameter", "Variadic"}
        THEN Failed(i, "MixedDelimiterKindInLessMixin")
        ELSE DebugAssert(
                Done(i, [list EXCEPT !.items = Append(SubSeq(@, 1, list.group), item)]),
                list.commas < Len(values), "commas in a group")

\* Mutant of Separate: every group begins with the first item.
SeparateKeepsGroup(i, list) ==
    Then(Bump(i, "Separator"), LAMBDA separator :
        IF At(i, {"Comma"}) THEN Done(separator.at, [list EXCEPT !.commas = @ + 1])
        ELSE As(Wrap(separator.at, list), LAMBDA wrapped :
                [wrapped EXCEPT !.commas = 0, !.semicolons = @ + 1]))

\* A comma, or a semicolon and the group that it ends.
Separate(i, list) ==
    Then(Bump(i, "Separator"), LAMBDA separator :
        IF At(i, {"Comma"}) THEN Done(separator.at, [list EXCEPT !.commas = @ + 1])
        ELSE As(Wrap(separator.at, list), LAMBDA wrapped :
                [wrapped EXCEPT !.commas = 0, !.semicolons = @ + 1,
                                !.group = Len(wrapped.items)]))

Variables == {"LessVariable", "PropertyVariable"}

\* A value, and behind a variable what it names, or its dots.
NamedOr(value, Default(_)) ==
    Then(value, LAMBDA v :
        IF v.node.kind \notin Variables THEN Done(v.at, v.node)
        ELSE IF At(v.at, {"Colon"})
        THEN Then(Bump(v.at, "Colon"), LAMBDA colon :
                 As(Default(colon.at), LAMBDA default : Span("Named", "", <<v.node, default>>)))
        ELSE IF At(v.at, {"DotDotDot"})
        THEN As(Bump(v.at, "DotDotDot"), LAMBDA dots : Span("Variadic", "", <<v.node, dots>>))
        ELSE Done(v.at, v.node))

CallArgument(i, list, c) ==
    IF At(i, {"LBrace"}) THEN Detached(i, c)
    ELSE IF At(i, {"Comma"}) THEN Failed(i, "ExpectComponentValue")
    ELSE NamedOr(LessList(i, FALSE, c), LAMBDA j :
             IF At(j, {"LBrace"}) THEN Detached(j, c) ELSE LessList(j, list.group > 0, c))

CallArguments(i, list, c) ==
    IF At(i, {"RParen"})
    THEN IF list.group > 0 THEN Wrap(i + 1, list) ELSE Done(i + 1, list)
    ELSE Then(CallArgument(i, list, c), LAMBDA arg :
            IF At(arg.at, {"RParen"}) THEN CallArguments(arg.at, Put(list, arg.node), c)
            ELSE IF ~At(arg.at, {"Comma", "Semicolon"}) THEN Failed(arg.at, "Unexpected")
            ELSE Then(Separate(arg.at, Put(list, arg.node)), LAMBDA r :
                     CallArguments(r.at, r.node, c)))

\* Parentheses that end at the token before `r`; the code asserts how many items
\* there are more than separators.
Enclosed(kind, i, r, more) ==
    LET SeparatorsOf(list) == IF list.semicolons = 0 THEN list.commas ELSE list.semicolons
    IN  As(DebugAssert(r, r.ok => Len(r.node.items) - SeparatorsOf(r.node) \in more, kind),
           LAMBDA list : Node(kind, IF list.semicolons = 0 THEN "Comma" ELSE "Semicolon",
                              Start(i), End(r.at - 1), list.items))

\* A call takes `!important`, unless it is a value.
MixinCall(i, c) ==
    Then(Callee(i), LAMBDA callee :
    Then(IF At(callee.at, {"LParen"})
         THEN Enclosed("Arguments", callee.at, CallArguments(callee.at + 1, NoItems, c), {0, 1})
         ELSE Done(callee.at, Nothing),
         LAMBDA args :
    As(IF c.rule = "Value" THEN Done(args.at, Nothing) ELSE MaybeImportant(args.at, c),
       LAMBDA important :
        Span("MixinCall", "", Present(<<callee.node, args.node, important>>)))))

CallOrLookups(i, c) ==
    Then(MixinCall(i, c), LAMBDA call :
        IF At(call.at, {"LBracket"}) THEN Looked(call) ELSE Done(call.at, call.node))

\* `#a` is a color unless a call or lookups follow.
HexOrCall(i, c) ==
    LET called == \/ At(i + 1, {"LParen", "LBracket"})
                  \/ At(i + 1, {"Dot", "Hash"}) /\ Peek(i + 1).glued
    IN  IF called THEN Else(Then(Bump(i, "Hash"), LAMBDA hash : Failed(hash.at, "TryParseError")),
                            CallOrLookups(i, c))
        ELSE Bump(i, "Hash")

(***************************************************************************)
(* Definitions of mixins.                                                   *)
(***************************************************************************)
LessParameter(i, c) ==
    As(NamedOr(Value(i, Math(c)), LAMBDA j :
           IF At(j, {"LBrace"}) THEN Detached(j, c) ELSE LessList(j, FALSE, Math(c))),
       LAMBDA parameter :
        IF parameter.kind \in Variables THEN [parameter EXCEPT !.kind = "Parameter"] ELSE parameter)

\* What has dots is the last parameter, and there the groups are left as they
\* are, as they are behind a separator.
ParameterList(i, list, c) ==
    LET LastOne(r) ==
            Then(r, LAMBDA dots :
                LET counts == dots.node.kind = "Variadic" /\ At(dots.at, {"Semicolon"})
                    all == IF counts THEN [list EXCEPT !.semicolons = @ + 1] ELSE list
                IN  Then(Eat(dots.at, "Semicolon"), LAMBDA semicolon :
                    Then(Expect(semicolon.at, "RParen"), LAMBDA close :
                        Done(close.at, Put(all, dots.node)))))
    IN  CASE At(i, {"RParen"}) -> Done(i + 1, list)
          [] At(i, {"DotDotDot"}) -> LastOne(Bump(i, "DotDotDot"))
          [] At(i, {"Comma"}) -> Failed(i, "ExpectComponentValue")
          [] OTHER ->
                LET parameter == LessParameter(i, c)
                    more == Put(list, parameter.node)
                    next == parameter.at
                IN  IF parameter.ok /\ parameter.node.kind = "Variadic" THEN LastOne(parameter)
                    ELSE Then(parameter, LAMBDA p :
                        IF At(next, {"RParen"})
                        THEN IF list.group > 0 THEN Wrap(next + 1, more) ELSE Done(next + 1, more)
                        ELSE Then(IF At(next, {"Comma", "Semicolon"}) THEN Separate(next, more)
                                  ELSE Done(next, more),
                                  LAMBDA r : ParameterList(r.at, r.node, c)))

LessParameters(i, c) ==
    Then(Expect(i, "LParen"), LAMBDA open :
        Enclosed("Parameters", i, ParameterList(open.at, NoItems, c), Nat))

\* `.(@a) {}`, or with a `#`: a function of a function.
AnonymousMixin(i, c) ==
    IF ~At(i, {"Dot", "NumberSign"}) \/ ~Peek(i + 1).glued THEN Failed(i, "TryParseError")
    ELSE Then(Bump(i, "Head"), LAMBDA head :
         Then(LessParameters(head.at, c), LAMBDA parameters :
         As(SimpleBlock(parameters.at, c), LAMBDA block :
            Node("AnonymousMixin", "", Start(i), block.to, <<parameters.node, block>>))))

MixinDefinition(i, c) ==
    Then(MixinName(i), LAMBDA name :
    Then(LessParameters(name.at, c), LAMBDA parameters :
    Then(MaybeGuards(parameters.at, c), LAMBDA guards :
    As(SimpleBlock(guards.at, [c EXCEPT !.keyframeBlock = TRUE]), LAMBDA block :
        Span("MixinDefinition", "",
             <<name.node, parameters.node>> \o guards.node.kids \o <<block>>)))))

(***************************************************************************)
(* Declarations of variables.                                               *)
(***************************************************************************)
\* Tokens that end with the statement, where there is no value.
PermissiveValue(i, c) ==
    LET typed == LessList(i, TRUE, Math(c))
        raw == RawValue(i, FALSE)
    IN  IF typed.ok THEN typed
        ELSE IF At(raw.at, {"Semicolon"}) /\ raw.node.kids # <<>>
        THEN Else(typed, As(raw, LAMBDA node : Span("RawList", "", node.kids)))
        ELSE typed

LessVariableDeclaration(i, c) ==
    Then(Expect(i, "AtKeyword"), LAMBDA variable :
    Then(Expect(variable.at, "Colon"), LAMBDA colon :
    Then(IF At(colon.at, {"LBrace"}) THEN Detached(colon.at, c) ELSE PermissiveValue(colon.at, c),
         LAMBDA value :
            IF value.node.kind = "Detached" \/ At(value.at, {"Semicolon", "RBrace", "Eof"})
            THEN Done(value.at, Span("VariableDeclaration", "", <<variable.node, value.node>>))
            ELSE Failed(value.at, "TryParseError"))))

(***************************************************************************)
(* At-rules.                                                                *)
(***************************************************************************)
ImportOptions(i) ==
    LET RECURSIVE Rest(_, _)
        Rest(j, names) ==
            IF ~AtIdent(j, {"less", "optional"}) THEN Done(j, Group(names))
            ELSE Then(Bump(j, "Ident"), LAMBDA name :
                 Then(IF At(name.at, {"RParen"}) THEN Done(name.at, Nothing)
                      ELSE Expect(name.at, "Comma"),
                      LAMBDA r : Rest(r.at, Append(names, name.node))))
    IN  Then(Expect(i, "LParen"), LAMBDA open :
        Then(Rest(open.at, <<>>), LAMBDA names :
        As(Expect(names.at, "RParen"), LAMBDA close :
            Node("ImportOptions", "", Start(i), close.to, names.node.kids))))

Href(i) == IF At(i, {"Str"}) THEN Bump(i, "Str") ELSE Expect(i, "Url")

LessImport(i, c) ==
    Then(ImportOptions(i), LAMBDA options :
    Then(Href(options.at), LAMBDA href :
    As(IF At(href.at, {"Semicolon"}) THEN Done(href.at, Nothing) ELSE MediaQueryList(href.at, c),
       LAMBDA media : Span("LessImport", "", Present(<<options.node, href.node, media>>)))))

Plugin(i, c) ==
    Then(IF At(i, {"LParen"}) THEN Parens(i, "PluginArgs", LAMBDA j : TokensInParens(j, c))
         ELSE Done(i, Nothing),
         LAMBDA args :
            As(Href(args.at), LAMBDA path : Span("Plugin", "", Present(<<args.node, path>>))))

\* A variable, or what a namespace holds; a call of a detached ruleset is none
\* of the kinds of queries there are (`unreachable!`).
Query(i, c) ==
    LET variable == VariableValue(i)
    IN  IF At(i, {"AtKeyword"})
        THEN IF variable.ok /\ variable.node.kind = "VariableCall"
             THEN [Failed(i, "unreachable") EXCEPT !.broken = {"unreachable"}]
             ELSE variable
        ELSE Then(MixinCall(i, c), LAMBDA call :
             Then(Looked(call), LAMBDA value :
                IF Start(call.at) = call.node.to THEN Done(value.at, value.node)
                ELSE Failed(call.at, "UnexpectedWhitespaceOrComments")))

(***************************************************************************)
(* Values.                                                                  *)
(***************************************************************************)
\* `%(` and `~(`
NamedCall(i, c) ==
    Then(Bump(i, "FunctionName"), LAMBDA name :
    Then(ExpectGlued(name.at, "LParen"), LAMBDA open :
    Then(FunctionArgs(open.at, <<>>, c), LAMBDA args :
    As(Expect(args.at, "RParen"), LAMBDA close :
        Node("Function", "", Start(i), close.to, <<name.node>> \o args.node.kids)))))

JavaScript(i) ==
    Then(Eat(i, "Tilde"), LAMBDA tilde :
        As(Expect(tilde.at, "BacktickCode"), LAMBDA code :
            Node("JavaScript", "", Start(i), code.to, <<code>>)))

LessAtom(i, c) ==
    CASE At(i, {"AtKeyword"}) -> VariableValue(i)
      [] At(i, {"Dot"}) -> CallOrLookups(i, c)
      [] At(i, {"At"}) -> VariableVariable(i)
      [] At(i, {"Hash"}) -> HexOrCall(i, c)
      [] At(i, {"DollarVar"}) -> Bump(i, "PropertyVariable")
      [] At(i, {"Tilde"}) -> Else(NamedCall(i, c), Else(EscapedStr(i), JavaScript(i)))
      [] At(i, {"Percent"}) -> Else(NamedCall(i, c), Bump(i, "PercentKeyword"))
      [] At(i, {"BacktickCode"}) -> JavaScript(i)

LessArgument(i, c) ==
    IF At(i, {"LBrace"}) THEN Detached(i, c)
    ELSE Else(AnonymousMixin(i, c), Else(Value(i, c), Bump(i, "Token")))

(***************************************************************************)
(* Statements.                                                              *)
(***************************************************************************)
LessRule(i, c) == Finished(LessQualifiedRule(i, c), TRUE)

FunctionCall(i, c) ==
    Then(Expect(i, "Ident"), LAMBDA name :
        IF At(name.at, {"LParen"}) /\ ~Peek(name.at).glued
        THEN Failed(name.at, "UnexpectedWhitespaceOrComments")
        ELSE Then(Function(name.node, name.at, c), LAMBDA call :
                 Finished(Done(call.at, call.node), LastOf(call.node).kind = "Detached")))

LessIdentStatement(i, c) ==
    Else(LessRule(i, c),
         Else(Finished(DeclarationOf(i, c), FALSE),
              IF c.keyframes THEN Finished(KeyframeBlock(i, c), TRUE) ELSE FunctionCall(i, c)))

\* A rule, a definition or a call, in this order.
MixinStatement(i, c) ==
    Else(LessRule(i, c),
         Else(Finished(MixinDefinition(i, c), TRUE), Finished(MixinCall(i, c), FALSE)))

LessAtStatement(i, c) ==
    LET decl == LessVariableDeclaration(i, c)
    IN  IF decl.ok THEN Finished(decl, LastOf(decl.node).kind = "Detached")
        ELSE Else(decl, Else(Finished(LessVariableCall(i), FALSE), AtKeywordStatement(i, c)))

LessSelectorStatement(i, top, c) ==
    LET rule == LessRule(i, c)
    IN  IF At(i, {"Asterisk"})
        THEN IF top \/ rule.ok THEN rule ELSE Else(rule, Finished(StatementDeclaration(i, c), FALSE))
        ELSE Else(Finished(LessExtendRule(i, c), FALSE), rule)

LessStatement(i, top, c) ==
    CASE At(i, {"Ident", "HashLBrace", "AtLBraceVar"}) -> LessIdentStatement(i, c)
      [] StartsMixin(i) -> MixinStatement(i, c)
      [] At(i, {"Number", "Dimension"}) /\ ~StartsMixin(i) /\ ~top
         /\ At(i + 1, {"Colon", "ColonColon"}) /\ Peek(i + 1).glued ->
            Finished(StatementDeclaration(i, c), FALSE)
      [] At(i, {"Ampersand", "LBracket", "Colon", "ColonColon", "Asterisk", "Bar", "NumberSign"})
         /\ ~c.keyframes ->
            LessSelectorStatement(i, top, c)
      [] At(i, {"AtKeyword"}) -> LessAtStatement(i, c)
      [] At(i, {"Placeholder"}) -> PlaceholderStatement(i, c)
      [] At(i, Combinators) -> LessRule(i, c)
      [] At(i, {"DollarLBraceVar"}) -> Finished(DeclarationOf(i, c), FALSE)
      [] At(i, {"Percentage"}) /\ (c.keyframes \/ c.keyframeBlock) ->
            Finished(KeyframeBlock(i, c), TRUE)
      [] OTHER -> Failed(i, "ExpectRule")

\* What the other modules leave to Less.
LessReading(kind, i, c) ==
    CASE kind = "Value" -> Operation(i, 0, TRUE, c)
      [] kind = "Atom" -> LessAtom(i, c)
      [] kind = "Negative" -> NegativeValue(i, c)
      [] kind = "Argument" -> LessArgument(i, c)
      [] kind = "Condition" -> Guard(i, "or", FALSE, c)
      [] kind = "Query" -> Query(i, c)
      [] kind = "Import" -> LessImport(i, c)
      [] kind = "Plugin" -> Plugin(i, c)
      [] kind = "TopStatement" -> LessStatement(i, TRUE, c)
      [] kind = "Statement" -> LessStatement(i, FALSE, c)

(***************************************************************************)
(* Properties.                                                              *)
(***************************************************************************)
Between(left, right, kind) ==
    Cardinality({i \in (TokenAt(left.to - 1) + 1)..(TokenAt(right.from) - 1) : At(i, {kind})})

\* Children that have a comma in front of them: the code counts these commas apart
\* from the children, and asserts that the counts agree.
BehindComma(node, k) ==
    \/ node.kind \in {"Queries", "LayerNames", "PageSelectors", "Document", "Members", "Paths",
                      "KeyframeSelectors", "Map", "Items", "Guards", "ImportOptions"}
    \/ node.kind = "Arguments" /\ node.op = "Comma"
    \/ node.kind = "List" /\ node.op \in {"Compound", "Relative", "Language", "Extend"}
    \/ node.kind = "Each" /\ k < Len(node.kids) - 1

\* The assertions on separators that do not hold: those of a group that ends with
\* a comma in front of the `)`, and of a list of two that touch at an annotation.
Refuted ==
    LET InGroup(i) == At(i, {"Comma"}) /\ At(i + 1, {"RParen"}) /\ Count(1, i, "Semicolon") > 0
        Touching(i) == At(i, {"Exclamation"}) /\ Peek(i).glued
    IN  {name \in {"commas in a group", "separator"} :
            \E i \in DOMAIN source : IF name = "separator" THEN Touching(i) ELSE InGroup(i)}

\* Separators are counted apart from what they separate, and the code asserts that
\* the counts agree: in selectors (selector.rs:1203), in the arguments of Scss
\* (sass.rs:641), in the calls and definitions of mixins (less.rs:1276, 1452) and in
\* the groups whose commas a semicolon hands over (less.rs:1902, 1960), and that a
\* list has a separator at all (sass.rs:160, less.rs:766).  None of these assertions
\* fails but for the two cases above.  In the tree there is one separator between
\* two items, of the kind the list says; the values of a group have no semicolon
\* between them, and no more than one comma, for a definition may do without.
SeparatorsCounted ==
    /\ result.broken \ {"unreachable"} \subseteq Refuted
    /\ Accepted =>
          \A node \in Nodes(result.node) : \A k \in 2..Len(node.kids) :
              LET Separators(kind) == Between(node.kids[k - 1], node.kids[k], kind)
              IN  /\ BehindComma(node, k) => Separators("Comma") = 1
                  /\ node.kind = "Arguments" /\ node.op = "Semicolon" => Separators("Semicolon") = 1
                  /\ node.kind = "ArgumentGroup" => Separators("Semicolon") = 0 /\ Separators("Comma") <= 1

\* `debug_assert!(comma_spans.len() < elements.len())` (less.rs:1960) and its like:
\* whatever separates the items of a list was counted right.
SeparatorAssertionsHold == result.broken \subseteq {"unreachable"}

\* `_ => unreachable!()` (media.rs:231): no query is of a kind that the parser
\* of queries does not expect.
NeverUnreachable == "unreachable" \notin result.broken
=============================================================================
