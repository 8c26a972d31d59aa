---------------------------- MODULE SassPreludes ----------------------------
(***************************************************************************)
(* What Scss and Sass add to at-rules and declarations: variables, their    *)
(* flags, parameters and modules, and the preludes of the rules that        *)
(* control what is written.                                                 *)
(***************************************************************************)
EXTENDS Preludes

SassVariable(i) == Expect(i, "DollarVar")

\* What may go on on the next lines.
Across(r, c, Rest(_)) ==
    Then(r, LAMBDA x : Then(LineContinuation(x.at, c), LAMBDA y : Rest([y EXCEPT !.node = x.node])))

Keyword(i, names) ==
    IF AtIdent(i, names) THEN Bump(i, "Word") ELSE Failed(i, "ExpectSassKeyword")

\* A list as a prelude, which may begin on the next line.
Expression(i, c) ==
    Then(LineContinuation(i, c), LAMBDA r : MaybeSassList(r.at, TRUE, c))

(***************************************************************************)
(* Variables and their flags.                                               *)
(***************************************************************************)
Flags(i) ==
    LET RECURSIVE Rest(_, _)
        Rest(j, flags) ==
            IF At(j, {"Exclamation"})
            THEN Then(Bump(j, "Exclamation"), LAMBDA bang :
                 Then(ExpectGlued(bang.at, "Ident"), LAMBDA word :
                    LET flag == Node("Flag", word.node.op, Start(j), word.node.to, <<word.node>>)
                        more == Rest(word.at, Append(flags, flag))
                    IN  IF AtIdent(bang.at, {"default", "global"}) THEN more
                        ELSE Report(more, bang.at)))
            ELSE Done(j, Group(flags))
    IN  Rest(i, <<>>)

\* [namespace '.'] '$' name ':' list flag*
SassVariableDeclaration(i, c) ==
    LET module == Then(ExpectGlued(i + 1, "Dot"), LAMBDA dot :
                      IF Peek(dot.at).glued THEN Done(dot.at, Leaf(i, "Ident"))
                      ELSE Failed(dot.at, "UnexpectedWhitespaceOrComments"))
    IN  Then(IF At(i, {"Ident"}) THEN module ELSE Done(i, Nothing), LAMBDA namespace :
        Across(SassVariable(namespace.at), c, LAMBDA name :
        Across(Expect(name.at, "Colon"), c, LAMBDA colon :
        Then(MaybeSassList(colon.at, TRUE, [c EXCEPT !.div = TRUE]), LAMBDA value :
        Then(Flags(value.at), LAMBDA flags :
            LET declared == Done(flags.at, Span("VariableDeclaration", "",
                                Present(<<namespace.node, name.node, value.node>>)
                                    \o flags.node.kids))
            IN  IF /\ namespace.node.kind # "Nothing"
                   /\ \E k \in DOMAIN flags.node.kids : flags.node.kids[k].op = "global"
                THEN Report(declared, i)
                ELSE declared)))))

(***************************************************************************)
(* Parameters, arguments and modules.                                       *)
(***************************************************************************)
\* Items in parentheses, a comma behind each, which the last may lack.
Items(i, empty, Item(_)) ==
    LET RECURSIVE Rest(_, _)
        Rest(j, items) ==
            IF At(j, {"RParen"}) /\ (empty \/ items # <<>>) THEN Done(j, Group(items))
            ELSE Then(Item(j), LAMBDA r :
                 LET more == Append(items, r.node)
                 IN  IF At(r.at, {"RParen"}) THEN Done(r.at, Group(more))
                     ELSE Then(Expect(r.at, "Comma"), LAMBDA comma :
                              IF r.node.kind = "Spread" /\ ~At(comma.at, {"RParen"})
                              THEN Failed(comma.at, "RParen")
                              ELSE Rest(comma.at, more)))
    IN  Then(Expect(i, "LParen"), LAMBDA open :
        Then(Rest(open.at, <<>>), LAMBDA r :
            As(Expect(r.at, "RParen"), LAMBDA close :
                Node("Items", "", Start(i), close.to, r.node.kids))))

\* A parameter: the rest of the arguments, or one of them and its default.
Parameter(i, c) ==
    Then(SassVariable(i), LAMBDA name :
        CASE At(name.at, {"Colon"}) ->
                Then(Bump(name.at, "Colon"), LAMBDA colon :
                    As(MaybeSassList(colon.at, FALSE, c), LAMBDA value :
                        Span("Parameter", "", <<name.node, value>>)))
          [] At(name.at, {"DotDotDot"}) ->
                As(Bump(name.at, "DotDotDot"), LAMBDA dots :
                    Node("Spread", "", name.node.from, dots.to, <<name.node>>))
          [] At(name.at, {"Comma", "RParen"}) -> Done(name.at, name.node)
          [] OTHER -> Failed(name.at, "RParen"))

Parameters(i, c) == Items(i, TRUE, LAMBDA j : Parameter(j, c))

\* Arguments in parentheses.
SassArguments(i, c) ==
    Then(Expect(i, "LParen"), LAMBDA open :
        Then(InvocationArgs(open.at, NoArgs, c), LAMBDA args :
            As(Expect(args.at, "RParen"), LAMBDA close :
                Node("Arguments", "", Start(i), close.to, args.node.kids[1].kids))))

ConfigItem(i, overridable, c) ==
    Then(SassVariable(i), LAMBDA name :
    Then(Expect(name.at, "Colon"), LAMBDA colon :
    Then(MaybeSassList(colon.at, FALSE, c), LAMBDA value :
    As(IF overridable THEN Flags(value.at) ELSE Done(value.at, Group(<<>>)), LAMBDA flags :
        Span("ConfigItem", "", <<name.node, value.node>> \o flags.kids)))))

ModuleConfig(i, overridable, c) ==
    IF ~AtIdent(i, {"with"}) THEN Done(i, Nothing)
    ELSE Across(Bump(i, "Word"), c, LAMBDA with :
             As(Items(with.at, FALSE, LAMBDA j : ConfigItem(j, overridable, c)), LAMBDA items :
                 Span("Config", "", <<with.node, items>>)))

Namespace(i, c) ==
    IF ~AtIdent(i, {"as"}) THEN Done(i, Nothing)
    ELSE Across(Bump(i, "Word"), c, LAMBDA word :
             As(IF At(word.at, {"Asterisk"}) THEN Bump(word.at, "Token") ELSE Expect(word.at, "Ident"),
                LAMBDA name : Span("Namespace", "", <<word.node, name>>)))

SassUse(i, c) ==
    Then(LineContinuation(i, c), LAMBDA start :
    Then(Expect(start.at, "Str"), LAMBDA path :
    Then(Namespace(path.at, c), LAMBDA namespace :
    As(ModuleConfig(namespace.at, FALSE, c), LAMBDA config :
        Span("Use", "", Present(<<path.node, namespace.node, config>>))))))

ForwardPrefix(i, c) ==
    IF ~AtIdent(i, {"as"}) THEN Done(i, Nothing)
    ELSE Across(Bump(i, "Word"), c, LAMBDA word :
         Then(InterpolableIdent(word.at, c), LAMBDA name :
            As(ExpectGlued(name.at, "Asterisk"), LAMBDA star :
                Node("Prefix", "", Start(i), star.to, <<word.node, name.node>>))))

Visibility(i, c) ==
    IF ~AtIdent(i, {"hide", "show"}) THEN Done(i, Nothing)
    ELSE Then(Bump(i, "Word"), LAMBDA word :
             As(Commas(word.at, "Members", LAMBDA j :
                    Then(LineContinuation(j, c), LAMBDA r :
                        IF At(r.at, {"Ident"}) THEN Bump(r.at, "Ident") ELSE SassVariable(r.at))),
                LAMBDA members : Span("Visibility", "", <<word.node, members>>)))

\* The span is that of the path, up to the configuration if there is one.
SassForward(i, c) ==
    Then(LineContinuation(i, c), LAMBDA start :
    Then(Expect(start.at, "Str"), LAMBDA path :
    Then(ForwardPrefix(path.at, c), LAMBDA prefix :
    Then(Visibility(prefix.at, c), LAMBDA visibility :
    As(ModuleConfig(visibility.at, TRUE, c), LAMBDA config :
        Node("Forward", "", path.node.from,
             IF config.kind = "Nothing" THEN path.node.to ELSE config.to,
             Present(<<path.node, prefix.node, visibility.node, config>>)))))))

(***************************************************************************)
(* Mixins, functions and control.                                           *)
(***************************************************************************)
SassMixin(i, c) ==
    Then(LineContinuation(i, c), LAMBDA start :
    Then(Expect(start.at, "Ident"), LAMBDA name :
    As(IF At(name.at, {"LParen"}) THEN Parameters(name.at, c) ELSE Done(name.at, Nothing),
       LAMBDA params : Span("Mixin", "", Present(<<name.node, params>>)))))

SassFunction(i, c) ==
    Across(Done(i, Nothing), c, LAMBDA start :
    Across(Expect(start.at, "Ident"), c, LAMBDA name :
    As(Parameters(name.at, c), LAMBDA params : Span("SassFunction", "", <<name.node, params>>))))

\* A name, which a dot, close to it or not, takes from a module.
FunctionName(i) ==
    Then(Expect(i, "Ident"), LAMBDA name :
        IF At(name.at, {"Dot"})
        THEN As(Expect(name.at + 1, "Ident"), LAMBDA member :
                 Span("QualifiedName", "Ident", <<name.node, member>>))
        ELSE Done(name.at, name.node))

ContentParams(i, c) ==
    IF ~AtIdent(i, {"using"}) THEN Done(i, Nothing)
    ELSE Across(Bump(i, "Word"), c, LAMBDA word :
             As(Parameters(word.at, c), LAMBDA params : Span("Using", "", <<word.node, params>>)))

SassInclude(i, c) ==
    Then(LineContinuation(i, c), LAMBDA start :
    Then(FunctionName(start.at), LAMBDA name :
    Then(IF At(name.at, {"LParen"}) THEN SassArguments(name.at, c) ELSE Done(name.at, Nothing),
         LAMBDA args :
    As(ContentParams(args.at, c), LAMBDA params :
        Span("Include", "", Present(<<name.node, args.node, params>>))))))

SassEach(i, c) ==
    LET RECURSIVE Bindings(_, _)
        Bindings(j, bound) ==
            Across(SassVariable(j), c, LAMBDA name :
                LET more == Append(bound, name.node)
                IN  IF At(name.at, {"Comma"})
                    THEN Across(Bump(name.at, "Comma"), c, LAMBDA comma : Bindings(comma.at, more))
                    ELSE Done(name.at, Group(more)))
    IN  Across(Done(i, Nothing), c, LAMBDA start :
        Then(Bindings(start.at, <<>>), LAMBDA names :
        Then(Keyword(names.at, {"in"}), LAMBDA word :
        As(Expression(word.at, c), LAMBDA expr :
            Span("Each", "", names.node.kids \o <<word.node, expr>>)))))

SassFor(i, c) ==
    Across(Done(i, Nothing), c, LAMBDA start :
    Across(SassVariable(start.at), c, LAMBDA binding :
    Across(Keyword(binding.at, {"from"}), c, LAMBDA from :
    Across(Value(from.at, c), c, LAMBDA first :
    Across(Keyword(first.at, {"to", "through"}), c, LAMBDA boundary :
    As(Value(boundary.at, c), LAMBDA last :
        Span("For", Peek(first.at).text,
             <<binding.node, from.node, first.node, boundary.node, last>>)))))))

\* `!optional`; another word is reported and left out.
SassExtend(i, c) ==
    Across(Done(i, Nothing), c, LAMBDA start :
    Then(CommaList(start.at, "Compound", <<>>, c), LAMBDA list :
        IF ~At(list.at, {"Exclamation"}) THEN Done(list.at, Span("SassExtend", "", <<list.node>>))
        ELSE Then(Bump(list.at, "Exclamation"), LAMBDA bang :
             Then(ExpectGlued(bang.at, "Ident"), LAMBDA word :
                IF AtIdent(bang.at, {"optional"})
                THEN Done(word.at, Span("SassExtend", "",
                         <<list.node, Node("Flag", "optional", Start(list.at), word.node.to,
                                           <<word.node>>)>>))
                ELSE Report(Done(word.at, Span("SassExtend", "", <<list.node>>)), bang.at)))))

\* ( with | without : names )
AtRootQuery(i, c) ==
    Parens(i, "AtRootQuery", LAMBDA j :
        Then(Keyword(j, {"with", "without"}), LAMBDA word :
        Then(Expect(word.at, "Colon"), LAMBDA colon :
            Run(colon.at, "AtRoot", <<word.node>>, {"Ident", "HashLBrace", "Str"}, LAMBDA k :
                IF At(k, {"Str"}) THEN Bump(k, "Str") ELSE InterpolableIdent(k, c)))))

SassAtRoot(i, c) ==
    IF At(i, {"LBrace", "Indent", "Linebreak", "Dedent", "Eof"}) THEN Done(i, Nothing)
    ELSE IF At(i, {"LParen"}) THEN AtRootQuery(i, c)
    ELSE SelectorList(i, c)

\* Several paths, and nothing behind them, are imports of Sass; one is an import
\* of Css if it can be.
SassImport(i, c) ==
    LET paths == Commas(i, "Paths", LAMBDA j : Expect(j, "Str"))
        several == Then(FullPrelude(paths), LAMBDA r :
                       IF Len(r.node.kids) > 1 THEN Done(r.at, r.node)
                       ELSE Failed(i, "TryParseError"))
    IN  Else(several, Else(ImportPrelude(i, c), paths))
=============================================================================
