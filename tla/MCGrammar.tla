----------------------------- MODULE MCGrammar -----------------------------
(***************************************************************************)
(* Instances of the grammars for TLC.  A goal is a grammar and the sources  *)
(* it reads: the tokens they begin with, those they go on with, how many of *)
(* these there may be, and the tokens they end with.                        *)
(***************************************************************************)
EXTENDS LessGrammar, TLC

Goal(context, before, tokens, length, after) ==
    [context |-> context, before |-> before, tokens |-> tokens, length |-> length,
     after |-> after]

Mark == [k \in {"Comma", "Colon", "Semicolon", "LParen", "RParen", "LBrace", "RBrace", "Dot",
                "Plus", "Minus", "Asterisk", "Solidus", "Percent", "EqualEqual", "GreaterThan",
                "Exclamation", "DotDotDot", "Ampersand", "HashLBrace", "Unknown", "Equal",
                "Indent", "Linebreak", "Dedent", "LessThan", "At", "Tilde", "NumberSign",
                "LBracket", "RBracket", "PlusUnderscore", "BacktickCode"}
            |-> Token(k, k)]

Marks(kinds) == {Mark[k] : k \in kinds}

GluedMarks(kinds) == {Glued(Mark[k]) : k \in kinds}

Ident(name) == Token("Ident", name)

Idents(names) == {Ident(n) : n \in names}

GluedIdents(names) == {Glued(Ident(n)) : n \in names}

One == Token("Number", "1")
Plus1 == Token("Number", "+1")
Minus1 == Glued(Token("Number", "-1"))
Half == Token("Percentage", "50%")
Var == Token("DollarVar", "$a")
Str == Token("Str", "'a'")
Caret1 == Token("Unknown", "^")
Substitute == Token("Placeholder", "${a}")
LessVar == Token("AtLBraceVar", "@{a}")
Rule(name) == Token("AtKeyword", name)
Call(name) == <<Ident(name), Glued(Mark["LParen"])>>
Body == <<Mark["LBrace"], Mark["RBrace"]>>
NthChild == <<Mark["Colon"], Glued(Ident("nth-child")), Glued(Mark["LParen"])>>
Close == <<Mark["RParen"]>>
Ended == <<Mark["RBrace"]>>

(***************************************************************************)
(* Values: lists, and single ones.                                          *)
(***************************************************************************)
ListGoals ==
    [operators |-> Goal(Scss, <<>>,
         {One, Var, Ident("or")} \cup
         Marks({"Plus", "Asterisk", "Solidus", "LParen", "RParen"}), 5, <<>>),
     signed |-> Goal(Scss, <<>>,
         {One, Plus1, Minus1} \cup Marks({"Plus", "Asterisk", "EqualEqual"}), 5, <<>>),
     words |-> Goal(Scss, <<>>,
         {Ident("a"), Glued(Ident("a")), Glued(Var)} \cup
         GluedMarks({"Dot", "LParen", "HashLBrace"}) \cup
         Marks({"HashLBrace", "RParen", "RBrace"}), 4, <<>>),
     lists |-> Goal(Sass, <<>>,
         Idents({"a", "important"}) \cup GluedMarks({"Exclamation"}) \cup
         Marks({"LParen", "RParen", "Comma", "Colon", "Linebreak", "Exclamation"}), 4, <<>>),
     maps |-> Goal(Sass, <<Mark["LParen"]>>,
         {Ident("a")} \cup Marks({"LParen", "RParen", "Comma", "Colon", "Linebreak"}), 5, Close)]

ValueGoals ==
    [calc |-> Goal(Scss, Call("max"),
         {One, Var, Minus1, Glued(Mark["LParen"])} \cup Idents({"f"}) \cup
         Marks({"Asterisk", "Percent", "LParen", "RParen", "Comma", "DotDotDot", "Colon"}), 4,
         <<>>),
     arguments |-> Goal(Scss, Call("f"),
         {Ident("a"), Var} \cup
         Marks({"Exclamation", "Minus", "LParen", "RParen", "Comma", "Colon", "DotDotDot",
                "Semicolon", "Unknown"}), 4, <<>>)]

(***************************************************************************)
(* Selectors.                                                               *)
(***************************************************************************)
SelectorTokens ==
    {Ident("a"), Glued(Ident("a")), Glued(Mark["Dot"])} \cup
    Marks({"Dot", "GreaterThan", "Ampersand", "Comma"})

SelectorGoals ==
    [cssSelectors |-> Goal(Css, <<Ident("a")>>,
         SelectorTokens \cup GluedMarks({"GreaterThan", "Solidus"}) \cup
         {Mark["Solidus"], Caret1, Glued(Caret1), Commented(Ident("a")), Token("Hash", "#a")}, 3,
         <<>>),
     scssSelectors |-> Goal(Scss, <<>>,
         SelectorTokens \cup {Mark["Percent"]} \cup
         GluedMarks({"HashLBrace", "RBrace", "Ampersand"}), 4, <<>>),
     sassSelectors |-> Goal(Sass, <<>>, SelectorTokens \cup Marks({"Indent", "Linebreak"}), 4, <<>>),
     lessSelectors |-> Goal(Less, <<>>,
         SelectorTokens \cup {Ident("when"), LessVar, Glued(LessVar)}, 4, <<>>),
     pseudo |-> Goal(Scss, <<Mark["Colon"]>>,
         {Ident("a"), Glued(Mark["LParen"])} \cup Marks({"RParen", "Comma", "Plus"}) \cup
         GluedIdents({"not", "has", "nth-child", "nth-col", "dir", "lang", "current", "n", "f"}), 4,
         <<>>),
     extend |-> Goal(Less, <<Mark["Ampersand"], Glued(Mark["Colon"]), Glued(Ident("extend")),
                             Glued(Mark["LParen"])>>,
         {Glued(Ident("all")), Glued(Mark["Dot"])} \cup Idents({"all", "a"}) \cup
         Marks({"Comma", "RParen", "GreaterThan"}), 4, Close),
     nth |-> Goal(Css, NthChild,
         {Glued(Ident("n"))} \cup Marks({"Plus", "Minus"}) \cup
         Idents({"n", "-n", "n-", "n-1", "odd", "a"}) \cup
         {Token("Dimension", n) : n \in {"2n", "2n-", "1px"}} \cup
         {Token("Number", n) : n \in {"1", "+1", "-1", "1.5"}}, 3, Close),
     nthOf |-> Goal(Css, NthChild,
         Idents({"n", "of", "a"}) \cup {Token("Number", "+1")} \cup Marks({"Plus", "Comma"}), 4,
         Close)]

(***************************************************************************)
(* Statements: at-rules by their preludes, rules and declarations.          *)
(***************************************************************************)
Opens == <<Ident("a"), Mark["LBrace"]>>

CssGoals ==
    [media |-> Goal(Css, <<Rule("media")>>,
         Idents({"a", "and"}) \cup
         Marks({"LParen", "RParen", "Colon", "Comma", "LessThan"}), 5, Body),
     mediaLogic |-> Goal(Css, <<Rule("media"), Mark["LParen"], Ident("a"), Mark["RParen"]>>,
         Idents({"and", "or", "not", "a"}) \cup Marks({"LParen", "RParen"}), 5, Body),
     supports |-> Goal(Css, <<Rule("supports"), Mark["LParen"]>>,
         Idents({"a", "and"}) \cup Marks({"LParen", "RParen", "Colon"}), 5, Body),
     supportsSelector |-> Goal(Css, <<Rule("supports"), Ident("selector"), Mark["LParen"]>>,
         Idents({"a", "and", "not"}) \cup Marks({"RParen", "GreaterThan", "Comma"}), 4, Body),
     container |-> Goal(Css, <<Rule("container")>>,
         Idents({"a", "and", "--a"}) \cup Marks({"LParen", "RParen", "Comma"})
         \cup GluedMarks({"LParen"}), 5, Body),
     style |-> Goal(Css, <<Rule("container"), Ident("style"), Glued(Mark["LParen"])>>,
         Idents({"--a", "and", "not"}) \cup
         Marks({"LParen", "RParen", "Colon", "Semicolon"}), 4, Body),
     import |-> Goal(Css, <<Rule("import"), Str>>,
         Idents({"layer", "supports", "a"}) \cup GluedMarks({"LParen"}) \cup
         Marks({"Comma", "RParen", "Semicolon", "Colon"}), 4, <<>>),
     importSupports |-> Goal(Css, <<Rule("import"), Str, Ident("supports"), Glued(Mark["LParen"])>>,
         {Ident("a")} \cup Marks({"LParen", "RParen", "Colon", "LBrace"}), 5, <<>>),
     layer |-> Goal(Css, <<Rule("layer")>>,
         Idents({"a", "inherit"}) \cup {Glued(Ident("a"))} \cup GluedMarks({"Dot"}) \cup
         Marks({"Comma", "LBrace", "Semicolon"}), 5, <<>>),
     page |-> Goal(Css, <<Rule("page")>>,
         {Ident("a"), Glued(Ident("a"))} \cup GluedMarks({"Colon", "LParen"}) \cup
         Marks({"Comma", "LBrace", "RParen"}), 4, Body),
     scope |-> Goal(Css, <<Rule("scope")>>,
         Idents({"a", "to"}) \cup Marks({"LParen", "RParen", "Comma"}), 4, Body),
     scopeEnd |-> Goal(Css, <<Rule("scope"), Mark["LParen"], Ident("a"), Mark["RParen"]>>,
         Idents({"a", "to"}) \cup Marks({"LParen", "RParen", "Comma"}), 4, Body),
     customSelector |-> Goal(Css, <<Rule("custom-selector")>>,
         {Glued(Ident("a")), Var, Ident("a"), Glued(Mark["Colon"])} \cup Marks({"Colon"}), 4, <<>>),
     customSelectorArgs |-> Goal(Css,
         <<Rule("custom-selector"), Mark["Colon"], Glued(Ident("a")), Mark["LParen"]>>,
         {Var, Ident("a")} \cup Marks({"RParen", "Comma"}), 5, <<>>),
     customMedia |-> Goal(Css, <<Rule("custom-media")>>,
         Idents({"a", "--a", "true"}) \cup Marks({"LParen", "RParen", "Semicolon"}), 4, <<>>),
     documents |-> Goal(Css, <<Rule("document")>>,
         {Ident("a"), Token("Url", "url"), Glued(Mark["LParen"])} \cup
         Marks({"RParen", "Comma"}), 5, Body),
     namespace |-> Goal(Css, <<Rule("namespace")>>,
         Idents({"a", "url"}) \cup {Str, Token("Url", "url")} \cup Marks({"Semicolon"}), 4, <<>>),
     names |-> Goal(Css, <<>>,
         {Rule(n) : n \in {"charset", "font-face", "color-profile", "font-feature-values",
                           "counter-style", "nest", "property"}} \cup
         Idents({"a", "none"}) \cup {Str} \cup Marks({"LBrace", "RBrace", "Semicolon"}), 3, <<>>),
     cssFunction |-> Goal(Css, <<Rule("function"), Ident("--a"), Glued(Mark["LParen"])>>,
         {Ident("a")} \cup Marks({"RParen", "LBrace", "Colon", "Semicolon", "RBrace"}), 5, <<>>),
     keyframesNames |-> Goal(Css, <<Rule("keyframes")>>,
         Idents({"a", "default"}) \cup {Str} \cup Marks({"Comma", "LBrace", "RBrace"}), 3, <<>>),
     keyframes |-> Goal(Css, <<Rule("keyframes"), Ident("a"), Mark["LBrace"]>>,
         Idents({"a", "from"}) \cup {Half} \cup
         Marks({"Comma", "LBrace", "RBrace", "Colon", "Semicolon"}), 4, Ended),
     rules |-> Goal(Css, <<>>,
         {Ident("a")} \cup Marks({"Colon", "LBrace", "RBrace", "Semicolon"}), 6, <<>>),
     raw |-> Goal(Css, Opens \o <<Ident("a"), Mark["Colon"]>>,
         {Ident("important")} \cup
         Marks({"Exclamation", "LParen", "RParen", "LBrace", "RBrace", "Semicolon"}), 4, Ended),
     custom |-> Goal(Css, Opens \o <<Ident("--a"), Mark["Colon"]>>,
         {Ident("important")} \cup
         Marks({"Exclamation", "LParen", "RParen", "LBrace", "RBrace", "Semicolon"}), 4, Ended),
     propertyNames |-> Goal(Css, Opens,
         {Ident("a"), Var} \cup GluedIdents({"a"}) \cup GluedMarks({"Colon", "Dot", "LParen"}) \cup
         Marks({"Colon", "RParen", "RBrace"}), 4, Ended),
     numeric |-> Goal(Css, <<>>,
         {Ident("a"), One, Half} \cup Marks({"Comma", "Colon", "LBrace", "RBrace", "LParen"}), 4,
         Body)]

ScssGoals ==
    [interpolated |-> Goal(Scss, <<Rule("media")>>,
         {Ident("a"), Var} \cup Marks({"HashLBrace", "RBrace", "LParen", "RParen"}), 5, Body),
     unknown |-> Goal(Scss, <<Rule("a")>>,
         {Ident("a")} \cup
         Marks({"LParen", "RParen", "Semicolon", "LBrace", "RBrace", "HashLBrace"}), 4, Ended),
     include |-> Goal(Scss, <<Rule("include"), Ident("a")>>,
         {Ident("using"), Var} \cup Marks({"Dot", "LParen", "RParen", "Semicolon"}), 5, Body),
     includeBlock |-> Goal(Scss, <<Rule("include"), Ident("a"), Mark["LBrace"]>>,
         {Ident("a"), Half} \cup Marks({"Comma", "LBrace", "RBrace", "Colon"}), 4, Ended),
     use |-> Goal(Scss, <<Rule("use"), Str>>,
         Idents({"as", "a", "with"}) \cup {Var} \cup
         Marks({"Asterisk", "LParen", "RParen", "Colon", "Comma"}), 4, <<>>),
     useConfig |-> Goal(Scss, <<Rule("use"), Str, Ident("with"), Mark["LParen"], Var, Mark["Colon"]>>,
         {Var, One} \cup Marks({"RParen", "Colon", "Comma", "Semicolon"}), 4, Close),
     forward |-> Goal(Scss, <<Rule("forward"), Str>>,
         Idents({"as", "a", "hide"}) \cup {Var, Glued(Mark["Asterisk"])} \cup
         Marks({"Comma", "Semicolon"}), 4, <<>>),
     forwardConfig |-> Goal(Scss,
         <<Rule("forward"), Str, Ident("with"), Mark["LParen"], Var, Mark["Colon"]>>,
         {One} \cup GluedIdents({"default", "a"}) \cup
         Marks({"Exclamation", "RParen", "Semicolon"}), 5, <<>>),
     parameters |-> Goal(Scss, <<Rule("mixin"), Ident("a"), Mark["LParen"]>>,
         {Var, One} \cup Marks({"RParen", "Colon", "Comma", "DotDotDot"}), 5, Body),
     content |-> Goal(Scss, <<Rule("content")>>,
         {Var, Rule("content")} \cup Marks({"LParen", "RParen", "Semicolon", "Comma"}), 4, <<>>),
     extends |-> Goal(Scss, <<Rule("extend")>>,
         {Ident("a"), Glued(Ident("optional")), Glued(Ident("a"))} \cup
         Marks({"Dot", "Exclamation", "Comma", "Semicolon", "Percent"}), 4, <<>>),
     atRoot |-> Goal(Scss, <<Rule("at-root")>>,
         Idents({"with", "a"}) \cup {Str} \cup Marks({"LParen", "RParen", "Colon"}), 5, Body),
     scssImport |-> Goal(Scss, <<Rule("import")>>,
         {Str, Ident("a"), Token("Url", "url")} \cup Marks({"Comma", "Semicolon"}), 4, <<>>),
     atNames |-> Goal(Scss, <<Mark["At"]>>,
         {Ident("a")} \cup GluedIdents({"a"}) \cup GluedMarks({"HashLBrace", "RBrace"}) \cup
         Marks({"Semicolon"}), 5, Body),
     scssRules |-> Goal(Scss, <<>>,
         {Ident("a"), Var} \cup
         Marks({"Colon", "LBrace", "RBrace", "Semicolon", "Ampersand"}), 5, <<>>),
     nested |-> Goal(Scss, Opens \o <<Ident("a"), Mark["Colon"]>>,
         {Ident("a")} \cup Marks({"Colon", "LBrace", "RBrace", "Plus"}), 5, Ended),
     important |-> Goal(Scss, Opens \o <<Ident("a"), Mark["Colon"]>>,
         Idents({"a", "important"}) \cup Marks({"Exclamation", "Comma", "Semicolon"}), 5, Ended),
     flags |-> Goal(Scss, <<Var, Mark["Colon"]>>,
         {Ident("a")} \cup GluedIdents({"default", "a"}) \cup
         Marks({"Exclamation", "Comma", "Semicolon"}), 5, <<>>),
     members |-> Goal(Scss, <<Ident("a"), Glued(Mark["Dot"])>>,
         {One, Var, Glued(Var), Glued(Ident("global"))} \cup
         Marks({"Colon", "Exclamation", "Semicolon"}), 5, <<>>),
     substitutes |-> Goal(Scss, <<>>,
         {Substitute, Glued(Substitute), OnNewLine(Substitute), Ident("a"),
          OnNewLine(Mark["LBrace"])} \cup Marks({"Colon", "LBrace", "RBrace"}), 4, <<>>)]

SassGoals ==
    [sassRules |-> Goal(Sass, <<>>,
         {Ident("a"), One} \cup Marks({"Colon", "Indent", "Dedent", "Linebreak"}), 6, <<>>),
     pending |-> Goal(Sass, <<Rule("for"), Var, Mark["Indent"]>>,
         Idents({"from", "to", "a"}) \cup Marks({"Indent", "Dedent", "Linebreak"}), 6, <<>>),
     levels |-> Goal(Sass, <<Ident("a"), Mark["Indent"]>>,
         {Ident("a")} \cup Marks({"Comma", "Indent", "Dedent", "Linebreak"}), 7, <<>>),
     pendingLevels |-> Goal(Sass,
         <<Ident("a"), Mark["Indent"], Rule("for"), Var, Mark["Indent"], Ident("from"), Ident("a"),
           Ident("to"), Ident("a")>>,
         {Ident("a")} \cup Marks({"Indent", "Dedent", "Linebreak"}), 6, <<>>),
     each |-> Goal(Sass, <<Rule("each"), Var>>,
         Idents({"in", "a"}) \cup {Var} \cup
         Marks({"Comma", "Indent", "Dedent", "Linebreak"}), 5, <<>>),
     function |-> Goal(Sass, <<Rule("function"), Ident("a")>>,
         {Ident("a"), Var, Rule("return")} \cup
         Marks({"LParen", "RParen", "Indent", "Dedent", "Linebreak"}), 5, <<>>),
     conditions |-> Goal(Sass, <<Rule("if"), Ident("a")>>,
         Idents({"a", "if"}) \cup {Rule("else"), Rule("elseif")} \cup
         Marks({"Indent", "Dedent", "Linebreak"}), 5, <<>>),
     shorthands |-> Goal(Sass, <<>>,
         {Ident("a"), Glued(Ident("a"))} \cup
         Marks({"Equal", "Plus", "Colon", "Indent", "Dedent", "Linebreak"}), 5, <<>>)]

(***************************************************************************)
(* What only Less has.                                                      *)
(***************************************************************************)
LessRef == Rule("a")
Hash == Token("Hash", "#a")

LessListGoals ==
    [lessOperators |-> Goal(Less, <<>>,
         {LessRef} \cup Marks({"Plus", "Asterisk", "Solidus", "LParen", "RParen"}), 5, <<>>),
     lessSigned |-> Goal(Less, <<>>,
         {Token("Dimension", "1px"), Glued(Token("Dimension", "-1px")), Minus1} \cup
         Marks({"Plus", "Asterisk", "Dot"}) \cup GluedMarks({"Solidus"}), 4, <<>>),
     lessAtoms |-> Goal(Less, <<>>,
         {Var, Glued(Str), Glued(LessRef), LessRef, Mark["At"]} \cup
         Marks({"Minus", "Tilde", "Percent", "BacktickCode", "RParen"}) \cup
         GluedMarks({"LParen"}), 4, <<>>),
     lookups |-> Goal(Less, <<LessRef, Glued(Mark["LBracket"])>>,
         {LessRef, Glued(LessRef), Ident("a"), Token("Unknown", "$")} \cup
         Marks({"At", "LBracket", "RBracket"}), 4, <<>>),
     namespaces |-> Goal(Less, <<Hash>>,
         {Ident("a"), Glued(Hash)} \cup Marks({"LParen", "RParen", "LBracket", "RBracket"}) \cup
         GluedMarks({"Dot"}), 4, <<>>)]

LessGoals ==
    [guards |-> Goal(Less, <<Ident("a"), Ident("when"), Mark["LParen"], Ident("a")>>,
         Idents({"a", "and"}) \cup
         Marks({"LParen", "RParen", "Comma", "GreaterThan", "Plus"}), 4, Body),
     operands |-> Goal(Less, <<Ident("a"), Ident("when"), Mark["LParen"], Mark["LParen"], LessRef,
                               Mark["Plus"], LessRef, Mark["RParen"]>>,
         {LessRef} \cup Marks({"RParen", "Equal", "Asterisk"}) \cup GluedMarks({"LessThan"}), 4,
         Body),
     guardLogic |-> Goal(Less, <<Ident("a"), Ident("when"), Ident("default")>>,
         Idents({"a", "and", "or", "not"}) \cup Marks({"LParen", "RParen"}), 4, Body),
     notGuards |-> Goal(Less, <<Ident("a"), Ident("when"), Ident("not")>>,
         Idents({"a", "and", "or"}) \cup Marks({"LParen", "RParen"}), 5, Body),
     call |-> Goal(Less, <<Mark["Dot"], Glued(Ident("a")), Mark["LParen"], LessRef>>,
         {LessRef} \cup Marks({"Comma", "Semicolon", "Colon", "RParen", "DotDotDot"}), 5, Close),
     groups |-> Goal(Less, <<Mark["Dot"], Glued(Ident("a")), Mark["LParen"], One, Mark["Comma"], One,
                             Mark["Semicolon"]>>,
         {LessRef, One} \cup Marks({"Comma", "Semicolon", "Colon"}), 5, Close),
     callWithBlock |-> Goal(Less, <<Mark["Dot"], Glued(Ident("a")), Mark["LParen"]>>,
         {LessRef} \cup Marks({"Semicolon", "Colon", "LBrace", "RBrace", "RParen"}), 5, Close),
     definition |-> Goal(Less, <<Mark["Dot"], Glued(Ident("a")), Mark["LParen"], LessRef>>,
         {LessRef, One} \cup Marks({"Comma", "Semicolon", "Colon", "DotDotDot"}), 5,
         Close \o Body),
     mixins |-> Goal(Less, <<>>,
         {Hash, Token("Dimension", ".3d")} \cup
         Marks({"LParen", "RParen", "GreaterThan", "LBrace", "RBrace"}), 5, <<>>),
     importantCall |-> Goal(Less, <<Hash, Mark["LParen"], Mark["RParen"]>>,
         {Ident("important"), Hash} \cup Marks({"Exclamation", "GreaterThan", "Semicolon"}), 3, <<>>),
     keyframesOfMixin |-> Goal(Less, <<Hash, Mark["LParen"], Mark["RParen"], Mark["LBrace"]>>,
         {Half, Ident("when")} \cup Marks({"LBrace", "RBrace"}), 4, Ended),
     variables |-> Goal(Less, <<LessRef>>,
         Idents({"a", "important"}) \cup GluedMarks({"LParen", "Exclamation"}) \cup
         Marks({"Colon", "LBrace", "RBrace", "RParen", "Semicolon"}), 4, <<>>),
     merges |-> Goal(Less, Opens,
         {Ident("a"), LessVar, Glued(LessVar), One, Mark["Asterisk"]} \cup GluedMarks({"Colon"}) \cup
         Marks({"Plus", "PlusUnderscore", "Semicolon"}), 4, Ended),
     functions |-> Goal(Less, Call("if"),
         {Ident("a"), Ident("and")} \cup GluedMarks({"LParen"}) \cup
         Marks({"Dot", "RParen", "LBrace", "RBrace", "Comma"}), 4, <<>>),
     callbacks |-> Goal(Less, Call("each") \o <<Mark["Dot"]>>,
         {LessRef} \cup GluedMarks({"LParen"}) \cup
         Marks({"RParen", "LBrace", "RBrace", "Semicolon"}), 5, <<>>),
     lessImport |-> Goal(Less, <<Rule("import")>>,
         {Str, Ident("less")} \cup Marks({"LParen", "RParen", "Comma", "Semicolon"}), 5, <<>>),
     plugin |-> Goal(Less, <<Rule("plugin")>>,
         {Str, Ident("a")} \cup Marks({"LParen", "RParen", "Semicolon", "LBrace"}), 4, <<>>),
     lessUnknown |-> Goal(Less, <<Rule("b")>>,
         {Ident("a"), LessRef, LessVar} \cup Marks({"LParen", "RParen", "Semicolon", "Comma"}), 4,
         Body)]

\* A query that is called.
QueryGoals ==
    [queries |-> Goal(Less, <<Rule("media")>>,
         {LessRef, Hash, Ident("a")} \cup GluedMarks({"LParen", "LBracket", "RParen"}) \cup
         Marks({"Comma", "RBracket"}), 4, Body)]

StatementGoals == CssGoals @@ ScssGoals @@ SassGoals @@ LessGoals @@ QueryGoals

AllGoals == ListGoals @@ LessListGoals @@ ValueGoals @@ SelectorGoals @@ StatementGoals

AllGoalNames == DOMAIN AllGoals

AllAlphabets == [g \in DOMAIN AllGoals |-> AllGoals[g].tokens]

AllBefore == [g \in DOMAIN AllGoals |-> AllGoals[g].before]

AllLengths == [g \in DOMAIN AllGoals |-> AllGoals[g].length]

AllAfter == [g \in DOMAIN AllGoals |-> AllGoals[g].after]

Reading(g) ==
    LET context == AllGoals[g].context
    IN  CASE g \in DOMAIN (ListGoals @@ LessListGoals) -> MaybeSassList(1, TRUE, context)
          [] g \in DOMAIN ValueGoals -> Value(1, context)
          [] g \in DOMAIN SelectorGoals -> SelectorList(1, InSelector(context))
          [] g \in DOMAIN StatementGoals -> Stylesheet(context)

Next == Write \/ Read

Spec == Init /\ [][Next]_grammarVars
=============================================================================
