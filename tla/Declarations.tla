---------------------------- MODULE Declarations ----------------------------
(***************************************************************************)
(* Declarations: the name, the value as the typed grammar reads it or as    *)
(* raw tokens, and `!important`.                                            *)
(***************************************************************************)
EXTENDS Selectors

RECURSIVE NameRun(_, _, _), TypedValues(_, _, _)

(***************************************************************************)
(* Names.                                                                   *)
(***************************************************************************)
\* at_plain_ident_property_name
PlainName(i) ==
    /\ At(i, {"Ident"})
    /\ \/ ~Peek(i + 1).tight
       \/ Peek(i + 1).glued /\ At(i + 1, {"Colon", "ColonColon", "Semicolon", "LBrace", "RBrace"})

EndsName(i, tokens, open) ==
    \/ tokens # <<>> /\ ~Peek(i).glued
    \/ At(i, {"Eof", "Dedent", "Linebreak", "Placeholder"})
    \/ open = <<>> /\ At(i, {"Semicolon", "LBrace", "RBrace"})
    \/ open = <<>> /\ At(i, {"Colon"}) /\ tokens # <<>>
    \/ Stray(i, open)

\* parse_postcss_property_name: the tokens that touch, in pairs, and more than
\* one word.
NameRun(i, tokens, open) ==
    IF ~EndsName(i, tokens, open)
    THEN Then(Bump(i, "Token"), LAMBDA r : NameRun(r.at, Append(tokens, r.node), Track(i, open)))
    ELSE IF tokens = <<>> \/ open # <<>> \/ (Len(tokens) = 1 /\ At(i - 1, {"Ident"}))
    THEN Failed(i, "ExpectRule")
    ELSE Done(i, Span("Name", "", tokens))

\* Numbers and dimensions that are words, by their bytes.
WordLike(i) ==
    At(i, {"Number", "Dimension"}) /\ Peek(i).text \in {"1", "-1", "1px", "-1px"}

DeclarationName(i, c) ==
    LET typed == InterpolableIdent(i, [c EXCEPT !.rule = "Name"])
    IN  IF c.syntax = "Css" /\ c.statement /\ ~PlainName(i)
        THEN Else(NameRun(i, <<>>, <<>>), typed)
        ELSE IF c.syntax = "Less" /\ c.statement /\ WordLike(i) THEN Bump(i, "Ident")
        ELSE typed

\* The `*` hack: only glued to the name.
StarPrefix(i, c) ==
    /\ c.syntax # "Css"
    /\ c.statement
    /\ At(i, {"Asterisk"})
    /\ Peek(i + 1).glued
    /\ ~At(i + 1, {"Solidus"})

StarSuffix(i) == At(i, {"Asterisk"}) /\ Peek(i).glued

\* `+` and `+_`, which merge a property of Less with those before it.
Merge(i, c) == c.syntax = "Less" /\ At(i, {"Plus", "PlusUnderscore"})

IsLiteral(name) == name.kind \in {"Ident", "Name"}

IsCustomProperty(name) == Peek(TokenAt(name.from)).text = "--a"

(***************************************************************************)
(* Values.  `Valued` is a value and its annotation, Nothing if it has none. *)
(***************************************************************************)
Valued(kind, values, important) == Node("Group", kind, 0, 0, <<Group(values), important>>)

ValueEnd == {"Semicolon", "RBrace", "RParen", "Dedent", "Linebreak", "Eof"}

\* at_statement_value_end
EndsStatementValue(i, c) == At(i, ValueEnd) /\ ~(c.statement /\ At(i, {"RParen"}))

MaybeImportant(i, c) ==
    IF At(i, {"Exclamation"}) THEN ImportantAnnotation(i, c) ELSE Done(i, Nothing)

InValue(c) == [c EXCEPT !.rule = "Value"]

\* parse_declaration_value; a block of properties is the last value.
TypedValues(i, values, c) ==
    IF At(i, ValueEnd \cup {"Exclamation"}) THEN Done(i, Group(values))
    ELSE Then(Value(i, InValue(c)), LAMBDA r :
             LET more == Append(values, r.node)
             IN  IF r.node.kind = "Nested" THEN Done(r.at, Group(more))
                 ELSE TypedValues(r.at, more, c))

\* parse_whole_declaration_value
WholeValue(i, c) ==
    Then(TypedValues(i, <<>>, c), LAMBDA v :
        Then(MaybeImportant(v.at, c), LAMBDA important :
            IF EndsStatementValue(important.at, c)
            THEN Done(important.at, Valued("typed", v.node.kids, important.node))
            ELSE Failed(important.at, "ExpectComponentValue")))

\* Mutant of RawValue: a brace does not end it.
RawValueThroughBraces(i, stopAtBrace) ==
    As(Balanced(i, <<>>, <<>>, {"Semicolon"}, {"Dedent", "Linebreak"}), LAMBDA raw : raw)

\* parse_declaration_value_tokens; the end of the file in a pair is reported at
\* the outermost one.
RawValue(i, stopAtBrace) ==
    Then(Balanced(i, <<>>, <<>>, {"Semicolon"} \cup (IF stopAtBrace THEN {"LBrace"} ELSE {}),
                  {"Dedent", "Linebreak"}),
         LAMBDA r :
            IF At(r.at, {"Eof"}) /\ r.node.op = "open"
            THEN Report(Done(r.at, r.node), TokenAt(r.node.from))
            ELSE Done(r.at, r.node))

RawValued(node) == Valued("raw", node.kids, Nothing)

\* Mutant of TakeImportant: the annotation stays among the tokens.
TakeImportantCopies(r) ==
    As(r, LAMBDA raw :
        LET tokens == raw.kids
            n == Len(tokens)
        IN  IF n >= 2 /\ AtIdent(r.at - 1, {"important"})
            THEN Valued("raw", tokens,
                        Node("Important", "", tokens[n - 1].from, tokens[n].to, <<tokens[n]>>))
            ELSE RawValued(raw))

\* take_raw_important
TakeImportant(r) ==
    Then(r, LAMBDA raw :
        LET tokens == raw.node.kids
            n == Len(tokens)
        IN  IF /\ raw.node.op = "closed"
               /\ n >= 2
               /\ At(raw.at - 2, {"Exclamation"})
               /\ AtIdent(raw.at - 1, {"important"})
            THEN Done(raw.at, Valued("raw", SubSeq(tokens, 1, n - 2),
                                     Node("Important", "", tokens[n - 1].from, tokens[n].to,
                                          <<tokens[n]>>)))
            ELSE Done(raw.at, RawValued(raw.node)))

\* A block outside of all pairs makes a rule of what looked like a declaration.
CssRaw(i, c) ==
    Then(RawValue(i, ~c.fnBody), LAMBDA r :
        IF At(r.at, {"LBrace"}) /\ ~c.fnBody THEN Failed(r.at, "BlockInDeclarationValue")
        ELSE Done(r.at, r.node))

DeclarationValue(name, i, c) ==
    LET whole == WholeValue(i, c)
    IN  IF IsCustomProperty(name) \/ (IsLiteral(name) /\ AtIdent(i, {"progid"}))
        THEN Else(whole, TakeImportant(RawValue(i, FALSE)))
        ELSE IF c.syntax = "Css" \/ (c.fnBody /\ IsLiteral(name))
        THEN Else(whole, TakeImportant(CssRaw(i, c)))
        ELSE As(TypedValues(i, <<>>, c), LAMBDA v : Valued("typed", v.kids, Nothing))

\* `!important`; in Scss and Sass more values may follow it, which makes it one
\* of them.
DeclarationEnd(valued, i, c) ==
    LET RECURSIVE MidValue(_, _, _)
        MidValue(j, values, important) ==
            IF ~IsSass(c) \/ important.kind = "Nothing" \/ At(j, ValueEnd)
            THEN Done(j, Valued(valued.op, values, important))
            ELSE Then(TypedValues(j, Append(values, important), c), LAMBDA more :
                 Then(MaybeImportant(more.at, c), LAMBDA r :
                    MidValue(r.at, more.node.kids, r.node)))
    IN  Then(IF valued.kids[2].kind = "Nothing" THEN MaybeImportant(i, c)
             ELSE Done(i, valued.kids[2]),
             LAMBDA r : MidValue(r.at, valued.kids[1].kids, r.node))

\* Declaration::parse
DeclarationOf(i, c) ==
    LET Declared(from, name, colon, valued) ==
            LET parts == Present(valued.kids[1].kids \o <<valued.kids[2]>>)
            IN  Node("Declaration", valued.op, from,
                     IF parts = <<>> THEN colon.to ELSE parts[Len(parts)].to, <<name>> \o parts)
    IN  Then(IF StarPrefix(i, c) THEN Bump(i, "Token") ELSE Done(i, Nothing), LAMBDA star :
        Then(DeclarationName(star.at, c), LAMBDA name :
        Then(IF StarSuffix(name.at) THEN Bump(name.at, "Token") ELSE Done(name.at, Nothing),
             LAMBDA suffix :
        Then(IF Merge(suffix.at, c) THEN Bump(suffix.at, "Token") ELSE Done(suffix.at, Nothing),
             LAMBDA merge :
        Then(Expect(merge.at, "Colon"), LAMBDA colon :
        Then(DeclarationValue(name.node, colon.at, c), LAMBDA v :
            As(DeclarationEnd(v.node, v.at, c), LAMBDA valued :
                Declared(Start(i), name.node, colon.node, valued))))))))

\* PostcssSimpleVarDeclaration: `!important` stays one of the values.
SimpleVarDeclaration(i, c) ==
    LET inside == [c EXCEPT !.statement = TRUE]
    IN  Then(Expect(i, "DollarVar"), LAMBDA name :
        Then(Expect(name.at, "Colon"), LAMBDA colon :
        As(Else(WholeValue(colon.at, inside),
                As(CssRaw(colon.at, inside), RawValued)),
           LAMBDA valued :
            LET parts == Present(valued.kids[1].kids \o <<valued.kids[2]>>)
            IN  Node("Declaration", valued.op, Start(i),
                     IF parts = <<>> THEN colon.node.to ELSE parts[Len(parts)].to,
                     <<name.node>> \o parts))))
=============================================================================
