------------------------------ MODULE Grammar ------------------------------
(***************************************************************************)
(* What every parse function is made of.  A grammar reads `source`, a       *)
(* sequence of tokens, and is a pure function of the index it starts at and *)
(* of the context it runs in; its result is a tree, or a failure at a       *)
(* token.  `goal` says which grammar reads the source; a source is written  *)
(* token by token and then read, once.                                      *)
(***************************************************************************)
EXTENDS Naturals, Sequences, FiniteSets

CONSTANTS
    Goals,      \* the grammars read
    Alphabet,   \* the tokens a goal's sources are made of
    Before,     \* the tokens they begin with
    MaxTokens,  \* how many follow these
    After,      \* the tokens they end with
    Parse(_)    \* the grammar of a goal

VARIABLES
    goal,
    source,
    result

grammarVars == <<goal, source, result>>

(***************************************************************************)
(* Tokens.  `glued` says that no blank and no comment stands in front,      *)
(* `tight` that no blank does, and `fresh` that a new line begins there.    *)
(***************************************************************************)
Token(kind, text) ==
    [kind |-> kind, text |-> text, glued |-> FALSE, tight |-> FALSE, fresh |-> FALSE]

Glued(token) == [token EXCEPT !.glued = TRUE, !.tight = TRUE]

Commented(token) == [token EXCEPT !.tight = TRUE]

OnNewLine(token) == [token EXCEPT !.fresh = TRUE]

Eof == Token("Eof", "")

Peek(i) == IF i \in DOMAIN source THEN source[i] ELSE Eof

At(i, kinds) == Peek(i).kind \in kinds

AtIdent(i, names) == Peek(i).kind = "Ident" /\ Peek(i).text \in names

Layout == {"Indent", "Dedent", "Linebreak"}

\* Offsets: a token begins at a multiple of three, so that a sign can be split
\* off its number, and ends where the next one begins if that is glued to it.
Start(i) == 3 * i

End(i) == IF Peek(i + 1).glued THEN 3 * i + 3 ELSE 3 * i + 2

\* The token an offset of the tree belongs to.
TokenAt(offset) == offset \div 3

(***************************************************************************)
(* Trees.  A node has the span the code computes for it.                    *)
(***************************************************************************)
Node(kind, op, from, to, kids) ==
    [kind |-> kind, op |-> op, from |-> from, to |-> to, kids |-> kids]

Leaf(i, kind) == Node(kind, Peek(i).text, Start(i), End(i), <<>>)

\* A node from the first of its children to the last.
Span(kind, op, kids) == Node(kind, op, kids[1].from, kids[Len(kids)].to, kids)

\* What a parse function that only reads makes of nothing.
Nothing == Node("Nothing", "", 0, 0, <<>>)

(***************************************************************************)
(* Results.  `errs` are the tokens recoverable errors were reported at,     *)
(* `work` counts the tokens taken, those of abandoned attempts included,    *)
(* and `broken` names the debug assertions that failed on the way.          *)
(***************************************************************************)
Done(i, node) ==
    [ok |-> TRUE, at |-> i, node |-> node, errs |-> {}, work |-> 0, broken |-> {}]

Failed(i, why) ==
    [ok |-> FALSE, at |-> i, node |-> Node(why, "", 0, 0, <<>>), errs |-> {}, work |-> 0,
     broken |-> {}]

\* What the code leaves out of a node.
Present(nodes) == SelectSeq(nodes, LAMBDA n : n.kind # "Nothing")

NotRead == Failed(0, "NotRead")

Bump(i, kind) == [Done(i + 1, Leaf(i, kind)) EXCEPT !.work = 1]

Expect(i, kind) == IF At(i, {kind}) THEN Bump(i, kind) ELSE Failed(i, kind)

\* expect_*_without_ws_or_comments, and expect_* under assert_no_ws_or_comment.
ExpectGlued(i, kind) ==
    IF At(i, {kind}) /\ Peek(i).glued THEN Bump(i, kind) ELSE Failed(i, kind)

\* `?`: what comes after a success, and what it adds to the errors.
Then(r, Next(_)) ==
    IF ~r.ok THEN r
    ELSE LET s == Next(r)
         IN  [s EXCEPT !.errs = @ \cup r.errs, !.work = @ + r.work, !.broken = @ \cup r.broken]

\* try_parse: the attempt, or what is read in its place; errors of a failed
\* attempt are rolled back.
Else(attempt, other) ==
    IF attempt.ok THEN attempt
    ELSE [other EXCEPT !.work = @ + attempt.work, !.broken = @ \cup attempt.broken]

\* .map_err(|_| error): of two failures the first is told.
ElseFirst(attempt, other) ==
    IF attempt.ok \/ other.ok THEN Else(attempt, other)
    ELSE [attempt EXCEPT !.work = @ + other.work, !.broken = @ \cup other.broken]

\* .map: the same reading as another node.
As(r, Make(_)) == IF r.ok THEN [r EXCEPT !.node = Make(r.node)] ELSE r

\* recoverable_errors.push
Report(r, i) == IF r.ok THEN [r EXCEPT !.errs = @ \cup {i}] ELSE r

\* debug_assert!
DebugAssert(r, holds, name) == IF holds THEN r ELSE [r EXCEPT !.broken = @ \cup {name}]

\* A token the code may take or not: eat_*.
Eat(i, kind) == IF At(i, {kind}) THEN Bump(i, kind) ELSE Done(i, Nothing)

\* The first token from `i` on that is of none of these kinds.
Beyond(i, kinds) ==
    CHOOSE j \in i..(Len(source) + 1) :
        ~At(j, kinds) /\ \A k \in i..(j - 1) : At(k, kinds)

\* eat_sass_line_continuation
LineContinuation(i, c) ==
    IF c.syntax = "Sass"
    THEN LET j == Beyond(i, {"Indent", "Linebreak"})
         IN  [Done(j, Nothing) EXCEPT !.work = j - i]
    ELSE Done(i, Nothing)

(***************************************************************************)
(* Pairs (track_paired_token).  `open` is the stack of the pairs open: the  *)
(* closer each waits for, and where it was opened, the innermost first.     *)
(***************************************************************************)
Closer == [LParen |-> "RParen", LBracket |-> "RBracket", LBrace |-> "RBrace",
           HashLBrace |-> "RBrace"]

Closes(i) == At(i, {"RParen", "RBracket", "RBrace"})

\* Mutant of Stray: a closer is taken for a token where no pair is open.
StrayInPairs(i, open) == Closes(i) /\ open # <<>> /\ Peek(i).kind # Head(open).closer

\* A closer that is not the innermost pair's.
Stray(i, open) == Closes(i) /\ (open = <<>> \/ Peek(i).kind # Head(open).closer)

Track(i, open) ==
    IF Peek(i).kind \in DOMAIN Closer
    THEN <<[closer |-> Closer[Peek(i).kind], at |-> i]>> \o open
    ELSE IF Closes(i) /\ open # <<>> THEN Tail(open) ELSE open

\* The tokens up to one of `stops` outside of all pairs, one of `always`, or a
\* stray closer; `from` tells where the outermost pair left open begins.
RECURSIVE Balanced(_, _, _, _, _)
Balanced(i, tokens, open, stops, always) ==
    IF \/ At(i, always \cup {"Eof"})
       \/ At(i, stops) /\ open = <<>>
       \/ Stray(i, open)
    THEN Done(i, IF open = <<>> THEN Node("Group", "closed", 0, 0, tokens)
                 ELSE Node("Group", "open", Start(open[Len(open)].at), 0, tokens))
    ELSE Then(Bump(i, "Token"), LAMBDA r :
             Balanced(r.at, Append(tokens, r.node), Track(i, open), stops, always))

\* What `Inside` reads, in parentheses.
Parens(i, kind, Inside(_)) ==
    Then(Expect(i, "LParen"), LAMBDA open :
        Then(Inside(open.at), LAMBDA r :
            As(Expect(r.at, "RParen"), LAMBDA close :
                Node(kind, "", Start(i), close.to,
                     IF r.node.kind = "Nothing" THEN <<>> ELSE <<r.node>>))))

\* Items separated by commas.
Commas(i, kind, Item(_)) ==
    LET RECURSIVE Rest(_, _)
        Rest(j, items) ==
            Then(Item(j), LAMBDA r :
                IF At(r.at, {"Comma"})
                THEN Then(Bump(r.at, "Comma"), LAMBDA comma :
                         Rest(comma.at, Append(items, r.node)))
                ELSE Done(r.at, Span(kind, "", Append(items, r.node))))
    IN  Rest(i, <<>>)

\* Items of one kind that follow one another.
Run(i, kind, first, kinds, Item(_)) ==
    LET RECURSIVE Rest(_, _)
        Rest(j, items) ==
            IF At(j, kinds)
            THEN Then(Item(j), LAMBDA r : Rest(r.at, Append(items, r.node)))
            ELSE Done(j, Span(kind, "", items))
    IN  Rest(i, first)

(***************************************************************************)
(* Reading trees, for the properties.                                       *)
(***************************************************************************)
RECURSIVE Nodes(_)
Nodes(node) == {node} \cup UNION {Nodes(node.kids[k]) : k \in DOMAIN node.kids}

RECURSIVE Leaves(_), LeavesOf(_, _)
Leaves(node) ==
    IF node.kids = <<>>
    THEN IF node.kind \in {"Gap", "Nothing", "Block"} THEN <<>> ELSE <<TokenAt(node.from)>>
    ELSE LeavesOf(node.kids, 1)
LeavesOf(kids, k) ==
    IF k > Len(kids) THEN <<>> ELSE Leaves(kids[k]) \o LeavesOf(kids, k + 1)

\* `unreachable!` ends the reading, whatever would have been tried next.
Accepted == result.ok /\ "unreachable" \notin result.broken

(***************************************************************************)
(* Writing a source, and reading it.                                        *)
(***************************************************************************)
\* Two words without a blank between them are one word, and nothing is glued
\* to the beginning of the source.
Word == {"Ident", "Number", "Dimension", "Percentage", "DollarVar", "AtKeyword", "Hash"}

Touches(before, token) ==
    token.glued =>
        \/ before.kind \notin Word
        \/ token.kind \notin Word
        \/ token.text \in {"+1", "+1px"}
        \/ before.kind = "Number" /\ token.text \in {"-1", "-1px"}

\* A line begins with one token of layout, or with as many Dedents as it closes
\* levels.
Count(from, i, kind) == Cardinality({k \in from..(i - 1) : At(k, {kind})})

BeginsLine(n, token) ==
    token.kind \in Layout =>
        /\ ~At(n, {"Eof", "Indent", "Linebreak"})
        /\ At(n, {"Dedent"}) => token.kind = "Dedent"
        /\ token.kind = "Dedent" => Count(1, n + 1, "Dedent") < Count(1, n + 1, "Indent")

\* Whether `token` may stand behind the first `n`.
Tokenizes(n, token) == Touches(Peek(n), token) /\ BeginsLine(n, token)

Init ==
    /\ goal \in Goals
    /\ source = Before[goal] \o After[goal]
    /\ result = NotRead

Write ==
    LET n == Len(source) - Len(After[goal])
    IN  /\ result = NotRead
        /\ n < Len(Before[goal]) + MaxTokens[goal]
        /\ \E token \in Alphabet[goal] :
              /\ Tokenizes(n, token)
              /\ source' = SubSeq(source, 1, n) \o <<token>> \o After[goal]
        /\ UNCHANGED <<goal, result>>

Read ==
    /\ result = NotRead
    /\ source # <<>>
    /\ result' = Parse(goal)
    /\ UNCHANGED <<goal, source>>

(***************************************************************************)
(* What every grammar owes its reader.                                      *)
(***************************************************************************)
\* Nodes of the code that do not cover their children: a selector that ends
\* with a combinator, the name of an id that goes on with an interpolation, an
\* `@forward`, and `selector()` in a condition.
Loose == {"Group", "Nothing", "Dangling", "IdName", "Forward", "SupportsSelector"}

\* Spans are computed by hand, one at a time: every node covers its children,
\* and they stand in it in the order of the source, without overlap.  A block
\* of Sass may be empty.
SpansNest ==
    Accepted =>
        \A node \in Nodes(result.node) :
            node.kind \notin Loose =>
                /\ IF node.kind = "Block" THEN node.from <= node.to ELSE node.from < node.to
                /\ \A k \in DOMAIN node.kids :
                      /\ node.from <= node.kids[k].from
                      /\ node.kids[k].to <= node.to
                      /\ k > 1 => node.kids[k - 1].to <= node.kids[k].from

\* Tokens that carry the meaning of a source; the others are marks between them.
Carries(i) ==
    \/ At(i, {"Number", "Dimension", "Percentage", "DollarVar", "Hash", "Str", "Placeholder",
              "Ampersand", "AtKeyword"})
    \/ At(i, {"Ident"}) /\ Peek(i).text \notin {"and", "or", "not", "if"}

\* Whatever was tried and abandoned on the way, the tree holds every token that
\* was taken for good, once and in order; but one that was reported may be left
\* out.
EveryTokenOnce ==
    Accepted =>
        LET leaves == Leaves(result.node)
        IN  /\ \A k \in 2..Len(leaves) : leaves[k - 1] < leaves[k]
            /\ \A i \in 1..(result.at - 1) :
                  Carries(i) /\ i \notin result.errs => \E k \in DOMAIN leaves : leaves[k] = i
=============================================================================
