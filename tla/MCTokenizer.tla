---------------------------- MODULE MCTokenizer ----------------------------
(***************************************************************************)
(* Instances of Tokenizer for TLC.  A source is a sequence of atoms, short  *)
(* runs of bytes chosen so that every source of a run has something of the  *)
(* run's question in it.                                                    *)
(***************************************************************************)
EXTENDS Tokenizer

CONSTANTS MaxAtoms, MaxLines, MaxWidth

Texts(atoms, n) == {FlattenSeq(a) : a \in UNION {[1..k -> atoms] : k \in 0..n}}

\* Lines of names (and, in shorter sources, brackets) at every indentation.
Line(width, content) == <<"nl">> \o [i \in 1..width |-> "sp"] \o content

Lines(width, contents) == {Line(w, c) : w \in 0..width, c \in contents}

LayoutSources ==
    {<<"name">> \o t : t \in Texts(Lines(MaxWidth, {<<"name">>}), MaxLines)
                        \cup Texts(Lines(2, {<<"name">>, <<"open">>, <<"close">>}), MaxLines - 1)}

\* Comments between lines, and what looks like one.
CommentSources ==
    Texts({<<"slash", "star">>, <<"star", "slash">>, <<"slash", "slash">>, <<"slash">>,
           <<"name">>, <<"nl">>, <<"nl", "sp">>, <<"cr", "nl">>}, MaxAtoms)

\* Strings, their escapes and their ends.
StringSources ==
    Texts({<<"quote">>, <<"bslash">>, <<"name">>, <<"nl">>, <<"hash">>,
           <<"at", "lbrace">>, <<"rbrace">>}, MaxAtoms)

\* Interpolations nested in strings, in url() bodies and in each other.
InterpolationSources ==
    Texts({<<"quote">>, <<"hash", "lbrace">>, <<"rbrace">>}, MaxAtoms + 4)
    \cup Texts({<<"quote">>, <<"hash", "lbrace">>, <<"rbrace">>, <<"lbrace">>, <<"nl">>,
                <<"open">>, <<"close">>}, MaxAtoms)
    \cup Texts({<<"name", "open">>, <<"hash", "lbrace">>, <<"rbrace">>, <<"close">>,
                <<"sp">>}, MaxAtoms + 1)

LexingSources == CommentSources \cup StringSources \cup InterpolationSources

\* Layout across comments; a line break may end the source.
CommentedLayoutSources ==
    {<<"name">> \o t \o end :
        t \in Texts(Lines(IF MaxWidth > 2 THEN 2 ELSE MaxWidth,
                         {<<"name">>, <<"slash", "slash", "name">>}), MaxLines - 1),
        end \in {<<>>, <<"nl">>}}

\* A block comment in front of a line's content, here an interpolated string.
BlockCommented ==
    {<<"name">> \o t \o Line(w, <<"slash", "star", "star", "slash">> \o blank
                                  \o <<"quote", "hash", "lbrace", "name", "rbrace", "quote">>) :
        t \in Texts(Lines(2, {<<"name">>}), MaxLines - 1), w \in 0..2, blank \in {<<>>, <<"sp">>}}

\* Blanks in front of lines, behind their content and on empty ones.
BlankSources == Texts({<<"name">>, <<"sp">>, <<"nl">>}, MaxAtoms + 3)

TokenSources ==
    LexingSources \cup LayoutSources \cup CommentedLayoutSources \cup BlockCommented
    \cup BlankSources
=============================================================================
