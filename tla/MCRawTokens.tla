---------------------------- MODULE MCRawTokens ----------------------------
(* Instances of RawTokens for TLC: sources made of atoms, at most Short or    *)
(* Long of them.                                                            *)
EXTENDS RawTokens

CONSTANTS Short, Long

Texts(atoms, n) == {FlattenSeq(a) : a \in UNION {[1..k -> atoms] : k \in 0..n}}

Single(symbols) == {<<s>> : s \in symbols}

Interpolation == <<"hash", "lbrace">>

\* Pairs, terminators and annotations.
PairSources ==
    Texts(Single({"lparen", "rparen", "lbrace", "rbrace", "lbracket", "semi", "bang", "important"}),
          Long)
    \cup Texts(Single({"lparen", "rparen", "lbracket", "rbracket", "lbrace", "rbrace", "dq", "nl",
                       "stray"}), Short)

\* Strings, their interpolations and what a string's text could be taken for.
StringSources ==
    Texts(Single({"dq", "sq", "rbrace", "rparen", "semi", "nl"}) \cup {Interpolation}, Short)
    \cup Texts(Single({"dq", "sq", "rbrace"}) \cup {Interpolation}, Long + 1)
    \cup Texts(Single({"dq", "rbrace"}) \cup {<<"hash", "lbrace", "word">>, <<"rbrace", "dq">>},
               Long + 2)

\* Brackets in the interpolation of a string, and what may follow the string.
BracketSources ==
    {open \o <<"dq">> \o Interpolation \o inner \o <<"rbrace", "dq">> \o rest :
       open \in {<<>>, <<"lparen">>},
       inner \in Texts(Single({"lparen", "rparen", "lbracket", "word"}), 2),
       rest \in Texts(Single({"nl", "indent", "rparen", "semi"}), 2)}

\* Annotations and line breaks around them.
AnnotationSources == Texts(Single({"word", "bang", "important", "nl", "indent", "lparen"}), Long)

RawSources == PairSources \cup StringSources \cup BracketSources \cup AnnotationSources

\* A run that has been returned stays as it is, so that TLC's deadlock check tells
\* whether one stops anywhere else.
Returned == mode \in {"done", "failed"} /\ UNCHANGED vars

MCSpec == Init /\ [][Next \/ Returned]_vars
=============================================================================
