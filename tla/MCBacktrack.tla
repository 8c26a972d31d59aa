---------------------------- MODULE MCBacktrack ----------------------------
(* Instances of Backtrack for TLC: all streams of tokens and comments up to  *)
(* a length, and streams with continuation lines that end at once, behind a    *)
(* further line break, or not at all.                                        *)
EXTENDS Backtrack

CONSTANTS Alphabet, MaxLen

Continuations ==
    {<<"indent", "dedent">>, <<"indent", "indent">>, <<"indent", "linebreak", "dedent">>}

MCStreams == UNION {[1..n -> Alphabet] : n \in 0..MaxLen} \cup Continuations
=============================================================================
