------------------------------ MODULE MCBlocks ------------------------------
(* Instances of Blocks for TLC: all sources of a number of lines over some   *)
(* kinds of words and all widths up to a bound.                             *)
EXTENDS Blocks

CONSTANTS Kinds, MaxLines, MaxWidth

MCLines == [width : 0..MaxWidth, kind : Kinds]

Rest(n) == UNION {[1..k -> MCLines] : k \in 0..n}

\* A first line is at the margin, unless the source is short.
MCSources ==
    {<<>>}
    \cup {<<[width |-> 0, kind |-> k]>> \o rest : k \in Kinds, rest \in Rest(MaxLines - 1)}
    \cup {<<[width |-> 1, kind |-> k]>> \o rest : k \in Kinds, rest \in Rest(MaxLines - 2)}

\* A parse that has returned stays as it is, so that TLC's deadlock check tells
\* whether one stops anywhere else.
Returned == mode \in {"done", "failed"} /\ UNCHANGED vars

MCSpec == Init /\ [][Next \/ Returned]_vars
=============================================================================
