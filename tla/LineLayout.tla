----------------------------- MODULE LineLayout -----------------------------
(***************************************************************************)
(* What the layout of the indented syntax promises the parser, with no word *)
(* on bytes or blocks: in front of the words of a line come the tokens that  *)
(* compare its width with the levels that are open, one Dedent for each      *)
(* level it leaves, and behind the last line the end of the source.          *)
(*                                                                         *)
(* A line is known by a number that grows from line to line; a word stands   *)
(* for whatever content a line has.                                         *)
(***************************************************************************)
EXTENDS Naturals, Sequences, SequencesExt

VARIABLES
    widths,     \* the lines and how far each is indented
    left,       \* the lines no word of which has been read
    begun,      \* the line break in front of the next of them has been read
    indents,    \* the levels that are open, over the root's 0
    width,      \* the width of the line that was begun last
    token       \* the token that was made last and has not been taken

lvars == <<widths, left, begun, indents, width, token>>

NextLine == CHOOSE i \in left : \A j \in left : i <= j

Deepest == Last(indents)

\* Blanks in front of the first line count as its indentation only if a line
\* break is among them.
LInit ==
    /\ left = DOMAIN widths /\ left \subseteq Nat /\ widths \in [left -> Nat]
    /\ begun \in BOOLEAN /\ indents = <<0>> /\ width = 0 /\ token = "none"

Take == token # "none" /\ token' = "none" /\ UNCHANGED <<widths, left, begun, indents, width>>

\* The break in front of the next line closes one of the levels that line leaves.
Break ==
    /\ left # {} /\ ~begun /\ Deepest <= width
    /\ begun' = TRUE /\ width' = widths[NextLine]
    /\ \/ width' > Deepest /\ indents' = Append(indents, width') /\ token' = "indent"
       \/ width' < Deepest /\ indents' = Front(indents) /\ token' = "dedent"
       \/ width' = Deepest /\ UNCHANGED indents /\ token' = "linebreak"
    /\ UNCHANGED <<widths, left>>

\* The others close one by one, before anything of the line is read.
Dedent ==
    /\ left # {} /\ begun /\ Deepest > width
    /\ indents' = Front(indents) /\ token' = "dedent"
    /\ UNCHANGED <<widths, left, begun, width>>

FirstWord ==
    /\ left # {} /\ begun /\ Deepest <= width
    /\ left' = left \ {NextLine} /\ begun' = FALSE /\ token' = "word"
    /\ UNCHANGED <<widths, indents, width>>

FurtherWord ==
    /\ ~begun /\ Deepest <= width
    /\ token' = "word"
    /\ UNCHANGED <<widths, left, begun, indents, width>>

\* The end closes no level.
Eof ==
    /\ left = {} /\ token' = "eof"
    /\ UNCHANGED <<widths, left, begun, indents, width>>

\* A line dedented to a width between two levels makes that width a level.
Reopen ==
    /\ Deepest < width
    /\ indents' = Append(indents, width)
    /\ UNCHANGED <<widths, left, begun, width, token>>

LNext == Take \/ Break \/ Dedent \/ FirstWord \/ FurtherWord \/ Eof \/ Reopen

LSpec == LInit /\ [][LNext]_lvars
=============================================================================
