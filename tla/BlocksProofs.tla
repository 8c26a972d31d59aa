---------------------------- MODULE BlocksProofs ----------------------------
(***************************************************************************)
(* The books of blocks and continuation lines balance, for every source:    *)
(* as many levels as blocks and owed Indents, and no Dedent left over; and   *)
(* what a block holds is deeper than the statement it belongs to.           *)
(***************************************************************************)
EXTENDS Blocks, Stacks

----------------------------------------------------------------------------
(***************************************************************************)
(* The strengthening.  A statement may only begin where every level its line *)
(* left is closed: the parser never asks for a token in the loop of          *)
(* parse_statements while a Dedent is due, unless every Indent it owes one    *)
(* for has been drained.                                                    *)
(***************************************************************************)
\* The root level is never popped.
Rooted == indents # <<>> /\ indents[1] = 0

\* Eof is read behind the last line, a Dedent before the end.
CachedWhere ==
    /\ cached = "eof" => next > Len(lines)
    /\ cached = "dedent" => next <= Len(lines)

\* Whoever looks at an Indent or a Linebreak is on a line as wide as its level.
AtLineStart == cached \in {"linebreak", "indent"} => begun /\ Top = width

\* No Dedent can come between two statements of a block.
StatementsStart ==
    (mode = "statements" /\ cached = "none") => (Top <= width /\ (begun \/ Top = 0))

\* A Dedent that ends a block is not one that a continuation owes.
DedentIsBlocks == (mode \in {"statements", "close"} /\ cached = "dedent") => pending = 0

\* A block is closed by the token that ended its statements.
CloserPeeked == mode = "close" => cached \in {"dedent", "eof"}

Books == /\ LevelsAccounted /\ Rooted
         /\ CachedWhere /\ AtLineStart /\ StatementsStart /\ DedentIsBlocks /\ CloserPeeked

(***************************************************************************)
(* Why children are deeper.  The parser knows depths only as the length of   *)
(* the level stack, so the invariant says which level each open block's      *)
(* owner stands at: that of its own index.  This is true as long as the      *)
(* owner began with no Indent owed, and it needs the balance to be exact     *)
(* until the end of the source starts to close blocks without Dedents.      *)
(***************************************************************************)
Exactly ==
    (\/ mode \in {"statements", "header", "block"}
     \/ mode = "after" /\ drained
     \/ next <= Len(lines)
     \/ cached \notin {"none", "eof"}) => Len(open) + pending = Told

Rising == \A i, j \in 1..Len(indents) : i < j => indents[i] < indents[j]

\* The width in effect is that of the line that has been begun.
WordWidth ==
    /\ begun /\ next > 1 /\ next <= Len(lines) => width = lines[next].width
    /\ cached = "word" => /\ Top <= width /\ next >= 2
                          /\ Here > 1 => width = lines[Here].width

\* The statement of the first line is in no block.
FirstLine ==
    IF stmts = <<>> THEN open = <<>> /\ mode \in {"statements", "close", "done", "failed"}
                    ELSE next >= 2 /\ (cached = "word" => next >= 3)

\* The line n has been read, and is not that of the word kept back.
Behind(n) == n <= Here /\ (cached = "word" => n < Here)

Earlier ==
    /\ Behind(stmt)
    /\ \A i \in 1..Len(open) : Behind(open[i].owner)
    /\ \A k \in 1..Len(stmts) :
         stmts[k].line >= 1 /\ Behind(stmts[k].line) /\ Behind(stmts[k].parent)

\* The statement of line n stands at the level i, if it began with nothing owed.
Stands(n, i) ==
    \A k \in 1..Len(stmts) : (stmts[k].line = n /\ stmts[k].owed = 0) => indents[i] = stmts[k].level

\* Not of a block that is about to close: its owner's level may be gone.
OwnersStand ==
    \A i \in 1..Len(open) :
        (i < Len(open) \/ cached # "dedent" \/ mode \notin {"statements", "close"})
          => Stands(open[i].owner, i)

StmtStands ==
    mode \in {"header", "block"} /\ Len(indents) > Len(open) => Stands(stmt, Len(open) + 1)

Depths == /\ Exactly /\ Rising /\ WordWidth /\ FirstLine /\ Earlier
          /\ OwnersStand /\ StmtStands /\ ChildrenDeeper

IInv == TypeOK /\ Books /\ Depths

\* The level in effect is a width, and is the root's only while the root is alone.
LEMMA TopLevel ==
    ASSUME TypeOK, Rooted
    PROVE  /\ Top \in Nat /\ Len(indents) \in Nat /\ Len(indents) >= 1
           /\ Front(indents) \in Seq(Nat) /\ Len(Front(indents)) = Len(indents) - 1
           /\ Top > 0 => Front(indents) # <<>> /\ Front(indents)[1] = 0
<1>1. indents \in Seq(Nat) /\ indents # <<>> /\ indents[1] = 0  BY DEF TypeOK, Rooted
<1>2. /\ Front(indents) \in Seq(Nat) /\ Len(indents) \in Nat /\ Len(indents) >= 1
      /\ Len(Front(indents)) = Len(indents) - 1
      /\ Last(indents) = indents[Len(indents)] /\ Last(indents) \in Nat
      /\ Len(indents) > 1 => Front(indents) # <<>> /\ Front(indents)[1] = indents[1]
  BY <1>1, PopProperties
<1>3. QED  BY <1>1, <1>2 DEF Top

LEMMA WidthOfLine ==
    ASSUME TypeOK, next <= Len(lines)
    PROVE  lines[next].width \in Nat
<1>1. lines \in Seq(Line) /\ next \in Nat /\ next >= 1  BY DEF TypeOK
<1>2. next \in 1..Len(lines)  BY <1>1, LenProperties
<1>3. lines[next] \in Line  BY <1>1, <1>2, ElementOfSeq
<1>4. QED  BY <1>3 DEF Line

LEMMA OwnerType ==
    ASSUME TypeOK
    PROVE  /\ Owner \in Nat /\ Way \in Ways \cup {"root"} /\ Here \in Nat
           /\ open # <<>> => Front(open) \in Seq([owner : Nat, way : Ways])
                             /\ Len(Front(open)) = Len(open) - 1 /\ Len(open) \in Nat
<1>1. open \in Seq([owner : Nat, way : Ways]) /\ next \in Nat \ {0}  BY DEF TypeOK
<1>2. Here \in Nat  BY <1>1 DEF Here
<1>3. CASE open = <<>>  BY <1>2, <1>3 DEF Owner, Way
<1>4. CASE open # <<>>
  <2>1. /\ Front(open) \in Seq([owner : Nat, way : Ways]) /\ Len(open) \in Nat
        /\ Len(Front(open)) = Len(open) - 1 /\ Last(open) \in [owner : Nat, way : Ways]
    BY <1>1, <1>4, PopProperties
  <2>2. Last(open).owner \in Nat /\ Last(open).way \in Ways  BY <2>1
  <2>3. QED  BY <1>2, <1>4, <2>1, <2>2 DEF Owner, Way
<1>5. QED  BY <1>3, <1>4

LEMMA InnermostOwner ==
    ASSUME TypeOK, open # <<>>
    PROVE  Len(open) \in 1..Len(open) /\ Owner = open[Len(open)].owner
<1>1. open \in Seq([owner : Nat, way : Ways])  BY DEF TypeOK
<1>2. Len(open) \in Nat /\ Len(open) >= 1 /\ Last(open) = open[Len(open)]
  BY <1>1, PopProperties
<1>3. QED  BY <1>2 DEF Owner

LEMMA EnterOpens ==
    ASSUME TypeOK, NEW way \in Ways, Enter(way)
    PROVE  /\ open' \in Seq([owner : Nat, way : Ways]) /\ Len(open') = Len(open) + 1
           /\ open' # <<>> /\ mode' = "statements"
<1>1. open \in Seq([owner : Nat, way : Ways]) /\ stmt \in Nat  BY DEF TypeOK
<1>2. [owner |-> stmt, way |-> way] \in [owner : Nat, way : Ways]  BY <1>1
<1>3. open' = Append(open, [owner |-> stmt, way |-> way]) /\ mode' = "statements"
  BY DEF Enter
<1>4. QED  BY <1>1, <1>2, <1>3, PushProperties

LEMMA EnterContinuedOpens ==
    ASSUME TypeOK, NEW way \in Ways, EnterContinued(way)
    PROVE  /\ open' \in Seq([owner : Nat, way : Ways]) /\ Len(open') = Len(open) + 1
           /\ open' # <<>> /\ mode' = "statements"
<1>1. PICK w \in Ways : Enter(w)  BY DEF EnterContinued, Ways
<1>2. QED  BY <1>1, EnterOpens

----------------------------------------------------------------------------
(***************************************************************************)
(* Shapes.                                                                  *)
(***************************************************************************)
LEMMA TypeInit == Init => TypeOK
<1> SUFFICES ASSUME Init PROVE TypeOK
  OBVIOUS
<1>1. lines \in Seq(Line)  BY BlocksAssumption DEF Init
<1>2. <<0>> \in Seq(Nat) /\ 1 \in Nat \ {0}  OBVIOUS
<1>3. \A S : <<>> \in Seq(S)  BY EmptySeq
<1>4. /\ open \in Seq([owner : Nat, way : Ways])
      /\ stmts \in Seq([line : Nat, parent : Nat, way : Ways \cup {"root"}, level : Nat, owed : Nat])
  BY <1>3 DEF Init
<1>5. QED  BY <1>1, <1>2, <1>4 DEF Init, TypeOK, Mode

LEMMA TypePeek == TypeOK /\ Rooted /\ Peek => TypeOK'
<1> SUFFICES ASSUME TypeOK, Rooted, Peek PROVE TypeOK'
  OBVIOUS
<1>1. CASE PeekPendingDedent
  <2>1. indents' \in Seq(Nat)  BY <1>1, TopLevel DEF PeekPendingDedent
  <2>2. QED  BY <1>1, <2>1 DEF PeekPendingDedent, Token, TypeOK
<1>2. CASE PeekWord
  <2>1. next' \in Nat \ {0}  BY <1>2 DEF PeekWord, TypeOK
  <2>2. cached' = "word" /\ begun' = FALSE
        /\ UNCHANGED <<lines, indents, width, pending, mode, stmt, reads, eaten, drained,
                       open, stmts>>
    BY <1>2 DEF PeekWord, Token
  <2>3. QED  BY <2>1, <2>2 DEF TypeOK
<1>3. CASE PeekLayout
  <2>1. width' \in Nat  BY <1>3, WidthOfLine DEF PeekLayout
  <2>2. indents \in Seq(Nat) /\ Front(indents) \in Seq(Nat)  BY TopLevel DEF TypeOK
  <2>3. Append(indents, width') \in Seq(Nat)  BY <2>1, <2>2, PushProperties
  <2>4. indents' \in Seq(Nat)  BY <1>3, <2>2, <2>3 DEF PeekLayout
  <2>5. cached' \in {"indent", "dedent", "linebreak"}  BY <1>3 DEF PeekLayout, Token
  <2>6. UNCHANGED <<lines, pending, mode, stmt, reads, eaten, drained, open, stmts, next>>
        /\ begun' = TRUE
    BY <1>3 DEF PeekLayout, Token
  <2>7. QED  BY <2>1, <2>4, <2>5, <2>6 DEF TypeOK
<1>4. CASE PeekEof  BY <1>4 DEF PeekEof, Token, TypeOK, layout
<1>5. QED  BY <1>1, <1>2, <1>3, <1>4 DEF Peek

LEMMA TypeStep == TypeOK /\ Rooted /\ [Next]_vars => TypeOK'
<1> SUFFICES ASSUME TypeOK, Rooted, [Next]_vars PROVE TypeOK'
  OBVIOUS
<1> USE DEF layout
<1>1. CASE Peek  BY <1>1, TypePeek
<1>2. CASE BeginStatement
  <2> DEFINE s == [line |-> Here, parent |-> Owner, way |-> Way, level |-> Top, owed |-> pending]
  <2>1. s \in [line : Nat, parent : Nat, way : Ways \cup {"root"}, level : Nat, owed : Nat]
    BY OwnerType, TopLevel DEF TypeOK
  <2>2. stmts' \in Seq([line : Nat, parent : Nat, way : Ways \cup {"root"}, level : Nat, owed : Nat])
    BY <1>2, <2>1, PushProperties DEF BeginStatement, TypeOK
  <2>3. reads' \in {"end", "open", "comma"}  BY <1>2 DEF BeginStatement, ReadsOn
  <2>4. QED  BY <1>2, <2>2, <2>3, OwnerType DEF BeginStatement, Take, TypeOK, Mode
<1>3. CASE SkipLinebreak  BY <1>3 DEF SkipLinebreak, Take, TypeOK
<1>4. CASE EndStatements  BY <1>4 DEF EndStatements, TypeOK, Mode
<1>5. CASE EatLineContinuation  BY <1>5 DEF EatLineContinuation, Take, TypeOK
<1>6. CASE ReadOn
  <2>1. reads' \in {"end", "open", "comma"}  BY <1>6 DEF ReadOn, ReadsOn
  <2>2. QED  BY <1>6, <2>1 DEF ReadOn, Take, TypeOK
<1>7. CASE CommaContinues  BY <1>7 DEF CommaContinues, TypeOK
<1>8. CASE CommaTrails  BY <1>8 DEF CommaTrails, TypeOK
<1>9. CASE ExpectMore  BY <1>9 DEF ExpectMore, Fail, TypeOK, Mode
<1>10. CASE HeaderEnds  BY <1>10 DEF HeaderEnds, TypeOK, Mode
<1>11. CASE DrainPendingDedents  BY <1>11 DEF DrainPendingDedents, Take, TypeOK
<1>12. CASE EnterIndented
  <2>1. open' \in Seq([owner : Nat, way : Ways]) /\ mode' = "statements"
    BY <1>12, EnterOpens DEF EnterIndented, Ways
  <2>2. QED  BY <1>12, <2>1 DEF EnterIndented, Take, TypeOK, Mode
<1>13. CASE EnterReopened
  <2>1. open' \in Seq([owner : Nat, way : Ways]) /\ mode' = "statements"
    BY <1>13, EnterContinuedOpens DEF EnterReopened, Ways
  <2>2. indents' \in Seq(Nat)  BY <1>13, PushProperties DEF EnterReopened, TypeOK
  <2>3. QED  BY <1>13, <2>1, <2>2 DEF EnterReopened, TypeOK, Mode
<1>14. CASE EnterVirtual
  <2>1. open' \in Seq([owner : Nat, way : Ways]) /\ mode' = "statements"
    BY <1>14, EnterContinuedOpens DEF EnterVirtual, Ways
  <2>2. QED  BY <1>14, <2>1 DEF EnterVirtual, TypeOK, Mode
<1>15. CASE EmptyBlock  BY <1>15 DEF EmptyBlock, TypeOK, Mode
<1>16. CASE CloseBlock
  <2>1. stmt' \in Nat /\ open' \in Seq([owner : Nat, way : Ways])
    BY <1>16, OwnerType DEF CloseBlock
  <2>2. QED  BY <1>16, <2>1 DEF CloseBlock, Take, TypeOK, Mode
<1>17. CASE ParseEnds  BY <1>17 DEF ParseEnds, TypeOK, Mode
<1>18. CASE AfterDrained  BY <1>18 DEF AfterDrained, BackToStatements, TypeOK, Mode
<1>19. CASE LastStatement  BY <1>19 DEF LastStatement, AtTerminator, TypeOK, Mode
<1>20. CASE TakeTerminator
  BY <1>20 DEF TakeTerminator, Take, BackToStatements, TypeOK, Mode
<1>21. CASE NoTerminator  BY <1>21 DEF NoTerminator, BackToStatements, TypeOK, Mode
<1>22. CASE ExpectLinebreak  BY <1>22 DEF ExpectLinebreak, Fail, TypeOK, Mode
<1>23. CASE UNCHANGED vars  BY <1>23 DEF vars, TypeOK
<1>24. QED
  BY <1>1, <1>2, <1>3, <1>4, <1>5, <1>6, <1>7, <1>8, <1>9, <1>10, <1>11, <1>12, <1>13,
     <1>14, <1>15, <1>16, <1>17, <1>18, <1>19, <1>20, <1>21, <1>22, <1>23
  DEF Next

----------------------------------------------------------------------------
(***************************************************************************)
(* The books, step by step.                                                 *)
(***************************************************************************)
LEMMA BooksInit == Init => Books
<1> SUFFICES ASSUME Init PROVE Books
  OBVIOUS
<1>1. Len(<<0>>) = 1 /\ <<0>>[1] = 0 /\ <<0>> # <<>>  OBVIOUS
<1>2. Top = 0 /\ Told = 0 /\ Len(open) = 0
  BY <1>1 DEF Init, Top, Last, Told
<1>3. /\ indents = <<0>> /\ cached = "none" /\ width = 0 /\ pending = 0
      /\ mode = "statements"
  BY DEF Init
<1>4. QED
  BY <1>1, <1>2, <1>3
  DEF Books, LevelsAccounted, Rooted, CachedWhere, AtLineStart, StatementsStart, DedentIsBlocks, CloserPeeked

\* The numbers every step below reckons with.
LEMMA Numbers ==
    ASSUME TypeOK
    PROVE  /\ Len(open) \in Nat /\ Len(indents) \in Nat /\ Len(lines) \in Nat
           /\ pending \in Nat /\ next \in Nat /\ width \in Nat
<1>1. QED  BY LenProperties DEF TypeOK

\* Reading a token tells the parser of no level yet, or of one less.
LEMMA BooksPeek == TypeOK /\ Books /\ Peek => Books'
<1> SUFFICES ASSUME TypeOK, Books, Peek PROVE Books'
  OBVIOUS
<1> USE DEF LevelsAccounted, Told, CachedWhere, AtLineStart, StatementsStart, DedentIsBlocks, CloserPeeked
<1>1. Rooted /\ CachedWhere /\ StatementsStart /\ LevelsAccounted /\ CloserPeeked
  BY DEF Books
<1>2. /\ Top \in Nat /\ Len(indents) >= 1 /\ Len(Front(indents)) = Len(indents) - 1
      /\ Top > 0 => Front(indents) # <<>> /\ Front(indents)[1] = 0
  BY <1>1, TopLevel
<1>3. cached = "none" /\ UNCHANGED <<lines, pending, mode, open>> /\ Running
  BY DEF Peek, PeekPendingDedent, PeekWord, PeekLayout, PeekEof, Token
<1>4. CASE PeekPendingDedent
  <2>1. /\ Top > width /\ next <= Len(lines) /\ indents' = Front(indents)
        /\ cached' = "dedent" /\ UNCHANGED <<width, next, begun>>
    BY <1>4 DEF PeekPendingDedent, Token
  <2>2. Rooted'  BY <1>2, <2>1, Numbers DEF Rooted
  <2>3. mode \notin {"statements", "close"}  BY <1>1, <1>2, <1>3, <2>1, Numbers
  <2>4. QED  BY <1>1, <1>2, <1>3, <2>1, <2>2, <2>3, Numbers DEF Books
<1>5. CASE PeekWord
  <2>1. next' = next + 1 /\ cached' = "word" /\ UNCHANGED indents
    BY <1>5 DEF PeekWord, Token
  <2>2. QED  BY <1>1, <1>3, <2>1, Numbers DEF Books, Rooted
<1>6. CASE PeekLayout
  <2>1. /\ next <= Len(lines) /\ begun' = TRUE /\ width' \in Nat /\ UNCHANGED next
        /\ ~begun
    BY <1>6, WidthOfLine DEF PeekLayout
  <2>2. /\ mode # "close"
        /\ mode = "statements" => Top = 0
    BY <1>1, <1>3, <2>1
  <2>3. CASE width' > Top /\ indents' = Append(indents, width') /\ cached' = "indent"
    <3>1. /\ Len(indents') = Len(indents) + 1 /\ Top' = width'
          /\ indents' # <<>> /\ indents'[1] = 0
      BY <1>1, <2>1, <2>3, PushProperties DEF TypeOK, Rooted, Top
    <3>2. QED  BY <1>1, <1>2, <1>3, <2>1, <2>2, <2>3, <3>1, Numbers DEF Books, Rooted
  <2>4. CASE width' < Top /\ indents' = Front(indents) /\ cached' = "dedent"
    <3>1. indents' # <<>> /\ indents'[1] = 0  BY <1>2, <2>1, <2>4
    <3>2. QED  BY <1>1, <1>2, <1>3, <2>1, <2>2, <2>4, <3>1, Numbers DEF Books, Rooted
  <2>5. CASE width' = Top /\ UNCHANGED indents /\ cached' = "linebreak"
    <3>1. Top' = width'  BY <2>5 DEF Top
    <3>2. QED  BY <1>1, <1>2, <1>3, <2>1, <2>2, <2>5, <3>1, Numbers DEF Books, Rooted
  <2>6. QED  BY <1>6, <2>3, <2>4, <2>5 DEF PeekLayout, Token
<1>7. CASE PeekEof
  <2>1. next > Len(lines) /\ cached' = "eof" /\ UNCHANGED layout
    BY <1>7, Numbers DEF PeekEof, Token
  <2>2. QED  BY <1>1, <1>3, <2>1, Numbers DEF Books, Rooted, layout
<1>8. QED  BY <1>4, <1>5, <1>6, <1>7 DEF Peek

\* A step that takes no token and opens no level or block keeps the books as long as
\* it does not begin statements, close a block or look for one in front of a Dedent.
LEMMA BooksKept ==
    ASSUME TypeOK, Books, UNCHANGED <<lines, indents, width, next, begun, cached, pending, open>>,
           mode' = "statements" => /\ cached # "none"
                                   /\ cached = "dedent" => pending = 0,
           mode' = "close" => /\ cached \in {"dedent", "eof"}
                              /\ cached = "dedent" => pending = 0
    PROVE  Books'
<1>1. Top' = Top /\ Told' = Told  BY DEF Top, Told
<1>2. QED
  BY <1>1 DEF Books, LevelsAccounted, Rooted, CachedWhere, AtLineStart, StatementsStart,
              DedentIsBlocks, CloserPeeked

\* The token taken settles what it is: a Dedent an owed Indent or an open block, an
\* Indent one more of them.
LEMMA BooksTake ==
    ASSUME TypeOK, Books, UNCHANGED <<lines, indents, width, next, begun>>,
           cached # "none", cached' = "none", mode' # "close",
           mode' = "statements" => cached \in {"linebreak", "indent"},
           pending' \in Nat, Len(open') \in Nat,
           \/ cached = "dedent" /\ pending' + Len(open') = pending + Len(open) - 1
           \/ cached = "indent" /\ pending' + Len(open') = pending + Len(open) + 1
           \/ cached = "eof" /\ pending' + Len(open') <= pending + Len(open)
           \/ cached \in {"word", "linebreak"} /\ pending' + Len(open') = pending + Len(open)
    PROVE  Books'
<1>1. Top' = Top  BY DEF Top
<1>2. LevelsAccounted'
  <2>1. /\ Told \in Int
        /\ Told' = CASE cached = "dedent" -> Told - 1
                     [] cached = "indent" -> Told + 1
                     [] OTHER -> Told
    BY Numbers DEF Told
  <2>2. Len(open) + pending <= Told /\ (next <= Len(lines) => Len(open) + pending = Told)
    BY DEF Books, LevelsAccounted
  <2>3. cached = "eof" => next > Len(lines)  BY DEF Books, CachedWhere
  <2>4. /\ Len(open') + pending' <= Told'
        /\ next <= Len(lines) => Len(open') + pending' = Told'
    <3>1. CASE cached = "dedent"  BY <2>1, <2>2, <3>1, Numbers
    <3>2. CASE cached = "indent"  BY <2>1, <2>2, <3>2, Numbers
    <3>3. CASE cached = "eof"  BY <2>1, <2>2, <2>3, <3>3, Numbers
    <3>4. CASE cached \in {"word", "linebreak"}  BY <2>1, <2>2, <3>4, Numbers
    <3>5. QED  BY <3>1, <3>2, <3>3, <3>4
  <2>5. QED  BY <2>4 DEF LevelsAccounted
<1>3. StatementsStart'
  <2>1. mode' = "statements" => begun /\ Top = width  BY DEF Books, AtLineStart
  <2>2. TypeOK /\ Rooted  BY DEF Books
  <2>3. Top \in Nat  BY <2>2, TopLevel
  <2>4. QED  BY <1>1, <2>1, <2>3, Numbers DEF StatementsStart
<1>4. QED
  BY <1>1, <1>2, <1>3
  DEF Books, Rooted, CachedWhere, AtLineStart, DedentIsBlocks, CloserPeeked

LEMMA BooksEnter ==
    ASSUME TypeOK, Books, EnterIndented \/ EnterReopened \/ EnterVirtual
    PROVE  Books'
<1> USE DEF layout
<1>1. CASE EnterIndented
  <2>1. Len(open') = Len(open) + 1 /\ mode' = "statements"
    BY <1>1, EnterOpens DEF EnterIndented, Ways
  <2>2. QED  BY <1>1, <2>1, BooksTake, Numbers DEF EnterIndented, Take
<1>2. CASE EnterReopened
  <2>1. Len(open') = Len(open) + 1 /\ mode' = "statements"
    BY <1>2, EnterContinuedOpens DEF EnterReopened, Ways
  <2>2. /\ indents' = Append(indents, width) /\ pending = 0 /\ Top < width
        /\ cached \notin {"none", "indent"}
        /\ UNCHANGED <<lines, width, next, begun, cached, pending>>
    BY <1>2 DEF EnterReopened, AtBlock, Drained, Reopens
  <2>3. TypeOK /\ Rooted /\ AtLineStart  BY DEF Books
  <2>4. Top \in Nat  BY <2>3, TopLevel
  <2>5. cached # "linebreak"  BY <2>2, <2>3, <2>4, Numbers DEF AtLineStart
  <2>6. /\ Len(indents') = Len(indents) + 1 /\ Top' = width
        /\ indents' # <<>> /\ indents'[1] = 0
    <3>1. indents \in Seq(Nat) /\ width \in Nat /\ indents # <<>>  BY <2>3 DEF TypeOK, Rooted
    <3>2. QED  BY <2>2, <2>3, <3>1, PushProperties DEF Rooted, Top
  <2>7. QED
    BY <2>1, <2>2, <2>5, <2>6, Numbers
    DEF Books, LevelsAccounted, Told, Rooted, CachedWhere, AtLineStart, StatementsStart,
        DedentIsBlocks, CloserPeeked
<1>3. CASE EnterVirtual
  <2>1. Len(open') = Len(open) + 1 /\ mode' = "statements"
    BY <1>3, EnterContinuedOpens DEF EnterVirtual, Ways
  <2>2. /\ pending' = pending - 1 /\ pending > 0 /\ cached # "none" /\ cached # "dedent"
        /\ UNCHANGED <<lines, indents, width, next, begun, cached>>
    BY <1>3 DEF EnterVirtual, AtBlock, Drained
  <2>3. Top' = Top /\ Told' = Told  BY <2>2 DEF Top, Told
  <2>4. QED
    BY <2>1, <2>2, <2>3, Numbers
    DEF Books, LevelsAccounted, Rooted, CachedWhere, AtLineStart, StatementsStart,
        DedentIsBlocks, CloserPeeked
<1>4. QED  BY <1>1, <1>2, <1>3

LEMMA BooksClose == TypeOK /\ Books /\ CloseBlock => Books'
<1> SUFFICES ASSUME TypeOK, Books, CloseBlock PROVE Books'
  OBVIOUS
<1>1. Len(open') = Len(open) - 1 /\ Len(open) \in Nat /\ Len(open') \in Nat
  <2>1. open \in Seq([owner : Nat, way : Ways]) /\ open # <<>> /\ open' = Front(open)
    BY DEF TypeOK, CloseBlock
  <2>2. QED  BY <2>1, PopProperties, Numbers, SMTT(30)
<1>2. /\ cached \in {"dedent", "eof"} /\ cached' = "none" /\ mode' = "after"
      /\ UNCHANGED <<lines, indents, width, next, begun, pending>>
  BY DEF CloseBlock, Take, layout
<1>3. \/ cached = "dedent" /\ pending' + Len(open') = pending + Len(open) - 1
      \/ cached = "eof" /\ pending' + Len(open') <= pending + Len(open)
  BY <1>1, <1>2, Numbers
<1>4. QED  BY <1>1, <1>2, <1>3, BooksTake, Numbers

LEMMA BooksStep == TypeOK /\ Books /\ [Next]_vars => Books'
<1> SUFFICES ASSUME TypeOK, Books, [Next]_vars PROVE Books'
  OBVIOUS
<1> USE DEF layout
<1>0. CloserPeeked /\ DedentIsBlocks  BY DEF Books
<1>1. CASE Peek  BY <1>1, BooksPeek
<1>2. CASE BeginStatement  BY <1>2, BooksTake, Numbers DEF BeginStatement, Take
<1>3. CASE SkipLinebreak  BY <1>3, BooksTake, Numbers DEF SkipLinebreak, Take
<1>4. CASE EndStatements
  BY <1>0, <1>4, BooksKept DEF EndStatements, DedentIsBlocks
<1>5. CASE EatLineContinuation
  <2>1. CASE cached = "indent" /\ pending' = pending + 1
    BY <1>5, <2>1, BooksTake, Numbers DEF EatLineContinuation, Take
  <2>2. CASE cached = "linebreak" /\ UNCHANGED pending
    BY <1>5, <2>2, BooksTake, Numbers DEF EatLineContinuation, Take
  <2>3. QED  BY <1>5, <2>1, <2>2 DEF EatLineContinuation, Take
<1>6. CASE ReadOn  BY <1>6, BooksTake, Numbers DEF ReadOn, Take
<1>7. CASE CommaContinues  BY <1>7, BooksKept DEF CommaContinues
<1>8. CASE CommaTrails  BY <1>8, BooksKept DEF CommaTrails
<1>9. CASE ExpectMore  BY <1>9, BooksKept DEF ExpectMore, Fail
<1>10. CASE HeaderEnds  BY <1>10, BooksKept DEF HeaderEnds
<1>11. CASE DrainPendingDedents  BY <1>11, BooksTake, Numbers DEF DrainPendingDedents, Take
<1>12. CASE EnterIndented \/ EnterReopened \/ EnterVirtual  BY <1>12, BooksEnter
<1>13. CASE EmptyBlock  BY <1>13, BooksKept DEF EmptyBlock
<1>14. CASE CloseBlock  BY <1>14, BooksClose
<1>15. CASE ParseEnds  BY <1>15, BooksKept DEF ParseEnds
<1>16. CASE AfterDrained
  BY <1>16, BooksKept, Numbers DEF AfterDrained, Drained, BackToStatements
<1>17. CASE LastStatement
  BY <1>17, BooksKept, Numbers DEF LastStatement, AtTerminator, Drained
<1>18. CASE TakeTerminator
  BY <1>18, BooksTake, Numbers DEF TakeTerminator, Take, BackToStatements
<1>19. CASE NoTerminator  BY <1>19, BooksKept DEF NoTerminator, BackToStatements
<1>20. CASE ExpectLinebreak  BY <1>20, BooksKept DEF ExpectLinebreak, Fail
<1>21. CASE UNCHANGED vars
  <2>1. Top' = Top /\ Told' = Told  BY <1>21 DEF Top, Told, vars
  <2>2. QED
    BY <1>21, <2>1 DEF vars, Books, LevelsAccounted, Rooted, CachedWhere, AtLineStart,
                       StatementsStart, DedentIsBlocks, CloserPeeked
<1>22. QED
  BY <1>1, <1>2, <1>3, <1>4, <1>5, <1>6, <1>7, <1>8, <1>9, <1>10, <1>11, <1>12, <1>13,
     <1>14, <1>15, <1>16, <1>17, <1>18, <1>19, <1>20, <1>21
  DEF Next

----------------------------------------------------------------------------
(***************************************************************************)
(* The depths, step by step.                                                *)
(***************************************************************************)
LEMMA DepthsInit == Init => Depths
<1> SUFFICES ASSUME Init PROVE Depths
  OBVIOUS
<1>1. /\ indents = <<0>> /\ cached = "none" /\ width = 0 /\ pending = 0
      /\ mode = "statements" /\ next = 1 /\ stmt = 0 /\ open = <<>> /\ stmts = <<>>
  BY DEF Init
<1>2. Len(<<0>>) = 1 /\ Len(open) = 0 /\ Len(stmts) = 0  BY <1>1
<1>3. Exactly  BY <1>1, <1>2 DEF Exactly, Told
<1>4. Rising  BY <1>1, <1>2 DEF Rising
<1>5. WordWidth /\ FirstLine  BY <1>1 DEF WordWidth, FirstLine
<1>6. Earlier  BY <1>1, <1>2 DEF Earlier, Behind, Here
<1>7. OwnersStand /\ StmtStands /\ ChildrenDeeper
  BY <1>1, <1>2 DEF OwnersStand, StmtStands, ChildrenDeeper
<1>8. QED  BY <1>3, <1>4, <1>5, <1>6, <1>7 DEF Depths

\* The three things a step does to the levels: what it leaves of them stays put.
LEMMA LevelsMove ==
    ASSUME TypeOK, Rooted, Rising,
           \/ indents' = indents
           \/ \E w \in Nat : w > Top /\ indents' = Append(indents, w)
           \/ indents' = Front(indents)
    PROVE  /\ Rising' /\ Len(indents') \in Nat /\ Len(indents') >= Len(indents) - 1
           /\ \A i \in 1..Len(indents) : i <= Len(indents') => indents'[i] = indents[i]
<1>1. indents \in Seq(Nat) /\ indents # <<>> /\ Len(indents) \in Nat
  BY Numbers DEF TypeOK, Rooted
<1>2. /\ Len(indents) >= 1 /\ Len(Front(indents)) = Len(indents) - 1
      /\ \A i \in 1..(Len(indents) - 1) : Front(indents)[i] = indents[i]
      /\ Last(indents) = indents[Len(indents)]
  BY <1>1, PopProperties
<1>3. CASE indents' = indents  BY <1>1, <1>3 DEF Rising
<1>4. CASE \E w \in Nat : w > Top /\ indents' = Append(indents, w)
  <2>1. PICK w \in Nat : w > Top /\ indents' = Append(indents, w)  BY <1>4
  <2>2. /\ Len(indents') = Len(indents) + 1
        /\ \A i \in 1..Len(indents) : indents'[i] = indents[i]
        /\ indents'[Len(indents) + 1] = w
    BY <1>1, <2>1, PushProperties
  <2>3. \A i \in 1..Len(indents) : indents[i] <= Top
    <3>1. \A i \in 1..Len(indents) : indents[i] \in Nat  BY <1>1, ElementOfSeq
    <3>2. \A i \in 1..Len(indents) : i < Len(indents) => indents[i] < indents[Len(indents)]
      BY <1>1, <1>2 DEF Rising
    <3>3. Top = indents[Len(indents)]  BY <1>2 DEF Top
    <3>4. QED  BY <1>1, <1>2, <3>1, <3>2, <3>3
  <2>4. \A i \in 1..Len(indents) : indents[i] \in Nat  BY <1>1, ElementOfSeq
  <2>5. Top \in Nat  BY <1>2, <2>4 DEF Top
  <2>6. ASSUME NEW i \in 1..Len(indents'), NEW j \in 1..Len(indents'), i < j
        PROVE  indents'[i] < indents'[j]
    <3>1. i \in 1..Len(indents)  BY <1>1, <2>2, <2>6
    <3>2. CASE j = Len(indents) + 1
      <4>1. indents'[j] = w /\ indents'[i] = indents[i] /\ indents[i] \in Nat /\ indents[i] <= Top
        BY <2>2, <2>3, <2>4, <3>1, <3>2
      <4>2. QED  BY <2>1, <2>5, <4>1
    <3>3. CASE j # Len(indents) + 1
      <4>1. j \in 1..Len(indents)  BY <1>1, <2>2, <3>3
      <4>2. QED  BY <2>2, <2>6, <3>1, <4>1 DEF Rising
    <3>4. QED  BY <3>2, <3>3
  <2>7. QED  BY <1>1, <2>2, <2>6 DEF Rising
<1>5. CASE indents' = Front(indents)
  <2>1. Len(indents') = Len(indents) - 1
        /\ \A i \in 1..(Len(indents) - 1) : indents'[i] = indents[i]
    BY <1>2, <1>5
  <2>2. QED  BY <1>1, <1>2, <2>1 DEF Rising
<1>6. QED  BY <1>3, <1>4, <1>5

\* Whatever is behind stays behind.
LEMMA BehindKept ==
    ASSUME TypeOK, WordWidth, NEW n \in Nat, Behind(n),
           \/ next' = next /\ cached' \in {cached, "none", "eof", "indent", "dedent", "linebreak"}
           \/ next' = next + 1 /\ cached = "none"
    PROVE  Behind(n)'
<1>1. next \in Nat  BY Numbers
<1>2. QED  BY <1>1 DEF Behind, Here

\* Statements and blocks are known by lines.
LEMMA LineNumbers ==
    ASSUME TypeOK
    PROVE  /\ stmt \in Nat /\ Len(stmts) \in Nat
           /\ \A i \in 1..Len(open) : open[i].owner \in Nat
           /\ \A k \in 1..Len(stmts) : /\ stmts[k].line \in Nat /\ stmts[k].parent \in Nat
                                       /\ stmts[k].level \in Nat /\ stmts[k].owed \in Nat
<1>1. /\ open \in Seq([owner : Nat, way : Ways])
      /\ stmts \in Seq([line : Nat, parent : Nat, way : Ways \cup {"root"}, level : Nat, owed : Nat])
      /\ stmt \in Nat
  BY DEF TypeOK
<1>2. ASSUME NEW i \in 1..Len(open) PROVE open[i].owner \in Nat
  <2>1. open[i] \in [owner : Nat, way : Ways]  BY <1>1, ElementOfSeq
  <2>2. QED  BY <2>1
<1>3. ASSUME NEW k \in 1..Len(stmts)
      PROVE  /\ stmts[k].line \in Nat /\ stmts[k].parent \in Nat
             /\ stmts[k].level \in Nat /\ stmts[k].owed \in Nat
  <2>1. stmts[k] \in [line : Nat, parent : Nat, way : Ways \cup {"root"}, level : Nat, owed : Nat]
    BY <1>1, ElementOfSeq
  <2>2. QED  BY <2>1
<1>4. QED  BY <1>1, <1>2, <1>3, LenProperties

\* More levels are told of than there are blocks.
LEMMA EnoughLevels ==
    ASSUME TypeOK, LevelsAccounted
    PROVE  /\ Len(open) <= Len(indents)
           /\ cached # "dedent" => Len(open) < Len(indents)
<1>1. Len(open) + pending <= Told /\ pending \in Nat /\ Len(open) \in Nat /\ Len(indents) \in Nat
  BY Numbers DEF LevelsAccounted
<1>2. CASE cached = "dedent"  BY <1>1, <1>2 DEF Told
<1>3. CASE cached # "dedent"
  <2>1. Told = Len(indents) - 1 - (IF cached = "indent" THEN 1 ELSE 0)  BY <1>1, <1>3 DEF Told
  <2>2. QED  BY <1>1, <1>3, <2>1
<1>4. QED  BY <1>2, <1>3

\* Reading a token moves no block, and no level that a block's owner stands at.
LEMMA DepthsPeek ==
    ASSUME TypeOK, Books, Depths, Peek
    PROVE  Depths'
<1>1. /\ Rooted /\ LevelsAccounted /\ Exactly /\ Rising /\ WordWidth /\ FirstLine /\ Earlier
      /\ OwnersStand /\ StmtStands /\ ChildrenDeeper
  BY DEF Books, Depths
<1>2. /\ cached = "none" /\ cached' # "none"
      /\ UNCHANGED <<lines, pending, mode, stmt, drained, open, stmts>>
  BY DEF Peek, PeekPendingDedent, PeekWord, PeekLayout, PeekEof, Token
<1>3. /\ next <= Len(lines) \/ cached' = "eof"
      /\ \/ next' = next /\ cached' # "word"
         \/ next' = next + 1 /\ cached' = "word" /\ next <= Len(lines)
      /\ cached' \in {"word", "eof", "indent", "dedent", "linebreak"}
  BY <1>2, Numbers DEF Peek, PeekPendingDedent, PeekWord, PeekLayout, PeekEof, Token, layout
<1>4. \/ indents' = indents /\ cached' \in {"word", "linebreak", "eof"}
      \/ \E w \in Nat : w > Top /\ indents' = Append(indents, w) /\ cached' = "indent"
      \/ indents' = Front(indents) /\ cached' = "dedent"
  <2>1. CASE PeekPendingDedent  BY <2>1 DEF PeekPendingDedent, Token
  <2>2. CASE PeekWord  BY <2>2 DEF PeekWord, Token
  <2>3. CASE PeekLayout
    <3>1. width' \in Nat  BY <2>3, WidthOfLine DEF PeekLayout
    <3>2. QED  BY <2>3, <3>1 DEF PeekLayout, Token
  <2>4. CASE PeekEof  BY <2>4 DEF PeekEof, Token, layout
  <2>5. QED  BY <2>1, <2>2, <2>3, <2>4 DEF Peek
<1>5. /\ Rising' /\ Len(indents') \in Nat /\ Len(indents') >= Len(indents) - 1
      /\ \A i \in 1..Len(indents) : i <= Len(indents') => indents'[i] = indents[i]
  BY <1>1, <1>4, LevelsMove
<1>6. Told' = Told
  <2>1. Told = Len(indents) - 1  BY <1>2, Numbers DEF Told
  <2>2. CASE indents' = indents /\ cached' \in {"word", "linebreak", "eof"}
    <3>1. cached' # "dedent" /\ cached' # "indent"  BY <2>2
    <3>2. Told' = Len(indents) - 1  BY <2>2, <3>1, Numbers DEF Told
    <3>3. QED  BY <2>1, <3>2
  <2>3. CASE \E w \in Nat : indents' = Append(indents, w) /\ cached' = "indent"
    <3>1. Len(indents') = Len(indents) + 1  BY <2>3, PushProperties DEF TypeOK
    <3>2. QED  BY <2>1, <2>3, <3>1, Numbers DEF Told
  <2>4. CASE indents' = Front(indents) /\ cached' = "dedent"
    <3>1. Len(indents') = Len(indents) - 1  BY <1>1, <2>4, PopProperties DEF TypeOK, Rooted
    <3>2. QED  BY <2>1, <2>4, <3>1, Numbers DEF Told
  <2>5. QED  BY <1>4, <2>2, <2>3, <2>4
<1>7. Exactly'  BY <1>1, <1>2, <1>3, <1>6, Numbers DEF Exactly
<1>8. WordWidth'
  <2>1. CASE PeekPendingDedent  BY <1>1, <2>1 DEF PeekPendingDedent, Token, WordWidth
  <2>2. CASE PeekWord
    <3>1. Top' = Top /\ Top <= width /\ begun /\ begun' = FALSE /\ width' = width
          /\ next' = next + 1 /\ next <= Len(lines) /\ lines' = lines
      BY <2>2 DEF PeekWord, Token, Top
    <3>2. next \in Nat /\ next >= 1  BY DEF TypeOK
    <3>3. Here' = next /\ next' >= 2  BY <3>1, <3>2 DEF Here
    <3>4. QED  BY <1>1, <3>1, <3>2, <3>3 DEF WordWidth
  <2>3. CASE PeekLayout  BY <1>3, <2>3 DEF PeekLayout, Token, WordWidth
  <2>4. CASE PeekEof  BY <1>1, <2>4 DEF PeekEof, Token, WordWidth, layout
  <2>5. QED  BY <2>1, <2>2, <2>3, <2>4 DEF Peek
<1>9. FirstLine'  BY <1>1, <1>2, <1>3, Numbers DEF FirstLine
<1>10. Earlier'
  <2>1. ASSUME NEW n \in Nat, Behind(n) PROVE Behind(n)'
    BY <1>1, <1>2, <1>3, <2>1, BehindKept
  <2>2. QED  BY <1>1, <1>2, <2>1, LineNumbers DEF Earlier
<1>11. OwnersStand'
  <2>1. SUFFICES ASSUME NEW i \in 1..Len(open) PROVE Stands(open[i].owner, i)'
    BY <1>2 DEF OwnersStand
  <2>2. Stands(open[i].owner, i)  BY <1>1, <1>2 DEF OwnersStand
  <2>3. i \in 1..Len(indents) /\ i <= Len(indents')
    BY <1>1, <1>2, <1>5, EnoughLevels, Numbers
  <2>4. indents'[i] = indents[i]  BY <1>5, <2>3
  <2>5. QED  BY <1>2, <2>2, <2>4 DEF Stands
<1>12. StmtStands'
  <2>1. SUFFICES ASSUME mode \in {"header", "block"}, Len(indents') > Len(open)
                 PROVE  Stands(stmt, Len(open) + 1)'
    BY <1>2 DEF StmtStands
  <2>2. Len(indents) > Len(open)  BY <1>1, <1>2, EnoughLevels, Numbers
  <2>3. Stands(stmt, Len(open) + 1)  BY <1>1, <2>1, <2>2 DEF StmtStands
  <2>4. Len(open) + 1 \in 1..Len(indents) /\ Len(open) + 1 <= Len(indents')
    BY <1>5, <2>1, <2>2, Numbers
  <2>5. indents'[Len(open) + 1] = indents[Len(open) + 1]  BY <1>5, <2>4
  <2>6. QED  BY <1>2, <2>3, <2>5 DEF Stands
<1>13. ChildrenDeeper'  BY <1>1, <1>2 DEF ChildrenDeeper, Regular
<1>14. QED  BY <1>5, <1>7, <1>8, <1>9, <1>10, <1>11, <1>12, <1>13 DEF Depths

\* What follows from a step that leaves the layout where it is and at most takes the
\* token kept back.
LEMMA LayoutKept ==
    ASSUME TypeOK, Depths, UNCHANGED <<lines, indents, width, next, begun>>,
           cached' \in {cached, "none"}
    PROVE  /\ Rising' /\ WordWidth'
           /\ \A n \in Nat : Behind(n) => Behind(n)'
<1>1. Top' = Top /\ Here' = Here  BY DEF Top, Here
<1>2. Rising'  BY DEF Depths, Rising
<1>3. WordWidth'  BY <1>1 DEF Depths, WordWidth
<1>4. \A n \in Nat : Behind(n) => Behind(n)'
  BY BehindKept DEF Depths
<1>5. QED  BY <1>2, <1>3, <1>4

\* A step that changes neither blocks nor statements and no level.
LEMMA DepthsKept ==
    ASSUME TypeOK, Books, Depths,
           UNCHANGED <<lines, indents, width, next, begun, open, stmts, stmt>>,
           cached' \in {cached, "none"},
           mode' \in {"header", "block"} => mode \in {"header", "block"},
           mode \in {"statements", "close"} /\ cached = "dedent" /\ open # <<>>
             => mode' \in {"statements", "close"} /\ cached' = "dedent",
           stmts = <<>> => mode' \in {"statements", "close", "done", "failed"},
           Exactly'
    PROVE  Depths'
<1>1. /\ Rising' /\ WordWidth' /\ \A n \in Nat : Behind(n) => Behind(n)'
  BY LayoutKept
<1>2. FirstLine'  BY DEF Depths, FirstLine
<1>3. Earlier'  BY <1>1, LineNumbers DEF Depths, Earlier
<1>4. OwnersStand'
  <2>1. SUFFICES ASSUME NEW i \in 1..Len(open),
                        i < Len(open) \/ cached' # "dedent" \/ mode' \notin {"statements", "close"}
                 PROVE  Stands(open[i].owner, i)'
    BY DEF OwnersStand
  <2>2. open # <<>>  BY EmptySeq
  <2>3. i < Len(open) \/ cached # "dedent" \/ mode \notin {"statements", "close"}
    BY <2>1, <2>2
  <2>4. Stands(open[i].owner, i)  BY <2>3 DEF Depths, OwnersStand
  <2>5. QED  BY <2>4 DEF Stands
<1>5. StmtStands'  BY DEF Depths, StmtStands, Stands
<1>6. ChildrenDeeper'  BY DEF Depths, ChildrenDeeper, Regular
<1>7. QED  BY <1>1, <1>2, <1>3, <1>4, <1>5, <1>6 DEF Depths

\* The balance stays exact when the token taken settles what it is.
LEMMA ExactTake ==
    ASSUME TypeOK, Exactly, UNCHANGED <<indents, next>>,
           cached \notin {"none", "eof"}, cached' = "none",
           pending' \in Nat, Len(open') \in Nat,
           \/ cached = "dedent" /\ pending' + Len(open') = pending + Len(open) - 1
           \/ cached = "indent" /\ pending' + Len(open') = pending + Len(open) + 1
           \/ cached \in {"word", "linebreak"} /\ pending' + Len(open') = pending + Len(open)
    PROVE  Exactly'
<1>1. Len(open) + pending = Told  BY DEF Exactly
<1>2. Told' = Len(indents) - 1  BY Numbers DEF Told
<1>3. CASE cached = "dedent"
  <2>1. Told = Len(indents)  BY <1>3, Numbers DEF Told
  <2>2. pending' + Len(open') = pending + Len(open) - 1  BY <1>3
  <2>3. Len(open') + pending' = Told'  BY <1>1, <1>2, <2>1, <2>2, Numbers
  <2>4. QED  BY <2>3 DEF Exactly
<1>4. CASE cached = "indent"
  <2>1. Told = Len(indents) - 2  BY <1>4, Numbers DEF Told
  <2>2. pending' + Len(open') = pending + Len(open) + 1  BY <1>4
  <2>3. Len(open') + pending' = Told'  BY <1>1, <1>2, <2>1, <2>2, Numbers
  <2>4. QED  BY <2>3 DEF Exactly
<1>5. CASE cached \in {"word", "linebreak"}
  <2>1. Told = Len(indents) - 1  BY <1>5, Numbers DEF Told
  <2>2. pending' + Len(open') = pending + Len(open)  BY <1>5
  <2>3. Len(open') + pending' = Told'  BY <1>1, <1>2, <2>1, <2>2, Numbers
  <2>4. QED  BY <2>3 DEF Exactly
<1>6. QED  BY <1>3, <1>4, <1>5

\* It stays so when nothing is counted and the loops are not entered at the end.
LEMMA ExactKept ==
    ASSUME Exactly, UNCHANGED <<lines, indents, next, cached, pending, open>>,
           (mode' \in {"statements", "header", "block"} \/ (mode' = "after" /\ drained'))
             => \/ mode \in {"statements", "header", "block"}
                \/ mode = "after" /\ drained
                \/ cached \notin {"none", "eof"}
    PROVE  Exactly'
<1>1. Told' = Told  BY DEF Told
<1>2. QED  BY <1>1 DEF Exactly

\* A statement begins above everything that is open.
LEMMA DepthsBegin ==
    ASSUME TypeOK, Books, Depths, BeginStatement
    PROVE  Depths'
<1> DEFINE n == Len(stmts) + 1
           s == [line |-> Here, parent |-> Owner, way |-> Way, level |-> Top, owed |-> pending]
           S == [line : Nat, parent : Nat, way : Ways \cup {"root"}, level : Nat, owed : Nat]
<1>1. /\ Rooted /\ LevelsAccounted /\ Exactly /\ Rising /\ WordWidth /\ FirstLine /\ Earlier
      /\ OwnersStand /\ ChildrenDeeper
  BY DEF Books, Depths
<1>2. /\ mode = "statements" /\ mode' = "header" /\ cached = "word" /\ cached' = "none"
      /\ stmt' = Here /\ stmts' = Append(stmts, s)
      /\ UNCHANGED <<lines, indents, width, next, begun, pending, open>>
  BY DEF BeginStatement, Take, layout
<1>3. /\ Rising' /\ WordWidth' /\ \A m \in Nat : Behind(m) => Behind(m)'
  BY <1>2, LayoutKept
<1>4. Exactly'  BY <1>1, <1>2, ExactTake, Numbers
<1>5. /\ s \in S /\ stmts \in Seq(S) /\ Here \in Nat /\ Owner \in Nat /\ Top \in Nat
      /\ Len(stmts) \in Nat
  BY <1>1, OwnerType, TopLevel, LineNumbers DEF TypeOK
<1>6. /\ Len(stmts') = n /\ stmts'[n] = s
      /\ \A k \in 1..Len(stmts) : stmts'[k] = stmts[k]
      /\ stmts' # <<>>
  BY <1>2, <1>5, PushProperties
<1>7. /\ s.line = Here /\ s.parent = Owner /\ s.level = Top /\ s.owed = pending
  OBVIOUS
<1> HIDE DEF n, s, S
<1>8. Here >= 1 /\ next \in Nat /\ next >= 2  BY <1>1, <1>2, Numbers DEF WordWidth, Here
<1>9. n \in Nat /\ n = Len(stmts) + 1 /\ \A k \in 1..n : k = n \/ k \in 1..Len(stmts)
  BY <1>5 DEF n
<1>10. Behind(Owner) /\ \A m \in Nat : Behind(m) => m < Here
  <2>1. \A m \in Nat : Behind(m) => m < Here  BY <1>2 DEF Behind
  <2>2. CASE open = <<>>  BY <1>2, <1>5, <1>8, <2>1, <2>2 DEF Owner, Behind
  <2>3. CASE open # <<>>
    <3>1. Len(open) \in 1..Len(open) /\ Owner = open[Len(open)].owner
      BY <2>3, InnermostOwner
    <3>2. Behind(open[Len(open)].owner)  BY <1>1, <3>1 DEF Earlier
    <3>3. QED  BY <2>1, <3>1, <3>2
  <2>4. QED  BY <2>1, <2>2, <2>3
<1>11. Behind(Here)'  BY <1>2, <1>8 DEF Behind, Here
<1>12. FirstLine'  BY <1>2, <1>6, <1>8 DEF FirstLine
<1>13. Earlier'
  <2>1. Behind(stmt)'
    BY <1>2, <1>11 DEF Behind, Here
  <2>2. \A i \in 1..Len(open') : Behind(open[i].owner)'
    BY <1>1, <1>2, <1>3, LineNumbers DEF Earlier
  <2>3. ASSUME NEW k \in 1..Len(stmts)
        PROVE  /\ stmts[k].line >= 1
               /\ stmts[k].line <= Here /\ stmts[k].parent <= Here
    BY <1>1, LineNumbers DEF Earlier, Behind
  <2>5. Owner <= Here  BY <1>10 DEF Behind
  <2>6. ASSUME NEW k \in 1..n
        PROVE  stmts'[k].line >= 1 /\ stmts'[k].line <= Here /\ stmts'[k].parent <= Here
    <3>1. CASE k = n  BY <1>5, <1>6, <1>7, <1>8, <2>5, <3>1
    <3>2. CASE k \in 1..Len(stmts)  BY <1>6, <2>3, <3>2
    <3>3. QED  BY <1>9, <3>1, <3>2
  <2>7. QED  BY <1>2, <1>6, <2>1, <2>2, <2>6 DEF Earlier, Behind, Here
<1>14. \A k \in 1..Len(stmts) : stmts[k].line < Here /\ stmts[k].parent < Here
  BY <1>1, <1>10, LineNumbers DEF Earlier
<1>15. OwnersStand'
  <2>1. SUFFICES ASSUME NEW i \in 1..Len(open) PROVE Stands(open[i].owner, i)'
    BY <1>2 DEF OwnersStand
  <2>2. Stands(open[i].owner, i)  BY <1>1, <1>2 DEF OwnersStand
  <2>3. open[i].owner < Here  BY <1>1, <1>10, LineNumbers DEF Earlier
  <2>4. open[i].owner \in Nat  BY LineNumbers
  <2>5. QED  BY <1>2, <1>5, <1>6, <1>7, <1>9, <2>2, <2>3, <2>4 DEF Stands
<1>16. StmtStands'
  <2>1. SUFFICES Stands(stmt, Len(open) + 1)'  BY <1>2 DEF StmtStands
  <2>2. SUFFICES ASSUME NEW k \in 1..n, stmts'[k].line = Here, stmts'[k].owed = 0
                 PROVE  indents[Len(open) + 1] = stmts'[k].level
    BY <1>2, <1>6 DEF Stands
  <2>3. k = n  BY <1>6, <1>9, <1>14, <2>2, <1>5, LineNumbers
  <2>4. pending = 0 /\ stmts'[k].level = Top  BY <1>6, <1>7, <2>2, <2>3
  <2>5. Len(open) + 1 = Len(indents)  BY <1>1, <1>2, <2>4, Numbers DEF Exactly, Told
  <2>6. QED  BY <2>4, <2>5 DEF Top, Last
<1>17. ChildrenDeeper'
  <2>1. SUFFICES ASSUME NEW k \in 1..n, NEW p \in 1..n,
                        stmts'[k].parent = stmts'[p].line,
                        lines[stmts'[p].line].width = stmts'[p].level, stmts'[p].owed = 0
                 PROVE  lines[stmts'[k].line].width > lines[stmts'[p].line].width
    BY <1>2, <1>6 DEF ChildrenDeeper, Regular
  <2>2. p \in 1..Len(stmts)
    BY <1>5, <1>6, <1>7, <1>9, <1>10, <1>14, <2>1, LineNumbers
  <2>3. CASE k \in 1..Len(stmts)
    BY <1>1, <1>6, <2>1, <2>2, <2>3 DEF ChildrenDeeper, Regular
  <2>4. CASE k = n
    <3>1. stmts'[k] = s /\ stmts'[p] = stmts[p] /\ stmts[p].line = Owner
      BY <1>6, <1>7, <2>1, <2>2, <2>4
    <3>2. open # <<>>
      <4>1. stmts[p].line >= 1  BY <1>1, <2>2 DEF Earlier
      <4>2. QED  BY <3>1, <4>1 DEF Owner
    <3>3. Len(open) \in 1..Len(open) /\ Owner = open[Len(open)].owner
      BY <3>2, InnermostOwner
    <3>4. Stands(open[Len(open)].owner, Len(open))  BY <1>1, <1>2, <3>3 DEF OwnersStand
    <3>5. indents[Len(open)] = lines[Owner].width  BY <2>1, <2>2, <3>1, <3>3, <3>4 DEF Stands
    <3>6. Len(open) < Len(indents)  BY <1>1, <1>2, EnoughLevels
    <3>7. indents[Len(open)] < Top
      <4>1. Len(open) \in 1..Len(indents) /\ Len(indents) \in 1..Len(indents)
        BY <3>3, <3>6, Numbers
      <4>2. QED  BY <1>1, <3>6, <4>1 DEF Rising, Top, Last
    <3>8. Top <= width /\ width = lines[Here].width
      <4>1. stmts # <<>>  BY <1>1, <3>2 DEF FirstLine
      <4>2. next >= 3  BY <1>1, <1>2, <4>1 DEF FirstLine
      <4>3. QED  BY <1>1, <1>2, <1>8, <4>2 DEF WordWidth, Here
    <3>9. indents[Len(open)] \in Nat /\ width \in Nat
      <4>1. Len(open) \in 1..Len(indents) /\ indents \in Seq(Nat)
        BY <3>3, <3>6, Numbers DEF TypeOK
      <4>2. QED  BY <4>1, ElementOfSeq, Numbers
    <3>10. lines[Here].width > lines[Owner].width  BY <1>5, <3>5, <3>7, <3>8, <3>9
    <3>11. QED  BY <1>7, <3>1, <3>10
  <2>5. QED  BY <1>9, <2>3, <2>4
<1>18. QED
  BY <1>3, <1>4, <1>12, <1>13, <1>15, <1>16, <1>17 DEF Depths

\* A block is opened below the level its owner stands at.
LEMMA DepthsOpen ==
    ASSUME TypeOK, Books, Depths, mode = "block", mode' = "statements",
           UNCHANGED <<lines, width, next, begun, stmt, stmts>>,
           cached' \in {cached, "none"}, cached' = "dedent" => cached = "dedent",
           NEW way \in Ways, open' = Append(open, [owner |-> stmt, way |-> way]),
           indents' = indents \/ (Top < width /\ indents' = Append(indents, width)),
           cached' # "dedent" => Len(open) < Len(indents),
           WordWidth', Exactly'
    PROVE  Depths'
<1>1. Rooted /\ Rising /\ FirstLine /\ Earlier /\ OwnersStand /\ StmtStands /\ ChildrenDeeper
      /\ LevelsAccounted /\ WordWidth
  BY DEF Depths, Books
<1>2. stmt \in Nat /\ width \in Nat /\ Len(open) \in Nat /\ Len(indents) \in Nat
  BY Numbers, LineNumbers
<1>3. /\ Rising'
      /\ \A i \in 1..Len(indents) : i <= Len(indents') => indents'[i] = indents[i]
  BY <1>1, <1>2, LevelsMove
<1>4. Len(indents') >= Len(indents)
  BY <1>2, PushProperties DEF TypeOK
<1>5. [owner |-> stmt, way |-> way] \in [owner : Nat, way : Ways]  BY <1>2
<1>6. /\ Len(open') = Len(open) + 1 /\ open'[Len(open) + 1] = [owner |-> stmt, way |-> way]
      /\ \A i \in 1..Len(open) : open'[i] = open[i]
  BY <1>5, PushProperties DEF TypeOK
<1>7. open'[Len(open) + 1].owner = stmt  BY <1>6
<1>8. \A n \in Nat : Behind(n) => Behind(n)'  BY <1>1, BehindKept
<1>9. FirstLine'
  <2>1. stmts # <<>>  BY <1>1 DEF FirstLine
  <2>2. QED  BY <1>1, <2>1 DEF FirstLine
<1>10. Earlier'
  <2>1. Behind(stmt)'  BY <1>1, <1>2, <1>8 DEF Earlier
  <2>2. ASSUME NEW i \in 1..Len(open) PROVE Behind(open[i].owner)'
    BY <1>1, <1>8, <2>2, LineNumbers DEF Earlier
  <2>3. \A i \in 1..Len(open') : i \in 1..Len(open) \/ i = Len(open) + 1  BY <1>2, <1>6
  <2>4. \A k \in 1..Len(stmts) :
           stmts[k].line >= 1 /\ Behind(stmts[k].line)' /\ Behind(stmts[k].parent)'
    BY <1>1, <1>8, LineNumbers DEF Earlier
  <2>5. QED  BY <1>6, <1>7, <2>1, <2>2, <2>3, <2>4 DEF Earlier, Behind, Here
<1>11. OwnersStand'
  <2>1. SUFFICES ASSUME NEW i \in 1..Len(open'), i < Len(open') \/ cached' # "dedent"
                 PROVE  \A k \in 1..Len(stmts) :
                           (stmts[k].line = open'[i].owner /\ stmts[k].owed = 0)
                             => indents'[i] = stmts[k].level
    BY DEF OwnersStand, Stands
  <2>2. CASE i \in 1..Len(open)
    <3>1. Stands(open[i].owner, i)  BY <1>1, <2>2 DEF OwnersStand
    <3>2. Len(open) <= Len(indents)  BY <1>1, EnoughLevels
    <3>3. i \in 1..Len(indents) /\ i <= Len(indents')
      BY <1>2, <1>4, <2>2, <3>2, LenProperties
    <3>4. indents'[i] = indents[i]  BY <1>3, <3>3
    <3>5. QED  BY <1>6, <2>2, <3>1, <3>4 DEF Stands
  <2>3. CASE i = Len(open) + 1
    <3>1. Len(open) < Len(indents)  BY <1>2, <1>6, <2>1, <2>3
    <3>2. Stands(stmt, Len(open) + 1)  BY <1>1, <3>1 DEF StmtStands
    <3>3. i \in 1..Len(indents) /\ i <= Len(indents')  BY <1>2, <1>4, <2>3, <3>1
    <3>4. indents'[i] = indents[i]  BY <1>3, <3>3
    <3>5. QED  BY <1>7, <2>3, <3>2, <3>4 DEF Stands
  <2>4. QED  BY <1>2, <1>6, <2>2, <2>3
<1>12. StmtStands'  BY DEF StmtStands
<1>13. ChildrenDeeper'  BY <1>1 DEF ChildrenDeeper, Regular
<1>14. QED  BY <1>3, <1>9, <1>10, <1>11, <1>12, <1>13 DEF Depths

LEMMA DepthsEnter ==
    ASSUME TypeOK, Books, Depths, EnterIndented \/ EnterReopened \/ EnterVirtual
    PROVE  Depths'
<1> USE DEF layout
<1>1. Rooted /\ LevelsAccounted /\ Exactly /\ Rising /\ WordWidth  BY DEF Books, Depths
<1>2. stmt \in Nat /\ Len(open) \in Nat /\ Len(indents) \in Nat /\ pending \in Nat
  BY Numbers, LineNumbers
<1>3. CASE EnterIndented
  <2>1. /\ mode = "block" /\ mode' = "statements" /\ cached = "indent" /\ cached' = "none"
        /\ UNCHANGED <<lines, indents, width, next, begun, pending, stmt, stmts>>
        /\ open' = Append(open, [owner |-> stmt, way |-> "indented"])
    BY <1>3 DEF EnterIndented, Enter, Take
  <2>2. Len(open') = Len(open) + 1  BY <1>3, EnterOpens DEF EnterIndented, Ways
  <2>3. Exactly'  BY <1>1, <1>2, <2>1, <2>2, ExactTake
  <2>4. WordWidth'  BY <2>1, LayoutKept
  <2>5. Len(open) < Len(indents)  BY <1>1, <2>1, EnoughLevels
  <2>6. "indented" \in Ways  BY DEF Ways
  <2>7. QED  BY <2>1, <2>3, <2>4, <2>5, <2>6, DepthsOpen
<1>4. CASE EnterVirtual
  <2>1. /\ mode = "block" /\ mode' = "statements" /\ cached # "none" /\ cached # "dedent"
        /\ UNCHANGED <<lines, indents, width, next, begun, cached, stmt, stmts>>
        /\ pending' = pending - 1
    BY <1>4 DEF EnterVirtual, EnterContinued, Enter, AtBlock, Drained
  <2>2. PICK way \in Ways : open' = Append(open, [owner |-> stmt, way |-> way])
    BY <1>4 DEF EnterVirtual, EnterContinued, Enter, Ways
  <2>3. Len(open') = Len(open) + 1
    BY <1>4, EnterContinuedOpens DEF EnterVirtual, Ways
  <2>4. Told' = Told  BY <2>1 DEF Told
  <2>5. Exactly'  BY <1>1, <1>2, <2>1, <2>3, <2>4 DEF Exactly
  <2>6. WordWidth'  BY <2>1, LayoutKept
  <2>7. Len(open) < Len(indents)  BY <1>1, <2>1, EnoughLevels
  <2>8. QED  BY <2>1, <2>2, <2>5, <2>6, <2>7, DepthsOpen
<1>5. CASE EnterReopened
  <2>1. /\ mode = "block" /\ mode' = "statements" /\ cached # "none" /\ cached # "indent"
        /\ UNCHANGED <<lines, width, next, begun, cached, pending, stmt, stmts>>
        /\ indents' = Append(indents, width) /\ Top < width
    BY <1>5 DEF EnterReopened, EnterContinued, Enter, AtBlock, Drained, Reopens
  <2>2. PICK way \in Ways : open' = Append(open, [owner |-> stmt, way |-> way])
    BY <1>5 DEF EnterReopened, EnterContinued, Enter, Ways
  <2>3. Len(open') = Len(open) + 1
    BY <1>5, EnterContinuedOpens DEF EnterReopened, Ways
  <2>4. Len(indents') = Len(indents) + 1 /\ Top' = width
    <3>1. indents \in Seq(Nat) /\ width \in Nat  BY DEF TypeOK
    <3>2. QED  BY <2>1, <3>1, PushProperties DEF Top
  <2>5. Told' = Told + 1
    <3>1. DEFINE d == (IF cached = "dedent" THEN 1 ELSE 0) - (IF cached = "indent" THEN 1 ELSE 0)
    <3>2. d \in Int  OBVIOUS
    <3>3. Told = Len(indents) - 1 + d /\ Told' = Len(indents') - 1 + d
      BY <1>2, <2>1, <2>4 DEF Told
    <3> HIDE DEF d
    <3>4. QED  BY <1>2, <2>4, <3>2, <3>3
  <2>6. Exactly'  BY <1>1, <1>2, <2>1, <2>3, <2>5 DEF Exactly
  <2>7. WordWidth'
    <3>1. Here' = Here /\ width \in Nat  BY <2>1, Numbers DEF Here
    <3>2. QED  BY <1>1, <2>1, <2>4, <3>1 DEF WordWidth
  <2>8. cached # "dedent" => Len(open) < Len(indents)  BY <1>1, EnoughLevels
  <2>9. QED  BY <2>1, <2>2, <2>6, <2>7, <2>8, DepthsOpen
<1>6. QED  BY <1>3, <1>4, <1>5

\* The innermost block closes: the others stand where they stood.
LEMMA DepthsClose ==
    ASSUME TypeOK, Books, Depths, CloseBlock
    PROVE  Depths'
<1>1. /\ LevelsAccounted /\ Exactly /\ FirstLine /\ Earlier /\ OwnersStand /\ ChildrenDeeper
      /\ CachedWhere
  BY DEF Books, Depths
<1>2. /\ mode = "close" /\ mode' = "after" /\ drained' = FALSE /\ open # <<>>
      /\ cached \in {"dedent", "eof"} /\ cached' = "none"
      /\ stmt' = Owner /\ open' = Front(open)
      /\ UNCHANGED <<lines, indents, width, next, begun, pending, stmts>>
  BY DEF CloseBlock, Take, layout
<1>3. open \in Seq([owner : Nat, way : Ways])  BY DEF TypeOK
<1>4. /\ Len(open) \in Nat /\ Len(open) >= 1 /\ Len(open') = Len(open) - 1
      /\ \A i \in 1..(Len(open) - 1) : open'[i] = open[i]
  BY <1>2, <1>3, PopProperties
<1>5. /\ Rising' /\ WordWidth' /\ \A n \in Nat : Behind(n) => Behind(n)'
  BY <1>2, LayoutKept
<1>6. Exactly'
  <2>1. CASE cached = "dedent"  BY <1>1, <1>2, <1>4, <2>1, ExactTake, Numbers
  <2>2. CASE cached = "eof"
    <3>1. next > Len(lines)  BY <1>1, <2>2 DEF CachedWhere
    <3>2. QED  BY <1>2, <3>1, Numbers DEF Exactly
  <2>3. QED  BY <1>2, <2>1, <2>2
<1>7. FirstLine'
  <2>1. stmts # <<>>  BY <1>1, <1>2 DEF FirstLine
  <2>2. QED  BY <1>1, <1>2, <2>1 DEF FirstLine
<1>8. Earlier'
  <2>1. Owner = open[Len(open)].owner /\ Len(open) \in 1..Len(open)  BY <1>2, InnermostOwner
  <2>2. ASSUME NEW i \in 1..Len(open') PROVE open'[i].owner <= Here
    <3>1. i \in 1..Len(open) /\ open'[i] = open[i]  BY <1>4
    <3>2. Behind(open[i].owner)  BY <1>1, <3>1 DEF Earlier
    <3>3. QED  BY <3>1, <3>2 DEF Behind
  <2>3. ASSUME NEW k \in 1..Len(stmts)
        PROVE  stmts[k].line >= 1 /\ Behind(stmts[k].line)' /\ Behind(stmts[k].parent)'
    <3>1. stmts[k].line >= 1 /\ Behind(stmts[k].line) /\ Behind(stmts[k].parent)
      BY <1>1 DEF Earlier
    <3>2. QED  BY <1>2, <3>1 DEF Behind, Here
  <2>4. Behind(stmt)'
    <3>1. Behind(open[Len(open)].owner)  BY <1>1, <2>1 DEF Earlier
    <3>2. QED  BY <1>2, <2>1, <3>1 DEF Behind, Here
  <2>5. QED  BY <1>2, <1>4, <2>2, <2>3, <2>4 DEF Earlier, Behind, Here
<1>9. OwnersStand'
  <2>1. SUFFICES ASSUME NEW i \in 1..Len(open')
                 PROVE  \A k \in 1..Len(stmts) :
                           (stmts[k].line = open'[i].owner /\ stmts[k].owed = 0)
                             => indents'[i] = stmts[k].level
    BY <1>2 DEF OwnersStand, Stands
  <2>2. i \in 1..Len(open) /\ i < Len(open) /\ open'[i] = open[i]  BY <1>4
  <2>3. Stands(open[i].owner, i)  BY <1>1, <2>2 DEF OwnersStand
  <2>4. QED  BY <1>2, <2>2, <2>3 DEF Stands
<1>10. StmtStands'  BY <1>2 DEF StmtStands
<1>11. ChildrenDeeper'  BY <1>1, <1>2 DEF ChildrenDeeper, Regular
<1>12. QED  BY <1>5, <1>6, <1>7, <1>8, <1>9, <1>10, <1>11 DEF Depths

LEMMA DepthsStep == TypeOK /\ Books /\ Depths /\ [Next]_vars => Depths'
<1> SUFFICES ASSUME TypeOK, Books, Depths, [Next]_vars PROVE Depths'
  OBVIOUS
<1> USE DEF layout
<1>0. Exactly /\ FirstLine /\ CloserPeeked /\ DedentIsBlocks /\ CachedWhere
  BY DEF Books, Depths
<1>1. CASE Peek  BY <1>1, DepthsPeek
<1>2. CASE BeginStatement  BY <1>2, DepthsBegin
<1>3. CASE SkipLinebreak
  <2>1. Exactly'  BY <1>0, <1>3, ExactTake, Numbers DEF SkipLinebreak, Take
  <2>2. QED  BY <1>0, <1>3, <2>1, DepthsKept DEF SkipLinebreak, Take, FirstLine
<1>4. CASE EndStatements
  <2>1. Exactly'  BY <1>0, <1>4, ExactKept DEF EndStatements
  <2>2. QED  BY <1>0, <1>4, <2>1, DepthsKept DEF EndStatements
<1>5. CASE EatLineContinuation
  <2>1. Exactly'
    <3>1. CASE cached = "indent" /\ pending' = pending + 1
      BY <1>0, <1>5, <3>1, ExactTake, Numbers DEF EatLineContinuation, Take
    <3>2. CASE cached = "linebreak" /\ UNCHANGED pending
      BY <1>0, <1>5, <3>2, ExactTake, Numbers DEF EatLineContinuation, Take
    <3>3. QED  BY <1>5, <3>1, <3>2 DEF EatLineContinuation, Take
  <2>2. cached' = "none"  BY <1>5 DEF EatLineContinuation, Take
  <2>3. QED  BY <1>0, <1>5, <2>1, <2>2, DepthsKept DEF EatLineContinuation, FirstLine
<1>6. CASE ReadOn
  <2>1. Exactly'  BY <1>0, <1>6, ExactTake, Numbers DEF ReadOn, Take
  <2>2. QED  BY <1>0, <1>6, <2>1, DepthsKept DEF ReadOn, Take, FirstLine
<1>7. CASE CommaContinues
  <2>1. Exactly'  BY <1>0, <1>7, ExactKept DEF CommaContinues
  <2>2. QED  BY <1>0, <1>7, <2>1, DepthsKept DEF CommaContinues, FirstLine
<1>8. CASE CommaTrails
  <2>1. Exactly'  BY <1>0, <1>8, ExactKept DEF CommaTrails
  <2>2. QED  BY <1>0, <1>8, <2>1, DepthsKept DEF CommaTrails, FirstLine
<1>9. CASE ExpectMore
  <2>1. Exactly'  BY <1>0, <1>9, ExactKept DEF ExpectMore, Fail
  <2>2. QED  BY <1>0, <1>9, <2>1, DepthsKept DEF ExpectMore, Fail, FirstLine
<1>10. CASE HeaderEnds
  <2>1. Exactly'  BY <1>0, <1>10, ExactKept DEF HeaderEnds
  <2>2. QED  BY <1>0, <1>10, <2>1, DepthsKept DEF HeaderEnds, FirstLine
<1>11. CASE DrainPendingDedents
  <2>1. Exactly'  BY <1>0, <1>11, ExactTake, Numbers DEF DrainPendingDedents, Take
  <2>2. QED  BY <1>0, <1>11, <2>1, DepthsKept DEF DrainPendingDedents, Take, FirstLine
<1>12. CASE EnterIndented \/ EnterReopened \/ EnterVirtual  BY <1>12, DepthsEnter
<1>13. CASE EmptyBlock
  <2>1. Exactly'  BY <1>0, <1>13, ExactKept DEF EmptyBlock
  <2>2. QED  BY <1>0, <1>13, <2>1, DepthsKept DEF EmptyBlock, AtBlock, FirstLine
<1>14. CASE CloseBlock  BY <1>14, DepthsClose
<1>15. CASE ParseEnds
  <2>1. Exactly'  BY <1>0, <1>15, ExactKept DEF ParseEnds
  <2>2. QED  BY <1>0, <1>15, <2>1, DepthsKept DEF ParseEnds
<1>16. CASE AfterDrained
  <2>1. Exactly'  BY <1>0, <1>16, ExactKept DEF AfterDrained, BackToStatements
  <2>2. QED  BY <1>0, <1>16, <2>1, DepthsKept DEF AfterDrained, BackToStatements, FirstLine
<1>17. CASE LastStatement
  <2>1. Exactly'  BY <1>0, <1>17, ExactKept DEF LastStatement
  <2>2. QED  BY <1>0, <1>17, <2>1, DepthsKept DEF LastStatement, AtTerminator, FirstLine
<1>18. CASE TakeTerminator
  <2>1. Exactly'  BY <1>0, <1>18, ExactTake, Numbers DEF TakeTerminator, Take, BackToStatements
  <2>2. QED
    BY <1>0, <1>18, <2>1, DepthsKept
    DEF TakeTerminator, Take, BackToStatements, AtTerminator, FirstLine
<1>19. CASE NoTerminator
  <2>1. Exactly'  BY <1>0, <1>19, ExactKept DEF NoTerminator, BackToStatements
  <2>2. QED
    BY <1>0, <1>19, <2>1, DepthsKept DEF NoTerminator, BackToStatements, AtTerminator, FirstLine
<1>20. CASE ExpectLinebreak
  <2>1. Exactly'  BY <1>0, <1>20, ExactKept DEF ExpectLinebreak, Fail
  <2>2. QED
    BY <1>0, <1>20, <2>1, DepthsKept DEF ExpectLinebreak, Fail, AtTerminator, FirstLine
<1>21. CASE UNCHANGED vars
  <2>1. Exactly'  BY <1>0, <1>21, ExactKept DEF vars
  <2>2. QED  BY <1>0, <1>21, <2>1, DepthsKept DEF vars, FirstLine
<1>22. QED
  BY <1>1, <1>2, <1>3, <1>4, <1>5, <1>6, <1>7, <1>8, <1>9, <1>10, <1>11, <1>12, <1>13,
     <1>14, <1>15, <1>16, <1>17, <1>18, <1>19, <1>20, <1>21
  DEF Next

----------------------------------------------------------------------------
(***************************************************************************)
(* The theorems.                                                            *)
(***************************************************************************)
\* The inductive invariant holds of every run of the parser.
THEOREM Invariant == Spec => []IInv
<1>1. Init => IInv  BY TypeInit, BooksInit, DepthsInit DEF IInv
<1>2. IInv /\ [Next]_vars => IInv'  BY TypeStep, BooksStep, DepthsStep DEF IInv, Books
<1>3. QED  BY <1>1, <1>2, PTL DEF Spec

\* Every field keeps its shape; none of the counters that the code decrements
\* without a check goes below zero.
THEOREM TypeCorrect == Spec => []TypeOK
<1>1. IInv => TypeOK  BY DEF IInv
<1>2. QED  BY <1>1, Invariant, PTL

\* Blocks and owed Indents account for the levels, whatever the lines' widths and
\* wherever statements run on.
THEOREM LevelsBalance == Spec => []LevelsAccounted
<1>1. IInv => LevelsAccounted  BY DEF IInv, Books
<1>2. QED  BY <1>1, Invariant, PTL

\* The loop at the top of the sheet never stops at a Dedent: what ends it is Eof.
THEOREM NoDedentLeftOver == Spec => []EveryDedentCloses
<1>1. IInv => EveryDedentCloses
  <2> SUFFICES ASSUME IInv, mode = "close", open = <<>>, cached = "dedent" PROVE FALSE
    BY DEF EveryDedentCloses
  <2>1. pending = 0 /\ next <= Len(lines)  BY DEF IInv, Books, DedentIsBlocks, CachedWhere
  <2>2. Len(open) = 0  BY EmptySeq
  <2>3. Len(open) + pending = Told  BY <2>1 DEF IInv, Books, LevelsAccounted
  <2>4. Told = Len(indents)  BY Numbers DEF IInv, Told
  <2>5. Len(indents) >= 1  BY TopLevel DEF IInv, Books
  <2>6. QED  BY <2>1, <2>2, <2>3, <2>4, <2>5
<1>2. QED  BY <1>1, Invariant, PTL

\* What stands in a block is deeper than its owner, for every indented source.
THEOREM ChildrenAreDeeper == Spec => []ChildrenDeeper
<1>1. IInv => ChildrenDeeper  BY DEF IInv, Depths
<1>2. QED  BY <1>1, Invariant, PTL

----------------------------------------------------------------------------
(***************************************************************************)
(* The layout the blocks are parsed from is that of LineLayout.  What has to *)
(* be known of the parser is that it never makes the width in effect less    *)
(* than the levels before the line break of the next line has been read.     *)
(***************************************************************************)
\* Levels are left over only for a line that has been begun.
LeftoversBegun == Top > width => begun

LEMMA LeftoversInit == Init => LeftoversBegun
<1> SUFFICES ASSUME Init PROVE LeftoversBegun
  OBVIOUS
<1>1. indents = <<0>> /\ width = 0  BY DEF Init
<1>2. Top = 0  BY <1>1 DEF Top, Last
<1>3. QED  BY <1>1, <1>2 DEF LeftoversBegun

\* What a step is to the layout: a peek, a token taken, a level opened again, nothing.
LEMMA LayoutSteps ==
    ASSUME [Next]_vars
    PROVE  \/ Peek
           \/ cached # "none" /\ cached' = "none" /\ UNCHANGED <<lines, layout>>
           \/ UNCHANGED <<lines, layout, cached>>
           \/ EnterReopened
<1> USE DEF layout
<1>1. CASE Peek  BY <1>1
<1>2. CASE BeginStatement \/ SkipLinebreak \/ EatLineContinuation \/ ReadOn
  BY <1>2 DEF BeginStatement, SkipLinebreak, EatLineContinuation, ReadOn, Take
<1>3. CASE DrainPendingDedents \/ EnterIndented \/ CloseBlock \/ TakeTerminator
  BY <1>3 DEF DrainPendingDedents, EnterIndented, CloseBlock, TakeTerminator, BackToStatements, Take
<1>4. CASE EndStatements \/ CommaContinues \/ CommaTrails \/ ExpectMore \/ HeaderEnds
  BY <1>4 DEF EndStatements, CommaContinues, CommaTrails, ExpectMore, HeaderEnds, Fail
<1>5. CASE EnterVirtual \/ EmptyBlock \/ ParseEnds \/ LastStatement
  BY <1>5 DEF EnterVirtual, EmptyBlock, ParseEnds, LastStatement
<1>6. CASE AfterDrained \/ NoTerminator \/ ExpectLinebreak
  BY <1>6 DEF AfterDrained, NoTerminator, ExpectLinebreak, BackToStatements, Fail
<1>7. CASE UNCHANGED vars  BY <1>7 DEF vars
<1>8. QED  BY <1>1, <1>2, <1>3, <1>4, <1>5, <1>6, <1>7 DEF Next

LEMMA LeftoversStep == IInv /\ LeftoversBegun /\ [Next]_vars => LeftoversBegun'
<1> SUFFICES ASSUME IInv, LeftoversBegun, [Next]_vars PROVE LeftoversBegun'
  OBVIOUS
<1> USE DEF LeftoversBegun
<1>1. TypeOK /\ Rooted  BY DEF IInv, Books
<1>2. Top \in Nat /\ width \in Nat  BY <1>1, TopLevel, Numbers
<1>3. CASE PeekPendingDedent  BY <1>2, <1>3 DEF PeekPendingDedent
<1>4. CASE PeekWord
  <2>1. Top' = Top  BY <1>4 DEF PeekWord, Top
  <2>2. QED  BY <1>2, <1>4, <2>1 DEF PeekWord
<1>5. CASE PeekLayout  BY <1>5 DEF PeekLayout
<1>6. CASE PeekEof  BY <1>6 DEF PeekEof, layout, Top
<1>7. CASE UNCHANGED <<lines, layout>>  BY <1>7 DEF layout, Top
<1>8. CASE EnterReopened
  <2>1. indents' = Append(indents, width) /\ width' = width /\ Top < width /\ begun' = begun
    BY <1>8 DEF EnterReopened, Reopens
  <2>2. Top' = width  BY <1>1, <1>2, <2>1, PushProperties DEF TypeOK, Top
  <2>3. QED  BY <1>2, <2>1, <2>2
<1>9. QED  BY <1>3, <1>4, <1>5, <1>6, <1>7, <1>8, LayoutSteps DEF Peek

\* The next line is the least of those that are left.
LEMMA NextLineIs ==
    ASSUME TypeOK, next <= Len(lines)
    PROVE  /\ next..Len(lines) # {} /\ L!NextLine = next
           /\ next \in 1..Len(lines)
           /\ (next + 1)..Len(lines) = (next..Len(lines)) \ {next}
<1>1. next \in Nat /\ next >= 1 /\ Len(lines) \in Nat  BY LenProperties DEF TypeOK
<1> DEFINE left == next..Len(lines)
<1>2. next \in left /\ \A j \in left : next <= j  BY <1>1
<1>3. \A i \in left : (\A j \in left : i <= j) => i = next  BY <1>1, <1>2
<1>4. (CHOOSE i \in left : \A j \in left : i <= j) = next  BY <1>2, <1>3
<1>5. L!NextLine = next  BY <1>4 DEF L!NextLine
<1>6. QED  BY <1>1, <1>2, <1>5

LEMMA LayoutInit == Init => L!LInit
<1> SUFFICES ASSUME Init PROVE L!LInit
  OBVIOUS
<1>1. TypeOK  BY TypeInit
<1>2. next = 1 /\ lines \in Seq(Line) /\ Len(lines) \in Nat  BY <1>1, LenProperties DEF Init, TypeOK
<1>3. \A i \in 1..Len(lines) : lines[i].width \in Nat
  <2>1. SUFFICES ASSUME NEW i \in 1..Len(lines) PROVE lines[i].width \in Nat
    OBVIOUS
  <2>2. lines[i] \in Line  BY <1>2, ElementOfSeq
  <2>3. QED  BY <2>2 DEF Line
<1>4. [i \in 1..Len(lines) |-> lines[i].width] \in [next..Len(lines) -> Nat]
  BY <1>2, <1>3
<1>5. next..Len(lines) \subseteq Nat  BY <1>2
<1>6. QED  BY <1>2, <1>4, <1>5 DEF Init, L!LInit

\* Every step is one of the layout's, or none.
LEMMA LayoutStep == IInv /\ LeftoversBegun /\ [Next]_vars => [L!LNext]_L!lvars
<1> SUFFICES ASSUME IInv, LeftoversBegun, [Next]_vars PROVE [L!LNext]_L!lvars
  OBVIOUS
<1> USE DEF layout
<1>1. TypeOK /\ Rooted  BY DEF IInv, Books
<1>2. Top \in Nat /\ width \in Nat /\ next \in Nat /\ Len(lines) \in Nat
  BY <1>1, TopLevel, Numbers
<1>0. L!Deepest = Top /\ L!Front(indents) = Front(indents)
  BY DEF L!Deepest, L!Last, L!Front, Top, Last, Front
<1>3. CASE PeekPendingDedent
  <2>1. /\ next <= Len(lines) /\ Top > width /\ indents' = Front(indents) /\ cached' = "dedent"
        /\ UNCHANGED <<lines, width, next, begun>>
    BY <1>3 DEF PeekPendingDedent, Token
  <2>2. L!Dedent  BY <1>0, <1>1, <2>1, NextLineIs DEF L!Dedent, LeftoversBegun
  <2>3. QED  BY <2>2 DEF L!LNext
<1>4. CASE PeekWord
  <2>1. /\ next <= Len(lines) /\ begun /\ Top <= width /\ next' = next + 1 /\ begun' = FALSE
        /\ cached' = "word" /\ UNCHANGED <<lines, indents, width>>
    BY <1>4 DEF PeekWord, Token
  <2>2. L!FirstWord  BY <1>0, <1>1, <2>1, NextLineIs DEF L!FirstWord
  <2>3. QED  BY <2>2 DEF L!LNext
<1>5. CASE PeekLayout
  <2>1. /\ next <= Len(lines) /\ ~begun /\ Top <= width /\ begun' = TRUE
        /\ width' = lines[next].width /\ UNCHANGED <<lines, next>>
        /\ \/ width' > Top /\ indents' = Append(indents, width') /\ cached' = "indent"
           \/ width' < Top /\ indents' = Front(indents) /\ cached' = "dedent"
           \/ width' = Top /\ UNCHANGED indents /\ cached' = "linebreak"
    BY <1>5 DEF PeekLayout, Token
  <2>2. [i \in 1..Len(lines) |-> lines[i].width][L!NextLine] = lines[next].width
    BY <1>1, <2>1, NextLineIs
  <2>3. L!Break  BY <1>0, <1>1, <2>1, <2>2, NextLineIs DEF L!Break
  <2>4. QED  BY <2>3 DEF L!LNext
<1>6. CASE PeekEof
  <2>1. next > Len(lines) /\ cached' = "eof" /\ UNCHANGED <<lines, layout>>
    BY <1>6, <1>2 DEF PeekEof, Token
  <2>2. next..Len(lines) = {}  BY <1>2, <2>1
  <2>3. L!Eof  BY <2>1, <2>2 DEF L!Eof
  <2>4. QED  BY <2>3 DEF L!LNext
<1>7. CASE cached # "none" /\ cached' = "none" /\ UNCHANGED <<lines, layout>>
  <2>1. L!Take  BY <1>7 DEF L!Take
  <2>2. QED  BY <2>1 DEF L!LNext
<1>8. CASE UNCHANGED <<lines, layout, cached>>  BY <1>8 DEF L!lvars
<1>9. CASE EnterReopened
  <2>1. /\ indents' = Append(indents, width) /\ Top < width
        /\ UNCHANGED <<lines, width, next, begun, cached>>
    BY <1>9 DEF EnterReopened, Reopens
  <2>2. L!Reopen  BY <1>0, <2>1 DEF L!Reopen
  <2>3. QED  BY <2>2 DEF L!LNext
<1>10. QED  BY <1>3, <1>4, <1>5, <1>6, <1>7, <1>8, <1>9, LayoutSteps DEF Peek

\* The parser of the blocks reads the layout tokens of LineLayout, for every source and
\* however its statements run on: each line break once, each Dedent in front of the
\* line that caused it.
THEOREM BlocksReadLayout == Spec => ReadsLayout
<1>1. Init => L!LInit /\ LeftoversBegun  BY LayoutInit, LeftoversInit
<1>2. IInv /\ LeftoversBegun /\ [Next]_vars => LeftoversBegun' /\ [L!LNext]_L!lvars
  BY LeftoversStep, LayoutStep
<1>3. QED  BY <1>1, <1>2, Invariant, PTL DEF Spec, ReadsLayout, L!LSpec

----------------------------------------------------------------------------
(***************************************************************************)
(* The parse ends: what a step gives away of the budget, part by part.       *)
(***************************************************************************)
One(p) == IF p THEN 1 ELSE 0

Unread == 2 * (Len(lines) + 1 - next) + One(~begun)

Apart == One(Top # width)

Depth == Len(indents) + One(cached \notin {"none", "eof"})

Inside == Len(open) + pending

Fresh == One(cached = "none")

Rank == CASE mode = "header"     -> 5 + (CASE reads = "comma" -> 2
                                           [] reads = "open"  -> 1
                                           [] OTHER           -> 0)
          [] mode = "block"      -> 4
          [] mode = "after"      -> 3
          [] mode = "statements" -> 2
          [] mode = "close"      -> 1
          [] OTHER               -> 0

Sum(unread, apart, depth, inside, fresh, rank) ==
    25 * unread + 11 * apart + 7 * depth + 4 * inside + fresh + rank

\* The line of the next word is one of the source, or the one behind them.
NextInRange == TypeOK /\ Rooted /\ next <= Len(lines) + 1

LEMMA BudgetParts ==
    ASSUME NextInRange
    PROVE  /\ Budget = Sum(Unread, Apart, Depth, Inside, Fresh, Rank)
           /\ Unread \in Nat /\ Apart \in 0..1 /\ Depth \in Nat /\ Inside \in Nat
           /\ Fresh \in 0..1 /\ Rank \in 0..7
<1>1. /\ Len(open) \in Nat /\ Len(indents) \in Nat /\ Len(lines) \in Nat
      /\ pending \in Nat /\ next \in Nat /\ next <= Len(lines) + 1
  BY LenProperties DEF NextInRange, TypeOK
<1>2. Unread \in Nat /\ Apart \in 0..1 /\ Depth \in Nat /\ Inside \in Nat /\ Fresh \in 0..1
  BY <1>1 DEF Unread, Apart, Depth, Inside, Fresh, One
<1>3. Rank \in 0..7  BY DEF Rank
<1>4. Budget = Sum(Unread, Apart, Depth, Inside, Fresh, Rank)
  BY DEF Budget, Sum, Unread, Apart, Depth, Inside, Fresh, One, Rank
<1>5. QED  BY <1>2, <1>3, <1>4

\* The same behind a step.
LEMMA BudgetPartsThen ==
    ASSUME NextInRange'
    PROVE  /\ Budget' = Sum(Unread', Apart', Depth', Inside', Fresh', Rank')
           /\ Unread' \in Nat /\ Apart' \in 0..1 /\ Depth' \in Nat /\ Inside' \in Nat
           /\ Fresh' \in 0..1 /\ Rank' \in 0..7
<1>1. /\ Len(open') \in Nat /\ Len(indents') \in Nat /\ Len(lines') \in Nat
      /\ pending' \in Nat /\ next' \in Nat /\ next' <= Len(lines') + 1
  BY LenProperties DEF NextInRange, TypeOK
<1>2. /\ Unread' \in Nat /\ Apart' \in 0..1 /\ Depth' \in Nat /\ Inside' \in Nat
      /\ Fresh' \in 0..1
  BY <1>1 DEF Unread, Apart, Depth, Inside, Fresh, One
<1>3. Rank' \in 0..7  BY DEF Rank
<1>4. Budget' = Sum(Unread', Apart', Depth', Inside', Fresh', Rank')
  BY DEF Budget, Sum, Unread, Apart, Depth, Inside, Fresh, One, Rank
<1>5. QED  BY <1>2, <1>3, <1>4

\* A step that reads nothing and takes nothing.
LEMMA BudgetOfTurn ==
    ASSUME NextInRange, NextInRange', UNCHANGED <<lines, layout, cached>>,
           Inside' = Inside, Rank' < Rank
    PROVE  Budget' \in Nat /\ Budget' < Budget
<1>1. Unread' = Unread /\ Apart' = Apart /\ Depth' = Depth /\ Fresh' = Fresh
  BY DEF Unread, Apart, Depth, Fresh, Top, layout, One
<1>2. /\ Unread \in Nat /\ Apart \in 0..1 /\ Depth \in Nat /\ Inside \in Nat
      /\ Fresh \in 0..1 /\ Rank \in 0..7
      /\ Inside' \in Nat /\ Rank' \in 0..7
  BY BudgetParts, BudgetPartsThen
<1>3. \A u, d, i \in Nat : \A a, f \in 0..1 : \A r, q \in 0..7 :
        q < r => Sum(u, a, d, i, f, q) \in Nat /\ Sum(u, a, d, i, f, q) < Sum(u, a, d, i, f, r)
  BY DEF Sum
<1>4. /\ Sum(Unread, Apart, Depth, Inside, Fresh, Rank') \in Nat
      /\ Sum(Unread, Apart, Depth, Inside, Fresh, Rank')
           < Sum(Unread, Apart, Depth, Inside, Fresh, Rank)
  BY <1>2, <1>3
<1>5. /\ Budget = Sum(Unread, Apart, Depth, Inside, Fresh, Rank)
      /\ Budget' = Sum(Unread, Apart, Depth, Inside, Fresh, Rank')
  BY <1>1, BudgetParts, BudgetPartsThen
<1>6. QED  BY <1>4, <1>5

\* A step that takes a token other than Eof.
LEMMA BudgetOfTake ==
    ASSUME NextInRange, NextInRange', UNCHANGED <<lines, layout>>,
           cached \notin {"none", "eof"}, cached' = "none",
           \/ Inside' <= Inside /\ Rank' < Rank + 6
           \/ Inside' = Inside + 1 /\ Rank' <= Rank
    PROVE  Budget' \in Nat /\ Budget' < Budget
<1>1. /\ Unread' = Unread /\ Apart' = Apart
      /\ Fresh = 0 /\ Fresh' = 1
  BY DEF Unread, Apart, Fresh, Top, layout, One
<1>2. Len(indents) \in Nat  BY Numbers DEF NextInRange
<1>3. Depth = Depth' + 1  BY <1>2 DEF Depth, layout, One
<1>4. /\ Unread \in Nat /\ Apart \in 0..1 /\ Depth' \in Nat /\ Inside \in Nat /\ Rank \in 0..7
      /\ Inside' \in Nat /\ Rank' \in 0..7
  BY BudgetParts, BudgetPartsThen
<1>5. \A u, d, i, j \in Nat : \A a \in 0..1 : \A r, q \in 0..7 :
        (j <= i /\ q < r + 6) \/ (j = i + 1 /\ q <= r) =>
          /\ Sum(u, a, d, j, 1, q) \in Nat
          /\ Sum(u, a, d, j, 1, q) < Sum(u, a, d + 1, i, 0, r)
  BY DEF Sum
<1>6. /\ Sum(Unread, Apart, Depth', Inside', 1, Rank') \in Nat
      /\ Sum(Unread, Apart, Depth', Inside', 1, Rank')
           < Sum(Unread, Apart, Depth' + 1, Inside, 0, Rank)
  BY <1>4, <1>5
<1>7. /\ Budget = Sum(Unread, Apart, Depth' + 1, Inside, 0, Rank)
      /\ Budget' = Sum(Unread, Apart, Depth', Inside', 1, Rank')
  BY <1>1, <1>3, BudgetParts, BudgetPartsThen
<1>8. QED  BY <1>6, <1>7

\* Reading a line break pays for the level and the token it makes, reading a word for
\* the token; a Dedent that was due is paid for by its level.
LEMMA BudgetOfPeek ==
    ASSUME NextInRange, NextInRange', Peek
    PROVE  Budget' \in Nat /\ Budget' < Budget
<1>1. /\ UNCHANGED <<lines, pending, mode, reads, open>> /\ cached = "none"
      /\ cached' \in {"word", "indent", "dedent", "linebreak", "eof"}
  BY DEF Peek, PeekPendingDedent, PeekWord, PeekLayout, PeekEof, Token
<1>2. /\ Inside' = Inside /\ Rank' = Rank
      /\ Fresh = 1 /\ Fresh' = 0
  BY <1>1 DEF Inside, Rank, Fresh, One
<1>3. /\ Unread \in Nat /\ Apart \in 0..1 /\ Depth \in Nat /\ Inside \in Nat /\ Rank \in 0..7
      /\ Unread' \in Nat /\ Apart' \in 0..1 /\ Depth' \in Nat
  BY BudgetParts, BudgetPartsThen
<1>4. /\ Top \in Nat /\ width \in Nat /\ next \in Nat /\ Len(lines) \in Nat
      /\ indents \in Seq(Nat) /\ Len(indents) \in Nat /\ Len(Front(indents)) = Len(indents) - 1
  BY TopLevel, Numbers DEF NextInRange, TypeOK
<1>5. Depth = Len(indents)  BY <1>1, <1>4 DEF Depth, One
<1>6. SUFFICES \/ Unread' = Unread /\ Depth' = Depth /\ (Apart = 1 \/ Apart' = Apart)
               \/ Unread' = Unread - 1 /\ Depth' <= Depth + 1
               \/ Unread' = Unread - 1 /\ Depth' = Depth + 2 /\ Apart' = 0
  <2>1. \A u, v, d, e, i \in Nat : \A a, c \in 0..1 : \A r \in 0..7 :
          (\/ v = u /\ e = d /\ (a = 1 \/ c = a)
           \/ v = u - 1 /\ e <= d + 1
           \/ v = u - 1 /\ e = d + 2 /\ c = 0) =>
             Sum(v, c, e, i, 0, r) \in Nat /\ Sum(v, c, e, i, 0, r) < Sum(u, a, d, i, 1, r)
    BY DEF Sum
  <2>2. /\ Sum(Unread', Apart', Depth', Inside, 0, Rank) \in Nat
        /\ Sum(Unread', Apart', Depth', Inside, 0, Rank)
             < Sum(Unread, Apart, Depth, Inside, 1, Rank)
    BY <1>3, <1>6, <2>1
  <2>3. /\ Budget = Sum(Unread, Apart, Depth, Inside, 1, Rank)
        /\ Budget' = Sum(Unread', Apart', Depth', Inside, 0, Rank)
    BY <1>2, BudgetParts, BudgetPartsThen
  <2>4. QED  BY <2>2, <2>3
<1>7. CASE PeekPendingDedent
  <2>1. Unread' = Unread  BY <1>1, <1>7 DEF PeekPendingDedent, Unread, One
  <2>2. Apart = 1  BY <1>4, <1>7 DEF PeekPendingDedent, Apart, One
  <2>3. Depth' = Depth
    <3>1. indents' = Front(indents) /\ cached' = "dedent"
      BY <1>7 DEF PeekPendingDedent, Token
    <3>2. Depth' = Len(indents') + 1  BY <3>1 DEF Depth, One
    <3>3. QED  BY <1>4, <1>5, <3>1, <3>2
  <2>4. QED  BY <2>1, <2>2, <2>3
<1>8. CASE PeekWord
  <2>1. Unread' = Unread - 1
    <3>1. next' = next + 1 /\ begun /\ begun' = FALSE /\ lines' = lines  BY <1>1, <1>8 DEF PeekWord
    <3>2. One(~begun) = 0 /\ One(~begun)' = 1  BY <3>1 DEF One
    <3>3. Unread' = 2 * (Len(lines) + 1 - (next + 1)) + 1  BY <3>1, <3>2 DEF Unread
    <3>4. QED  BY <1>4, <3>2, <3>3 DEF Unread
  <2>2. Apart' = Apart  BY <1>8 DEF PeekWord, Apart, Top, One
  <2>3. Depth' = Depth + 1
    <3>1. indents' = indents /\ cached' = "word"  BY <1>8 DEF PeekWord, Token
    <3>2. QED  BY <1>5, <3>1 DEF Depth, One
  <2>4. QED  BY <1>3, <2>1, <2>3
<1>9. CASE PeekLayout
  <2>1. Unread' = Unread - 1
    <3>1. next' = next /\ ~begun /\ begun' = TRUE /\ lines' = lines  BY <1>1, <1>9 DEF PeekLayout
    <3>2. One(~begun) = 1 /\ One(~begun)' = 0  BY <3>1 DEF One
    <3>3. Unread' = 2 * (Len(lines) + 1 - next)  BY <1>4, <3>1, <3>2 DEF Unread
    <3>4. QED  BY <1>4, <3>2, <3>3 DEF Unread
  <2>2. /\ \/ width' > Top /\ indents' = Append(indents, width') /\ cached' = "indent"
           \/ width' < Top /\ indents' = Front(indents) /\ cached' = "dedent"
           \/ width' = Top /\ indents' = indents /\ cached' = "linebreak"
    BY <1>9 DEF PeekLayout, Token
  <2>3. width' \in Nat  BY DEF NextInRange, TypeOK
  <2>4. Depth' = Len(indents') + 1  BY <2>2 DEF Depth, One
  <2>5. Len(Append(indents, width')) = Len(indents) + 1
        /\ Last(Append(indents, width')) = width'
    BY <1>4, <2>3, PushProperties
  <2>6. CASE indents' = Append(indents, width')
    <3>1. Apart' = 0  BY <2>5, <2>6 DEF Apart, Top, One
    <3>2. Depth' = Depth + 2  BY <1>4, <1>5, <2>4, <2>5, <2>6
    <3>3. QED  BY <2>1, <3>1, <3>2
  <2>7. CASE indents' \in {indents, Front(indents)}
    <3>1. Depth' <= Depth + 1  BY <1>4, <1>5, <2>4, <2>7
    <3>2. QED  BY <2>1, <3>1
  <2>8. QED  BY <2>2, <2>6, <2>7
<1>10. CASE PeekEof
  <2>1. UNCHANGED <<lines, indents, width, next, begun>> /\ cached' = "eof"
    BY <1>1, <1>10 DEF PeekEof, Token, layout
  <2>2. Unread' = Unread /\ Apart' = Apart /\ Depth' = Depth
    BY <1>5, <2>1 DEF Unread, Apart, Depth, Top, One
  <2>3. QED  BY <2>2
<1>11. QED  BY <1>7, <1>8, <1>9, <1>10 DEF Peek

\* A line is read only if there is one.
LEMMA NextInit == Init => next <= Len(lines) + 1
<1> SUFFICES ASSUME Init PROVE next <= Len(lines) + 1
  OBVIOUS
<1>1. Len(lines) \in Nat  BY TypeInit, LenProperties DEF TypeOK
<1>2. QED  BY <1>1 DEF Init

LEMMA NextStep ==
    ASSUME TypeOK, next <= Len(lines) + 1, [Next]_vars
    PROVE  (next <= Len(lines) + 1)'
<1>1. next \in Nat /\ Len(lines) \in Nat  BY Numbers
<1>2. lines' = lines /\ (next' = next \/ (next <= Len(lines) /\ next' = next + 1))
  BY LayoutSteps DEF layout, Peek, PeekPendingDedent, PeekWord, PeekLayout, PeekEof, Token,
                     EnterReopened
<1>3. QED  BY <1>1, <1>2

LEMMA BudgetStep ==
    ASSUME IInv, IInv', next <= Len(lines) + 1, (next <= Len(lines) + 1)', Next
    PROVE  Budget' \in Nat /\ Budget' < Budget
<1>1. NextInRange /\ NextInRange'  BY DEF NextInRange, IInv, Books
<1>0. Inside \in Nat /\ Rank \in 0..7 /\ Rank' \in 0..7
  BY <1>1, BudgetParts, BudgetPartsThen
<1>2. Len(open) \in Nat /\ pending \in Nat  BY Numbers DEF IInv
<1> USE DEF Take, Fail, BackToStatements
<1>3. CASE Peek  BY <1>1, <1>3, BudgetOfPeek
<1>4. CASE BeginStatement
  <2>1. Inside' = Inside /\ Rank = 2 /\ Rank' <= 7
    BY <1>4, <1>1, BudgetPartsThen DEF BeginStatement, Inside, Rank
  <2>2. QED  BY <1>1, <1>4, <2>1, <1>0, BudgetOfTake DEF BeginStatement
<1>5. CASE SkipLinebreak \/ TakeTerminator
  <2>1. Inside' = Inside /\ Rank' <= 3 /\ Rank >= 2
    BY <1>5 DEF SkipLinebreak, TakeTerminator, AtTerminator, Inside, Rank
  <2>2. cached = "linebreak" /\ cached' = "none" /\ UNCHANGED <<lines, layout>>
    BY <1>5 DEF SkipLinebreak, TakeTerminator
  <2>3. QED  BY <1>1, <1>0, <2>1, <2>2, BudgetOfTake
<1>6. CASE EatLineContinuation
  <2>1. Rank' = Rank /\ (Inside' = Inside + 1 \/ Inside' = Inside)
    BY <1>2, <1>6 DEF EatLineContinuation, Inside, Rank
  <2>2. cached \in {"indent", "linebreak"} /\ cached' = "none" /\ UNCHANGED <<lines, layout>>
    BY <1>6 DEF EatLineContinuation
  <2>3. QED  BY <1>1, <2>1, <2>2, <1>0, BudgetOfTake
<1>7. CASE ReadOn
  <2>1. Inside' = Inside /\ Rank = 6 /\ Rank' <= 7
    BY <1>7, <1>1, BudgetPartsThen DEF ReadOn, Inside, Rank
  <2>2. QED  BY <1>1, <1>7, <1>0, <2>1, BudgetOfTake DEF ReadOn
<1>8. CASE DrainPendingDedents
  <2>1. Inside' <= Inside /\ Rank' = Rank /\ Rank \in {3, 4}
    BY <1>2, <1>8 DEF DrainPendingDedents, Inside, Rank
  <2>2. QED  BY <1>1, <1>8, <2>1, BudgetOfTake DEF DrainPendingDedents
<1>9. CASE EnterIndented
  <2>1. Len(open') = Len(open) + 1 /\ mode' = "statements"
    BY <1>9, EnterOpens DEF EnterIndented, Ways, IInv
  <2>2. Inside' = Inside + 1 /\ Rank' <= Rank
    BY <1>2, <1>9, <2>1 DEF EnterIndented, Inside, Rank
  <2>3. QED  BY <1>1, <1>9, <2>2, BudgetOfTake DEF EnterIndented
<1>10. CASE EnterVirtual
  <2>1. Len(open') = Len(open) + 1 /\ mode' = "statements"
    BY <1>10, EnterContinuedOpens DEF EnterVirtual, Ways, IInv
  <2>2. Inside' = Inside /\ Rank' < Rank
    BY <1>2, <1>10, <2>1 DEF EnterVirtual, AtBlock, Inside, Rank
  <2>3. QED  BY <1>1, <1>10, <2>2, BudgetOfTurn DEF EnterVirtual
<1>11. CASE EnterReopened
  <2>1. Len(open') = Len(open) + 1 /\ mode' = "statements"
    BY <1>11, EnterContinuedOpens DEF EnterReopened, Ways, IInv
  <2>2. Inside' = Inside + 1 /\ Rank = 4 /\ Rank' = 2
    BY <1>2, <1>11, <2>1 DEF EnterReopened, AtBlock, Inside, Rank
  <2>3. Unread' = Unread /\ Fresh' = Fresh
    BY <1>11 DEF EnterReopened, Unread, Fresh, One
  <2>4. indents \in Seq(Nat) /\ width \in Nat /\ Len(indents) \in Nat /\ Top \in Nat
    BY TopLevel DEF IInv, Books, TypeOK
  <2>5. indents' = Append(indents, width) /\ width' = width /\ cached' = cached /\ Top < width
    BY <1>11 DEF EnterReopened, Reopens
  <2>6. Len(indents') = Len(indents) + 1 /\ Top' = width
    BY <2>4, <2>5, PushProperties DEF Top
  <2>7. Apart = 1 /\ Apart' = 0  BY <2>4, <2>5, <2>6 DEF Apart, One
  <2>8. Depth' = Depth + 1  BY <2>4, <2>5, <2>6 DEF Depth, One
  <2>9. \A u, d, i \in Nat : \A f \in 0..1 :
          /\ Sum(u, 0, d + 1, i + 1, f, 2) \in Nat
          /\ Sum(u, 0, d + 1, i + 1, f, 2) < Sum(u, 1, d, i, f, 4)
    BY DEF Sum
  <2>10. Unread \in Nat /\ Depth \in Nat /\ Inside \in Nat /\ Fresh \in 0..1
    BY <1>1, BudgetParts
  <2>11. /\ Sum(Unread, 0, Depth + 1, Inside + 1, Fresh, 2) \in Nat
         /\ Sum(Unread, 0, Depth + 1, Inside + 1, Fresh, 2) < Sum(Unread, 1, Depth, Inside, Fresh, 4)
    BY <2>9, <2>10
  <2>12. /\ Budget = Sum(Unread, 1, Depth, Inside, Fresh, 4)
         /\ Budget' = Sum(Unread, 0, Depth + 1, Inside + 1, Fresh, 2)
    BY <1>1, <2>2, <2>3, <2>7, <2>8, BudgetParts, BudgetPartsThen
  <2>13. QED  BY <2>11, <2>12
<1>12. CASE CloseBlock
  <2>1. Len(open') = Len(open) - 1 /\ mode = "close" /\ mode' = "after"
        /\ UNCHANGED <<lines, layout, pending>> /\ cached' = "none"
    BY <1>12, OwnerType DEF CloseBlock, IInv
  <2>2. Inside' = Inside - 1 /\ Rank = 1 /\ Rank' = 3  BY <1>2, <2>1 DEF Inside, Rank
  <2>3. CASE cached = "dedent"
    BY <1>1, <1>2, <2>1, <2>2, <2>3, BudgetOfTake DEF Inside
  <2>4. CASE cached = "eof"
    <3>1. /\ Unread' = Unread /\ Apart' = Apart /\ Depth' = Depth /\ Fresh = 0 /\ Fresh' = 1
      BY <2>1, <2>4 DEF Unread, Apart, Depth, Fresh, Top, layout, One
    <3>2. \A u, d, j \in Nat : \A a \in 0..1 :
            /\ Sum(u, a, d, j, 1, 3) \in Nat
            /\ Sum(u, a, d, j, 1, 3) < Sum(u, a, d, j + 1, 0, 1)
      BY DEF Sum
    <3>3. Unread \in Nat /\ Depth \in Nat /\ Inside' \in Nat /\ Apart \in 0..1 /\ Inside \in Nat
      BY <1>1, BudgetParts, BudgetPartsThen
    <3>4. /\ Sum(Unread, Apart, Depth, Inside', 1, 3) \in Nat
          /\ Sum(Unread, Apart, Depth, Inside', 1, 3)
               < Sum(Unread, Apart, Depth, Inside' + 1, 0, 1)
      BY <3>2, <3>3
    <3>5. Inside = Inside' + 1  BY <2>2, <3>3
    <3>6. /\ Budget = Sum(Unread, Apart, Depth, Inside' + 1, 0, 1)
          /\ Budget' = Sum(Unread, Apart, Depth, Inside', 1, 3)
      BY <1>1, <2>2, <3>1, <3>5, BudgetParts, BudgetPartsThen
    <3>7. QED  BY <3>4, <3>6
  <2>5. QED  BY <1>12, <2>3, <2>4 DEF CloseBlock
<1>13. CASE EndStatements \/ CommaContinues \/ CommaTrails \/ ExpectMore \/ HeaderEnds
  <2>1. UNCHANGED <<lines, layout, cached, pending, open>>
    BY <1>13 DEF EndStatements, CommaContinues, CommaTrails, ExpectMore, HeaderEnds
  <2>2. Rank' < Rank
    BY <1>13 DEF EndStatements, CommaContinues, CommaTrails, ExpectMore, HeaderEnds, Rank
  <2>3. QED  BY <1>1, <2>1, <2>2, BudgetOfTurn DEF Inside
<1>14. CASE EmptyBlock \/ ParseEnds \/ AfterDrained \/ LastStatement \/ NoTerminator
              \/ ExpectLinebreak
  <2>1. UNCHANGED <<lines, layout, cached, pending, open>>
    BY <1>14 DEF EmptyBlock, ParseEnds, AfterDrained, LastStatement, NoTerminator, ExpectLinebreak
  <2>2. Rank' < Rank
    BY <1>14 DEF EmptyBlock, ParseEnds, AfterDrained, LastStatement, NoTerminator,
                 ExpectLinebreak, AtBlock, AtTerminator, Rank
  <2>3. QED  BY <1>1, <2>1, <2>2, BudgetOfTurn DEF Inside
<1>15. QED
  BY <1>3, <1>4, <1>5, <1>6, <1>7, <1>8, <1>9, <1>10, <1>11, <1>12, <1>13, <1>14 DEF Next

\* Every step of the parse gives something of the budget away, for every source and
\* however its statements run on: the parse of a sheet ends after a number of steps
\* that grows with its lines.
THEOREM ParseIsBounded == Spec => StepsBounded
<1>1. Spec => [](IInv /\ next <= Len(lines) + 1)
  <2>1. IInv /\ next <= Len(lines) + 1 /\ [Next]_vars => (next <= Len(lines) + 1)'
    BY NextStep DEF IInv
  <2>2. QED  BY <2>1, NextInit, Invariant, PTL DEF Spec
<1>2. IInv /\ next <= Len(lines) + 1 /\ IInv' /\ (next <= Len(lines) + 1)' /\ [Next]_vars
      => [Budget' \in Nat /\ Budget' < Budget]_vars
  BY BudgetStep
<1>3. QED  BY <1>1, <1>2, PTL DEF Spec, StepsBounded

=============================================================================
