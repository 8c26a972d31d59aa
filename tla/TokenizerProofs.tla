-------------------------- MODULE TokenizerProofs --------------------------
(***************************************************************************)
(* The tokenizer keeps its promises for every source and every dialect: its *)
(* stack of levels is sound, a Dedent reaches the parser for every level    *)
(* that closes, its depths are the real nesting, and every byte of the      *)
(* source is read exactly once.                                            *)
(***************************************************************************)
EXTENDS Tokenizer, BytesProofs, Stacks

----------------------------------------------------------------------------
(***************************************************************************)
(* The strengthenings.                                                      *)
(***************************************************************************)
\* The local `indent` holds a layout token while the loop of skip_ws_or_comment
\* runs, and only where indentation counts; a static piece is only awaited
\* directly behind the brace that closed its hole.
Flow ==
    /\ indent # <<>> => phase = "skip" /\ syntax = "Sass" /\ st.parenDepth = 0
    /\ resume # "none" => phase # "skip" /\ Emitted /\ Last(out).kind = "RBrace"

Records ==
    /\ out \in Seq(Token) /\ comments \in Seq(Token)
    /\ indent # <<>> => indent = <<indent[1]>> /\ indent[1] \in Token /\ indent[1].kind \in Layout

\* A url's hole is inside the url's parenthesis.
UrlInParen ==
    phase # "failed" =>
      /\ \A i \in 1..Len(nest) : nest[i] = "url" => i > 1 /\ nest[i - 1] = "paren"
      /\ (Emitted /\ Last(out).kind \in {"LParen", "UrlTemplate"})
            => (nest # <<>> /\ Last(nest) = "paren")
      /\ resume = "url" => nest # <<>> /\ Last(nest) = "paren"

Core == TypeOK /\ Records /\ Flow /\ IndentStack /\ UrlInParen

\* A level that a line has left stays open only until the bump that follows:
\* brackets open, and content is read, at the level of their own line.
LevelsClosed ==
    (syntax = "Sass" /\ OnlyLineComments) =>
      /\ st.parenDepth > 0 => Top <= st.currentIndent
      /\ (phase = "skip" /\ indent = <<>>) => (Top <= st.currentIndent \/ st.pos = Len(src))
      /\ (phase = "skip" /\ indent # <<>>) => At(src, st.pos) # "sp"

\* The end is the end: behind Eof there is nothing left to read.
AtTheEnd ==
    /\ AtEof => st.pos = Len(src) /\ indent = <<>>
    /\ (indent # <<>> /\ indent[1].kind = "Eof") => st.pos = Len(src)

\* A Dedent that a later line break could overwrite has a comment in front of it.
NothingOverwritten ==
    (phase = "skip" /\ comments = <<>> /\ indent # <<>>) => At(src, st.pos) \notin Ws

\* The flag is up exactly while a hole is due.
FlagIsHole ==
    /\ st.openerPending => /\ At(src, st.pos) = "lbrace" /\ indent = <<>>
                           /\ syntax \in {"Scss", "Sass"}
    /\ (phase # "failed" /\ syntax \in {"Scss", "Sass"}) => (st.openerPending <=> HoleDue)

\* Where the token that is returned next must begin.
Frontier == IF indent = <<>> THEN st.pos ELSE indent[1].start

\* The layout token in hand spans blanks that nobody else has read.
LayoutUnread ==
    indent # <<>> =>
      /\ indent[1].start <= indent[1].end /\ indent[1].end <= st.pos
      /\ \A i \in indent[1].start..(indent[1].end - 1) : At(src, i) \in Ws /\ Readers(i) = 0

----------------------------------------------------------------------------
(***************************************************************************)
(* The levels.                                                              *)
(***************************************************************************)
\* In the indented syntax there is a level in effect, and only the root is 0.
LEMMA TopLevel ==
    ASSUME TypeOK, IndentStack, syntax = "Sass"
    PROVE  /\ Top \in Nat /\ st.indents \in Seq(Nat) /\ st.indents # <<>>
           /\ Len(st.indents) \in Nat /\ Len(st.indents) >= 1
           /\ Top = st.indents[Len(st.indents)]
           /\ Top > 0 => Len(st.indents) > 1
<1>1. st.indents \in Seq(Nat)  BY DEF TypeOK
<1>2. st.indents # <<>> /\ st.indents[1] = 0  BY DEF IndentStack
<1>3. /\ Len(st.indents) \in Nat /\ Len(st.indents) >= 1
      /\ Last(st.indents) = st.indents[Len(st.indents)] /\ Last(st.indents) \in Nat
  BY <1>1, <1>2, PopProperties
<1>4. QED  BY <1>1, <1>2, <1>3 DEF Top

\* Closing the innermost level, which is not the root's.
LEMMA LevelPopped ==
    ASSUME TypeOK, IndentStack, syntax = "Sass", Top > 0
    PROVE  /\ Front(st.indents) \in Seq(Nat) /\ Front(st.indents) # <<>>
           /\ Front(st.indents)[1] = 0 /\ Len(Front(st.indents)) = Len(st.indents) - 1
           /\ \A i \in 1..(Len(Front(st.indents)) - 1) :
                 Front(st.indents)[i] < Front(st.indents)[i + 1]
<1> DEFINE s == st.indents
           f == Front(st.indents)
<1>1. s \in Seq(Nat) /\ s # <<>> /\ Len(s) > 1 /\ s[1] = 0 /\ Len(s) \in Nat
      /\ \A i \in 1..(Len(s) - 1) : s[i] < s[i + 1]
  BY TopLevel DEF IndentStack
<1> HIDE DEF s
<1>2. /\ f \in Seq(Nat) /\ Len(f) = Len(s) - 1 /\ f # <<>> /\ f[1] = s[1]
      /\ \A i \in 1..(Len(s) - 1) : f[i] = s[i]
  BY <1>1, PopProperties DEF s
<1> HIDE DEF f
<1>3. ASSUME NEW i \in 1..(Len(f) - 1) PROVE f[i] < f[i + 1]
  <2>1. i \in 1..(Len(s) - 1) /\ i + 1 \in 1..(Len(s) - 1)  BY <1>1, <1>2
  <2>2. QED  BY <1>1, <1>2, <2>1
<1>4. QED  BY <1>1, <1>2, <1>3 DEF f, s

\* Opening a deeper level.
LEMMA LevelPushed ==
    ASSUME TypeOK, IndentStack, syntax = "Sass", NEW len \in Nat, Top < len
    PROVE  LET f == Append(st.indents, len)
           IN  /\ f \in Seq(Nat) /\ f # <<>> /\ f[1] = 0 /\ Len(f) = Len(st.indents) + 1
               /\ Last(f) = len
               /\ \A i \in 1..(Len(f) - 1) : f[i] < f[i + 1]
<1> DEFINE s == st.indents
           f == Append(st.indents, len)
<1>1. s \in Seq(Nat) /\ s # <<>> /\ s[1] = 0 /\ Len(s) \in Nat /\ s[Len(s)] < len
      /\ \A i \in 1..(Len(s) - 1) : s[i] < s[i + 1]
  BY TopLevel DEF IndentStack
<1> HIDE DEF s
<1>2. /\ f \in Seq(Nat) /\ Len(f) = Len(s) + 1 /\ f # <<>> /\ f[1] = s[1] /\ Last(f) = len
      /\ \A i \in 1..Len(s) : f[i] = s[i]
      /\ f[Len(s) + 1] = len
  BY <1>1, PushProperties DEF s
<1> HIDE DEF f
<1>3. ASSUME NEW i \in 1..(Len(f) - 1) PROVE f[i] < f[i + 1]
  <2>1. CASE i = Len(s)  BY <2>1, <1>1, <1>2
  <2>2. CASE i # Len(s)
    <3>1. i \in 1..(Len(s) - 1) /\ i \in 1..Len(s) /\ i + 1 \in 1..Len(s)  BY <2>2, <1>1, <1>2
    <3>2. QED  BY <1>1, <1>2, <3>1
  <2>3. QED  BY <2>1, <2>2
<1>4. QED  BY <1>1, <1>2, <1>3 DEF f, s

\* What scan_indent makes of a line of width len.
LEMMA LevelsOfLine ==
    ASSUME TypeOK, IndentStack, syntax = "Sass", NEW len \in Nat
    PROVE  /\ Levels(len) \in Seq(Nat) /\ Levels(len) # <<>> /\ Levels(len)[1] = 0
           /\ \A i \in 1..(Len(Levels(len)) - 1) : Levels(len)[i] < Levels(len)[i + 1]
           /\ len > Top => Len(Levels(len)) = Len(st.indents) + 1
           /\ len < Top => Len(Levels(len)) = Len(st.indents) - 1
           /\ len = Top => Levels(len) = st.indents
<1>1. Top \in Nat  BY TopLevel
<1>2. CASE len > Top
  <2>1. Levels(len) = Append(st.indents, len)  BY <1>2 DEF Levels
  <2>2. QED  BY <1>1, <1>2, <2>1, LevelPushed
<1>3. CASE len < Top
  <2>1. Levels(len) = Front(st.indents)  BY <1>1, <1>3 DEF Levels, Pop
  <2>2. QED  BY <1>1, <1>3, <2>1, LevelPopped
<1>4. CASE len = Top
  <2>1. Levels(len) = st.indents  BY <1>1, <1>4 DEF Levels
  <2>2. QED  BY <1>1, <1>4, <2>1, TopLevel DEF IndentStack
<1>5. QED  BY <1>1, <1>2, <1>3, <1>4

----------------------------------------------------------------------------
(***************************************************************************)
(* Reading a token.                                                         *)
(***************************************************************************)
\* The five readers of a token or of a static piece.
Reader == \/ BumpToken \/ BumpWithoutWs \/ ScanStringTemplate
          \/ ScanUrlRawOrTemplate \/ ScanUrlTemplate

Rejected == phase' = "failed"
            /\ UNCHANGED <<src, syntax, st, comments, indent, out, nest, resume, reopened>>

\* The token the reader makes of the bytes at the cursor; a url body may have
\* blanks in front of it.
ReadAt(t) ==
    /\ t \in Token /\ t.kind \in Kind \ {"Indent", "Dedent", "Linebreak", "Block", "Line", "Err"}
    /\ Scanned(src, t.start, t) /\ st.pos <= t.start /\ Advances(t.start, t)
    /\ \A k \in st.pos..(t.start - 1) : At(src, k) \in Ws
    /\ HoleAhead(src, syntax, t)
    /\ t.kind = "StrTemplate" => syntax # "Css"
    /\ t.kind = "UrlTemplate" => syntax \in {"Scss", "Sass"}
    /\ t.kind = "HashLBrace" => syntax \in {"Scss", "Sass"}
    /\ t.kind = "Eof" => t.start = Len(src)

\* A token by the dispatch, or a static piece of a string.
DispatchRead(t) ==
    /\ t.kind \notin {"UrlRaw", "UrlTail", "UrlTemplate"}
    /\ Closes(t) => nest = <<>> \/ Matches(t)
    /\ st' = Depths(t) /\ Follow(t)

\* A static piece of a url.
UrlRead(t) ==
    /\ nest # <<>> /\ Last(nest) = "paren" /\ resume' = "none"
    /\ \/ /\ t.kind = "UrlTemplate" /\ nest' = nest
          /\ st' = [st EXCEPT !.pos = t.next, !.openerPending = TRUE]
       \/ /\ t.kind \in {"UrlRaw", "UrlTail"} /\ nest' = Front(nest) /\ st' = CloseUrl(t)

Read(t) ==
    /\ ReadAt(t) /\ phase' = "idle" /\ Emit(t)
    /\ UNCHANGED <<src, syntax, comments, indent, reopened>>
    /\ DispatchRead(t) \/ UrlRead(t)

LEMMA Cursor ==
    ASSUME TypeOK
    PROVE  /\ src \in Seq(ByteClass) /\ syntax \in Syntax
           /\ Len(src) \in Nat /\ st.pos \in Nat /\ st.pos <= Len(src)
<1>1. src \in Seq(ByteClass) /\ syntax \in Syntax /\ st.pos \in 0..Len(src)  BY DEF TypeOK
<1>2. QED  BY <1>1, AtIs

\* What Accept does with a token it is given.
LEMMA Accepted ==
    ASSUME NEW t, Accept(t), t.kind \notin {"UrlRaw", "UrlTail", "UrlTemplate"},
           UNCHANGED <<src, syntax, comments, indent, reopened>>,
           t.kind # "Err" => ReadAt(t)
    PROVE  Rejected \/ Read(t)
<1>1. CASE t.kind = "Err" \/ (Closes(t) /\ nest # <<>> /\ ~Matches(t))
  BY <1>1 DEF Accept, Rejected
<1>2. CASE ~(t.kind = "Err" \/ (Closes(t) /\ nest # <<>> /\ ~Matches(t)))
  BY <1>2 DEF Accept, Read, DispatchRead
<1>3. QED  BY <1>1, <1>2

LEMMA UrlAccepted ==
    ASSUME NEW t, AcceptUrl(t), t.kind \in {"UrlRaw", "UrlTail", "UrlTemplate", "Err"},
           UNCHANGED <<src, syntax, comments, indent, reopened>>,
           nest # <<>>, Last(nest) = "paren",
           t.kind # "Err" => ReadAt(t)
    PROVE  Rejected \/ Read(t)
<1>1. CASE t.kind = "Err"  BY <1>1 DEF AcceptUrl, Rejected
<1>2. CASE t.kind = "UrlTemplate"  BY <1>2 DEF AcceptUrl, Read, UrlRead
<1>3. CASE t.kind \in {"UrlRaw", "UrlTail"}  BY <1>3 DEF AcceptUrl, Read, UrlRead, Pop
<1>4. QED  BY <1>1, <1>2, <1>3

LEMMA LexAccepted ==
    ASSUME TypeOK, NEW t \in Lex(src, syntax, st.pos), Accept(t),
           UNCHANGED <<src, syntax, comments, indent, reopened>>
    PROVE  Rejected \/ (Read(t) /\ t.start = st.pos)
<1>1. src \in Seq(ByteClass) /\ syntax \in Syntax /\ st.pos \in Nat /\ st.pos <= Len(src)
      /\ Len(src) \in Nat
  BY Cursor
<1>2. /\ t \in Token /\ t.kind \in LexKind
      /\ t.kind # "Err" => Scanned(src, st.pos, t)
      /\ HoleAhead(src, syntax, t)
      /\ t.kind = "Eof" <=> At(src, st.pos) = "eof"
      /\ t.kind = "StrTemplate" => syntax # "Css"
      /\ t.kind = "HashLBrace" => syntax \in {"Scss", "Sass"}
      /\ Advances(st.pos, t)
  BY <1>1, LexScans, LexAdvances
<1>3. At(src, st.pos) = "eof" => st.pos = Len(src)  BY <1>1, AtIs DEF ByteClass
<1>4. t.kind # "Err" => ReadAt(t) /\ t.start = st.pos
  <2> SUFFICES ASSUME t.kind # "Err" PROVE ReadAt(t) /\ t.start = st.pos
    OBVIOUS
  <2>1. t.start = st.pos /\ Scanned(src, t.start, t)  BY <1>2 DEF Scanned
  <2>2. t.kind \in Kind \ {"Indent", "Dedent", "Linebreak", "Block", "Line", "Err"}
        /\ t.kind # "UrlTemplate"
    BY <1>2 DEF LexKind, Kind
  <2>3. \A k \in st.pos..(t.start - 1) : FALSE  BY <2>1, <1>1
  <2>4. QED  BY <2>1, <2>2, <2>3, <1>1, <1>2, <1>3 DEF ReadAt
<1>5. t.kind \notin {"UrlRaw", "UrlTail", "UrlTemplate"}  BY <1>2 DEF LexKind
<1>6. Rejected \/ Read(t)  BY <1>4, <1>5, Accepted
<1>7. Read(t) => t.kind # "Err"  BY DEF Read, ReadAt
<1>8. QED  BY <1>4, <1>6, <1>7

LEMMA PieceAccepted ==
    ASSUME TypeOK, NEW t \in StringPiece(src, syntax, FALSE, st.pos, st.pos), Accept(t),
           UNCHANGED <<src, syntax, comments, indent, reopened>>
    PROVE  Rejected \/ Read(t)
<1>1. src \in Seq(ByteClass) /\ syntax \in Syntax /\ st.pos \in Nat /\ st.pos <= st.pos
      /\ FALSE \in BOOLEAN
  BY Cursor
<1>2. /\ t \in Token /\ Scanned(src, st.pos, t) /\ HoleAhead(src, syntax, t)
      /\ t.kind \in {"Str", "StrTail", "StrTemplate", "BadStr", "Err"}
      /\ t.kind = "StrTemplate" => syntax # "Css"
      /\ Advances(st.pos, t)
  BY <1>1, StringScans, StringAdvances
<1>3. t.kind # "Err" => ReadAt(t)
  <2> SUFFICES ASSUME t.kind # "Err" PROVE ReadAt(t)
    OBVIOUS
  <2>1. t.start = st.pos /\ Scanned(src, t.start, t)  BY <1>2 DEF Scanned
  <2>2. t.kind \in Kind \ {"Indent", "Dedent", "Linebreak", "Block", "Line", "Err"}
        /\ t.kind \notin {"UrlTemplate", "HashLBrace", "Eof"}
    BY <1>2 DEF LexKind, Kind
  <2>3. \A k \in st.pos..(t.start - 1) : FALSE  BY <2>1, <1>1
  <2>4. QED  BY <2>1, <2>2, <2>3, <1>1, <1>2 DEF ReadAt
<1>4. t.kind \notin {"UrlRaw", "UrlTail", "UrlTemplate"}  BY <1>2
<1>5. QED  BY <1>3, <1>4, Accepted

LEMMA UrlPieceAccepted ==
    ASSUME TypeOK, NEW head \in BOOLEAN, NEW c \in Nat, st.pos <= c,
           \A k \in st.pos..(c - 1) : At(src, k) \in Ws,
           NEW t \in UrlPiece(src, syntax, head, c), AcceptUrl(t),
           nest # <<>>, Last(nest) = "paren",
           UNCHANGED <<src, syntax, comments, indent, reopened>>
    PROVE  Rejected \/ Read(t)
<1>1. src \in Seq(ByteClass) /\ syntax \in Syntax /\ st.pos \in Nat
  BY Cursor
<1>2. /\ t \in Token /\ Scanned(src, c, t) /\ HoleAhead(src, syntax, t)
      /\ t.kind \in {"UrlRaw", "UrlTail", "UrlTemplate", "Err"}
      /\ t.kind = "UrlTemplate" => syntax \in {"Scss", "Sass"}
      /\ Advances(c, t)
  BY <1>1, UrlScans, UrlAdvances
<1>3. t.kind # "Err" => ReadAt(t)
  <2> SUFFICES ASSUME t.kind # "Err" PROVE ReadAt(t)
    OBVIOUS
  <2>1. t.start = c /\ Scanned(src, t.start, t)  BY <1>2 DEF Scanned
  <2>2. t.kind \in Kind \ {"Indent", "Dedent", "Linebreak", "Block", "Line", "Err"}
        /\ t.kind \notin {"StrTemplate", "HashLBrace", "Eof"}
    BY <1>2 DEF LexKind, Kind
  <2>3. QED  BY <2>1, <2>2, <1>1, <1>2 DEF ReadAt
<1>4. QED  BY <1>2, <1>3, UrlAccepted

\* Every reader fails, leaving everything as it is, or reads one token.
LEMMA ReaderReads ==
    ASSUME Core, Reader
    PROVE  Rejected \/ \E t \in Token : Read(t)
<1>1. TypeOK /\ UrlInParen /\ st.pos \in Nat /\ src \in Seq(ByteClass)  BY Cursor DEF Core
<1>2. \A t : Read(t) => t \in Token  BY DEF Read, ReadAt
<1>3. CASE BumpToken
  <2>1. PICK t \in Lex(src, syntax, st.pos) : Accept(t)  BY <1>3 DEF BumpToken
  <2>2. UNCHANGED <<src, syntax, comments, indent, reopened>>  BY <1>3 DEF BumpToken
  <2>3. QED  BY <1>1, <1>2, <2>1, <2>2, LexAccepted
<1>4. CASE BumpWithoutWs
  <2>1. PICK t \in Lex(src, syntax, st.pos) : Accept(t)  BY <1>4 DEF BumpWithoutWs
  <2>2. UNCHANGED <<src, syntax, comments, indent, reopened>>  BY <1>4 DEF BumpWithoutWs
  <2>3. QED  BY <1>1, <1>2, <2>1, <2>2, LexAccepted
<1>5. CASE ScanStringTemplate
  <2>1. PICK t \in StringPiece(src, syntax, FALSE, st.pos, st.pos) : Accept(t)
    BY <1>5 DEF ScanStringTemplate
  <2>2. UNCHANGED <<src, syntax, comments, indent, reopened>>  BY <1>5 DEF ScanStringTemplate
  <2>3. QED  BY <1>1, <1>2, <2>1, <2>2, PieceAccepted
<1>6. CASE ScanUrlRawOrTemplate
  <2>1. PICK c \in WsEnd(src, st.pos) : \E t \in UrlPiece(src, syntax, TRUE, c) : AcceptUrl(t)
    BY <1>6 DEF ScanUrlRawOrTemplate
  <2>2. PICK t \in UrlPiece(src, syntax, TRUE, c) : AcceptUrl(t)  BY <2>1
  <2>3. UNCHANGED <<src, syntax, comments, indent, reopened>>  BY <1>6 DEF ScanUrlRawOrTemplate
  <2>4. c \in Nat /\ st.pos <= c /\ \A k \in st.pos..(c - 1) : At(src, k) \in Ws  BY <1>1, WsEndIs
  <2>5. Emitted /\ phase = "idle" /\ Last(out).kind = "LParen"
    <3>1. Len(out) >= 2 /\ phase = "idle" /\ Last(out).kind = "LParen"
      BY <1>6 DEF ScanUrlRawOrTemplate
    <3>2. out \in Seq(Token)  BY DEF Core, Records
    <3>3. QED  BY <3>1, <3>2, EmptySeq DEF Emitted
  <2>6. nest # <<>> /\ Last(nest) = "paren"  BY <1>1, <2>5 DEF UrlInParen
  <2>7. QED  BY <1>1, <1>2, <2>2, <2>3, <2>4, <2>6, UrlPieceAccepted
<1>7. CASE ScanUrlTemplate
  <2>1. PICK t \in UrlPiece(src, syntax, FALSE, st.pos) : AcceptUrl(t)  BY <1>7 DEF ScanUrlTemplate
  <2>2. UNCHANGED <<src, syntax, comments, indent, reopened>> /\ phase = "idle" /\ resume = "url"
    BY <1>7 DEF ScanUrlTemplate
  <2>3. nest # <<>> /\ Last(nest) = "paren"  BY <1>1, <2>2 DEF UrlInParen
  <2>4. st.pos <= st.pos /\ FALSE \in BOOLEAN /\ \A k \in st.pos..(st.pos - 1) : At(src, k) \in Ws
    BY <1>1
  <2>5. QED  BY <1>1, <1>2, <2>1, <2>2, <2>3, <2>4, UrlPieceAccepted
<1>8. QED  BY <1>3, <1>4, <1>5, <1>6, <1>7 DEF Reader

----------------------------------------------------------------------------
(***************************************************************************)
(* What a token does to the state.                                          *)
(***************************************************************************)
TokenizerState ==
    [pos : 0..Len(src), currentIndent : 0..(IndentMod - 1), indents : Seq(Nat),
     parenDepth : Nat, lineComments : BOOLEAN, interpDepth : Nat,
     openerPending : BOOLEAN, lineCommentsSeen : Nat]

\* d differs from the state in the cursor, the depths and the flag only.
Moved(d, next) ==
    /\ d \in TokenizerState /\ d.pos = next
    /\ d.currentIndent = st.currentIndent /\ d.indents = st.indents
    /\ d.lineComments = st.lineComments /\ d.lineCommentsSeen = st.lineCommentsSeen

\* What next() and the url scanners write to the depths and the flag.
ParenAfter(t) ==
    CASE t.kind = "LParen" -> st.parenDepth + 1
      [] t.kind = "RParen" -> Decrement(st.parenDepth)
      [] t.kind \in {"LBrace", "HashLBrace"} -> st.parenDepth + Brace
      [] t.kind = "RBrace" /\ Brace = 1 -> Decrement(st.parenDepth)
      [] OTHER -> st.parenDepth

InterpAfter(t) ==
    CASE t.kind = "LBrace" /\ (st.openerPending \/ st.interpDepth > 0) -> st.interpDepth + 1
      [] t.kind = "HashLBrace" -> st.interpDepth + 1
      [] t.kind = "RBrace" -> Decrement(st.interpDepth)
      [] OTHER -> st.interpDepth

OpenerAfter(t) ==
    CASE t.kind = "LBrace" -> FALSE
      [] t.kind = "StrTemplate" /\ syntax # "Less" -> TRUE
      [] OTHER -> st.openerPending

LEMMA Depth ==
    ASSUME TypeOK, NEW t
    PROVE  /\ Brace \in {0, 1} /\ Decrement(st.parenDepth) \in Nat /\ Decrement(st.interpDepth) \in Nat
           /\ ParenAfter(t) \in Nat /\ InterpAfter(t) \in Nat /\ OpenerAfter(t) \in BOOLEAN
<1>1. st.parenDepth \in Nat /\ st.interpDepth \in Nat /\ st.openerPending \in BOOLEAN  BY DEF TypeOK
<1>2. Brace \in {0, 1}  BY DEF Brace
<1>3. Decrement(st.parenDepth) \in Nat /\ Decrement(st.interpDepth) \in Nat  BY <1>1 DEF Decrement
<1>4. ParenAfter(t) \in Nat  BY <1>1, <1>2, <1>3 DEF ParenAfter
<1>5. InterpAfter(t) \in Nat  BY <1>1, <1>3 DEF InterpAfter
<1>6. OpenerAfter(t) \in BOOLEAN  BY <1>1 DEF OpenerAfter
<1>7. QED  BY <1>2, <1>3, <1>4, <1>5, <1>6

LEMMA DepthsAre ==
    ASSUME TypeOK, NEW t, t.next \in 0..Len(src)
    PROVE  /\ Moved(Depths(t), t.next)
           /\ Depths(t).parenDepth = ParenAfter(t)
           /\ Depths(t).interpDepth = InterpAfter(t)
           /\ Depths(t).openerPending = OpenerAfter(t)
<1> DEFINE d == [st EXCEPT !.pos = t.next, !.parenDepth = ParenAfter(t),
                           !.interpDepth = InterpAfter(t), !.openerPending = OpenerAfter(t)]
<1>1. /\ Moved(d, t.next) /\ d.parenDepth = ParenAfter(t)
      /\ d.interpDepth = InterpAfter(t) /\ d.openerPending = OpenerAfter(t)
  <2>1. ParenAfter(t) \in Nat /\ InterpAfter(t) \in Nat /\ OpenerAfter(t) \in BOOLEAN  BY Depth
  <2>2. QED  BY <2>1 DEF TypeOK, Moved, TokenizerState
<1>2. Depths(t) = d
  <2>1. CASE t.kind = "LParen"
    BY <2>1 DEF Depths, ParenAfter, InterpAfter, OpenerAfter, TypeOK
  <2>2. CASE t.kind = "RParen"
    BY <2>2 DEF Depths, ParenAfter, InterpAfter, OpenerAfter, TypeOK
  <2>3. CASE t.kind = "LBrace"
    BY <2>3 DEF Depths, OpenBrace, ParenAfter, InterpAfter, OpenerAfter, TypeOK
  <2>4. CASE t.kind = "HashLBrace"
    BY <2>4 DEF Depths, ParenAfter, InterpAfter, OpenerAfter, TypeOK
  <2>5. CASE t.kind = "RBrace"
    BY <2>5 DEF Depths, ParenAfter, InterpAfter, OpenerAfter, TypeOK
  <2>6. CASE t.kind \notin {"LParen", "RParen", "LBrace", "HashLBrace", "RBrace"}
    BY <2>6 DEF Depths, ParenAfter, InterpAfter, OpenerAfter, TypeOK
  <2>7. QED  BY <2>1, <2>2, <2>3, <2>4, <2>5, <2>6
<1>3. QED  BY <1>1, <1>2

LEMMA UrlDepthsAre ==
    ASSUME TypeOK, NEW next \in 0..Len(src)
    PROVE  LET u == [st EXCEPT !.pos = next, !.openerPending = TRUE]
               d == [st EXCEPT !.pos = next, !.parenDepth = Decrement(@)]
           IN  /\ Moved(u, next) /\ u.parenDepth = st.parenDepth
               /\ u.interpDepth = st.interpDepth /\ u.openerPending = TRUE
               /\ Moved(d, next) /\ d.parenDepth = Decrement(st.parenDepth)
               /\ d.interpDepth = st.interpDepth /\ d.openerPending = st.openerPending
<1>1. Decrement(st.parenDepth) \in Nat  BY Depth
<1>2. QED  BY <1>1 DEF TypeOK, Moved, TokenizerState

\* A token that was read lies between the old cursor and the new one.
LEMMA ReadMoves ==
    ASSUME Core, NEW t, Read(t)
    PROVE  /\ t \in Token /\ t.next \in 0..Len(src) /\ Moved(st', t.next)
           /\ st.pos <= t.start /\ t.start <= t.end /\ t.end <= t.next
           /\ t.kind # "Eof" => st.pos < t.next
<1>1. TypeOK /\ ReadAt(t)  BY DEF Core, Read
<1>2. t \in Token /\ st.pos \in Nat /\ Len(src) \in Nat  BY <1>1, Cursor DEF ReadAt
<1>3. /\ st.pos <= t.start /\ t.start <= t.end /\ t.end <= t.next /\ t.next <= Len(src)
  BY <1>1 DEF ReadAt, Scanned
<1>4. t.next \in 0..Len(src)  BY <1>2, <1>3 DEF Token
<1>5. Moved(st', t.next)
  <2>1. CASE DispatchRead(t)  BY <2>1, <1>1, <1>4, DepthsAre DEF DispatchRead
  <2>2. CASE UrlRead(t)  BY <2>2, <1>1, <1>4, UrlDepthsAre DEF UrlRead, CloseUrl
  <2>3. QED  BY <2>1, <2>2 DEF Read
<1>6. t.kind # "Eof" => st.pos < t.next  BY <1>1, <1>2, <1>3 DEF ReadAt, Advances, Token
<1>7. QED  BY <1>2, <1>3, <1>4, <1>5, <1>6

\* A line break: the line that follows it and the token it makes.
LEMMA LineAhead ==
    ASSUME TypeOK, NEW c \in WsEnd(src, st.pos), NEW b \in LineStarts(src, st.pos, c)
    PROVE  /\ c \in 0..Len(src) /\ c \in Nat /\ b \in Nat /\ st.pos < b /\ b <= c
           /\ \A k \in b..(c - 1) : At(src, k) \in Ws
           /\ (c - b) % IndentMod \in 0..(IndentMod - 1) /\ (c - b) % IndentMod \in Nat
           /\ \A len \in Nat : /\ IndentToken(len, b, c) \in Token
                               /\ IndentToken(len, b, c).start = b /\ IndentToken(len, b, c).end = c
                               /\ IndentToken(len, b, c).kind \in {"Indent", "Dedent", "Linebreak"}
<1>1. src \in Seq(ByteClass) /\ st.pos \in Nat /\ Len(src) \in Nat  BY Cursor
<1>2. c \in Nat /\ st.pos <= c /\ c <= Len(src) /\ \A k \in st.pos..(c - 1) : At(src, k) \in Ws
  BY <1>1, WsEndIs
<1>3. b \in (st.pos + 1)..c  BY DEF LineStarts
<1>4. b \in Nat /\ st.pos < b /\ b <= c  BY <1>1, <1>2, <1>3
<1>5. \A k \in b..(c - 1) : At(src, k) \in Ws  BY <1>1, <1>2, <1>4
<1>6. c - b \in Nat /\ IndentMod \in Nat \ {0}  BY <1>2, <1>4, TokenizerAssumption
<1>7. (c - b) % IndentMod \in 0..(IndentMod - 1) /\ (c - b) % IndentMod \in Nat  BY <1>6
<1>8. ASSUME NEW len \in Nat
      PROVE  /\ IndentToken(len, b, c) \in Token
             /\ IndentToken(len, b, c).start = b /\ IndentToken(len, b, c).end = c
             /\ IndentToken(len, b, c).kind \in {"Indent", "Dedent", "Linebreak"}
  <2>1. PICK kind \in {"Indent", "Dedent", "Linebreak"} : IndentToken(len, b, c) = Outcome(kind, b, c, c)
    BY DEF IndentToken
  <2>2. kind \in Kind  BY DEF Kind
  <2>3. QED  BY <2>1, <2>2, <1>2, <1>4 DEF Outcome, Token
<1>9. c \in 0..Len(src)  BY <1>1, <1>2
<1>10. QED  BY <1>2, <1>4, <1>5, <1>7, <1>8, <1>9

\* The three outcomes of scan_indent.
IndentAtEof(c) ==
    /\ c = Len(src) /\ st' = [st EXCEPT !.pos = c] /\ indent' = <<Outcome("Eof", c, c, c)>>

IndentNone(c) ==
    LineStarts(src, st.pos, c) = {} /\ st' = [st EXCEPT !.pos = c] /\ indent' = <<>>

Width(c, b) == (c - b) % IndentMod

IndentLine(c, b) ==
    /\ st' = [st EXCEPT !.pos = c, !.currentIndent = Width(c, b), !.indents = Levels(Width(c, b))]
    /\ indent' = <<IndentToken(Width(c, b), b, c)>>

LEMMA ScanIndentCases ==
    ASSUME ScanIndent
    PROVE  /\ phase = "skip" /\ At(src, st.pos) \in Ws /\ IndentSensitive
           /\ UNCHANGED <<src, syntax, comments, phase, out, nest, resume, reopened>>
           /\ \E c \in WsEnd(src, st.pos) :
                 \/ IndentAtEof(c)
                 \/ IndentNone(c)
                 \/ \E b \in LineStarts(src, st.pos, c) : IndentLine(c, b)
  BY DEF ScanIndent, IndentAtEof, IndentNone, IndentLine, Width

\* A new line sets the width and the levels.
LEMMA LineState ==
    ASSUME TypeOK, IndentStack, syntax = "Sass",
           NEW c \in WsEnd(src, st.pos), NEW b \in LineStarts(src, st.pos, c), IndentLine(c, b)
    PROVE  /\ st' \in TokenizerState /\ st'.pos = c /\ st'.currentIndent = Width(c, b)
           /\ st'.indents = Levels(Width(c, b)) /\ st'.parenDepth = st.parenDepth
           /\ st'.interpDepth = st.interpDepth /\ st'.openerPending = st.openerPending
           /\ Width(c, b) \in Nat
<1>1. c \in 0..Len(src) /\ Width(c, b) \in 0..(IndentMod - 1) /\ Width(c, b) \in Nat
  BY LineAhead DEF Width
<1>2. Levels(Width(c, b)) \in Seq(Nat)  BY <1>1, LevelsOfLine
<1>3. QED  BY <1>1, <1>2 DEF IndentLine, TypeOK, TokenizerState

LEMMA CursorMoved ==
    ASSUME TypeOK, NEW c \in 0..Len(src)
    PROVE  /\ [st EXCEPT !.pos = c] \in TokenizerState
           /\ [st EXCEPT !.pos = c].pos = c
           /\ [st EXCEPT !.pos = c].indents = st.indents
           /\ [st EXCEPT !.pos = c].currentIndent = st.currentIndent
           /\ [st EXCEPT !.pos = c].parenDepth = st.parenDepth
           /\ [st EXCEPT !.pos = c].interpDepth = st.interpDepth
           /\ [st EXCEPT !.pos = c].openerPending = st.openerPending
  BY DEF TypeOK, TokenizerState

\* The cursor behind a comment, which is appended to the list.
LEMMA CommentRead ==
    ASSUME TypeOK, ScanBlockComment \/ ScanLineComment
    PROVE  \E t \in Token, k \in 0..Len(src) :
              /\ st' \in TokenizerState /\ st'.pos = k /\ st'.indents = st.indents
              /\ st'.currentIndent = st.currentIndent /\ st'.parenDepth = st.parenDepth
              /\ st'.interpDepth = st.interpDepth /\ st'.openerPending = st.openerPending
              /\ comments' = Append(comments, t)
              /\ t.start = st.pos /\ st.pos <= t.end /\ t.end <= k /\ st.pos < k
              /\ \A i \in t.end..(k - 1) : At(src, i) \in Ws
              /\ t.kind \in {"Block", "Line"}
              /\ (t.kind = "Line" /\ syntax = "Sass") => At(src, k) # "sp"
<1>1. src \in Seq(ByteClass) /\ syntax \in Syntax /\ st.pos \in Nat /\ Len(src) \in Nat  BY Cursor
<1>2. CASE ScanBlockComment
  <2>1. PICK t \in BlockComment(src, st.pos) :
           st' = [st EXCEPT !.pos = t.next] /\ comments' = Append(comments, t)
    BY <1>2 DEF ScanBlockComment
  <2>2. /\ t \in Token /\ t.kind = "Block" /\ Scanned(src, st.pos, t) /\ t.end = t.next
        /\ st.pos < t.next
    BY <1>1, BlockCommentScans
  <2>3. t.start = st.pos /\ st.pos <= t.end /\ t.next \in 0..Len(src) /\ t.end \in Nat
    BY <1>1, <2>2 DEF Scanned, Token
  <2>4. \A i \in t.end..(t.next - 1) : FALSE  BY <2>2, <2>3
  <2>5. QED  BY <2>1, <2>2, <2>3, <2>4, CursorMoved
<1>3. CASE ScanLineComment
  <2> DEFINE Ends(t) == IF IndentSensitive /\ StartsLine(src, st.pos)
                          THEN ContinuationEnd(src, t.next, st.currentIndent, IndentMod)
                          ELSE {t.next}
             Reads(t, k) == /\ st' = [st EXCEPT !.pos = k, !.lineCommentsSeen = @ + 1]
                            /\ comments' = Append(comments,
                                 IF k = t.next THEN t ELSE Outcome("Line", t.start, k, k))
  <2>0. PICK t \in LineComment(src, syntax, st.pos) : \E k \in Ends(t) : Reads(t, k)
    BY <1>3 DEF ScanLineComment
  <2>1. PICK k \in Ends(t) : Reads(t, k)  BY <2>0
  <2>2. /\ t \in Token /\ t.kind = "Line" /\ Scanned(src, st.pos, t)
        /\ \A i \in t.end..(t.next - 1) : At(src, i) \in Ws
        /\ st.pos < t.next
        /\ syntax = "Sass" => At(src, t.next) \in {"nl", "eof"}
    BY <1>1, LineCommentScans
  <2>3. /\ t.start = st.pos /\ st.pos <= t.end /\ t.end <= t.next /\ t.next <= Len(src)
        /\ t.end \in Nat /\ t.next \in Nat
    BY <1>1, <2>2 DEF Scanned, Token
  <2>4. /\ k \in Nat /\ t.next <= k /\ k <= Len(src) /\ st.pos < k
        /\ k = t.next \/ At(src, k) \in {"nl", "cr", "eof"}
    <3>1. CASE IndentSensitive /\ StartsLine(src, st.pos)
      <4>1. k \in ContinuationEnd(src, t.next, st.currentIndent, IndentMod)  BY <2>1, <3>1
      <4>2. /\ k \in Nat /\ t.next <= k /\ k <= Len(src)
            /\ k = t.next \/ At(src, k) \in {"nl", "cr", "eof"}
        BY <4>1, <1>1, <2>3, ContinuationEnds
      <4>3. QED  BY <4>2, <1>1, <2>2, <2>3
    <3>2. CASE ~(IndentSensitive /\ StartsLine(src, st.pos))  BY <2>1, <2>2, <2>3, <3>2
    <3>3. QED  BY <3>1, <3>2
  <2>5. k \in 0..Len(src)  BY <1>1, <2>4
  <2>6. syntax = "Sass" => At(src, k) # "sp"  BY <2>2, <2>4
  <2>7. /\ st' \in TokenizerState /\ st'.pos = k /\ st'.indents = st.indents
        /\ st'.currentIndent = st.currentIndent /\ st'.parenDepth = st.parenDepth
        /\ st'.interpDepth = st.interpDepth /\ st'.openerPending = st.openerPending
    <3>1. st' = [st EXCEPT !.pos = k, !.lineCommentsSeen = st.lineCommentsSeen + 1]  BY <2>1
    <3> HIDE DEF Ends, Reads
    <3>2. PICK n \in Nat : n = st.lineCommentsSeen + 1  BY DEF TypeOK
    <3>3. st' = [st EXCEPT !.pos = k, !.lineCommentsSeen = n]  BY <3>1, <3>2
    <3>4. QED  BY <3>3, <2>5 DEF TypeOK, TokenizerState
  <2>8. CASE k = t.next
    <3>1. comments' = Append(comments, t)  BY <2>1, <2>8
    <3>2. QED  BY <2>2, <2>3, <2>4, <2>5, <2>6, <2>7, <2>8, <3>1
  <2>9. CASE k # t.next
    <3>1. PICK u \in Token : u = Outcome("Line", t.start, k, k)
      <4>1. "Line" \in Kind  BY DEF Kind
      <4>2. QED  BY <4>1, <1>1, <2>3, <2>4 DEF Outcome, Token
    <3>2. comments' = Append(comments, u)  BY <2>1, <2>9, <3>1
    <3>3. u.start = st.pos /\ u.end = k /\ u.kind = "Line"  BY <2>3, <3>1 DEF Outcome
    <3>4. st.pos <= u.end /\ u.end <= k /\ \A i \in u.end..(k - 1) : FALSE
      BY <3>3, <2>3, <2>4, <1>1
    <3>5. QED  BY <2>4, <2>5, <2>6, <2>7, <3>2, <3>3, <3>4
  <2>10. QED  BY <2>8, <2>9
<1>4. QED  BY <1>2, <1>3

\* Emit appends the token, or repeats the Eof.
LEMMA EmitAppends ==
    ASSUME Records, NEW t \in Token, Emit(t)
    PROVE  /\ out' \in Seq(Token) /\ Emitted'
           /\ Last(out)'.kind = t.kind
           /\ \/ out' = Append(out, t) /\ Last(out)' = t
              \/ t.kind = "Eof" /\ AtEof /\ out' = out
<1>1. out \in Seq(Token)  BY DEF Records
<1>2. CASE t.kind = "Eof" /\ AtEof
  <2>1. out' = out  BY <1>2 DEF Emit
  <2>2. QED  BY <1>1, <1>2, <2>1 DEF AtEof, Emitted
<1>3. CASE ~(t.kind = "Eof" /\ AtEof)
  <2>1. out' = Append(out, t)  BY <1>3 DEF Emit
  <2>2. Append(out, t) \in Seq(Token) /\ Append(out, t) # <<>> /\ Last(Append(out, t)) = t
    BY <1>1, PushProperties
  <2>3. QED  BY <2>1, <2>2 DEF Emitted
<1>4. QED  BY <1>2, <1>3

----------------------------------------------------------------------------
(***************************************************************************)
(* The core invariant, one conjunct at a time.                              *)
(***************************************************************************)
LEMMA CoreInit == Init => Core
<1> SUFFICES ASSUME Init PROVE Core
  OBVIOUS
<1>1. src \in Seq(ByteClass) /\ syntax \in Syntax /\ IndentMod \in Nat \ {0}
  BY TokenizerAssumption DEF Init
<1>2. Len(src) \in Nat  BY <1>1, AtIs
<1>3. PICK p \in 0..Len(src) :
         st = [pos |-> p, currentIndent |-> 0,
               indents |-> IF syntax = "Sass" THEN <<0>> ELSE <<>>,
               parenDepth |-> 0, lineComments |-> TRUE, interpDepth |-> 0,
               openerPending |-> FALSE, lineCommentsSeen |-> 0]
  BY FirstIs DEF Init
<1>4. <<0>> \in Seq(Nat) /\ <<0>> # <<>> /\ <<0>>[1] = 0 /\ Len(<<0>>) = 1 /\ 0 \in 0..(IndentMod - 1)
  BY <1>1
<1>5. \A S : <<>> \in Seq(S)  BY EmptySeq
<1>6. TypeOK
  <2>1. st.indents \in Seq(Nat)  BY <1>3, <1>4, <1>5
  <2>2. st \in TokenizerState  BY <1>3, <1>4, <1>5 DEF TokenizerState
  <2>3. nest \in Seq({"paren", "brace", "hash", "str", "url"})  BY <1>5 DEF Init
  <2>4. QED  BY <1>1, <2>2, <2>3 DEF TypeOK, Init, TokenizerState
<1>7. IndentStack
  <2>1. CASE syntax = "Sass"
    <3>1. st.indents = <<0>>  BY <1>3, <2>1
    <3>2. \A i \in 1..(1 - 1) : FALSE  OBVIOUS
    <3>3. QED  BY <2>1, <3>1, <3>2, <1>4 DEF IndentStack
  <2>2. CASE syntax # "Sass"  BY <1>3, <2>2 DEF IndentStack
  <2>3. QED  BY <2>1, <2>2
<1>8. Records  BY <1>5 DEF Init, Records
<1>9. Flow  BY DEF Init, Flow
<1>10. UrlInParen
  <2>1. \A i \in 1..Len(nest) : FALSE  BY <1>5, EmptySeq DEF Init
  <2>2. QED  BY <2>1 DEF Init, UrlInParen, Emitted
<1>11. QED  BY <1>6, <1>7, <1>8, <1>9, <1>10 DEF Core

Nest == {"paren", "brace", "hash", "str", "url"}

LEMMA ReadNest ==
    ASSUME Core, NEW t, Read(t)
    PROVE  /\ nest \in Seq(Nest) /\ nest' \in Seq(Nest) /\ resume' \in {"none", "str", "url"}
           /\ nest' \in {nest, Append(nest, Group(t)), Front(nest)} /\ Group(t) \in Nest
<1>1. nest \in Seq(Nest)  BY DEF Core, TypeOK, Nest
<1>2. Group(t) \in Nest  BY DEF Group, Nest
<1>3. Append(nest, Group(t)) \in Seq(Nest)  BY <1>1, <1>2, PushProperties
<1>4. nest # <<>> => Front(nest) \in Seq(Nest)  BY <1>1, PopProperties
<1>5. CASE DispatchRead(t)
  <2>1. nest' = Append(nest, Group(t)) \/ nest' = nest \/ (nest # <<>> /\ nest' = Front(nest))
    BY <1>5 DEF DispatchRead, Follow, Pop
  <2>2. resume' \in {"none", "str", "url"}  BY <1>5 DEF DispatchRead, Follow
  <2>3. QED  BY <1>1, <1>2, <1>3, <1>4, <2>1, <2>2
<1>6. CASE UrlRead(t)
  <2>1. resume' = "none" /\ nest # <<>> /\ (nest' = nest \/ nest' = Front(nest))
    BY <1>6 DEF UrlRead
  <2>2. QED  BY <1>1, <1>2, <1>3, <1>4, <2>1
<1>7. QED  BY <1>5, <1>6 DEF Read

LEMMA TypeStep == Core /\ [Next]_vars => TypeOK'
<1> SUFFICES ASSUME Core, [Next]_vars PROVE TypeOK'
  OBVIOUS
<1>1. TypeOK /\ Records /\ IndentStack /\ Flow  BY DEF Core
<1>2. TypeOK <=> /\ src \in Seq(ByteClass) /\ syntax \in Syntax /\ st \in TokenizerState
                /\ phase \in {"idle", "skip", "failed"} /\ resume \in {"none", "str", "url"}
                /\ nest \in Seq(Nest) /\ reopened \in Nat
  BY DEF TypeOK, TokenizerState, Nest
<1>3. TypeOK' <=> /\ src' \in Seq(ByteClass) /\ syntax' \in Syntax /\ st' \in TokenizerState'
                 /\ phase' \in {"idle", "skip", "failed"} /\ resume' \in {"none", "str", "url"}
                 /\ nest' \in Seq(Nest) /\ reopened' \in Nat
  BY DEF TypeOK, TokenizerState, Nest
<1>4. src' = src => TokenizerState' = TokenizerState  BY DEF TokenizerState
<1>5. CASE Reader
  <2>1. CASE Rejected  BY <1>1, <1>2, <1>3, <1>4, <2>1 DEF Rejected
  <2>2. CASE \E t \in Token : Read(t)
    <3>1. PICK t \in Token : Read(t)  BY <2>2
    <3>2. st' \in TokenizerState  BY <3>1, ReadMoves DEF Moved
    <3>3. nest' \in Seq(Nest) /\ resume' \in {"none", "str", "url"}  BY <3>1, ReadNest
    <3>4. UNCHANGED <<src, syntax, reopened>> /\ phase' = "idle"  BY <3>1 DEF Read
    <3>5. QED  BY <1>1, <1>2, <1>3, <1>4, <3>2, <3>3, <3>4
  <2>3. QED  BY <1>5, <2>1, <2>2, ReaderReads
<1>6. CASE BumpPendingDedent
  <2>1. Front(st.indents) \in Seq(Nat)
    <3>1. syntax = "Sass" /\ Top > st.currentIndent  BY <1>6 DEF BumpPendingDedent, PendingDedent, IndentSensitive
    <3>2. Top > 0  BY <1>1, <3>1, TopLevel DEF TypeOK
    <3>3. QED  BY <1>1, <3>1, <3>2, LevelPopped
  <2>2. st' = [st EXCEPT !.indents = Front(st.indents)]  BY <1>6 DEF BumpPendingDedent, Pop
  <2>3. st' \in TokenizerState  BY <1>1, <1>2, <2>1, <2>2 DEF TokenizerState
  <2>4. QED  BY <1>1, <1>2, <1>3, <1>4, <1>6, <2>3 DEF BumpPendingDedent
<1>7. CASE BumpStart  BY <1>1, <1>2, <1>3, <1>4, <1>7 DEF BumpStart
<1>8. CASE ScanIndent
  <2>1. syntax = "Sass" /\ UNCHANGED <<src, syntax, phase, nest, resume, reopened>>
    BY <1>8, ScanIndentCases DEF IndentSensitive
  <2>2. PICK c \in WsEnd(src, st.pos) :
           \/ IndentAtEof(c) \/ IndentNone(c)
           \/ \E b \in LineStarts(src, st.pos, c) : IndentLine(c, b)
    BY <1>8, ScanIndentCases
  <2>3. c \in 0..Len(src)  BY <1>1, Cursor, WsEndIs
  <2>4. st' \in TokenizerState
    <3>1. CASE IndentAtEof(c)  BY <1>1, <2>3, <3>1, CursorMoved DEF IndentAtEof
    <3>2. CASE IndentNone(c)  BY <1>1, <2>3, <3>2, CursorMoved DEF IndentNone
    <3>3. CASE \E b \in LineStarts(src, st.pos, c) : IndentLine(c, b)
      BY <1>1, <2>1, <3>3, LineState
    <3>4. QED  BY <2>2, <3>1, <3>2, <3>3
  <2>5. QED  BY <1>1, <1>2, <1>3, <1>4, <2>1, <2>4
<1>9. CASE SkipWs
  <2>1. PICK c \in WsEnd(src, st.pos) : st' = [st EXCEPT !.pos = c]  BY <1>9 DEF SkipWs
  <2>2. c \in 0..Len(src)  BY <1>1, Cursor, WsEndIs
  <2>3. st' \in TokenizerState  BY <1>1, <2>1, <2>2, CursorMoved
  <2>4. QED  BY <1>1, <1>2, <1>3, <1>4, <1>9, <2>3 DEF SkipWs
<1>10. CASE ScanBlockComment \/ ScanLineComment
  <2>1. st' \in TokenizerState  BY <1>1, <1>10, CommentRead
  <2>2. UNCHANGED <<src, syntax, phase, nest, resume, reopened>>
    BY <1>10 DEF ScanBlockComment, ScanLineComment
  <2>3. QED  BY <1>1, <1>2, <1>3, <1>4, <2>1, <2>2
<1>11. CASE BumpLayout  BY <1>1, <1>2, <1>3, <1>4, <1>11 DEF BumpLayout
<1>12. CASE ReopenIndentLevel
  <2>1. syntax = "Sass" /\ st.currentIndent \in Nat /\ Top < st.currentIndent
    BY <1>1, <1>12 DEF ReopenIndentLevel, IndentSensitive, TypeOK
  <2>2. Append(st.indents, st.currentIndent) \in Seq(Nat)  BY <1>1, <2>1, LevelPushed
  <2>3. st' = [st EXCEPT !.indents = Append(st.indents, st.currentIndent)]
    BY <1>12 DEF ReopenIndentLevel
  <2>4. st' \in TokenizerState  BY <1>1, <1>2, <2>2, <2>3 DEF TokenizerState
  <2>5. reopened' \in Nat  BY <1>1, <1>2, <1>12 DEF ReopenIndentLevel
  <2>6. QED  BY <1>1, <1>2, <1>3, <1>4, <1>12, <2>4, <2>5 DEF ReopenIndentLevel
<1>13. CASE LineCommentsOff \/ LineCommentsRestored
  <2>1. st' \in TokenizerState
    BY <1>1, <1>2, <1>13 DEF LineCommentsOff, LineCommentsRestored, TokenizerState
  <2>2. UNCHANGED <<src, syntax, phase, nest, resume, reopened>>
    BY <1>13 DEF LineCommentsOff, LineCommentsRestored
  <2>3. QED  BY <1>1, <1>2, <1>3, <1>4, <2>1, <2>2
<1>14. CASE UNCHANGED vars  BY <1>1, <1>2, <1>3, <1>4, <1>14 DEF vars
<1>15. QED
  BY <1>5, <1>6, <1>7, <1>8, <1>9, <1>10, <1>11, <1>12, <1>13, <1>14 DEF Next, Bump, Reader

\* A reader runs with no layout token in hand.
LEMMA ReaderFrom ==
    ASSUME Flow, Reader
    PROVE  /\ indent = <<>> /\ phase \in {"idle", "skip"}
           /\ phase = "skip" => Skipped /\ resume = "none"
           /\ phase = "idle" => Emitted \/ resume # "none"
           /\ AtEof => phase = "skip"
<1>1. CASE BumpToken  BY <1>1 DEF BumpToken, Skipped, Flow
<1>2. CASE BumpWithoutWs  BY <1>2 DEF BumpWithoutWs, Flow, AtEof, Layout
<1>3. CASE ScanStringTemplate  BY <1>3 DEF ScanStringTemplate, Flow, AtEof
<1>4. CASE ScanUrlRawOrTemplate
  <2>1. out # <<>> \/ out = <<>>  OBVIOUS
  <2>2. Len(<<>>) = 0  OBVIOUS
  <2>3. Len(out) >= 2 /\ phase = "idle" /\ Last(out).kind = "LParen"  BY <1>4 DEF ScanUrlRawOrTemplate
  <2>4. Emitted  BY <2>1, <2>2, <2>3 DEF Emitted
  <2>5. QED  BY <2>3, <2>4 DEF Flow, AtEof
<1>5. CASE ScanUrlTemplate  BY <1>5 DEF ScanUrlTemplate, Flow, AtEof
<1>6. QED  BY <1>1, <1>2, <1>3, <1>4, <1>5 DEF Reader

\* The Dedent of a level that is left.
LEMMA PendingDedentMoves ==
    ASSUME Core, BumpPendingDedent
    PROVE  /\ phase = "idle" /\ indent = <<>> /\ resume = "none"
           /\ syntax = "Sass" /\ st.parenDepth = 0 /\ Top > st.currentIndent /\ st.pos < Len(src)
           /\ st.currentIndent \in Nat
           /\ st'.pos = st.pos /\ st'.currentIndent = st.currentIndent
           /\ st'.indents = Front(st.indents) /\ st'.parenDepth = st.parenDepth
           /\ st'.interpDepth = st.interpDepth /\ st'.openerPending = st.openerPending
           /\ UNCHANGED <<src, syntax, comments, indent, nest, resume, reopened>>
           /\ phase' = IF HoleDue THEN "failed" ELSE "idle"
           /\ \E t \in Token : /\ t = Outcome("Dedent", st.pos, st.pos, st.pos)
                               /\ out' = Append(out, t) /\ Emit(t)
<1>1. TypeOK /\ Flow  BY DEF Core
<1>2. phase = "idle" /\ resume = "none" /\ PendingDedent  BY DEF BumpPendingDedent
<1>3. st.pos \in Nat  BY <1>1, Cursor
<1>4. PICK t \in Token : t = Outcome("Dedent", st.pos, st.pos, st.pos) /\ t.kind = "Dedent"
  <2>1. "Dedent" \in Kind  BY DEF Kind
  <2>2. Outcome("Dedent", st.pos, st.pos, st.pos) \in Token  BY <1>3, <2>1 DEF Outcome, Token
  <2>3. Outcome("Dedent", st.pos, st.pos, st.pos).kind = "Dedent"  BY DEF Outcome
  <2>4. QED  BY <2>2, <2>3
<1>5. Emit(t)  BY <1>4 DEF BumpPendingDedent
<1>6. out' = Append(out, t)  BY <1>4, <1>5 DEF Emit
<1>7. /\ st'.pos = st.pos /\ st'.currentIndent = st.currentIndent
      /\ st'.indents = Front(st.indents) /\ st'.parenDepth = st.parenDepth
      /\ st'.interpDepth = st.interpDepth /\ st'.openerPending = st.openerPending
      /\ st.currentIndent \in Nat
  BY <1>1 DEF BumpPendingDedent, Pop, TypeOK
<1>8. QED  BY <1>1, <1>2, <1>4, <1>5, <1>6, <1>7 DEF BumpPendingDedent, PendingDedent, IndentSensitive, Flow

LEMMA RecordsStep == Core /\ [Next]_vars => Records'
<1> SUFFICES ASSUME Core, [Next]_vars PROVE Records'
  OBVIOUS
<1>1. TypeOK /\ Records /\ Flow /\ IndentStack  BY DEF Core
<1>2. CASE Reader
  <2>1. CASE Rejected  BY <1>1, <2>1 DEF Rejected, Records
  <2>2. CASE \E t \in Token : Read(t)
    <3>1. PICK t \in Token : Read(t)  BY <2>2
    <3>2. out' \in Seq(Token)  BY <1>1, <3>1, EmitAppends DEF Read
    <3>3. UNCHANGED <<comments, indent>>  BY <3>1 DEF Read
    <3>4. QED  BY <1>1, <3>2, <3>3 DEF Records
  <2>3. QED  BY <1>2, <2>1, <2>2, ReaderReads
<1>3. CASE BumpPendingDedent
  <2>1. out' \in Seq(Token) /\ UNCHANGED <<comments, indent>>
    BY <1>1, <1>3, PendingDedentMoves, EmitAppends
  <2>2. QED  BY <1>1, <2>1 DEF Records
<1>4. CASE BumpStart  BY <1>1, <1>4 DEF BumpStart, Records
<1>5. CASE ScanIndent
  <2>1. UNCHANGED <<out, comments>> /\ syntax = "Sass"  BY <1>5, ScanIndentCases DEF IndentSensitive
  <2>2. PICK c \in WsEnd(src, st.pos) :
           \/ IndentAtEof(c) \/ IndentNone(c)
           \/ \E b \in LineStarts(src, st.pos, c) : IndentLine(c, b)
    BY <1>5, ScanIndentCases
  <2>3. CASE IndentAtEof(c)
    <3>1. c \in Nat  BY <1>1, Cursor, WsEndIs
    <3>2. PICK t \in Token : t = Outcome("Eof", c, c, c) /\ t.kind = "Eof"
      <4>1. "Eof" \in Kind  BY DEF Kind, LexKind
      <4>2. Outcome("Eof", c, c, c) \in Token  BY <3>1, <4>1 DEF Outcome, Token
      <4>3. Outcome("Eof", c, c, c).kind = "Eof"  BY DEF Outcome
      <4>4. QED  BY <4>2, <4>3
    <3>3. indent' = <<t>>  BY <2>3, <3>2 DEF IndentAtEof
    <3>4. QED  BY <1>1, <2>1, <3>2, <3>3 DEF Records, Layout
  <2>4. CASE IndentNone(c)  BY <1>1, <2>1, <2>4 DEF IndentNone, Records
  <2>5. CASE \E b \in LineStarts(src, st.pos, c) : IndentLine(c, b)
    <3>1. PICK b \in LineStarts(src, st.pos, c) : IndentLine(c, b)  BY <2>5
    <3>2. Width(c, b) \in Nat  BY <1>1, <2>1, <3>1, LineState
    <3>3. PICK t \in Token : t = IndentToken(Width(c, b), b, c)
                            /\ t.kind \in {"Indent", "Dedent", "Linebreak"}
      BY <1>1, <3>2, LineAhead
    <3>4. indent' = <<t>>  BY <3>1, <3>3 DEF IndentLine
    <3>5. QED  BY <1>1, <2>1, <3>3, <3>4 DEF Records, Layout
  <2>6. QED  BY <2>2, <2>3, <2>4, <2>5
<1>6. CASE ScanBlockComment \/ ScanLineComment
  <2>1. PICK t \in Token : comments' = Append(comments, t)  BY <1>1, <1>6, CommentRead
  <2>2. comments' \in Seq(Token)  BY <1>1, <2>1, PushProperties DEF Records
  <2>3. UNCHANGED <<out, indent>>  BY <1>6 DEF ScanBlockComment, ScanLineComment
  <2>4. QED  BY <1>1, <2>2, <2>3 DEF Records
<1>7. CASE BumpLayout
  <2>1. indent[1] \in Token /\ Emit(indent[1]) /\ indent' = <<>> /\ comments' = comments
    BY <1>1, <1>7 DEF BumpLayout, Records
  <2>2. out' \in Seq(Token)  BY <1>1, <2>1, EmitAppends
  <2>3. QED  BY <1>1, <2>1, <2>2 DEF Records
<1>8. CASE UNCHANGED <<out, comments, indent>>  BY <1>1, <1>8 DEF Records
<1>9. QED
  BY <1>2, <1>3, <1>4, <1>5, <1>6, <1>7, <1>8
  DEF Next, Bump, Reader, SkipWs, ReopenIndentLevel, LineCommentsOff, LineCommentsRestored, vars

LEMMA FlowStep == Core /\ [Next]_vars => Flow'
<1> SUFFICES ASSUME Core, [Next]_vars PROVE Flow'
  OBVIOUS
<1>1. TypeOK /\ Records /\ Flow /\ IndentStack  BY DEF Core
<1>2. CASE Reader
  <2>1. indent = <<>> /\ (phase = "skip" => resume = "none")  BY <1>1, <1>2, ReaderFrom
  <2>2. CASE Rejected  BY <1>1, <2>1, <2>2 DEF Rejected, Flow, Emitted
  <2>3. CASE \E t \in Token : Read(t)
    <3>1. PICK t \in Token : Read(t)  BY <2>3
    <3>2. Emitted' /\ Last(out)'.kind = t.kind  BY <1>1, <3>1, EmitAppends DEF Read
    <3>3. resume' # "none" => t.kind = "RBrace"
      BY <3>1 DEF Read, DispatchRead, UrlRead, Follow
    <3>4. indent' = <<>> /\ phase' = "idle"  BY <2>1, <3>1 DEF Read
    <3>5. QED  BY <3>2, <3>3, <3>4 DEF Flow
  <2>4. QED  BY <1>2, <2>2, <2>3, ReaderReads
<1>3. CASE BumpPendingDedent  BY <1>3, PendingDedentMoves DEF Flow
<1>4. CASE BumpStart  BY <1>4 DEF BumpStart, Flow
<1>5. CASE ScanIndent
  <2>1. phase' = "skip" /\ resume' = "none" /\ syntax' = "Sass" /\ st.parenDepth = 0
    BY <1>1, <1>5, ScanIndentCases DEF IndentSensitive, Flow
  <2>2. PICK c \in WsEnd(src, st.pos) :
           \/ IndentAtEof(c) \/ IndentNone(c)
           \/ \E b \in LineStarts(src, st.pos, c) : IndentLine(c, b)
    BY <1>5, ScanIndentCases
  <2>3. st'.parenDepth = st.parenDepth
    BY <1>1, <2>2 DEF IndentAtEof, IndentNone, IndentLine, TypeOK
  <2>4. QED  BY <2>1, <2>3 DEF Flow
<1>6. CASE ScanBlockComment \/ ScanLineComment
  <2>1. st'.parenDepth = st.parenDepth  BY <1>1, <1>6, CommentRead
  <2>2. UNCHANGED <<syntax, phase, indent, resume>> /\ phase = "skip"
    BY <1>6 DEF ScanBlockComment, ScanLineComment
  <2>3. QED  BY <1>1, <2>1, <2>2 DEF Flow
<1>7. CASE SkipWs
  <2>1. syntax # "Sass" \/ st.parenDepth # 0  BY <1>7 DEF SkipWs, IndentSensitive
  <2>2. indent = <<>> /\ resume = "none"  BY <1>1, <1>7, <2>1 DEF Flow, SkipWs
  <2>3. QED  BY <1>7, <2>2 DEF Flow, SkipWs
<1>8. CASE BumpLayout  BY <1>1, <1>8 DEF BumpLayout, Skipped, Flow
<1>9. CASE ReopenIndentLevel \/ LineCommentsOff \/ LineCommentsRestored
  <2>1. UNCHANGED <<syntax, phase, indent, out, resume>> /\ phase = "idle" /\ resume = "none"
    BY <1>9 DEF ReopenIndentLevel, LineCommentsOff, LineCommentsRestored
  <2>2. QED  BY <1>1, <2>1 DEF Flow
<1>10. CASE UNCHANGED vars  BY <1>1, <1>10 DEF vars, Flow, Emitted
<1>11. QED
  BY <1>2, <1>3, <1>4, <1>5, <1>6, <1>7, <1>8, <1>9, <1>10 DEF Next, Bump, Reader

\* The invariant of the levels depends on the levels only.
Levelled(sass, s) ==
    IF sass THEN /\ s # <<>> /\ s[1] = 0
                 /\ \A i \in 1..(Len(s) - 1) : s[i] < s[i + 1]
            ELSE s = <<>>

LEMMA IndentStackStep == Core /\ [Next]_vars => IndentStack'
<1> SUFFICES ASSUME Core, [Next]_vars PROVE IndentStack'
  OBVIOUS
<1>1. TypeOK /\ Records /\ Flow /\ IndentStack  BY DEF Core
<1>2. /\ Levelled(syntax = "Sass", st.indents)
      /\ Levelled(syntax' = "Sass", st'.indents) => IndentStack'
  BY <1>1 DEF IndentStack, Levelled
<1>3. CASE Reader
  <2>1. CASE Rejected  BY <1>2, <2>1 DEF Rejected
  <2>2. CASE \E t \in Token : Read(t)
    <3>1. PICK t \in Token : Read(t)  BY <2>2
    <3>2. st'.indents = st.indents  BY <3>1, ReadMoves DEF Moved
    <3>3. syntax' = syntax  BY <3>1 DEF Read
    <3>4. QED  BY <1>2, <3>2, <3>3
  <2>3. QED  BY <1>3, <2>1, <2>2, ReaderReads
<1>4. CASE BumpPendingDedent
  <2>1. /\ syntax = "Sass" /\ syntax' = syntax /\ Top > st.currentIndent /\ st.currentIndent \in Nat
        /\ st'.indents = Front(st.indents)
    BY <1>4, PendingDedentMoves
  <2>2. Top > 0  BY <1>1, <2>1, TopLevel
  <2>3. Levelled(TRUE, Front(st.indents))  BY <1>1, <2>1, <2>2, LevelPopped DEF Levelled
  <2>4. QED  BY <1>2, <2>1, <2>3
<1>5. CASE ScanIndent
  <2>1. syntax' = syntax /\ syntax = "Sass"  BY <1>5, ScanIndentCases DEF IndentSensitive
  <2>2. PICK c \in WsEnd(src, st.pos) :
           \/ IndentAtEof(c) \/ IndentNone(c)
           \/ \E b \in LineStarts(src, st.pos, c) : IndentLine(c, b)
    BY <1>5, ScanIndentCases
  <2>3. CASE IndentAtEof(c) \/ IndentNone(c)
    <3>1. st'.indents = st.indents  BY <1>1, <2>3 DEF IndentAtEof, IndentNone, TypeOK
    <3>2. QED  BY <1>2, <2>1, <3>1
  <2>4. CASE \E b \in LineStarts(src, st.pos, c) : IndentLine(c, b)
    <3>1. PICK b \in LineStarts(src, st.pos, c) : IndentLine(c, b)  BY <2>4
    <3>2. st'.indents = Levels(Width(c, b)) /\ Width(c, b) \in Nat  BY <1>1, <2>1, <3>1, LineState
    <3>3. Levelled(TRUE, Levels(Width(c, b)))  BY <1>1, <2>1, <3>2, LevelsOfLine DEF Levelled
    <3>4. QED  BY <1>2, <2>1, <3>2, <3>3
  <2>5. QED  BY <2>2, <2>3, <2>4
<1>6. CASE ScanBlockComment \/ ScanLineComment
  <2>1. st'.indents = st.indents  BY <1>1, <1>6, CommentRead
  <2>2. syntax' = syntax  BY <1>6 DEF ScanBlockComment, ScanLineComment
  <2>3. QED  BY <1>2, <2>1, <2>2
<1>7. CASE ReopenIndentLevel
  <2>1. syntax' = syntax /\ syntax = "Sass" /\ st.currentIndent \in Nat /\ Top < st.currentIndent
    BY <1>1, <1>7 DEF ReopenIndentLevel, IndentSensitive, TypeOK
  <2>2. st'.indents = Append(st.indents, st.currentIndent)  BY <1>1, <1>7 DEF ReopenIndentLevel, TypeOK
  <2>3. Levelled(TRUE, Append(st.indents, st.currentIndent))  BY <1>1, <2>1, LevelPushed DEF Levelled
  <2>4. QED  BY <1>2, <2>1, <2>2, <2>3
<1>8. CASE SkipWs \/ LineCommentsOff \/ LineCommentsRestored
  <2>1. st'.indents = st.indents
    BY <1>1, <1>8 DEF SkipWs, LineCommentsOff, LineCommentsRestored, TypeOK
  <2>2. syntax' = syntax  BY <1>8 DEF SkipWs, LineCommentsOff, LineCommentsRestored
  <2>3. QED  BY <1>2, <2>1, <2>2
<1>9. CASE UNCHANGED <<st, syntax>>  BY <1>2, <1>9
<1>10. QED
  BY <1>3, <1>4, <1>5, <1>6, <1>7, <1>8, <1>9 DEF Next, Bump, Reader, BumpStart, BumpLayout, vars

\* The group a url's hole is nested in, when a token or a piece is read.
LEMMA ReadUrlInParen ==
    ASSUME Core, Reader, NEW t \in Token, Read(t)
    PROVE  UrlInParen'
<1>1. /\ TypeOK /\ Records /\ Flow
      /\ \A i \in 1..Len(nest) : nest[i] = "url" => i > 1 /\ nest[i - 1] = "paren"
      /\ (Emitted /\ Last(out).kind \in {"LParen", "UrlTemplate"})
            => (nest # <<>> /\ Last(nest) = "paren")
  BY ReaderFrom DEF Core, UrlInParen
<1>2. nest \in Seq(Nest) /\ nest' \in Seq(Nest) /\ Group(t) \in Nest  BY ReadNest
<1>3. Len(nest) \in Nat /\ (nest = <<>> <=> Len(nest) = 0)  BY <1>2, EmptySeq, LenProperties
<1>4. Last(out)'.kind = t.kind  BY <1>1, EmitAppends DEF Read
<1>5. nest # <<>> => /\ Len(Front(nest)) = Len(nest) - 1 /\ Last(nest) = nest[Len(nest)]
                    /\ Front(nest) \in Seq(Nest)
                    /\ \A i \in 1..(Len(nest) - 1) : Front(nest)[i] = nest[i]
  BY <1>2, PopProperties
<1>6. nest # <<>> => \A i \in 1..Len(Front(nest)) :
         Front(nest)[i] = "url" => i > 1 /\ Front(nest)[i - 1] = "paren"
  <2> SUFFICES ASSUME nest # <<>>, NEW i \in 1..Len(Front(nest)), Front(nest)[i] = "url"
               PROVE  i > 1 /\ Front(nest)[i - 1] = "paren"
    OBVIOUS
  <2>1. i \in 1..(Len(nest) - 1) /\ i \in 1..Len(nest)  BY <1>3, <1>5
  <2>2. i > 1 /\ nest[i - 1] = "paren"  BY <1>1, <1>5, <2>1
  <2>3. i - 1 \in 1..(Len(nest) - 1)  BY <1>3, <2>1, <2>2
  <2>4. QED  BY <1>5, <2>2, <2>3
<1>7. CASE DispatchRead(t) /\ Opens(t)
  <2>1. nest' = Append(nest, Group(t)) /\ t.kind \in {"LParen", "LBrace", "HashLBrace"}
    BY <1>7 DEF DispatchRead, Follow, Opens
  <2>2. resume' = "none"  BY <1>7, <2>1 DEF DispatchRead, Follow
  <2>3. /\ Len(nest') = Len(nest) + 1 /\ nest' # <<>> /\ Last(nest)' = Group(t)
        /\ \A i \in 1..Len(nest) : nest'[i] = nest[i]
        /\ nest'[Len(nest) + 1] = Group(t)
    BY <1>2, <2>1, PushProperties
  <2>4. t.kind = "LParen" => Group(t) = "paren"  BY DEF Group
  <2>5. Group(t) = "url" => nest # <<>> /\ nest[Len(nest)] = "paren"
    <3> SUFFICES ASSUME Group(t) = "url" PROVE nest # <<>> /\ nest[Len(nest)] = "paren"
      OBVIOUS
    <3>1. Emitted /\ Last(out).kind = "UrlTemplate"  BY DEF Group
    <3>2. QED  BY <1>1, <1>5, <3>1
  <2>6. ASSUME NEW i \in 1..Len(nest'), nest'[i] = "url"
        PROVE  i > 1 /\ nest'[i - 1] = "paren"
    <3>1. CASE i = Len(nest) + 1
      <4>1. nest # <<>> /\ nest[Len(nest)] = "paren"  BY <2>3, <2>5, <2>6, <3>1
      <4>2. Len(nest) \in 1..Len(nest) /\ i - 1 = Len(nest)  BY <1>3, <3>1, <4>1
      <4>3. QED  BY <2>3, <3>1, <4>1, <4>2
    <3>2. CASE i # Len(nest) + 1
      <4>1. i \in 1..Len(nest)  BY <1>3, <2>3, <3>2
      <4>2. i > 1 /\ nest[i - 1] = "paren"  BY <1>1, <2>3, <2>6, <4>1
      <4>3. i - 1 \in 1..Len(nest)  BY <1>3, <4>1, <4>2
      <4>4. QED  BY <2>3, <4>2, <4>3
    <3>3. QED  BY <3>1, <3>2
  <2>7. QED  BY <1>4, <2>1, <2>2, <2>3, <2>4, <2>6 DEF UrlInParen
<1>8. CASE DispatchRead(t) /\ ~Opens(t) /\ Closes(t) /\ nest # <<>>
  <2>1. /\ nest' = Front(nest) /\ t.kind \in {"RParen", "RBrace"}
        /\ resume' = "url" => Last(nest) = "url"
    BY <1>8 DEF DispatchRead, Follow, Closes, Pop
  <2>2. resume' = "url" => nest' # <<>> /\ Last(nest)' = "paren"
    <3> SUFFICES ASSUME resume' = "url" PROVE nest' # <<>> /\ Last(nest)' = "paren"
      OBVIOUS
    <3>1. nest[Len(nest)] = "url"  BY <1>5, <1>8, <2>1
    <3>2. Len(nest) \in 1..Len(nest)  BY <1>3, <1>8
    <3>3. Len(nest) > 1 /\ nest[Len(nest) - 1] = "paren"  BY <1>1, <3>1, <3>2
    <3>4. Len(nest) - 1 \in 1..(Len(nest) - 1) /\ Len(nest') = Len(nest) - 1
      BY <1>3, <1>5, <1>8, <2>1, <3>3
    <3>5. nest'[Len(nest')] = "paren"  BY <1>5, <1>8, <2>1, <3>3, <3>4
    <3>6. nest' # <<>>  BY <3>3, <3>4, <1>2, <1>3, EmptySeq
    <3>7. QED  BY <3>5, <3>6 DEF Last
  <2>3. QED  BY <1>4, <1>6, <1>8, <2>1, <2>2 DEF UrlInParen
<1>9. CASE DispatchRead(t) /\ ~Opens(t) /\ ~(Closes(t) /\ nest # <<>>)
  <2>1. nest' = nest /\ t.kind \notin {"LParen", "UrlTemplate"}
    BY <1>9 DEF DispatchRead, Follow, Opens
  <2>2. resume' = "none"  BY <1>9 DEF DispatchRead, Follow, Matches, Closes
  <2>3. QED  BY <1>1, <1>4, <2>1, <2>2 DEF UrlInParen
<1>10. CASE UrlRead(t)
  <2>1. resume' = "none" /\ nest # <<>> /\ Last(nest) = "paren"  BY <1>10 DEF UrlRead
  <2>2. CASE t.kind = "UrlTemplate"
    <3>1. nest' = nest  BY <1>10, <2>2 DEF UrlRead
    <3>2. QED  BY <1>1, <1>4, <2>1, <2>2, <3>1 DEF UrlInParen
  <2>3. CASE t.kind # "UrlTemplate"
    <3>1. nest' = Front(nest) /\ t.kind \in {"UrlRaw", "UrlTail"}  BY <1>10, <2>3 DEF UrlRead
    <3>2. QED  BY <1>4, <1>6, <2>1, <3>1 DEF UrlInParen
  <2>4. QED  BY <2>2, <2>3
<1>11. QED  BY <1>7, <1>8, <1>9, <1>10 DEF Read

LEMMA UrlInParenStep == Core /\ [Next]_vars => UrlInParen'
<1> SUFFICES ASSUME Core, [Next]_vars PROVE UrlInParen'
  OBVIOUS
<1>1. TypeOK /\ Records /\ Flow /\ UrlInParen  BY DEF Core
<1>2. CASE Reader
  <2>1. CASE Rejected  BY <2>1 DEF Rejected, UrlInParen
  <2>2. QED  BY <1>2, <2>1, ReaderReads, ReadUrlInParen
<1>3. CASE BumpPendingDedent
  <2>1. PICK t \in Token : t = Outcome("Dedent", st.pos, st.pos, st.pos) /\ Emit(t)
    BY <1>3, PendingDedentMoves
  <2>2. Last(out)'.kind = "Dedent"  BY <1>1, <2>1, EmitAppends DEF Outcome
  <2>3. nest' = nest /\ resume' = "none" /\ phase = "idle"  BY <1>3, PendingDedentMoves
  <2>4. QED  BY <1>1, <2>2, <2>3 DEF UrlInParen
<1>4. CASE BumpLayout
  <2>1. indent[1] \in Token /\ indent[1].kind \in Layout /\ Emit(indent[1])
        /\ UNCHANGED <<nest, resume>> /\ phase = "skip"
    BY <1>1, <1>4 DEF BumpLayout, Skipped, Records
  <2>2. Last(out)'.kind \in Layout  BY <1>1, <2>1, EmitAppends
  <2>3. QED  BY <1>1, <2>1, <2>2 DEF UrlInParen, Layout
<1>5. CASE UNCHANGED <<out, nest, resume>> /\ phase # "failed"
  BY <1>1, <1>5 DEF UrlInParen, Emitted
<1>6. CASE UNCHANGED vars  BY <1>1, <1>6 DEF UrlInParen, Emitted, vars
<1>7. QED
  BY <1>2, <1>3, <1>4, <1>5, <1>6
  DEF Next, Bump, Reader, BumpStart, ScanIndent, SkipWs, ScanBlockComment, ScanLineComment,
      ReopenIndentLevel, LineCommentsOff, LineCommentsRestored

LEMMA CoreStep == Core /\ [Next]_vars => Core'
  BY TypeStep, RecordsStep, FlowStep, IndentStackStep, UrlInParenStep DEF Core

LEMMA CoreInv == Spec => []Core
  BY CoreInit, CoreStep, PTL DEF Spec

\* Every field of the tokenizer keeps its shape, for every source: the cursor
\* stays in the source, no depth falls below zero, no width leaves u16.
THEOREM TypeCorrect == Spec => []TypeOK
<1>1. Core => TypeOK  BY DEF Core
<1>2. QED  BY CoreInv, <1>1, PTL

\* TokenizerState::indents is strictly increasing from the root level 0, which
\* is never popped, whatever the widths of the lines and their wrapping to u16.
THEOREM LevelsSound == Spec => []IndentStack
<1>1. Core => IndentStack  BY DEF Core
<1>2. QED  BY CoreInv, <1>1, PTL

----------------------------------------------------------------------------
(***************************************************************************)
(* The flag of an interpolation's opener.                                   *)
(***************************************************************************)
\* While a hole is due, the token that is read is its brace.
LEMMA FlaggedRead ==
    ASSUME Core, FlagIsHole, Reader, st.openerPending
    PROVE  Rejected \/ \E t \in Token : Read(t) /\ t.kind = "LBrace"
<1>1. TypeOK /\ Flow /\ At(src, st.pos) = "lbrace"  BY DEF Core, FlagIsHole
<1>2. src \in Seq(ByteClass) /\ syntax \in Syntax /\ st.pos \in Nat /\ st.pos <= Len(src)
  BY <1>1, Cursor
<1>3. phase = "idle" => HoleDue /\ resume = "none"
  BY <1>1 DEF FlagIsHole, Flow, HoleDue
<1>4. CASE BumpToken \/ BumpWithoutWs
  <2>1. PICK t \in Lex(src, syntax, st.pos) : Accept(t)  BY <1>4 DEF BumpToken, BumpWithoutWs
  <2>2. UNCHANGED <<src, syntax, comments, indent, reopened>>  BY <1>4 DEF BumpToken, BumpWithoutWs
  <2>3. t \in Token /\ t.kind = "LBrace"  BY <1>1, <1>2, LexScans
  <2>4. QED  BY <1>1, <2>1, <2>2, <2>3, LexAccepted
<1>5. CASE ScanStringTemplate \/ ScanUrlTemplate \/ ScanUrlRawOrTemplate
  BY <1>3, <1>5 DEF ScanStringTemplate, ScanUrlTemplate, ScanUrlRawOrTemplate, HoleDue
<1>6. QED  BY <1>4, <1>5 DEF Reader

LEMMA ReadFlag ==
    ASSUME Core, FlagIsHole, indent = <<>>, NEW t \in Token, Read(t),
           st.openerPending => t.kind = "LBrace"
    PROVE  FlagIsHole'
<1>1. TypeOK /\ Records /\ ReadAt(t)  BY DEF Core, Read
<1>2. UNCHANGED <<src, syntax, indent>> /\ Emit(t)  BY DEF Read
<1>3. HoleDue' <=> t.kind \in {"StrTemplate", "UrlTemplate"}
  BY <1>1, <1>2, EmitAppends DEF HoleDue, Emitted
<1>4. st'.pos = t.next /\ t.next \in 0..Len(src)  BY ReadMoves DEF Moved
<1>5. st'.openerPending \in BOOLEAN  BY ReadMoves DEF Moved, TokenizerState
<1>6. st.openerPending \in BOOLEAN /\ syntax \in Syntax  BY <1>1 DEF TypeOK
<1>7. st'.openerPending => t.kind \in {"StrTemplate", "UrlTemplate"} /\ syntax \in {"Scss", "Sass"}
  <2>1. CASE DispatchRead(t)
    <3>1. st'.openerPending = OpenerAfter(t)  BY <1>1, <1>4, <2>1, DepthsAre DEF DispatchRead
    <3>2. st'.openerPending => t.kind = "StrTemplate" /\ syntax # "Less"
      BY <1>6, <3>1 DEF OpenerAfter
    <3>3. QED  BY <1>1, <1>6, <3>2 DEF ReadAt, Syntax
  <2>2. CASE UrlRead(t)
    <3>1. CASE t.kind = "UrlTemplate"  BY <1>1, <3>1 DEF ReadAt
    <3>2. CASE t.kind # "UrlTemplate"
      <4>1. st' = CloseUrl(t) /\ t.kind \in {"UrlRaw", "UrlTail"}  BY <2>2, <3>2 DEF UrlRead
      <4>2. st'.openerPending = st.openerPending  BY <1>1, <1>4, <4>1, UrlDepthsAre DEF CloseUrl
      <4>3. QED  BY <4>1, <4>2
    <3>3. QED  BY <3>1, <3>2
  <2>3. QED  BY <2>1, <2>2 DEF Read
<1>8. (t.kind \in {"StrTemplate", "UrlTemplate"} /\ syntax \in {"Scss", "Sass"}) => st'.openerPending
  <2> SUFFICES ASSUME t.kind \in {"StrTemplate", "UrlTemplate"}, syntax \in {"Scss", "Sass"}
               PROVE  st'.openerPending
    OBVIOUS
  <2>1. CASE DispatchRead(t)
    <3>1. st'.openerPending = OpenerAfter(t)  BY <1>1, <1>4, <2>1, DepthsAre DEF DispatchRead
    <3>2. t.kind = "StrTemplate"  BY <2>1 DEF DispatchRead
    <3>3. QED  BY <3>1, <3>2 DEF OpenerAfter
  <2>2. CASE UrlRead(t)
    <3>1. st' = [st EXCEPT !.pos = t.next, !.openerPending = TRUE]  BY <2>2 DEF UrlRead
    <3>2. QED  BY <1>1, <1>4, <3>1, UrlDepthsAre
  <2>3. QED  BY <2>1, <2>2 DEF Read
<1>9. st'.openerPending => At(src, st'.pos) = "lbrace"
  BY <1>1, <1>4, <1>7 DEF ReadAt, HoleAhead
<1>10. indent' = <<>> /\ syntax' = syntax /\ src' = src  BY <1>2
<1>11. st'.openerPending =>
         /\ At(src, st'.pos) = "lbrace" /\ indent' = <<>> /\ syntax \in {"Scss", "Sass"}
  BY <1>7, <1>9, <1>10
<1>12. (phase' # "failed" /\ syntax' \in {"Scss", "Sass"}) => (st'.openerPending <=> HoleDue')
  BY <1>3, <1>5, <1>7, <1>8, <1>10
<1>13. QED  BY <1>10, <1>11, <1>12 DEF FlagIsHole

\* A step that neither returns a token nor moves the cursor over the brace.
LEMMA FlagKept ==
    ASSUME FlagIsHole, UNCHANGED <<src, syntax, out>>, st'.openerPending = st.openerPending,
           phase # "failed",
           st.openerPending => st'.pos = st.pos /\ indent' = <<>>
    PROVE  FlagIsHole'
  BY DEF FlagIsHole, HoleDue, Emitted

LEMMA FlagIsHoleStep == Core /\ FlagIsHole /\ [Next]_vars => FlagIsHole'
<1> SUFFICES ASSUME Core, FlagIsHole, [Next]_vars PROVE FlagIsHole'
  OBVIOUS
<1>1. TypeOK /\ Records /\ Flow /\ IndentStack  BY DEF Core
<1>2. st.openerPending => /\ At(src, st.pos) = "lbrace" /\ indent = <<>>
                         /\ At(src, st.pos) \notin Ws /\ ~CommentStart(src, st.pos)
  BY DEF FlagIsHole, Ws, CommentStart
<1>3. CASE Reader
  <2>1. indent = <<>>  BY <1>1, <1>3, ReaderFrom
  <2>2. CASE Rejected  BY <2>2 DEF Rejected, FlagIsHole, HoleDue, Emitted
  <2>3. CASE \E t \in Token : Read(t) /\ (st.openerPending => t.kind = "LBrace")
    BY <2>1, <2>3, ReadFlag
  <2>4. Rejected \/ \E t \in Token : Read(t) /\ (st.openerPending => t.kind = "LBrace")
    BY <1>3, ReaderReads, FlaggedRead
  <2>5. QED  BY <2>2, <2>3, <2>4
<1>4. CASE BumpPendingDedent
  <2>1. PICK t \in Token : t = Outcome("Dedent", st.pos, st.pos, st.pos) /\ Emit(t)
    BY <1>4, PendingDedentMoves
  <2>2. t.kind = "Dedent"  BY <2>1 DEF Outcome
  <2>3. ~HoleDue'  BY <1>1, <2>1, <2>2, EmitAppends DEF HoleDue
  <2>4. /\ st'.pos = st.pos /\ st'.openerPending = st.openerPending /\ phase = "idle"
        /\ UNCHANGED <<src, syntax, indent>> /\ phase' = IF HoleDue THEN "failed" ELSE "idle"
    BY <1>4, PendingDedentMoves
  <2>5. CASE HoleDue  BY <2>4, <2>5 DEF FlagIsHole
  <2>6. CASE ~HoleDue  BY <2>3, <2>4, <2>6 DEF FlagIsHole
  <2>7. QED  BY <2>5, <2>6
<1>5. CASE BumpStart
  BY <1>5, FlagKept DEF BumpStart
<1>6. CASE ScanIndent
  <2>1. At(src, st.pos) \in Ws /\ phase = "skip" /\ UNCHANGED <<src, syntax, out>>
    BY <1>6, ScanIndentCases
  <2>2. ~st.openerPending  BY <1>2, <2>1
  <2>3. PICK c \in WsEnd(src, st.pos) :
           \/ IndentAtEof(c) \/ IndentNone(c)
           \/ \E b \in LineStarts(src, st.pos, c) : IndentLine(c, b)
    BY <1>6, ScanIndentCases
  <2>4. st'.openerPending = st.openerPending
    BY <1>1, <2>3 DEF IndentAtEof, IndentNone, IndentLine, TypeOK
  <2>5. QED  BY <2>1, <2>2, <2>4, FlagKept
<1>7. CASE SkipWs
  <2>1. ~st.openerPending  BY <1>2, <1>7 DEF SkipWs
  <2>2. st'.openerPending = st.openerPending  BY <1>1, <1>7 DEF SkipWs, TypeOK
  <2>3. QED  BY <1>7, <2>1, <2>2, FlagKept DEF SkipWs
<1>8. CASE ScanBlockComment \/ ScanLineComment
  <2>1. ~st.openerPending  BY <1>2, <1>8 DEF ScanBlockComment, ScanLineComment
  <2>2. st'.openerPending = st.openerPending  BY <1>1, <1>8, CommentRead
  <2>3. UNCHANGED <<src, syntax, out>> /\ phase = "skip"
    BY <1>8 DEF ScanBlockComment, ScanLineComment
  <2>4. QED  BY <2>1, <2>2, <2>3, FlagKept
<1>9. CASE BumpLayout
  <2>1. /\ indent[1] \in Token /\ indent[1].kind \in Layout /\ Emit(indent[1]) /\ indent # <<>>
        /\ UNCHANGED <<src, syntax, st>> /\ phase = "skip"
    BY <1>1, <1>9 DEF BumpLayout, Skipped, Records
  <2>2. ~HoleDue'  BY <1>1, <2>1, EmitAppends DEF HoleDue, Layout
  <2>3. ~st.openerPending  BY <1>2, <2>1
  <2>4. QED  BY <2>1, <2>2, <2>3 DEF FlagIsHole
<1>10. CASE ReopenIndentLevel \/ LineCommentsOff \/ LineCommentsRestored
  <2>1. UNCHANGED <<src, syntax, out, indent>> /\ phase = "idle"
    BY <1>10 DEF ReopenIndentLevel, LineCommentsOff, LineCommentsRestored
  <2>2. st'.openerPending = st.openerPending /\ st'.pos = st.pos
    BY <1>1, <1>10 DEF ReopenIndentLevel, LineCommentsOff, LineCommentsRestored, TypeOK
  <2>3. QED  BY <1>2, <2>1, <2>2, FlagKept
<1>11. CASE UNCHANGED vars  BY <1>11 DEF vars, FlagIsHole, HoleDue, Emitted
<1>12. QED
  BY <1>3, <1>4, <1>5, <1>6, <1>7, <1>8, <1>9, <1>10, <1>11 DEF Next, Bump, Reader

LEMMA FlagInit == Init => FlagIsHole
  BY DEF Init, FlagIsHole, HoleDue, Emitted

LEMMA FlagInv == Spec => []FlagIsHole
  BY FlagInit, FlagIsHoleStep, CoreInv, PTL DEF Spec

\* The opener flag is never stale, for every source: while it is set the next
\* byte is the `{` it was set for, so no other brace counts as an interpolation.
THEOREM FlagIsFresh == Spec => []OpenerIsNext
<1>1. FlagIsHole => OpenerIsNext  BY DEF FlagIsHole, OpenerIsNext
<1>2. QED  BY FlagInv, <1>1, PTL

----------------------------------------------------------------------------
(***************************************************************************)
(* The end of the source.                                                   *)
(***************************************************************************)
LEMMA AtTheEndStep == Core /\ AtTheEnd /\ [Next]_vars => AtTheEnd'
<1> SUFFICES ASSUME Core, AtTheEnd, [Next]_vars PROVE AtTheEnd'
  OBVIOUS
<1>1. TypeOK /\ Records /\ Flow /\ IndentStack  BY DEF Core
<1>2. src \in Seq(ByteClass) /\ Len(src) \in Nat /\ st.pos \in Nat /\ st.pos <= Len(src)
  BY <1>1, Cursor
<1>3. st.pos = Len(src) => At(src, st.pos) \notin Ws /\ ~CommentStart(src, st.pos)
  BY <1>2, AtIs DEF Ws, CommentStart
<1>4. CASE Reader
  <2>1. indent = <<>>  BY <1>1, <1>4, ReaderFrom
  <2>2. CASE Rejected  BY <2>2 DEF Rejected, AtTheEnd, AtEof, Emitted
  <2>3. CASE \E t \in Token : Read(t)
    <3>1. PICK t \in Token : Read(t)  BY <2>3
    <3>2. UNCHANGED <<src, indent>> /\ Last(out)'.kind = t.kind  BY <1>1, <3>1, EmitAppends DEF Read
    <3>3. st'.pos = t.next /\ t.start <= t.end /\ t.end <= t.next /\ t.next <= Len(src)
          /\ t.start \in Nat /\ t.end \in Nat /\ t.next \in Nat
      BY <1>2, <3>1, ReadMoves DEF Moved, Token
    <3>4. t.kind = "Eof" => t.start = Len(src)  BY <3>1 DEF Read, ReadAt
    <3>5. t.kind = "Eof" => st'.pos = Len(src)  BY <1>2, <3>3, <3>4
    <3>6. QED  BY <2>1, <3>2, <3>5 DEF AtTheEnd, AtEof
  <2>4. QED  BY <1>4, <2>2, <2>3, ReaderReads
<1>5. CASE BumpPendingDedent
  <2>1. PICK t \in Token : t = Outcome("Dedent", st.pos, st.pos, st.pos) /\ Emit(t)
    BY <1>5, PendingDedentMoves
  <2>2. Last(out)'.kind = "Dedent"  BY <1>1, <2>1, EmitAppends DEF Outcome
  <2>3. indent' = <<>>  BY <1>5, PendingDedentMoves
  <2>4. QED  BY <2>2, <2>3 DEF AtTheEnd, AtEof
<1>6. CASE BumpStart  BY <1>6 DEF BumpStart, AtTheEnd, AtEof, Emitted
<1>7. CASE ScanIndent
  <2>1. At(src, st.pos) \in Ws /\ syntax = "Sass" /\ UNCHANGED <<src, out>>
    BY <1>7, ScanIndentCases DEF IndentSensitive
  <2>2. ~AtEof'  BY <1>3, <2>1 DEF AtTheEnd, AtEof, Emitted
  <2>3. PICK c \in WsEnd(src, st.pos) :
           \/ IndentAtEof(c) \/ IndentNone(c)
           \/ \E b \in LineStarts(src, st.pos, c) : IndentLine(c, b)
    BY <1>7, ScanIndentCases
  <2>4. CASE IndentAtEof(c)
    <3>1. st'.pos = Len(src)  BY <1>1, <2>4 DEF IndentAtEof, TypeOK
    <3>2. QED  BY <2>1, <2>2, <3>1 DEF AtTheEnd
  <2>5. CASE IndentNone(c)  BY <2>2, <2>5 DEF IndentNone, AtTheEnd
  <2>6. CASE \E b \in LineStarts(src, st.pos, c) : IndentLine(c, b)
    <3>1. PICK b \in LineStarts(src, st.pos, c) : IndentLine(c, b)  BY <2>6
    <3>2. Width(c, b) \in Nat  BY <1>1, <2>1, <3>1, LineState
    <3>3. PICK t : t = IndentToken(Width(c, b), b, c) /\ t.kind \in {"Indent", "Dedent", "Linebreak"}
      BY <1>1, <3>2, LineAhead
    <3>4. indent' = <<t>>  BY <3>1, <3>3 DEF IndentLine
    <3>5. QED  BY <2>2, <3>3, <3>4 DEF AtTheEnd
  <2>7. QED  BY <2>3, <2>4, <2>5, <2>6
<1>8. CASE SkipWs
  <2>1. st.pos # Len(src)  BY <1>3, <1>8 DEF SkipWs
  <2>2. QED  BY <1>8, <2>1 DEF SkipWs, AtTheEnd, AtEof, Emitted
<1>9. CASE ScanBlockComment \/ ScanLineComment
  <2>1. st.pos # Len(src)  BY <1>3, <1>9 DEF ScanBlockComment, ScanLineComment
  <2>2. UNCHANGED <<src, out, indent>>  BY <1>9 DEF ScanBlockComment, ScanLineComment
  <2>3. QED  BY <2>1, <2>2 DEF AtTheEnd, AtEof, Emitted
<1>10. CASE BumpLayout
  <2>1. /\ indent[1] \in Token /\ Emit(indent[1]) /\ indent # <<>>
        /\ UNCHANGED <<src, st>> /\ indent' = <<>>
    BY <1>1, <1>10 DEF BumpLayout, Records
  <2>2. Last(out)'.kind = indent[1].kind  BY <1>1, <2>1, EmitAppends
  <2>3. QED  BY <2>1, <2>2 DEF AtTheEnd, AtEof
<1>11. CASE ReopenIndentLevel \/ LineCommentsOff \/ LineCommentsRestored
  <2>1. UNCHANGED <<src, out, indent>> /\ st'.pos = st.pos
    BY <1>1, <1>11 DEF ReopenIndentLevel, LineCommentsOff, LineCommentsRestored, TypeOK
  <2>2. QED  BY <2>1 DEF AtTheEnd, AtEof, Emitted
<1>12. CASE UNCHANGED vars  BY <1>12 DEF vars, AtTheEnd, AtEof, Emitted
<1>13. QED
  BY <1>4, <1>5, <1>6, <1>7, <1>8, <1>9, <1>10, <1>11, <1>12 DEF Next, Bump, Reader

LEMMA AtTheEndInv == Spec => []AtTheEnd
<1>1. Init => AtTheEnd  BY DEF Init, AtTheEnd, AtEof, Emitted
<1>2. QED  BY <1>1, AtTheEndStep, CoreInv, PTL DEF Spec

LEMMA NothingBehindEof == Core /\ AtTheEnd /\ [Next]_vars => (AtEof => out' = out)
<1> SUFFICES ASSUME Core, AtTheEnd, [Next]_vars, AtEof PROVE out' = out
  OBVIOUS
<1>1. TypeOK /\ Records /\ Flow  BY DEF Core
<1>2. src \in Seq(ByteClass) /\ syntax \in Syntax /\ Len(src) \in Nat /\ st.pos \in Nat
      /\ st.pos <= Len(src)
  BY <1>1, Cursor
<1>3. st.pos = Len(src) /\ indent = <<>> /\ At(src, st.pos) = "eof"  BY <1>2, AtIs DEF AtTheEnd
<1>4. CASE Reader
  <2>1. phase = "skip"  BY <1>1, <1>4, ReaderFrom
  <2>2. BumpToken
    BY <1>4, <2>1 DEF Reader, BumpWithoutWs, ScanStringTemplate, ScanUrlRawOrTemplate, ScanUrlTemplate
  <2>3. PICK t \in Lex(src, syntax, st.pos) : Accept(t)  BY <2>2 DEF BumpToken
  <2>4. t.kind = "Eof"  BY <1>2, <1>3, LexScans
  <2>5. QED  BY <2>3, <2>4 DEF Accept, Emit
<1>5. CASE BumpPendingDedent  BY <1>2, <1>3, <1>5 DEF BumpPendingDedent, PendingDedent
<1>6. CASE BumpLayout  BY <1>3, <1>6 DEF BumpLayout
<1>7. CASE UNCHANGED out  BY <1>7
<1>8. QED
  BY <1>4, <1>5, <1>6, <1>7
  DEF Next, Bump, Reader, BumpStart, ScanIndent, SkipWs, ScanBlockComment, ScanLineComment,
      ReopenIndentLevel, LineCommentsOff, LineCommentsRestored, vars

\* Behind Eof the tokenizer returns nothing but Eof, for every source: no Dedent
\* follows the end however many levels the source leaves open, and no reader the
\* parser may call there finds anything.
THEOREM NothingAfterEof == Spec => EofIsFinal
<1>1. Core /\ AtTheEnd /\ [Next]_vars => [AtEof => out' = out]_vars  BY NothingBehindEof
<1>2. QED  BY <1>1, CoreInv, AtTheEndInv, PTL DEF Spec, EofIsFinal

----------------------------------------------------------------------------
(***************************************************************************)
(* Every level a line has left is closed before the line's content.         *)
(***************************************************************************)
Closed == Top <= st.currentIndent

\* At the end of the source a bump reads Eof.
LEMMA EndRead ==
    ASSUME Core, Reader, phase = "skip", st.pos = Len(src)
    PROVE  Rejected \/ \E t \in Token : Read(t) /\ t.kind = "Eof"
<1>1. src \in Seq(ByteClass) /\ syntax \in Syntax /\ st.pos \in Nat /\ st.pos <= Len(src)
      /\ Len(src) \in Nat /\ TypeOK
  BY Cursor DEF Core
<1>2. At(src, st.pos) = "eof"  BY <1>1, AtIs
<1>3. BumpToken
  BY DEF Reader, BumpWithoutWs, ScanStringTemplate, ScanUrlRawOrTemplate, ScanUrlTemplate
<1>4. PICK t \in Lex(src, syntax, st.pos) : Accept(t)  BY <1>3 DEF BumpToken
<1>5. UNCHANGED <<src, syntax, comments, indent, reopened>>  BY <1>3 DEF BumpToken
<1>6. t \in Token /\ t.kind = "Eof"  BY <1>1, <1>2, LexScans
<1>7. QED  BY <1>1, <1>4, <1>5, <1>6, LexAccepted

\* Content is read at a closed level.
LEMMA ReadClosed ==
    ASSUME Core, LevelsClosed, DedentsBeforeContent, syntax = "Sass", OnlyLineComments, Reader
    PROVE  Rejected \/ \E t \in Token : Read(t) /\ (Closed \/ t.kind = "Eof")
<1>1. Flow  BY DEF Core
<1>2. indent = <<>> /\ phase \in {"idle", "skip"}  BY <1>1, ReaderFrom
<1>3. CASE phase = "idle"
  <2>1. Emitted /\ Last(out).kind \notin Layout
    <3>1. CASE BumpWithoutWs  BY <3>1 DEF BumpWithoutWs
    <3>2. CASE resume # "none"  BY <1>1, <3>2 DEF Flow, Layout
    <3>3. CASE ScanUrlRawOrTemplate
      <4>1. Emitted \/ resume # "none"  BY <1>1, <1>3, ReaderFrom
      <4>2. QED  BY <3>3, <4>1 DEF ScanUrlRawOrTemplate, Layout
    <3>4. QED
      BY <1>3, <3>1, <3>2, <3>3 DEF Reader, BumpToken, Skipped, ScanStringTemplate, ScanUrlTemplate
  <2>2. Closed  BY <1>3, <2>1 DEF DedentsBeforeContent, Closed
  <2>3. QED  BY <2>2, ReaderReads
<1>4. CASE phase = "skip"
  <2>1. Closed \/ st.pos = Len(src)  BY <1>2, <1>4 DEF LevelsClosed, Closed
  <2>2. QED  BY <1>4, <2>1, ReaderReads, EndRead
<1>5. QED  BY <1>2, <1>3, <1>4

LEMMA OnlyLineCommentsBefore ==
    ASSUME Records, NEW t \in Token, comments' = Append(comments, t), OnlyLineComments'
    PROVE  OnlyLineComments /\ t.kind = "Line"
<1>1. comments \in Seq(Token) /\ Len(comments) \in Nat  BY LenProperties DEF Records
<1>2. /\ Len(comments') = Len(comments) + 1
      /\ \A i \in 1..Len(comments) : comments'[i] = comments[i]
      /\ comments'[Len(comments) + 1] = t
  BY <1>1, PushProperties
<1>3. \A i \in 1..(Len(comments) + 1) : comments'[i].kind = "Line"  BY <1>2 DEF OnlyLineComments
<1>4. Len(comments) + 1 \in 1..(Len(comments) + 1)
      /\ \A i \in 1..Len(comments) : i \in 1..(Len(comments) + 1)
  BY <1>1
<1>5. QED  BY <1>2, <1>3, <1>4 DEF OnlyLineComments

\* No step hands out content, or opens a bracket, at a level that its line left.
LEMMA LevelsClosedStep ==
    Core /\ LevelsClosed /\ DedentsBeforeContent /\ [Next]_vars
      => LevelsClosed' /\ DedentsBeforeContent'
<1> SUFFICES ASSUME Core, LevelsClosed, DedentsBeforeContent, [Next]_vars,
                    syntax' = "Sass", OnlyLineComments'
             PROVE  /\ st'.parenDepth > 0 => Closed'
                    /\ (phase' = "skip" /\ indent' = <<>>) => (Closed' \/ st'.pos = Len(src'))
                    /\ (phase' = "skip" /\ indent' # <<>>) => At(src', st'.pos) # "sp"
                    /\ (phase' = "idle" /\ Emitted' /\ Last(out)'.kind \notin Layout) => Closed'
  BY DEF LevelsClosed, DedentsBeforeContent, Closed
<1>1. TypeOK /\ Records /\ Flow /\ IndentStack  BY DEF Core
<1>2. src \in Seq(ByteClass) /\ Len(src) \in Nat /\ st.pos \in Nat /\ st.pos <= Len(src)
      /\ st.parenDepth \in Nat /\ st.currentIndent \in Nat
  BY <1>1, Cursor DEF TypeOK
<1>3. st.pos = Len(src) => At(src, st.pos) \notin Ws /\ ~CommentStart(src, st.pos)
  BY <1>2, AtIs DEF Ws, CommentStart
<1>4. (syntax = "Sass" /\ OnlyLineComments) =>
        /\ st.parenDepth > 0 => Closed
        /\ (phase = "skip" /\ indent = <<>>) => (Closed \/ st.pos = Len(src))
        /\ (phase = "skip" /\ indent # <<>>) => At(src, st.pos) # "sp"
        /\ (phase = "idle" /\ Emitted /\ Last(out).kind \notin Layout) => Closed
  BY DEF LevelsClosed, DedentsBeforeContent, Closed
<1>5. /\ comments' = comments => OnlyLineComments
      /\ (st'.indents = st.indents /\ st'.currentIndent = st.currentIndent) => (Closed' <=> Closed)
  BY DEF OnlyLineComments, Closed, Top
<1>6. CASE Reader
  <2>1. CASE Rejected  BY <1>4, <1>5, <2>1 DEF Rejected
  <2>2. CASE ~Rejected
    <3>1. UNCHANGED <<syntax, comments>>
      <4>1. \E t \in Token : Read(t)  BY <1>6, <2>2, ReaderReads
      <4>2. QED  BY <4>1 DEF Read
    <3>2. PICK t \in Token : Read(t) /\ (Closed \/ t.kind = "Eof")
      BY <1>5, <1>6, <2>2, <3>1, ReadClosed
    <3>3. Closed' <=> Closed  BY <1>5, <3>2, ReadMoves DEF Moved
    <3>4. phase' = "idle" /\ Last(out)'.kind = t.kind  BY <1>1, <3>2, EmitAppends DEF Read
    <3>5. t.kind = "Eof" => st'.parenDepth = st.parenDepth
      <4>1. t.next \in 0..Len(src)  BY <3>2, ReadMoves
      <4>2. t.kind = "Eof" => DispatchRead(t)  BY <3>2 DEF Read, UrlRead
      <4>3. t.kind = "Eof" => st'.parenDepth = ParenAfter(t)
        BY <1>1, <4>1, <4>2, DepthsAre DEF DispatchRead
      <4>4. QED  BY <4>3 DEF ParenAfter
    <3>6. t.kind = "Eof" => (st'.parenDepth > 0 => Closed)  BY <1>4, <1>5, <3>1, <3>5
    <3>7. QED  BY <3>2, <3>3, <3>4, <3>6 DEF Layout
  <2>3. QED  BY <2>1, <2>2
<1>7. CASE BumpPendingDedent
  <2>1. PICK t \in Token : t = Outcome("Dedent", st.pos, st.pos, st.pos) /\ Emit(t)
    BY <1>7, PendingDedentMoves
  <2>2. t.kind = "Dedent"  BY <2>1 DEF Outcome
  <2>3. Last(out)'.kind = "Dedent"  BY <1>1, <2>1, <2>2, EmitAppends
  <2>4. st'.parenDepth = 0 /\ phase' # "skip"  BY <1>7, PendingDedentMoves
  <2>5. QED  BY <2>3, <2>4 DEF Layout
<1>8. CASE BumpStart
  <2>1. Closed \/ st.pos = Len(src)
    <3>1. ~PendingDedent /\ syntax = "Sass" /\ comments' = comments  BY <1>8 DEF BumpStart
    <3>2. Top \in Nat  BY <1>1, <3>1, TopLevel
    <3>3. st.parenDepth > 0 \/ Top <= st.currentIndent \/ st.pos = Len(src)
      BY <1>2, <3>1, <3>2 DEF PendingDedent, IndentSensitive
    <3>4. QED  BY <1>4, <1>5, <3>1, <3>3 DEF Closed
  <2>2. QED  BY <1>4, <1>5, <1>8, <2>1 DEF BumpStart
<1>9. CASE ScanIndent
  <2>1. /\ phase = "skip" /\ At(src, st.pos) \in Ws /\ syntax = "Sass" /\ st.parenDepth = 0
        /\ phase' = "skip" /\ src' = src /\ comments' = comments
    BY <1>9, ScanIndentCases DEF IndentSensitive
  <2>2. PICK c \in WsEnd(src, st.pos) :
           \/ IndentAtEof(c) \/ IndentNone(c)
           \/ \E b \in LineStarts(src, st.pos, c) : IndentLine(c, b)
    BY <1>9, ScanIndentCases
  <2>3. st'.parenDepth = 0 /\ st'.pos = c
    BY <1>1, <2>1, <2>2 DEF IndentAtEof, IndentNone, IndentLine, TypeOK
  <2>4. At(src, c) # "sp"  BY <1>2, WsEndIs DEF Ws
  <2>5. indent' = <<>> => Closed'
    <3> SUFFICES ASSUME indent' = <<>> PROVE Closed'
      OBVIOUS
    <3>1. IndentNone(c)  BY <2>2 DEF IndentAtEof, IndentLine
    <3>2. At(src, st.pos) = "sp"  BY <1>2, <2>1, <3>1, LineStartExists DEF IndentNone, Ws, Newline
    <3>3. Closed  BY <1>3, <1>4, <1>5, <2>1, <3>2
    <3>4. QED  BY <1>1, <1>5, <3>1, <3>3 DEF IndentNone, TypeOK
  <2>6. QED  BY <2>1, <2>3, <2>4, <2>5
<1>10. CASE SkipWs
  <2>1. syntax = "Sass" /\ comments' = comments /\ ~IndentSensitive /\ phase = "skip" /\ phase' = "skip"
        /\ indent' = indent
    BY <1>10 DEF SkipWs
  <2>2. indent = <<>> /\ st.parenDepth > 0  BY <1>1, <1>2, <2>1 DEF IndentSensitive, Flow
  <2>3. Closed'
    <3>1. st'.indents = st.indents /\ st'.currentIndent = st.currentIndent
      BY <1>1, <1>10 DEF SkipWs, TypeOK
    <3>2. QED  BY <1>4, <1>5, <2>1, <2>2, <3>1
  <2>4. QED  BY <2>1, <2>2, <2>3
<1>11. CASE ScanBlockComment \/ ScanLineComment
  <2>1. PICK t \in Token, k \in 0..Len(src) :
              /\ st'.pos = k /\ st'.indents = st.indents
              /\ st'.currentIndent = st.currentIndent /\ st'.parenDepth = st.parenDepth
              /\ comments' = Append(comments, t)
              /\ (t.kind = "Line" /\ syntax = "Sass") => At(src, k) # "sp"
    BY <1>1, <1>11, CommentRead
  <2>2. UNCHANGED <<src, syntax, phase, indent>> /\ phase = "skip" /\ CommentStart(src, st.pos)
    BY <1>11 DEF ScanBlockComment, ScanLineComment
  <2>3. OnlyLineComments /\ t.kind = "Line"  BY <1>1, <2>1, OnlyLineCommentsBefore
  <2>4. Closed' <=> Closed  BY <1>5, <2>1
  <2>5. st.pos # Len(src)  BY <1>3, <2>2
  <2>6. QED  BY <1>4, <2>1, <2>2, <2>3, <2>4, <2>5
<1>12. CASE BumpLayout
  <2>1. /\ indent[1] \in Token /\ indent[1].kind \in Layout /\ Emit(indent[1])
        /\ UNCHANGED <<syntax, st, comments>> /\ phase' = "idle"
    BY <1>1, <1>12 DEF BumpLayout, Records
  <2>2. Last(out)'.kind \in Layout  BY <1>1, <2>1, EmitAppends
  <2>3. QED  BY <1>4, <1>5, <2>1, <2>2
<1>13. CASE ReopenIndentLevel
  <2>1. /\ syntax = "Sass" /\ Top < st.currentIndent /\ phase' = "idle"
        /\ st' = [st EXCEPT !.indents = Append(@, st.currentIndent)]
    BY <1>13 DEF ReopenIndentLevel, IndentSensitive
  <2>2. Last(Append(st.indents, st.currentIndent)) = st.currentIndent
    BY <1>1, <1>2, <2>1, LevelPushed
  <2>3. st'.indents = Append(st.indents, st.currentIndent) /\ st'.currentIndent = st.currentIndent
    BY <1>1, <2>1 DEF TypeOK
  <2>4. Closed'  BY <1>2, <2>2, <2>3 DEF Closed, Top
  <2>5. QED  BY <2>1, <2>4
<1>14. CASE LineCommentsOff \/ LineCommentsRestored
  <2>1. UNCHANGED <<src, syntax, comments, phase, indent, out>> /\ phase = "idle"
    BY <1>14 DEF LineCommentsOff, LineCommentsRestored
  <2>2. st'.indents = st.indents /\ st'.currentIndent = st.currentIndent
        /\ st'.parenDepth = st.parenDepth /\ st'.pos = st.pos
    BY <1>1, <1>14 DEF LineCommentsOff, LineCommentsRestored, TypeOK
  <2>3. QED  BY <1>4, <1>5, <2>1, <2>2 DEF Emitted
<1>15. CASE UNCHANGED vars  BY <1>4, <1>5, <1>15 DEF vars, Emitted
<1>16. QED
  BY <1>6, <1>7, <1>8, <1>9, <1>10, <1>11, <1>12, <1>13, <1>14, <1>15 DEF Next, Bump, Reader

LEMMA LevelsClosedInit == Init => LevelsClosed /\ DedentsBeforeContent
<1> SUFFICES ASSUME Init PROVE LevelsClosed /\ DedentsBeforeContent
  OBVIOUS
<1>1. st.parenDepth = 0 /\ phase = "idle" /\ ~Emitted  BY DEF Init, Emitted
<1>2. QED  BY <1>1 DEF LevelsClosed, DedentsBeforeContent

\* As long as no block comment stands between a line break and its line, a
\* Dedent is returned for every level a line has left before the line's own
\* content, for every source and whatever the widths of its lines.
THEOREM ContentBehindDedents == Spec => []DedentsBeforeContent
<1>1. Spec => [](LevelsClosed /\ DedentsBeforeContent)
  BY LevelsClosedInit, LevelsClosedStep, CoreInv, PTL DEF Spec
<1>2. QED  BY <1>1, PTL

----------------------------------------------------------------------------
(***************************************************************************)
(* One Dedent per level.                                                    *)
(***************************************************************************)
NumKind(s, kind) == Cardinality({i \in 1..Len(s) : s[i].kind = kind})

LEMMA NumKindPush ==
    ASSUME NEW s \in Seq(Token), NEW t \in Token, NEW kind
    PROVE  /\ NumKind(s, kind) \in Nat
           /\ NumKind(Append(s, t), kind) = NumKind(s, kind) + IF t.kind = kind THEN 1 ELSE 0
<1> DEFINE I == {i \in 1..Len(s) : s[i].kind = kind}
           J == {i \in 1..Len(Append(s, t)) : Append(s, t)[i].kind = kind}
<1>1. Len(s) \in Nat /\ I \in SUBSET (1..Len(s))  BY LenProperties
<1>2. /\ Len(Append(s, t)) = Len(s) + 1
      /\ \A i \in 1..Len(s) : Append(s, t)[i] = s[i]
      /\ Append(s, t)[Len(s) + 1] = t
  BY PushProperties
<1>3. \A i : i \in 1..(Len(s) + 1) <=> (i \in 1..Len(s) \/ i = Len(s) + 1)  BY <1>1
<1>4. J = I \cup {i \in {Len(s) + 1} : t.kind = kind}  BY <1>2, <1>3
<1>5. Cardinality(I) \in Nat /\ Cardinality(I \cup {Len(s) + 1}) = Cardinality(I) + 1
  BY <1>1, IndexAdded
<1>6. CASE t.kind = kind
  <2>1. J = I \cup {Len(s) + 1}  BY <1>4, <1>6
  <2>2. QED  BY <1>5, <1>6, <2>1 DEF NumKind
<1>7. CASE t.kind # kind
  <2>1. J = I  BY <1>4, <1>7
  <2>2. NumKind(s, kind) = Cardinality(I) /\ NumKind(Append(s, t), kind) = Cardinality(J)
    BY DEF NumKind
  <2> HIDE DEF I, J
  <2>3. QED  BY <1>5, <1>7, <2>1, <2>2
<1>8. QED  BY <1>6, <1>7

\* The token in hand counts as returned.
LEMMA CountKindIs ==
    ASSUME Records, NEW kind
    PROVE  /\ indent = <<>> => CountKind(kind) = NumKind(out, kind)
           /\ indent # <<>> => CountKind(kind) = NumKind(Append(out, indent[1]), kind)
<1>1. out \in Seq(Token)  BY DEF Records
<1>2. CASE indent = <<>>
  <2>1. out \o indent = out  BY <1>1, <1>2, ConcatEmptySeq
  <2>2. QED  BY <1>2, <2>1 DEF CountKind, NumKind
<1>3. CASE indent # <<>>
  <2>1. PICK e \in Token : indent = <<e>> /\ e = indent[1]  BY <1>3 DEF Records
  <2>2. out \o <<e>> = Append(out, e)  BY <1>1, <2>1, AppendIsConcat
  <2>3. QED  BY <1>3, <2>1, <2>2 DEF CountKind, NumKind
<1>4. QED  BY <1>2, <1>3

NothingCounted(t) == t.kind \notin {"Indent", "Dedent"}

\* The balance: levels opened minus levels closed.
Balance(indents, opened, closed, again) == Len(indents) = 1 + opened - closed + again

LEMMA EmittedCounts ==
    ASSUME Records, NEW t \in Token, Emit(t), NEW kind \in {"Indent", "Dedent"}
    PROVE  NumKind(out', kind) = NumKind(out, kind) + IF t.kind = kind THEN 1 ELSE 0
<1>1. out \in Seq(Token)  BY DEF Records
<1>2. CASE out' = Append(out, t)  BY <1>1, <1>2, NumKindPush
<1>3. CASE t.kind = "Eof" /\ out' = out
  <2>1. t.kind # kind /\ NumKind(out, kind) \in Nat  BY <1>1, <1>3, NumKindPush
  <2>2. QED  BY <1>3, <2>1
<1>4. QED  BY <1>2, <1>3, EmitAppends

LEMMA DedentPerLevelStep ==
    Core /\ NothingOverwritten /\ DedentPerLevel /\ [Next]_vars
      => NothingOverwritten' /\ DedentPerLevel'
<1> SUFFICES ASSUME Core, NothingOverwritten, DedentPerLevel, [Next]_vars
             PROVE  NothingOverwritten' /\ DedentPerLevel'
  OBVIOUS
<1> DEFINE N(kind) == NumKind(out, kind)
           B == Balance(st.indents, N("Indent"), N("Dedent"), reopened)
<1>1. TypeOK /\ Records /\ Records' /\ Flow /\ IndentStack  BY RecordsStep DEF Core
<1>2. /\ src \in Seq(ByteClass) /\ Len(src) \in Nat /\ st.pos \in Nat /\ st.pos <= Len(src)
      /\ reopened \in Nat /\ out \in Seq(Token) /\ comments \in Seq(Token)
  BY <1>1, Cursor DEF TypeOK, Records
<1>3. N("Indent") \in Nat /\ N("Dedent") \in Nat
  <2>1. PICK t \in Token : TRUE
    <3>1. "Eof" \in Kind  BY DEF Kind, LexKind
    <3>2. QED  BY <3>1, OutcomeIs
  <2>2. QED  BY <1>2, <2>1, NumKindPush
<1>4. indent = <<>> => /\ CountKind("Indent") = NumKind(out, "Indent")
                      /\ CountKind("Dedent") = NumKind(out, "Dedent")
  BY <1>1, CountKindIs
<1>5. (syntax = "Sass" /\ comments = <<>> /\ indent = <<>>) => B
  BY <1>4 DEF DedentPerLevel, Balance
<1>6. (/\ indent' = <<>>
       /\ (syntax' = "Sass" /\ comments' = <<>>) =>
            Balance(st'.indents, NumKind(out', "Indent"), NumKind(out', "Dedent"), reopened'))
        => DedentPerLevel'
  <2>1. indent' = <<>> => /\ CountKind("Indent")' = NumKind(out', "Indent")
                         /\ CountKind("Dedent")' = NumKind(out', "Dedent")
    <3> SUFFICES ASSUME indent' = <<>>
                 PROVE  /\ CountKind("Indent")' = NumKind(out', "Indent")
                        /\ CountKind("Dedent")' = NumKind(out', "Dedent")
      OBVIOUS
    <3>1. out' \in Seq(Token)  BY <1>1 DEF Records
    <3>2. out' \o indent' = out'  BY <3>1, ConcatEmptySeq
    <3>3. QED  BY <3>2 DEF CountKind, NumKind
  <2>2. QED  BY <2>1 DEF DedentPerLevel, Balance
<1>7. CASE Reader
  <2>1. indent = <<>>  BY <1>1, <1>7, ReaderFrom
  <2>2. CASE Rejected
    BY <1>5, <1>6, <2>1, <2>2 DEF Rejected, NothingOverwritten
  <2>3. CASE \E t \in Token : Read(t)
    <3>1. PICK t \in Token : Read(t)  BY <2>3
    <3>2. NothingCounted(t) /\ Emit(t) /\ indent' = <<>> /\ UNCHANGED <<syntax, comments, reopened>>
      BY <2>1, <3>1 DEF Read, ReadAt, NothingCounted
    <3>3. NumKind(out', "Indent") = N("Indent") /\ NumKind(out', "Dedent") = N("Dedent")
      BY <1>1, <1>3, <3>2, EmittedCounts DEF NothingCounted
    <3>4. st'.indents = st.indents  BY <3>1, ReadMoves DEF Moved
    <3>5. QED  BY <1>5, <1>6, <2>1, <3>2, <3>3, <3>4 DEF NothingOverwritten
  <2>4. QED  BY <1>7, <2>2, <2>3, ReaderReads
<1>8. CASE BumpPendingDedent
  <2>1. PICK t \in Token : t = Outcome("Dedent", st.pos, st.pos, st.pos) /\ Emit(t)
    BY <1>8, PendingDedentMoves
  <2>2. t.kind = "Dedent"  BY <2>1 DEF Outcome
  <2>3. /\ indent = <<>> /\ indent' = <<>> /\ UNCHANGED <<syntax, comments, reopened>>
        /\ syntax = "Sass" /\ Top > st.currentIndent /\ st.currentIndent \in Nat
        /\ st'.indents = Front(st.indents)
    BY <1>8, PendingDedentMoves
  <2>4. Len(st'.indents) = Len(st.indents) - 1 /\ Len(st.indents) \in Nat
    BY <1>1, <2>3, TopLevel, LevelPopped
  <2>5. NumKind(out', "Indent") = N("Indent") /\ NumKind(out', "Dedent") = N("Dedent") + 1
    BY <1>1, <1>3, <2>1, <2>2, EmittedCounts
  <2>6. QED  BY <1>2, <1>3, <1>5, <1>6, <2>3, <2>4, <2>5 DEF Balance, NothingOverwritten
<1>9. CASE BumpStart
  <2>1. indent = <<>>  BY <1>1, <1>9 DEF BumpStart, Flow
  <2>2. QED  BY <1>5, <1>6, <1>9, <2>1 DEF BumpStart, NothingOverwritten
<1>10. CASE ScanIndent
  <2>1. /\ phase = "skip" /\ At(src, st.pos) \in Ws /\ syntax = "Sass" /\ syntax' = "Sass"
        /\ src' = src /\ comments' = comments /\ out' = out /\ reopened' = reopened
    BY <1>10, ScanIndentCases DEF IndentSensitive
  <2>2. PICK c \in WsEnd(src, st.pos) :
           \/ IndentAtEof(c) \/ IndentNone(c)
           \/ \E b \in LineStarts(src, st.pos, c) : IndentLine(c, b)
    BY <1>10, ScanIndentCases
  <2>3. st'.pos = c
    BY <1>1, <2>1, <2>2 DEF IndentAtEof, IndentNone, IndentLine, TypeOK
  <2>4. NothingOverwritten'  BY <1>2, <2>1, <2>3, WsEndIs DEF NothingOverwritten
  <2>5. DedentPerLevel'
    <3> SUFFICES ASSUME comments = <<>> PROVE DedentPerLevel'
      BY <2>1 DEF DedentPerLevel
    <3>1. indent = <<>>  BY <2>1 DEF NothingOverwritten
    <3>2. B  BY <1>5, <2>1, <3>1
    <3>3. CASE IndentNone(c)
      <4>1. st'.indents = st.indents  BY <1>1, <3>3 DEF IndentNone, TypeOK
      <4>2. QED  BY <1>6, <2>1, <3>2, <3>3, <4>1 DEF IndentNone
    <3>4. \A e \in Token : indent' = <<e>> =>
            /\ CountKind("Indent")' = N("Indent") + IF e.kind = "Indent" THEN 1 ELSE 0
            /\ CountKind("Dedent")' = N("Dedent") + IF e.kind = "Dedent" THEN 1 ELSE 0
      <4> SUFFICES ASSUME NEW e \in Token, indent' = <<e>>
                   PROVE  /\ CountKind("Indent")' = N("Indent") + IF e.kind = "Indent" THEN 1 ELSE 0
                          /\ CountKind("Dedent")' = N("Dedent") + IF e.kind = "Dedent" THEN 1 ELSE 0
        OBVIOUS
      <4>1. out' \o indent' = Append(out, e)  BY <1>2, <2>1, AppendIsConcat
      <4>2. /\ CountKind("Indent")' = NumKind(Append(out, e), "Indent")
            /\ CountKind("Dedent")' = NumKind(Append(out, e), "Dedent")
        BY <4>1 DEF CountKind, NumKind
      <4>3. QED  BY <1>2, <4>2, NumKindPush
    <3>5. CASE IndentAtEof(c)
      <4>1. PICK e \in Token : indent' = <<e>> /\ e.kind = "Eof"
        <5>1. c \in Nat /\ "Eof" \in Kind  BY <1>2, WsEndIs DEF Kind, LexKind
        <5>2. Outcome("Eof", c, c, c) \in Token /\ Outcome("Eof", c, c, c).kind = "Eof"
          BY <5>1 DEF Outcome, Token
        <5>3. QED  BY <3>5, <5>2 DEF IndentAtEof
      <4>2. CountKind("Indent")' = N("Indent") /\ CountKind("Dedent")' = N("Dedent")
        BY <1>3, <3>4, <4>1
      <4>3. st'.indents = st.indents  BY <1>1, <3>5 DEF IndentAtEof, TypeOK
      <4>4. QED  BY <2>1, <3>2, <4>2, <4>3 DEF DedentPerLevel, Balance
    <3>6. CASE \E b \in LineStarts(src, st.pos, c) : IndentLine(c, b)
      <4>1. PICK b \in LineStarts(src, st.pos, c) : IndentLine(c, b)  BY <3>6
      <4>2. Width(c, b) \in Nat /\ st'.indents = Levels(Width(c, b))  BY <1>1, <2>1, <4>1, LineState
      <4>3. PICK e \in Token : indent' = <<e>> /\ e = IndentToken(Width(c, b), b, c)
        BY <1>1, <4>1, <4>2, LineAhead DEF IndentLine
      <4>4. e.kind = IF Width(c, b) > Top THEN "Indent"
                     ELSE IF Width(c, b) < Top THEN "Dedent" ELSE "Linebreak"
        <5>1. Top \in Nat  BY <1>1, <2>1, TopLevel
        <5>2. QED  BY <4>2, <4>3, <5>1 DEF IndentToken, Outcome
      <4>5. /\ Width(c, b) > Top => Len(st'.indents) = Len(st.indents) + 1
            /\ Width(c, b) < Top => Len(st'.indents) = Len(st.indents) - 1
            /\ Width(c, b) = Top => st'.indents = st.indents
            /\ Top \in Nat /\ Len(st.indents) \in Nat
        BY <1>1, <2>1, <4>2, LevelsOfLine, TopLevel
      <4>6. /\ CountKind("Indent")' = N("Indent") + IF e.kind = "Indent" THEN 1 ELSE 0
            /\ CountKind("Dedent")' = N("Dedent") + IF e.kind = "Dedent" THEN 1 ELSE 0
        BY <3>4, <4>3
      <4>7. Len(st'.indents) = 1 + CountKind("Indent")' - CountKind("Dedent")' + reopened'
        <5>1. CASE Width(c, b) > Top
          <6>1. e.kind = "Indent"  BY <4>2, <4>4, <4>5, <5>1
          <6>2. CountKind("Indent")' = N("Indent") + 1 /\ CountKind("Dedent")' = N("Dedent")
            BY <1>3, <4>6, <6>1
          <6>3. QED  BY <1>2, <1>3, <2>1, <3>2, <4>5, <5>1, <6>2 DEF Balance
        <5>2. CASE Width(c, b) < Top
          <6>1. e.kind = "Dedent"  BY <4>2, <4>4, <4>5, <5>2
          <6>2. CountKind("Indent")' = N("Indent") /\ CountKind("Dedent")' = N("Dedent") + 1
            BY <1>3, <4>6, <6>1
          <6>3. QED  BY <1>2, <1>3, <2>1, <3>2, <4>5, <5>2, <6>2 DEF Balance
        <5>3. CASE Width(c, b) = Top
          <6>1. e.kind = "Linebreak"  BY <4>2, <4>4, <4>5, <5>3
          <6>2. CountKind("Indent")' = N("Indent") /\ CountKind("Dedent")' = N("Dedent")
            BY <1>3, <4>6, <6>1
          <6>3. QED  BY <1>2, <1>3, <2>1, <3>2, <4>5, <5>3, <6>2 DEF Balance
        <5>4. QED  BY <4>2, <4>5, <5>1, <5>2, <5>3
      <4>8. QED  BY <4>7 DEF DedentPerLevel
    <3>7. QED  BY <2>2, <3>3, <3>5, <3>6
  <2>6. QED  BY <2>4, <2>5
<1>11. CASE SkipWs
  <2>1. syntax' = "Sass" => indent = <<>>
    BY <1>1, <1>11 DEF SkipWs, IndentSensitive, Flow
  <2>2. PICK c \in WsEnd(src, st.pos) : st' = [st EXCEPT !.pos = c]  BY <1>11 DEF SkipWs
  <2>3. st'.indents = st.indents /\ st'.pos = c  BY <1>1, <2>2 DEF TypeOK
  <2>4. UNCHANGED <<src, syntax, comments, indent, out, reopened>>  BY <1>11 DEF SkipWs
  <2>5. NothingOverwritten'  BY <1>2, <2>3, <2>4, WsEndIs DEF NothingOverwritten
  <2>6. DedentPerLevel'
    <3>1. CASE syntax = "Sass"  BY <1>5, <1>6, <2>1, <2>3, <2>4, <3>1
    <3>2. CASE syntax # "Sass"  BY <2>4, <3>2 DEF DedentPerLevel
    <3>3. QED  BY <3>1, <3>2
  <2>7. QED  BY <2>5, <2>6
<1>12. CASE ScanBlockComment \/ ScanLineComment
  <2>1. PICK t \in Token : comments' = Append(comments, t)  BY <1>1, <1>12, CommentRead
  <2>2. comments' # <<>>  BY <1>2, <2>1, PushProperties
  <2>3. QED  BY <2>2 DEF NothingOverwritten, DedentPerLevel
<1>13. CASE BumpLayout
  <2>1. /\ indent[1] \in Token /\ Emit(indent[1]) /\ indent # <<>> /\ indent' = <<>>
        /\ UNCHANGED <<syntax, st, comments, reopened>>
    BY <1>1, <1>13 DEF BumpLayout, Records
  <2>2. /\ NumKind(out', "Indent") = N("Indent") + IF indent[1].kind = "Indent" THEN 1 ELSE 0
        /\ NumKind(out', "Dedent") = N("Dedent") + IF indent[1].kind = "Dedent" THEN 1 ELSE 0
    BY <1>1, <2>1, EmittedCounts
  <2>3. /\ CountKind("Indent") = N("Indent") + IF indent[1].kind = "Indent" THEN 1 ELSE 0
        /\ CountKind("Dedent") = N("Dedent") + IF indent[1].kind = "Dedent" THEN 1 ELSE 0
    BY <1>1, <1>2, <2>1, CountKindIs, NumKindPush
  <2>4. (syntax = "Sass" /\ comments = <<>>) =>
          Balance(st.indents, NumKind(out', "Indent"), NumKind(out', "Dedent"), reopened)
    BY <2>2, <2>3 DEF DedentPerLevel, Balance
  <2>5. QED  BY <1>6, <2>1, <2>4 DEF NothingOverwritten
<1>14. CASE ReopenIndentLevel
  <2>1. /\ syntax = "Sass" /\ Top < st.currentIndent /\ phase = "idle" /\ phase' = "idle"
        /\ st' = [st EXCEPT !.indents = Append(@, st.currentIndent)]
        /\ reopened' = reopened + 1 /\ UNCHANGED <<syntax, comments, indent, out>>
    BY <1>14 DEF ReopenIndentLevel, IndentSensitive
  <2>2. indent = <<>>  BY <1>1, <2>1 DEF Flow
  <2>3. st.currentIndent \in Nat /\ st'.indents = Append(st.indents, st.currentIndent)
    BY <1>1, <2>1 DEF TypeOK
  <2>4. Len(st'.indents) = Len(st.indents) + 1 /\ Len(st.indents) \in Nat
    BY <1>1, <2>1, <2>3, LevelPushed, TopLevel
  <2>5. NumKind(out', "Indent") = N("Indent") /\ NumKind(out', "Dedent") = N("Dedent")
    BY <2>1
  <2>6. comments = <<>> => Balance(st'.indents, N("Indent"), N("Dedent"), reopened')
    <3> SUFFICES ASSUME comments = <<>>
                 PROVE  Balance(st'.indents, N("Indent"), N("Dedent"), reopened')
      OBVIOUS
    <3>1. Len(st.indents) = 1 + N("Indent") - N("Dedent") + reopened
      BY <1>5, <2>1, <2>2 DEF Balance
    <3>2. reopened' = reopened + 1  BY <2>1
    <3>3. PICK o \in Nat, c \in Nat : o = N("Indent") /\ c = N("Dedent")  BY <1>3
    <3>4. Len(st.indents) = 1 + o - c + reopened  BY <3>1, <3>3
    <3>5. Len(st'.indents) = 1 + o - c + reopened'  BY <1>2, <2>4, <3>2, <3>4
    <3>6. Len(st'.indents) = 1 + N("Indent") - N("Dedent") + reopened'  BY <3>3, <3>5
    <3>7. QED  BY <3>6 DEF Balance
  <2>7. QED  BY <1>6, <2>1, <2>2, <2>5, <2>6 DEF NothingOverwritten
<1>15. CASE LineCommentsOff \/ LineCommentsRestored
  <2>1. UNCHANGED <<src, syntax, comments, phase, indent, out, reopened>> /\ phase = "idle"
    BY <1>15 DEF LineCommentsOff, LineCommentsRestored
  <2>2. st'.indents = st.indents
    BY <1>1, <1>15 DEF LineCommentsOff, LineCommentsRestored, TypeOK
  <2>3. QED  BY <1>1, <1>5, <1>6, <2>1, <2>2 DEF NothingOverwritten, Flow
<1>16. CASE UNCHANGED vars  BY <1>16 DEF vars, NothingOverwritten, DedentPerLevel, CountKind
<1>17. QED
  BY <1>7, <1>8, <1>9, <1>10, <1>11, <1>12, <1>13, <1>14, <1>15, <1>16 DEF Next, Bump, Reader

LEMMA DedentPerLevelInit == Init => NothingOverwritten /\ DedentPerLevel
<1> SUFFICES ASSUME Init PROVE NothingOverwritten /\ DedentPerLevel
  OBVIOUS
<1>1. NothingOverwritten  BY DEF Init, NothingOverwritten
<1>2. out = <<>> /\ indent = <<>> /\ reopened = 0 /\ (syntax = "Sass" => st.indents = <<0>>)
  BY DEF Init
<1>3. \A kind : {i \in 1..Len(<<>>) : <<>>[i].kind = kind} = {}  OBVIOUS
<1>4. out \o indent = <<>>  BY <1>2
<1>5. \A kind : CountKind(kind) = 0  BY <1>3, <1>4, FS_EmptySet DEF CountKind
<1>6. Len(<<0>>) = 1  OBVIOUS
<1>7. CountKind("Indent") = 0 /\ CountKind("Dedent") = 0  BY <1>5
<1>8. syntax = "Sass" => Len(st.indents) = 1  BY <1>2, <1>6
<1>9. reopened = 0  BY <1>2
<1>10. Len(st.indents) = 1 => Len(st.indents) = 1 + 0 - 0 + 0  OBVIOUS
<1>11. syntax = "Sass" => Len(st.indents) = 1 + CountKind("Indent") - CountKind("Dedent") + reopened
  BY <1>7, <1>8, <1>9, <1>10
<1>12. DedentPerLevel  BY <1>11 DEF DedentPerLevel
<1>13. QED  BY <1>1, <1>12

\* The levels on the stack are the Indents returned or reopened minus the Dedents
\* returned, for every source without comments and whatever the widths of its
\* lines and their wrapping to u16.
THEOREM LevelsAreIndentsLessDedents == Spec => []DedentPerLevel
<1>1. Spec => [](NothingOverwritten /\ DedentPerLevel)
  BY DedentPerLevelInit, DedentPerLevelStep, CoreInv, PTL DEF Spec
<1>2. QED  BY <1>1, PTL

----------------------------------------------------------------------------
(***************************************************************************)
(* The depths are the nesting.                                              *)
(***************************************************************************)
Hole == {"hash", "str", "url"}

GroupsOf(s) == {i \in 1..Len(s) : s[i] = "paren" \/ syntax = "Sass"}

InHoleOf(s) ==
    {i \in 1..Len(s) : s[i] # "paren" /\ \E k \in {j \in 1..Len(s) : s[j] \in Hole} : k <= i}

GroupDepth(s) == Cardinality(GroupsOf(s))
HoleDepth(s)  == Cardinality(InHoleOf(s))

\* A brace counts when it opens a hole or stands in one.
InHole(g, depth) == g # "paren" /\ (g \in Hole \/ depth > 0)

\* One group more: r is s with the group g on top.
LEMMA OneGroupMore ==
    ASSUME NEW s \in Seq(Nest), NEW r \in Seq(Nest), Len(r) = Len(s) + 1,
           \A i \in 1..Len(s) : r[i] = s[i],
           NEW g \in Nest, g = r[Len(s) + 1]
    PROVE  /\ GroupDepth(s) \in Nat /\ HoleDepth(s) \in Nat
           /\ GroupDepth(r) = GroupDepth(s) + IF g = "paren" \/ syntax = "Sass" THEN 1 ELSE 0
           /\ HoleDepth(r) = HoleDepth(s) + IF InHole(g, HoleDepth(s)) THEN 1 ELSE 0
<1> DEFINE n == Len(s)
<1>1. n \in Nat /\ GroupsOf(s) \in SUBSET (1..n) /\ InHoleOf(s) \in SUBSET (1..n)
  BY LenProperties DEF GroupsOf, InHoleOf
<1>2. /\ GroupDepth(s) \in Nat /\ HoleDepth(s) \in Nat
      /\ Cardinality(GroupsOf(s) \cup {n + 1}) = GroupDepth(s) + 1
      /\ Cardinality(InHoleOf(s) \cup {n + 1}) = HoleDepth(s) + 1
      /\ HoleDepth(s) = 0 <=> InHoleOf(s) = {}
  BY <1>1, IndexAdded DEF GroupDepth, HoleDepth
<1>3. \A i : i \in 1..(n + 1) <=> (i \in 1..n \/ i = n + 1)  BY <1>1
<1>4. GroupsOf(r) = IF g = "paren" \/ syntax = "Sass" THEN GroupsOf(s) \cup {n + 1} ELSE GroupsOf(s)
  <2>1. CASE g = "paren" \/ syntax = "Sass"  BY <1>3, <2>1 DEF GroupsOf
  <2>2. CASE ~(g = "paren" \/ syntax = "Sass")  BY <1>3, <2>2 DEF GroupsOf
  <2>3. QED  BY <2>1, <2>2
<1>5. InHoleOf(s) # {} <=> \E k \in 1..n : s[k] \in Hole
  <2>1. ASSUME NEW k \in 1..n, s[k] \in Hole PROVE k \in InHoleOf(s)
    <3>1. s[k] # "paren" /\ k <= k  BY <1>1, <2>1 DEF Hole
    <3>2. QED  BY <2>1, <3>1 DEF InHoleOf
  <2>2. QED  BY <2>1 DEF InHoleOf
<1>6. \A i \in 1..n : i \in InHoleOf(r) <=> i \in InHoleOf(s)
  <2> TAKE i \in 1..n
  <2>1. i \in 1..(n + 1) /\ r[i] = s[i] /\ ~(n + 1 <= i)  BY <1>1
  <2>2. \A k \in 1..(n + 1) : k <= i => k \in 1..n /\ r[k] = s[k]  BY <1>1, <1>3, <2>1
  <2>3. \A k \in 1..n : k \in 1..(n + 1) /\ r[k] = s[k]  BY <1>3
  <2>4. QED  BY <2>1, <2>2, <2>3 DEF InHoleOf
<1>7. n + 1 \in InHoleOf(r) <=> InHole(g, HoleDepth(s))
  <2>1. n + 1 \in 1..(n + 1) /\ \A k \in 1..(n + 1) : k <= n + 1  BY <1>1
  <2>2. n + 1 \in InHoleOf(r) <=> r[n + 1] # "paren" /\ \E k \in 1..(n + 1) : r[k] \in Hole
    BY <2>1 DEF InHoleOf
  <2>3. (\E k \in 1..(n + 1) : r[k] \in Hole) <=> (g \in Hole \/ \E k \in 1..n : s[k] \in Hole)
    BY <1>3
  <2>4. HoleDepth(s) > 0 <=> InHoleOf(s) # {}  BY <1>2
  <2>5. QED  BY <1>5, <2>2, <2>3, <2>4 DEF InHole
<1>8. InHoleOf(r) \subseteq 1..(n + 1)  BY DEF InHoleOf
<1>9. InHoleOf(r) = IF InHole(g, HoleDepth(s)) THEN InHoleOf(s) \cup {n + 1} ELSE InHoleOf(s)
  <2> HIDE DEF n
  <2>1. \A i : i \in InHoleOf(r) <=> (i \in InHoleOf(s) \/ (i = n + 1 /\ InHole(g, HoleDepth(s))))
    BY <1>1, <1>3, <1>6, <1>7, <1>8
  <2>2. CASE InHole(g, HoleDepth(s))  BY <2>1, <2>2
  <2>3. CASE ~InHole(g, HoleDepth(s))  BY <2>1, <2>3
  <2>4. QED  BY <2>2, <2>3
<1>10. GroupDepth(r) = GroupDepth(s) + IF g = "paren" \/ syntax = "Sass" THEN 1 ELSE 0
  BY <1>2, <1>4 DEF GroupDepth
<1>11. HoleDepth(r) = HoleDepth(s) + IF InHole(g, HoleDepth(s)) THEN 1 ELSE 0
  BY <1>2, <1>9 DEF HoleDepth
<1>12. QED  BY <1>2, <1>10, <1>11

LEMMA NoGroups == GroupDepth(<<>>) = 0 /\ HoleDepth(<<>>) = 0
<1>1. GroupsOf(<<>>) = {} /\ InHoleOf(<<>>) = {}  BY DEF GroupsOf, InHoleOf
<1>2. QED  BY <1>1, FS_EmptySet DEF GroupDepth, HoleDepth

LEMMA DepthsExactIs ==
    /\ DepthsExact <=> (phase # "failed" =>
         /\ st.parenDepth = GroupDepth(nest)
         /\ syntax \in {"Scss", "Sass"} => st.interpDepth = HoleDepth(nest))
    /\ syntax' = syntax =>
         (DepthsExact' <=> (phase' # "failed" =>
            /\ st'.parenDepth = GroupDepth(nest')
            /\ syntax \in {"Scss", "Sass"} => st'.interpDepth = HoleDepth(nest')))
<1>1. Groups = GroupsOf(nest) /\ InInterpolation = InHoleOf(nest)
  BY DEF Groups, GroupsOf, InInterpolation, Interpolations, InHoleOf, Hole
<1>2. syntax' = syntax => Groups' = GroupsOf(nest') /\ InInterpolation' = InHoleOf(nest')
  BY DEF Groups, GroupsOf, InInterpolation, Interpolations, InHoleOf, Hole
<1>3. QED  BY <1>1, <1>2 DEF DepthsExact, GroupDepth, HoleDepth

LEMMA ReadDepths ==
    ASSUME Core, FlagIsHole, DepthsExact, Reader, NEW t \in Token, Read(t)
    PROVE  DepthsExact'
<1>1. TypeOK /\ Records /\ Flow /\ ReadAt(t)  BY DEF Core, Read
<1>2. syntax' = syntax /\ syntax \in Syntax /\ phase # "failed"  BY <1>1, ReaderFrom DEF Read, TypeOK
<1>3. /\ st.parenDepth = GroupDepth(nest)
      /\ syntax \in {"Scss", "Sass"} => st.interpDepth = HoleDepth(nest)
  BY <1>2, DepthsExactIs
<1>4. SUFFICES /\ st'.parenDepth = GroupDepth(nest')
               /\ syntax \in {"Scss", "Sass"} => st'.interpDepth = HoleDepth(nest')
  BY <1>2, DepthsExactIs
<1>5. nest \in Seq(Nest) /\ Group(t) \in Nest  BY ReadNest
<1>6. t.next \in 0..Len(src) /\ Brace = IF syntax = "Sass" THEN 1 ELSE 0  BY ReadMoves DEF Brace
<1>7. CASE DispatchRead(t)
  <2>1. st'.parenDepth = ParenAfter(t) /\ st'.interpDepth = InterpAfter(t) /\ Follow(t)
    BY <1>1, <1>6, <1>7, DepthsAre DEF DispatchRead
  <2>2. CASE Opens(t)
    <3>1. nest' = Append(nest, Group(t)) /\ t.kind \in {"LParen", "LBrace", "HashLBrace"}
      BY <2>1, <2>2 DEF Follow, Opens
    <3>2. /\ nest' \in Seq(Nest) /\ Len(nest') = Len(nest) + 1
          /\ \A i \in 1..Len(nest) : nest'[i] = nest[i]
          /\ nest'[Len(nest) + 1] = Group(t)
      BY <1>5, <3>1, PushProperties
    <3>3. /\ GroupDepth(nest) \in Nat /\ HoleDepth(nest) \in Nat
          /\ GroupDepth(nest') = GroupDepth(nest) + IF Group(t) = "paren" \/ syntax = "Sass" THEN 1 ELSE 0
          /\ HoleDepth(nest') = HoleDepth(nest) + IF InHole(Group(t), HoleDepth(nest)) THEN 1 ELSE 0
      BY <1>5, <3>2, OneGroupMore
    <3>4. CASE t.kind = "LParen"
      <4>1. Group(t) = "paren"  BY <3>4 DEF Group
      <4>2. st'.parenDepth = st.parenDepth + 1 /\ st'.interpDepth = st.interpDepth
        BY <2>1, <3>4 DEF ParenAfter, InterpAfter
      <4>3. ~InHole(Group(t), HoleDepth(nest))  BY <4>1 DEF InHole
      <4>4. QED  BY <1>3, <3>3, <4>1, <4>2, <4>3
    <3>5. CASE t.kind = "HashLBrace"
      <4>1. Group(t) = "hash"  BY <3>5 DEF Group
      <4>2. st'.parenDepth = st.parenDepth + Brace /\ st'.interpDepth = st.interpDepth + 1
        BY <2>1, <3>5 DEF ParenAfter, InterpAfter
      <4>3. InHole(Group(t), HoleDepth(nest))  BY <4>1 DEF InHole, Hole
      <4>4. QED  BY <1>3, <1>6, <3>3, <4>1, <4>2, <4>3
    <3>6. CASE t.kind = "LBrace"
      <4>1. Group(t) \in {"str", "url"} <=> HoleDue  BY <3>6 DEF Group, HoleDue
      <4>2. Group(t) \in {"str", "url", "brace"}  BY <3>6 DEF Group
      <4>3. syntax \in {"Scss", "Sass"} => (Group(t) \in Hole <=> st.openerPending)
        BY <1>2, <4>1, <4>2 DEF FlagIsHole, Hole
      <4>4. Group(t) # "paren"  BY <4>2
      <4>5. st'.parenDepth = st.parenDepth + Brace  BY <2>1, <3>6 DEF ParenAfter
      <4>6. st'.interpDepth = IF st.openerPending \/ st.interpDepth > 0
                              THEN st.interpDepth + 1 ELSE st.interpDepth
        BY <2>1, <3>6 DEF InterpAfter
      <4>7. syntax \in {"Scss", "Sass"} =>
              (InHole(Group(t), HoleDepth(nest)) <=> (st.openerPending \/ st.interpDepth > 0))
        BY <1>3, <4>3, <4>4 DEF InHole
      <4>8. st'.parenDepth = GroupDepth(nest')  BY <1>3, <1>6, <3>3, <4>4, <4>5
      <4>9. syntax \in {"Scss", "Sass"} => st'.interpDepth = HoleDepth(nest')
        BY <1>3, <3>3, <4>6, <4>7
      <4>10. QED  BY <4>8, <4>9
    <3>7. QED  BY <3>1, <3>4, <3>5, <3>6
  <2>3. CASE ~Opens(t) /\ Closes(t) /\ nest = <<>>
    <3>1. nest' = <<>> /\ t.kind \in {"RParen", "RBrace"}  BY <2>1, <2>3 DEF Follow, Closes
    <3>2. st.parenDepth = 0 /\ (syntax \in {"Scss", "Sass"} => st.interpDepth = 0)
      BY <1>3, <2>3, NoGroups
    <3>3. st'.parenDepth = 0  BY <2>1, <3>1, <3>2 DEF ParenAfter, Decrement
    <3>4. syntax \in {"Scss", "Sass"} => st'.interpDepth = 0
      BY <2>1, <3>1, <3>2 DEF InterpAfter, Decrement
    <3>5. QED  BY <3>1, <3>3, <3>4, NoGroups
  <2>4. CASE ~Opens(t) /\ Closes(t) /\ nest # <<>>
    <3>1. /\ nest' = Front(nest) /\ t.kind \in {"RParen", "RBrace"}
          /\ (t.kind = "RParen") = (Last(nest) = "paren")
      BY <1>7, <2>1, <2>4 DEF Follow, Closes, Pop, DispatchRead, Matches
    <3>2. /\ nest' \in Seq(Nest) /\ Len(nest) = Len(nest') + 1
          /\ \A i \in 1..Len(nest') : nest[i] = nest'[i]
          /\ nest[Len(nest') + 1] = Last(nest) /\ Last(nest) \in Nest
      BY <1>5, <2>4, <3>1, PopProperties
    <3>3. /\ GroupDepth(nest') \in Nat /\ HoleDepth(nest') \in Nat
          /\ GroupDepth(nest) = GroupDepth(nest')
                                + IF Last(nest) = "paren" \/ syntax = "Sass" THEN 1 ELSE 0
          /\ HoleDepth(nest) = HoleDepth(nest')
                                + IF InHole(Last(nest), HoleDepth(nest')) THEN 1 ELSE 0
      BY <1>5, <3>2, OneGroupMore
    <3>4. CASE t.kind = "RParen"
      <4>1. Last(nest) = "paren"  BY <3>1, <3>4
      <4>2. st'.parenDepth = Decrement(st.parenDepth) /\ st'.interpDepth = st.interpDepth
        BY <2>1, <3>4 DEF ParenAfter, InterpAfter
      <4>3. ~InHole(Last(nest), HoleDepth(nest'))  BY <4>1 DEF InHole
      <4>4. QED  BY <1>3, <3>3, <4>1, <4>2, <4>3 DEF Decrement
    <3>5. CASE t.kind = "RBrace"
      <4>1. Last(nest) # "paren"  BY <3>1, <3>5
      <4>2. st'.parenDepth = IF syntax = "Sass" THEN Decrement(st.parenDepth) ELSE st.parenDepth
        BY <1>6, <2>1, <3>5 DEF ParenAfter
      <4>3. st'.interpDepth = Decrement(st.interpDepth)  BY <2>1, <3>5 DEF InterpAfter
      <4>4. InHole(Last(nest), HoleDepth(nest')) \/ HoleDepth(nest') = 0
        BY <3>3, <4>1 DEF InHole
      <4>5. st'.parenDepth = GroupDepth(nest')  BY <1>3, <3>3, <4>1, <4>2 DEF Decrement
      <4>6. syntax \in {"Scss", "Sass"} => st'.interpDepth = HoleDepth(nest')
        BY <1>3, <3>3, <4>3, <4>4 DEF Decrement
      <4>7. QED  BY <4>5, <4>6
    <3>6. QED  BY <3>1, <3>4, <3>5
  <2>5. CASE ~Opens(t) /\ ~Closes(t)
    <3>1. nest' = nest  BY <2>1, <2>5 DEF Follow
    <3>2. st'.parenDepth = st.parenDepth /\ st'.interpDepth = st.interpDepth
      BY <2>1, <2>5 DEF ParenAfter, InterpAfter, Opens, Closes
    <3>3. QED  BY <1>3, <3>1, <3>2
  <2>6. QED  BY <2>2, <2>3, <2>4, <2>5
<1>8. CASE UrlRead(t)
  <2>1. nest # <<>> /\ Last(nest) = "paren"  BY <1>8 DEF UrlRead
  <2>2. CASE t.kind = "UrlTemplate"
    <3>1. nest' = nest /\ st' = [st EXCEPT !.pos = t.next, !.openerPending = TRUE]
      BY <1>8, <2>2 DEF UrlRead
    <3>2. st'.parenDepth = st.parenDepth /\ st'.interpDepth = st.interpDepth
      BY <1>1, <1>6, <3>1, UrlDepthsAre
    <3>3. QED  BY <1>3, <3>1, <3>2
  <2>3. CASE t.kind # "UrlTemplate"
    <3>1. nest' = Front(nest) /\ st' = CloseUrl(t)  BY <1>8, <2>3 DEF UrlRead
    <3>2. st'.parenDepth = Decrement(st.parenDepth) /\ st'.interpDepth = st.interpDepth
      BY <1>1, <1>6, <3>1, UrlDepthsAre DEF CloseUrl
    <3>3. /\ nest' \in Seq(Nest) /\ Len(nest) = Len(nest') + 1
          /\ \A i \in 1..Len(nest') : nest[i] = nest'[i]
          /\ nest[Len(nest') + 1] = "paren" /\ "paren" \in Nest
      BY <1>5, <2>1, <3>1, PopProperties
    <3>4. ~InHole("paren", HoleDepth(nest'))  BY DEF InHole
    <3>5. /\ GroupDepth(nest') \in Nat /\ HoleDepth(nest') \in Nat
          /\ GroupDepth(nest) = GroupDepth(nest') + 1 /\ HoleDepth(nest) = HoleDepth(nest')
      BY <1>5, <3>3, <3>4, OneGroupMore
    <3>6. QED  BY <1>3, <3>2, <3>5 DEF Decrement
  <2>4. QED  BY <2>2, <2>3
<1>9. QED  BY <1>7, <1>8 DEF Read

LEMMA DepthsExactStep == Core /\ FlagIsHole /\ DepthsExact /\ [Next]_vars => DepthsExact'
<1> SUFFICES ASSUME Core, FlagIsHole, DepthsExact, [Next]_vars PROVE DepthsExact'
  OBVIOUS
<1>1. TypeOK /\ Records /\ Flow /\ IndentStack  BY DEF Core
<1>2. (/\ st'.parenDepth = st.parenDepth /\ st'.interpDepth = st.interpDepth
       /\ UNCHANGED <<syntax, nest>> /\ phase # "failed") => DepthsExact'
  BY DepthsExactIs
<1>3. CASE Reader
  <2>1. CASE Rejected
    <3>1. phase' = "failed"  BY <2>1 DEF Rejected
    <3>2. QED  BY <3>1 DEF DepthsExact
  <2>2. QED  BY <1>3, <2>1, ReaderReads, ReadDepths
<1>4. CASE BumpPendingDedent  BY <1>2, <1>4, PendingDedentMoves
<1>5. CASE BumpStart \/ BumpLayout
  BY <1>2, <1>5 DEF BumpStart, BumpLayout, Skipped
<1>6. CASE ScanIndent
  <2>1. phase = "skip" /\ UNCHANGED <<syntax, nest>>  BY <1>6, ScanIndentCases
  <2>2. PICK c \in WsEnd(src, st.pos) :
           \/ IndentAtEof(c) \/ IndentNone(c)
           \/ \E b \in LineStarts(src, st.pos, c) : IndentLine(c, b)
    BY <1>6, ScanIndentCases
  <2>3. st'.parenDepth = st.parenDepth /\ st'.interpDepth = st.interpDepth
    BY <1>1, <2>2 DEF IndentAtEof, IndentNone, IndentLine, TypeOK
  <2>4. QED  BY <1>2, <2>1, <2>3
<1>7. CASE ScanBlockComment \/ ScanLineComment
  <2>1. st'.parenDepth = st.parenDepth /\ st'.interpDepth = st.interpDepth
    BY <1>1, <1>7, CommentRead
  <2>2. QED  BY <1>2, <1>7, <2>1 DEF ScanBlockComment, ScanLineComment
<1>8. CASE SkipWs \/ ReopenIndentLevel \/ LineCommentsOff \/ LineCommentsRestored
  <2>1. st'.parenDepth = st.parenDepth /\ st'.interpDepth = st.interpDepth
    BY <1>1, <1>8 DEF SkipWs, ReopenIndentLevel, LineCommentsOff, LineCommentsRestored, TypeOK
  <2>2. UNCHANGED <<syntax, nest>> /\ phase # "failed"
    BY <1>8 DEF SkipWs, ReopenIndentLevel, LineCommentsOff, LineCommentsRestored
  <2>3. QED  BY <1>2, <2>1, <2>2
<1>9. CASE UNCHANGED vars
  <2>1. UNCHANGED <<syntax, nest, st, phase>>  BY <1>9 DEF vars
  <2>2. QED  BY <2>1, DepthsExactIs
<1>10. QED
  BY <1>3, <1>4, <1>5, <1>6, <1>7, <1>8, <1>9 DEF Next, Bump, Reader

LEMMA DepthsExactInit == Init => DepthsExact
<1> SUFFICES ASSUME Init PROVE DepthsExact
  OBVIOUS
<1>1. nest = <<>> /\ st.parenDepth = 0 /\ st.interpDepth = 0  BY DEF Init
<1>2. QED  BY <1>1, NoGroups, DepthsExactIs

\* The saturating counters are the real nesting, for every source: paren_depth
\* counts the open groups and sass_interpolation_depth the braces from the
\* outermost interpolation on, strings' and urls' holes included.
THEOREM DepthsAreNesting == Spec => []DepthsExact
  BY DepthsExactInit, DepthsExactStep, CoreInv, FlagInv, PTL DEF Spec

----------------------------------------------------------------------------
(***************************************************************************)
(* Every byte is read once.                                                 *)
(***************************************************************************)
Ends(s, e) == \A k \in 1..Len(s) : s[k].start <= s[k].end /\ s[k].end <= e

Ordered(s) == \A i \in 1..(Len(s) - 1) : s[i].start <= s[i].end /\ s[i].end <= s[i + 1].start

ReadersIn(s, i) == Cardinality({k \in 1..Len(s) : Covers(s[k], i)})

\* What ReadOnce says of one byte.
Good(i) ==
    \/ Readers(i) = 1
    \/ At(src, i) \in Ws /\ Readers(i) = 0
    \/ At(src, i) \in {"hash", "at"} /\ At(src, i + 1) = "lbrace" /\ Readers(i) = 0
    \/ At(src, i) = "close" /\ Readers(i) = 0
         /\ \E k \in 1..Len(out) : out[k].kind \in {"UrlRaw", "UrlTail"} /\ out[k].next = i + 1

Accounted ==
    /\ Frontier <= st.pos /\ Ends(out, Frontier) /\ Ends(comments, st.pos)
    /\ LayoutUnread
    /\ Ordered(out)
    /\ phase # "failed" => \A i \in 0..(st.pos - 1) : Good(i)

LEMMA OneReaderMore ==
    ASSUME NEW s \in Seq(Token), NEW t \in Token, NEW i \in Nat
    PROVE  /\ ReadersIn(s, i) \in Nat
           /\ ReadersIn(Append(s, t), i) = ReadersIn(s, i) + IF Covers(t, i) THEN 1 ELSE 0
<1> DEFINE I == {k \in 1..Len(s) : Covers(s[k], i)}
           J == {k \in 1..Len(Append(s, t)) : Covers(Append(s, t)[k], i)}
<1>1. Len(s) \in Nat /\ I \in SUBSET (1..Len(s))  BY LenProperties
<1>2. /\ Len(Append(s, t)) = Len(s) + 1
      /\ \A k \in 1..Len(s) : Append(s, t)[k] = s[k]
      /\ Append(s, t)[Len(s) + 1] = t
  BY PushProperties
<1>3. \A k : k \in 1..(Len(s) + 1) <=> (k \in 1..Len(s) \/ k = Len(s) + 1)  BY <1>1
<1>4. Cardinality(I) \in Nat /\ Cardinality(I \cup {Len(s) + 1}) = Cardinality(I) + 1
  BY <1>1, IndexAdded
<1>5. ReadersIn(s, i) = Cardinality(I) /\ ReadersIn(Append(s, t), i) = Cardinality(J)
  BY DEF ReadersIn
<1>6. CASE Covers(t, i)
  <2>1. J = I \cup {Len(s) + 1}  BY <1>2, <1>3, <1>6
  <2> HIDE DEF I, J
  <2>2. QED  BY <1>4, <1>5, <1>6, <2>1
<1>7. CASE ~Covers(t, i)
  <2>1. J = I  BY <1>2, <1>3, <1>7
  <2> HIDE DEF I, J
  <2>2. QED  BY <1>4, <1>5, <1>7, <2>1
<1>8. QED  BY <1>6, <1>7

LEMMA NoReaderYet ==
    ASSUME NEW s \in Seq(Token), NEW e \in Nat, Ends(s, e), NEW i \in Nat, e <= i
    PROVE  ReadersIn(s, i) = 0
<1>1. ASSUME NEW k \in 1..Len(s) PROVE ~Covers(s[k], i)
  <2>1. s[k] \in Token  BY ElementOfSeq
  <2>2. s[k].end <= e /\ s[k].end \in Nat  BY <2>1 DEF Ends, Token
  <2>3. QED  BY <2>2 DEF Covers
<1>2. {k \in 1..Len(s) : Covers(s[k], i)} = {}  BY <1>1
<1>3. QED  BY <1>2, FS_EmptySet DEF ReadersIn

LEMMA EndsLater ==
    ASSUME NEW s \in Seq(Token), NEW e \in Nat, NEW f \in Nat, Ends(s, e), e <= f
    PROVE  Ends(s, f)
<1>1. ASSUME NEW k \in 1..Len(s) PROVE s[k].start <= s[k].end /\ s[k].end <= f
  <2>1. s[k] \in Token  BY ElementOfSeq
  <2>2. s[k].start <= s[k].end /\ s[k].end <= e /\ s[k].end \in Nat  BY <2>1 DEF Ends, Token
  <2>3. QED  BY <2>2
<1>2. QED  BY <1>1 DEF Ends

LEMMA EndsPush ==
    ASSUME NEW s \in Seq(Token), NEW t \in Token, NEW e \in Nat, NEW f \in Nat,
           Ends(s, e), e <= f, t.start <= t.end, t.end <= f
    PROVE  Ends(Append(s, t), f)
<1>1. /\ Len(Append(s, t)) = Len(s) + 1 /\ Len(s) \in Nat
      /\ \A k \in 1..Len(s) : Append(s, t)[k] = s[k]
      /\ Append(s, t)[Len(s) + 1] = t
  BY PushProperties, LenProperties
<1>2. \A k : k \in 1..(Len(s) + 1) <=> (k \in 1..Len(s) \/ k = Len(s) + 1)  BY <1>1
<1>3. Ends(s, f)  BY EndsLater
<1>4. QED  BY <1>1, <1>2, <1>3 DEF Ends

LEMMA OrderedPush ==
    ASSUME NEW s \in Seq(Token), NEW t \in Token, NEW e \in Nat,
           Ordered(s), Ends(s, e), e <= t.start
    PROVE  Ordered(Append(s, t))
<1>1. /\ Len(Append(s, t)) = Len(s) + 1 /\ Len(s) \in Nat
      /\ \A k \in 1..Len(s) : Append(s, t)[k] = s[k]
      /\ Append(s, t)[Len(s) + 1] = t
  BY PushProperties, LenProperties
<1> DEFINE r == Append(s, t)
<1> HIDE DEF r
<1>2. ASSUME NEW i \in 1..(Len(r) - 1)
      PROVE  r[i].start <= r[i].end /\ r[i].end <= r[i + 1].start
  <2>1. i \in 1..Len(s) /\ r[i] = s[i]  BY <1>1 DEF r
  <2>2. CASE i = Len(s)
    <3>1. s[i] \in Token  BY <2>1, ElementOfSeq
    <3>2. s[i].start <= s[i].end /\ s[i].end <= e /\ s[i].end \in Nat /\ t.start \in Nat
      BY <2>1, <3>1 DEF Ends, Token
    <3>3. r[i + 1] = t  BY <1>1, <2>2 DEF r
    <3>4. QED  BY <2>1, <3>2, <3>3
  <2>3. CASE i # Len(s)
    <3>1. i \in 1..(Len(s) - 1) /\ i + 1 \in 1..Len(s)  BY <1>1, <2>1, <2>3
    <3>2. r[i + 1] = s[i + 1]  BY <1>1, <3>1 DEF r
    <3>3. QED  BY <2>1, <3>1, <3>2 DEF Ordered
  <2>4. QED  BY <2>2, <2>3
<1>3. QED  BY <1>2 DEF Ordered, r

\* The bytes ahead of the cursor have no reader.
LEMMA AheadUnread ==
    ASSUME Core, Accounted, NEW i \in Nat, st.pos <= i
    PROVE  /\ ReadersIn(out, i) = 0 /\ ReadersIn(comments, i) = 0 /\ Readers(i) = 0
           /\ Frontier \in Nat
<1>1. TypeOK /\ out \in Seq(Token) /\ comments \in Seq(Token) /\ st.pos \in Nat
  BY Cursor DEF Core, Records
<1>2. Frontier \in Nat /\ Frontier <= st.pos
  BY <1>1 DEF Accounted, Frontier, Core, Records, Token
<1>3. Ends(out, st.pos) /\ Ends(comments, st.pos)  BY <1>1, <1>2, EndsLater DEF Accounted
<1>4. ReadersIn(out, i) = 0 /\ ReadersIn(comments, i) = 0  BY <1>1, <1>3, NoReaderYet
<1>5. QED  BY <1>2, <1>4 DEF Readers, ReadersIn

\* A token that is returned is one reader more of the bytes it covers.
LEMMA ReadersReturned ==
    ASSUME Core, NEW t \in Token, out' = Append(out, t), comments' = comments
    PROVE  \A i \in Nat : /\ Readers(i) \in Nat
                          /\ Readers(i)' = Readers(i) + IF Covers(t, i) THEN 1 ELSE 0
<1>1. out \in Seq(Token) /\ comments \in Seq(Token)  BY DEF Core, Records
<1>2. TAKE i \in Nat
<1>3. ReadersIn(out, i) \in Nat /\ ReadersIn(comments, i) \in Nat
      /\ ReadersIn(Append(out, t), i) = ReadersIn(out, i) + IF Covers(t, i) THEN 1 ELSE 0
  BY <1>1, OneReaderMore
<1>4. Readers(i) = ReadersIn(out, i) + ReadersIn(comments, i)  BY DEF Readers, ReadersIn
<1>5. Readers(i)' = ReadersIn(Append(out, t), i) + ReadersIn(comments, i)
  BY DEF Readers, ReadersIn, Covers
<1>6. QED  BY <1>3, <1>4, <1>5

LEMMA ReadersCommented ==
    ASSUME Core, NEW t \in Token, comments' = Append(comments, t), out' = out
    PROVE  \A i \in Nat : /\ Readers(i) \in Nat
                          /\ Readers(i)' = Readers(i) + IF Covers(t, i) THEN 1 ELSE 0
<1>1. out \in Seq(Token) /\ comments \in Seq(Token)  BY DEF Core, Records
<1>2. TAKE i \in Nat
<1>3. ReadersIn(out, i) \in Nat /\ ReadersIn(comments, i) \in Nat
      /\ ReadersIn(Append(comments, t), i) = ReadersIn(comments, i) + IF Covers(t, i) THEN 1 ELSE 0
  BY <1>1, OneReaderMore
<1>4. Readers(i) = ReadersIn(out, i) + ReadersIn(comments, i)  BY DEF Readers, ReadersIn
<1>5. Readers(i)' = ReadersIn(out, i) + ReadersIn(Append(comments, t), i)
  BY DEF Readers, ReadersIn, Covers
<1>6. QED  BY <1>3, <1>4, <1>5

\* A byte that keeps its readers stays good when tokens are added.
LEMMA GoodKept ==
    ASSUME Core, NEW i \in Nat, Good(i), src' = src, Readers(i)' = Readers(i),
           out' = out \/ \E t \in Token : out' = Append(out, t)
    PROVE  Good(i)'
<1>1. out \in Seq(Token) /\ Len(out) \in Nat  BY LenProperties DEF Core, Records
<1>2. \A k \in 1..Len(out) : k \in 1..Len(out') /\ out'[k] = out[k]
  <2>1. CASE out' = out  BY <2>1
  <2>2. CASE \E t \in Token : out' = Append(out, t)
    <3>1. PICK t \in Token : out' = Append(out, t)  BY <2>2
    <3>2. /\ Len(out') = Len(out) + 1 /\ \A k \in 1..Len(out) : out'[k] = out[k]
      BY <1>1, <3>1, PushProperties
    <3>3. QED  BY <1>1, <3>2
  <2>3. QED  BY <2>1, <2>2
<1>3. QED  BY <1>2 DEF Good

LEMMA ReadAccounted ==
    ASSUME Core, Accounted, Reader, NEW t \in Token, Read(t)
    PROVE  Accounted'
<1>1. TypeOK /\ Records /\ Flow /\ ReadAt(t) /\ out \in Seq(Token) /\ comments \in Seq(Token)
  BY DEF Core, Read, Records
<1>2. /\ src \in Seq(ByteClass) /\ Len(src) \in Nat /\ st.pos \in Nat
      /\ indent = <<>> /\ phase # "failed"
  BY <1>1, Cursor, ReaderFrom
<1>3. UNCHANGED <<src, comments, indent>> /\ indent' = <<>> /\ phase' = "idle"  BY <1>2 DEF Read
<1>4. /\ st'.pos = t.next /\ st.pos <= t.start /\ t.start <= t.end /\ t.end <= t.next
      /\ t.start \in Nat /\ t.end \in Nat /\ t.next \in Nat /\ t.next <= Len(src)
  <2>1. t.next \in 0..Len(src) /\ Moved(st', t.next)
        /\ st.pos <= t.start /\ t.start <= t.end /\ t.end <= t.next
    BY ReadMoves
  <2>2. QED  BY <1>2, <2>1 DEF Moved, Token
<1>5. out' = Append(out, t) \/ (t.kind = "Eof" /\ out' = out)  BY <1>1, EmitAppends DEF Read
<1>6. t.kind = "Eof" => t.start = t.end
  BY <1>1, <1>2, <1>4 DEF ReadAt
<1>7. Frontier = st.pos /\ Frontier' = t.next  BY <1>2, <1>3, <1>4 DEF Frontier
<1>8. Ends(out, st.pos) /\ Ends(comments, st.pos) /\ Ordered(out)  BY <1>7 DEF Accounted
<1>9. \A i \in Nat : Readers(i) \in Nat /\ Readers(i)' = Readers(i) + IF Covers(t, i) THEN 1 ELSE 0
  <2>1. CASE out' = Append(out, t)  BY <1>3, <2>1, ReadersReturned
  <2>2. CASE t.kind = "Eof" /\ out' = out
    <3>1. \A i \in Nat : ~Covers(t, i)  BY <1>4, <1>6, <2>2 DEF Covers
    <3>2. \A i \in Nat : Readers(i) \in Nat
      <4>1. \A i \in Nat : ReadersIn(out, i) \in Nat /\ ReadersIn(comments, i) \in Nat
        BY <1>1, OneReaderMore
      <4>2. QED  BY <4>1 DEF Readers, ReadersIn
    <3>3. \A i \in Nat : Readers(i)' = Readers(i)  BY <1>3, <2>2 DEF Readers, Covers
    <3>4. QED  BY <3>1, <3>2, <3>3
  <2>3. QED  BY <1>5, <2>1, <2>2
<1>10. Ends(out', t.next) /\ Ordered(out')
  <2>1. CASE out' = Append(out, t)
    BY <1>1, <1>2, <1>4, <1>8, <2>1, EndsPush, OrderedPush
  <2>2. CASE out' = out  BY <1>1, <1>2, <1>4, <1>8, <2>2, EndsLater
  <2>3. QED  BY <1>5, <2>1, <2>2
<1>11. Ends(comments', t.next)  BY <1>1, <1>2, <1>3, <1>4, <1>8, EndsLater
<1>12. ASSUME NEW i \in 0..(t.next - 1) PROVE Good(i)'
  <2>1. i \in Nat  BY <1>4
  <2>2. CASE i < st.pos
    <3>1. Good(i)  BY <1>2, <2>1, <2>2 DEF Accounted
    <3>2. ~Covers(t, i)  BY <1>2, <1>4, <2>1, <2>2 DEF Covers
    <3>3. Readers(i)' = Readers(i)  BY <1>9, <2>1, <3>2
    <3>4. QED  BY <1>3, <1>5, <2>1, <3>1, <3>3, GoodKept
  <2>3. CASE st.pos <= i
    <3>1. Readers(i) = 0  BY <2>1, <2>3, AheadUnread
    <3>2. CASE i < t.start
      <4>1. ~Covers(t, i) /\ At(src, i) \in Ws
        BY <1>1, <1>2, <1>4, <2>1, <2>3, <3>2 DEF Covers, ReadAt
      <4>2. Readers(i)' = 0  BY <1>9, <2>1, <3>1, <4>1
      <4>3. QED  BY <1>3, <4>1, <4>2 DEF Good
    <3>3. CASE t.start <= i /\ i < t.end
      <4>1. Covers(t, i)  BY <3>3 DEF Covers
      <4>2. Readers(i)' = 1  BY <1>9, <2>1, <3>1, <4>1
      <4>3. QED  BY <4>2 DEF Good
    <3>4. CASE t.end <= i
      <4>1. ~Covers(t, i)  BY <1>4, <2>1, <3>4 DEF Covers
      <4>2. Readers(i)' = 0  BY <1>9, <2>1, <3>1, <4>1
      <4>3. i \in t.end..(t.next - 1)  BY <1>4, <2>1, <3>4
      <4>4. Passed(src, i, t)  BY <1>1, <4>3 DEF ReadAt, Scanned
      <4>5. CASE At(src, i) = "close" /\ t.kind \in {"UrlRaw", "UrlTail"} /\ t.next = i + 1
        <5>1. out' = Append(out, t)  BY <1>5, <4>5
        <5>2. Len(out) + 1 \in 1..Len(out') /\ out'[Len(out) + 1] = t
          BY <1>1, <5>1, PushProperties, LenProperties
        <5>3. QED  BY <1>3, <4>2, <4>5, <5>2 DEF Good
      <4>6. CASE \/ At(src, i) \in Ws
                 \/ At(src, i) \in {"hash", "at"} /\ At(src, i + 1) = "lbrace"
        BY <1>3, <4>2, <4>6 DEF Good
      <4>7. QED  BY <4>4, <4>5, <4>6 DEF Passed
    <3>5. QED  BY <1>4, <2>1, <3>2, <3>3, <3>4
  <2>4. QED  BY <1>2, <2>1, <2>2, <2>3
<1>13. QED  BY <1>3, <1>4, <1>7, <1>10, <1>11, <1>12 DEF Accounted, LayoutUnread

\* A step that reads nothing.
LEMMA NothingRead ==
    ASSUME Accounted, UNCHANGED <<src, out, comments, indent>>, st'.pos = st.pos,
           phase # "failed" \/ phase' = "failed"
    PROVE  Accounted'
<1>1. Frontier' = Frontier  BY DEF Frontier
<1>2. \A i : Good(i)' <=> Good(i)  BY DEF Good, Readers, Covers
<1>3. LayoutUnread'  BY DEF Accounted, LayoutUnread, Readers, Covers
<1>4. phase' # "failed" => \A i \in 0..(st'.pos - 1) : Good(i)'  BY <1>2 DEF Accounted
<1>5. QED  BY <1>1, <1>3, <1>4 DEF Accounted

\* The cursor steps over blanks; a layout token spans the last of them.
LEMMA BlanksSkipped ==
    ASSUME Core, Accounted, phase # "failed", NEW c \in WsEnd(src, st.pos), st'.pos = c,
           UNCHANGED <<src, out, comments>>,
           \/ indent' = <<>>
           \/ \E e \in Token : /\ indent' = <<e>>
                               /\ st.pos <= e.start /\ e.start <= e.end /\ e.end <= c
    PROVE  Accounted'
<1>1. TypeOK /\ out \in Seq(Token) /\ comments \in Seq(Token) /\ st.pos \in Nat
      /\ src \in Seq(ByteClass)
  BY Cursor DEF Core, Records
<1>2. c \in Nat /\ st.pos <= c /\ \A i \in st.pos..(c - 1) : At(src, i) \in Ws  BY <1>1, WsEndIs
<1>3. \A i : Readers(i)' = Readers(i)  BY DEF Readers, Covers
<1>4. \A i \in Nat : st.pos <= i => Readers(i) = 0  BY AheadUnread
<1>5. Frontier \in Nat /\ Frontier <= st.pos /\ Ends(out, Frontier) /\ Ends(comments, st.pos)
      /\ Ordered(out)
  <2>1. st.pos <= st.pos  BY <1>1
  <2>2. QED  BY <1>1, <2>1, AheadUnread DEF Accounted
<1>6. Frontier' \in Nat /\ Frontier <= Frontier' /\ Frontier' <= c
  <2>1. CASE indent' = <<>>  BY <1>1, <1>2, <1>5, <2>1 DEF Frontier
  <2>2. CASE indent' # <<>>
    <3>1. PICK e \in Token : indent' = <<e>> /\ st.pos <= e.start /\ e.start <= e.end /\ e.end <= c
      BY <2>2
    <3>2. Frontier' = e.start /\ e.start \in Nat /\ e.end \in Nat  BY <3>1 DEF Frontier, Token
    <3>3. QED  BY <1>1, <1>2, <1>5, <3>1, <3>2
  <2>3. QED  BY <2>1, <2>2
<1>7. Ends(out', Frontier') /\ Ends(comments', c)  BY <1>1, <1>2, <1>5, <1>6, EndsLater
<1>8. LayoutUnread'
  <2> SUFFICES ASSUME indent' # <<>> PROVE LayoutUnread'
    BY DEF LayoutUnread
  <2>1. PICK e \in Token : indent' = <<e>> /\ st.pos <= e.start /\ e.start <= e.end /\ e.end <= c
    OBVIOUS
  <2>2. e.start \in Nat /\ e.end \in Nat  BY DEF Token
  <2>3. ASSUME NEW i \in e.start..(e.end - 1) PROVE At(src, i) \in Ws /\ Readers(i)' = 0
    <3>1. i \in Nat /\ st.pos <= i /\ i \in st.pos..(c - 1)  BY <1>1, <1>2, <2>1, <2>2
    <3>2. QED  BY <1>2, <1>3, <1>4, <3>1
  <2>4. QED  BY <2>1, <2>3 DEF LayoutUnread
<1>9. ASSUME NEW i \in 0..(c - 1) PROVE Good(i)'
  <2>1. i \in Nat  OBVIOUS
  <2>2. CASE i < st.pos
    <3>1. Good(i)  BY <1>1, <2>1, <2>2 DEF Accounted
    <3>2. QED  BY <1>3, <2>1, <3>1, GoodKept
  <2>3. CASE st.pos <= i
    <3>1. i \in st.pos..(c - 1)  BY <1>1, <1>2, <2>1, <2>3
    <3>2. QED  BY <1>2, <1>3, <1>4, <2>1, <2>3, <3>1 DEF Good
  <2>4. QED  BY <1>1, <2>1, <2>2, <2>3
<1>10. QED  BY <1>5, <1>6, <1>7, <1>8, <1>9 DEF Accounted

LEMMA AccountedStep == Core /\ Accounted /\ [Next]_vars => Accounted'
<1> SUFFICES ASSUME Core, Accounted, [Next]_vars PROVE Accounted'
  OBVIOUS
<1>1. TypeOK /\ Records /\ Flow /\ IndentStack /\ out \in Seq(Token) /\ comments \in Seq(Token)
  BY DEF Core, Records
<1>2. src \in Seq(ByteClass) /\ Len(src) \in Nat /\ st.pos \in Nat /\ st.pos <= Len(src)
      /\ st.pos <= st.pos
  BY <1>1, Cursor
<1>3. Frontier \in Nat /\ Frontier <= st.pos /\ Ends(out, Frontier) /\ Ends(comments, st.pos)
      /\ Ordered(out) /\ LayoutUnread
  BY <1>2, AheadUnread DEF Accounted
<1>4. CASE Reader
  <2>1. CASE Rejected  BY <2>1, NothingRead DEF Rejected
  <2>2. QED  BY <1>4, <2>1, ReaderReads, ReadAccounted
<1>5. CASE BumpPendingDedent
  <2>1. PICK t \in Token : t = Outcome("Dedent", st.pos, st.pos, st.pos) /\ out' = Append(out, t)
    BY <1>5, PendingDedentMoves
  <2>2. t.start = st.pos /\ t.end = st.pos  BY <2>1 DEF Outcome
  <2>3. /\ phase = "idle" /\ indent = <<>> /\ indent' = <<>> /\ UNCHANGED <<src, comments>>
        /\ st'.pos = st.pos
    BY <1>5, PendingDedentMoves
  <2>4. Frontier = st.pos /\ Frontier' = st.pos  BY <2>3 DEF Frontier
  <2>5. Ends(out', st.pos) /\ Ordered(out')
    BY <1>1, <1>2, <1>3, <2>1, <2>2, <2>4, EndsPush, OrderedPush
  <2>6. \A i \in Nat : ~Covers(t, i)  BY <1>2, <2>2 DEF Covers
  <2>7. \A i \in Nat : Readers(i)' = Readers(i)  BY <2>1, <2>3, <2>6, ReadersReturned
  <2>8. ASSUME NEW i \in 0..(st.pos - 1) PROVE Good(i)'
    <3>1. i \in Nat /\ Good(i)  BY <2>3 DEF Accounted
    <3>2. QED  BY <2>1, <2>3, <2>7, <3>1, GoodKept
  <2>9. QED  BY <1>2, <1>3, <2>3, <2>4, <2>5, <2>8 DEF Accounted, LayoutUnread
<1>6. CASE BumpStart
  <2>1. indent = <<>>  BY <1>1, <1>6 DEF BumpStart, Flow
  <2>2. QED  BY <1>6, <2>1, NothingRead DEF BumpStart
<1>7. CASE ScanIndent
  <2>1. /\ phase = "skip" /\ syntax = "Sass" /\ UNCHANGED <<src, out, comments>>
    BY <1>7, ScanIndentCases DEF IndentSensitive
  <2>2. PICK c \in WsEnd(src, st.pos) :
           \/ IndentAtEof(c) \/ IndentNone(c)
           \/ \E b \in LineStarts(src, st.pos, c) : IndentLine(c, b)
    BY <1>7, ScanIndentCases
  <2>3. st'.pos = c
    BY <1>1, <2>1, <2>2 DEF IndentAtEof, IndentNone, IndentLine, TypeOK
  <2>4. c \in Nat /\ st.pos <= c /\ c <= c  BY <1>2, WsEndIs
  <2>5. \/ indent' = <<>>
        \/ \E e \in Token : /\ indent' = <<e>>
                            /\ st.pos <= e.start /\ e.start <= e.end /\ e.end <= c
    <3>1. CASE IndentAtEof(c)
      <4>1. "Eof" \in Kind  BY DEF Kind, LexKind
      <4>2. Outcome("Eof", c, c, c) \in Token /\ Outcome("Eof", c, c, c).start = c
            /\ Outcome("Eof", c, c, c).end = c
        BY <2>4, <4>1, OutcomeIs
      <4>3. QED  BY <2>4, <3>1, <4>2 DEF IndentAtEof
    <3>2. CASE IndentNone(c)  BY <3>2 DEF IndentNone
    <3>3. CASE \E b \in LineStarts(src, st.pos, c) : IndentLine(c, b)
      <4>1. PICK b \in LineStarts(src, st.pos, c) : IndentLine(c, b)  BY <3>3
      <4>2. Width(c, b) \in Nat  BY <1>1, <2>1, <4>1, LineState
      <4>3. /\ IndentToken(Width(c, b), b, c) \in Token /\ b \in Nat /\ st.pos < b /\ b <= c
            /\ IndentToken(Width(c, b), b, c).start = b /\ IndentToken(Width(c, b), b, c).end = c
        BY <1>1, <4>2, LineAhead
      <4>4. st.pos <= b  BY <1>2, <4>3
      <4>5. QED  BY <2>4, <4>1, <4>3, <4>4 DEF IndentLine
    <3>4. QED  BY <2>2, <3>1, <3>2, <3>3
  <2>6. QED  BY <2>1, <2>3, <2>5, BlanksSkipped
<1>8. CASE SkipWs
  <2>1. indent = <<>>  BY <1>1, <1>8 DEF SkipWs, IndentSensitive, Flow
  <2>2. PICK c \in WsEnd(src, st.pos) : st' = [st EXCEPT !.pos = c]  BY <1>8 DEF SkipWs
  <2>3. st'.pos = c  BY <1>1, <2>2 DEF TypeOK
  <2>4. phase # "failed" /\ UNCHANGED <<src, out, comments>> /\ indent' = <<>>
    BY <1>8, <2>1 DEF SkipWs
  <2>5. QED  BY <2>3, <2>4, BlanksSkipped
<1>9. CASE ScanBlockComment \/ ScanLineComment
  <2>1. PICK t \in Token, k \in 0..Len(src) :
              /\ st'.pos = k /\ comments' = Append(comments, t)
              /\ t.start = st.pos /\ st.pos <= t.end /\ t.end <= k
              /\ \A i \in t.end..(k - 1) : At(src, i) \in Ws
    BY <1>1, <1>9, CommentRead
  <2>2. UNCHANGED <<src, out, indent, phase>> /\ phase = "skip"
    BY <1>9 DEF ScanBlockComment, ScanLineComment
  <2>3. k \in Nat /\ t.end \in Nat /\ st.pos <= k  BY <1>2, <2>1 DEF Token
  <2>4. \A i \in Nat : Readers(i) \in Nat /\ Readers(i)' = Readers(i) + IF Covers(t, i) THEN 1 ELSE 0
    BY <2>1, <2>2, ReadersCommented
  <2>5. \A i \in Nat : i < st.pos => Readers(i)' = Readers(i)
    <3> SUFFICES ASSUME NEW i \in Nat, i < st.pos PROVE Readers(i)' = Readers(i)
      OBVIOUS
    <3>1. ~Covers(t, i)  BY <1>2, <2>1 DEF Covers
    <3>2. QED  BY <2>4, <3>1
  <2>6. Ends(comments', k)  BY <1>1, <1>2, <1>3, <2>1, <2>3, EndsPush
  <2>7. Frontier' <= k /\ Frontier <= Frontier' /\ Frontier' \in Nat
    <3>1. CASE indent = <<>>  BY <1>2, <1>3, <2>1, <2>2, <2>3, <3>1 DEF Frontier
    <3>2. CASE indent # <<>>
      <4>1. Frontier' = Frontier  BY <2>2, <3>2 DEF Frontier
      <4>2. QED  BY <1>2, <1>3, <2>3, <4>1
    <3>3. QED  BY <3>1, <3>2
  <2>8. Ends(out', Frontier')  BY <1>1, <1>3, <2>2, <2>7, EndsLater
  <2>9. LayoutUnread'
    <3> SUFFICES ASSUME indent # <<>> PROVE LayoutUnread'
      BY <2>2 DEF LayoutUnread
    <3>1. indent[1] \in Token  BY <1>1 DEF Records
    <3>2. /\ indent[1].start \in Nat /\ indent[1].end \in Nat
          /\ indent[1].start <= indent[1].end /\ indent[1].end <= st.pos
      BY <1>3, <3>1 DEF LayoutUnread, Token
    <3>3. ASSUME NEW i \in indent[1].start..(indent[1].end - 1)
          PROVE  At(src, i) \in Ws /\ Readers(i)' = 0
      <4>1. i \in Nat /\ i < st.pos  BY <1>2, <3>2
      <4>2. At(src, i) \in Ws /\ Readers(i) = 0  BY <1>3 DEF LayoutUnread
      <4>3. QED  BY <2>5, <4>1, <4>2
    <3>4. indent[1].end <= k  BY <1>2, <2>3, <3>2
    <3>5. QED  BY <2>1, <2>2, <3>2, <3>3, <3>4 DEF LayoutUnread
  <2>10. ASSUME NEW i \in 0..(k - 1) PROVE Good(i)'
    <3>1. i \in Nat  OBVIOUS
    <3>2. CASE i < st.pos
      <4>1. Good(i)  BY <1>2, <2>2, <3>1, <3>2 DEF Accounted
      <4>2. QED  BY <2>2, <2>5, <3>1, <3>2, <4>1, GoodKept
    <3>3. CASE st.pos <= i
      <4>1. Readers(i) = 0  BY <3>1, <3>3, AheadUnread
      <4>2. CASE i < t.end
        <5>1. Covers(t, i)  BY <2>1, <3>3, <4>2 DEF Covers
        <5>2. Readers(i)' = 1  BY <2>4, <3>1, <4>1, <5>1
        <5>3. QED  BY <5>2 DEF Good
      <4>3. CASE t.end <= i
        <5>1. ~Covers(t, i)  BY <2>3, <3>1, <4>3 DEF Covers
        <5>2. Readers(i)' = 0  BY <2>4, <3>1, <4>1, <5>1
        <5>3. i \in t.end..(k - 1)  BY <2>3, <3>1, <4>3
        <5>4. QED  BY <2>1, <2>2, <5>2, <5>3 DEF Good
      <4>4. QED  BY <2>3, <3>1, <4>2, <4>3
    <3>4. QED  BY <1>2, <3>1, <3>2, <3>3
  <2>11. QED  BY <1>3, <2>1, <2>2, <2>6, <2>7, <2>8, <2>9, <2>10 DEF Accounted
<1>10. CASE BumpLayout
  <2> DEFINE e == indent[1]
  <2>1. /\ e \in Token /\ Emit(e) /\ indent # <<>> /\ indent' = <<>> /\ phase = "skip"
        /\ UNCHANGED <<src, st, comments>>
    BY <1>1, <1>10 DEF BumpLayout, Skipped, Records
  <2>2. /\ Frontier = e.start /\ Frontier' = st.pos /\ e.start <= e.end /\ e.end <= st.pos
        /\ \A i \in e.start..(e.end - 1) : At(src, i) \in Ws /\ Readers(i) = 0
    BY <1>3, <2>1 DEF Frontier, LayoutUnread
  <2> HIDE DEF e
  <2>3. e.start \in Nat /\ e.end \in Nat  BY <2>1 DEF Token
  <2>4. CASE out' = Append(out, e)
    <3>1. Ends(out', st.pos) /\ Ordered(out')
      <4>1. e.start <= e.start /\ e.start <= st.pos  BY <1>2, <2>2, <2>3
      <4>2. QED  BY <1>1, <1>2, <1>3, <2>1, <2>2, <2>3, <2>4, <4>1, EndsPush, OrderedPush
    <3>2. \A i \in Nat : Readers(i)' = Readers(i) + IF Covers(e, i) THEN 1 ELSE 0
      BY <2>1, <2>4, ReadersReturned
    <3>3. \A i \in Nat : Readers(i) \in Nat  BY <2>1, <2>4, ReadersReturned
    <3>4. ASSUME NEW i \in 0..(st.pos - 1) PROVE Good(i)'
      <4>1. i \in Nat /\ Good(i)  BY <2>1 DEF Accounted
      <4>2. CASE Covers(e, i)
        <5>1. i \in e.start..(e.end - 1)  BY <2>3, <4>1, <4>2 DEF Covers
        <5>2. Readers(i)' = 1  BY <2>2, <3>2, <4>1, <4>2, <5>1
        <5>3. QED  BY <5>2 DEF Good
      <4>3. CASE ~Covers(e, i)
        <5>1. Readers(i)' = Readers(i)  BY <3>2, <3>3, <4>1, <4>3
        <5>2. QED  BY <2>1, <2>4, <4>1, <5>1, GoodKept
      <4>4. QED  BY <4>2, <4>3
    <3>5. QED  BY <1>2, <1>3, <2>1, <2>2, <3>1, <3>4 DEF Accounted, LayoutUnread
  <2>5. CASE out' = out
    <3>1. Ends(out', st.pos)  BY <1>1, <1>2, <1>3, <2>5, EndsLater
    <3>2. \A i : Readers(i)' = Readers(i)  BY <2>1, <2>5 DEF Readers, Covers
    <3>3. ASSUME NEW i \in 0..(st.pos - 1) PROVE Good(i)'
      <4>1. i \in Nat /\ Good(i)  BY <2>1 DEF Accounted
      <4>2. QED  BY <2>1, <2>5, <3>2, <4>1, GoodKept
    <3>4. QED  BY <1>2, <1>3, <2>1, <2>2, <2>5, <3>1, <3>3 DEF Accounted, LayoutUnread
  <2>6. QED  BY <1>1, <2>1, <2>4, <2>5, EmitAppends
<1>11. CASE ReopenIndentLevel \/ LineCommentsOff \/ LineCommentsRestored
  <2>1. st'.pos = st.pos
    BY <1>1, <1>11 DEF ReopenIndentLevel, LineCommentsOff, LineCommentsRestored, TypeOK
  <2>2. UNCHANGED <<src, out, comments, indent>> /\ phase = "idle"
    BY <1>11 DEF ReopenIndentLevel, LineCommentsOff, LineCommentsRestored
  <2>3. QED  BY <2>1, <2>2, NothingRead
<1>12. CASE UNCHANGED vars  BY <1>12, NothingRead DEF vars
<1>13. QED
  BY <1>4, <1>5, <1>6, <1>7, <1>8, <1>9, <1>10, <1>11, <1>12 DEF Next, Bump, Reader

LEMMA AccountedInit == Init => Accounted
<1> SUFFICES ASSUME Init PROVE Accounted
  OBVIOUS
<1>1. TypeOK /\ src \in Seq(ByteClass) /\ Len(src) \in Nat /\ st.pos \in Nat
  BY CoreInit, Cursor DEF Core
<1>2. out = <<>> /\ comments = <<>> /\ indent = <<>>  BY DEF Init
<1>3. st.pos \in First({k \in 0..Len(src) : syntax # "Sass" \/ At(src, k) \notin Newline})
  BY DEF Init
<1>4. ASSUME NEW i \in 0..(st.pos - 1) PROVE Good(i)
  <2>1. i \in 0..Len(src) /\ ~(st.pos <= i)
    <3>1. st.pos \in 0..Len(src)  BY <1>3, FirstIs
    <3>2. QED  BY <1>1, <3>1
  <2>2. At(src, i) \in Newline  BY <1>3, <2>1, FirstIs
  <2>3. Readers(i) = 0
    <3>1. {k \in 1..Len(<<>>) : Covers(<<>>[k], i)} = {}  OBVIOUS
    <3>2. QED  BY <1>2, <3>1, FS_EmptySet DEF Readers
  <2>4. QED  BY <2>2, <2>3 DEF Good, Newline, Ws
<1>5. Frontier = st.pos  BY <1>2 DEF Frontier
<1>6. Ends(out, Frontier) /\ Ends(comments, st.pos) /\ Ordered(out)
  BY <1>2 DEF Ends, Ordered
<1>7. QED  BY <1>1, <1>2, <1>4, <1>5, <1>6 DEF Accounted, LayoutUnread

\* Nothing is lost and nothing read twice, for every source: the tokens come out
\* in source order, and every byte behind the cursor is whitespace, in exactly
\* one token or comment, or one of the two delimiters no span includes.
THEOREM EveryByteReadOnce == Spec => []ReadOnce
<1>1. Accounted => ReadOnce
  BY DEF Accounted, ReadOnce, InOrder, Ordered, Good
<1>2. QED  BY <1>1, AccountedInit, AccountedStep, CoreInv, PTL DEF Spec

----------------------------------------------------------------------------
(***************************************************************************)
(* No loop goes round without reading: what a step gives away of the budget, *)
(* part by part.                                                            *)
(***************************************************************************)
One(p) == IF p THEN 1 ELSE 0

Unread == Len(src) - st.pos

Apart == One(syntax = "Sass" /\ Top # st.currentIndent)

InHand == One(indent # <<>>)

Ahead == One(~AtEof)

Rank == CASE phase = "idle" -> 2
          [] phase = "skip" -> 1
          [] OTHER          -> 0

Sum(unread, levels, apart, inHand, ahead, rank) ==
    6 * unread + levels + 2 * apart + 2 * inHand + 2 * ahead + rank

LEMMA BudgetParts ==
    ASSUME TypeOK
    PROVE  /\ Budget = Sum(Unread, Len(st.indents), Apart, InHand, Ahead, Rank)
           /\ Unread \in Nat /\ Len(st.indents) \in Nat /\ Apart \in 0..1 /\ InHand \in 0..1
           /\ Ahead \in 0..1 /\ Rank \in 0..2
<1>1. st.indents \in Seq(Nat)  BY DEF TypeOK
<1>2. Unread \in Nat /\ Len(st.indents) \in Nat  BY <1>1, Cursor, LenProperties DEF Unread
<1>3. Apart \in 0..1 /\ InHand \in 0..1 /\ Ahead \in 0..1  BY DEF Apart, InHand, Ahead, One
<1>4. Rank \in 0..2  BY DEF Rank
<1>5. Budget = Sum(Unread, Len(st.indents), Apart, InHand, Ahead, Rank)
  BY DEF Budget, Sum, Unread, Apart, InHand, Ahead, One, Rank
<1>6. QED  BY <1>2, <1>3, <1>4, <1>5

\* The same behind a step.
LEMMA BudgetPartsThen ==
    ASSUME TypeOK'
    PROVE  /\ Budget' = Sum(Unread', Len(st'.indents), Apart', InHand', Ahead', Rank')
           /\ Unread' \in Nat /\ Len(st'.indents) \in Nat /\ Apart' \in 0..1 /\ InHand' \in 0..1
           /\ Ahead' \in 0..1 /\ Rank' \in 0..2
<1>1. st'.indents \in Seq(Nat) /\ src' \in Seq(ByteClass) /\ st'.pos \in 0..Len(src')
  BY DEF TypeOK
<1>2. Unread' \in Nat /\ Len(st'.indents) \in Nat  BY <1>1, LenProperties DEF Unread
<1>3. Apart' \in 0..1 /\ InHand' \in 0..1 /\ Ahead' \in 0..1  BY DEF Apart, InHand, Ahead, One
<1>4. Rank' \in 0..2  BY DEF Rank
<1>5. Budget' = Sum(Unread', Len(st'.indents), Apart', InHand', Ahead', Rank')
  BY DEF Budget, Sum, Unread, Apart, InHand, Ahead, One, Rank
<1>6. QED  BY <1>2, <1>3, <1>4, <1>5

\* A step that reads can pay for a level, for a layout token and for its return; one that
\* does not has to give something else away.
LEMMA BudgetFalls ==
    ASSUME TypeOK, TypeOK',
           \/ /\ Unread' < Unread /\ Len(st'.indents) <= Len(st.indents) + 1
              /\ Ahead' = Ahead /\ Rank' = Rank
           \/ /\ Unread' < Unread /\ Len(st'.indents) = Len(st.indents)
              /\ Apart' = Apart /\ InHand' = InHand /\ Ahead' <= Ahead
           \/ /\ Unread' <= Unread /\ Len(st'.indents) = Len(st.indents)
              /\ Apart' = Apart /\ InHand' <= InHand /\ Ahead' <= Ahead
              /\ Rank' < Rank \/ (Rank' <= Rank + 1 /\ InHand' + Ahead' < InHand + Ahead)
           \/ /\ Unread' = Unread /\ Len(st'.indents) < Len(st.indents)
              /\ Apart = 1 /\ InHand' = InHand /\ Ahead' <= Ahead /\ Rank' <= Rank
           \/ /\ Unread' = Unread /\ Len(st'.indents) = Len(st.indents) + 1
              /\ Apart = 1 /\ Apart' = 0 /\ InHand' = InHand /\ Ahead' <= Ahead /\ Rank' = Rank
    PROVE  Budget' \in Nat /\ Budget' < Budget
<1>1. /\ Unread \in Nat /\ Len(st.indents) \in Nat /\ Apart \in 0..1 /\ InHand \in 0..1
      /\ Ahead \in 0..1 /\ Rank \in 0..2
      /\ Unread' \in Nat /\ Len(st'.indents) \in Nat /\ Apart' \in 0..1 /\ InHand' \in 0..1
      /\ Ahead' \in 0..1 /\ Rank' \in 0..2
  BY BudgetParts, BudgetPartsThen
<1> DEFINE Before == Sum(Unread, Len(st.indents), Apart, InHand, Ahead, Rank)
           After  == Sum(Unread', Len(st'.indents), Apart', InHand', Ahead', Rank')
<1> SUFFICES After \in Nat /\ After < Before
  BY BudgetParts, BudgetPartsThen
<1>2. CASE /\ Unread' < Unread /\ Len(st'.indents) <= Len(st.indents) + 1
           /\ Ahead' = Ahead /\ Rank' = Rank
  <2>1. \A u, v, l, m \in Nat : \A a, b, i, j, e \in 0..1 : \A r \in 0..2 :
          v < u /\ m <= l + 1 => /\ Sum(v, m, b, j, e, r) \in Nat
                                /\ Sum(v, m, b, j, e, r) < Sum(u, l, a, i, e, r)
    BY DEF Sum
  <2>2. QED  BY <1>1, <1>2, <2>1
<1>3. CASE /\ Unread' < Unread /\ Len(st'.indents) = Len(st.indents)
           /\ Apart' = Apart /\ InHand' = InHand /\ Ahead' <= Ahead
  <2>1. \A u, v, l \in Nat : \A a, i, e, f \in 0..1 : \A r, q \in 0..2 :
          v < u /\ f <= e => /\ Sum(v, l, a, i, f, q) \in Nat
                            /\ Sum(v, l, a, i, f, q) < Sum(u, l, a, i, e, r)
    BY DEF Sum
  <2>2. QED  BY <1>1, <1>3, <2>1
<1>4. CASE /\ Unread' <= Unread /\ Len(st'.indents) = Len(st.indents)
           /\ Apart' = Apart /\ InHand' <= InHand /\ Ahead' <= Ahead
           /\ Rank' < Rank \/ (Rank' <= Rank + 1 /\ InHand' + Ahead' < InHand + Ahead)
  <2>1. \A u, v, l \in Nat : \A a, i, j, e, f \in 0..1 : \A r, q \in 0..2 :
          (v <= u /\ j <= i /\ f <= e /\ (q < r \/ (q <= r + 1 /\ j + f < i + e)))
            => /\ Sum(v, l, a, j, f, q) \in Nat
               /\ Sum(v, l, a, j, f, q) < Sum(u, l, a, i, e, r)
    BY DEF Sum
  <2>2. QED  BY <1>1, <1>4, <2>1
<1>5. CASE /\ Unread' = Unread /\ Len(st'.indents) < Len(st.indents)
           /\ Apart = 1 /\ InHand' = InHand /\ Ahead' <= Ahead /\ Rank' <= Rank
  <2>1. \A u, l, m \in Nat : \A b, i, e, f \in 0..1 : \A r, q \in 0..2 :
          (m < l /\ f <= e /\ q <= r) => /\ Sum(u, m, b, i, f, q) \in Nat
                                         /\ Sum(u, m, b, i, f, q) < Sum(u, l, 1, i, e, r)
    BY DEF Sum
  <2>2. QED  BY <1>1, <1>5, <2>1
<1>6. CASE /\ Unread' = Unread /\ Len(st'.indents) = Len(st.indents) + 1
           /\ Apart = 1 /\ Apart' = 0 /\ InHand' = InHand /\ Ahead' <= Ahead /\ Rank' = Rank
  <2>1. \A u, l \in Nat : \A i, e, f \in 0..1 : \A r \in 0..2 :
          f <= e => /\ Sum(u, l + 1, 0, i, f, r) \in Nat
                    /\ Sum(u, l + 1, 0, i, f, r) < Sum(u, l, 1, i, e, r)
    BY DEF Sum
  <2>2. QED  BY <1>1, <1>6, <2>1
<1>7. QED  BY <1>2, <1>3, <1>4, <1>5, <1>6

LEMMA BudgetStep ==
    ASSUME Core, Core', Next, ~AtEof, ~LineCommentsOff, ~LineCommentsRestored
    PROVE  Budget' \in Nat /\ Budget' < Budget
<1>1. TypeOK /\ Records /\ Flow /\ IndentStack /\ TypeOK'  BY DEF Core
<1>2. /\ src \in Seq(ByteClass) /\ Len(src) \in Nat /\ st.pos \in Nat /\ st.pos <= Len(src)
      /\ Len(st.indents) \in Nat
  BY <1>1, Cursor, BudgetParts
<1>3. Ahead = 1 /\ Ahead' \in 0..1 /\ Ahead' <= Ahead /\ (out' = out => Ahead' = Ahead)
  BY DEF Ahead, One, AtEof, Emitted
<1>4. (UNCHANGED syntax /\ st'.indents = st.indents /\ st'.currentIndent = st.currentIndent)
        => Apart' = Apart /\ Len(st'.indents) = Len(st.indents)
  BY DEF Apart, Top, One
<1>5. /\ (UNCHANGED src /\ st'.pos = st.pos) => Unread' = Unread
      /\ \A n \in Nat : (UNCHANGED src /\ st'.pos = n /\ st.pos < n) => Unread' < Unread
  BY <1>2 DEF Unread
<1>6. indent' = indent => InHand' = InHand  BY DEF InHand, One
<1>7. /\ Unread \in Nat /\ Apart \in 0..1 /\ InHand \in 0..1 /\ Rank \in 0..2
      /\ Unread' \in Nat /\ Apart' \in 0..1 /\ InHand' \in 0..1 /\ Rank' \in 0..2
  BY <1>1, BudgetParts, BudgetPartsThen
<1>8. CASE Reader
  <2>1. indent = <<>> /\ phase \in {"idle", "skip"}  BY <1>1, <1>8, ReaderFrom
  <2>2. Rank >= 1  BY <2>1 DEF Rank
  <2>3. CASE Rejected
    <3>1. UNCHANGED <<src, syntax, st, out, indent>> /\ Rank' = 0  BY <2>3 DEF Rejected, Rank
    <3>2. Unread' = Unread /\ Apart' = Apart /\ Len(st'.indents) = Len(st.indents)
      BY <3>1, <1>4, <1>5
    <3>3. QED  BY <3>1, <3>2, <2>2, <1>1, <1>3, <1>6, <1>7, BudgetFalls
  <2>4. CASE \E t \in Token : Read(t)
    <3>1. PICK t \in Token : Read(t)  BY <2>4
    <3>2. UNCHANGED <<src, syntax, indent>> /\ phase' = "idle" /\ Emit(t)  BY <3>1 DEF Read
    <3>3. /\ st'.pos = t.next /\ st'.indents = st.indents /\ st'.currentIndent = st.currentIndent
          /\ t.next \in Nat /\ st.pos <= t.next /\ (t.kind # "Eof" => st.pos < t.next)
      BY <1>2, <3>1, ReadMoves DEF Moved, Token
    <3>4. Apart' = Apart /\ Len(st'.indents) = Len(st.indents)  BY <3>2, <3>3, <1>4
    <3>5. CASE t.kind # "Eof"
      <4>1. Unread' < Unread  BY <3>2, <3>3, <3>5, <1>5
      <4>2. QED  BY <4>1, <3>2, <3>4, <1>1, <1>3, <1>6, BudgetFalls
    <3>6. CASE t.kind = "Eof"
      <4>1. AtEof'  BY <1>1, <3>2, <3>6, EmitAppends DEF AtEof
      <4>2. Ahead' = 0  BY <4>1 DEF Ahead, One
      <4>3. Unread' <= Unread  BY <3>2, <3>3, <1>2 DEF Unread
      <4>4. Rank' = 2  BY <3>2 DEF Rank
      <4>5. /\ InHand' <= InHand /\ Rank' <= Rank + 1
            /\ InHand' + Ahead' < InHand + Ahead
        BY <4>2, <4>4, <3>2, <2>2, <1>3, <1>6, <1>7
      <4>6. QED  BY <4>3, <4>5, <3>4, <1>1, <1>3, BudgetFalls
    <3>7. QED  BY <3>5, <3>6
  <2>5. QED  BY <1>8, <2>3, <2>4, ReaderReads
<1>9. CASE BumpPendingDedent
  <2>1. /\ phase = "idle" /\ syntax = "Sass" /\ Top > st.currentIndent /\ st.currentIndent \in Nat
        /\ UNCHANGED <<src, syntax, indent>> /\ st'.pos = st.pos
        /\ st'.indents = Front(st.indents)
    BY <1>9, PendingDedentMoves
  <2>2. Top \in Nat /\ Top > 0  BY <1>1, <2>1, TopLevel
  <2>3. Len(st'.indents) < Len(st.indents)  BY <1>1, <1>2, <2>1, <2>2, LevelPopped
  <2>4. Apart = 1  BY <2>1, <2>2 DEF Apart, One
  <2>5. Rank' <= Rank  BY <2>1, <1>7 DEF Rank
  <2>6. QED  BY <2>1, <2>3, <2>4, <2>5, <1>1, <1>3, <1>5, <1>6, BudgetFalls
<1>10. CASE BumpStart
  <2>1. UNCHANGED <<src, syntax, st, out>> /\ phase = "idle" /\ phase' = "skip" /\ indent' = <<>>
    BY <1>10 DEF BumpStart
  <2>2. indent = <<>>  BY <1>1, <2>1 DEF Flow
  <2>3. Rank' < Rank  BY <2>1 DEF Rank
  <2>4. Unread' = Unread /\ Apart' = Apart /\ Len(st'.indents) = Len(st.indents)
    BY <2>1, <1>4, <1>5
  <2>5. QED  BY <2>1, <2>2, <2>3, <2>4, <1>1, <1>3, <1>6, <1>7, BudgetFalls
<1>11. CASE ScanIndent
  <2>1. At(src, st.pos) \in Ws /\ syntax = "Sass" /\ UNCHANGED <<src, syntax, phase, out>>
    BY <1>11, ScanIndentCases DEF IndentSensitive
  <2>2. PICK c \in WsEnd(src, st.pos) :
           \/ IndentAtEof(c) \/ IndentNone(c)
           \/ \E b \in LineStarts(src, st.pos, c) : IndentLine(c, b)
    BY <1>11, ScanIndentCases
  <2>3. c \in Nat /\ st.pos < c /\ c \in 0..Len(src)
    <3>1. c \in Nat /\ st.pos <= c /\ c <= Len(src) /\ At(src, c) \notin Ws  BY <1>2, WsEndIs
    <3>2. c # st.pos  BY <2>1, <3>1
    <3>3. QED  BY <1>2, <3>1, <3>2
  <2>4. st'.pos = c /\ Len(st'.indents) <= Len(st.indents) + 1
    <3>1. CASE IndentAtEof(c) \/ IndentNone(c)
      <4>1. st' = [st EXCEPT !.pos = c]  BY <3>1 DEF IndentAtEof, IndentNone
      <4>2. st'.pos = c /\ st'.indents = st.indents  BY <4>1, <2>3, <1>1, CursorMoved
      <4>3. QED  BY <4>2, <1>2
    <3>2. CASE \E b \in LineStarts(src, st.pos, c) : IndentLine(c, b)
      <4>1. PICK b \in LineStarts(src, st.pos, c) : IndentLine(c, b)  BY <3>2
      <4>2. st'.pos = c /\ st'.indents = Levels(Width(c, b)) /\ Width(c, b) \in Nat
        BY <4>1, <2>1, <1>1, LineState
      <4>3. /\ Width(c, b) > Top => Len(Levels(Width(c, b))) = Len(st.indents) + 1
            /\ Width(c, b) < Top => Len(Levels(Width(c, b))) = Len(st.indents) - 1
            /\ Width(c, b) = Top => Levels(Width(c, b)) = st.indents
            /\ Top \in Nat
        BY <4>2, <2>1, <1>1, LevelsOfLine, TopLevel
      <4>4. QED  BY <4>2, <4>3, <1>2
    <3>3. QED  BY <2>2, <3>1, <3>2
  <2>5. Unread' < Unread /\ Rank' = Rank  BY <2>1, <2>3, <2>4, <1>5 DEF Rank
  <2>6. QED  BY <2>1, <2>4, <2>5, <1>1, <1>3, BudgetFalls
<1>12. CASE SkipWs
  <2>1. UNCHANGED <<src, syntax, out, indent>> /\ At(src, st.pos) \in Ws  BY <1>12 DEF SkipWs
  <2>2. PICK c \in WsEnd(src, st.pos) : st' = [st EXCEPT !.pos = c]  BY <1>12 DEF SkipWs
  <2>3. c \in Nat /\ st.pos < c /\ c \in 0..Len(src)
    <3>1. c \in Nat /\ st.pos <= c /\ c <= Len(src) /\ At(src, c) \notin Ws  BY <1>2, WsEndIs
    <3>2. c # st.pos  BY <2>1, <3>1
    <3>3. QED  BY <1>2, <3>1, <3>2
  <2>4. st'.pos = c /\ st'.indents = st.indents /\ st'.currentIndent = st.currentIndent
    BY <2>2, <2>3, <1>1, CursorMoved
  <2>5. Unread' < Unread /\ Apart' = Apart /\ Len(st'.indents) = Len(st.indents)
    BY <2>1, <2>3, <2>4, <1>4, <1>5
  <2>6. QED  BY <2>1, <2>5, <1>1, <1>3, <1>6, BudgetFalls
<1>13. CASE ScanBlockComment \/ ScanLineComment
  <2>1. UNCHANGED <<src, syntax, out, indent>>  BY <1>13 DEF ScanBlockComment, ScanLineComment
  <2>2. PICK k \in 0..Len(src) : /\ st'.pos = k /\ st'.indents = st.indents
                                 /\ st'.currentIndent = st.currentIndent /\ st.pos < k
    BY <1>1, <1>13, CommentRead
  <2>3. Unread' < Unread /\ Apart' = Apart /\ Len(st'.indents) = Len(st.indents)
    BY <2>1, <2>2, <1>2, <1>4, <1>5
  <2>4. QED  BY <2>1, <2>3, <1>1, <1>3, <1>6, BudgetFalls
<1>14. CASE BumpLayout
  <2>1. /\ UNCHANGED <<src, syntax, st>> /\ phase = "skip" /\ phase' = "idle"
        /\ indent # <<>> /\ indent' = <<>>
    BY <1>14 DEF BumpLayout, Skipped
  <2>2. InHand' < InHand  BY <2>1 DEF InHand, One
  <2>3. Rank' <= Rank + 1  BY <2>1 DEF Rank
  <2>4. Unread' = Unread /\ Apart' = Apart /\ Len(st'.indents) = Len(st.indents)
    BY <2>1, <1>4, <1>5
  <2>5. Ahead \in 0..1 /\ Ahead' \in 0..1 /\ Ahead' <= Ahead  BY <1>3
  <2>6. \A i, j, e, f \in 0..1 : j < i /\ f <= e => j + f < i + e  OBVIOUS
  <2>7. InHand' + Ahead' < InHand + Ahead  BY <2>2, <2>5, <2>6, <1>7
  <2>8. InHand' <= InHand /\ Unread' <= Unread  BY <2>2, <2>4, <1>7
  <2>9. QED  BY <2>3, <2>4, <2>5, <2>7, <2>8, <1>1, BudgetFalls
<1>15. CASE ReopenIndentLevel
  <2>1. /\ UNCHANGED <<src, syntax, phase, indent, out>> /\ syntax = "Sass"
        /\ Top < st.currentIndent /\ st.currentIndent \in Nat
        /\ st'.pos = st.pos /\ st'.currentIndent = st.currentIndent
        /\ st'.indents = Append(st.indents, st.currentIndent)
    BY <1>1, <1>15 DEF ReopenIndentLevel, IndentSensitive, TypeOK
  <2>2. Top \in Nat  BY <1>1, <2>1, TopLevel
  <2>3. /\ Len(st'.indents) = Len(st.indents) + 1
        /\ Last(st'.indents) = st.currentIndent
    BY <1>1, <2>1, LevelPushed
  <2>4. Apart = 1 /\ Apart' = 0  BY <2>1, <2>2, <2>3 DEF Apart, Top, One
  <2>5. Rank' = Rank  BY <2>1 DEF Rank
  <2>6. QED  BY <2>1, <2>3, <2>4, <2>5, <1>1, <1>3, <1>5, <1>6, BudgetFalls
<1>16. QED
  BY <1>8, <1>9, <1>10, <1>11, <1>12, <1>13, <1>14, <1>15 DEF Next, Bump, Reader

\* Every source and every dialect: up to Eof each step of the tokenizer takes something
\* off a natural number, so that it neither loops without reading nor makes layout tokens
\* without end, whatever the parser asks for between two bumps.
THEOREM BumpsAreBounded == Spec => StepsBounded
<1>1. Core /\ Core' /\ [Next]_vars
        => [\/ AtEof \/ LineCommentsOff \/ LineCommentsRestored
            \/ Budget' \in Nat /\ Budget' < Budget]_vars
  BY BudgetStep
<1>2. QED  BY <1>1, CoreInv, PTL DEF Spec, StepsBounded

=============================================================================
