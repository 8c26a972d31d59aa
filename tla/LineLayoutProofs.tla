-------------------------- MODULE LineLayoutProofs --------------------------
(***************************************************************************)
(* On plain lines the tokenizer implements LineLayout, for every source: the *)
(* tokens that come out of its bytes are those the blocks of the indented    *)
(* syntax are parsed from.                                                  *)
(***************************************************************************)
EXTENDS TokenizerProofs

----------------------------------------------------------------------------
(***************************************************************************)
(* Lines.                                                                   *)
(***************************************************************************)
\* The lines whose content begins at or behind p.
LinesFrom(p) == {i \in LineFirsts : i >= p}

\* The next content behind p is the first of its line, and the line break is in front of p.
BegunAt(p) == \E c \in WsEnd(src, p) : c \in LineFirsts /\ LineStarts(src, p, c) = {}

LEMMA WsEndExists ==
    ASSUME NEW s \in Seq(ByteClass), NEW p \in Nat, p <= Len(s)
    PROVE  /\ WsEnd(s, p) # {}
           /\ \A c \in WsEnd(s, p), d \in WsEnd(s, p) : c = d
           /\ At(s, p) \notin Ws => p \in WsEnd(s, p)
<1>1. Len(s) \in Nat /\ At(s, Len(s)) = "eof"  BY AtIs
<1>2. Len(s) \in NonWs(s, p) /\ NonWs(s, p) \in SUBSET Nat  BY <1>1 DEF NonWs, Ws
<1>3. WsEnd(s, p) # {}  BY <1>2, FirstExists DEF WsEnd
<1>4. ASSUME NEW c \in WsEnd(s, p), NEW d \in WsEnd(s, p) PROVE c = d
  <2>1. c \in NonWs(s, p) /\ d \in NonWs(s, p) /\ c <= d /\ d <= c  BY FirstIs DEF WsEnd
  <2>2. QED  BY <1>2, <2>1
<1>5. At(s, p) \notin Ws => p \in WsEnd(s, p)  BY <1>1 DEF WsEnd, NonWs, First
<1>6. QED  BY <1>3, <1>4, <1>5

\* A run of blanks without a line boundary has no line break in it.
LEMMA NoLineBreak ==
    ASSUME NEW s \in Seq(ByteClass), NEW p \in Nat, NEW c \in WsEnd(s, p),
           LineStarts(s, p, c) = {}, NEW k \in p..(c - 1)
    PROVE  At(s, k) = "sp"
<1>1. c \in Nat /\ p <= c /\ At(s, k) \in Ws /\ k \in Nat  BY WsEndIs
<1>2. SUFFICES ASSUME At(s, k) \in Newline PROVE FALSE
  BY <1>1 DEF Ws, Newline
<1>3. c \in WsEnd(s, k)
  <2>1. c \in NonWs(s, p) /\ \A n \in NonWs(s, p) : c <= n  BY FirstIs DEF WsEnd
  <2>2. NonWs(s, k) \subseteq NonWs(s, p)  BY <1>1 DEF NonWs
  <2>3. c \in NonWs(s, k)  BY <1>1, <2>1 DEF NonWs
  <2>4. QED  BY <2>1, <2>2, <2>3 DEF WsEnd, First
<1>4. PICK b \in LineStarts(s, k, c) : TRUE  BY <1>1, <1>2, <1>3, LineStartExists
<1>5. b \in LineStarts(s, p, c)  BY <1>1, <1>4 DEF LineStarts
<1>6. QED  BY <1>5

\* Behind a run of blanks the same lines are ahead.
LEMMA BlanksAhead ==
    ASSUME src \in Seq(ByteClass), NEW p \in Nat, NEW c \in WsEnd(src, p)
    PROVE  /\ LinesFrom(c) = LinesFrom(p)
           /\ BegunAt(c) <=> c \in LineFirsts
           /\ BegunAt(p) <=> (c \in LineFirsts /\ LineStarts(src, p, c) = {})
<1>1. /\ c \in Nat /\ p <= c /\ c <= Len(src) /\ At(src, c) \notin Ws
      /\ \A k \in p..(c - 1) : At(src, k) \in Ws
  BY WsEndIs
<1>2. Len(src) \in Nat  BY AtIs
<1>3. LinesFrom(c) = LinesFrom(p)
  <2>1. ASSUME NEW i \in LineFirsts, i >= p PROVE i >= c
    <3>1. i \in Nat /\ At(src, i) \notin Ws  BY <1>2 DEF LineFirsts
    <3>2. ~(i \in p..(c - 1))  BY <1>1, <3>1
    <3>3. QED  BY <1>1, <2>1, <3>1, <3>2
  <2>2. ASSUME NEW i \in LineFirsts, i >= c PROVE i >= p  BY <1>1, <1>2, <2>2 DEF LineFirsts
  <2>3. QED  BY <2>1, <2>2 DEF LinesFrom
<1>4. LineStarts(src, c, c) = {}
  <2>1. (c + 1)..c = {}  BY <1>1
  <2>2. QED  BY <2>1 DEF LineStarts
<1>5. c \in WsEnd(src, c) /\ \A d \in WsEnd(src, c) : d = c  BY <1>1, WsEndExists
<1>6. \A d \in WsEnd(src, p) : d = c
  BY <1>1, <1>2, WsEndExists
<1>7. QED  BY <1>3, <1>4, <1>5, <1>6 DEF BegunAt

\* The content behind a line break is the first of its line, as wide as scan_indent
\* makes it.
LEMMA LineBehind ==
    ASSUME src \in Seq(ByteClass), NEW p \in Nat, NEW c \in WsEnd(src, p), c < Len(src),
           NEW b \in LineStarts(src, p, c)
    PROVE  c \in LineFirsts /\ WidthAt(c) = Width(c, b)
<1>1. /\ c \in Nat /\ p <= c /\ At(src, c) \notin Ws
      /\ \A k \in p..(c - 1) : At(src, k) \in Ws
  BY WsEndIs
<1>2. Len(src) \in Nat  BY AtIs
<1>3. /\ b \in Nat /\ p < b /\ b <= c /\ At(src, b - 1) \in Newline
      /\ \A m \in b..(c - 1) : At(src, m) \notin Newline
  BY <1>1 DEF LineStarts
<1>4. \A m \in b..(c - 1) : At(src, m) = "sp"  BY <1>1, <1>3 DEF Ws, Newline
<1>5. c \in LineFirsts
  <2>1. StartsLine(src, c)  BY <1>1, <1>3, <1>4 DEF StartsLine
  <2>2. QED  BY <1>1, <1>2, <2>1 DEF LineFirsts
<1> DEFINE Start(d) == /\ d = 0 \/ At(src, d - 1) \in Newline
                       /\ \A k \in d..(c - 1) : At(src, k) = "sp"
<1>6. b \in 0..c /\ Start(b)  BY <1>1, <1>3, <1>4
<1>7. ASSUME NEW d \in 0..c, Start(d) PROVE d = b
  <2>1. CASE d < b
    <3>1. b - 1 \in d..(c - 1)  BY <1>1, <1>3, <2>1
    <3>2. QED  BY <1>3, <1>7, <3>1 DEF Newline
  <2>2. CASE b < d
    <3>1. d - 1 \in b..(c - 1) /\ d # 0  BY <1>1, <1>3, <2>2
    <3>2. QED  BY <1>4, <1>7, <3>1 DEF Newline
  <2>3. QED  BY <1>1, <1>3, <2>1, <2>2
<1>8. (CHOOSE d \in 0..c : Start(d)) = b  BY <1>6, <1>7
<1>9. QED  BY <1>5, <1>8 DEF WidthAt, Width

\* A word is on one line, and so is what follows it up to the next line break.
LEMMA WordAhead ==
    ASSUME src \in Seq(ByteClass), NEW p \in Nat, NEW n \in Nat, p < n, n <= Len(src),
           \A k \in p..(n - 1) : At(src, k) \notin Ws
    PROVE  /\ LinesFrom(n) = LinesFrom(p) \ {p}
           /\ ~BegunAt(n)
           /\ BegunAt(p) <=> p \in LineFirsts
<1>1. Len(src) \in Nat  BY AtIs
<1>2. ASSUME NEW i \in Nat, p < i,
             \A k \in n..(i - 1) : At(src, k) = "sp", StartsLine(src, i)
      PROVE  FALSE
  <2>1. PICK b \in 0..i : /\ b = 0 \/ At(src, b - 1) \in Newline
                          /\ \A k \in b..(i - 1) : At(src, k) = "sp"
    BY <1>2 DEF StartsLine
  <2> DEFINE last == IF i <= n THEN i - 1 ELSE n - 1
  <2>2. last \in p..(n - 1) /\ last \in Nat /\ last < i  BY <1>2
  <2>3. At(src, last) \notin Ws  BY <2>2
  <2>4. CASE b <= last
    <3>1. last \in b..(i - 1)  BY <2>1, <2>2, <2>4
    <3>2. QED  BY <2>1, <2>3, <3>1 DEF Ws
  <2>5. CASE last < b
    <3>1. b # 0 /\ b - 1 \in Nat /\ b - 1 >= last  BY <2>1, <2>2, <2>5
    <3>2. At(src, b - 1) \in Newline  BY <2>1, <3>1
    <3>3. CASE b - 1 = last  BY <2>3, <3>2, <3>3 DEF Ws, Newline
    <3>4. CASE b - 1 > last
      <4>1. i > n /\ b - 1 \in n..(i - 1)  BY <1>2, <2>1, <2>2, <3>1, <3>4
      <4>2. QED  BY <1>2, <3>2, <4>1 DEF Newline
    <3>5. QED  BY <2>2, <3>1, <3>3, <3>4
  <2>6. QED  BY <2>1, <2>2, <2>4, <2>5
<1>3. LinesFrom(n) = LinesFrom(p) \ {p}
  <2>1. ASSUME NEW i \in LineFirsts, i >= p, i # p PROVE i >= n
    <3>1. i \in Nat /\ StartsLine(src, i)  BY <1>1, <2>1 DEF LineFirsts
    <3>2. SUFFICES ASSUME i < n PROVE FALSE
      BY <3>1
    <3>3. n..(i - 1) = {}  BY <3>1, <3>2
    <3>4. QED  BY <1>2, <2>1, <3>1, <3>2, <3>3
  <2>2. ASSUME NEW i \in LineFirsts, i >= n PROVE i >= p /\ i # p
    BY <1>1, <2>2 DEF LineFirsts
  <2>3. QED  BY <2>1, <2>2 DEF LinesFrom
<1>4. ~BegunAt(n)
  <2>1. SUFFICES ASSUME NEW c \in WsEnd(src, n), c \in LineFirsts, LineStarts(src, n, c) = {}
                 PROVE  FALSE
    BY DEF BegunAt
  <2>2. c \in Nat /\ n <= c  BY WsEndIs
  <2>3. \A k \in n..(c - 1) : At(src, k) = "sp"  BY <2>1, NoLineBreak
  <2>4. StartsLine(src, c)  BY <2>1 DEF LineFirsts
  <2>5. QED  BY <1>2, <2>2, <2>3, <2>4
<1>5. BegunAt(p) <=> p \in LineFirsts
  <2>1. At(src, p) \notin Ws /\ p <= Len(src)  BY <1>1
  <2>2. p \in WsEnd(src, p)  BY <2>1, WsEndExists
  <2>3. QED  BY <2>2, BlanksAhead
<1>6. QED  BY <1>3, <1>4, <1>5

\* The next line is the one whose content is ahead.
LEMMA NextLineAhead ==
    ASSUME TypeOK, NEW c \in WsEnd(src, st.pos), c \in LineFirsts
    PROVE  L!NextLine = c /\ c \in LinesFrom(st.pos)
<1> DEFINE left == {i \in LineFirsts : i >= st.pos}
<1>1. src \in Seq(ByteClass) /\ st.pos \in Nat /\ Len(src) \in Nat  BY Cursor
<1>2. c \in Nat /\ st.pos <= c  BY <1>1, WsEndIs
<1>3. LinesFrom(c) = LinesFrom(st.pos)  BY <1>1, BlanksAhead
<1>4. c \in left /\ \A i \in left : i \in Nat /\ c <= i
  BY <1>1, <1>2, <1>3 DEF LinesFrom, LineFirsts
<1>5. \A i \in left : (\A j \in left : i <= j) => i = c  BY <1>2, <1>4
<1>6. (CHOOSE i \in left : \A j \in left : i <= j) = c  BY <1>4, <1>5
<1>7. QED  BY <1>4, <1>6 DEF L!NextLine, LinesFrom

\* There is a first place that a line starts at, so its width is a number.
LEMMA WidthNat ==
    ASSUME src \in Seq(ByteClass), NEW i \in LineFirsts
    PROVE  WidthAt(i) \in Nat /\ i \in Nat /\ i < Len(src)
<1>1. Len(src) \in Nat  BY AtIs
<1>2. i \in Nat /\ i < Len(src) /\ StartsLine(src, i)  BY <1>1 DEF LineFirsts
<1> DEFINE Start(d) == /\ d = 0 \/ At(src, d - 1) \in Newline
                       /\ \A k \in d..(i - 1) : At(src, k) = "sp"
           start == CHOOSE d \in 0..i : Start(d)
<1>3. \E d \in 0..i : Start(d)  BY <1>2 DEF StartsLine
<1>4. start \in 0..i  BY <1>3
<1>5. WidthAt(i) = (i - start) % IndentMod  BY DEF WidthAt
<1> HIDE DEF start
<1>6. i - start \in Nat  BY <1>2, <1>4
<1>7. (i - start) % IndentMod \in Nat  BY <1>6, TokenizerAssumption
<1>8. QED  BY <1>2, <1>5, <1>7

\* The lines are those of the source.
LEMMA SameLines ==
    ASSUME src' = src
    PROVE  /\ LineFirsts' = LineFirsts
           /\ [i \in LineFirsts |-> WidthAt(i)]' = [i \in LineFirsts |-> WidthAt(i)]
           /\ {i \in LineFirsts : i >= st.pos}' = LinesFrom(st'.pos)
           /\ LineBegun' <=> BegunAt(st'.pos)
<1>1. LineFirsts' = LineFirsts  BY DEF LineFirsts
<1>2. \A i : WidthAt(i)' = WidthAt(i)  BY DEF WidthAt
<1>3. LineBegun' <=> BegunAt(st'.pos)  BY <1>1 DEF LineBegun, BegunAt
<1>4. {i \in LineFirsts : i >= st.pos}' = LinesFrom(st'.pos)  BY <1>1 DEF LinesFrom
<1>5. QED  BY <1>1, <1>2, <1>3, <1>4

----------------------------------------------------------------------------
(***************************************************************************)
(* Words.                                                                   *)
(***************************************************************************)
PlainByte == {"name", "sp", "nl", "cr", "slash", "star", "hash", "at", "punct"}

WordKind == {"Ident", "Hash", "AtKeyword", "Punct"}

LEMMA PlainBytes ==
    ASSUME Plain, src \in Seq(ByteClass), NEW i \in Nat
    PROVE  /\ At(src, i) \in PlainByte \cup {"eof"}
           /\ At(src, i) = "eof" <=> i >= Len(src)
           /\ ~CommentStart(src, i)
<1>1. /\ Len(src) \in Nat
      /\ i >= Len(src) => At(src, i) = "eof"
  BY AtIs
<1>2. CASE i < Len(src)
  <2>1. i \in 0..(Len(src) - 1)  BY <1>1, <1>2
  <2>2. QED  BY <1>2, <2>1 DEF Plain, PlainByte
<1>3. CASE i >= Len(src)  BY <1>1, <1>3 DEF CommentStart
<1>4. QED  BY <1>1, <1>2, <1>3

\* Names without escapes.
LEMMA PlainIdent ==
    ASSUME Plain, src \in Seq(ByteClass), NEW kind \in WordKind, NEW p \in Nat, NEW i \in Nat,
           p <= i, i < Len(src), At(src, i) \in IdentStart,
           NEW t \in IdentLike(src, kind, p, i)
    PROVE  /\ t = Outcome(kind, p, t.next, t.next) /\ t.next \in Nat
           /\ i < t.next /\ t.next <= Len(src)
           /\ \A k \in i..(t.next - 1) : At(src, k) \notin Ws
<1>1. PICK e \in First(IdentStops(src, i)) :
         t = IF e = Len(src) /\ Escaped(src, i, e) THEN Outcome("Err", p, e, e)
                                                   ELSE Outcome(kind, p, e, e)
  BY DEF IdentLike
<1>2. e \in Nat /\ i <= e /\ e <= Len(src) /\ Len(src) \in Nat  BY IdentStop, AtIs
<1>3. ASSUME NEW k \in Nat, i <= k PROVE ~Escaped(src, i, k)
  <2> DEFINE M == {m \in i..(k - 1) : \A n \in m..(k - 1) : At(src, n) = "bslash"}
  <2>1. ASSUME NEW m \in M PROVE FALSE
    <3>1. m \in Nat /\ m \in m..(k - 1) /\ At(src, m) = "bslash"  BY <1>3
    <3>2. QED  BY <3>1, PlainBytes DEF PlainByte
  <2>2. Cardinality(M) = 0  BY <2>1, FS_EmptySet
  <2>3. Escaped(src, i, k) <=> Cardinality(M) % 2 = 1  BY DEF Escaped
  <2>4. QED  BY <2>2, <2>3
<1>4. t = Outcome(kind, p, e, e)  BY <1>1, <1>2, <1>3
<1>5. t.next = e  BY <1>4 DEF Outcome
<1>6. e \in IdentStops(src, i) /\ \A k \in IdentStops(src, i) : e <= k  BY FirstIs
<1>7. i # e
  <2>1. ~(i \in IdentStops(src, i))
    BY <1>2 DEF IdentStops, IdentStart
  <2>2. QED  BY <1>6, <2>1
<1>8. ASSUME NEW k \in i..(e - 1) PROVE At(src, k) \notin Ws
  <2>1. k \in Nat /\ k \in i..Len(src) /\ k # Len(src) /\ ~(e <= k)  BY <1>2
  <2>2. At(src, k) \in {"name", "bslash"}  BY <1>3, <1>6, <2>1 DEF IdentStops
  <2>3. QED  BY <2>2 DEF Ws
<1>9. QED  BY <1>2, <1>4, <1>5, <1>7, <1>8

\* The dispatch on plain bytes: a word where there is content, which ends before the
\* next blank.
LEMMA PlainLex ==
    ASSUME Plain, src \in Seq(ByteClass), NEW p \in Nat, p <= Len(src),
           NEW t \in Lex(src, syntax, p)
    PROVE  /\ p = Len(src) => t = Outcome("Eof", p, p, p)
           /\ At(src, p) \in Ws => t.kind = "Err"
           /\ p < Len(src) /\ At(src, p) \notin Ws =>
                /\ t.kind \in WordKind /\ t.next \in Nat /\ p < t.next /\ t.next <= Len(src)
                /\ \A k \in p..(t.next - 1) : At(src, k) \notin Ws
<1> DEFINE b == At(src, p)
           c == At(src, p + 1)
<1>1. /\ b \in PlainByte \cup {"eof"} /\ c \in PlainByte \cup {"eof"}
      /\ b = "eof" <=> p >= Len(src)
      /\ c = "eof" <=> p + 1 >= Len(src)
      /\ Len(src) \in Nat /\ syntax = "Sass"
  BY PlainBytes, AtIs DEF Plain
<1>2. CASE b = "eof"
  <2>1. t = Outcome("Eof", p, p, p)  BY <1>2 DEF Lex, IdentStart, Ws
  <2>2. QED  BY <1>1, <1>2, <2>1 DEF Ws
<1>3. CASE b \in IdentStart
  <2>1. t \in IdentLike(src, "Ident", p, p)  BY <1>3 DEF Lex, IdentStart, Ws
  <2>2. p < Len(src)  BY <1>1, <1>3 DEF IdentStart
  <2>3. t.kind = "Ident" /\ t.next \in Nat /\ p < t.next /\ t.next <= Len(src)
        /\ \A k \in p..(t.next - 1) : At(src, k) \notin Ws
    BY <1>3, <2>1, <2>2, PlainIdent DEF WordKind, Outcome
  <2>4. QED  BY <1>3, <2>2, <2>3 DEF WordKind, Ws, IdentStart
<1>4. CASE b \in {"hash", "at"} /\ c \in IdentStart
  <2>1. PICK kind \in {"Hash", "AtKeyword"} : t \in IdentLike(src, kind, p, p + 1)
    BY <1>4 DEF Lex, IdentStart, Ws
  <2>2. p + 1 < Len(src)  BY <1>1, <1>4 DEF IdentStart
  <2>3. t.kind = kind /\ t.next \in Nat /\ p + 1 < t.next /\ t.next <= Len(src)
        /\ \A k \in (p + 1)..(t.next - 1) : At(src, k) \notin Ws
    BY <1>4, <2>1, <2>2, PlainIdent DEF WordKind, Outcome
  <2>4. \A k \in p..(t.next - 1) : At(src, k) \notin Ws
    <3>1. SUFFICES ASSUME NEW k \in p..(t.next - 1), k # p PROVE At(src, k) \notin Ws
      BY <1>4 DEF Ws
    <3>2. k \in (p + 1)..(t.next - 1)  BY <3>1, <2>3
    <3>3. QED  BY <2>3, <3>2
  <2>5. QED  BY <1>4, <2>2, <2>3, <2>4 DEF WordKind, Ws
<1>5. CASE b \in Ws
  <2>1. t = Outcome("Err", p, p + 1, p + 1)  BY <1>5 DEF Lex, Ws, IdentStart
  <2>2. QED  BY <1>1, <1>5, <2>1 DEF Ws, Outcome
<1>6. CASE b \in {"slash", "star", "punct", "hash", "at"} /\ ~(b \in {"hash", "at"} /\ c \in IdentStart)
  <2>1. t = Outcome(IF b \in {"hash", "at"} THEN "Punct" ELSE Delimiter[b], p, p + 1, p + 1)
    <3>1. c # "lbrace"  BY <1>1 DEF PlainByte
    <3>2. QED  BY <1>6, <3>1 DEF Lex, Ws, IdentStart
  <2>2. t.kind = "Punct" /\ t.next = p + 1
    BY <1>6, <2>1 DEF Outcome, Delimiter, ByteClass
  <2>3. p < Len(src) /\ p + 1 <= Len(src)  BY <1>1, <1>6
  <2>4. \A k \in p..((p + 1) - 1) : k = p  OBVIOUS
  <2>5. QED  BY <1>6, <2>2, <2>3, <2>4 DEF WordKind, Ws
<1>7. b \in {"eof"} \cup IdentStart \cup Ws \cup {"slash", "star", "punct", "hash", "at"}
  BY <1>1 DEF PlainByte, IdentStart, Ws
<1>8. QED  BY <1>2, <1>3, <1>4, <1>5, <1>6, <1>7

----------------------------------------------------------------------------
(***************************************************************************)
(* What the tokenizer does on plain lines.                                  *)
(***************************************************************************)
\* Nothing on a plain line opens a group, and no piece of a string is awaited.
PlainState ==
    /\ Plain /\ comments = <<>> /\ st.parenDepth = 0
    /\ Emitted => Last(out).kind \in WordKind \cup Layout

\* Levels are left over only for a line whose break has been read.
Leftovers == (Top > st.currentIndent /\ st.pos < Len(src)) => LineBegun

\* What is known of a state on plain lines from the invariants of the tokenizer.
OnPlainLine ==
    /\ Core /\ PlainState
    /\ LevelsClosed /\ DedentsBeforeContent /\ NothingOverwritten /\ DedentPerLevel

TokenName(kind) ==
    CASE kind = "Indent" -> "indent"
      [] kind = "Dedent" -> "dedent"
      [] kind = "Linebreak" -> "linebreak"
      [] kind = "Eof" -> "eof"
      [] OTHER -> "word"

MadeOf(tokens, inHand, doing) ==
    LET made == tokens \o inHand
    IN  IF made = <<>> \/ (doing = "skip" /\ inHand = <<>>) THEN "none"
        ELSE TokenName(Last(made).kind)

LEMMA MadeIs == Made = MadeOf(out, indent, phase) /\ Made' = MadeOf(out', indent', phase')
  BY DEF Made, MadeOf, TokenName

LEMMA MadeOfIs ==
    ASSUME NEW tokens \in Seq(Token), NEW doing
    PROVE  /\ MadeOf(tokens, <<>>, doing) =
                IF tokens = <<>> \/ doing = "skip" THEN "none" ELSE TokenName(Last(tokens).kind)
           /\ \A t \in Token : MadeOf(tokens, <<t>>, doing) = TokenName(t.kind)
<1>1. tokens \o <<>> = tokens  BY ConcatEmptySeq
<1>2. ASSUME NEW t \in Token PROVE MadeOf(tokens, <<t>>, doing) = TokenName(t.kind)
  <2>1. tokens \o <<t>> = Append(tokens, t)  BY AppendIsConcat
  <2>2. Append(tokens, t) # <<>> /\ Last(Append(tokens, t)) = t  BY PushProperties
  <2>3. <<t>> # <<>>  OBVIOUS
  <2>4. QED  BY <2>1, <2>2, <2>3 DEF MadeOf
<1>3. QED  BY <1>1, <1>2 DEF MadeOf

\* The token that is returned is the one made last.
LEMMA MadeReturned ==
    ASSUME Records, NEW t \in Token, Emit(t), indent' = <<>>, phase' # "skip"
    PROVE  Made' = TokenName(t.kind)
<1>1. out' \in Seq(Token) /\ out' # <<>> /\ Last(out') = Last(out)' /\ Last(out)'.kind = t.kind
  BY EmitAppends DEF Emitted, Last
<1>2. QED  BY <1>1, MadeOfIs, MadeIs

\* A word, or the end of the source.
WordRead(t) ==
    /\ t.kind \in WordKind \cup {"Eof"}
    /\ Emit(t) /\ phase' = "idle" /\ indent = <<>> /\ UNCHANGED <<src, syntax, comments, indent>>
    /\ st'.pos = t.next /\ st'.parenDepth = 0
    /\ st'.indents = st.indents /\ st'.currentIndent = st.currentIndent
    /\ t.kind \in WordKind => Top <= st.currentIndent
    /\ \/ t.kind = "Eof" /\ st.pos = Len(src) /\ t.next = Len(src)
       \/ /\ t.kind \in WordKind /\ st.pos < t.next /\ t.next <= Len(src)
          /\ \A k \in st.pos..(t.next - 1) : At(src, k) \notin Ws

LEMMA PlainRead ==
    ASSUME OnPlainLine, BumpToken \/ BumpWithoutWs
    PROVE  Rejected \/ \E t \in Token : WordRead(t)
<1>1. /\ Core /\ TypeOK /\ Flow /\ PlainState /\ comments = <<>> /\ syntax = "Sass"
      /\ LevelsClosed /\ DedentsBeforeContent
  BY DEF OnPlainLine, Core, PlainState, Plain
<1>2. src \in Seq(ByteClass) /\ st.pos \in Nat /\ st.pos <= Len(src) /\ Len(src) \in Nat
  BY <1>1, Cursor
<1>3. PICK t \in Lex(src, syntax, st.pos) :
         Accept(t) /\ UNCHANGED <<src, syntax, comments, indent, reopened>>
  BY DEF BumpToken, BumpWithoutWs
<1>4. indent = <<>>  BY <1>1, ReaderFrom DEF Reader
<1>5. SUFFICES ASSUME ~Rejected PROVE \E u \in Token : WordRead(u)
  OBVIOUS
<1>6. Read(t) /\ t.start = st.pos  BY <1>1, <1>3, <1>5, LexAccepted
<1>7. /\ t \in Token /\ t.next \in 0..Len(src) /\ Moved(st', t.next)
      /\ Emit(t) /\ phase' = "idle" /\ t.kind # "Err"
  BY <1>1, <1>6, ReadMoves DEF Read, ReadAt
<1>8. \/ t.kind = "Eof" /\ st.pos = Len(src) /\ t.next = Len(src)
      \/ /\ t.kind \in WordKind /\ st.pos < t.next /\ t.next <= Len(src)
         /\ \A k \in st.pos..(t.next - 1) : At(src, k) \notin Ws
  <2>1. Plain  BY <1>1 DEF PlainState
  <2>2. CASE st.pos = Len(src)
    <3>1. t = Outcome("Eof", st.pos, st.pos, st.pos)  BY <1>2, <2>1, <2>2, PlainLex
    <3>2. QED  BY <2>2, <3>1 DEF Outcome
  <2>3. CASE st.pos < Len(src)
    <3>1. At(src, st.pos) \notin Ws  BY <1>2, <1>7, <2>1, PlainLex
    <3>2. QED  BY <1>2, <2>1, <2>3, <3>1, PlainLex
  <2>4. QED  BY <1>2, <2>2, <2>3
<1>9. t.kind \in WordKind \cup {"Eof"}  BY <1>8
<1>10. st' = Depths(t)
  <2>1. DispatchRead(t) \/ UrlRead(t)  BY <1>6 DEF Read
  <2>2. QED  BY <1>9, <2>1 DEF DispatchRead, UrlRead, WordKind
<1>11. st'.parenDepth = 0
  <2>1. st'.parenDepth = ParenAfter(t)  BY <1>1, <1>7, <1>10, DepthsAre
  <2>2. st.parenDepth = 0  BY <1>1 DEF PlainState
  <2>3. QED  BY <1>9, <2>1, <2>2 DEF ParenAfter, WordKind
<1>12. t.kind \in WordKind => Top <= st.currentIndent
  <2> SUFFICES ASSUME t.kind \in WordKind PROVE Top <= st.currentIndent
    OBVIOUS
  <2>1. OnlyLineComments
    <3>1. Len(comments) = 0  BY <1>1, EmptySeq
    <3>2. QED  BY <3>1 DEF OnlyLineComments
  <2>2. st.pos # Len(src)  BY <1>2, <1>7, <1>8 DEF WordKind
  <2>3. CASE BumpToken  BY <1>1, <2>1, <2>2, <2>3 DEF BumpToken, Skipped, LevelsClosed
  <2>4. CASE BumpWithoutWs  BY <1>1, <2>1, <2>4 DEF BumpWithoutWs, DedentsBeforeContent
  <2>5. QED  BY <2>3, <2>4
<1>13. WordRead(t)  BY <1>3, <1>4, <1>7, <1>8, <1>9, <1>11, <1>12 DEF WordRead, Moved
<1>14. QED  BY <1>7, <1>13

\* The two outcomes of scan_indent in front of content, and the one at the end.
PlainEnd ==
    /\ st'.pos = Len(src) /\ st'.indents = st.indents /\ st'.currentIndent = st.currentIndent
    /\ Made' = "eof" /\ Len(src) \in WsEnd(src, st.pos)

PlainBlanks(c) ==
    /\ c < Len(src) /\ LineStarts(src, st.pos, c) = {} /\ st'.pos = c
    /\ st'.indents = st.indents /\ st'.currentIndent = st.currentIndent
    /\ Made' = "none"

PlainBreak(c, b) ==
    /\ c < Len(src) /\ b \in LineStarts(src, st.pos, c) /\ st'.pos = c
    /\ st'.currentIndent = Width(c, b) /\ st'.indents = Levels(Width(c, b))
    /\ Made' = IF Width(c, b) > Top THEN "indent"
               ELSE IF Width(c, b) < Top THEN "dedent" ELSE "linebreak"

LEMMA PlainIndent ==
    ASSUME OnPlainLine, ScanIndent
    PROVE  /\ UNCHANGED <<src, syntax, comments, phase, out>> /\ st'.parenDepth = 0
           /\ Made = "none" /\ Top <= st.currentIndent
           /\ \/ PlainEnd
              \/ \E c \in WsEnd(src, st.pos) :
                    PlainBlanks(c) \/ \E b \in LineStarts(src, st.pos, c) : PlainBreak(c, b)
<1>1. TypeOK /\ Records /\ Flow /\ IndentStack /\ syntax = "Sass" /\ st.parenDepth = 0 /\ comments = <<>>
  BY DEF OnPlainLine, Core, PlainState, Plain
<1>2. src \in Seq(ByteClass) /\ st.pos \in Nat /\ st.pos <= Len(src) /\ Len(src) \in Nat
  BY <1>1, Cursor
<1>3. phase = "skip" /\ At(src, st.pos) \in Ws
      /\ UNCHANGED <<src, syntax, comments, phase, out>>
  BY DEF ScanIndent
<1>4. indent = <<>>  BY <1>1, <1>3 DEF OnPlainLine, NothingOverwritten
<1>5. out \in Seq(Token)  BY <1>1 DEF Records
<1>6. Made = "none"  BY <1>3, <1>4, <1>5, MadeIs, MadeOfIs
<1>7. Top <= st.currentIndent
  <2>1. OnlyLineComments
    <3>1. Len(comments) = 0  BY <1>1, EmptySeq
    <3>2. QED  BY <3>1 DEF OnlyLineComments
  <2>2. st.pos # Len(src)  BY <1>2, <1>3, AtIs DEF Ws
  <2>3. QED  BY <1>1, <1>3, <1>4, <2>1, <2>2 DEF OnPlainLine, LevelsClosed
<1>8. PICK c \in WsEnd(src, st.pos) :
         IF c = Len(src) THEN IndentAtEof(c)
         ELSE IF LineStarts(src, st.pos, c) = {} THEN IndentNone(c)
         ELSE \E b \in LineStarts(src, st.pos, c) : IndentLine(c, b)
  BY DEF ScanIndent, IndentAtEof, IndentNone, IndentLine, Width
<1>9. c \in Nat /\ c <= Len(src) /\ c \in 0..Len(src)  BY <1>2, WsEndIs
<1>10. CASE IndentAtEof(c)
  <2>1. "Eof" \in Kind  BY DEF Kind, LexKind
  <2>2. PICK t \in Token : t = Outcome("Eof", c, c, c) /\ t.kind = "Eof"
    BY <1>9, <2>1, OutcomeIs
  <2>3. Made' = "eof"
    <3>1. indent' = <<t>> /\ out' = out  BY <1>3, <1>10, <2>2 DEF IndentAtEof
    <3>2. QED  BY <1>5, <2>2, <3>1, MadeIs, MadeOfIs DEF TokenName
  <2>4. QED
    BY <1>1, <1>3, <1>6, <1>7, <1>9, <1>10, <2>3, CursorMoved DEF IndentAtEof, PlainEnd
<1>11. CASE c # Len(src) /\ LineStarts(src, st.pos, c) = {} /\ IndentNone(c)
  <2>1. Made' = "none"
    <3>1. indent' = <<>> /\ out' = out /\ phase' = "skip"  BY <1>3, <1>11 DEF IndentNone
    <3>2. QED  BY <1>5, <3>1, MadeIs, MadeOfIs
  <2>2. PlainBlanks(c)
    BY <1>1, <1>2, <1>9, <1>11, <2>1, CursorMoved DEF IndentNone, PlainBlanks
  <2>3. st'.parenDepth = 0  BY <1>1, <1>9, <1>11, CursorMoved DEF IndentNone
  <2>4. QED  BY <1>3, <1>6, <1>7, <2>2, <2>3
<1>12. CASE c # Len(src) /\ \E b \in LineStarts(src, st.pos, c) : IndentLine(c, b)
  <2>1. PICK b \in LineStarts(src, st.pos, c) : IndentLine(c, b)  BY <1>12
  <2>2. Width(c, b) \in Nat /\ st'.pos = c /\ st'.currentIndent = Width(c, b)
        /\ st'.indents = Levels(Width(c, b)) /\ st'.parenDepth = 0
    BY <1>1, <2>1, LineState
  <2>3. PICK t \in Token : t = IndentToken(Width(c, b), b, c)
    BY <1>1, <2>2, LineAhead
  <2>4. Made' = TokenName(t.kind)
    <3>1. indent' = <<t>> /\ out' = out  BY <1>3, <2>1, <2>3 DEF IndentLine
    <3>2. QED  BY <1>5, <3>1, MadeIs, MadeOfIs
  <2>5. Top \in Nat  BY <1>1, TopLevel
  <2>6. t.kind = IF Width(c, b) > Top THEN "Indent"
                 ELSE IF Width(c, b) < Top THEN "Dedent" ELSE "Linebreak"
    BY <2>2, <2>3, <2>5 DEF IndentToken, Outcome
  <2>7. Made' = IF Width(c, b) > Top THEN "indent"
                ELSE IF Width(c, b) < Top THEN "dedent" ELSE "linebreak"
    BY <2>4, <2>6 DEF TokenName
  <2>8. PlainBreak(c, b)  BY <1>2, <1>9, <1>12, <2>2, <2>7 DEF PlainBreak
  <2>9. QED  BY <1>3, <1>6, <1>7, <2>2, <2>8
<1>13. QED  BY <1>8, <1>10, <1>11, <1>12

\* A step that leaves the cursor and the levels where they are, and at most looks for
\* the next token.
Still ==
    /\ UNCHANGED <<src, syntax, comments>>
    /\ st'.pos = st.pos /\ st'.indents = st.indents /\ st'.currentIndent = st.currentIndent
    /\ st'.parenDepth = st.parenDepth
    /\ Made' \in {Made, "none"}
    /\ Emitted' => Last(out)'.kind \in WordKind \cup Layout

LEMMA PlainSteps ==
    ASSUME OnPlainLine, [Next]_vars
    PROVE  \/ Still \/ BumpPendingDedent \/ ScanIndent \/ ReopenIndentLevel
           \/ \E t \in Token : WordRead(t)
<1>1. /\ TypeOK /\ Records /\ Flow /\ Core /\ PlainState /\ syntax = "Sass" /\ st.parenDepth = 0
      /\ Emitted => Last(out).kind \in WordKind \cup Layout
  BY DEF OnPlainLine, Core, PlainState, Plain
<1>2. src \in Seq(ByteClass) /\ st.pos \in Nat /\ out \in Seq(Token)  BY <1>1, Cursor DEF Records
<1>3. ~CommentStart(src, st.pos)  BY <1>1, <1>2, PlainBytes DEF PlainState
<1>4. CASE BumpToken \/ BumpWithoutWs
  <2>1. CASE Rejected
    <3>1. indent = <<>>  BY <1>1, <1>4, ReaderFrom DEF Reader
    <3>2. UNCHANGED <<src, syntax, st, comments, indent, out>> /\ phase' = "failed"
      BY <2>1 DEF Rejected
    <3>3. Made' = IF out = <<>> THEN "none" ELSE TokenName(Last(out).kind)
      BY <1>2, <3>1, <3>2, MadeIs, MadeOfIs
    <3>4. Made \in {Made', "none"}  BY <1>2, <3>1, <3>3, MadeIs, MadeOfIs
    <3>5. phase = "skip" => ~CommentStart(src, st.pos)  BY <1>3
    <3>6. CASE phase = "idle"
      <4>1. Made' = Made  BY <1>2, <3>1, <3>3, <3>6, MadeIs, MadeOfIs
      <4>2. QED  BY <1>1, <3>2, <4>1 DEF Still, Emitted
    <3>7. CASE phase = "skip"
      <4>1. BumpToken /\ At(src, st.pos) \notin Ws  BY <1>4, <3>7 DEF BumpToken, BumpWithoutWs, Skipped
      <4>2. PICK t \in Lex(src, syntax, st.pos) : Accept(t)  BY <4>1 DEF BumpToken
      <4>3. t.kind \in WordKind \cup {"Eof"}
        <5>1. st.pos <= Len(src) /\ Len(src) \in Nat  BY <1>1, Cursor
        <5>2. CASE st.pos = Len(src)
          <6>1. t = Outcome("Eof", st.pos, st.pos, st.pos)
            BY <1>1, <1>2, <5>1, <5>2, PlainLex DEF PlainState
          <6>2. QED  BY <6>1 DEF Outcome
        <5>3. CASE st.pos < Len(src)  BY <1>1, <1>2, <4>1, <5>1, <5>3, PlainLex DEF PlainState
        <5>4. QED  BY <5>1, <1>2, <5>2, <5>3
      <4>4. phase' = "idle"  BY <4>2, <4>3 DEF Accept, Closes, WordKind
      <4>5. QED  BY <3>2, <4>4
    <3>8. QED  BY <1>1, <1>4, <3>6, <3>7, ReaderFrom DEF Reader
  <2>2. QED  BY <1>1, <1>4, <2>1, PlainRead
<1>5. ~(ScanStringTemplate \/ ScanUrlRawOrTemplate \/ ScanUrlTemplate)
  <2>1. Emitted => Last(out).kind \notin {"RBrace", "LParen"}  BY <1>1 DEF WordKind, Layout
  <2>2. resume = "none"  BY <1>1, <2>1 DEF Flow
  <2>3. Len(<<>>) = 0  OBVIOUS
  <2>4. Len(out) >= 2 => Emitted  BY <2>3 DEF Emitted
  <2>5. QED  BY <2>1, <2>2, <2>4 DEF ScanStringTemplate, ScanUrlRawOrTemplate, ScanUrlTemplate
<1>6. ~(SkipWs \/ ScanBlockComment \/ ScanLineComment)
  BY <1>1, <1>3 DEF SkipWs, ScanBlockComment, ScanLineComment, IndentSensitive
<1>7. CASE BumpStart
  <2>1. indent' = <<>> /\ phase' = "skip" /\ UNCHANGED <<src, syntax, st, comments, out>>
    BY <1>7 DEF BumpStart
  <2>2. Made' = "none"  BY <1>2, <2>1, MadeIs, MadeOfIs
  <2>3. QED  BY <1>1, <2>1, <2>2 DEF Still, Emitted
<1>8. CASE BumpLayout
  <2>1. PICK t \in Token : indent = <<t>> /\ t = indent[1] /\ t.kind \in Layout
    BY <1>1, <1>8 DEF BumpLayout, Records
  <2>2. Emit(t) /\ indent' = <<>> /\ phase' = "idle" /\ UNCHANGED <<src, syntax, st, comments>>
    BY <1>8, <2>1 DEF BumpLayout
  <2>3. Made' = TokenName(t.kind)  BY <1>1, <2>2, MadeReturned
  <2>4. Made = TokenName(t.kind)  BY <1>2, <2>1, MadeIs, MadeOfIs
  <2>5. Last(out)'.kind = t.kind  BY <1>1, <2>2, EmitAppends
  <2>6. QED  BY <2>1, <2>2, <2>3, <2>4, <2>5 DEF Still
<1>9. CASE LineCommentsOff \/ LineCommentsRestored
  <2>1. UNCHANGED <<src, syntax, comments, phase, indent, out>>
        /\ st'.pos = st.pos /\ st'.indents = st.indents /\ st'.currentIndent = st.currentIndent
        /\ st'.parenDepth = st.parenDepth
    BY <1>1, <1>9 DEF LineCommentsOff, LineCommentsRestored, TypeOK
  <2>2. Made' = Made  BY <2>1, MadeIs
  <2>3. QED  BY <1>1, <2>1, <2>2 DEF Still, Emitted
<1>10. CASE UNCHANGED vars
  <2>1. Made' = Made  BY <1>10, MadeIs DEF vars
  <2>2. QED  BY <1>1, <1>10, <2>1 DEF vars, Still, Emitted
<1>11. QED  BY <1>4, <1>5, <1>6, <1>7, <1>8, <1>9, <1>10 DEF Next, Bump

LEMMA ReopenMoves ==
    ASSUME Core, ReopenIndentLevel
    PROVE  /\ UNCHANGED <<src, syntax, comments, phase, indent, out>>
           /\ st'.pos = st.pos /\ st'.currentIndent = st.currentIndent
           /\ st'.indents = Append(st.indents, st.currentIndent)
           /\ st'.parenDepth = st.parenDepth /\ Top < st.currentIndent
  BY DEF ReopenIndentLevel, Core, TypeOK

LEMMA PlainInit == Init /\ Plain => PlainState
  BY DEF Init, PlainState, Emitted

LEMMA PlainStateStep == OnPlainLine /\ [Next]_vars => PlainState'
<1> SUFFICES ASSUME OnPlainLine, [Next]_vars PROVE PlainState'
  OBVIOUS
<1>1. /\ Core /\ Records /\ Plain /\ comments = <<>> /\ st.parenDepth = 0
      /\ Emitted => Last(out).kind \in WordKind \cup Layout
  BY DEF OnPlainLine, Core, PlainState
<1>2. UNCHANGED <<src, syntax>> => Plain'  BY <1>1 DEF Plain
<1>3. CASE Still  BY <1>1, <1>2, <1>3 DEF Still, PlainState
<1>4. CASE BumpPendingDedent
  <2>1. PICK t \in Token : t = Outcome("Dedent", st.pos, st.pos, st.pos) /\ Emit(t)
    BY <1>1, <1>4, PendingDedentMoves
  <2>2. Last(out)'.kind = "Dedent"  BY <1>1, <2>1, EmitAppends DEF Outcome
  <2>3. UNCHANGED <<src, syntax, comments>> /\ st'.parenDepth = 0
    BY <1>1, <1>4, PendingDedentMoves
  <2>4. QED  BY <1>1, <1>2, <2>2, <2>3 DEF PlainState, Layout
<1>5. CASE ScanIndent
  <2>1. UNCHANGED <<src, syntax, comments, out>> /\ st'.parenDepth = 0  BY <1>5, PlainIndent
  <2>2. QED  BY <1>1, <1>2, <2>1 DEF PlainState, Emitted
<1>6. CASE ReopenIndentLevel
  <2>1. UNCHANGED <<src, syntax, comments, out>> /\ st'.parenDepth = 0  BY <1>1, <1>6, ReopenMoves
  <2>2. QED  BY <1>1, <1>2, <2>1 DEF PlainState, Emitted
<1>7. CASE \E t \in Token : WordRead(t)
  <2>1. PICK t \in Token : WordRead(t)  BY <1>7
  <2>2. Last(out)'.kind = t.kind  BY <1>1, <2>1, EmitAppends DEF WordRead
  <2>3. QED  BY <1>1, <1>2, <2>1, <2>2 DEF WordRead, PlainState, Layout
<1>8. QED  BY <1>3, <1>4, <1>5, <1>6, <1>7, PlainSteps

----------------------------------------------------------------------------
(***************************************************************************)
(* Every step of the tokenizer on plain lines is one of LineLayout's.        *)
(***************************************************************************)
LEMMA LeftoversInitially == Init /\ Plain => Leftovers
<1> SUFFICES ASSUME Init, Plain PROVE Leftovers
  OBVIOUS
<1>1. st.indents = <<0>> /\ st.currentIndent = 0  BY DEF Init, Plain
<1>2. Top = 0  BY <1>1 DEF Top, Last
<1>3. QED  BY <1>1, <1>2 DEF Leftovers

LEMMA LeftoversStep == OnPlainLine /\ Leftovers /\ [Next]_vars => Leftovers'
<1> SUFFICES ASSUME OnPlainLine, Leftovers, [Next]_vars PROVE Leftovers'
  OBVIOUS
<1>1. /\ Core /\ TypeOK /\ IndentStack /\ syntax = "Sass" /\ comments = <<>>
  BY DEF OnPlainLine, Core, PlainState, Plain
<1>2. /\ src \in Seq(ByteClass) /\ st.pos \in Nat /\ st.pos <= Len(src) /\ Len(src) \in Nat
      /\ Top \in Nat /\ st.currentIndent \in Nat /\ st.indents \in Seq(Nat) /\ st.indents # <<>>
  BY <1>1, Cursor, TopLevel DEF TypeOK
<1>3. LineBegun <=> BegunAt(st.pos)  BY DEF LineBegun, BegunAt
<1>4. CASE Still
  <2>1. Top' = Top  BY <1>4 DEF Still, Top
  <2>2. LineBegun' <=> LineBegun  BY <1>3, <1>4, SameLines DEF Still
  <2>3. QED  BY <1>4, <2>1, <2>2 DEF Still, Leftovers
<1>5. CASE BumpPendingDedent
  <2>1. src' = src /\ st'.pos = st.pos /\ Top > st.currentIndent /\ st.pos < Len(src)
    BY <1>1, <1>5, PendingDedentMoves
  <2>2. QED  BY <1>3, <2>1, SameLines DEF Leftovers
<1>6. CASE ScanIndent
  <2>1. src' = src /\ Top <= st.currentIndent  BY <1>6, PlainIndent
  <2>2. CASE PlainEnd
    <3>1. ~(st'.pos < Len(src'))  BY <1>2, <2>1, <2>2 DEF PlainEnd
    <3>2. QED  BY <3>1 DEF Leftovers
  <2>3. CASE \E c \in WsEnd(src, st.pos) : PlainBlanks(c)
    <3>1. Top' = Top /\ st'.currentIndent = st.currentIndent  BY <2>3 DEF PlainBlanks, Top
    <3>2. QED  BY <1>2, <2>1, <3>1 DEF Leftovers
  <2>4. CASE \E c \in WsEnd(src, st.pos) : \E b \in LineStarts(src, st.pos, c) : PlainBreak(c, b)
    <3>0. PICK c \in WsEnd(src, st.pos) : \E b \in LineStarts(src, st.pos, c) : PlainBreak(c, b)
      BY <2>4
    <3>1. PICK b \in LineStarts(src, st.pos, c) : PlainBreak(c, b)  BY <3>0
    <3>2. BegunAt(c)  BY <1>2, <3>1, LineBehind, BlanksAhead DEF PlainBreak
    <3>3. QED  BY <2>1, <3>1, <3>2, SameLines DEF PlainBreak, Leftovers
  <2>5. QED  BY <1>6, <2>2, <2>3, <2>4, PlainIndent
<1>7. CASE ReopenIndentLevel
  <2>1. st'.indents = Append(st.indents, st.currentIndent) /\ st'.currentIndent = st.currentIndent
    BY <1>1, <1>7, ReopenMoves
  <2>2. Top' = st.currentIndent  BY <1>2, <2>1, PushProperties DEF Top
  <2>3. QED  BY <1>2, <2>1, <2>2 DEF Leftovers
<1>8. CASE \E t \in Token : WordRead(t)
  <2>1. PICK t \in Token : WordRead(t)  BY <1>8
  <2>2. Top' = Top /\ st'.currentIndent = st.currentIndent /\ src' = src
    BY <2>1 DEF WordRead, Top
  <2>3. CASE t.kind \in WordKind  BY <1>2, <2>1, <2>2, <2>3 DEF WordRead, Leftovers
  <2>4. CASE t.kind \notin WordKind
    <3>1. ~(st'.pos < Len(src))  BY <1>2, <2>1, <2>4 DEF WordRead
    <3>2. QED  BY <2>2, <3>1 DEF Leftovers
  <2>5. QED  BY <2>3, <2>4
<1>9. QED  BY <1>4, <1>5, <1>6, <1>7, <1>8, PlainSteps

LEMMA LayoutInit == Init /\ Plain => L!LInit
<1> SUFFICES ASSUME Init, Plain PROVE L!LInit
  OBVIOUS
<1>1. src \in Seq(ByteClass)  BY TokenizerAssumption DEF Init
<1>2. Len(src) \in Nat  BY <1>1, AtIs
<1>3. syntax = "Sass"  BY DEF Plain
<1>4. PICK p \in First({k \in 0..Len(src) : syntax # "Sass" \/ At(src, k) \notin Newline}) :
         /\ st.pos = p /\ st.indents = <<0>> /\ st.currentIndent = 0
  <2>1. PICK p \in First({k \in 0..Len(src) : syntax # "Sass" \/ At(src, k) \notin Newline}) :
           st = [pos |-> p, currentIndent |-> 0,
                 indents |-> IF syntax = "Sass" THEN <<0>> ELSE <<>>,
                 parenDepth |-> 0, lineComments |-> TRUE, interpDepth |-> 0,
                 openerPending |-> FALSE, lineCommentsSeen |-> 0]
    BY DEF Init
  <2>2. QED  BY <1>3, <2>1
<1>5. \A i \in LineFirsts : WidthAt(i) \in Nat /\ i \in Nat /\ i < Len(src)  BY <1>1, WidthNat
<1>6. ASSUME NEW i \in LineFirsts PROVE i >= st.pos
  <2>1. i \in 0..Len(src) /\ At(src, i) \notin Newline
    BY <1>2, <1>5 DEF LineFirsts, Ws, Newline
  <2>2. QED  BY <1>2, <1>4, <1>5, <2>1, FirstIs
<1>7. {i \in LineFirsts : i >= st.pos} = LineFirsts  BY <1>6
<1>8. LineFirsts \subseteq Nat /\ [i \in LineFirsts |-> WidthAt(i)] \in [LineFirsts -> Nat]
  BY <1>5
<1>9. DOMAIN [i \in LineFirsts |-> WidthAt(i)] = LineFirsts  OBVIOUS
<1>10. LineBegun \in BOOLEAN  BY DEF LineBegun
<1>11. Made = "none"
  <2>1. out = <<>> /\ indent = <<>>  BY DEF Init
  <2>2. <<>> \in Seq(Token)  OBVIOUS
  <2>3. QED  BY <2>1, <2>2, MadeIs, MadeOfIs
<1>12. QED  BY <1>4, <1>7, <1>8, <1>9, <1>10, <1>11 DEF L!LInit

\* The layout a step leaves, in terms of the cursor.
LEMMA LayoutIs ==
    ASSUME src' = src
    PROVE  /\ {i \in LineFirsts : i >= st.pos} = LinesFrom(st.pos)
           /\ {i \in LineFirsts : i >= st.pos}' = LinesFrom(st'.pos)
           /\ [i \in LineFirsts |-> WidthAt(i)]' = [i \in LineFirsts |-> WidthAt(i)]
           /\ LineBegun = BegunAt(st.pos) /\ LineBegun' = BegunAt(st'.pos)
           /\ (BegunAt(st'.pos) <=> BegunAt(st.pos)) => LineBegun' = LineBegun
           /\ L!Deepest = Top /\ L!Front(st.indents) = Front(st.indents)
<1>1. LineBegun \in BOOLEAN /\ BegunAt(st.pos) \in BOOLEAN /\ BegunAt(st'.pos) \in BOOLEAN
      /\ LineBegun' \in BOOLEAN
  BY DEF LineBegun, BegunAt
<1>2. LineBegun <=> BegunAt(st.pos)  BY DEF LineBegun, BegunAt
<1>3. L!Deepest = Top /\ L!Front(st.indents) = Front(st.indents)
  BY DEF L!Deepest, L!Last, L!Front, Top, Last, Front
<1>4. LineBegun' <=> BegunAt(st'.pos)  BY SameLines
<1>5. (BegunAt(st'.pos) <=> BegunAt(st.pos)) => LineBegun' = LineBegun
  BY <1>1, <1>2, <1>4, Zenon
<1>6. QED  BY <1>1, <1>2, <1>3, <1>5, SameLines DEF LinesFrom

LEMMA LayoutStep == OnPlainLine /\ Leftovers /\ [Next]_vars => [L!LNext]_L!lvars
<1> SUFFICES ASSUME OnPlainLine, Leftovers, [Next]_vars PROVE [L!LNext]_L!lvars
  OBVIOUS
<1>1. /\ Core /\ TypeOK /\ Records /\ IndentStack /\ syntax = "Sass" /\ comments = <<>>
  BY DEF OnPlainLine, Core, PlainState, Plain
<1>2. /\ src \in Seq(ByteClass) /\ st.pos \in Nat /\ st.pos <= Len(src) /\ Len(src) \in Nat
      /\ Top \in Nat /\ st.currentIndent \in Nat /\ st.indents \in Seq(Nat) /\ st.indents # <<>>
  BY <1>1, Cursor, TopLevel DEF TypeOK
<1>3. CASE Still
  <2>1. src' = src /\ st'.pos = st.pos /\ st'.indents = st.indents
        /\ st'.currentIndent = st.currentIndent /\ Made' \in {Made, "none"}
    BY <1>3 DEF Still
  <2>2. CASE Made' = Made  BY <2>1, <2>2, LayoutIs DEF L!lvars
  <2>3. CASE Made # "none" /\ Made' = "none"
    <3>1. L!Take  BY <2>1, <2>3, LayoutIs DEF L!Take
    <3>2. QED  BY <3>1 DEF L!LNext
  <2>4. QED  BY <2>1, <2>2, <2>3
<1>4. CASE BumpPendingDedent
  <2>1. /\ src' = src /\ st'.pos = st.pos /\ Top > st.currentIndent /\ st.pos < Len(src)
        /\ st'.currentIndent = st.currentIndent /\ st'.indents = Front(st.indents)
        /\ indent' = <<>> /\ phase' # "skip"
    BY <1>1, <1>4, PendingDedentMoves
  <2>2. PICK t \in Token : t = Outcome("Dedent", st.pos, st.pos, st.pos) /\ Emit(t)
    BY <1>1, <1>4, PendingDedentMoves
  <2>3. Made' = "dedent"
    <3>1. t.kind = "Dedent"  BY <2>2 DEF Outcome
    <3>2. QED  BY <1>1, <2>1, <2>2, <3>1, MadeReturned DEF TokenName
  <2>4. LineBegun  BY <2>1 DEF Leftovers
  <2>5. LinesFrom(st.pos) # {}  BY <1>1, <2>4, NextLineAhead DEF LineBegun
  <2>6. L!Dedent  BY <2>1, <2>3, <2>4, <2>5, LayoutIs DEF L!Dedent
  <2>7. QED  BY <2>6 DEF L!LNext
<1>5. CASE ScanIndent
  <2>1. src' = src /\ Top <= st.currentIndent /\ Made = "none"  BY <1>5, PlainIndent
  <2>2. CASE PlainEnd
    <3>1. /\ st'.pos = Len(src) /\ st'.indents = st.indents
          /\ st'.currentIndent = st.currentIndent /\ Made' = "eof"
          /\ Len(src) \in WsEnd(src, st.pos)
      BY <2>2 DEF PlainEnd
    <3>2. LinesFrom(Len(src)) = LinesFrom(st.pos)
          /\ LinesFrom(Len(src)) = {} /\ ~(Len(src) \in LineFirsts)
      BY <1>2, <3>1, BlanksAhead, WidthNat DEF LinesFrom
    <3>3. ~BegunAt(st.pos) /\ ~BegunAt(Len(src))  BY <1>2, <3>1, <3>2, BlanksAhead
    <3>4. L!Eof
      <4>1. UNCHANGED <<{i \in LineFirsts : i >= st.pos}, [i \in LineFirsts |-> WidthAt(i)]>>
        BY <2>1, <3>1, <3>2, LayoutIs
      <4>2. LineBegun' = LineBegun
        <5>1. BegunAt(st'.pos) <=> BegunAt(st.pos)  BY <3>1, <3>3
        <5>2. QED  BY <2>1, <5>1, LayoutIs, Zenon
      <4>3. {i \in LineFirsts : i >= st.pos} = {}  BY <2>1, <3>2, LayoutIs
      <4>4. QED  BY <3>1, <4>1, <4>2, <4>3 DEF L!Eof
    <3>5. QED  BY <3>4 DEF L!LNext
  <2>3. CASE \E c \in WsEnd(src, st.pos) : PlainBlanks(c)
    <3>1. PICK c \in WsEnd(src, st.pos) : PlainBlanks(c)  BY <2>3
    <3>2. LinesFrom(c) = LinesFrom(st.pos) /\ (BegunAt(c) <=> BegunAt(st.pos))
      BY <1>2, <3>1, BlanksAhead DEF PlainBlanks
    <3>3. UNCHANGED <<{i \in LineFirsts : i >= st.pos}, [i \in LineFirsts |-> WidthAt(i)]>>
      BY <2>1, <3>1, <3>2, LayoutIs DEF PlainBlanks
    <3>4. LineBegun' = LineBegun
      <4>1. st'.pos = c  BY <3>1 DEF PlainBlanks
      <4>2. BegunAt(st'.pos) <=> BegunAt(st.pos)  BY <3>2, <4>1
      <4>3. QED  BY <2>1, <4>2, LayoutIs, Zenon
    <3>5. QED  BY <2>1, <3>1, <3>3, <3>4 DEF PlainBlanks, L!lvars
  <2>4. CASE \E c \in WsEnd(src, st.pos) : \E b \in LineStarts(src, st.pos, c) : PlainBreak(c, b)
    <3>0. PICK c \in WsEnd(src, st.pos) : \E b \in LineStarts(src, st.pos, c) : PlainBreak(c, b)
      BY <2>4
    <3>1. PICK b \in LineStarts(src, st.pos, c) : PlainBreak(c, b)  BY <3>0
    <3>2. c \in LineFirsts /\ WidthAt(c) = Width(c, b)
      BY <1>2, <3>1, LineBehind DEF PlainBreak
    <3>3. L!NextLine = c /\ c \in LinesFrom(st.pos)  BY <1>1, <3>1, <3>2, NextLineAhead
    <3>4. LinesFrom(c) = LinesFrom(st.pos) /\ BegunAt(c) /\ ~BegunAt(st.pos)
      BY <1>2, <3>1, <3>2, BlanksAhead
    <3>5. [i \in LineFirsts |-> WidthAt(i)][L!NextLine] = Width(c, b)  BY <3>2, <3>3
    <3>6. Width(c, b) \in Nat  BY <1>2, <3>2, WidthNat
    <3>7. /\ st'.pos = c /\ st'.currentIndent = Width(c, b) /\ st'.indents = Levels(Width(c, b))
          /\ Made' = IF Width(c, b) > Top THEN "indent"
                     ELSE IF Width(c, b) < Top THEN "dedent" ELSE "linebreak"
      BY <3>1 DEF PlainBreak
    <3>8. L!Break
      <4>1. /\ {i \in LineFirsts : i >= st.pos} # {} /\ ~LineBegun /\ L!Deepest <= st.currentIndent
            /\ LineBegun' = TRUE
            /\ st'.currentIndent = [i \in LineFirsts |-> WidthAt(i)][L!NextLine]
        BY <2>1, <3>3, <3>4, <3>5, <3>7, LayoutIs
      <4>2. \/ /\ st'.currentIndent > L!Deepest /\ Made' = "indent"
               /\ st'.indents = Append(st.indents, st'.currentIndent)
            \/ /\ st'.currentIndent < L!Deepest /\ Made' = "dedent"
               /\ st'.indents = L!Front(st.indents)
            \/ /\ st'.currentIndent = L!Deepest /\ Made' = "linebreak"
               /\ st'.indents = st.indents
        BY <1>2, <2>1, <3>6, <3>7, LayoutIs DEF Levels, Pop
      <4>3. /\ {i \in LineFirsts : i >= st.pos}' = {i \in LineFirsts : i >= st.pos}
            /\ [i \in LineFirsts |-> WidthAt(i)]' = [i \in LineFirsts |-> WidthAt(i)]
        BY <2>1, <3>4, <3>7, LayoutIs
      <4>4. QED  BY <4>1, <4>2, <4>3 DEF L!Break
    <3>9. QED  BY <3>8 DEF L!LNext
  <2>5. QED  BY <1>5, <2>2, <2>3, <2>4, PlainIndent
<1>6. CASE ReopenIndentLevel
  <2>1. /\ st'.indents = Append(st.indents, st.currentIndent) /\ Top < st.currentIndent
        /\ st'.currentIndent = st.currentIndent /\ st'.pos = st.pos
        /\ UNCHANGED <<src, phase, indent, out>>
    BY <1>1, <1>6, ReopenMoves
  <2>2. Made' = Made  BY <2>1, MadeIs
  <2>3. L!Reopen  BY <2>1, <2>2, LayoutIs DEF L!Reopen
  <2>4. QED  BY <2>3 DEF L!LNext
<1>7. CASE \E t \in Token : WordRead(t)
  <2>1. PICK t \in Token : WordRead(t)  BY <1>7
  <2>2. /\ src' = src /\ st'.pos = t.next /\ st'.indents = st.indents
        /\ st'.currentIndent = st.currentIndent /\ t.next \in Nat
    BY <2>1 DEF WordRead, Token
  <2>3. Made' = TokenName(t.kind)  BY <1>1, <2>1, MadeReturned DEF WordRead
  <2>4. CASE t.kind = "Eof"
    <3>1. st.pos = Len(src) /\ st'.pos = Len(src)  BY <2>1, <2>4 DEF WordRead, WordKind
    <3>2. LinesFrom(Len(src)) = {}  BY <1>2, WidthNat DEF LinesFrom
    <3>3. Made' = "eof"  BY <2>3, <2>4 DEF TokenName
    <3>4. L!Eof  BY <2>2, <3>1, <3>2, <3>3, LayoutIs DEF L!Eof
    <3>5. QED  BY <3>4 DEF L!LNext
  <2>5. CASE t.kind \in WordKind
    <3>1. /\ st.pos < t.next /\ t.next <= Len(src) /\ Top <= st.currentIndent
          /\ \A k \in st.pos..(t.next - 1) : At(src, k) \notin Ws
      BY <2>1, <2>5 DEF WordRead, WordKind
    <3>2. /\ LinesFrom(t.next) = LinesFrom(st.pos) \ {st.pos} /\ ~BegunAt(t.next)
          /\ BegunAt(st.pos) <=> st.pos \in LineFirsts
      BY <1>2, <2>2, <3>1, WordAhead
    <3>3. Made' = "word"  BY <2>3, <2>5 DEF TokenName, WordKind
    <3>4. CASE st.pos \in LineFirsts
      <4>1. st.pos \in WsEnd(src, st.pos)  BY <1>2, <3>4, WsEndExists DEF LineFirsts
      <4>2. L!NextLine = st.pos /\ st.pos \in LinesFrom(st.pos)
        BY <1>1, <3>4, <4>1, NextLineAhead
      <4>3. L!FirstWord
        BY <2>2, <3>1, <3>2, <3>3, <3>4, <4>2, LayoutIs DEF L!FirstWord
      <4>4. QED  BY <4>3 DEF L!LNext
    <3>5. CASE st.pos \notin LineFirsts
      <4>1. LinesFrom(t.next) = LinesFrom(st.pos)  BY <3>2, <3>5 DEF LinesFrom
      <4>2. L!FurtherWord
        <5>1. UNCHANGED <<{i \in LineFirsts : i >= st.pos}, [i \in LineFirsts |-> WidthAt(i)]>>
          BY <2>2, <4>1, LayoutIs
        <5>2. ~BegunAt(st.pos) /\ ~BegunAt(t.next)  BY <3>2, <3>5
        <5>3. ~LineBegun /\ LineBegun' = LineBegun
          <6>1. BegunAt(st'.pos) <=> BegunAt(st.pos)  BY <2>2, <5>2
          <6>2. LineBegun' = LineBegun  BY <2>2, <6>1, LayoutIs, Zenon
          <6>3. ~LineBegun  BY <2>2, <5>2, LayoutIs, Zenon
          <6>4. QED  BY <6>2, <6>3
        <5>4. L!Deepest <= st.currentIndent  BY <2>2, <3>1, LayoutIs
        <5>5. QED  BY <2>2, <3>3, <5>1, <5>3, <5>4 DEF L!FurtherWord
      <4>3. QED  BY <4>2 DEF L!LNext
    <3>6. QED  BY <3>4, <3>5
  <2>6. QED  BY <2>1, <2>4, <2>5 DEF WordRead
<1>8. QED  BY <1>3, <1>4, <1>5, <1>6, <1>7, PlainSteps

\* No step changes what is read.
LEMMA SourceStays == [Next]_vars => UNCHANGED <<src, syntax>>
<1>1. CASE UNCHANGED vars  BY <1>1 DEF vars
<1>2. CASE Bump
  BY <1>2 DEF Bump, BumpPendingDedent, BumpStart, ScanIndent, SkipWs, ScanBlockComment,
     ScanLineComment, BumpLayout, BumpToken
<1>3. CASE BumpWithoutWs \/ ScanStringTemplate \/ ScanUrlRawOrTemplate \/ ScanUrlTemplate
  BY <1>3 DEF BumpWithoutWs, ScanStringTemplate, ScanUrlRawOrTemplate, ScanUrlTemplate
<1>4. CASE ReopenIndentLevel \/ LineCommentsOff \/ LineCommentsRestored
  BY <1>4 DEF ReopenIndentLevel, LineCommentsOff, LineCommentsRestored
<1>5. QED  BY <1>1, <1>2, <1>3, <1>4 DEF Next

\* The invariants that the steps above take for granted.
OnPlainSource == Plain => PlainState /\ Leftovers

LEMMA PlainInvariant == Spec => [](Plain => OnPlainLine /\ Leftovers)
<1>1. Spec => [](Core /\ LevelsClosed /\ DedentsBeforeContent /\ NothingOverwritten /\ DedentPerLevel)
  <2>1. Spec => [](LevelsClosed /\ DedentsBeforeContent)
    BY LevelsClosedInit, LevelsClosedStep, CoreInv, PTL DEF Spec
  <2>2. Spec => [](NothingOverwritten /\ DedentPerLevel)
    BY DedentPerLevelInit, DedentPerLevelStep, CoreInv, PTL DEF Spec
  <2>3. QED  BY <2>1, <2>2, CoreInv, PTL
<1>2. Init => OnPlainSource  BY PlainInit, LeftoversInitially DEF OnPlainSource
<1>3. Core /\ LevelsClosed /\ DedentsBeforeContent /\ NothingOverwritten /\ DedentPerLevel
      /\ OnPlainSource => (Plain => OnPlainLine /\ Leftovers)
  BY DEF OnPlainLine, OnPlainSource
<1>4. (Plain => OnPlainLine /\ Leftovers) /\ [Next]_vars => OnPlainSource'
  <2> SUFFICES ASSUME Plain => OnPlainLine /\ Leftovers, [Next]_vars, Plain'
               PROVE  PlainState' /\ Leftovers'
    BY DEF OnPlainSource
  <2>1. Plain  BY SourceStays DEF Plain
  <2>2. QED  BY <2>1, PlainStateStep, LeftoversStep
<1>5. QED  BY <1>1, <1>2, <1>3, <1>4, PTL DEF Spec

\* On plain lines the tokenizer of the indented syntax hands out the layout tokens of
\* LineLayout, for every source and however its widths wrap to u16: each line break
\* once, a Dedent for each level a line leaves in front of its first word, and at the
\* end of the source nothing but Eof.
THEOREM PlainLinesLaidOut == Spec => LaysOutLines
<1>1. Init => (Plain => L!LInit)  BY LayoutInit
<1>2. (Plain => OnPlainLine /\ Leftovers) /\ [Next]_vars => [Plain => [L!LNext]_L!lvars]_vars
  BY LayoutStep
<1>3. QED  BY <1>1, <1>2, PlainInvariant, PTL DEF Spec, LaysOutLines

\* So the tokenizer of a plain source implements LineLayout.
THEOREM PlainLinesImplement == Spec /\ []Plain => L!LSpec
<1>1. Init /\ Plain => L!LInit  BY LayoutInit
<1>2. OnPlainLine /\ Leftovers /\ [Next]_vars => [L!LNext]_L!lvars  BY LayoutStep
<1>3. QED  BY <1>1, <1>2, PlainInvariant, PTL DEF Spec, L!LSpec

=============================================================================
