---------------------------- MODULE BytesProofs ----------------------------
(***************************************************************************)
(* What the scanners of Bytes return, for every source: where a token, a    *)
(* comment or a blank run that starts at an offset can end, and what the    *)
(* cursor steps over behind it.                                            *)
(***************************************************************************)
EXTENDS Bytes, TLAPS, SequenceTheorems, WellFoundedInduction

\* The kinds of token the dispatch of next() returns.
LexKind == {"Eof", "Ident", "Hash", "AtKeyword", "Str", "StrTemplate", "BadStr", "AtLBraceVar",
            "HashLBrace", "LParen", "RParen", "LBrace", "RBrace", "Punct", "Err"}

Kind == LexKind \cup {"StrTail", "UrlRaw", "UrlTail", "UrlTemplate", "Block", "Line",
                      "Indent", "Dedent", "Linebreak"}

Token == [kind : Kind, start : Nat, end : Nat, next : Nat]

\* A byte that a token leaves out although the cursor passes it: whitespace, the
\* `#` or `@` of an interpolation, and the `)` behind a url body.
Passed(s, k, t) ==
    \/ At(s, k) \in Ws
    \/ At(s, k) \in {"hash", "at"} /\ At(s, k + 1) = "lbrace"
    \/ At(s, k) = "close" /\ t.kind \in {"UrlRaw", "UrlTail"} /\ t.next = k + 1

\* t is what a scanner makes of the bytes from i on.
Scanned(s, i, t) ==
    /\ t.start = i /\ i <= t.end /\ t.end <= t.next /\ t.next <= Len(s)
    /\ \A k \in t.end..(t.next - 1) : Passed(s, k, t)

\* A template's hole begins at the cursor.
HoleAhead(s, syn, t) ==
    (t.kind \in {"StrTemplate", "UrlTemplate"} /\ syn # "Less") => At(s, t.next) = "lbrace"

----------------------------------------------------------------------------
(***************************************************************************)
(* Offsets.                                                                *)
(***************************************************************************)
LEMMA FirstIs ==
    ASSUME NEW P, NEW j \in First(P)
    PROVE  j \in P /\ \A k \in P : j <= k
  BY DEF First

\* A non-empty set of offsets has a first one: the loops stop.
LEMMA FirstExists ==
    ASSUME NEW P \in SUBSET Nat, P # {}
    PROVE  First(P) # {}
<1>1. IsWellFoundedOn(OpToRel(<, Nat), Nat)  BY NatLessThanWellFounded
<1>2. PICK j \in P : \A k \in P : ~(<<k, j>> \in OpToRel(<, Nat))
  BY <1>1, WFMin
<1>3. \A k \in P : j <= k
  <2> TAKE k \in P
  <2>1. ~(k < j)  BY <1>2 DEF OpToRel
  <2>2. QED  BY <2>1
<1>4. QED  BY <1>3 DEF First

LEMMA AtIs ==
    ASSUME NEW s \in Seq(ByteClass), NEW i \in Nat
    PROVE  /\ Len(s) \in Nat
           /\ i < Len(s) => At(s, i) \in ByteClass
           /\ i >= Len(s) => At(s, i) = "eof"
           /\ At(s, i) # "eof" => i < Len(s)
<1>1. Len(s) \in Nat  BY LenProperties
<1>2. CASE i < Len(s)
  <2>1. i + 1 \in 1..Len(s)  BY <1>1, <1>2
  <2>2. s[i + 1] \in ByteClass  BY <2>1, ElementOfSeq
  <2>3. QED  BY <1>1, <1>2, <2>2 DEF At
<1>3. CASE ~(i < Len(s))  BY <1>1, <1>3 DEF At
<1>4. QED  BY <1>2, <1>3

LEMMA WsEndIs ==
    ASSUME NEW s \in Seq(ByteClass), NEW i \in Nat, NEW c \in WsEnd(s, i)
    PROVE  /\ c \in Nat /\ i <= c /\ c <= Len(s)
           /\ At(s, c) \notin Ws
           /\ \A k \in i..(c - 1) : At(s, k) \in Ws
<1>1. c \in NonWs(s, i) /\ \A k \in NonWs(s, i) : c <= k  BY FirstIs DEF WsEnd
<1>2. Len(s) \in Nat  BY AtIs
<1>3. c \in i..Len(s) /\ At(s, c) \notin Ws  BY <1>1 DEF NonWs
<1>4. ASSUME NEW k \in i..(c - 1) PROVE At(s, k) \in Ws
  <2>1. k \in i..Len(s) /\ ~(c <= k)  BY <1>2, <1>3
  <2>2. k \notin NonWs(s, i)  BY <1>1, <2>1
  <2>3. QED  BY <2>1, <2>2 DEF NonWs
<1>5. QED  BY <1>2, <1>3, <1>4

\* A blank run that begins with a line break has a last line.
LEMMA LineStartExists ==
    ASSUME NEW s \in Seq(ByteClass), NEW i \in Nat, NEW c \in WsEnd(s, i), At(s, i) \in Newline
    PROVE  LineStarts(s, i, c) # {}
<1>1. c \in Nat /\ i <= c /\ At(s, c) \notin Ws  BY WsEndIs
<1>2. i # c  BY <1>1 DEF Ws, Newline
<1>3. DEFINE D == {d \in 0..(c - i) : c - d \in (i + 1)..c /\ At(s, (c - d) - 1) \in Newline}
<1>4. D \in SUBSET Nat  OBVIOUS
<1>5. c - (i + 1) \in D
  <2>1. c - (i + 1) \in 0..(c - i) /\ c - (c - (i + 1)) = i + 1 /\ (i + 1) - 1 = i  BY <1>1, <1>2
  <2>2. i + 1 \in (i + 1)..c  BY <1>1, <1>2
  <2>3. QED  BY <2>1, <2>2
<1>6. PICK d \in D : \A e \in D : d <= e
  <2>1. First(D) # {}  BY <1>4, <1>5, FirstExists
  <2>2. QED  BY <2>1, FirstIs
<1>7. d \in Nat /\ c - d \in (i + 1)..c /\ At(s, (c - d) - 1) \in Newline  OBVIOUS
<1>8. ASSUME NEW m \in (c - d)..(c - 1), At(s, m) \in Newline PROVE FALSE
  <2> DEFINE e == c - (m + 1)
  <2>1. m \in Nat /\ e \in 0..(c - i) /\ c - e = m + 1 /\ (m + 1) - 1 = m /\ e < d
    BY <1>1, <1>7
  <2>2. m + 1 \in (i + 1)..c  BY <1>1, <1>7
  <2>3. e \in D  BY <1>8, <2>1, <2>2
  <2> HIDE DEF e
  <2>4. d <= e  BY <1>6, <2>3
  <2>5. QED  BY <2>1, <2>4, <1>7
<1>9. c - d \in LineStarts(s, i, c)  BY <1>7, <1>8 DEF LineStarts
<1>10. QED  BY <1>9

----------------------------------------------------------------------------
(***************************************************************************)
(* Scanners.                                                               *)
(***************************************************************************)
LEMMA OutcomeIs ==
    ASSUME NEW kind \in Kind, NEW start \in Nat, NEW end \in Nat, NEW next \in Nat
    PROVE  /\ Outcome(kind, start, end, next) \in Token
           /\ Outcome(kind, start, end, next).kind = kind
           /\ Outcome(kind, start, end, next).start = start
           /\ Outcome(kind, start, end, next).end = end
           /\ Outcome(kind, start, end, next).next = next
  BY DEF Outcome, Token

\* A token that ends where the cursor stops.
LEMMA ExactToken ==
    ASSUME NEW s \in Seq(ByteClass), NEW i \in Nat, NEW e \in Nat, NEW kind \in Kind,
           i <= e, e <= Len(s)
    PROVE  Outcome(kind, i, e, e) \in Token /\ Scanned(s, i, Outcome(kind, i, e, e))
<1>1. e..(e - 1) = {}  OBVIOUS
<1>2. QED  BY <1>1, OutcomeIs DEF Scanned

LEMMA IdentStop ==
    ASSUME NEW s \in Seq(ByteClass), NEW i \in Nat, NEW e \in First(IdentStops(s, i))
    PROVE  e \in Nat /\ i <= e /\ e <= Len(s)
<1>1. e \in IdentStops(s, i)  BY FirstIs
<1>2. QED  BY <1>1, AtIs DEF IdentStops

LEMMA IdentLikeScans ==
    ASSUME NEW s \in Seq(ByteClass), NEW kind \in Kind \ {"Err"}, NEW start \in Nat, NEW i \in Nat,
           start <= i, NEW t \in IdentLike(s, kind, start, i)
    PROVE  t \in Token /\ t.kind \in {kind, "Err"} /\ Scanned(s, start, t)
<1>1. PICK e \in First(IdentStops(s, i)) :
         t = IF e = Len(s) /\ Escaped(s, i, e) THEN Outcome("Err", start, e, e)
                                               ELSE Outcome(kind, start, e, e)
  BY DEF IdentLike
<1>2. e \in Nat /\ start <= e /\ e <= Len(s)  BY IdentStop
<1>3. "Err" \in Kind  BY DEF Kind, LexKind
<1>4. QED  BY <1>1, <1>2, <1>3, ExactToken, OutcomeIs

LEMMA LessVarScans ==
    ASSUME NEW s \in Seq(ByteClass), NEW i \in Nat, NEW t \in LessLBraceVar(s, i)
    PROVE  t \in Token /\ t.kind \in {"AtLBraceVar", "Err"} /\ Scanned(s, i, t)
<1>1. PICK e \in First(IdentStops(s, i + 2)) :
         t = IF At(s, e) = "rbrace" THEN Outcome("AtLBraceVar", i, e + 1, e + 1)
                                    ELSE Outcome("Err", i, e, e)
  BY DEF LessLBraceVar, LessVarEnd
<1>2. e \in Nat /\ i <= e /\ e <= Len(s)  BY IdentStop
<1>3. At(s, e) = "rbrace" => e + 1 <= Len(s)  BY <1>2, AtIs
<1>4. {"AtLBraceVar", "Err"} \subseteq Kind  BY DEF Kind, LexKind
<1>5. CASE At(s, e) = "rbrace"  BY <1>1, <1>2, <1>3, <1>4, <1>5, ExactToken, OutcomeIs
<1>6. CASE At(s, e) # "rbrace"  BY <1>1, <1>2, <1>4, <1>6, ExactToken, OutcomeIs
<1>7. QED  BY <1>5, <1>6

\* A piece that ends one byte before the cursor: the byte is passed.
LEMMA BeforeToken ==
    ASSUME NEW s \in Seq(ByteClass), NEW i \in Nat, NEW e \in Nat, NEW kind \in Kind,
           i <= e, e < Len(s),
           \/ At(s, e) \in Ws
           \/ At(s, e) \in {"hash", "at"} /\ At(s, e + 1) = "lbrace"
           \/ At(s, e) = "close" /\ kind \in {"UrlRaw", "UrlTail"}
    PROVE  /\ Outcome(kind, i, e, e + 1) \in Token
           /\ Scanned(s, i, Outcome(kind, i, e, e + 1))
<1> DEFINE t == Outcome(kind, i, e, e + 1)
<1>1. t \in Token /\ t.kind = kind /\ t.start = i /\ t.end = e /\ t.next = e + 1
  BY OutcomeIs
<1> HIDE DEF t
<1>2. t.next <= Len(s)  BY <1>1, AtIs
<1>3. ASSUME NEW k \in t.end..(t.next - 1) PROVE Passed(s, k, t)
  <2>1. k = e  BY <1>1
  <2>2. QED  BY <1>1, <2>1 DEF Passed
<1>4. t \in Token /\ Scanned(s, i, t)  BY <1>1, <1>2, <1>3 DEF Scanned
<1>5. QED  BY <1>4 DEF t

\* An interpolation of the dialect opens with its `{`.
LEMMA InterpolatesBrace ==
    ASSUME NEW s, NEW syn \in Syntax, NEW k, Interpolates(s, syn, k)
    PROVE  /\ At(s, k) \in {"hash", "at"} /\ At(s, k + 1) = "lbrace" /\ syn # "Css"
           /\ At(s, k) = "hash" <=> syn # "Less"
  BY DEF Interpolates, LessVarAhead, Syntax

LEMMA StringScans ==
    ASSUME NEW s \in Seq(ByteClass), NEW syn \in Syntax, NEW head \in BOOLEAN,
           NEW start \in Nat, NEW i \in Nat, start <= i,
           NEW t \in StringPiece(s, syn, head, start, i)
    PROVE  /\ t \in Token /\ Scanned(s, start, t) /\ HoleAhead(s, syn, t)
           /\ t.kind \in {"Str", "StrTail", "StrTemplate", "BadStr", "Err"}
           /\ head => t.kind # "StrTail"
           /\ t.kind = "StrTemplate" => syn # "Css"
<1>1. PICK e \in First(StringStops(s, syn, i)) :
         t = CASE At(s, e) = "quote" -> Outcome(IF head THEN "Str" ELSE "StrTail", start, e + 1, e + 1)
       [] At(s, e) \in {"hash", "at"} -> Outcome("StrTemplate", start, e, e + 1)
       [] At(s, e) = "nl" /\ head /\ syn = "Css" -> Outcome("BadStr", start, e, e + 1)
       [] At(s, e) = "eof" /\ head /\ syn = "Css" /\ ~Escaped(s, i, e)
            -> Outcome("BadStr", start, e, e)
       [] OTHER -> Outcome("Err", start, e, e)
  BY DEF StringPiece
<1>2. e \in StringStops(s, syn, i)  BY FirstIs
<1>3. e \in Nat /\ start <= e /\ e <= Len(s) /\ Len(s) \in Nat  BY <1>2, AtIs DEF StringStops
<1>4. At(s, e) # "eof" => e < Len(s) /\ e + 1 <= Len(s)  BY <1>3, AtIs
<1>5. /\ "Str" \in Kind /\ "StrTail" \in Kind /\ "StrTemplate" \in Kind /\ "BadStr" \in Kind
      /\ "Err" \in Kind
  BY DEF Kind, LexKind
<1>6. CASE At(s, e) = "quote"
  <2>1. \/ t = Outcome("Str", start, e + 1, e + 1) /\ head
        \/ t = Outcome("StrTail", start, e + 1, e + 1) /\ ~head
    <3>1. CASE head  BY <1>1, <1>6, <3>1
    <3>2. CASE ~head  BY <1>1, <1>6, <3>2
    <3>3. QED  BY <3>1, <3>2
  <2>2. e + 1 \in Nat /\ start <= e + 1 /\ e + 1 <= Len(s)  BY <1>3, <1>4, <1>6
  <2>3. t \in Token /\ Scanned(s, start, t)  BY <2>1, <2>2, <1>5, ExactToken
  <2>4. t.kind \in {"Str", "StrTail"} /\ (head => t.kind # "StrTail")  BY <2>1 DEF Outcome
  <2>5. QED  BY <2>3, <2>4 DEF HoleAhead
<1>7. CASE At(s, e) \in {"hash", "at"}
  <2>1. t = Outcome("StrTemplate", start, e, e + 1)  BY <1>1, <1>7
  <2>2. Interpolates(s, syn, e)  BY <1>2, <1>4, <1>7 DEF StringStops
  <2>3. At(s, e + 1) = "lbrace" /\ syn # "Css"  BY <2>2, InterpolatesBrace
  <2>4. t \in Token /\ Scanned(s, start, t)  BY <2>1, <2>3, <1>3, <1>4, <1>5, <1>7, BeforeToken
  <2>5. t.kind = "StrTemplate" /\ t.next = e + 1  BY <2>1 DEF Outcome
  <2>6. QED  BY <2>3, <2>4, <2>5 DEF HoleAhead
<1>8. CASE At(s, e) = "nl" /\ head /\ syn = "Css"
  <2>1. t = Outcome("BadStr", start, e, e + 1)  BY <1>1, <1>8
  <2>2. At(s, e) \in Ws  BY <1>8 DEF Ws
  <2>3. t \in Token /\ Scanned(s, start, t)  BY <2>1, <2>2, <1>3, <1>4, <1>5, <1>8, BeforeToken
  <2>4. t.kind = "BadStr"  BY <2>1 DEF Outcome
  <2>5. QED  BY <2>3, <2>4 DEF HoleAhead
<1>9. CASE At(s, e) \notin {"quote", "hash", "at"} /\ ~(At(s, e) = "nl" /\ head /\ syn = "Css")
  <2>1. t = Outcome("BadStr", start, e, e) \/ t = Outcome("Err", start, e, e)  BY <1>1, <1>9
  <2>2. t \in Token /\ Scanned(s, start, t)  BY <2>1, <1>3, <1>5, ExactToken
  <2>3. t.kind \in {"BadStr", "Err"}  BY <2>1 DEF Outcome
  <2>4. QED  BY <2>2, <2>3 DEF HoleAhead
<1>10. QED  BY <1>6, <1>7, <1>8, <1>9

LEMMA UrlScans ==
    ASSUME NEW s \in Seq(ByteClass), NEW syn \in Syntax, NEW head \in BOOLEAN,
           NEW i \in Nat, NEW t \in UrlPiece(s, syn, head, i)
    PROVE  /\ t \in Token /\ Scanned(s, i, t) /\ HoleAhead(s, syn, t)
           /\ t.kind \in {"UrlRaw", "UrlTail", "UrlTemplate", "Err"}
           /\ t.kind = "UrlTemplate" => syn \in {"Scss", "Sass"}
<1>1. PICK e \in First(UrlStops(s, syn, i)) :
         t \in CASE At(s, e) = "close" -> {Outcome(IF head THEN "UrlRaw" ELSE "UrlTail", i, e, e + 1)}
          [] At(s, e) = "hash"  -> {Outcome("UrlTemplate", i, e, e + 1)}
          [] At(s, e) \in Ws    ->
                {IF At(s, c) = "close"
                   THEN Outcome(IF head THEN "UrlRaw" ELSE "UrlTail", i, e, c + 1)
                   ELSE Outcome("Err", i, c, c) : c \in WsEnd(s, e)}
          [] OTHER -> {Outcome("Err", i, e, e)}
  BY DEF UrlPiece
<1>2. e \in UrlStops(s, syn, i)  BY FirstIs
<1>3. e \in Nat /\ i <= e /\ e <= Len(s) /\ Len(s) \in Nat  BY <1>2, AtIs DEF UrlStops
<1>4. At(s, e) # "eof" => e < Len(s) /\ e + 1 <= Len(s)  BY <1>3, AtIs
<1>5. "UrlRaw" \in Kind /\ "UrlTail" \in Kind /\ "UrlTemplate" \in Kind /\ "Err" \in Kind
  BY DEF Kind, LexKind
<1>6. PICK body \in {"UrlRaw", "UrlTail"} : body = IF head THEN "UrlRaw" ELSE "UrlTail"
  OBVIOUS
<1>7. CASE At(s, e) = "close"
  <2>1. t = Outcome(body, i, e, e + 1)  BY <1>1, <1>6, <1>7 DEF Ws
  <2>2. t \in Token /\ Scanned(s, i, t)  BY <2>1, <1>3, <1>4, <1>5, <1>6, <1>7, BeforeToken
  <2>3. t.kind = body  BY <2>1 DEF Outcome
  <2>4. QED  BY <2>2, <2>3, <1>6 DEF HoleAhead
<1>8. CASE At(s, e) = "hash"
  <2>1. t = Outcome("UrlTemplate", i, e, e + 1)  BY <1>1, <1>8 DEF Ws
  <2>2. syn \in {"Scss", "Sass"} /\ Interpolates(s, syn, e)
    BY <1>2, <1>4, <1>8 DEF UrlStops, Ws
  <2>3. At(s, e + 1) = "lbrace"  BY <2>2, InterpolatesBrace
  <2>4. t \in Token /\ Scanned(s, i, t)  BY <2>1, <2>3, <1>3, <1>4, <1>5, <1>8, BeforeToken
  <2>5. t.kind = "UrlTemplate" /\ t.next = e + 1  BY <2>1 DEF Outcome
  <2>6. QED  BY <2>2, <2>3, <2>4, <2>5 DEF HoleAhead
<1>9. CASE At(s, e) \in Ws
  <2>1. PICK c \in WsEnd(s, e) : t = IF At(s, c) = "close" THEN Outcome(body, i, e, c + 1)
                                                         ELSE Outcome("Err", i, c, c)
    BY <1>1, <1>6, <1>9 DEF Ws
  <2>2. /\ c \in Nat /\ e <= c /\ c <= Len(s)
        /\ \A k \in e..(c - 1) : At(s, k) \in Ws
    BY <1>3, WsEndIs
  <2>3. CASE At(s, c) = "close"
    <3>1. t = Outcome(body, i, e, c + 1)  BY <2>1, <2>3
    <3>2. t.kind = body /\ t.start = i /\ t.end = e /\ t.next = c + 1  BY <3>1 DEF Outcome
    <3>3. c + 1 <= Len(s)  BY <2>2, <2>3, AtIs
    <3>4. t \in Token  BY <3>1, <2>2, <1>3, <1>5, <1>6 DEF Outcome, Token
    <3>5. ASSUME NEW k \in e..c PROVE Passed(s, k, t)
      <4>1. CASE k = c  BY <4>1, <2>3, <3>2, <1>6 DEF Passed
      <4>2. CASE k # c  BY <4>2, <2>2, <1>3 DEF Passed
      <4>3. QED  BY <4>1, <4>2
    <3>6. Scanned(s, i, t)  BY <3>2, <3>3, <3>5, <2>2, <1>3 DEF Scanned
    <3>7. QED  BY <3>2, <3>4, <3>6, <1>6 DEF HoleAhead
  <2>4. CASE At(s, c) # "close"
    <3>1. t = Outcome("Err", i, c, c)  BY <2>1, <2>4
    <3>2. t \in Token /\ Scanned(s, i, t)  BY <3>1, <2>2, <1>3, <1>5, ExactToken
    <3>3. t.kind = "Err"  BY <3>1 DEF Outcome
    <3>4. QED  BY <3>2, <3>3 DEF HoleAhead
  <2>5. QED  BY <2>3, <2>4
<1>10. CASE At(s, e) \notin {"close", "hash"} /\ At(s, e) \notin Ws
  <2>1. t = Outcome("Err", i, e, e)  BY <1>1, <1>10
  <2>2. t \in Token /\ Scanned(s, i, t)  BY <2>1, <1>3, <1>5, ExactToken
  <2>3. t.kind = "Err"  BY <2>1 DEF Outcome
  <2>4. QED  BY <2>2, <2>3 DEF HoleAhead
<1>11. QED  BY <1>7, <1>8, <1>9, <1>10

LEMMA BlockCommentScans ==
    ASSUME NEW s \in Seq(ByteClass), NEW i \in Nat, NEW t \in BlockComment(s, i)
    PROVE  t \in Token /\ t.kind = "Block" /\ Scanned(s, i, t) /\ t.end = t.next /\ i < t.next
<1>1. PICK e \in First(BlockCloses(s, i)) :
         t = IF e = Len(s) THEN Outcome("Block", i, e, e) ELSE Outcome("Block", i, e + 2, e + 2)
  BY DEF BlockComment
<1>2. e \in BlockCloses(s, i)  BY FirstIs
<1>3. e \in Nat /\ i < e /\ e <= Len(s)  BY <1>2, AtIs DEF BlockCloses
<1>4. e # Len(s) => e + 2 <= Len(s)
  <2>1. e # Len(s) => At(s, e + 1) # "eof"  BY <1>2 DEF BlockCloses
  <2>2. QED  BY <2>1, <1>3, AtIs
<1>5. "Block" \in Kind  BY DEF Kind
<1>6. PICK n \in Nat : t = Outcome("Block", i, n, n) /\ i < n /\ i <= n /\ n <= Len(s)
  <2>1. CASE e = Len(s)  BY <2>1, <1>1, <1>3
  <2>2. CASE e # Len(s)  BY <2>2, <1>1, <1>3, <1>4
  <2>3. QED  BY <2>1, <2>2
<1>7. t \in Token /\ Scanned(s, i, t)  BY <1>5, <1>6, ExactToken
<1>8. QED  BY <1>6, <1>7 DEF Outcome

\* In the indented syntax the line break behind a line comment is still ahead.
LEMMA LineCommentScans ==
    ASSUME NEW s \in Seq(ByteClass), NEW syn \in Syntax, NEW i \in Nat,
           NEW t \in LineComment(s, syn, i)
    PROVE  /\ t \in Token /\ t.kind = "Line" /\ Scanned(s, i, t)
           /\ \A k \in t.end..(t.next - 1) : At(s, k) \in Ws
           /\ i < t.next
           /\ syn = "Sass" => At(s, t.next) \in {"nl", "eof"}
<1>1. PICK e \in First(LineFeeds(s, i + 2)) :
         t = LET end == IF e < Len(s) /\ e > i + 2 /\ At(s, e - 1) = "cr" THEN e - 1 ELSE e
             IN  Outcome("Line", i, end, IF e < Len(s) /\ syn # "Sass" THEN e + 1 ELSE e)
  BY DEF LineComment
<1>2. e \in LineFeeds(s, i + 2)  BY FirstIs
<1>3. e \in Nat /\ i + 2 <= e /\ e <= Len(s) /\ Len(s) \in Nat
      /\ (e < Len(s) => At(s, e) = "nl")
  BY <1>2, AtIs DEF LineFeeds
<1>4. DEFINE end == IF e < Len(s) /\ e > i + 2 /\ At(s, e - 1) = "cr" THEN e - 1 ELSE e
             next == IF e < Len(s) /\ syn # "Sass" THEN e + 1 ELSE e
<1>5. t = Outcome("Line", i, end, next)  BY <1>1
<1>6. end \in Nat /\ i <= end /\ end <= e /\ \A k \in end..(e - 1) : At(s, k) = "cr"
  <2>1. CASE e < Len(s) /\ e > i + 2 /\ At(s, e - 1) = "cr"
    <3>1. end = e - 1  BY <2>1
    <3>2. \A k \in (e - 1)..(e - 1) : k = e - 1  BY <1>3
    <3>3. QED  BY <3>1, <3>2, <2>1, <1>3
  <2>2. CASE ~(e < Len(s) /\ e > i + 2 /\ At(s, e - 1) = "cr")
    <3>1. end = e  BY <2>2
    <3>2. QED  BY <3>1, <1>3
  <2>3. QED  BY <2>1, <2>2
<1>7. next \in Nat /\ e <= next /\ next <= Len(s) /\ \A k \in e..(next - 1) : At(s, k) = "nl"
  <2>1. CASE e < Len(s) /\ syn # "Sass"
    <3>1. next = e + 1  BY <2>1
    <3>2. \A k \in e..e : k = e  BY <1>3
    <3>3. (e + 1) - 1 = e  BY <1>3
    <3>4. QED  BY <3>1, <3>2, <3>3, <2>1, <1>3
  <2>2. CASE ~(e < Len(s) /\ syn # "Sass")
    <3>1. next = e  BY <2>2
    <3>2. QED  BY <3>1, <1>3
  <2>3. QED  BY <2>1, <2>2
<1>8. syn = "Sass" => next = e  OBVIOUS
<1> HIDE DEF end, next
<1>9. t.kind = "Line" /\ t.start = i /\ t.end = end /\ t.next = next  BY <1>5 DEF Outcome
<1>10. t \in Token
  <2>1. "Line" \in Kind  BY DEF Kind
  <2>2. QED  BY <2>1, <1>5, <1>6, <1>7 DEF Outcome, Token
<1>11. ASSUME NEW k \in end..(next - 1) PROVE Passed(s, k, t) /\ At(s, k) \in Ws
  <2>1. At(s, k) \in {"cr", "nl"}
    <3>1. CASE k <= e - 1  BY <3>1, <1>6, <1>3
    <3>2. CASE ~(k <= e - 1)  BY <3>2, <1>7, <1>6, <1>3
    <3>3. QED  BY <3>1, <3>2
  <2>2. QED  BY <2>1 DEF Passed, Ws
<1>12. Scanned(s, i, t)  BY <1>6, <1>7, <1>9, <1>11, <1>3 DEF Scanned
<1>13. syn = "Sass" => At(s, t.next) \in {"nl", "eof"}
  <2>1. e = Len(s) => At(s, e) = "eof"  BY <1>3, AtIs
  <2>2. QED  BY <2>1, <1>3, <1>8, <1>9
<1>14. i < t.next  BY <1>3, <1>7, <1>9
<1>15. QED  BY <1>9, <1>10, <1>11, <1>12, <1>13, <1>14

LEMMA ContinuationEnds ==
    ASSUME NEW s \in Seq(ByteClass), NEW i \in Nat, NEW base, NEW mod,
           NEW k \in ContinuationEnd(s, i, base, mod)
    PROVE  /\ k \in Nat /\ i <= k /\ k <= Len(s)
           /\ k = i \/ At(s, k) \in {"nl", "cr", "eof"}
<1>1. /\ k \in i..Len(s)
      /\ k = Len(s) \/ k = i \/ EndsContent(s, i, k)
  BY FirstIs DEF ContinuationEnd
<1>2. k \in Nat /\ i <= k /\ k <= Len(s)  BY <1>1, AtIs
<1>3. k = Len(s) => At(s, k) = "eof"  BY <1>2, AtIs
<1>4. EndsContent(s, i, k) => At(s, k) \in {"nl", "cr"}  BY DEF EndsContent, Newline
<1>5. QED  BY <1>1, <1>2, <1>3, <1>4

\* The dispatch of next(): Eof at the end of the source and only there, one
\* brace for a brace, a hole behind a template, and no layout token.
LEMMA LexScans ==
    ASSUME NEW s \in Seq(ByteClass), NEW syn \in Syntax, NEW i \in Nat, i <= Len(s),
           NEW t \in Lex(s, syn, i)
    PROVE  /\ t \in Token /\ t.kind \in LexKind
           /\ t.kind # "Err" => Scanned(s, i, t)
           /\ HoleAhead(s, syn, t)
           /\ t.kind = "Eof" <=> At(s, i) = "eof"
           /\ At(s, i) = "lbrace" => t.kind = "LBrace"
           /\ t.kind = "StrTemplate" => syn # "Css"
           /\ t.kind = "HashLBrace" => syn \in {"Scss", "Sass"}
<1> DEFINE b == At(s, i)
           c == At(s, i + 1)
<1>1. t \in CASE b = "eof" -> {Outcome("Eof", i, i, i)}
          [] b \in IdentStart -> IdentLike(s, "Ident", i, i)
          [] b = "hash" /\ c \in IdentStart -> IdentLike(s, "Hash", i, i + 1)
          [] b = "at" /\ c \in IdentStart -> IdentLike(s, "AtKeyword", i, i + 1)
          [] b = "quote" -> StringPiece(s, syn, TRUE, i, i + 1)
          [] b = "at" /\ c = "lbrace" /\ syn = "Less" /\ At(s, i + 2) \in IdentStart
               -> LessLBraceVar(s, i)
          [] b = "hash" /\ c = "lbrace" /\ syn \in {"Scss", "Sass"}
               -> {Outcome("HashLBrace", i, i + 2, i + 2)}
          [] b \in Ws -> {Outcome("Err", i, i + 1, i + 1)}
          [] OTHER -> {Outcome(IF b \in {"hash", "at"} THEN "Punct" ELSE Delimiter[b],
                               i, i + 1, i + 1)}
  BY DEF Lex
<1>2. /\ Len(s) \in Nat
      /\ b # "eof" => b \in ByteClass /\ i + 1 <= Len(s)
      /\ c # "eof" => i + 2 <= Len(s)
      /\ i + 1 \in Nat /\ i + 2 \in Nat /\ i <= i + 1 /\ i <= i + 2
  BY AtIs
<1> HIDE DEF b, c
<1>3. CASE b = "eof"
  <2>1. t = Outcome("Eof", i, i, i)  BY <1>1, <1>3 DEF IdentStart, Ws
  <2>2. "Eof" \in Kind  BY DEF Kind, LexKind
  <2>3. t \in Token /\ Scanned(s, i, t)  BY <2>1, <2>2, ExactToken
  <2>4. t.kind = "Eof"  BY <2>1 DEF Outcome
  <2>5. QED  BY <2>3, <2>4, <1>3 DEF HoleAhead, LexKind, b
<1>4. CASE b \in IdentStart \/ (b \in {"hash", "at"} /\ c \in IdentStart)
  <2>1. PICK kind \in {"Ident", "Hash", "AtKeyword"}, j \in {i, i + 1} : t \in IdentLike(s, kind, i, j)
    BY <1>1, <1>4 DEF IdentStart, Ws
  <2>2. kind \in Kind \ {"Err"} /\ j \in Nat /\ i <= j  BY <1>2 DEF Kind, LexKind
  <2>3. t \in Token /\ t.kind \in {kind, "Err"} /\ Scanned(s, i, t)  BY <2>1, <2>2, IdentLikeScans
  <2>4. t.kind \in {"Ident", "Hash", "AtKeyword", "Err"}  BY <2>3
  <2>5. b \notin {"eof", "lbrace"}  BY <1>4 DEF IdentStart
  <2>6. QED  BY <2>3, <2>4, <2>5 DEF HoleAhead, LexKind, b
<1>5. CASE b = "quote"
  <2>1. t \in StringPiece(s, syn, TRUE, i, i + 1)  BY <1>1, <1>5 DEF IdentStart, Ws
  <2>2. /\ t \in Token /\ Scanned(s, i, t) /\ HoleAhead(s, syn, t)
        /\ t.kind \in {"Str", "StrTail", "StrTemplate", "BadStr", "Err"} /\ t.kind # "StrTail"
        /\ t.kind = "StrTemplate" => syn # "Css"
    BY <2>1, <1>2, StringScans
  <2>3. QED  BY <2>2, <1>5 DEF LexKind, b
<1>6. CASE b = "at" /\ c = "lbrace" /\ syn = "Less" /\ At(s, i + 2) \in IdentStart
  <2>1. t \in LessLBraceVar(s, i)  BY <1>1, <1>6 DEF IdentStart, Ws
  <2>2. t \in Token /\ t.kind \in {"AtLBraceVar", "Err"} /\ Scanned(s, i, t)  BY <2>1, LessVarScans
  <2>3. QED  BY <2>2, <1>6 DEF HoleAhead, LexKind, b
<1>7. CASE b = "hash" /\ c = "lbrace" /\ syn \in {"Scss", "Sass"}
  <2>1. t = Outcome("HashLBrace", i, i + 2, i + 2)  BY <1>1, <1>7 DEF IdentStart, Ws
  <2>2. "HashLBrace" \in Kind  BY DEF Kind, LexKind
  <2>3. i + 2 <= Len(s)  BY <1>2, <1>7
  <2>4. t.start = i /\ t.end = i + 2 /\ t.next = i + 2 /\ t.kind = "HashLBrace"  BY <2>1 DEF Outcome
  <2>5. t \in Token  BY <2>1, <2>2, <1>2 DEF Outcome, Token
  <2>6. \A k \in (i + 2)..((i + 2) - 1) : FALSE  BY <1>2
  <2>7. Scanned(s, i, t)  BY <2>3, <2>4, <2>6, <1>2 DEF Scanned
  <2>8. QED  BY <2>4, <2>5, <2>7, <1>7 DEF HoleAhead, LexKind, b
<1>8. CASE /\ b # "eof" /\ b # "quote" /\ b \notin IdentStart
           /\ ~(b \in {"hash", "at"} /\ c \in IdentStart)
           /\ ~(b = "at" /\ c = "lbrace" /\ syn = "Less" /\ At(s, i + 2) \in IdentStart)
           /\ ~(b = "hash" /\ c = "lbrace" /\ syn \in {"Scss", "Sass"})
  <2>1. PICK kind \in {"LParen", "RParen", "LBrace", "RBrace", "Punct", "Err"} :
           /\ t = Outcome(kind, i, i + 1, i + 1)
           /\ b = "lbrace" => kind = "LBrace"
    <3>1. CASE b \in Ws
      <4>1. t = Outcome("Err", i, i + 1, i + 1)  BY <1>1, <1>8, <3>1 DEF Ws
      <4>2. QED  BY <4>1, <3>1 DEF Ws
    <3>2. CASE b \notin Ws
      <4>1. t = Outcome(IF b \in {"hash", "at"} THEN "Punct" ELSE Delimiter[b], i, i + 1, i + 1)
        BY <1>1, <1>8, <3>2
      <4>2. b \in ByteClass  BY <1>2, <1>8
      <4>3. /\ Delimiter[b] \in {"LParen", "RParen", "LBrace", "RBrace", "Punct"}
            /\ b = "lbrace" => Delimiter[b] = "LBrace"
        BY <4>2 DEF Delimiter
      <4>4. QED  BY <4>1, <4>3
    <3>3. QED  BY <3>1, <3>2
  <2>2. kind \in Kind  BY DEF Kind, LexKind
  <2>3. t \in Token /\ Scanned(s, i, t)
    <3>1. i + 1 <= Len(s)  BY <1>2, <1>8
    <3>2. t.start = i /\ t.end = i + 1 /\ t.next = i + 1  BY <2>1 DEF Outcome
    <3>3. t \in Token  BY <2>1, <2>2, <1>2 DEF Outcome, Token
    <3>4. \A k \in (i + 1)..((i + 1) - 1) : FALSE  BY <1>2
    <3>5. QED  BY <3>1, <3>2, <3>3, <3>4, <1>2 DEF Scanned
  <2>4. t.kind = kind  BY <2>1 DEF Outcome
  <2>5. QED  BY <2>1, <2>3, <2>4, <1>8 DEF HoleAhead, LexKind, b
<1>9. QED  BY <1>3, <1>4, <1>5, <1>6, <1>7, <1>8

----------------------------------------------------------------------------
(***************************************************************************)
(* Every scanner reads something, unless it fails or reports the end.       *)
(***************************************************************************)
Advances(i, t) == t.kind \in {"Eof", "Err"} \/ i < t.next

LEMMA IdentAdvances ==
    ASSUME NEW s \in Seq(ByteClass), NEW kind \in Kind, NEW start \in Nat, NEW i \in Nat,
           start <= i, start < i \/ At(s, i) \in IdentStart,
           NEW t \in IdentLike(s, kind, start, i)
    PROVE  Advances(start, t)
<1>1. PICK e \in First(IdentStops(s, i)) : t.next = e
  BY DEF IdentLike, Outcome
<1>2. e \in IdentStops(s, i)  BY FirstIs
<1>3. e \in Nat /\ i <= e /\ Len(s) \in Nat  BY IdentStop, AtIs
<1>4. At(s, i) \in IdentStart => e # i
  BY <1>2, AtIs DEF IdentStops, IdentStart
<1>5. start < e  BY <1>3, <1>4
<1>6. QED  BY <1>1, <1>5 DEF Advances

\* The piece of a string behind a hole may be its closing quote only; the first one
\* has its opening quote.
LEMMA StringAdvances ==
    ASSUME NEW s \in Seq(ByteClass), NEW syn \in Syntax, NEW head \in BOOLEAN,
           NEW start \in Nat, NEW i \in Nat, start <= i, head => start < i,
           NEW t \in StringPiece(s, syn, head, start, i)
    PROVE  Advances(start, t)
<1>1. PICK e \in First(StringStops(s, syn, i)) :
         t = CASE At(s, e) = "quote" -> Outcome(IF head THEN "Str" ELSE "StrTail", start, e + 1, e + 1)
       [] At(s, e) \in {"hash", "at"} -> Outcome("StrTemplate", start, e, e + 1)
       [] At(s, e) = "nl" /\ head /\ syn = "Css" -> Outcome("BadStr", start, e, e + 1)
       [] At(s, e) = "eof" /\ head /\ syn = "Css" /\ ~Escaped(s, i, e)
            -> Outcome("BadStr", start, e, e)
       [] OTHER -> Outcome("Err", start, e, e)
  BY DEF StringPiece
<1>2. e \in Nat /\ i <= e  BY FirstIs, AtIs DEF StringStops
<1>3. t.kind = "Err" \/ t.next = e + 1 \/ (head /\ t.next = e)
  <2>1. CASE At(s, e) \in {"quote", "hash", "at"}  BY <1>1, <2>1 DEF Outcome
  <2>2. CASE At(s, e) \notin {"quote", "hash", "at"}  BY <1>1, <2>2 DEF Outcome
  <2>3. QED  BY <2>1, <2>2
<1>4. QED  BY <1>2, <1>3 DEF Advances

LEMMA UrlAdvances ==
    ASSUME NEW s \in Seq(ByteClass), NEW syn \in Syntax, NEW head \in BOOLEAN,
           NEW i \in Nat, NEW t \in UrlPiece(s, syn, head, i)
    PROVE  Advances(i, t)
<1>1. PICK e \in First(UrlStops(s, syn, i)) :
         t \in CASE At(s, e) = "close" -> {Outcome(IF head THEN "UrlRaw" ELSE "UrlTail", i, e, e + 1)}
          [] At(s, e) = "hash"  -> {Outcome("UrlTemplate", i, e, e + 1)}
          [] At(s, e) \in Ws    ->
                {IF At(s, c) = "close"
                   THEN Outcome(IF head THEN "UrlRaw" ELSE "UrlTail", i, e, c + 1)
                   ELSE Outcome("Err", i, c, c) : c \in WsEnd(s, e)}
          [] OTHER -> {Outcome("Err", i, e, e)}
  BY DEF UrlPiece
<1>2. e \in Nat /\ i <= e  BY FirstIs, AtIs DEF UrlStops
<1>3. t.kind = "Err" \/ t.next = e + 1 \/ \E c \in WsEnd(s, e) : t.next = c + 1
  <2>1. CASE At(s, e) \in {"close", "hash"}  BY <1>1, <2>1 DEF Outcome, Ws
  <2>2. CASE At(s, e) \in Ws
    <3>1. PICK c \in WsEnd(s, e) :
             t = IF At(s, c) = "close"
                   THEN Outcome(IF head THEN "UrlRaw" ELSE "UrlTail", i, e, c + 1)
                   ELSE Outcome("Err", i, c, c)
      BY <1>1, <2>2 DEF Ws
    <3>2. QED  BY <3>1 DEF Outcome
  <2>3. CASE At(s, e) \notin {"close", "hash"} /\ At(s, e) \notin Ws
    BY <1>1, <2>3 DEF Outcome
  <2>4. QED  BY <2>1, <2>2, <2>3
<1>4. \A c \in WsEnd(s, e) : c \in Nat /\ i < c + 1
  <2> TAKE c \in WsEnd(s, e)
  <2>1. c \in Nat /\ e <= c  BY <1>2, WsEndIs
  <2>2. QED  BY <1>2, <2>1
<1>5. QED  BY <1>2, <1>3, <1>4 DEF Advances

LEMMA LexAdvances ==
    ASSUME NEW s \in Seq(ByteClass), NEW syn \in Syntax, NEW i \in Nat,
           NEW t \in Lex(s, syn, i)
    PROVE  Advances(i, t)
<1> DEFINE b == At(s, i)
           c == At(s, i + 1)
<1>1. t \in CASE b = "eof" -> {Outcome("Eof", i, i, i)}
          [] b \in IdentStart -> IdentLike(s, "Ident", i, i)
          [] b = "hash" /\ c \in IdentStart -> IdentLike(s, "Hash", i, i + 1)
          [] b = "at" /\ c \in IdentStart -> IdentLike(s, "AtKeyword", i, i + 1)
          [] b = "quote" -> StringPiece(s, syn, TRUE, i, i + 1)
          [] b = "at" /\ c = "lbrace" /\ syn = "Less" /\ At(s, i + 2) \in IdentStart
               -> LessLBraceVar(s, i)
          [] b = "hash" /\ c = "lbrace" /\ syn \in {"Scss", "Sass"}
               -> {Outcome("HashLBrace", i, i + 2, i + 2)}
          [] b \in Ws -> {Outcome("Err", i, i + 1, i + 1)}
          [] OTHER -> {Outcome(IF b \in {"hash", "at"} THEN "Punct" ELSE Delimiter[b],
                               i, i + 1, i + 1)}
  BY DEF Lex
<1>2. i <= i /\ i <= i + 1 /\ i < i + 1 /\ i < i + 2 /\ i + 1 \in Nat /\ TRUE \in BOOLEAN  OBVIOUS
<1>3. {"Ident", "Hash", "AtKeyword"} \subseteq Kind  BY DEF Kind, LexKind
<1> HIDE DEF b, c
<1>4. CASE b \in IdentStart
  <2>1. t \in IdentLike(s, "Ident", i, i)  BY <1>1, <1>4 DEF IdentStart, Ws
  <2>2. At(s, i) \in IdentStart  BY <1>4 DEF b
  <2>3. QED  BY <2>1, <2>2, <1>2, <1>3, IdentAdvances
<1>5. CASE b \in {"hash", "at"} /\ c \in IdentStart
  <2>1. PICK kind \in {"Hash", "AtKeyword"} : t \in IdentLike(s, kind, i, i + 1)
    BY <1>1, <1>5 DEF IdentStart, Ws
  <2>2. QED  BY <2>1, <1>2, <1>3, IdentAdvances
<1>6. CASE b = "quote"
  <2>1. t \in StringPiece(s, syn, TRUE, i, i + 1)  BY <1>1, <1>6 DEF IdentStart, Ws
  <2>2. QED  BY <2>1, <1>2, StringAdvances
<1>7. CASE b = "at" /\ c = "lbrace" /\ syn = "Less" /\ At(s, i + 2) \in IdentStart
  <2>1. t \in LessLBraceVar(s, i)  BY <1>1, <1>7 DEF IdentStart, Ws
  <2>2. PICK e \in First(IdentStops(s, i + 2)) : t.kind = "Err" \/ t.next = e + 1
    BY <2>1 DEF LessLBraceVar, LessVarEnd, Outcome
  <2>3. e \in Nat /\ i + 2 <= e  BY IdentStop
  <2>4. QED  BY <2>2, <2>3 DEF Advances
<1>8. CASE b \in {"eof", "sp", "nl", "cr"}
  <2>1. t = Outcome("Eof", i, i, i) \/ t = Outcome("Err", i, i + 1, i + 1)
    BY <1>1, <1>8 DEF IdentStart, Ws
  <2>2. QED  BY <2>1 DEF Outcome, Advances
<1>9. CASE /\ b # "eof" /\ b # "quote" /\ b \notin IdentStart /\ b \notin Ws
           /\ ~(b \in {"hash", "at"} /\ c \in IdentStart)
           /\ ~(b = "at" /\ c = "lbrace" /\ syn = "Less" /\ At(s, i + 2) \in IdentStart)
  <2>1. t.next \in {i + 1, i + 2}  BY <1>1, <1>9 DEF Outcome
  <2>2. QED  BY <2>1, <1>2 DEF Advances
<1>10. QED  BY <1>4, <1>5, <1>6, <1>7, <1>8, <1>9 DEF Ws

=============================================================================
