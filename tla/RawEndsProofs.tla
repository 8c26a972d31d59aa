--------------------------- MODULE RawEndsProofs ---------------------------
(***************************************************************************)
(* Where a raw run of tokens ends, for every source, every loop and every   *)
(* dialect.  In the indented syntax a line break ends a run only where the  *)
(* tokenizer's depth is 0, so the depth has to be known first: it counts    *)
(* the pairs of the run and what is open in the expressions of the strings. *)
(* And what annotation a declaration's raw value ends with, for which it     *)
(* matters what the tokens of the run leave out of the source.              *)
(***************************************************************************)
EXTENDS RawTokensProofs

----------------------------------------------------------------------------
(***************************************************************************)
(* What the strings being read add to the depth.                            *)
(***************************************************************************)
Weight(t) == IF t.at = "expression" THEN 1 + Len(t.nest) ELSE 0

\* d[k] is the depth in front of the string k + 1.
Deepens(strings, base, d) ==
    /\ d \in [0..Len(strings) -> Nat] /\ d[0] = base
    /\ \A k \in 1..Len(strings) : d[k] = d[k - 1] + Weight(strings[k])

DepthIn(strings, base, n) == \E d : Deepens(strings, base, d) /\ n = d[Len(strings)]

LEMMA WeightType == ASSUME NEW t \in Template PROVE Weight(t) \in Nat
<1>1. t.nest \in Seq(Pair)  BY DEF Template
<1>2. Len(t.nest) \in Nat  BY <1>1, LenProperties
<1>3. QED  BY <1>2 DEF Weight

LEMMA DepthOutside ==
    ASSUME NEW base \in Nat, NEW n
    PROVE  DepthIn(<<>>, base, n) <=> n = base
<1>1. Len(<<>>) = 0  OBVIOUS
<1>2. ASSUME NEW d, Deepens(<<>>, base, d) PROVE d[0] = base  BY <1>2 DEF Deepens
<1>3. Deepens(<<>>, base, [k \in 0..0 |-> base])  BY <1>1 DEF Deepens
<1>4. ASSUME n = base PROVE DepthIn(<<>>, base, n)
  <2>1. [k \in 0..0 |-> base][0] = base  OBVIOUS
  <2>2. QED  BY <1>1, <1>3, <1>4, <2>1 DEF DepthIn
<1>5. ASSUME DepthIn(<<>>, base, n) PROVE n = base  BY <1>1, <1>2, <1>5 DEF DepthIn
<1>6. QED  BY <1>4, <1>5

LEMMA DepthPushed ==
    ASSUME NEW s \in Seq(Template), NEW x \in Template, NEW base, NEW n, DepthIn(s, base, n)
    PROVE  n \in Nat /\ DepthIn(Append(s, x), base, n + Weight(x))
<1> DEFINE m == Len(s)
           w == Weight(x)
           r == Append(s, x)
<1>1. PICK d : Deepens(s, base, d) /\ n = d[Len(s)]  BY DEF DepthIn
<1>2. m \in Nat /\ w \in Nat  BY LenProperties, WeightType
<1>3. Len(r) = m + 1 /\ (\A k \in 1..m : r[k] = s[k]) /\ r[m + 1] = x  BY PushProperties
<1>4. d \in [0..m -> Nat] /\ d[0] = base /\ n = d[m]
      /\ \A k \in 1..m : d[k] = d[k - 1] + Weight(s[k])
  BY <1>1 DEF Deepens
<1>5. n \in Nat  BY <1>2, <1>4
<1> DEFINE c == [k \in 0..(m + 1) |-> IF k = m + 1 THEN n + w ELSE d[k]]
<1>6. c \in [0..(m + 1) -> Nat] /\ c[0] = base /\ c[m + 1] = n + w  BY <1>2, <1>4, <1>5
<1>7. ASSUME NEW k \in 1..(m + 1) PROVE c[k] = c[k - 1] + Weight(r[k])
  <2>1. CASE k = m + 1
    <3>1. c[k] = n + w /\ c[k - 1] = d[m] /\ r[k] = x  BY <1>2, <1>3, <2>1
    <3>2. QED  BY <1>4, <3>1
  <2>2. CASE k # m + 1
    <3>1. k \in 1..m /\ c[k] = d[k] /\ c[k - 1] = d[k - 1] /\ r[k] = s[k]  BY <1>2, <1>3, <2>2
    <3>2. QED  BY <1>4, <3>1
  <2>3. QED  BY <2>1, <2>2
<1> HIDE DEF c, r, m, w
<1>8. Deepens(r, base, c) /\ n + w = c[Len(r)]  BY <1>3, <1>6, <1>7 DEF Deepens
<1>9. QED  BY <1>5, <1>8 DEF DepthIn, r, w

LEMMA DepthPopped ==
    ASSUME NEW s \in Seq(Template), s # <<>>, NEW base, NEW n, DepthIn(s, base, n)
    PROVE  \E o \in Nat : n = o + Weight(Last(s)) /\ DepthIn(Front(s), base, o)
<1> DEFINE m == Len(s)
           f == Front(s)
<1>1. PICK d : Deepens(s, base, d) /\ n = d[Len(s)]  BY DEF DepthIn
<1>2. m \in Nat /\ m >= 1 /\ Len(f) = m - 1 /\ Last(s) = s[m]
      /\ \A k \in 1..(m - 1) : f[k] = s[k]
  BY PopProperties
<1>3. d \in [0..m -> Nat] /\ d[0] = base /\ n = d[m]
      /\ \A k \in 1..m : d[k] = d[k - 1] + Weight(s[k])
  BY <1>1 DEF Deepens
<1> DEFINE c == [k \in 0..(m - 1) |-> d[k]]
<1>4. c \in [0..(m - 1) -> Nat] /\ c[0] = base /\ c[m - 1] = d[m - 1] /\ d[m - 1] \in Nat
  BY <1>2, <1>3
<1>5. ASSUME NEW k \in 1..(m - 1) PROVE c[k] = c[k - 1] + Weight(f[k])
  <2>1. c[k] = d[k] /\ c[k - 1] = d[k - 1] /\ f[k] = s[k] /\ k \in 1..m  BY <1>2
  <2>2. QED  BY <1>3, <2>1
<1>6. m \in 1..m  BY <1>2
<1>7. n = d[m - 1] + Weight(Last(s))  BY <1>2, <1>3, <1>6
<1> HIDE DEF c, f, m
<1>8. Deepens(f, base, c) /\ d[m - 1] = c[Len(f)]  BY <1>2, <1>4, <1>5 DEF Deepens
<1>9. QED  BY <1>4, <1>7, <1>8 DEF DepthIn, f

\* The innermost string, replaced.
LEMMA DepthReplaced ==
    ASSUME NEW s \in Seq(Template), s # <<>>, NEW x \in Template, NEW base, NEW n,
           DepthIn(s, base, n)
    PROVE  \E o \in Nat : /\ n = o + Weight(Last(s))
                          /\ DepthIn(Append(Front(s), x), base, o + Weight(x))
<1>1. PICK o \in Nat : n = o + Weight(Last(s)) /\ DepthIn(Front(s), base, o)  BY DepthPopped
<1>2. Front(s) \in Seq(Template)  BY PopProperties
<1>3. QED  BY <1>1, <1>2, DepthPushed

----------------------------------------------------------------------------
(***************************************************************************)
(* The depth in the indented syntax.  "parens" begins behind its `(`, and    *)
(* no line break ends it.                                                   *)
(***************************************************************************)
Lines == syntax = "Sass" /\ scan \in {"value", "nonblock", "prelude"}

Deep == DepthIn(templates, Len(pairs), depth)

DepthIs == mode = "scan" /\ Lines /\ BracketsCount => Cut \/ Deep

LEMMA BracketsStay ==
    ASSUME UNCHANGED <<src, syntax, scan>>
    PROVE  BracketsCount' <=> BracketsCount
<1>1. Nesting' = Nesting  BY NestingStays
<1>2. QED  BY <1>1 DEF BracketsCount, Innards

LEMMA BumpDeepens ==
    ASSUME NEW t, Bump(t), syntax = "Sass"
    PROVE  /\ t.kind \in Opener => depth' = depth + 1
           /\ t.kind \in Closer => depth' = Down(depth)
           /\ t.kind \notin Opener \cup Closer => depth' = depth
<1>1. Brackets \cup Braces = Opener \cup Closer /\ Opener \cap Closer = {}
  BY DEF Brackets, Braces, Opener, Closer
<1>2. QED  BY <1>1 DEF Bump

LEMMA DepthTakeToken ==
    ASSUME TypeInv, Deep, TakeToken, Lines
    PROVE  Deep'
<1> DEFINE t == Peek
<1>1. /\ templates = <<>> /\ templates' = <<>> /\ Passes(pairs, t.kind)
      /\ pairs' = Track(pairs, t.kind) /\ Bump(t) /\ syntax = "Sass"
  BY DEF TakeToken, Scanning, Lines, Tracks
<1>2. pairs \in Seq(Pair) /\ depth \in Nat /\ Len(pairs) \in Nat  BY LenProperties DEF TypeInv, TypeOK
<1>3. depth = Len(pairs)  BY <1>1, <1>2, DepthOutside DEF Deep
<1> HIDE DEF t
<1>4. Len(pairs') \in Nat /\ depth' = Len(pairs')
  <2>1. CASE t.kind \in Opener
    <3>1. pairs' = Append(pairs, PairOf[t.kind]) /\ PairOf[t.kind] \in Pair
      BY <1>1, <1>2, <2>1, TrackType
    <3>2. Len(pairs') = Len(pairs) + 1  BY <1>2, <3>1, PushProperties
    <3>3. depth' = depth + 1  BY <1>1, <2>1, BumpDeepens
    <3>4. QED  BY <1>2, <1>3, <3>2, <3>3
  <2>2. CASE t.kind \in Closer
    <3>1. pairs # <<>>  BY <1>1, <2>2 DEF Passes
    <3>2. pairs' = Front(pairs)  BY <1>1, <1>2, <2>2, <3>1, TrackType
    <3>3. Len(pairs') = Len(pairs) - 1 /\ Len(pairs) >= 1  BY <1>2, <3>1, <3>2, PopProperties
    <3>4. depth' = Down(depth)  BY <1>1, <2>2, BumpDeepens
    <3>5. QED  BY <1>2, <1>3, <3>3, <3>4 DEF Down
  <2>3. CASE t.kind \notin Opener \cup Closer
    <3>1. pairs' = pairs  BY <1>1, <1>2, <2>3, TrackType
    <3>2. depth' = depth  BY <1>1, <2>3, BumpDeepens
    <3>3. QED  BY <1>2, <1>3, <3>1, <3>2
  <2>4. QED  BY <2>1, <2>2, <2>3
<1>5. QED  BY <1>1, <1>4, DepthOutside DEF Deep

LEMMA DepthOfString ==
    ASSUME TypeInv, Deep, templates # <<>>, NEW x \in Template, SetInnermost(x), pairs' = pairs,
           depth' \in Nat, depth' + Weight(Innermost) = depth + Weight(x)
    PROVE  Deep'
<1>1. templates \in Seq(Template) /\ templates' = Append(Front(templates), x)
  BY DEF TypeInv, TypeOK, SetInnermost
<1>2. Innermost \in Template /\ Innermost = Last(templates)  BY InnermostType DEF Innermost
<1>3. Weight(Innermost) \in Nat /\ Weight(x) \in Nat  BY <1>2, WeightType
<1>4. PICK o \in Nat : /\ depth = o + Weight(Innermost)
                      /\ DepthIn(Append(Front(templates), x), Len(pairs), o + Weight(x))
  BY <1>1, <1>2, DepthReplaced DEF Deep
<1>5. \A a, b, c, e, f \in Nat : b = c + e /\ a + e = b + f => a = c + f  OBVIOUS
<1>6. depth' \in Nat /\ depth \in Nat  BY DEF TypeInv, TypeOK
<1>7. depth' = o + Weight(x)  BY <1>3, <1>4, <1>5, <1>6
<1>8. QED  BY <1>1, <1>4, <1>7 DEF Deep

LEMMA DepthTakeOfExpression ==
    ASSUME TypeInv, Strings, Deep, TakeOfExpression, Lines, BracketsCount
    PROVE  Deep'
<1> DEFINE t == Peek
           kind == Nested(t.kind)
           n == Innermost.nest
           x == [Innermost EXCEPT !.nest = Track(@, kind)]
<1>1. /\ mode = "scan" /\ templates # <<>> /\ Innermost.at = "expression" /\ syntax = "Sass"
      /\ t.kind \notin {"Err", "eof"} /\ Bump(t) /\ SetInnermost(x) /\ pairs' = pairs
      /\ ~(t.kind = "rbrace" /\ n = <<>>)
      /\ Typed => Passes(n, kind)
  BY DEF TakeOfExpression, InExpression, Lines
<1>2. n \in Seq(Pair) /\ Innermost \in Template /\ Len(n) \in Nat
  BY <1>1, InnermostType, LenProperties
<1>3. Reading
  <2>1. Balancing  BY DEF Lines, Balancing
  <2>2. QED  BY <1>1, <2>1, BalancingReads
<1>4. Pieces => t.kind \notin Brackets
  <2>1. SUFFICES ASSUME Pieces, t.kind \in Brackets PROVE FALSE  OBVIOUS
  <2>2. scan = "prelude"  BY <2>1 DEF Pieces, Lines
  <2>3. src \in Seq(Symbol) /\ pos \in 1..(Len(src) + 1)  BY DEF TypeInv, TypeOK
  <2>4. t.start \in 1..Len(src) /\ Innards(Nesting[t.start])
    BY <1>1, <1>3, InExpressions
  <2>5. t.kind = src[t.start]
    <3>1. t.kind \in Symbol  BY <2>1 DEF Brackets, Symbol
    <3>2. QED  BY <1>1, <2>3, <3>1, OddKinds DEF Simple
  <2>6. src[t.start] \notin Brackets  BY <1>1, <2>2, <2>4 DEF BracketsCount
  <2>7. QED  BY <2>1, <2>5, <2>6
<1>5. /\ kind \in Opener \cup Closer => kind = t.kind
      /\ t.kind \in Opener \cup Closer => kind = t.kind
  <2>1. Opener \cup Closer \subseteq Brackets \cup Braces /\ "word" \notin Opener \cup Closer
    BY DEF Opener, Closer, Brackets, Braces
  <2>2. QED  BY <1>4, <2>1 DEF Nested
<1>6. Track(n, kind) \in Seq(Pair) /\ x \in Template /\ x.at = "expression"
      /\ x.nest = Track(n, kind)
  BY <1>1, <1>2, TrackType DEF Template
<1>7. depth \in Nat /\ depth' \in Nat  BY <1>1, Bumped DEF TypeInv, TypeOK
<1>8. Weight(Innermost) = 1 + Len(n) /\ Weight(x) = 1 + Len(Track(n, kind))
  BY <1>1, <1>6 DEF Weight
<1>9. depth >= Weight(Innermost)
  <2>1. templates \in Seq(Template) /\ Innermost = Last(templates)
    BY DEF TypeInv, TypeOK, Innermost
  <2>2. PICK o \in Nat : depth = o + Weight(Innermost)
    BY <1>1, <2>1, DepthPopped DEF Deep
  <2>3. Weight(Innermost) \in Nat  BY <1>2, WeightType
  <2>4. QED  BY <2>2, <2>3
<1> HIDE DEF x, kind, n, t
<1>10. Len(Track(n, kind)) \in Nat /\ depth' + Len(n) = depth + Len(Track(n, kind))
  <2>1. CASE t.kind \in Opener
    <3>1. kind = t.kind  BY <1>5, <2>1
    <3>2. Track(n, kind) = Append(n, PairOf[kind]) /\ PairOf[kind] \in Pair
      BY <1>2, <2>1, <3>1, TrackType
    <3>3. Len(Track(n, kind)) = Len(n) + 1  BY <1>2, <3>2, PushProperties
    <3>4. depth' = depth + 1  BY <1>1, <2>1, BumpDeepens
    <3>5. QED  BY <1>2, <1>7, <3>3, <3>4
  <2>2. CASE t.kind \in Closer
    <3>1. kind = t.kind  BY <1>5, <2>2
    <3>2. n # <<>>
      <4>1. CASE Typed  BY <1>1, <2>2, <3>1, <4>1 DEF Passes
      <4>2. CASE ~Typed
        <5>1. Pieces  BY <4>2 DEF Typed, Pieces, Lines
        <5>2. t.kind = "rbrace"  BY <1>4, <2>2, <5>1 DEF Brackets, Closer
        <5>3. QED  BY <1>1, <5>2
      <4>3. QED  BY <4>1, <4>2
    <3>3. Track(n, kind) = Front(n)  BY <1>2, <2>2, <3>1, <3>2, TrackType
    <3>4. Len(Track(n, kind)) = Len(n) - 1 /\ Len(n) >= 1  BY <1>2, <3>2, <3>3, PopProperties
    <3>5. depth' = Down(depth)  BY <1>1, <2>2, BumpDeepens
    <3>6. QED  BY <1>2, <1>7, <1>8, <1>9, <3>4, <3>5 DEF Down
  <2>3. CASE t.kind \notin Opener \cup Closer
    <3>1. Track(n, kind) = n  BY <1>2, <1>5, <2>3, TrackType
    <3>2. depth' = depth  BY <1>1, <2>3, BumpDeepens
    <3>3. QED  BY <1>2, <1>7, <3>1, <3>2
  <2>4. QED  BY <2>1, <2>2, <2>3
<1>11. depth' + Weight(Innermost) = depth + Weight(x)  BY <1>2, <1>7, <1>8, <1>10
<1>12. QED  BY <1>1, <1>6, <1>7, <1>11, DepthOfString

LEMMA DepthStrings ==
    ASSUME TypeInv, Strings, Deep, Lines, BracketsCount, mode = "scan",
           BeginTemplate \/ OpenInterpolation \/ CloseInterpolation \/ ScanPiece
    PROVE  Deep'
<1>1. /\ templates \in Seq(Template) /\ depth \in Nat /\ src \in Seq(Symbol)
      /\ pos \in 1..(Len(src) + 1) /\ syntax = "Sass"
  BY DEF TypeInv, TypeOK, Lines
<1>2. /\ "StrTemplate" \notin Opener \cup Closer /\ "lbrace" \in Opener /\ "rbrace" \in Closer
      /\ "StrTemplate" \notin Opener
  BY DEF Opener, Closer
<1>3. CASE BeginTemplate
  <2> DEFINE x == [quote |-> At(Peek.start), start |-> Peek.start, at |-> "open", nest |-> <<>>,
                   from |-> 0]
  <2>1. /\ templates' = Append(templates, x) /\ Peek.kind = "StrTemplate" /\ Bump(Peek)
        /\ pairs' = pairs
    BY <1>3 DEF BeginTemplate
  <2>2. x \in Template /\ x.at = "open"
    <3>1. src[Peek.start] \in Quote /\ Peek.start \in 1..Len(src)
      BY <1>1, <2>1, OddKinds, TokenIs
    <3>2. At(Peek.start) \in Quote  BY <1>1, <3>1, Symbols
    <3>3. <<>> \in Seq(Pair) /\ 0 \in Nat  OBVIOUS
    <3>4. QED  BY <3>1, <3>2, <3>3 DEF Template
  <2> HIDE DEF x
  <2>3. depth' = depth  BY <1>1, <1>2, <2>1, BumpDeepens
  <2>4. Weight(x) = 0  BY <2>2 DEF Weight
  <2>5. DepthIn(templates', Len(pairs), depth + 0)
    BY <1>1, <2>1, <2>2, <2>4, DepthPushed DEF Deep
  <2>6. depth + 0 = depth  BY <1>1
  <2>7. QED  BY <2>1, <2>3, <2>5, <2>6 DEF Deep
<1>4. CASE OpenInterpolation
  <2> DEFINE x == [Innermost EXCEPT !.at = "expression", !.from = Peek.next]
  <2>1. /\ templates # <<>> /\ Innermost.at = "open" /\ SetInnermost(x) /\ Bump(Peek)
        /\ pairs' = pairs
    BY <1>4 DEF OpenInterpolation
  <2>2. Peek.kind = "lbrace" /\ Peek.next = pos + 1  BY <2>1, BraceOfHash
  <2>3. Innermost \in Template /\ Innermost.nest = <<>>  BY <2>1, InnermostType
  <2>4. x \in Template /\ x.at = "expression" /\ x.nest = <<>>
    <3>1. Peek.next \in Nat  BY <2>1, <2>2, BraceOfHash
    <3>2. QED  BY <2>3, <3>1 DEF Template
  <2>5. Weight(x) = 1 /\ Weight(Innermost) = 0
    <3>1. Len(<<>>) = 0  OBVIOUS
    <3>2. QED  BY <2>1, <2>3, <2>4, <3>1 DEF Weight
  <2> HIDE DEF x
  <2>6. depth' = depth + 1  BY <1>1, <1>2, <2>1, <2>2, BumpDeepens
  <2>7. depth' \in Nat /\ depth' + Weight(Innermost) = depth + Weight(x)
    BY <1>1, <2>5, <2>6
  <2>8. QED  BY <2>1, <2>4, <2>7, DepthOfString
<1>5. CASE CloseInterpolation
  <2> DEFINE x == [Innermost EXCEPT !.at = "piece"]
  <2>1. /\ templates # <<>> /\ Innermost.at = "expression" /\ Innermost.nest = <<>>
        /\ SetInnermost(x) /\ Bump(Peek) /\ pairs' = pairs /\ Peek.kind = "rbrace"
    BY <1>5 DEF CloseInterpolation, InExpression
  <2>2. Innermost \in Template  BY <2>1, InnermostType
  <2>3. x \in Template /\ x.at = "piece"  BY <2>2 DEF Template
  <2>4. Weight(x) = 0 /\ Weight(Innermost) = 1
    <3>1. Len(<<>>) = 0  OBVIOUS
    <3>2. QED  BY <2>1, <2>3, <3>1 DEF Weight
  <2> HIDE DEF x
  <2>5. PICK o \in Nat : depth = o + 1
    <3>1. Innermost = Last(templates)  BY DEF Innermost
    <3>2. QED  BY <1>1, <2>1, <2>4, <3>1, DepthPopped DEF Deep
  <2>6. depth' = Down(depth)  BY <1>1, <1>2, <2>1, BumpDeepens
  <2>7. depth' \in Nat /\ depth' + Weight(Innermost) = depth + Weight(x)
    BY <2>4, <2>5, <2>6 DEF Down
  <2>8. QED  BY <2>1, <2>3, <2>7, DepthOfString
<1>6. CASE ScanPiece
  <2>1. templates # <<>> /\ Innermost.at = "piece" /\ depth' = depth /\ pairs' = pairs
    BY <1>6 DEF ScanPiece, InPiece
  <2>2. Innermost \in Template /\ Weight(Innermost) = 0 /\ Innermost = Last(templates)
    BY <2>1, InnermostType DEF Weight, Innermost
  <2>3. CASE At(Piece) = Innermost.quote
    <3>1. templates' = Front(templates)  BY <1>6, <2>3 DEF ScanPiece
    <3>2. PICK o \in Nat : depth = o + 0 /\ DepthIn(Front(templates), Len(pairs), o)
      BY <1>1, <2>1, <2>2, DepthPopped DEF Deep
    <3>3. depth = o  BY <3>2
    <3>4. QED  BY <2>1, <3>1, <3>2, <3>3 DEF Deep
  <2>4. CASE At(Piece) # Innermost.quote
    <3> DEFINE x == [Innermost EXCEPT !.at = "open"]
    <3>1. SetInnermost(x)  BY <1>6, <2>4 DEF ScanPiece
    <3>2. x \in Template /\ x.at = "open"  BY <2>2 DEF Template
    <3>3. Weight(x) = 0  BY <3>2 DEF Weight
    <3> HIDE DEF x
    <3>4. depth' \in Nat /\ depth' + Weight(Innermost) = depth + Weight(x)
      BY <1>1, <2>1, <2>2, <3>3
    <3>5. QED  BY <2>1, <3>1, <3>2, <3>4, DepthOfString
  <2>5. QED  BY <2>3, <2>4
<1>7. QED  BY <1>3, <1>4, <1>5, <1>6

LEMMA DepthStep ==
    ASSUME TypeInv, Strings, DepthIs, [Next]_vars
    PROVE  DepthIs'
<1> SUFFICES ASSUME mode' = "scan", Lines', BracketsCount' PROVE Cut' \/ Deep'
  BY DEF DepthIs
<1>1. CASE EofInTemplate
  <2>1. /\ mode = "scan" /\ templates' = <<>> /\ UNCHANGED <<src, syntax, scan, pos, depth>>
        /\ templates # <<>> /\ Innermost.at = "expression" /\ Peek.kind = "eof" /\ Pieces
    BY <1>1 DEF EofInTemplate, InExpression
  <2>2. Balancing  BY <2>1 DEF Balancing, Lines
  <2>3. Reading  BY <2>1, <2>2, BalancingReads
  <2>4. Nesting[pos] # <<>> /\ ~Quoted(Nesting[pos])  BY <2>1, <2>3, InnermostString
  <2>5. Peek' = Peek /\ Nesting' = Nesting  BY <2>1, PeekStays, NestingStays
  <2>6. QED  BY <2>1, <2>4, <2>5 DEF Cut, Pieces, Quoted
<1>2. CASE TakeToken \/ BeginTemplate \/ OpenInterpolation \/ TakeOfExpression
           \/ CloseInterpolation \/ ScanPiece
  <2>1. /\ mode = "scan" /\ UNCHANGED <<src, syntax, scan>>
        /\ templates # <<>> \/ Peek.kind # "eof"
    BY <1>2 DEF TakeToken, Scanning, Ends, EndsAnywhere, BeginTemplate, OpenInterpolation,
                TakeOfExpression, CloseInterpolation, ScanPiece, InExpression, InPiece
  <2>2. BracketsCount /\ Lines  BY <2>1, BracketsStay DEF Lines
  <2>3. Deep  BY <2>1, <2>2 DEF DepthIs, Cut
  <2>4. QED  BY <1>2, <2>1, <2>2, <2>3, DepthTakeToken, DepthTakeOfExpression, DepthStrings
<1>3. CASE UNCHANGED vars
  <2>1. mode = "scan" /\ UNCHANGED <<src, syntax, scan, pos, depth, pairs, templates>>
    BY <1>3 DEF vars
  <2>2. BracketsCount /\ Lines  BY <2>1, BracketsStay DEF Lines
  <2>3. Peek' = Peek /\ Nesting' = Nesting  BY <2>1, PeekStays, NestingStays
  <2>4. Cut' <=> Cut  BY <2>1, <2>3 DEF Cut, Pieces, Quoted
  <2>5. Deep' <=> Deep  BY <2>1 DEF Deep
  <2>6. QED  BY <2>1, <2>2, <2>4, <2>5 DEF DepthIs
<1>4. ASSUME Fail \/ Stop \/ StopAtCloser \/ TakeRawImportant \/ Return PROVE FALSE
  BY <1>4 DEF Fail, Stop, StopAtCloser, TakeRawImportant, Return
<1>5. ASSUME OpenArgs PROVE FALSE  BY <1>5 DEF OpenArgs, Lines
<1>6. QED
  BY <1>1, <1>2, <1>3, <1>4, <1>5
  DEF Next, TokenizerFails, Reject, RejectExpression, PieceFails, CallerRejects

LEMMA DepthInit == Init => DepthIs
<1> SUFFICES ASSUME Init, Lines PROVE Deep  BY DEF DepthIs
<1>1. templates = <<>> /\ pairs = <<>> /\ depth = 0  BY DEF Init, Lines
<1>2. Len(pairs) = 0  BY <1>1
<1>3. QED  BY <1>1, <1>2, DepthOutside DEF Deep

----------------------------------------------------------------------------
(***************************************************************************)
(* Where a run has to end, and that none of its tokens passes such a place.  *)
(***************************************************************************)
EndsAt(i) == \/ Nesting[i] = <<>> /\ src[i] \in Terminators /\ ~Behind(i)
             \/ ClosesNothing(Nesting[i], i)

NoEndBefore(n) == \A i \in 1..(n - 1) : ~EndsAt(i)

NoEnd == mode = "scan" /\ Balancing /\ BracketsCount => NoEndBefore(pos)

LEMMA EndOfRunIs ==
    ASSUME src \in Seq(Symbol), NEW n \in 1..(Len(src) + 1), NoEndBefore(n),
           n = Len(src) + 1 \/ EndsAt(n)
    PROVE  EndOfRun(Terminators) = n
<1> DEFINE P == {i \in 1..(Len(src) + 1) : i = Len(src) + 1 \/ EndsAt(i)}
<1>1. EndOfRun(Terminators) = Least(P)
  <2>1. P = {i \in 1..(Len(src) + 1) :
               \/ i = Len(src) + 1
               \/ Nesting[i] = <<>> /\ src[i] \in Terminators /\ ~Behind(i)
               \/ ClosesNothing(Nesting[i], i)}
    BY DEF EndsAt
  <2>2. QED  BY <2>1 DEF EndOfRun
<1>2. Len(src) \in Nat  BY Symbols
<1>3. P \in SUBSET Nat /\ n \in P  BY <1>2
<1> DEFINE e == Least(P)
<1>4. e \in P /\ \A j \in P : e <= j
  <2>1. P # {}  BY <1>3
  <2> HIDE DEF P
  <2>2. QED  BY <1>3, <2>1, LeastIs
<1>5. e \in 1..(Len(src) + 1) /\ (e = Len(src) + 1 \/ EndsAt(e)) /\ e <= n  BY <1>3, <1>4
<1> HIDE DEF e, P
<1>6. CASE e = Len(src) + 1  BY <1>1, <1>2, <1>5, <1>6 DEF e
<1>7. CASE EndsAt(e)
  <2>1. ~(e \in 1..(n - 1))  BY <1>7 DEF NoEndBefore
  <2>2. QED  BY <1>1, <1>2, <1>5, <2>1 DEF e
<1>8. QED  BY <1>5, <1>6, <1>7

LEMMA TerminatorsAre ==
    ASSUME Balancing
    PROVE  /\ Terminators \subseteq {"semi", "lbrace", "nl", "indent"}
           /\ scan = "parens" => Terminators = {}
           /\ syntax # "Sass" => Terminators \cap LineBreak = {}
           /\ EndsOutside \subseteq Terminators
           /\ syntax = "Sass" => EndsAnywhere \subseteq Terminators \cup {"eof"}
           /\ EndsAnywhere \subseteq LineBreak \cup {"eof"}
<1>1. /\ scan = "value" => EndsOutside = {"semi"} /\ EndsAnywhere = {"eof", "nl"}
      /\ scan = "nonblock" => EndsOutside = {"semi", "lbrace"} /\ EndsAnywhere = {"eof", "nl"}
      /\ scan = "prelude" => /\ EndsOutside = {"semi", "lbrace"}
                             /\ EndsAnywhere = {"eof", "nl", "indent"}
      /\ scan = "parens" => EndsOutside = {} /\ EndsAnywhere = {"eof"}
  BY DEF EndsOutside, EndsAnywhere, LineBreak, Declaration
<1>2. QED  BY <1>1 DEF Terminators, LineBreak, Balancing

\* Inside a string nothing ends a run.
LEMMA NotInside ==
    ASSUME NEW i, Innards(Nesting[i]), Nesting[i] # <<>>,
           ~Quoted(Nesting[i]) => Last(Nesting[i]).by = "lbrace"
    PROVE  ~EndsAt(i)
<1>1. ~ClosesNothing(Nesting[i], i)  BY PairsOfKinds DEF ClosesNothing
<1>2. QED  BY <1>1 DEF EndsAt

\* Nor at the symbols of a token behind its first.
LEMMA NotWithin ==
    ASSUME NEW i, Quoted(Nesting[i]) \/ (Behind(i) /\ src[i] = "lbrace")
    PROVE  ~EndsAt(i)
  BY DEF EndsAt, ClosesNothing, Quoted, Closer

\* Line breaks are not blanks where they would end a run.
LEMMA BlanksPass ==
    ASSUME TypeInv, Strings, PairsOpen, DepthIs, mode = "scan", Balancing, BracketsCount,
           templates # <<>> => Innermost.at = "expression"
    PROVE  \A i \in pos..(Peek.start - 1) : ~EndsAt(i)
<1> DEFINE o == Nesting[pos]
<1>1. SUFFICES ASSUME NEW i \in pos..(Peek.start - 1) PROVE ~EndsAt(i)  OBVIOUS
<1>2. src \in Seq(Symbol) /\ pos \in 1..(Len(src) + 1) /\ depth \in Nat /\ pairs \in Seq(Pair)
  BY DEF TypeInv, TypeOK
<1>3. i \in 1..Len(src) /\ src[i] \in LineBreak /\ Blank(i)  BY <1>1, <1>2, NextToken
<1>4. Reading  BY BalancingReads
<1>5. ~Behind(pos)  BY <1>4 DEF Strings
<1>6. CASE Quoted(o)
  <2>1. templates = <<>>  BY <1>4, <1>6, InnermostString
  <2>2. Base = pos /\ ~Cut  BY <1>6, <2>1 DEF Base, Cut
  <2>3. pos = Len(src) + 1  BY <1>4, <1>6, <2>2 DEF Strings, BaseOutside
  <2>4. Len(src) \in Nat  BY <1>2, Symbols
  <2>5. QED  BY <1>1, <1>3, <2>3, <2>4
<1>7. CASE ~Quoted(o)
  <2>1. Nesting[i] = o /\ ~Behind(i)
    <3>1. \A k \in pos..Peek.start : Nesting[k] = o /\ ~Behind(k)  BY <1>2, <1>5, <1>7, TokenOutside
    <3>2. Peek.start \in pos..(Len(src) + 1) /\ Len(src) \in Nat  BY <1>2, NextToken, Symbols
    <3>3. i \in pos..Peek.start  BY <1>1, <1>2, <3>2
    <3>4. QED  BY <3>1, <3>3
  <2>2. ~ClosesNothing(Nesting[i], i)  BY <1>3 DEF ClosesNothing, LineBreak, Closer
  <2>3. CASE o # <<>>  BY <2>1, <2>2, <2>3 DEF EndsAt
  <2>4. CASE o = <<>>
    <3>1. SUFFICES ASSUME src[i] \in Terminators PROVE FALSE  BY <2>2 DEF EndsAt
    <3>2. syntax = "Sass" /\ scan # "parens"  BY <1>3, <3>1, TerminatorsAre
    <3>3. Lines  BY <3>2 DEF Lines, Balancing
    <3>4. depth # 0  BY <1>3, <3>2 DEF Blank
    <3>5. templates = <<>>  BY <1>4, <2>4, InnermostString
    <3>6. ~Cut  BY <2>4 DEF Cut
    <3>7. Deep  BY <3>3, <3>6 DEF DepthIs
    <3>8. Len(pairs) \in Nat  BY <1>2, LenProperties
    <3>9. depth = Len(pairs)  BY <3>5, <3>7, <3>8, DepthOutside DEF Deep
    <3>10. PairsAre /\ Base = pos  BY <3>5, <3>6 DEF PairsOpen, Base
    <3>11. Trim(o) = <<>>  BY <1>7, <2>4 DEF Trim
    <3>12. Len(<<>>) = Len(pairs)  BY <3>10, <3>11 DEF PairsAre, Matches
    <3>13. QED  BY <3>4, <3>9, <3>12
  <2>5. QED  BY <2>3, <2>4
<1>8. QED  BY <1>6, <1>7

\* A token that begins at no end passes none.
LEMMA TokenPassesNoEnd ==
    ASSUME TypeInv, Strings, PairsOpen, DepthIs, mode = "scan", Balancing, BracketsCount,
           templates # <<>> => Innermost.at = "expression",
           Peek.kind \notin {"eof", "Err"}, NoEndBefore(pos), ~EndsAt(Peek.start)
    PROVE  NoEndBefore(Peek.next)
<1>1. src \in Seq(Symbol) /\ pos \in 1..(Len(src) + 1)  BY DEF TypeInv, TypeOK
<1>2. Reading  BY BalancingReads
<1>3. ~Quoted(Nesting[pos]) /\ ~Behind(pos)
  BY <1>2, OutsideStrings, InnermostString
<1>4. Passage(Peek, Nesting[pos])  BY <1>1, <1>3, TokenPasses
<1>5. \A i \in (Peek.start + 1)..(Peek.next - 1) : ~EndsAt(i)
  BY <1>4, NotWithin DEF Passage
<1>6. \A i \in pos..(Peek.start - 1) : ~EndsAt(i)  BY BlanksPass
<1>7. \A i \in 1..(pos - 1) : ~EndsAt(i)  BY DEF NoEndBefore
<1> DEFINE b == Peek.start
           n == Peek.next
<1>8. b \in Nat /\ n \in Nat /\ pos \in Nat /\ Len(src) \in Nat  BY <1>1, TokenIs
<1>9. ~EndsAt(b)  OBVIOUS
<1> HIDE DEF b, n
<1>10. \A i \in 1..(n - 1) : \/ i \in 1..(pos - 1) \/ i \in pos..(b - 1) \/ i = b
                             \/ i \in (b + 1)..(n - 1)
  BY <1>8
<1>11. \A i \in 1..(n - 1) : ~EndsAt(i)  BY <1>5, <1>6, <1>7, <1>9, <1>10 DEF b, n
<1>12. QED  BY <1>11 DEF NoEndBefore, n

\* A symbol that may end a run is a token of its own.
LEMMA SingleSymbols ==
    ASSUME src \in Seq(Symbol), pos \in 1..(Len(src) + 1), Balancing,
           Peek.kind \notin {"eof", "Err"}
    PROVE  /\ src[Peek.start] \in Terminators \cup Closer => Peek.kind = src[Peek.start]
           /\ Peek.kind \in Terminators \cup Closer \cup LineBreak => Peek.kind = src[Peek.start]
<1> DEFINE t == Peek
<1>1. Simple(t) \/ Brace2(t) \/ \E e \in Nat : StringTo(t, e)  BY TokenIs
<1>2. Terminators \cup Closer \cup LineBreak \subseteq Symbol \ (Quote \cup {"hash"})
  <2>1. Terminators \subseteq {"semi", "lbrace", "nl", "indent"}  BY TerminatorsAre
  <2>2. QED  BY <2>1 DEF Closer, LineBreak, Symbol, Quote
<1>3. t.kind \in Symbol => Simple(t)  BY OddKinds
<1>4. Brace2(t) => src[t.start] = "hash"
  <2>1. t.start \in Nat /\ t.start \in 1..Len(src)  BY TokenIs
  <2>2. Interpolates(t.start) => src[t.start] = "hash"  BY <2>1, InterpolationIs
  <2>3. QED  BY <2>2 DEF Brace2
<1> HIDE DEF t
<1>5. \A e \in Nat : StringTo(t, e) => src[t.start] \in Quote  BY DEF StringTo
<1>6. Simple(t) => t.kind = src[t.start]  BY DEF Simple
<1>7. QED  BY <1>1, <1>2, <1>3, <1>4, <1>5, <1>6 DEF t

\* A loop stops at a token exactly when the run has to end there.
LEMMA StopsAtEnds ==
    ASSUME TypeInv, Strings, PairsOpen, DepthIs, mode = "scan", Balancing, BracketsCount,
           templates = <<>>, Peek.kind \notin {"eof", "Err"}
    PROVE  EndsAt(Peek.start) <=> Ends(Peek.kind) \/ ~Passes(pairs, Peek.kind)
<1> DEFINE t == Peek
           o == Nesting[pos]
           s == src[t.start]
<1>1. Reading  BY BalancingReads
<1>2. /\ ~Quoted(o) /\ ~Innards(o) /\ Nesting[t.start] = o /\ ~Behind(t.start) /\ Base = pos
      /\ t.start \in 1..Len(src) /\ t.start \in Nat
      /\ src \in Seq(Symbol) /\ pos \in 1..(Len(src) + 1) /\ o \in Seq(Mark)
  BY <1>1, OutsideStrings
<1>3. pairs \in Seq(Pair) /\ depth \in Nat /\ Len(pairs) \in Nat
  BY LenProperties DEF TypeInv, TypeOK
<1>4. Matches(o, pairs)
  <2>1. Trim(o) = o  BY <1>2 DEF Trim
  <2>2. QED  BY <1>2, <2>1 DEF PairsOpen, PairsAre, Cut
<1>5. o = <<>> <=> pairs = <<>>
  BY <1>2, <1>3, <1>4, EmptySeq DEF Matches
<1>6. pairs # <<>> => o # <<>> /\ PairOf[Last(o).by] = Last(pairs)
  BY <1>2, <1>3, <1>4, MatchPop
<1>7. /\ s \in Terminators \cup Closer => t.kind = s
      /\ t.kind \in Terminators \cup Closer \cup LineBreak => t.kind = s
  BY <1>2, SingleSymbols
<1>8. ~Blank(t.start)  BY <1>2, NextToken
<1>9. At(t.start) = s  BY <1>2, Symbols
<1>10. t.kind # "eof"  OBVIOUS
<1> HIDE DEF t, o, s
<1>11. ASSUME EndsAt(t.start) PROVE Ends(t.kind) \/ ~Passes(pairs, t.kind)
  <2>1. CASE o = <<>> /\ s \in Terminators
    <3>1. t.kind \in EndsOutside \cup EndsAnywhere  BY <1>7, <2>1 DEF Terminators
    <3>2. QED  BY <1>5, <2>1, <3>1 DEF Ends
  <2>2. CASE ClosesNothing(o, t.start)
    <3>1. s \in Closer /\ (o = <<>> \/ PairOf[Last(o).by] # PairOf[s])
      BY <2>2 DEF ClosesNothing, s
    <3>2. t.kind = s  BY <1>7, <3>1
    <3>3. QED  BY <1>5, <1>6, <3>1, <3>2 DEF Passes
  <2>3. QED  BY <1>2, <1>11, <2>1, <2>2 DEF EndsAt, s
<1>12. ASSUME Ends(t.kind) PROVE EndsAt(t.start)
  <2>1. s \in Terminators /\ pairs = <<>>
    <3>1. CASE pairs = <<>> /\ t.kind \in EndsOutside
      <4>1. t.kind \in Terminators  BY <3>1, TerminatorsAre
      <4>2. QED  BY <1>7, <3>1, <4>1
    <3>2. CASE t.kind \in EndsAnywhere
      <4>1. t.kind \in LineBreak  BY <1>10, <3>2, TerminatorsAre
      <4>2. s \in LineBreak /\ t.kind = s  BY <1>7, <4>1
      <4>3. syntax = "Sass" /\ depth = 0  BY <1>8, <1>9, <4>2 DEF Blank
      <4>4. t.kind \in Terminators  BY <1>10, <3>2, <4>3, TerminatorsAre
      <4>5. scan # "parens"  BY <4>4, TerminatorsAre
      <4>6. Lines  BY <4>3, <4>5 DEF Lines, Balancing
      <4>7. Deep  BY <1>10, <4>6 DEF DepthIs, Cut, t
      <4>8. depth = Len(pairs)  BY <1>3, <4>7, DepthOutside DEF Deep
      <4>9. pairs = <<>>  BY <1>3, <4>3, <4>8, EmptySeq
      <4>10. QED  BY <4>2, <4>4, <4>9
    <3>3. QED  BY <1>12, <3>1, <3>2 DEF Ends
  <2>2. QED  BY <1>2, <1>5, <2>1 DEF EndsAt, s
<1>13. ASSUME ~Passes(pairs, t.kind) PROVE EndsAt(t.start)
  <2>1. t.kind \in Closer /\ (pairs = <<>> \/ Last(pairs) # PairOf[t.kind])
    BY <1>13 DEF Passes
  <2>2. s = t.kind  BY <1>7, <2>1
  <2>3. ClosesNothing(o, t.start)  BY <1>2, <1>5, <1>6, <2>1, <2>2 DEF ClosesNothing, s
  <2>4. QED  BY <1>2, <2>3 DEF EndsAt
<1>14. QED  BY <1>11, <1>12, <1>13 DEF t

LEMMA EndsStay ==
    ASSUME UNCHANGED <<src, syntax, scan>>
    PROVE  /\ Terminators' = Terminators
           /\ \A i : (EndsAt(i))' <=> EndsAt(i)
           /\ NoEndBefore(pos)' <=> NoEndBefore(pos')
<1>1. Terminators' = Terminators
  BY DEF Terminators, EndsOutside, EndsAnywhere, Declaration
<1>2. Nesting' = Nesting /\ \A i : (Behind(i))' <=> Behind(i)  BY NestingStays
<1>3. ASSUME NEW i PROVE (EndsAt(i))' <=> EndsAt(i)
  BY <1>1, <1>2 DEF EndsAt, ClosesNothing, Quoted, Innards
<1>4. NoEndBefore(pos)' <=> NoEndBefore(pos')  BY <1>3 DEF NoEndBefore
<1>5. QED  BY <1>1, <1>3, <1>4

LEMMA NoEndStep ==
    ASSUME TypeInv, Strings, PairsOpen, DepthIs, NoEnd, [Next]_vars
    PROVE  NoEnd'
<1> SUFFICES ASSUME mode' = "scan", Balancing', BracketsCount' PROVE NoEndBefore(pos)'
  BY DEF NoEnd
<1>1. src \in Seq(Symbol) /\ pos \in 1..(Len(src) + 1)  BY DEF TypeInv, TypeOK
<1>2. ASSUME UNCHANGED <<src, syntax, scan>>, mode = "scan"
      PROVE  /\ Balancing /\ BracketsCount /\ Reading /\ NoEndBefore(pos)
             /\ NoEndBefore(pos)' <=> NoEndBefore(pos')
  <2>1. Balancing /\ BracketsCount  BY <1>2, BracketsStay DEF Balancing
  <2>2. QED  BY <1>2, <2>1, BalancingReads, EndsStay DEF NoEnd
<1>3. CASE TakeToken
  <2>1. /\ mode = "scan" /\ templates = <<>> /\ UNCHANGED <<src, syntax, scan>>
        /\ Peek.kind \notin {"eof", "Err"} /\ pos' = Peek.next
        /\ ~Ends(Peek.kind) /\ (Tracks => Passes(pairs, Peek.kind))
    BY <1>3 DEF TakeToken, Scanning, Ends, EndsAnywhere, Bump
  <2>2. Balancing /\ BracketsCount /\ NoEndBefore(pos)  BY <1>2, <2>1
  <2>3. Tracks  BY <2>2 DEF Tracks, Balancing
  <2>4. ~EndsAt(Peek.start)  BY <2>1, <2>2, <2>3, StopsAtEnds
  <2>5. NoEndBefore(Peek.next)  BY <2>1, <2>2, <2>4, TokenPassesNoEnd
  <2>6. QED  BY <1>2, <2>1, <2>5
<1>4. CASE BeginTemplate
  <2>1. /\ mode = "scan" /\ UNCHANGED <<src, syntax, scan>>
        /\ Peek.kind = "StrTemplate" /\ pos' = Peek.next
        /\ templates # <<>> => Innermost.at = "expression"
    BY <1>4 DEF BeginTemplate, Bump
  <2>2. Balancing /\ BracketsCount /\ NoEndBefore(pos) /\ Reading  BY <1>2, <2>1
  <2>3. ~EndsAt(Peek.start)
    <3>1. src[Peek.start] \in Quote  BY <1>1, <2>1, OddKinds
    <3>2. src[Peek.start] \notin Terminators \cup Closer
      <4>1. Terminators \subseteq {"semi", "lbrace", "nl", "indent"}  BY <2>2, TerminatorsAre
      <4>2. QED  BY <3>1, <4>1 DEF Quote, Closer
    <3>3. QED  BY <3>2 DEF EndsAt, ClosesNothing
  <2>4. NoEndBefore(Peek.next)  BY <2>1, <2>2, <2>3, TokenPassesNoEnd
  <2>5. QED  BY <1>2, <2>1, <2>4
<1>5. CASE TakeOfExpression \/ CloseInterpolation
  <2>1. /\ mode = "scan" /\ UNCHANGED <<src, syntax, scan>> /\ templates # <<>>
        /\ Peek.kind \notin {"eof", "Err"} /\ pos' = Peek.next /\ Innermost.at = "expression"
    BY <1>5 DEF TakeOfExpression, CloseInterpolation, InExpression, Bump
  <2>2. Balancing /\ BracketsCount /\ NoEndBefore(pos) /\ Reading  BY <1>2, <2>1
  <2>3. ~EndsAt(Peek.start)
    <3>1. /\ Nesting[Peek.start] = Nesting[pos] /\ Innards(Nesting[pos])
          /\ Nesting[pos] # <<>> /\ Last(Nesting[pos]).by = "lbrace"
      BY <2>1, <2>2, InExpressions
    <3>2. QED  BY <3>1, NotInside
  <2>4. NoEndBefore(Peek.next)  BY <2>1, <2>2, <2>3, TokenPassesNoEnd
  <2>5. QED  BY <1>2, <2>1, <2>4
<1>6. CASE OpenInterpolation
  <2>1. /\ mode = "scan" /\ UNCHANGED <<src, syntax, scan>> /\ templates # <<>>
        /\ Innermost.at = "open" /\ pos' = Peek.next
    BY <1>6 DEF OpenInterpolation, Bump
  <2>2. Balancing /\ BracketsCount /\ NoEndBefore(pos) /\ Reading  BY <1>2, <2>1
  <2>3. Peek.next = pos + 1 /\ pos \in Nat  BY <2>1, BraceOfHash
  <2>4. ~EndsAt(pos)  BY <2>1, <2>2, InnermostString, NotWithin
  <2>5. \A i \in 1..(pos' - 1) : i \in 1..(pos - 1) \/ i = pos  BY <2>1, <2>3
  <2>6. NoEndBefore(pos')  BY <2>2, <2>4, <2>5 DEF NoEndBefore
  <2>7. QED  BY <1>2, <2>1, <2>6
<1>7. CASE ScanPiece
  <2>1. /\ mode = "scan" /\ UNCHANGED <<src, syntax, scan>> /\ templates # <<>>
        /\ Innermost.at = "piece" /\ pos' = Piece + 1
    BY <1>7 DEF ScanPiece, InPiece
  <2>2. Balancing /\ BracketsCount /\ NoEndBefore(pos) /\ Reading  BY <1>2, <2>1
  <2>3. Quoted(Nesting[pos])  BY <2>1, <2>2, InnermostString
  <2>4. \A i \in pos..Piece : Nesting[i] = Nesting[pos]  BY <2>1, <2>2, InPieces
  <2>5. \A i \in pos..Piece : ~EndsAt(i)  BY <2>3, <2>4, NotWithin
  <2>6. Piece \in Nat /\ pos \in Nat /\ pos >= 1  BY <2>1, PieceIs
  <2>7. \A i \in 1..(pos' - 1) : i \in 1..(pos - 1) \/ i \in pos..Piece  BY <2>1, <2>6
  <2>8. NoEndBefore(pos')  BY <2>2, <2>5, <2>7 DEF NoEndBefore
  <2>9. QED  BY <1>2, <2>1, <2>8
<1>8. CASE EofInTemplate \/ UNCHANGED vars
  <2>1. mode = "scan" /\ UNCHANGED <<src, syntax, scan, pos>>
    BY <1>8 DEF EofInTemplate, InExpression, vars
  <2>2. QED  BY <1>2, <2>1
<1>9. ASSUME Fail \/ Stop \/ StopAtCloser \/ TakeRawImportant \/ Return PROVE FALSE
  BY <1>9 DEF Fail, Stop, StopAtCloser, TakeRawImportant, Return
<1>10. ASSUME OpenArgs PROVE FALSE  BY <1>10 DEF OpenArgs, Balancing
<1>11. QED
  BY <1>3, <1>4, <1>5, <1>6, <1>7, <1>8, <1>9, <1>10
  DEF Next, TokenizerFails, Reject, RejectExpression, PieceFails, CallerRejects

LEMMA EofIsBehind ==
    ASSUME src \in Seq(Symbol), pos \in 1..(Len(src) + 1), Peek.kind = "eof"
    PROVE  Peek.start = Len(src) + 1
<1> DEFINE t == Peek
<1>1. \/ t.start = Len(src) + 1
      \/ t.start \in 1..Len(src) /\ (Simple(t) \/ Brace2(t) \/ \E e \in Nat : StringTo(t, e))
  BY NextToken
<1>2. t.kind = "eof"  OBVIOUS
<1> HIDE DEF t
<1>3. t.start \in 1..Len(src) => ~Simple(t) /\ ~Brace2(t) /\ ~\E e \in Nat : StringTo(t, e)
  BY <1>2, Symbols DEF Simple, Brace2, StringTo, Symbol
<1>4. QED  BY <1>1, <1>3 DEF t

LEMMA StopsAtEndOfRun ==
    ASSUME TypeInv, Strings, PairsOpen, DepthIs, NoEnd, Balancing, BracketsCount,
           Stop \/ StopAtCloser
    PROVE  Peek.start = EndOfRun(Terminators)
<1> DEFINE n == Peek.start
<1>1. mode = "scan" /\ templates = <<>>  BY DEF Stop, StopAtCloser, Scanning
<1>2. src \in Seq(Symbol) /\ pos \in 1..(Len(src) + 1) /\ Len(src) \in Nat
  BY Symbols DEF TypeInv, TypeOK
<1>3. n \in pos..(Len(src) + 1)  BY <1>2, NextToken
<1>4. /\ \A i \in 1..(pos - 1) : ~EndsAt(i)
      /\ \A i \in pos..(n - 1) : ~EndsAt(i)
  BY <1>1, BlanksPass DEF NoEnd, NoEndBefore
<1>5. n = Len(src) + 1 \/ EndsAt(n)
  <2>1. CASE Peek.kind = "eof"  BY <1>2, <2>1, EofIsBehind
  <2>2. CASE Peek.kind # "eof"
    <3>1. Ends(Peek.kind) \/ ~Passes(pairs, Peek.kind)  BY DEF Stop, StopAtCloser
    <3>2. Peek.kind # "Err"
      <4>1. ~Ends("Err")
        <5>1. EndsOutside \subseteq {"semi", "lbrace", "nl", "indent"}  BY TerminatorsAre
        <5>2. EndsAnywhere \subseteq LineBreak \cup {"eof"}  BY TerminatorsAre
        <5>3. QED  BY <5>1, <5>2 DEF Ends, LineBreak
      <4>2. Passes(pairs, "Err")  BY DEF Passes, Closer
      <4>3. QED  BY <3>1, <4>1, <4>2
    <3>3. QED  BY <1>1, <2>2, <3>1, <3>2, StopsAtEnds
  <2>3. QED  BY <2>1, <2>2
<1> HIDE DEF n
<1>6. n \in 1..(Len(src) + 1) /\ NoEndBefore(n)
  <2>1. \A i \in 1..(n - 1) : i \in 1..(pos - 1) \/ i \in pos..(n - 1)  BY <1>2, <1>3
  <2>2. QED  BY <1>2, <1>3, <1>4, <2>1 DEF NoEndBefore
<1>7. QED  BY <1>2, <1>5, <1>6, EndOfRunIs DEF n

LEMMA LongestStep ==
    ASSUME TypeInv, Strings, PairsOpen, DepthIs, NoEnd, LongestBalanced, [Next]_vars
    PROVE  LongestBalanced'
<1> SUFFICES ASSUME Over', Balancing', BracketsCount'
             PROVE  (Peek.start = EndOfRun(Terminators))'
  BY DEF LongestBalanced, Balancing
<1>1. ASSUME UNCHANGED <<src, syntax, scan, pos, depth>>
      PROVE  /\ (Peek.start = EndOfRun(Terminators))' <=> Peek.start = EndOfRun(Terminators)
             /\ Balancing /\ BracketsCount
  <2>1. Peek' = Peek /\ Terminators' = Terminators /\ src' = src  BY <1>1, PeekStays, EndsStay
  <2>2. Nesting' = Nesting /\ \A i : (Behind(i))' <=> Behind(i)  BY <1>1, NestingStays
  <2>3. (EndOfRun(Terminators))' = EndOfRun(Terminators)
    BY <2>1, <2>2 DEF EndOfRun, ClosesNothing, Quoted, Innards
  <2>4. QED  BY <1>1, <2>1, <2>3, BracketsStay DEF Balancing
<1>2. CASE Stop \/ StopAtCloser
  <2>1. UNCHANGED <<src, syntax, scan, pos, depth>>  BY <1>2 DEF Stop, StopAtCloser
  <2>2. QED  BY <1>1, <1>2, <2>1, StopsAtEndOfRun
<1>3. CASE TakeRawImportant \/ Return \/ UNCHANGED vars
  <2>1. UNCHANGED <<src, syntax, scan, pos, depth>> /\ Over
    BY <1>3 DEF TakeRawImportant, Return, vars, Over
  <2>2. QED  BY <1>1, <2>1 DEF LongestBalanced, Balancing
<1>4. ASSUME \/ Fail \/ TakeToken \/ BeginTemplate \/ OpenInterpolation \/ TakeOfExpression
             \/ CloseInterpolation \/ ScanPiece \/ EofInTemplate \/ OpenArgs
      PROVE  FALSE
  BY <1>4 DEF Fail, TakeToken, Scanning, BeginTemplate, OpenInterpolation, TakeOfExpression,
              CloseInterpolation, ScanPiece, InExpression, InPiece, EofInTemplate, OpenArgs, Over
<1>5. QED
  BY <1>2, <1>3, <1>4
  DEF Next, TokenizerFails, Reject, RejectExpression, PieceFails, CallerRejects

EndInv == RunInv /\ DepthIs /\ NoEnd

LEMMA NoEndInit == Init => NoEnd
<1> SUFFICES ASSUME Init PROVE NoEndBefore(1)  BY DEF NoEnd, Init
<1>1. QED  BY DEF NoEndBefore

LEMMA EndInvStep == EndInv /\ [Next]_vars => EndInv'
  BY RunInvStep, DepthStep, NoEndStep DEF EndInv, RunInv

\* A run goes on to the first place where the source says it has to end, and no
\* further: a terminator outside all pairs and strings, a closer that closes
\* nothing, or the end of the source; in every dialect, however deep its pairs,
\* strings and interpolations are.
THEOREM RunsAreLongest == Spec => []LongestBalanced
<1>1. Init => LongestBalanced  BY DEF Init, LongestBalanced, Over
<1>2. Init => EndInv  BY RunInvInit, DepthInit, NoEndInit DEF EndInv
<1>3. EndInv /\ LongestBalanced /\ [Next]_vars => LongestBalanced'
  BY LongestStep DEF EndInv, RunInv
<1>4. QED  BY <1>1, <1>2, <1>3, EndInvStep, PTL DEF Spec

----------------------------------------------------------------------------
(***************************************************************************)
(* The annotation of a declaration.  The values taken leave out nothing of   *)
(* the source but line breaks: each ends in front of some, and behind them    *)
(* the next one begins.                                                     *)
(***************************************************************************)
Outside(n) == Nesting[n] = <<>> /\ src[n] \in {"bang", "important"} \cup LineBreak

\* Nothing but line breaks, and in the indented syntax only in pairs.
Skips(i, j) ==
    i <= j /\ \A n \in i..(j - 1) : src[n] \in LineBreak /\ (syntax = "Sass" => Nesting[n] # <<>>)

\* A value that ends in front of e.
Ended(v, e) ==
    /\ e \in (v.start + 1)..(Len(src) + 1)
    /\ v.kind \in Symbol => /\ e = v.start + 1 /\ src[v.start] = v.kind
                            /\ v.kind \in LineBreak => syntax = "Sass"
    /\ v.kind \notin Symbol => ~Outside(e - 1)

\* Where the k-th value begins, and what is behind the last one.
StartOf(seq, b, k) == IF k = Len(seq) + 1 THEN b ELSE seq[k].start

Chain(seq, b) ==
    /\ Skips(1, StartOf(seq, b, 1))
    /\ \A k \in 1..Len(seq) : \E e \in Nat : Ended(seq[k], e) /\ Skips(e, StartOf(seq, b, k + 1))

LEMMA SkipsOn ==
    ASSUME NEW i \in Nat, NEW j \in Nat, NEW k \in Nat, Skips(i, j), Skips(j, k)
    PROVE  Skips(i, k)
<1>1. i <= k  BY DEF Skips
<1>2. \A n \in i..(k - 1) : n \in i..(j - 1) \/ n \in j..(k - 1)  OBVIOUS
<1>3. QED  BY <1>1, <1>2 DEF Skips

LEMMA ChainGrows ==
    ASSUME NEW seq \in Seq(Taken), NEW a \in Nat, NEW b \in Nat, Chain(seq, a), Skips(a, b)
    PROVE  Chain(seq, b)
<1>1. Len(seq) \in Nat  BY LenProperties
<1>2. Skips(1, StartOf(seq, b, 1))
  <2>1. CASE Len(seq) = 0
    <3>1. Skips(1, a)  BY <2>1 DEF Chain, StartOf
    <3>2. Skips(1, b)  BY <3>1, SkipsOn
    <3>3. QED  BY <2>1, <3>2 DEF StartOf
  <2>2. CASE Len(seq) # 0
    <3>1. 1 # Len(seq) + 1  BY <1>1, <2>2
    <3>2. QED  BY <3>1 DEF Chain, StartOf
  <2>3. QED  BY <2>1, <2>2
<1>3. ASSUME NEW k \in 1..Len(seq)
      PROVE  \E e \in Nat : Ended(seq[k], e) /\ Skips(e, StartOf(seq, b, k + 1))
  <2>1. PICK e \in Nat : Ended(seq[k], e) /\ Skips(e, StartOf(seq, a, k + 1))  BY DEF Chain
  <2>2. CASE k = Len(seq)
    <3>1. Skips(e, a)  BY <2>1, <2>2 DEF StartOf
    <3>2. Skips(e, b)  BY <3>1, SkipsOn
    <3>3. QED  BY <2>1, <2>2, <3>2 DEF StartOf
  <2>3. CASE k # Len(seq)
    <3>1. k + 1 # Len(seq) + 1  BY <1>1, <2>3
    <3>2. QED  BY <2>1, <3>1 DEF StartOf
  <2>4. QED  BY <2>2, <2>3
<1>4. QED  BY <1>2, <1>3 DEF Chain

LEMMA ChainPushed ==
    ASSUME NEW seq \in Seq(Taken), NEW v \in Taken, Chain(seq, v.start), NEW b \in Nat, Ended(v, b)
    PROVE  Chain(Append(seq, v), b)
<1> DEFINE w == Append(seq, v)
           m == Len(seq)
<1>1. /\ m \in Nat /\ Len(w) = m + 1 /\ w[m + 1] = v
      /\ \A i \in 1..m : w[i] = seq[i]
  BY PushProperties, LenProperties
<1> HIDE DEF w
<1>2. ASSUME NEW k \in 1..(m + 1) PROVE StartOf(w, b, k) = StartOf(seq, v.start, k)
  <2>1. k # (m + 1) + 1  BY <1>1
  <2>2. CASE k = m + 1  BY <1>1, <2>1, <2>2 DEF StartOf
  <2>3. CASE k # m + 1
    <3>1. k \in 1..m  BY <1>1, <2>3
    <3>2. QED  BY <1>1, <2>1, <2>3, <3>1 DEF StartOf
  <2>4. QED  BY <2>2, <2>3
<1>3. Skips(1, StartOf(w, b, 1))
  <2>1. 1 \in 1..(m + 1)  BY <1>1
  <2>2. QED  BY <1>2, <2>1 DEF Chain
<1>4. ASSUME NEW k \in 1..Len(w)
      PROVE  \E e \in Nat : Ended(w[k], e) /\ Skips(e, StartOf(w, b, k + 1))
  <2>1. CASE k = m + 1
    <3>1. StartOf(w, b, k + 1) = b  BY <1>1, <2>1 DEF StartOf
    <3>2. Skips(b, b)
      <4>1. \A n \in b..(b - 1) : FALSE  OBVIOUS
      <4>2. QED  BY <4>1 DEF Skips
    <3>3. QED  BY <1>1, <2>1, <3>1, <3>2
  <2>2. CASE k # m + 1
    <3>1. k \in 1..m /\ k + 1 \in 1..(m + 1)  BY <1>1, <2>2
    <3>2. StartOf(w, b, k + 1) = StartOf(seq, v.start, k + 1) /\ w[k] = seq[k]  BY <1>1, <1>2, <3>1
    <3>3. PICK e \in Nat : Ended(seq[k], e) /\ Skips(e, StartOf(seq, v.start, k + 1))
      BY <3>1 DEF Chain
    <3>4. QED  BY <3>2, <3>3
  <2>3. QED  BY <2>1, <2>2
<1>5. QED  BY <1>3, <1>4 DEF Chain, w

----------------------------------------------------------------------------
(***************************************************************************)
(* The pairs, value by value: what take_raw_important replays is what the    *)
(* loop had.                                                                *)
(***************************************************************************)
Replays(f, seq, stack) ==
    /\ f \in [0..Len(seq) -> Seq(Pair)] /\ f[0] = <<>> /\ f[Len(seq)] = stack
    /\ \A k \in 1..Len(seq) : /\ f[k] = Track(f[k - 1], seq[k].kind)
                              /\ Passes(f[k - 1], seq[k].kind)
                              /\ f[k - 1] = <<>> <=> Nesting[seq[k].start] = <<>>

LEMMA ReplayPushed ==
    ASSUME NEW seq \in Seq(Taken), NEW v \in Taken, NEW stack \in Seq(Pair), NEW f,
           Replays(f, seq, stack), Passes(stack, v.kind), stack = <<>> <=> Nesting[v.start] = <<>>
    PROVE  \E g : Replays(g, Append(seq, v), Track(stack, v.kind))
<1> DEFINE w == Append(seq, v)
           m == Len(seq)
           p == Track(stack, v.kind)
           g == [k \in 0..(m + 1) |-> IF k = m + 1 THEN p ELSE f[k]]
<1>1. /\ m \in Nat /\ Len(w) = m + 1 /\ w[m + 1] = v
      /\ \A i \in 1..m : w[i] = seq[i]
  BY PushProperties, LenProperties
<1>2. p \in Seq(Pair)  BY TrackType
<1>3. /\ f \in [0..m -> Seq(Pair)] /\ f[0] = <<>> /\ f[m] = stack
      /\ \A k \in 1..m : /\ f[k] = Track(f[k - 1], seq[k].kind)
                         /\ Passes(f[k - 1], seq[k].kind)
                         /\ f[k - 1] = <<>> <=> Nesting[seq[k].start] = <<>>
  BY DEF Replays
<1> HIDE DEF w, m
<1>4. g \in [0..(m + 1) -> Seq(Pair)]
  <2>1. \A k \in 0..(m + 1) : k # m + 1 => k \in 0..m  BY <1>1
  <2>2. QED  BY <1>2, <1>3, <2>1
<1>5. g[m + 1] = p /\ \A k \in 0..m : g[k] = f[k]
  <2>1. m + 1 \in 0..(m + 1) /\ \A k \in 0..m : k \in 0..(m + 1) /\ k # m + 1  BY <1>1
  <2>2. QED  BY <2>1
<1> HIDE DEF g, p
<1>6. ASSUME NEW k \in 1..(m + 1)
      PROVE  /\ g[k] = Track(g[k - 1], w[k].kind)
             /\ Passes(g[k - 1], w[k].kind)
             /\ g[k - 1] = <<>> <=> Nesting[w[k].start] = <<>>
  <2>1. CASE k = m + 1
    <3>1. g[k - 1] = stack
      <4>1. k - 1 = m /\ m \in 0..m  BY <1>1, <2>1
      <4>2. QED  BY <1>3, <1>5, <4>1
    <3>2. QED  BY <1>1, <1>5, <2>1, <3>1 DEF p
  <2>2. CASE k # m + 1
    <3>1. k \in 1..m /\ k \in 0..m /\ k - 1 \in 0..m  BY <1>1, <2>2
    <3>2. g[k] = f[k] /\ g[k - 1] = f[k - 1] /\ w[k] = seq[k]  BY <1>1, <1>5, <3>1
    <3>3. QED  BY <1>3, <3>1, <3>2
  <2>3. QED  BY <2>1, <2>2
<1>7. g[0] = <<>>  BY <1>1, <1>3, <1>5
<1>8. Replays(g, w, p)  BY <1>1, <1>4, <1>5, <1>6, <1>7 DEF Replays
<1>9. QED  BY <1>8 DEF w, p

ReplayStep(g, k) == IF k = 0 THEN <<>> ELSE Track(g[k - 1], values[k].kind)

LEMMA ReplayIs ==
    ASSUME NEW f, NEW stack, Replays(f, values, stack), values \in Seq(Taken)
    PROVE  \A k \in 0..Len(values) : Replay[k] = f[k]
<1> DEFINE n == Len(values)
           IsReplay(g) == g = [k \in 0..n |-> ReplayStep(g, k)]
<1>1. n \in Nat  BY LenProperties
<1>2. \A k \in 0..n : f[k] = ReplayStep(f, k)
  <2>1. \A k \in 0..n : k # 0 => k \in 1..n  BY <1>1
  <2>2. QED  BY <2>1 DEF ReplayStep, Replays
<1>3. IsReplay(f)
  <2>1. f = [k \in 0..n |-> f[k]]  BY DEF Replays
  <2>2. QED  BY <1>2, <2>1
<1>4. Replay = CHOOSE g : IsReplay(g)  BY DEF Replay, ReplayStep
<1>5. IsReplay(Replay)  BY <1>3, <1>4
<1>6. \A k \in 0..n : Replay[k] = ReplayStep(Replay, k)
  <2> DEFINE h == Replay
             G(k) == ReplayStep(Replay, k)
  <2>1. h = [k \in 0..n |-> G(k)]  BY <1>5
  <2> HIDE DEF h, G
  <2>2. \A k \in 0..n : h[k] = G(k)  BY <2>1
  <2>3. QED  BY <2>2 DEF h, G
<1> DEFINE Wrong == {k \in 0..n : Replay[k] # f[k]}
<1>7. SUFFICES ASSUME Wrong # {} PROVE FALSE  OBVIOUS
<1>8. Wrong \in SUBSET Nat  BY <1>1
<1> HIDE DEF Wrong
<1>9. PICK m \in Wrong : \A k \in Wrong : m <= k  BY <1>7, <1>8, LeastNatural
<1>10. m \in 0..n /\ Replay[m] # f[m]  BY <1>9 DEF Wrong
<1>11. m # 0
  <2>1. Replay[0] = <<>> /\ f[0] = <<>>  BY <1>1, <1>2, <1>6 DEF ReplayStep
  <2>2. QED  BY <1>10, <2>1
<1>12. m - 1 \in 0..n /\ ~(m <= m - 1)  BY <1>1, <1>10, <1>11
<1>13. Replay[m - 1] = f[m - 1]  BY <1>9, <1>12 DEF Wrong
<1>14. Replay[m] = Track(Replay[m - 1], values[m].kind) /\ f[m] = Track(f[m - 1], values[m].kind)
  BY <1>2, <1>6, <1>10, <1>11 DEF ReplayStep
<1>15. QED  BY <1>10, <1>13, <1>14

----------------------------------------------------------------------------
(***************************************************************************)
(* Both hold while a declaration's value is scanned.                         *)
(***************************************************************************)
Noted == mode = "scan" /\ Declaration =>
           Chain(values, Base) /\ Base <= pos /\ \E f : Replays(f, values, pairs)

LEMMA DeclarationIs ==
    ASSUME Declaration
    PROVE  Balancing /\ Typed /\ ~Pieces /\ Tracks /\ BracketsCount /\ ~Cut
           /\ (syntax = "Sass" => Lines)
  BY DEF Declaration, Balancing, Typed, Pieces, Tracks, BracketsCount, Cut, Lines

\* The blanks in front of a token that is outside strings.
LEMMA SkipsBlanks ==
    ASSUME TypeInv, Strings, PairsOpen, DepthIs, mode = "scan", Declaration, templates = <<>>
    PROVE  /\ pos \in Nat /\ Peek.start \in Nat /\ Peek.start \in 1..(Len(src) + 1)
           /\ Skips(pos, Peek.start)
<1> DEFINE o == Nesting[pos]
           b == Peek.start
<1>1. src \in Seq(Symbol) /\ pos \in 1..(Len(src) + 1) /\ depth \in Nat /\ pairs \in Seq(Pair)
      /\ Len(src) \in Nat
  BY Symbols DEF TypeInv, TypeOK
<1>2. /\ b \in pos..(Len(src) + 1)
      /\ \A k \in pos..(b - 1) : k \in 1..Len(src) /\ src[k] \in LineBreak /\ Blank(k)
  BY <1>1, NextToken
<1>3. Balancing /\ ~Cut /\ BracketsCount /\ (syntax = "Sass" => Lines)  BY DeclarationIs
<1>4. Reading /\ ~Behind(pos) /\ Base = pos /\ (Quoted(o) => pos = Len(src) + 1)
  BY <1>3, BalancingReads DEF Strings, BaseOutside, Base
<1>5. PairsAre  BY <1>3 DEF PairsOpen
<1> HIDE DEF b, o
<1>6. ASSUME NEW n \in pos..(b - 1), syntax = "Sass" PROVE Nesting[n] # <<>>
  <2>1. ~Quoted(o)  BY <1>1, <1>2, <1>4, <1>6
  <2>2. Nesting[n] = o
    <3>1. \A k \in pos..b : Nesting[k] = o  BY <1>1, <1>4, <2>1, TokenOutside DEF b, o
    <3>2. n \in pos..b  BY <1>1, <1>2, <1>6
    <3>3. QED  BY <3>1, <3>2
  <2>3. depth # 0  BY <1>2, <1>6 DEF Blank
  <2>4. Deep /\ Len(pairs) \in Nat  BY <1>1, <1>3, <1>6, LenProperties DEF DepthIs
  <2>5. depth = Len(pairs)  BY <2>4, DepthOutside DEF Deep
  <2>6. Len(o) = Len(pairs)  BY <1>4, <1>5, <2>1 DEF PairsAre, Matches, Trim, o
  <2>7. Len(<<>>) = 0  OBVIOUS
  <2>8. QED  BY <2>2, <2>3, <2>5, <2>6, <2>7
<1>7. pos <= b /\ b \in Nat /\ pos \in Nat /\ b \in 1..(Len(src) + 1)  BY <1>1, <1>2
<1>8. QED  BY <1>2, <1>6, <1>7 DEF Skips, b

\* Where a token ends.
LEMMA TokenEnds ==
    ASSUME src \in Seq(Symbol), pos \in 1..(Len(src) + 1), Peek.kind \notin {"eof", "Err"},
           ~Quoted(Nesting[pos]), ~Behind(pos)
    PROVE  Ended(Value(Peek), Peek.next)
<1> DEFINE t == Peek
<1>1. /\ t.start \in Nat /\ t.start \in 1..Len(src) /\ Len(src) \in Nat
      /\ t.next \in (t.start + 1)..(Len(src) + 1) /\ t.next \in Nat
      /\ Simple(t) \/ Brace2(t) \/ \E e \in Nat : StringTo(t, e)
  BY TokenIs
<1>2. Passage(t, Nesting[pos])  BY TokenPasses
<1>3. \A i \in (t.start + 1)..(t.next - 1) : Quoted(Nesting[i]) \/ src[i] = "lbrace"
  BY <1>2 DEF Passage
<1>4. t.kind \in Symbol => Simple(t)  BY OddKinds
<1>5. ~Blank(t.start)  BY NextToken
<1>6. At(t.start) = src[t.start]  BY <1>1, Symbols
<1>7. Simple(t) => t.kind \in Symbol  BY <1>1, Symbols DEF Simple
<1> HIDE DEF t
<1>8. ASSUME t.kind \in Symbol
      PROVE  /\ t.next = t.start + 1 /\ src[t.start] = t.kind
             /\ t.kind \in LineBreak => syntax = "Sass"
  BY <1>4, <1>5, <1>6, <1>8 DEF Simple, Blank
<1>9. ASSUME t.kind \notin Symbol PROVE ~Outside(t.next - 1)
  <2>1. src[t.start] \in Quote \cup {"hash"}
    <3>1. Brace2(t) => src[t.start] = "hash"  BY <1>1, InterpolationIs DEF Brace2
    <3>2. QED  BY <1>1, <1>7, <1>9, <3>1 DEF StringTo
  <2>2. CASE t.next = t.start + 1
    <3>1. t.next - 1 = t.start  BY <1>1, <2>2
    <3>2. QED  BY <2>1, <3>1 DEF Outside, Quote, LineBreak
  <2>3. CASE t.next # t.start + 1
    <3>1. t.next - 1 \in (t.start + 1)..(t.next - 1)  BY <1>1, <2>3
    <3>2. Quoted(Nesting[t.next - 1]) \/ src[t.next - 1] = "lbrace"  BY <1>3, <3>1
    <3>3. QED  BY <3>2 DEF Outside, Quoted, LineBreak
  <2>4. QED  BY <2>2, <2>3
<1>10. Value(t).kind = t.kind /\ Value(t).start = t.start  BY DEF Value
<1>11. QED  BY <1>1, <1>8, <1>9, <1>10 DEF Ended, t

LEMMA ChainStays ==
    ASSUME UNCHANGED <<src, syntax>>
    PROVE  /\ (Chain(values, Base))' <=> Chain(values', Base')
           /\ \A f : (Replays(f, values, pairs))' <=> Replays(f, values', pairs')
           /\ \A i, j : (Skips(i, j))' <=> Skips(i, j)
<1>1. Nesting' = Nesting  BY NestingStays
<1>2. \A i, j : (Skips(i, j))' <=> Skips(i, j)  BY <1>1 DEF Skips
<1>3. (Chain(values, Base))' <=> Chain(values', Base')
  BY <1>1 DEF Chain, Skips, StartOf, Ended, Outside
<1>4. \A f : (Replays(f, values, pairs))' <=> Replays(f, values', pairs')
  BY <1>1 DEF Replays
<1>5. QED  BY <1>2, <1>3, <1>4

LEMMA NotedTakeToken ==
    ASSUME TypeInv, Strings, PairsOpen, DepthIs, Noted, TakeToken, Declaration
    PROVE  Noted'
<1> DEFINE t == Peek
           v == Value(t)
           o == Nesting[pos]
<1>1. /\ mode = "scan" /\ templates = <<>> /\ templates' = <<>> /\ t.kind \notin {"eof", "Err"}
      /\ UNCHANGED <<src, syntax, scan>> /\ pos' = t.next
      /\ Tracks => Passes(pairs, t.kind) /\ pairs' = Track(pairs, t.kind)
      /\ values' = Append(values, v)
  BY DEF TakeToken, Scanning, Ends, EndsAnywhere, Bump
<1>2. Balancing /\ Tracks /\ ~Cut  BY DeclarationIs
<1>3. Reading  BY <1>1, <1>2, BalancingReads
<1>4. /\ ~Quoted(o) /\ ~Behind(pos) /\ Base = pos /\ Nesting[t.start] = o
      /\ src \in Seq(Symbol) /\ pos \in 1..(Len(src) + 1) /\ o \in Seq(Mark)
      /\ t.start \in 1..Len(src)
  BY <1>1, <1>3, OutsideStrings
<1>5. values \in Seq(Taken) /\ pairs \in Seq(Pair)  BY DEF TypeInv, TypeOK
<1>6. pairs = <<>> <=> o = <<>>
  <2>1. Matches(o, pairs)  BY <1>1, <1>2, <1>4 DEF PairsOpen, PairsAre, Trim
  <2>2. Len(pairs) \in Nat /\ Len(o) = Len(pairs)  BY <1>5, <2>1, LenProperties DEF Matches
  <2>3. QED  BY <1>4, <1>5, <2>2, EmptySeq
<1>7. /\ t.start \in Nat /\ t.next \in Nat /\ t.kind \in TakenKind
  BY <1>1, <1>4, TokenIs
<1>8. v \in Taken /\ v.start = t.start /\ v.kind = t.kind  BY <1>4, <1>7 DEF Value, Taken
<1>9. Skips(pos, t.start) /\ pos \in Nat  BY <1>1, SkipsBlanks
<1>10. Ended(v, t.next)  BY <1>1, <1>4, TokenEnds
<1>11. Chain(values, pos)  BY <1>1, <1>4 DEF Noted
<1> HIDE DEF t, v, o
<1>12. Chain(values, v.start)  BY <1>5, <1>7, <1>8, <1>9, <1>11, ChainGrows
<1>13. Chain(values', t.next)  BY <1>1, <1>5, <1>7, <1>8, <1>10, <1>12, ChainPushed
<1>14. PICK f : Replays(f, values, pairs)  BY <1>1 DEF Noted
<1>15. \E g : Replays(g, values', pairs')
  <2>1. Passes(pairs, v.kind) /\ pairs' = Track(pairs, v.kind)  BY <1>1, <1>2, <1>8
  <2>2. pairs = <<>> <=> Nesting[v.start] = <<>>  BY <1>4, <1>6, <1>8
  <2>3. \E g : Replays(g, Append(values, v), Track(pairs, v.kind))
    BY <1>5, <1>8, <1>14, <2>1, <2>2, ReplayPushed
  <2>4. QED  BY <1>1, <2>1, <2>3
<1>16. Base' = t.next /\ Base' <= pos'  BY <1>1, <1>7 DEF Base
<1>17. QED  BY <1>1, <1>13, <1>15, <1>16, ChainStays DEF Noted

LEMMA NotedStrings ==
    ASSUME TypeInv, Strings, PairsOpen, DepthIs, Noted, Declaration,
           BeginTemplate \/ OpenInterpolation \/ TakeOfExpression \/ CloseInterpolation \/ ScanPiece
    PROVE  Noted'
<1>1. /\ mode = "scan" /\ UNCHANGED <<src, syntax, scan, pairs>>
      /\ ~ScanPiece => values' = Note(Peek) \/ \E t : values' = Note(t)
  BY DEF BeginTemplate, OpenInterpolation, TakeOfExpression, CloseInterpolation, ScanPiece,
         InExpression, InPiece
<1>2. Balancing /\ Typed /\ ~Pieces /\ ~Cut  BY DeclarationIs
<1>3. Reading  BY <1>1, <1>2, BalancingReads
<1>4. /\ values \in Seq(Taken) /\ pairs \in Seq(Pair) /\ src \in Seq(Symbol)
      /\ pos \in 1..(Len(src) + 1) /\ Len(src) \in Nat /\ pos \in Nat
  BY Symbols DEF TypeInv, TypeOK
<1>5. Chain(values, Base) /\ Base <= pos  BY <1>1 DEF Noted
<1>6. PICK f : Replays(f, values, pairs)  BY <1>1 DEF Noted
<1>forward. pos' \in Nat /\ pos' >= pos
  <2>1. CASE BeginTemplate \/ TakeOfExpression \/ CloseInterpolation
    <3>1. Peek.kind \notin {"eof", "Err"} /\ pos' = Peek.next
      BY <2>1 DEF BeginTemplate, TakeOfExpression, CloseInterpolation, Bump
    <3>2. Peek.start \in Nat /\ pos <= Peek.start /\ Peek.next \in (Peek.start + 1)..(Len(src) + 1)
      BY <1>4, <3>1, TokenIs
    <3>3. QED  BY <1>4, <3>1, <3>2
  <2>2. CASE OpenInterpolation
    <3>1. templates # <<>> /\ Innermost.at = "open" /\ pos' = Peek.next
      BY <2>2 DEF OpenInterpolation, Bump
    <3>2. Peek.next = pos + 1  BY <1>1, <3>1, BraceOfHash
    <3>3. QED  BY <1>4, <3>1, <3>2
  <2>3. CASE ScanPiece
    <3>1. templates # <<>> /\ Innermost.at = "piece" /\ pos' = Piece + 1
      BY <2>3 DEF ScanPiece, InPiece
    <3>2. Piece \in Nat /\ Piece \in pos..(Len(src) + 1)  BY <3>1, PieceIs
    <3>3. QED  BY <1>4, <3>1, <3>2
  <2>4. QED  BY <2>1, <2>2, <2>3
<1>7. ASSUME values' = values, Chain(values, Base'), Base' <= pos' PROVE Noted'
  BY <1>1, <1>6, <1>7, ChainStays DEF Noted
<1>8. ~ScanPiece => values' = values  BY <1>1, <1>2 DEF Note
<1>9. CASE BeginTemplate /\ templates = <<>> /\ Base = pos /\ Base' = Peek.start
  <2>1. Skips(pos, Peek.start) /\ Peek.start \in Nat  BY <1>1, <1>9, SkipsBlanks
  <2>2. Chain(values, Peek.start)  BY <1>4, <1>5, <1>9, <2>1, ChainGrows
  <2>3. ~ScanPiece  BY <1>9 DEF ScanPiece, InPiece
  <2>4. Base' <= pos'
    <3>1. Peek.kind = "StrTemplate" /\ pos' = Peek.next  BY <1>9 DEF BeginTemplate, Bump
    <3>2. Peek.next \in (Peek.start + 1)..(Len(src) + 1)  BY <1>4, <3>1, TokenIs
    <3>3. QED  BY <1>9, <2>1, <3>1, <3>2
  <2>5. QED  BY <1>7, <1>8, <1>9, <2>2, <2>3, <2>4
<1>10. CASE /\ ScanPiece /\ At(Piece) = Innermost.quote /\ Len(templates) = 1
            /\ Base = Innermost.start /\ Base' = pos'
  <2> DEFINE v == [kind |-> "InterpolableStr", start |-> Innermost.start]
             e == Piece
  <2>1. /\ templates # <<>> /\ Innermost.at = "piece" /\ pos' = e + 1
        /\ values' = Append(values, v)
    BY <1>2, <1>10 DEF ScanPiece, InPiece
  <2>2. /\ e \in Nat /\ e \in 1..Len(src) /\ pos <= e  BY <1>4, <1>10, <2>1, PieceIs
  <2>3. Innermost.start \in 1..Len(src) /\ Innermost.quote \in Quote  BY <2>1, InnermostType
  <2>4. v \in Taken /\ v.start = Innermost.start  BY <2>3 DEF Taken, TakenKind
  <2>5. Innermost.start <= pos  BY <1>5, <1>10
  <2>6. v.kind \notin Symbol  BY DEF Symbol
  <2> HIDE DEF v, e
  <2>7. ~Outside((e + 1) - 1)
    <3>1. src[e] = Innermost.quote  BY <1>4, <1>10, <2>2, Symbols DEF e
    <3>2. (e + 1) - 1 = e  BY <2>2
    <3>3. QED  BY <2>3, <3>1, <3>2 DEF Outside, Quote, LineBreak
  <2>8. Ended(v, e + 1)
    <3>1. e + 1 \in (v.start + 1)..(Len(src) + 1)  BY <1>4, <2>2, <2>3, <2>4, <2>5
    <3>2. QED  BY <2>6, <2>7, <3>1 DEF Ended
  <2>9. Chain(values', e + 1)
    <3>1. Chain(values, v.start)  BY <1>5, <1>10, <2>4
    <3>2. e + 1 \in Nat  BY <2>2
    <3>3. QED  BY <1>4, <2>1, <2>4, <2>8, <3>1, <3>2, ChainPushed
  <2>10. \E g : Replays(g, values', pairs)
    <3>1. Passes(pairs, v.kind) /\ Track(pairs, v.kind) = pairs
      <4>1. v.kind \notin Opener \cup Closer  BY DEF v, Opener, Closer
      <4>2. QED  BY <1>4, <4>1, TrackType DEF Passes
    <3>2. pairs = <<>> <=> Nesting[v.start] = <<>>
      <4>1. Matches(Trim(Nesting[v.start]), pairs)
        BY <1>1, <1>2, <1>10, <2>4 DEF PairsOpen, PairsAre
      <4>2. v.start # Len(src) + 1  BY <1>4, <2>3, <2>4
      <4>3. ~Quoted(Nesting[v.start])
        BY <1>2, <1>3, <1>10, <2>4, <4>2 DEF Strings, BaseOutside
      <4>4. Matches(Nesting[v.start], pairs)  BY <4>1, <4>3 DEF Trim
      <4>5. v.start \in 1..(Len(src) + 1)  BY <1>4, <2>3, <2>4
      <4>6. Nesting[v.start] \in Seq(Mark)  BY <1>4, <4>5, NestingType
      <4>7. Len(pairs) \in Nat /\ Len(Nesting[v.start]) = Len(pairs)
        BY <1>4, <4>4, LenProperties DEF Matches
      <4>8. QED  BY <1>4, <4>6, <4>7, EmptySeq
    <3>3. \E g : Replays(g, Append(values, v), Track(pairs, v.kind))
      BY <1>4, <1>6, <2>4, <3>1, <3>2, ReplayPushed
    <3>4. QED  BY <2>1, <3>1, <3>3
  <2>11. pairs' = pairs /\ Base' = e + 1 /\ Base' <= pos'  BY <1>1, <1>10, <2>1, <2>2
  <2>12. QED  BY <1>1, <2>9, <2>10, <2>11, ChainStays DEF Noted
<1>11. CASE /\ Base' = Base
            /\ ScanPiece => ~(At(Piece) = Innermost.quote /\ Len(templates) = 1)
  <2>1. values' = values
    <3>1. CASE ScanPiece  BY <1>2, <1>11, <3>1 DEF ScanPiece
    <3>2. QED  BY <1>8, <3>1
  <2>2. Base \in Nat
    <3>1. CASE templates = <<>>  BY <1>4, <3>1 DEF Base
    <3>2. CASE templates # <<>>
      <4>1. templates \in Seq(Template) /\ Len(templates) \in Nat /\ Len(templates) >= 1
        BY <3>2, InnermostType
      <4>2. templates[1] \in Template
        <5>1. 1 \in 1..Len(templates)  BY <4>1
        <5>2. QED  BY <4>1, <5>1, ElementOfSeq
      <4>3. QED  BY <3>2, <4>2 DEF Base, Template
    <3>3. QED  BY <3>1, <3>2
  <2>3. Base' <= pos'  BY <1>4, <1>5, <1>11, <1>forward, <2>2
  <2>4. QED  BY <1>5, <1>7, <1>11, <2>1, <2>3
<1>12. QED  BY <1>9, <1>10, <1>11, BaseMoves

LEMMA NotedStep ==
    ASSUME TypeInv, Strings, PairsOpen, DepthIs, Noted, [Next]_vars
    PROVE  Noted'
<1> SUFFICES ASSUME mode' = "scan", Declaration' PROVE Noted'  BY DEF Noted
<1>1. CASE TakeToken
  <2>1. Declaration  BY <1>1 DEF TakeToken, Declaration
  <2>2. QED  BY <1>1, <2>1, NotedTakeToken
<1>2. CASE BeginTemplate \/ OpenInterpolation \/ TakeOfExpression \/ CloseInterpolation \/ ScanPiece
  <2>1. scan' = scan
    BY <1>2 DEF BeginTemplate, OpenInterpolation, TakeOfExpression, CloseInterpolation, ScanPiece
  <2>2. Declaration  BY <2>1 DEF Declaration
  <2>3. QED  BY <1>2, <2>2, NotedStrings
<1>3. CASE UNCHANGED vars
  <2>1. UNCHANGED <<src, syntax, scan, pos, pairs, templates, values, mode>>  BY <1>3 DEF vars
  <2>2. Base' = Base /\ Declaration  BY <2>1 DEF Base, Declaration
  <2>3. QED  BY <2>1, <2>2, ChainStays DEF Noted
<1>4. ASSUME EofInTemplate PROVE FALSE  BY <1>4 DEF EofInTemplate, Pieces, Declaration
<1>5. ASSUME Fail \/ Stop \/ StopAtCloser \/ TakeRawImportant \/ Return PROVE FALSE
  BY <1>5 DEF Fail, Stop, StopAtCloser, TakeRawImportant, Return
<1>6. ASSUME OpenArgs PROVE FALSE  BY <1>6 DEF OpenArgs, Declaration
<1>7. QED
  BY <1>1, <1>2, <1>3, <1>4, <1>5, <1>6
  DEF Next, TokenizerFails, Reject, RejectExpression, PieceFails, CallerRejects

LEMMA NotedInit == Init => Noted
<1> SUFFICES ASSUME Init
             PROVE  Chain(values, Base) /\ Base <= pos /\ \E f : Replays(f, values, pairs)
  BY DEF Noted
<1>1. /\ values = <<>> /\ pairs = <<>> /\ Base = 1 /\ Len(values) = 0
      /\ Base <= pos
  BY DEF Init, Base
<1>2. Skips(1, 1)
  <2>1. \A n \in 1..(1 - 1) : FALSE  OBVIOUS
  <2>2. QED  BY <2>1 DEF Skips
<1>3. Chain(values, Base)
  <2>1. \A k \in 1..0 : FALSE  OBVIOUS
  <2>2. QED  BY <1>1, <1>2, <2>1 DEF Chain, StartOf
<1>4. Replays([k \in 0..0 |-> <<>>], values, pairs)
  <2> DEFINE f == [k \in 0..0 |-> <<>>]
  <2>1. f \in [0..0 -> Seq(Pair)] /\ f[0] = <<>>  OBVIOUS
  <2>2. \A k \in 1..0 : FALSE  OBVIOUS
  <2> HIDE DEF f
  <2>3. Replays(f, values, pairs)  BY <1>1, <2>1, <2>2 DEF Replays
  <2>4. QED  BY <2>3 DEF f
<1>5. QED  BY <1>1, <1>3, <1>4

----------------------------------------------------------------------------
(***************************************************************************)
(* At the end of the run: the two last values are an annotation outside all  *)
(* pairs exactly when one stands there in the source.                        *)
(***************************************************************************)
Annotation(i, k, p) ==
    /\ src[i] = "bang" /\ Nesting[i] = <<>> /\ k \in (i + 1)..(p - 1)
    /\ src[k] = "important" /\ Gap(i + 1, k) /\ Gap(k + 1, p)

AnnotationAt(i) ==
    /\ src[i] = "bang" /\ Nesting[i] = <<>>
    /\ \E k \in (i + 1)..(Peek.start - 1) :
         src[k] = "important" /\ Gap(i + 1, k) /\ Gap(k + 1, Peek.start)

LEMMA AnnotationOutside ==
    ASSUME src \in Seq(Symbol), NEW p \in 1..(Len(src) + 1), NEW i \in 1..Len(src), NEW k,
           Annotation(i, k, p)
    PROVE  \A n \in i..(p - 1) : /\ Outside(n)
                                 /\ n # i /\ n # k => src[n] \in LineBreak /\ syntax # "Sass"
<1>1. Len(src) \in Nat  BY Symbols
<1>2. /\ k \in (i + 1)..(p - 1) /\ src[i] = "bang" /\ src[k] = "important" /\ Nesting[i] = <<>>
      /\ \A n \in (i + 1)..(k - 1) : src[n] \in LineBreak /\ syntax # "Sass"
      /\ \A n \in (k + 1)..(p - 1) : src[n] \in LineBreak /\ syntax # "Sass"
  BY DEF Annotation, Gap
<1>3. \A n \in i..(p - 1) : n = i \/ n = k \/ n \in (i + 1)..(k - 1) \/ n \in (k + 1)..(p - 1)
  BY <1>1, <1>2
<1>4. ASSUME NEW n \in i..(p - 1) PROVE Beyond(Nesting[i], n) = Nesting[i]
  <2>1. src[n] \in {"bang", "important"} \cup LineBreak  BY <1>2, <1>3
  <2>2. src[n] \notin Opens \cup Closer  BY <2>1 DEF LineBreak, Opens, Closer, Quote
  <2>3. ~Quoted(Nesting[i])  BY <1>2 DEF Quoted
  <2>4. QED  BY <2>2, <2>3, BeyondOutside
<1>5. p \in i..(Len(src) + 1) /\ i \in 1..(Len(src) + 1)  BY <1>1, <1>2
<1>6. \A n \in i..p : Nesting[n] = Nesting[i]  BY <1>4, <1>5, StaysOpen
<1>7. ASSUME NEW n \in i..(p - 1)
      PROVE  Outside(n) /\ (n # i /\ n # k => src[n] \in LineBreak /\ syntax # "Sass")
  <2>1. n \in i..p  BY <1>1, <1>5
  <2>2. Nesting[n] = <<>>  BY <1>2, <1>6, <2>1
  <2>3. QED  BY <1>2, <1>3, <2>2 DEF Outside
<1>8. QED  BY <1>7

\* A value that ends in an annotation is one of its two tokens.
LEMMA EndsWithin ==
    ASSUME src \in Seq(Symbol), NEW p \in 1..(Len(src) + 1), NEW i \in 1..Len(src), NEW k,
           Annotation(i, k, p), NEW v \in Taken, NEW e \in Nat, Ended(v, e), e - 1 \in i..(p - 1)
    PROVE  v.start = e - 1 /\ v.kind = src[e - 1] /\ e - 1 \in {i, k}
<1>1. Outside(e - 1)  BY AnnotationOutside
<1>2. v.kind \in Symbol  BY <1>1 DEF Ended
<1>3. v.start \in Nat  BY DEF Taken
<1>4. e = v.start + 1 /\ src[v.start] = v.kind /\ (v.kind \in LineBreak => syntax = "Sass")
  BY <1>2 DEF Ended
<1>5. v.start = e - 1  BY <1>3, <1>4
<1>6. e - 1 \in {i, k}  BY <1>4, <1>5, AnnotationOutside
<1>7. QED  BY <1>4, <1>5, <1>6

\* Behind a symbol outside all pairs that opens nothing only blanks are left out.
LEMMA SkipsAreGaps ==
    ASSUME src \in Seq(Symbol), NEW i \in 1..Len(src), src[i] \in {"bang", "important"},
           Nesting[i] = <<>>, NEW j \in 1..(Len(src) + 1), Skips(i + 1, j)
    PROVE  Gap(i + 1, j) /\ Nesting[j] = <<>>
<1>1. Len(src) \in Nat /\ i + 1 <= j  BY Symbols DEF Skips
<1>2. Nesting[i + 1] = <<>>
  <2>1. src[i] \notin Opens \cup Closer  BY DEF Opens, Closer, Quote
  <2>2. ~Quoted(<<>>)  BY DEF Quoted
  <2>3. Beyond(Nesting[i], i) = <<>>  BY <2>1, <2>2, BeyondOutside
  <2>4. QED  BY <2>3, NestingSteps
<1>3. ASSUME NEW n \in (i + 1)..(j - 1) PROVE src[n] \in LineBreak /\ syntax # "Sass"
  <2>1. i + 1 \in (i + 1)..(j - 1)  OBVIOUS
  <2>2. QED  BY <1>2, <2>1 DEF Skips
<1>4. ASSUME NEW n \in (i + 1)..(j - 1) PROVE Beyond(Nesting[i + 1], n) = Nesting[i + 1]
  <2>1. src[n] \notin Opens \cup Closer  BY <1>3 DEF LineBreak, Opens, Closer, Quote
  <2>2. ~Quoted(Nesting[i + 1])  BY <1>2 DEF Quoted
  <2>3. QED  BY <2>1, <2>2, BeyondOutside
<1>5. i + 1 \in 1..(Len(src) + 1) /\ j \in (i + 1)..(Len(src) + 1) /\ j \in (i + 1)..j
  BY <1>1
<1>6. \A n \in (i + 1)..j : Nesting[n] = Nesting[i + 1]  BY <1>4, <1>5, StaysOpen
<1>7. QED  BY <1>2, <1>3, <1>5, <1>6 DEF Gap

\* The two last values of a chain, as tokens with nothing but blanks around them.
LEMMA AnnotationTaken ==
    ASSUME src \in Seq(Symbol), values \in Seq(Taken), NEW p \in 1..(Len(src) + 1),
           Chain(values, p), EndsImportant,
           Nesting[values[Len(values) - 1].start] = <<>>
    PROVE  Annotation(values[Len(values) - 1].start, values[Len(values)].start, p)
<1> DEFINE m == Len(values)
           u == values[m - 1]
           v == values[m]
           i == u.start
           k == v.start
<1>1. m \in Nat /\ m >= 2 /\ u.kind = "bang" /\ v.kind = "important"
  BY LenProperties DEF EndsImportant
<1>2. m \in 1..m /\ m - 1 \in 1..m /\ (m - 1) + 1 = m /\ m # m + 1  BY <1>1
<1>3. u \in Taken /\ v \in Taken  BY <1>2, ElementOfSeq
<1>4. i \in 1..Len(src) /\ k \in 1..Len(src) /\ Len(src) \in Nat  BY <1>3, Symbols DEF Taken
<1>5. PICK d \in Nat : Ended(u, d) /\ Skips(d, StartOf(values, p, (m - 1) + 1))
  BY <1>2 DEF Chain
<1>6. PICK e \in Nat : Ended(v, e) /\ Skips(e, StartOf(values, p, m + 1))
  BY <1>2 DEF Chain
<1>7. StartOf(values, p, (m - 1) + 1) = k /\ StartOf(values, p, m + 1) = p
  BY <1>2 DEF StartOf
<1>8. Nesting[i] = <<>>  OBVIOUS
<1> HIDE DEF m, u, v, i, k
<1>9. "bang" \in Symbol /\ "important" \in Symbol  BY DEF Symbol
<1>10. d = i + 1 /\ src[i] = "bang"  BY <1>1, <1>5, <1>9 DEF Ended, i
<1>11. e = k + 1 /\ src[k] = "important"  BY <1>1, <1>6, <1>9 DEF Ended, k
<1>12. Skips(i + 1, k) /\ Skips(k + 1, p)  BY <1>5, <1>6, <1>7, <1>10, <1>11
<1>13. Gap(i + 1, k) /\ Nesting[k] = <<>>
  <2>1. k \in 1..(Len(src) + 1)  BY <1>4
  <2>2. QED  BY <1>4, <1>8, <1>10, <1>12, <2>1, SkipsAreGaps
<1>14. Gap(k + 1, p)  BY <1>4, <1>11, <1>12, <1>13, SkipsAreGaps
<1>15. k \in (i + 1)..(p - 1)  BY <1>4, <1>12 DEF Skips
<1>16. Annotation(i, k, p)  BY <1>8, <1>10, <1>11, <1>13, <1>14, <1>15 DEF Annotation
<1>17. QED  BY <1>16 DEF i, k, u, v, m

\* And an annotation of the source is the two last values.
LEMMA AnnotationIsLast ==
    ASSUME src \in Seq(Symbol), values \in Seq(Taken), NEW p \in 1..(Len(src) + 1),
           Chain(values, p), NEW i \in 1..Len(src), NEW k, Annotation(i, k, p)
    PROVE  EndsImportant /\ values[Len(values) - 1].start = i
<1> DEFINE m == Len(values)
<1>1. m \in Nat /\ Len(src) \in Nat  BY LenProperties, Symbols
<1>2. k \in (i + 1)..(p - 1) /\ src[i] = "bang" /\ src[k] = "important"  BY DEF Annotation
<1>3. "bang" \notin LineBreak /\ "important" \notin LineBreak  BY DEF LineBreak
<1>4. ASSUME NEW a \in Nat, NEW b \in Nat, Skips(a, b)
      PROVE  (i < b => i < a) /\ (k < b => k < a)
  <2>1. ~(i \in a..(b - 1)) /\ ~(k \in a..(b - 1))  BY <1>2, <1>3, <1>4 DEF Skips
  <2>2. QED  BY <1>1, <1>2, <2>1
<1>5. m # 0
  <2>1. SUFFICES ASSUME m = 0 PROVE FALSE  OBVIOUS
  <2>2. Skips(1, p)  BY <2>1 DEF Chain, StartOf
  <2>3. QED  BY <1>1, <1>2, <1>4, <2>2
<1>6. m \in 1..m /\ m # m + 1  BY <1>1, <1>5
<1> DEFINE v == values[m]
<1>7. v \in Taken  BY <1>6, ElementOfSeq
<1>8. PICK e \in Nat : Ended(v, e) /\ Skips(e, p)  BY <1>6 DEF Chain, StartOf
<1> HIDE DEF m, v
<1>9. v.start = k /\ v.kind = "important"
  <2>1. k < e  BY <1>1, <1>2, <1>4, <1>8
  <2>2. e <= p  BY <1>8 DEF Skips
  <2>3. e - 1 \in i..(p - 1) /\ e - 1 # i  BY <1>1, <1>2, <2>1, <2>2
  <2>4. v.start = e - 1 /\ v.kind = src[e - 1] /\ e - 1 \in {i, k}
    BY <1>7, <1>8, <2>3, EndsWithin
  <2>5. QED  BY <1>2, <2>3, <2>4
<1>10. m # 1
  <2>1. SUFFICES ASSUME m = 1 PROVE FALSE  OBVIOUS
  <2>2. StartOf(values, p, 1) = k  BY <1>9, <2>1 DEF StartOf, m, v
  <2>3. Skips(1, k)  BY <2>2 DEF Chain
  <2>4. QED  BY <1>1, <1>2, <1>4, <2>3
<1>11. m - 1 \in 1..m /\ (m - 1) + 1 = m /\ m >= 2  BY <1>1, <1>5, <1>10
<1> DEFINE u == values[m - 1]
<1>12. u \in Taken  BY <1>11, ElementOfSeq DEF m
<1>13. PICK d \in Nat : Ended(u, d) /\ Skips(d, k)
  <2>1. StartOf(values, p, (m - 1) + 1) = k  BY <1>6, <1>9, <1>11 DEF StartOf, m, v
  <2>2. QED  BY <1>11, <2>1 DEF Chain, m
<1> HIDE DEF u
<1>14. u.start = i /\ u.kind = "bang"
  <2>1. i < d  BY <1>1, <1>2, <1>4, <1>13
  <2>2. d <= k  BY <1>13 DEF Skips
  <2>3. d - 1 \in i..(p - 1) /\ d - 1 # k  BY <1>1, <1>2, <2>1, <2>2
  <2>4. u.start = d - 1 /\ u.kind = src[d - 1] /\ d - 1 \in {i, k}
    BY <1>12, <1>13, <2>3, EndsWithin
  <2>5. QED  BY <1>2, <2>3, <2>4
<1>15. QED  BY <1>9, <1>11, <1>14 DEF EndsImportant, m, u, v

\* What is known behind the loop.
Known ==
    /\ mode # "done" => important = 0
    /\ mode = "stopped" /\ Declaration =>
         \A i \in 1..Len(src) :
           RawImportant /\ values[Len(values) - 1].start = i <=> AnnotationAt(i)

LEMMA KnownAtStop ==
    ASSUME TypeInv, Strings, PairsOpen, DepthIs, Noted, Declaration,
           mode = "scan", templates = <<>>, NEW i \in 1..Len(src)
    PROVE  RawImportant /\ values[Len(values) - 1].start = i <=> AnnotationAt(i)
<1> DEFINE p == Peek.start
           m == Len(values)
<1>1. /\ src \in Seq(Symbol) /\ values \in Seq(Taken) /\ m \in Nat
  BY LenProperties DEF TypeInv, TypeOK
<1>2. pos \in Nat /\ p \in Nat /\ p \in 1..(Len(src) + 1) /\ Skips(pos, p)  BY SkipsBlanks
<1>3. Chain(values, pos)  BY DEF Noted, Base
<1>4. Chain(values, p)  BY <1>1, <1>2, <1>3, ChainGrows
<1>5. PICK f : Replays(f, values, pairs)  BY DEF Noted
<1>6. \A k \in 0..m : Replay[k] = f[k]  BY <1>1, <1>5, ReplayIs
<1>7. AnnotationAt(i) <=> \E k \in (i + 1)..(p - 1) : Annotation(i, k, p)
  BY DEF AnnotationAt, Annotation
<1> HIDE DEF p
<1>8. ASSUME EndsImportant
      PROVE  BalancedTo(m - 2) <=> Nesting[values[m - 1].start] = <<>>
  <2>1. m >= 2  BY <1>8 DEF EndsImportant
  <2>2. /\ m - 2 \in 0..m /\ m - 1 \in 1..m /\ (m - 1) - 1 = m - 2
        /\ \A k \in 1..(m - 2) : k \in 1..m /\ k - 1 \in 0..m
    BY <1>1, <2>1
  <2>3. f[m - 2] = <<>> <=> Nesting[values[m - 1].start] = <<>>  BY <1>5, <2>2 DEF Replays
  <2>4. \A k \in 1..(m - 2) : Passes(Replay[k - 1], values[k].kind)
    BY <1>5, <1>6, <2>2 DEF Replays
  <2>5. QED  BY <1>6, <2>2, <2>3, <2>4 DEF BalancedTo
<1>9. ASSUME RawImportant, values[m - 1].start = i PROVE AnnotationAt(i)
  <2>1. EndsImportant /\ Nesting[values[m - 1].start] = <<>>  BY <1>8, <1>9 DEF RawImportant
  <2>2. Annotation(i, values[m].start, p)  BY <1>1, <1>2, <1>4, <1>9, <2>1, AnnotationTaken
  <2>3. values[m].start \in (i + 1)..(p - 1)  BY <2>2 DEF Annotation
  <2>4. QED  BY <1>7, <2>2, <2>3
<1>10. ASSUME AnnotationAt(i) PROVE RawImportant /\ values[m - 1].start = i
  <2>1. PICK k \in (i + 1)..(p - 1) : Annotation(i, k, p)  BY <1>7, <1>10
  <2>2. EndsImportant /\ values[m - 1].start = i  BY <1>1, <1>2, <1>4, <2>1, AnnotationIsLast
  <2>3. Nesting[values[m - 1].start] = <<>>  BY <2>1, <2>2 DEF Annotation
  <2>4. QED  BY <1>8, <2>2, <2>3 DEF RawImportant
<1>11. QED  BY <1>9, <1>10

LEMMA RunStays ==
    ASSUME UNCHANGED <<src, syntax, scan, pos, depth>>
    PROVE  /\ Declaration' <=> Declaration
           /\ \A i : (AnnotationAt(i))' <=> AnnotationAt(i)
           /\ values' = values => (RawImportant' <=> RawImportant)
<1>1. Nesting' = Nesting /\ Peek' = Peek  BY NestingStays, PeekStays
<1>2. \A i : (AnnotationAt(i))' <=> AnnotationAt(i)  BY <1>1 DEF AnnotationAt, Gap
<1>3. ASSUME values' = values PROVE RawImportant' <=> RawImportant
  <2>1. Replay' = Replay  BY <1>3 DEF Replay, Track, Push, PairOf
  <2>2. QED  BY <1>3, <2>1 DEF RawImportant, EndsImportant, BalancedTo, Passes, PairOf
<1>4. Declaration' <=> Declaration  BY DEF Declaration
<1>5. QED  BY <1>2, <1>3, <1>4

LEMMA KnownStep ==
    ASSUME TypeInv, Strings, PairsOpen, DepthIs, Noted, Known, [Next]_vars
    PROVE  Known'
<1>1. CASE Stop \/ StopAtCloser
  <2>1. /\ mode = "scan" /\ templates = <<>> /\ important' = important /\ values' = values
        /\ UNCHANGED <<src, syntax, scan, pos, depth>>
    BY <1>1 DEF Stop, StopAtCloser, Scanning
  <2>2. important' = 0  BY <2>1 DEF Known
  <2>3. ASSUME Declaration', NEW i \in 1..Len(src)
        PROVE  RawImportant' /\ values'[Len(values') - 1].start = i <=> (AnnotationAt(i))'
    <3>1. Declaration  BY <2>1, <2>3, RunStays
    <3>2. RawImportant /\ values[Len(values) - 1].start = i <=> AnnotationAt(i)
      BY <2>1, <3>1, KnownAtStop
    <3>3. QED  BY <2>1, <3>2, RunStays
  <2>4. QED  BY <2>1, <2>2, <2>3 DEF Known
<1>2. CASE UNCHANGED vars
  <2>1. UNCHANGED <<src, syntax, scan, pos, depth, values, important, mode>>  BY <1>2 DEF vars
  <2>2. QED  BY <2>1, RunStays DEF Known
<1>3. CASE \/ TokenizerFails \/ Reject \/ RejectExpression \/ PieceFails \/ CallerRejects
           \/ TakeToken \/ BeginTemplate \/ OpenInterpolation \/ TakeOfExpression
           \/ CloseInterpolation \/ EofInTemplate \/ ScanPiece \/ OpenArgs
  <2>1. important' = important /\ mode # "done" /\ mode' # "stopped"
    BY <1>3
    DEF TokenizerFails, Reject, RejectExpression, PieceFails, CallerRejects, Fail, TakeToken,
        Scanning, BeginTemplate, OpenInterpolation, TakeOfExpression, CloseInterpolation,
        InExpression, EofInTemplate, ScanPiece, InPiece, OpenArgs
  <2>2. QED  BY <2>1 DEF Known
<1>4. CASE TakeRawImportant \/ Return
  BY <1>4 DEF Known, TakeRawImportant, Return
<1>5. QED
  BY <1>1, <1>2, <1>3, <1>4 DEF Next

LEMMA ImportantStep ==
    ASSUME TypeInv, Known, ImportantOutside, [Next]_vars
    PROVE  ImportantOutside'
<1> SUFFICES ASSUME mode' = "done", Declaration'
             PROVE  \A i \in 1..Len(src') : important' = i <=> (AnnotationAt(i))'
  BY DEF ImportantOutside, AnnotationAt
<1>1. CASE TakeRawImportant
  <2>1. /\ mode = "stopped" /\ Declaration /\ UNCHANGED <<src, syntax, scan, pos, depth>>
        /\ important' = IF RawImportant THEN values[Len(values) - 1].start ELSE important
    BY <1>1 DEF TakeRawImportant
  <2>2. important = 0  BY <2>1 DEF Known
  <2>3. ASSUME NEW i \in 1..Len(src) PROVE important' = i <=> AnnotationAt(i)
    <3>1. i # 0
      <4>1. Len(src) \in Nat  BY Symbols DEF TypeInv, TypeOK
      <4>2. QED  BY <4>1
    <3>2. RawImportant /\ values[Len(values) - 1].start = i <=> AnnotationAt(i)
      BY <2>1 DEF Known
    <3>3. QED  BY <2>1, <2>2, <3>1, <3>2
  <2>4. QED  BY <2>1, <2>3, RunStays
<1>2. CASE UNCHANGED vars
  <2>1. UNCHANGED <<src, syntax, scan, pos, depth, important, mode>>  BY <1>2 DEF vars
  <2>2. QED  BY <2>1, RunStays DEF ImportantOutside, AnnotationAt
<1>3. ASSUME \/ Fail \/ Stop \/ StopAtCloser \/ TakeToken \/ BeginTemplate \/ OpenInterpolation
             \/ TakeOfExpression \/ CloseInterpolation \/ ScanPiece \/ EofInTemplate \/ OpenArgs
             \/ Return
      PROVE  FALSE
  BY <1>3 DEF Fail, Stop, StopAtCloser, TakeToken, Scanning, BeginTemplate, OpenInterpolation,
              TakeOfExpression, CloseInterpolation, ScanPiece, InExpression, InPiece,
              EofInTemplate, OpenArgs, Return, Declaration
<1>4. QED
  BY <1>1, <1>2, <1>3
  DEF Next, TokenizerFails, Reject, RejectExpression, PieceFails, CallerRejects

\* The annotation of a raw value is the `!important` the source has at the end of the
\* run outside all pairs, with nothing but blanks in it and behind it, and no other;
\* in every dialect and however the values before it nest.
THEOREM AnnotationsAreOutside == Spec => []ImportantOutside
<1>1. Init => ImportantOutside  BY DEF Init, ImportantOutside
<1>2. Init => EndInv /\ Noted /\ Known
  BY RunInvInit, DepthInit, NoEndInit, NotedInit DEF EndInv, Init, Known
<1>3. EndInv /\ Noted /\ Known /\ [Next]_vars => EndInv' /\ Noted' /\ Known'
  BY EndInvStep, NotedStep, KnownStep DEF EndInv, RunInv
<1>4. EndInv /\ Known /\ ImportantOutside /\ [Next]_vars => ImportantOutside'
  BY ImportantStep DEF EndInv, RunInv
<1>5. QED  BY <1>1, <1>2, <1>3, <1>4, PTL DEF Spec

=============================================================================
