-------------------------- MODULE RawTokensProofs --------------------------
(***************************************************************************)
(* Raw runs of tokens, for every source, every loop and every dialect: a    *)
(* run ends where the source says it does, strings are read as strings, and *)
(* an unclosed value is reported at its outermost opener.                   *)
(***************************************************************************)
EXTENDS RawTokens, Stacks

----------------------------------------------------------------------------
(***************************************************************************)
(* Where things end.                                                        *)
(***************************************************************************)
LEMMA LeastIs ==
    ASSUME NEW P \in SUBSET Nat, P # {}
    PROVE  Least(P) \in P /\ \A j \in P : Least(P) <= j
<1>1. \E i \in P : \A j \in P : i <= j  BY LeastNatural
<1>2. QED  BY <1>1 DEF Least

LEMMA Symbols ==
    ASSUME src \in Seq(Symbol)
    PROVE  /\ Len(src) \in Nat
           /\ \A i \in 1..Len(src) : At(i) = src[i] /\ src[i] \in Symbol
           /\ At(Len(src) + 1) = "eof"
<1>1. Len(src) \in Nat  BY LenProperties
<1>2. \A i \in 1..Len(src) : src[i] \in Symbol  BY ElementOfSeq
<1>3. QED  BY <1>1, <1>2 DEF At

LEMMA InterpolationIs ==
    ASSUME src \in Seq(Symbol), NEW i \in Nat, i >= 1, Interpolates(i)
    PROVE  /\ i \in 1..Len(src) /\ i + 1 \in 1..Len(src)
           /\ src[i] = "hash" /\ src[i + 1] = "lbrace" /\ syntax # "Css"
<1>1. Len(src) \in Nat  BY Symbols
<1>2. At(i) = "hash" /\ At(i + 1) = "lbrace" /\ syntax # "Css"  BY DEF Interpolates
<1>3. i <= Len(src) /\ i + 1 <= Len(src)  BY <1>2 DEF At
<1>4. QED  BY <1>1, <1>2, <1>3 DEF At

LEMMA PieceEnds ==
    ASSUME src \in Seq(Symbol), NEW quote \in Quote, NEW i \in 1..(Len(src) + 1)
    PROVE  LET e == PieceEnd(quote, i)
           IN  /\ e \in i..(Len(src) + 1)
               /\ e <= Len(src) => src[e] \in LineBreak \cup {quote} \/ Interpolates(e)
               /\ \A k \in i..(e - 1) : /\ k \in 1..Len(src)
                                        /\ src[k] \notin LineBreak \cup {quote}
                                        /\ ~Interpolates(k)
<1> DEFINE P == {k \in i..(Len(src) + 1) :
                   k > Len(src) \/ At(k) \in LineBreak \cup {quote} \/ Interpolates(k)}
           e == PieceEnd(quote, i)
<1>1. Len(src) \in Nat /\ i \in Nat /\ i >= 1  BY Symbols
<1>2. Len(src) + 1 \in P /\ P \in SUBSET Nat  BY <1>1
<1>3. e = Least(P)  BY DEF PieceEnd
<1>4. e \in P /\ \A j \in P : e <= j
  <2> HIDE DEF P, e
  <2>1. P # {}  BY <1>2
  <2>2. QED  BY <1>2, <1>3, <2>1, LeastIs
<1>5. e \in i..(Len(src) + 1)  BY <1>4
<1>6. e <= Len(src) => src[e] \in LineBreak \cup {quote} \/ Interpolates(e)
  BY <1>1, <1>4, Symbols
<1>7. ASSUME NEW k \in i..(e - 1)
      PROVE  /\ k \in 1..Len(src) /\ src[k] \notin LineBreak \cup {quote} /\ ~Interpolates(k)
  <2> HIDE DEF e
  <2>1. k \in i..(Len(src) + 1) /\ ~(e <= k) /\ k \in 1..Len(src)  BY <1>1, <1>5
  <2>2. k \notin P  BY <1>4, <2>1
  <2>3. QED  BY <2>1, <2>2, Symbols
<1>8. QED  BY <1>5, <1>6, <1>7

----------------------------------------------------------------------------
(***************************************************************************)
(* The next token: behind the blanks, by what it begins with.               *)
(***************************************************************************)
Simple(t) == /\ src[t.start] \notin Quote /\ ~Interpolates(t.start)
             /\ t.kind = src[t.start] /\ t.next = t.start + 1

Brace2(t) == Interpolates(t.start) /\ t.kind = "hashlbrace" /\ t.next = t.start + 2

\* A string, its head or what is left of it, up to the place where its text ends.
StringTo(t, e) ==
    /\ src[t.start] \in Quote /\ e \in (t.start + 1)..(Len(src) + 1)
    /\ \A k \in (t.start + 1)..(e - 1) : /\ k \in 1..Len(src)
                                         /\ src[k] \notin LineBreak \cup {src[t.start]}
                                         /\ ~Interpolates(k)
    /\ \/ e <= Len(src) /\ src[e] = src[t.start] /\ t.kind = "Str" /\ t.next = e + 1
       \/ e <= Len(src) /\ Interpolates(e) /\ t.kind = "StrTemplate" /\ t.next = e + 1
       \/ /\ t.kind = IF syntax = "Css" THEN "BadStr" ELSE "Err"
          /\ \/ e <= Len(src) /\ src[e] \in LineBreak /\ t.next = e + 1
             \/ e = Len(src) + 1 /\ t.next = e

LEMMA NextToken ==
    ASSUME src \in Seq(Symbol), pos \in 1..(Len(src) + 1)
    PROVE  /\ Peek.start \in pos..(Len(src) + 1)
           /\ \A k \in pos..(Peek.start - 1) : k \in 1..Len(src) /\ src[k] \in LineBreak /\ Blank(k)
           /\ ~Blank(Peek.start)
           /\ \/ Peek.start = Len(src) + 1 /\ Peek.kind = "eof" /\ Peek.next = Len(src) + 1
              \/ /\ Peek.start \in 1..Len(src)
                 /\ Simple(Peek) \/ Brace2(Peek) \/ \E e \in Nat : StringTo(Peek, e)
<1> DEFINE P == {k \in pos..(Len(src) + 1) : ~Blank(k)}
           i == Least(P)
<1>1. Len(src) \in Nat /\ pos \in Nat /\ pos >= 1  BY Symbols
<1>2. ~Blank(Len(src) + 1)  BY Symbols DEF Blank, LineBreak
<1>3. Len(src) + 1 \in P /\ P \in SUBSET Nat  BY <1>1, <1>2
<1>4. i \in P /\ \A j \in P : i <= j
  <2> HIDE DEF P
  <2>1. P # {}  BY <1>3
  <2>2. QED  BY <1>3, <2>1, LeastIs
<1>5. i \in pos..(Len(src) + 1) /\ ~Blank(i)  BY <1>4
<1>6. ASSUME NEW k \in pos..(i - 1) PROVE k \in 1..Len(src) /\ src[k] \in LineBreak /\ Blank(k)
  <2> HIDE DEF i
  <2>1. k \in pos..(Len(src) + 1) /\ ~(i <= k) /\ k \in 1..Len(src)  BY <1>1, <1>5
  <2>2. Blank(k)  BY <1>4, <2>1
  <2>3. QED  BY <2>1, <2>2, Symbols DEF Blank
<1>7. Peek = CASE At(i) \in Quote -> StringHead(i)
               [] Interpolates(i) -> Outcome("hashlbrace", i, i + 2)
               [] OTHER -> Outcome(At(i), i, IF i > Len(src) THEN i ELSE i + 1)
  BY DEF Peek
<1> HIDE DEF i, P
<1>8. CASE i = Len(src) + 1
  <2>1. At(i) = "eof" /\ At(i) \notin Quote /\ ~Interpolates(i) /\ i > Len(src)
    BY <1>1, <1>8, Symbols DEF Quote, Interpolates
  <2>2. Peek = Outcome("eof", i, i)  BY <1>7, <2>1
  <2>3. Peek.start = i /\ Peek.kind = "eof" /\ Peek.next = i  BY <2>2 DEF Outcome
  <2>4. QED  BY <1>5, <1>6, <1>8, <2>3
<1>9. CASE i \in 1..Len(src)
  <2>1. At(i) = src[i] /\ ~(i > Len(src))  BY <1>1, <1>9, Symbols
  <2>2. CASE src[i] \in Quote
    <3> DEFINE e == PieceEnd(src[i], i + 1)
    <3>1. i + 1 \in 1..(Len(src) + 1)  BY <1>1, <1>9
    <3>2. /\ e \in (i + 1)..(Len(src) + 1)
          /\ e <= Len(src) => src[e] \in LineBreak \cup {src[i]} \/ Interpolates(e)
          /\ \A k \in (i + 1)..(e - 1) : /\ k \in 1..Len(src)
                                         /\ src[k] \notin LineBreak \cup {src[i]}
                                         /\ ~Interpolates(k)
      BY <2>2, <3>1, PieceEnds
    <3>3. Peek = CASE At(e) = src[i] -> Outcome("Str", i, e + 1)
                   [] Interpolates(e) -> Outcome("StrTemplate", i, e + 1)
                   [] OTHER -> Outcome(IF syntax = "Css" THEN "BadStr" ELSE "Err", i,
                                       IF e > Len(src) THEN e ELSE e + 1)
      <4>1. At(i) \in Quote /\ ~Interpolates(i)  BY <2>1, <2>2 DEF Interpolates, Quote
      <4>2. Peek = StringHead(i)  BY <1>7, <4>1
      <4>3. QED  BY <2>1, <4>2 DEF StringHead
    <3> HIDE DEF e
    <3>4. e \in Nat /\ e >= 1  BY <1>1, <1>9, <3>2
    <3>5. Peek.start = i  BY <3>3 DEF Outcome
    <3>6. CASE At(e) = src[i]
      <4>1. e <= Len(src) /\ src[e] = src[i]
        BY <1>1, <2>2, <3>2, <3>6, Symbols DEF Quote, At
      <4>2. ~Interpolates(e)  BY <2>2, <3>6 DEF Interpolates, Quote
      <4>6. Peek = Outcome("Str", i, e + 1)  BY <3>3, <3>6, <4>2
      <4>3. Peek.kind = "Str" /\ Peek.next = e + 1  BY <4>6 DEF Outcome
      <4>4. StringTo(Peek, e)  BY <2>2, <3>2, <3>5, <4>1, <4>3 DEF StringTo
      <4>5. QED  BY <1>5, <1>6, <1>9, <3>4, <3>5, <4>4
    <3>7. CASE At(e) # src[i] /\ Interpolates(e)
      <4>1. e <= Len(src)  BY <1>1, <3>4, <3>7, InterpolationIs
      <4>2. Peek.kind = "StrTemplate" /\ Peek.next = e + 1  BY <3>3, <3>7 DEF Outcome
      <4>3. StringTo(Peek, e)  BY <2>2, <3>2, <3>5, <3>7, <4>1, <4>2 DEF StringTo
      <4>4. QED  BY <1>5, <1>6, <1>9, <3>4, <3>5, <4>3
    <3>8. CASE At(e) # src[i] /\ ~Interpolates(e)
      <4>1. /\ Peek.kind = IF syntax = "Css" THEN "BadStr" ELSE "Err"
            /\ Peek.next = IF e > Len(src) THEN e ELSE e + 1
        BY <3>3, <3>8 DEF Outcome
      <4>2. \/ e <= Len(src) /\ src[e] \in LineBreak /\ Peek.next = e + 1
            \/ e = Len(src) + 1 /\ Peek.next = e
        BY <1>1, <3>2, <3>4, <3>8, <4>1, Symbols
      <4>3. StringTo(Peek, e)  BY <2>2, <3>2, <3>5, <4>1, <4>2 DEF StringTo
      <4>4. QED  BY <1>5, <1>6, <1>9, <3>4, <3>5, <4>3
    <3>9. QED  BY <3>6, <3>7, <3>8
  <2>3. CASE src[i] \notin Quote /\ Interpolates(i)
    <3>1. Peek = Outcome("hashlbrace", i, i + 2)  BY <1>7, <2>1, <2>3
    <3>2. Peek.start = i /\ Peek.kind = "hashlbrace" /\ Peek.next = i + 2  BY <3>1 DEF Outcome
    <3>3. Brace2(Peek)  BY <2>3, <3>2 DEF Brace2
    <3>4. QED  BY <1>5, <1>6, <1>9, <3>2, <3>3
  <2>4. CASE src[i] \notin Quote /\ ~Interpolates(i)
    <3>1. Peek = Outcome(src[i], i, i + 1)  BY <1>7, <2>1, <2>4
    <3>2. Peek.start = i /\ Peek.kind = src[i] /\ Peek.next = i + 1  BY <3>1 DEF Outcome
    <3>3. Simple(Peek)  BY <2>4, <3>2 DEF Simple
    <3>4. QED  BY <1>5, <1>6, <1>9, <3>2, <3>3
  <2>5. QED  BY <2>2, <2>3, <2>4
<1>10. QED  BY <1>1, <1>5, <1>8, <1>9

\* A token that is one.
LEMMA TokenIs ==
    ASSUME src \in Seq(Symbol), pos \in 1..(Len(src) + 1), Peek.kind \notin {"eof", "Err"}
    PROVE  /\ Len(src) \in Nat /\ pos \in Nat /\ pos >= 1
           /\ Peek.start \in 1..Len(src) /\ Peek.start \in Nat /\ pos <= Peek.start
           /\ Peek.next \in (Peek.start + 1)..(Len(src) + 1) /\ Peek.next \in Nat
           /\ Peek.kind \in TakenKind
           /\ Simple(Peek) \/ Brace2(Peek) \/ \E e \in Nat : StringTo(Peek, e)
<1> DEFINE t == Peek
<1>1. Len(src) \in Nat /\ pos \in Nat /\ pos >= 1  BY Symbols
<1>2. /\ t.start \in 1..Len(src) /\ t.start \in pos..(Len(src) + 1)
      /\ Simple(t) \/ Brace2(t) \/ \E e \in Nat : StringTo(t, e)
  BY NextToken
<1> HIDE DEF t
<1>3. t.start \in Nat /\ pos <= t.start  BY <1>1, <1>2
<1>4. CASE Simple(t)
  <2>1. t.kind \in Symbol /\ t.next = t.start + 1  BY <1>2, <1>4, Symbols DEF Simple
  <2>2. t.kind \in TakenKind  BY <2>1 DEF TakenKind
  <2>3. QED  BY <1>1, <1>2, <1>3, <2>1, <2>2 DEF t
<1>5. CASE Brace2(t)
  <2>1. t.kind = "hashlbrace" /\ t.next = t.start + 2 /\ t.start + 1 \in 1..Len(src)
    BY <1>3, <1>1, <1>5, InterpolationIs DEF Brace2
  <2>2. t.kind \in TakenKind  BY <2>1 DEF TakenKind
  <2>3. QED  BY <1>1, <1>2, <1>3, <2>1, <2>2 DEF t
<1>6. CASE \E e \in Nat : StringTo(t, e)
  <2>1. PICK e \in Nat : StringTo(t, e)  BY <1>6
  <2>2. t.next \in (t.start + 1)..(Len(src) + 1)  BY <1>1, <1>3, <2>1 DEF StringTo
  <2>3. t.kind \in {"Str", "StrTemplate", "BadStr"}  BY <2>1 DEF StringTo, t
  <2>4. t.kind \in TakenKind  BY <2>3 DEF TakenKind
  <2>5. QED  BY <1>1, <1>2, <1>3, <2>2, <2>4 DEF t
<1>7. QED  BY <1>2, <1>4, <1>5, <1>6

\* The kinds that are not those of a symbol.
LEMMA OddKinds ==
    ASSUME src \in Seq(Symbol), pos \in 1..(Len(src) + 1), Peek.kind \notin {"eof", "Err"}
    PROVE  /\ Peek.kind \in Symbol => Simple(Peek)
           /\ Peek.kind = "hashlbrace" => Brace2(Peek)
           /\ Peek.kind \in {"Str", "BadStr", "StrTemplate"} => \E e \in Nat : StringTo(Peek, e)
           /\ Peek.kind = "BadStr" => syntax = "Css"
           /\ Peek.kind = "StrTemplate" => /\ src[Peek.start] \in Quote
                                           /\ Interpolates(Peek.next - 1) /\ syntax # "Css"
<1> DEFINE t == Peek
<1>1. /\ Simple(t) \/ Brace2(t) \/ \E e \in Nat : StringTo(t, e)
      /\ t.start \in 1..Len(src)
  BY TokenIs
<1> HIDE DEF t
<1>2. Simple(t) => t.kind \in Symbol  BY <1>1, Symbols DEF Simple
<1>3. Brace2(t) => t.kind = "hashlbrace"  BY DEF Brace2
<1>4. (\E e \in Nat : StringTo(t, e)) => t.kind \in {"Str", "BadStr", "StrTemplate", "Err"}
  BY DEF StringTo
<1>5. t.kind \in Symbol => t.kind \notin {"hashlbrace", "Str", "BadStr", "StrTemplate", "Err"}
  BY DEF Symbol
<1>6. t.kind = "BadStr" => syntax = "Css"
  BY <1>1, <1>2, <1>3, <1>5 DEF StringTo
<1>7. ASSUME t.kind = "StrTemplate"
      PROVE  src[t.start] \in Quote /\ Interpolates(t.next - 1) /\ syntax # "Css"
  <2>1. PICK e \in Nat : StringTo(t, e)  BY <1>1, <1>2, <1>3, <1>5, <1>7
  <2>2. Interpolates(e) /\ t.next = e + 1 /\ src[t.start] \in Quote
    BY <1>7, <2>1 DEF StringTo
  <2>3. t.next - 1 = e  BY <2>2
  <2>4. QED  BY <2>2, <2>3 DEF Interpolates
<1>8. QED  BY <1>1, <1>2, <1>3, <1>4, <1>5, <1>6, <1>7 DEF t

LEMMA TrackType ==
    ASSUME NEW stack \in Seq(Pair), NEW kind
    PROVE  /\ Track(stack, kind) \in Seq(Pair)
           /\ kind \in Opener => Track(stack, kind) = Append(stack, PairOf[kind]) /\ PairOf[kind] \in Pair
           /\ kind \in Closer => Track(stack, kind) = IF stack = <<>> THEN stack ELSE Front(stack)
           /\ kind \notin Opener \cup Closer => Track(stack, kind) = stack
<1>1. kind \in Opener => PairOf[kind] \in Pair  BY DEF PairOf, Opener, Closer, Pair
<1>2. kind \in Opener => kind \notin Closer  BY DEF Opener, Closer
<1>3. kind \in Opener => Track(stack, kind) = Append(stack, PairOf[kind])
  BY <1>2 DEF Track, Push
<1>4. kind \in Closer => Track(stack, kind) = IF stack = <<>> THEN stack ELSE Front(stack)
  BY <1>2 DEF Track
<1>5. kind \notin Opener \cup Closer => Track(stack, kind) = stack  BY DEF Track
<1>6. Track(stack, kind) \in Seq(Pair)
  BY <1>1, <1>3, <1>4, <1>5, PushProperties, PopProperties
<1>7. QED  BY <1>1, <1>3, <1>4, <1>5, <1>6

\* The innermost element of a stack, replaced.
LEMMA TopReplaced ==
    ASSUME NEW S, NEW s \in Seq(S), s # <<>>, NEW x \in S
    PROVE  LET r == Append(Front(s), x)
           IN  /\ r \in Seq(S) /\ r # <<>> /\ Len(r) = Len(s) /\ Last(r) = x
               /\ Len(s) \in Nat /\ Len(s) >= 1 /\ r[Len(s)] = x
               /\ \A i \in 1..(Len(s) - 1) : r[i] = s[i]
<1>1. /\ Front(s) \in Seq(S) /\ Len(s) \in Nat /\ Len(s) >= 1 /\ Len(Front(s)) = Len(s) - 1
      /\ \A i \in 1..(Len(s) - 1) : Front(s)[i] = s[i]
  BY PopProperties
<1> DEFINE f == Front(s)
<1>2. /\ Append(f, x) \in Seq(S) /\ Append(f, x) # <<>> /\ Len(Append(f, x)) = Len(f) + 1
      /\ Last(Append(f, x)) = x /\ \A i \in 1..Len(f) : Append(f, x)[i] = f[i]
      /\ Append(f, x)[Len(f) + 1] = x
  BY <1>1, PushProperties
<1> HIDE DEF f
<1>3. Len(f) = Len(s) - 1 /\ Len(f) + 1 = Len(s)  BY <1>1 DEF f
<1>4. QED  BY <1>1, <1>2, <1>3 DEF f

----------------------------------------------------------------------------
(***************************************************************************)
(* Types, and what the stack of strings looks like.                         *)
(***************************************************************************)
AllBraces(nest) == \A j \in 1..Len(nest) : nest[j] = "Brace"

\* Of the strings being read, the outer ones are inside an interpolation, where
\* those read in pieces have noted nothing but braces.
TidyString(k) ==
    /\ k < Len(templates) => templates[k].at = "expression"
    /\ templates[k].at # "expression" => templates[k].nest = <<>>
    /\ Pieces => AllBraces(templates[k].nest)

Tidy ==
    /\ \A k \in 1..Len(templates) : TidyString(k)
    /\ templates # <<>> /\ Innermost.at = "open" => pos >= 2 /\ Interpolates(pos - 1)
    /\ templates # <<>> => syntax # "Css" /\ mode \in {"scan", "failed"} /\ (Typed \/ Pieces)
    /\ pairs # <<>> => outermost # 0

TypeInv == TypeOK /\ Tidy

\* The strings being read, when the innermost goes on as x.
LEMMA StringGoesOn ==
    ASSUME TypeInv, templates # <<>>, NEW x \in Template, SetInnermost(x),
           UNCHANGED <<src, scan>>,
           x.at # "expression" => x.nest = <<>>, Pieces => AllBraces(x.nest)
    PROVE  /\ templates' \in Seq(Template) /\ templates' # <<>> /\ Innermost' = x
           /\ Len(templates') = Len(templates)
           /\ \A k \in 1..Len(templates') : TidyString(k)'
<1> DEFINE s == Append(Front(templates), x)
<1>1. templates' = s  BY DEF SetInnermost
<1>2. templates \in Seq(Template)  BY DEF TypeInv, TypeOK
<1>3. /\ s \in Seq(Template) /\ s # <<>> /\ Len(s) = Len(templates) /\ Last(s) = x
      /\ Len(templates) \in Nat /\ Len(templates) >= 1 /\ s[Len(templates)] = x
      /\ \A i \in 1..(Len(templates) - 1) : s[i] = templates[i]
  BY <1>2, TopReplaced
<1> HIDE DEF s
<1>4. Innermost' = x  BY <1>1, <1>3 DEF Innermost
<1>5. Pieces' = Pieces  BY DEF Pieces
<1>6. ASSUME NEW k \in 1..Len(s) PROVE TidyString(k)'
  <2>1. CASE k = Len(s)
    BY <1>1, <1>3, <1>5, <2>1 DEF TidyString, AllBraces
  <2>2. CASE k # Len(s)
    <3>1. k \in 1..(Len(templates) - 1) /\ k \in 1..Len(templates) /\ k < Len(templates)
      BY <1>3, <2>2
    <3>2. TidyString(k) /\ s[k] = templates[k]  BY <1>3, <3>1 DEF TypeInv, Tidy
    <3>3. QED  BY <1>1, <1>3, <1>5, <3>1, <3>2 DEF TidyString, AllBraces
  <2>3. QED  BY <2>1, <2>2
<1>7. QED  BY <1>1, <1>3, <1>4, <1>6

\* A token is taken.
LEMMA Bumped ==
    ASSUME TypeInv, Peek.kind \notin {"eof", "Err"}, Bump(Peek)
    PROVE  /\ pos' = Peek.next /\ Len(src) \in Nat
           /\ pos' \in 1..(Len(src) + 1) /\ pos' >= 2 /\ depth' \in Nat
           /\ Value(Peek) \in Taken /\ values \in Seq(Taken)
           /\ Append(values, Value(Peek)) \in Seq(Taken) /\ Note(Peek) \in Seq(Taken)
<1>1. /\ src \in Seq(Symbol) /\ pos \in 1..(Len(src) + 1) /\ depth \in Nat
      /\ values \in Seq(Taken)
  BY DEF TypeInv, TypeOK
<1>2. /\ Len(src) \in Nat /\ Peek.start \in 1..Len(src)
      /\ Peek.next \in (Peek.start + 1)..(Len(src) + 1) /\ Peek.kind \in TakenKind
  BY <1>1, TokenIs
<1>3. pos' = Peek.next  BY DEF Bump
<1>4. pos' \in 1..(Len(src) + 1) /\ pos' >= 2
  <2> DEFINE n == Peek.next
             i == Peek.start
  <2>1. i \in 1..Len(src) /\ n \in (i + 1)..(Len(src) + 1)  BY <1>2
  <2> HIDE DEF n, i
  <2>2. n \in 1..(Len(src) + 1) /\ n >= 2  BY <1>2, <2>1
  <2>3. QED  BY <1>3, <2>2 DEF n
<1>5. depth' \in Nat
  <2>1. depth' \in {depth, depth + 1, Down(depth)}  BY DEF Bump
  <2>2. QED  BY <1>1, <2>1 DEF Down
<1>6. Value(Peek) \in Taken  BY <1>2 DEF Value, Taken
<1>7. Append(values, Value(Peek)) \in Seq(Taken)  BY <1>1, <1>6, PushProperties
<1>8. QED  BY <1>1, <1>2, <1>3, <1>4, <1>5, <1>6, <1>7 DEF Note

LEMMA TypeInit == Init => TypeInv
<1> SUFFICES ASSUME Init PROVE TypeInv  OBVIOUS
<1>1. /\ src \in Seq(Symbol) /\ syntax \in {"Css", "Scss", "Sass"} /\ scan \in Scan
  BY RawTokensAssumption DEF Init
<1>2. Len(src) \in Nat  BY <1>1, Symbols
<1>3. TypeOK  BY <1>1, <1>2 DEF TypeOK, Init
<1>4. Len(templates) = 0  BY DEF Init
<1>5. Tidy  BY <1>4 DEF Tidy, Init
<1>6. QED  BY <1>3, <1>5 DEF TypeInv

\* Nothing but the mode and the tokens taken.
LEMMA TypeOfRest ==
    ASSUME TypeInv, UNCHANGED <<src, syntax, scan, pos, depth, pairs, outermost, templates>>,
           mode' \in {"scan", "stopped", "done", "failed"},
           templates # <<>> => mode' \in {"scan", "failed"},
           values' \in Seq(Taken), errors' \in Seq(Complaint), important' \in 0..Len(src)
    PROVE  TypeInv'
<1>1. Taken' = Taken /\ Complaint' = Complaint /\ Template' = Template
  BY DEF Taken, Complaint, Template
<1>2. TypeOK'  BY <1>1 DEF TypeInv, TypeOK
<1>3. ASSUME NEW k PROVE TidyString(k)' <=> TidyString(k)
  BY DEF TidyString, AllBraces, Pieces
<1>4. Innermost' = Innermost /\ (Interpolates(pos - 1))' = Interpolates(pos - 1)
  BY DEF Innermost, Interpolates, At
<1>5. Tidy'  BY <1>3, <1>4 DEF TypeInv, Tidy, Typed, Pieces
<1>6. QED  BY <1>2, <1>5 DEF TypeInv

LEMMA TypeFails == ASSUME TypeInv, Fail PROVE TypeInv'
<1>1. values' \in Seq(Taken) /\ errors' \in Seq(Complaint) /\ important' \in 0..Len(src)
  BY DEF TypeInv, TypeOK, Fail
<1>2. QED  BY <1>1, TypeOfRest DEF Fail

\* Outside strings: the pairs change.
LEMMA TypeOfPairs ==
    ASSUME TypeInv, templates = <<>>, UNCHANGED <<src, syntax, scan, templates, important>>,
           pos' \in 1..(Len(src) + 1), depth' \in Nat, pairs' \in Seq(Pair),
           outermost' \in 0..Len(src), pairs' # <<>> => outermost' # 0,
           mode' \in {"scan", "stopped", "done", "failed"},
           values' \in Seq(Taken), errors' \in Seq(Complaint)
    PROVE  TypeInv'
<1>1. Taken' = Taken /\ Complaint' = Complaint /\ Template' = Template
  BY DEF Taken, Complaint, Template
<1>2. TypeOK'  BY <1>1 DEF TypeInv, TypeOK
<1>3. Tidy'  BY DEF TypeInv, Tidy
<1>4. QED  BY <1>2, <1>3 DEF TypeInv

LEMMA TypeStop == ASSUME TypeInv, Stop PROVE TypeInv'
<1>1. /\ errors \in Seq(Complaint) /\ values \in Seq(Taken) /\ important \in 0..Len(src)
      /\ outermost \in 0..Len(src) /\ (pairs # <<>> => outermost # 0)
      /\ src \in Seq(Symbol)
  BY DEF TypeInv, TypeOK, Tidy
<1>2. errors' \in Seq(Complaint)
  <2> DEFINE e == [kind |-> IF Head(pairs) = "Brace" THEN "EofInBlock" ELSE "UnclosedParen",
                   start |-> outermost]
  <2>1. CASE pairs # <<>>
    <3>5. Len(src) \in Nat  BY <1>1, Symbols
    <3>1. outermost \in 1..Len(src)  BY <1>1, <2>1, <3>5
    <3>2. e \in Complaint  BY <3>1 DEF Complaint
    <3>3. errors' = errors \/ errors' = Append(errors, e)  BY DEF Stop
    <3> HIDE DEF e
    <3>4. QED  BY <1>1, <3>2, <3>3, PushProperties
  <2>2. CASE pairs = <<>>  BY <1>1, <2>2 DEF Stop
  <2>3. QED  BY <2>1, <2>2
<1>3. QED  BY <1>1, <1>2, TypeOfRest DEF Stop, Scanning

LEMMA TypeStopAtCloser == ASSUME TypeInv, StopAtCloser PROVE TypeInv'
<1>1. pairs \in Seq(Pair) /\ Peek.kind \in Closer
  BY DEF TypeInv, TypeOK, StopAtCloser, Passes
<1>2. pairs' \in Seq(Pair) /\ (pairs' # <<>> => pairs # <<>>)
  BY <1>1, TrackType DEF StopAtCloser
<1>3. QED  BY <1>2, TypeOfPairs DEF StopAtCloser, Scanning, TypeInv, TypeOK, Tidy

LEMMA TypeTakeToken == ASSUME TypeInv, TakeToken PROVE TypeInv'
<1> DEFINE t == Peek
<1>1. /\ src \in Seq(Symbol) /\ pos \in 1..(Len(src) + 1) /\ pairs \in Seq(Pair)
      /\ outermost \in 0..Len(src) /\ errors \in Seq(Complaint)
      /\ pairs # <<>> => outermost # 0
  BY DEF TypeInv, TypeOK, Tidy
<1>2. t.kind \notin {"eof", "Err"} /\ Bump(t)  BY DEF TakeToken, Ends, EndsAnywhere
<1>3. /\ pos' \in 1..(Len(src) + 1) /\ depth' \in Nat /\ values' \in Seq(Taken)
  BY <1>2, Bumped DEF TakeToken
<1>4. t.start \in 1..Len(src) /\ Len(src) \in Nat  BY <1>1, <1>2, TokenIs
<1>5. /\ pairs' \in {pairs, Track(pairs, t.kind)} /\ outermost' \in {outermost, Outermost(t)}
      /\ pairs' = pairs => outermost' \in {outermost, t.start}
      /\ pairs' # pairs => outermost' = Outermost(t)
  BY DEF TakeToken, Outermost
<1>6. errors' \in Seq(Complaint)
  <2> DEFINE e == [kind |-> IF t.next > Len(src) /\ Last(src) \notin LineBreak
                              THEN "UnterminatedString" ELSE "BadString",
                   start |-> t.start]
  <2>1. e \in Complaint  BY <1>4 DEF Complaint
  <2>2. errors' = errors \o <<e>> \/ errors' = errors \o <<>>  BY DEF TakeToken, BadString
  <2> HIDE DEF e
  <2>3. <<e>> \in Seq(Complaint) /\ <<>> \in Seq(Complaint)  BY <2>1
  <2>4. QED  BY <1>1, <2>2, <2>3, ConcatProperties
<1> HIDE DEF t
<1>7. pairs' \in Seq(Pair)  BY <1>1, <1>5, TrackType
<1>8. outermost' \in 0..Len(src)  BY <1>1, <1>4, <1>5 DEF Outermost
<1>9. pairs' # <<>> => outermost' # 0
  <2>1. CASE pairs # <<>>
    BY <1>1, <1>4, <1>5, <2>1 DEF Outermost
  <2>2. CASE pairs = <<>> /\ t.kind \in Opener
    <3>1. Outermost(t) = t.start  BY <2>2 DEF Outermost
    <3>4. Track(pairs, t.kind) = Append(pairs, PairOf[t.kind]) /\ PairOf[t.kind] \in Pair
      BY <1>1, <2>2, TrackType
    <3>2. Track(pairs, t.kind) # <<>>  BY <1>1, <3>4, PushProperties
    <3>3. QED  BY <1>4, <1>5, <2>2, <3>1
  <2>3. CASE pairs = <<>> /\ t.kind \notin Opener
    <3>1. Track(pairs, t.kind) = <<>>  BY <2>3 DEF Track
    <3>2. QED  BY <1>5, <2>3, <3>1
  <2>4. QED  BY <2>1, <2>2, <2>3
<1>10. QED
  BY <1>3, <1>6, <1>7, <1>8, <1>9, TypeOfPairs DEF TakeToken, Scanning, TypeInv, TypeOK

\* Inside strings: everything but the strings, the cursor and the tokens stays.
LEMMA TypeOfStrings ==
    ASSUME TypeInv, UNCHANGED <<src, syntax, scan, pairs, outermost, errors, mode, important>>,
           pos' \in 1..(Len(src) + 1), depth' \in Nat, values' \in Seq(Taken),
           templates' \in Seq(Template), \A k \in 1..Len(templates') : TidyString(k)',
           templates' # <<>> => syntax # "Css" /\ mode = "scan",
           templates = <<>> => Typed \/ Pieces,
           templates' # <<>> /\ Innermost'.at = "open" => pos' >= 2 /\ Interpolates(pos' - 1)
    PROVE  TypeInv'
<1>1. Taken' = Taken /\ Complaint' = Complaint /\ Template' = Template
  BY DEF Taken, Complaint, Template
<1>2. TypeOK'  BY <1>1 DEF TypeInv, TypeOK
<1>3. (Interpolates(pos - 1))' <=> Interpolates(pos' - 1)  BY DEF Interpolates, At
<1>4. Tidy'  BY <1>3 DEF TypeInv, Tidy, Typed, Pieces
<1>5. QED  BY <1>2, <1>4 DEF TypeInv

LEMMA TypeBeginTemplate == ASSUME TypeInv, BeginTemplate PROVE TypeInv'
<1> DEFINE x == [quote |-> At(Peek.start), start |-> Peek.start, at |-> "open", nest |-> <<>>,
                 from |-> 0]
<1>1. /\ src \in Seq(Symbol) /\ pos \in 1..(Len(src) + 1) /\ templates \in Seq(Template)
      /\ \A k \in 1..Len(templates) : TidyString(k)
      /\ Peek.kind = "StrTemplate" /\ Bump(Peek) /\ mode = "scan"
      /\ templates' = Append(templates, x)
      /\ templates # <<>> => Innermost.at = "expression"
      /\ Typed \/ Pieces
  BY DEF TypeInv, TypeOK, Tidy, BeginTemplate
<1>2. /\ src[Peek.start] \in Quote /\ Interpolates(Peek.next - 1) /\ syntax # "Css"
      /\ Peek.start \in 1..Len(src)
  BY <1>1, OddKinds, TokenIs
<1>3. /\ pos' = Peek.next /\ pos' \in 1..(Len(src) + 1) /\ pos' >= 2 /\ depth' \in Nat
      /\ values' \in Seq(Taken)
  BY <1>1, Bumped DEF BeginTemplate
<1>4. x \in Template
  BY <1>1, <1>2, Symbols DEF Template
<1> HIDE DEF x
<1>5. /\ templates' \in Seq(Template) /\ templates' # <<>> /\ Len(templates') = Len(templates) + 1
      /\ Last(templates') = x /\ templates'[Len(templates) + 1] = x
      /\ \A i \in 1..Len(templates) : templates'[i] = templates[i]
  BY <1>1, <1>4, PushProperties
<1>6. Len(templates) \in Nat  BY <1>1, LenProperties
<1>7. x.at = "open" /\ x.nest = <<>> /\ Len(x.nest) = 0  BY DEF x
<1>8. Pieces' = Pieces  BY DEF Pieces, BeginTemplate
<1>9. ASSUME NEW k \in 1..Len(templates') PROVE TidyString(k)'
  <2>1. CASE k = Len(templates) + 1
    BY <1>5, <1>6, <1>7, <2>1 DEF TidyString, AllBraces
  <2>2. CASE k # Len(templates) + 1
    <3>1. k \in 1..Len(templates)  BY <1>5, <1>6, <2>2
    <3>2. TidyString(k) /\ templates'[k] = templates[k]  BY <1>1, <1>5, <3>1
    <3>3. k = Len(templates) => templates[k].at = "expression"
      BY <1>1, <1>6, <3>1, EmptySeq DEF Innermost, Last
    <3>4. k # Len(templates) => k < Len(templates)  BY <1>6, <3>1
    <3>5. QED  BY <1>8, <3>2, <3>3, <3>4 DEF TidyString, AllBraces
  <2>3. QED  BY <2>1, <2>2
<1>10. UNCHANGED <<src, syntax, scan, pairs, outermost, errors, mode, important>>
  BY DEF BeginTemplate
<1>11. QED  BY <1>1, <1>2, <1>3, <1>5, <1>9, <1>10, TypeOfStrings

\* What stands behind the `#` of an interpolation.
LEMMA BraceOfHash ==
    ASSUME TypeInv, templates # <<>>, Innermost.at = "open"
    PROVE  /\ Peek.kind = "lbrace" /\ Peek.start = pos /\ Peek.next = pos + 1
           /\ src[pos] = "lbrace" /\ src[pos - 1] = "hash" /\ Interpolates(pos - 1)
           /\ pos \in 1..Len(src) /\ pos >= 2 /\ pos \in Nat /\ Len(src) \in Nat
<1>1. /\ src \in Seq(Symbol) /\ pos \in 1..(Len(src) + 1)
      /\ pos >= 2 /\ Interpolates(pos - 1)
  BY DEF TypeInv, TypeOK, Tidy
<1>2. Len(src) \in Nat /\ pos \in Nat /\ pos - 1 \in Nat /\ pos - 1 >= 1 /\ (pos - 1) + 1 = pos
  BY <1>1, Symbols
<1>3. src[pos] = "lbrace" /\ src[pos - 1] = "hash" /\ pos \in 1..Len(src)
  <2> DEFINE n == pos - 1
  <2>1. Interpolates(n) /\ n \in Nat /\ n >= 1 /\ n + 1 = pos  BY <1>1, <1>2
  <2> HIDE DEF n
  <2>2. n + 1 \in 1..Len(src) /\ src[n] = "hash" /\ src[n + 1] = "lbrace"
    BY <1>1, <2>1, InterpolationIs
  <2>3. QED  BY <2>1, <2>2 DEF n
<1>4. Peek.start = pos
  <2> DEFINE i == Peek.start
  <2>1. /\ i \in pos..(Len(src) + 1)
        /\ \A k \in pos..(i - 1) : src[k] \in LineBreak
    BY <1>1, NextToken
  <2> HIDE DEF i
  <2>2. i # pos => pos \in pos..(i - 1)  BY <1>2, <2>1
  <2>3. i = pos  BY <1>3, <2>1, <2>2 DEF LineBreak
  <2>4. QED  BY <2>3 DEF i
<1>5. Simple(Peek)
  <2>1. pos # Len(src) + 1 /\ src[pos] \notin Quote /\ ~Interpolates(pos)
    BY <1>1, <1>2, <1>3, Symbols DEF Interpolates, Quote
  <2>2. \/ Peek.start = Len(src) + 1
        \/ Simple(Peek) \/ Brace2(Peek) \/ \E e \in Nat : StringTo(Peek, e)
    BY <1>1, NextToken
  <2>3. QED  BY <1>4, <2>1, <2>2 DEF Brace2, StringTo
<1>6. QED  BY <1>1, <1>2, <1>3, <1>4, <1>5 DEF Simple

LEMMA TypeOpenInterpolation == ASSUME TypeInv, OpenInterpolation PROVE TypeInv'
<1> DEFINE x == [Innermost EXCEPT !.at = "expression", !.from = Peek.next]
<1>1. /\ templates \in Seq(Template) /\ templates # <<>> /\ mode = "scan"
      /\ Bump(Peek) /\ Innermost.at = "open" /\ SetInnermost(x)
      /\ UNCHANGED <<src, syntax, scan, pairs, outermost, errors, mode, important>>
  BY DEF TypeInv, TypeOK, OpenInterpolation
<1>2. Innermost \in Template /\ Innermost.nest = <<>> /\ syntax # "Css"
  <2>1. Innermost = templates[Len(templates)] /\ Len(templates) \in 1..Len(templates)
        /\ Innermost \in Template
    BY <1>1, PopProperties DEF Innermost
  <2>2. QED  BY <1>1, <2>1 DEF TypeInv, Tidy, TidyString
<1>3. Peek.kind = "lbrace" /\ Peek.next \in Nat  BY <1>1, BraceOfHash
<1>4. /\ pos' \in 1..(Len(src) + 1) /\ pos' >= 2 /\ depth' \in Nat
      /\ values' \in Seq(Taken)
  BY <1>1, <1>3, Bumped DEF OpenInterpolation
<1>5. x \in Template /\ x.at = "expression" /\ x.nest = <<>>  BY <1>2, <1>3 DEF Template
<1> HIDE DEF x
<1>6. AllBraces(x.nest)  BY <1>5 DEF AllBraces
<1>7. /\ templates' \in Seq(Template) /\ templates' # <<>> /\ Innermost' = x
      /\ \A k \in 1..Len(templates') : TidyString(k)'
  BY <1>1, <1>5, <1>6, StringGoesOn
<1>8. Innermost'.at # "open"  BY <1>5, <1>7
<1>9. QED  BY <1>1, <1>2, <1>4, <1>7, <1>8, TypeOfStrings

LEMMA InnermostType ==
    ASSUME TypeInv, templates # <<>>
    PROVE  /\ templates \in Seq(Template) /\ Innermost \in Template /\ syntax # "Css"
           /\ Typed \/ Pieces
           /\ Len(templates) \in Nat /\ Len(templates) >= 1
           /\ Innermost = templates[Len(templates)]
           /\ Innermost.quote \in Quote /\ Innermost.start \in 1..Len(src)
           /\ Innermost.nest \in Seq(Pair)
           /\ Innermost.at # "expression" => Innermost.nest = <<>>
           /\ Pieces => AllBraces(Innermost.nest)
<1>1. templates \in Seq(Template)  BY DEF TypeInv, TypeOK
<1>2. /\ Len(templates) \in Nat /\ Len(templates) >= 1 /\ Innermost \in Template
      /\ Innermost = templates[Len(templates)]
  BY <1>1, PopProperties DEF Innermost
<1>3. TidyString(Len(templates))  BY <1>2 DEF TypeInv, Tidy
<1>4. QED  BY <1>1, <1>2, <1>3 DEF TypeInv, Tidy, TidyString, Template

LEMMA TypeTakeOfExpression == ASSUME TypeInv, TakeOfExpression PROVE TypeInv'
<1> DEFINE kind == Nested(Peek.kind)
           x == [Innermost EXCEPT !.nest = Track(@, kind)]
<1>1. /\ templates # <<>> /\ mode = "scan" /\ Innermost.at = "expression"
      /\ Peek.kind \notin {"Err", "eof"} /\ Bump(Peek) /\ SetInnermost(x)
      /\ UNCHANGED <<src, syntax, scan, pairs, outermost, errors, mode, important>>
      /\ values' = Note(Peek)
  BY DEF TakeOfExpression, InExpression
<1>2. /\ Innermost \in Template /\ Innermost.nest \in Seq(Pair) /\ syntax # "Css"
      /\ Pieces => AllBraces(Innermost.nest)
  BY <1>1, InnermostType
<1>3. /\ pos' \in 1..(Len(src) + 1) /\ pos' >= 2 /\ depth' \in Nat /\ values' \in Seq(Taken)
  BY <1>1, Bumped
<1> DEFINE nest == Innermost.nest
<1>4. /\ Track(nest, kind) \in Seq(Pair)
      /\ kind \in Opener => Track(nest, kind) = Append(nest, PairOf[kind]) /\ PairOf[kind] \in Pair
      /\ kind \in Closer => Track(nest, kind) = IF nest = <<>> THEN nest ELSE Front(nest)
      /\ kind \notin Opener \cup Closer => Track(nest, kind) = nest
  BY <1>2, TrackType
<1>5. x = [Innermost EXCEPT !.nest = Track(nest, kind)]  OBVIOUS
<1>6. x \in Template /\ x.at = "expression" /\ x.nest = Track(nest, kind)
  BY <1>1, <1>2, <1>4, <1>5 DEF Template
<1>7. ASSUME Pieces PROVE AllBraces(x.nest)
  <2>1. AllBraces(nest) /\ nest \in Seq(Pair)  BY <1>2, <1>7
  <2>2. kind \in Opener => PairOf[kind] = "Brace"
    BY <1>7 DEF Nested, PairOf, Opener, Closer, Braces
  <2> HIDE DEF x, kind, nest
  <2>3. CASE kind \in Opener
    <3>1. /\ Len(x.nest) = Len(nest) + 1 /\ x.nest[Len(nest) + 1] = "Brace"
          /\ \A i \in 1..Len(nest) : x.nest[i] = nest[i]
          /\ Len(nest) \in Nat
      BY <1>4, <1>6, <2>1, <2>2, <2>3, PushProperties, LenProperties
    <3>2. QED  BY <2>1, <3>1 DEF AllBraces
  <2>4. CASE kind \in Closer /\ nest # <<>>
    <3>1. /\ Len(x.nest) = Len(nest) - 1 /\ Len(nest) \in Nat
          /\ \A i \in 1..(Len(nest) - 1) : x.nest[i] = nest[i]
      BY <1>4, <1>6, <2>1, <2>4, PopProperties
    <3>2. QED  BY <2>1, <3>1 DEF AllBraces
  <2>5. CASE ~(kind \in Opener) /\ ~(kind \in Closer /\ nest # <<>>)
    <3>1. x.nest = nest  BY <1>4, <1>6, <2>5
    <3>2. QED  BY <2>1, <3>1
  <2>6. QED  BY <2>3, <2>4, <2>5
<1> HIDE DEF x, kind
<1>8. /\ templates' \in Seq(Template) /\ templates' # <<>> /\ Innermost' = x
      /\ \A k \in 1..Len(templates') : TidyString(k)'
  BY <1>1, <1>6, <1>7, StringGoesOn
<1>9. Innermost'.at # "open"  BY <1>6, <1>8
<1>10. QED  BY <1>1, <1>2, <1>3, <1>8, <1>9, TypeOfStrings

LEMMA TypeCloseInterpolation == ASSUME TypeInv, CloseInterpolation PROVE TypeInv'
<1> DEFINE x == [Innermost EXCEPT !.at = "piece"]
<1>1. /\ templates # <<>> /\ mode = "scan" /\ Innermost.nest = <<>>
      /\ Peek.kind = "rbrace" /\ Bump(Peek) /\ SetInnermost(x)
      /\ UNCHANGED <<src, syntax, scan, pairs, outermost, errors, mode, important>>
      /\ values' = Note(Peek)
  BY DEF CloseInterpolation, InExpression
<1>2. Innermost \in Template /\ syntax # "Css" /\ (Pieces => AllBraces(Innermost.nest))
  BY <1>1, InnermostType
<1>3. /\ pos' \in 1..(Len(src) + 1) /\ pos' >= 2 /\ depth' \in Nat /\ values' \in Seq(Taken)
  BY <1>1, Bumped
<1>4. x \in Template /\ x.at = "piece" /\ x.nest = <<>>  BY <1>1, <1>2 DEF Template
<1>5. x.nest = Innermost.nest  BY <1>1, <1>4
<1> HIDE DEF x
<1>6. /\ templates' \in Seq(Template) /\ templates' # <<>> /\ Innermost' = x
      /\ \A k \in 1..Len(templates') : TidyString(k)'
  BY <1>1, <1>2, <1>4, <1>5, StringGoesOn
<1>7. Innermost'.at # "open"  BY <1>4, <1>6
<1>8. QED  BY <1>1, <1>2, <1>3, <1>6, <1>7, TypeOfStrings

LEMMA TypeEofInTemplate == ASSUME TypeInv, EofInTemplate PROVE TypeInv'
<1>1. /\ templates' = <<>> /\ pos' \in 1..(Len(src) + 1) /\ depth' \in Nat
      /\ values' \in Seq(Taken) /\ Pieces
      /\ UNCHANGED <<src, syntax, scan, pairs, outermost, errors, mode, important>>
  BY DEF EofInTemplate, TypeInv, TypeOK
<1>2. templates' \in Seq(Template) /\ \A k \in 1..Len(templates') : TidyString(k)'
  BY <1>1
<1>3. QED  BY <1>1, <1>2, TypeOfStrings

\* The static piece behind an interpolation.
LEMMA PieceIs ==
    ASSUME TypeInv, templates # <<>>
    PROVE  /\ Piece \in pos..(Len(src) + 1) /\ Piece \in Nat /\ Piece >= 1
           /\ Len(src) \in Nat /\ pos \in Nat /\ pos >= 1
           /\ Piece <= Len(src) => src[Piece] \in LineBreak \cup {Innermost.quote} \/ Interpolates(Piece)
           /\ \A k \in pos..(Piece - 1) : /\ k \in 1..Len(src)
                                          /\ src[k] \notin LineBreak \cup {Innermost.quote}
                                          /\ ~Interpolates(k)
           /\ At(Piece) = Innermost.quote \/ Interpolates(Piece) => Piece \in 1..Len(src)
<1>1. src \in Seq(Symbol) /\ pos \in 1..(Len(src) + 1)  BY DEF TypeInv, TypeOK
<1>2. Innermost.quote \in Quote  BY InnermostType
<1>3. Len(src) \in Nat /\ pos \in Nat /\ pos >= 1  BY <1>1, Symbols
<1> DEFINE q == Innermost.quote
           e == PieceEnd(q, pos)
<1>4. /\ e \in pos..(Len(src) + 1)
      /\ e <= Len(src) => src[e] \in LineBreak \cup {q} \/ Interpolates(e)
      /\ \A k \in pos..(e - 1) : /\ k \in 1..Len(src)
                                 /\ src[k] \notin LineBreak \cup {q}
                                 /\ ~Interpolates(k)
  BY <1>1, <1>2, PieceEnds
<1>5. Piece = e  BY DEF Piece
<1> HIDE DEF e
<1>6. e \in Nat /\ e >= 1  BY <1>3, <1>4
<1>7. At(e) = q \/ Interpolates(e) => e \in 1..Len(src)
  <2>1. CASE e = Len(src) + 1
    BY <1>1, <1>2, <2>1, Symbols DEF Interpolates, Quote
  <2>2. CASE e # Len(src) + 1  BY <1>3, <1>4, <1>6, <2>2
  <2>3. QED  BY <2>1, <2>2
<1>8. QED  BY <1>3, <1>4, <1>5, <1>6, <1>7

LEMMA TypeScanPiece == ASSUME TypeInv, ScanPiece PROVE TypeInv'
<1>1. /\ templates # <<>> /\ mode = "scan" /\ Innermost.at = "piece"
      /\ At(Piece) = Innermost.quote \/ Interpolates(Piece)
      /\ pos' = Piece + 1 /\ depth' = depth
      /\ UNCHANGED <<src, syntax, scan, pairs, outermost, errors, mode, important>>
  BY DEF ScanPiece, InPiece
<1>2. /\ templates \in Seq(Template) /\ Innermost \in Template /\ syntax # "Css"
      /\ Len(templates) \in Nat /\ Len(templates) >= 1
      /\ Innermost.nest = <<>> /\ Innermost.start \in 1..Len(src)
  BY <1>1, InnermostType
<1>3. /\ Piece \in 1..Len(src) /\ Piece \in Nat /\ Len(src) \in Nat /\ pos \in Nat
      /\ Piece \in pos..(Len(src) + 1) /\ pos >= 1
  BY <1>1, PieceIs
<1>4. pos' \in 1..(Len(src) + 1) /\ pos' >= 2 /\ pos' - 1 = Piece /\ pos \in 1..Len(src)
  <2> DEFINE e == Piece
  <2>1. e \in 1..Len(src) /\ e \in Nat /\ e \in pos..(Len(src) + 1) /\ pos' = e + 1
    BY <1>1, <1>3
  <2> HIDE DEF e
  <2>2. pos' \in 1..(Len(src) + 1) /\ pos' >= 2 /\ pos' - 1 = e /\ pos \in 1..Len(src)
    BY <1>3, <2>1
  <2>3. QED  BY <2>2 DEF e
<1>5. depth' \in Nat /\ values \in Seq(Taken)  BY <1>1 DEF TypeInv, TypeOK
<1>6. values' \in Seq(Taken)
  <2>1. \A kind \in TakenKind : \A i \in 1..Len(src) :
          [kind |-> kind, start |-> i] \in Taken
    BY DEF Taken
  <2>2. "StrTail" \in TakenKind /\ "StrPiece" \in TakenKind /\ "InterpolableStr" \in TakenKind
    BY DEF TakenKind
  <2>3. \/ values' = values
        \/ values' = Append(values, [kind |-> "StrTail", start |-> pos])
        \/ values' = Append(values, [kind |-> "StrPiece", start |-> pos])
        \/ values' = Append(values, [kind |-> "InterpolableStr", start |-> Innermost.start])
    BY DEF ScanPiece, Pieces, Typed
  <2>4. /\ [kind |-> "StrTail", start |-> pos] \in Taken
        /\ [kind |-> "StrPiece", start |-> pos] \in Taken
        /\ [kind |-> "InterpolableStr", start |-> Innermost.start] \in Taken
    BY <1>2, <1>4, <2>1, <2>2
  <2>5. \A v \in Taken : Append(values, v) \in Seq(Taken)  BY <1>5, PushProperties
  <2>6. QED  BY <1>5, <2>3, <2>4, <2>5
<1>7. CASE At(Piece) = Innermost.quote
  <2>1. templates' = Front(templates)  BY <1>7 DEF ScanPiece
  <2>2. /\ templates' \in Seq(Template) /\ Len(templates') = Len(templates) - 1
        /\ \A i \in 1..(Len(templates) - 1) : templates'[i] = templates[i]
    BY <1>1, <1>2, <2>1, PopProperties
  <2>3. Pieces' = Pieces  BY <1>1 DEF Pieces
  <2>4. ASSUME NEW k \in 1..Len(templates')
        PROVE  TidyString(k)' /\ templates'[k].at = "expression"
    <3>1. /\ k \in 1..Len(templates) /\ k < Len(templates)
          /\ k \in 1..(Len(templates) - 1)
      BY <1>2, <2>2
    <3>2. TidyString(k) /\ templates'[k] = templates[k]  BY <2>2, <3>1 DEF TypeInv, Tidy
    <3>3. QED  BY <2>3, <3>1, <3>2 DEF TidyString, AllBraces
  <2>5. templates' # <<>> => Innermost'.at # "open"
    <3>1. ASSUME templates' # <<>> PROVE Innermost'.at # "open"
      <4>1. Innermost' = templates'[Len(templates')]  BY DEF Innermost, Last
      <4>2. Len(templates') \in Nat /\ Len(templates') # 0
        BY <2>2, <3>1, EmptySeq, LenProperties
      <4>3. QED  BY <2>4, <4>1, <4>2
    <3>2. QED  BY <3>1
  <2>6. QED  BY <1>1, <1>2, <1>4, <1>5, <1>6, <2>2, <2>4, <2>5, TypeOfStrings
<1>8. CASE At(Piece) # Innermost.quote
  <2> DEFINE x == [Innermost EXCEPT !.at = "open"]
  <2>1. SetInnermost(x)  BY <1>8 DEF ScanPiece
  <2>2. x \in Template /\ x.nest = <<>>  BY <1>2 DEF Template
  <2>3. AllBraces(x.nest)  BY <2>2 DEF AllBraces
  <2> HIDE DEF x
  <2>4. /\ templates' \in Seq(Template) /\ templates' # <<>> /\ Innermost' = x
        /\ \A k \in 1..Len(templates') : TidyString(k)'
    BY <1>1, <2>1, <2>2, <2>3, StringGoesOn
  <2>5. Interpolates(pos' - 1)  BY <1>1, <1>4, <1>8
  <2>6. QED  BY <1>1, <1>2, <1>4, <1>5, <1>6, <2>4, <2>5, TypeOfStrings
<1>9. QED  BY <1>7, <1>8

LEMMA TypeOpenArgs == ASSUME TypeInv, OpenArgs PROVE TypeInv'
<1>1. /\ mode = "stopped" /\ Peek.kind = "lparen" /\ Bump(Peek) /\ pairs' = <<>>
      /\ scan' = "args" /\ mode' = "scan"
      /\ UNCHANGED <<src, syntax, outermost, templates, values, errors, important>>
  BY DEF OpenArgs
<1>2. pos' \in 1..(Len(src) + 1) /\ depth' \in Nat  BY <1>1, Bumped
<1>3. templates = <<>>  BY <1>1 DEF TypeInv, Tidy
<1>4. Taken' = Taken /\ Complaint' = Complaint /\ Template' = Template
  BY <1>1 DEF Taken, Complaint, Template
<1>5. TypeOK'  BY <1>1, <1>2, <1>4 DEF TypeInv, TypeOK, Scan
<1>6. Tidy'  BY <1>1, <1>3 DEF Tidy
<1>7. QED  BY <1>5, <1>6 DEF TypeInv

LEMMA TypeTakeRawImportant == ASSUME TypeInv, TakeRawImportant PROVE TypeInv'
<1>1. /\ values \in Seq(Taken) /\ errors' \in Seq(Complaint) /\ important \in 0..Len(src)
      /\ src \in Seq(Symbol) /\ mode = "stopped" /\ mode' = "done"
      /\ UNCHANGED <<src, syntax, scan, pos, depth, pairs, outermost, templates>>
      /\ \/ UNCHANGED <<important, values>>
         \/ /\ Len(values) >= 2
            /\ important' = values[Len(values) - 1].start
            /\ values' = SubSeq(values, 1, Len(values) - 2)
  BY DEF TypeInv, TypeOK, TakeRawImportant, RawImportant, EndsImportant
<1>2. templates = <<>>  BY <1>1 DEF TypeInv, Tidy
<1>3. values' \in Seq(Taken) /\ important' \in 0..Len(src)
  <2>1. CASE UNCHANGED <<important, values>>  BY <1>1, <2>1
  <2>2. CASE /\ Len(values) >= 2
             /\ important' = values[Len(values) - 1].start
             /\ values' = SubSeq(values, 1, Len(values) - 2)
    <3> DEFINE n == Len(values)
    <3>1. n \in Nat /\ n >= 2 /\ Len(src) \in Nat  BY <1>1, <2>2, Symbols, LenProperties
    <3> HIDE DEF n
    <3>2. n - 1 \in 1..n /\ n - 2 \in 0..n /\ \A i \in 1..(n - 2) : i \in 1..n  BY <3>1
    <3>3. values[n - 1] \in Taken /\ \A i \in 1..(n - 2) : values[i] \in Taken
      BY <1>1, <3>2, ElementOfSeq DEF n
    <3>4. important' \in 0..Len(src)  BY <2>2, <3>1, <3>3 DEF n, Taken
    <3>5. SubSeq(values, 1, n - 2) \in Seq(Taken)
      <4> DEFINE m == n - 2
      <4>1. m \in 0..n /\ \A i \in 1..m : values[i] \in Taken  BY <3>2, <3>3
      <4> HIDE DEF m
      <4>2. SubSeq(values, 1, m) \in Seq(Taken)
        BY <1>1, <3>1, <4>1, SubSeqProperties
      <4>3. QED  BY <4>2 DEF m
    <3>6. QED  BY <2>2, <3>4, <3>5 DEF n
  <2>3. QED  BY <1>1, <2>1, <2>2
<1>4. QED  BY <1>1, <1>2, <1>3, TypeOfRest

LEMMA TypeReturn == ASSUME TypeInv, Return PROVE TypeInv'
<1>1. templates = <<>>  BY DEF TypeInv, Tidy, Return
<1>2. QED  BY <1>1, TypeOfRest DEF Return, TypeInv, TypeOK

LEMMA TypeStep == ASSUME TypeInv, [Next]_vars PROVE TypeInv'
<1>1. ASSUME TokenizerFails \/ Reject \/ RejectExpression \/ PieceFails \/ CallerRejects
      PROVE TypeInv'
  BY <1>1, TypeFails DEF TokenizerFails, Reject, RejectExpression, PieceFails, CallerRejects
<1>2. CASE UNCHANGED vars
  <2>1. UNCHANGED <<src, syntax, scan, pos, depth, pairs, outermost, templates, values, errors,
                    mode, important>>
    BY <1>2 DEF vars
  <2>2. TypeOK'  BY <2>1 DEF TypeInv, TypeOK, Taken, Complaint, Template
  <2>3. QED  BY <2>1, TypeOfRest DEF TypeInv, TypeOK, Tidy
<1>3. QED
  BY <1>1, <1>2, TypeStop, TypeStopAtCloser, TypeTakeToken, TypeBeginTemplate,
     TypeOpenInterpolation, TypeTakeOfExpression, TypeCloseInterpolation, TypeEofInTemplate,
     TypeScanPiece, TypeOpenArgs, TypeTakeRawImportant, TypeReturn
  DEF Next

\* Every variable keeps its type, for every source, loop and dialect; so does the
\* stack of the interpolated strings being read: the outer ones are inside an
\* interpolation, and a depth never falls below zero.
THEOREM TypeCorrect == Spec => []TypeOK
<1>1. Init => TypeInv  BY TypeInit
<1>2. TypeInv /\ [Next]_vars => TypeInv'  BY TypeStep
<1>3. TypeInv => TypeOK  BY DEF TypeInv
<1>4. QED  BY <1>1, <1>2, <1>3, PTL DEF Spec

----------------------------------------------------------------------------
(***************************************************************************)
(* The loops end: a step that does not move the cursor leaves a loop.        *)
(***************************************************************************)
Rank == CASE mode = "scan"    -> IF templates = <<>> THEN 2 ELSE 3
          [] mode = "stopped" -> 1
          [] OTHER            -> 0

LEMMA BudgetFalls ==
    ASSUME TypeInv, TypeInv', src' = src, pos' > pos \/ (pos' = pos /\ Rank' < Rank)
    PROVE  Budget' \in Nat /\ Budget' < Budget
<1>1. /\ src \in Seq(Symbol) /\ pos \in 1..(Len(src) + 1) /\ pos' \in 1..(Len(src) + 1)
      /\ Len(src) \in Nat
  BY Symbols DEF TypeInv, TypeOK
<1>2. Rank \in 0..3 /\ Rank' \in 0..3  BY DEF Rank
<1>3. Budget = 4 * (Len(src) + 1 - pos) + Rank /\ Budget' = 4 * (Len(src) + 1 - pos') + Rank'
  BY DEF Budget, Rank
<1> HIDE DEF Rank
<1>4. QED  BY <1>1, <1>2, <1>3

\* A token that is not Eof takes the cursor further.
LEMMA BumpAdvances ==
    ASSUME TypeInv, Peek.kind \notin {"eof", "Err"}, Bump(Peek)
    PROVE  pos' > pos
<1>1. src \in Seq(Symbol) /\ pos \in 1..(Len(src) + 1)  BY DEF TypeInv, TypeOK
<1> DEFINE n == Peek.next
           i == Peek.start
<1>2. /\ pos \in Nat /\ i \in Nat /\ n \in Nat /\ pos <= i /\ Len(src) \in Nat
      /\ n \in (i + 1)..(Len(src) + 1)
  BY <1>1, TokenIs
<1>3. pos' = n  BY DEF Bump
<1> HIDE DEF n, i
<1>4. QED  BY <1>2, <1>3

LEMMA BudgetStep == ASSUME TypeInv, Next PROVE Budget' \in Nat /\ Budget' < Budget
<1>1. TypeInv'  BY TypeStep
<1>2. SUFFICES src' = src /\ (pos' > pos \/ (pos' = pos /\ Rank' < Rank))
  BY <1>1, BudgetFalls
<1>3. ASSUME TokenizerFails \/ Reject \/ RejectExpression \/ PieceFails \/ CallerRejects
      PROVE  src' = src /\ pos' = pos /\ Rank' < Rank
  <2>1. mode \in {"scan", "stopped"} /\ mode' = "failed" /\ src' = src /\ pos' = pos
    BY <1>3 DEF TokenizerFails, Reject, RejectExpression, PieceFails, CallerRejects, Fail,
                Scanning, InExpression, InPiece
  <2>2. QED  BY <2>1 DEF Rank
<1>4. ASSUME Stop \/ StopAtCloser \/ TakeRawImportant \/ Return
      PROVE  src' = src /\ pos' = pos /\ Rank' < Rank
  <2>1. /\ src' = src /\ pos' = pos
        /\ \/ mode = "scan" /\ mode' = "stopped"
           \/ mode = "stopped" /\ mode' = "done"
    BY <1>4 DEF Stop, StopAtCloser, TakeRawImportant, Return, Scanning
  <2>2. QED  BY <2>1 DEF Rank
<1>5. CASE TakeToken
  <2>1. src' = src /\ Bump(Peek) /\ Peek.kind \notin {"eof", "Err"}
    BY <1>5 DEF TakeToken, Ends, EndsAnywhere
  <2>2. QED  BY <2>1, BumpAdvances
<1>6. CASE BeginTemplate
  <2>1. src' = src /\ Bump(Peek) /\ Peek.kind = "StrTemplate"  BY <1>6 DEF BeginTemplate
  <2>2. QED  BY <2>1, BumpAdvances
<1>7. CASE OpenInterpolation
  <2>1. src' = src /\ Bump(Peek) /\ templates # <<>> /\ Innermost.at = "open"
    BY <1>7 DEF OpenInterpolation
  <2>2. Peek.kind = "lbrace"  BY <2>1, BraceOfHash
  <2>3. QED  BY <2>1, <2>2, BumpAdvances
<1>8. CASE TakeOfExpression
  <2>1. src' = src /\ Bump(Peek) /\ Peek.kind \notin {"eof", "Err"}
    BY <1>8 DEF TakeOfExpression
  <2>2. QED  BY <2>1, BumpAdvances
<1>9. CASE CloseInterpolation
  <2>1. src' = src /\ Bump(Peek) /\ Peek.kind = "rbrace"  BY <1>9 DEF CloseInterpolation
  <2>2. QED  BY <2>1, BumpAdvances
<1>10. CASE EofInTemplate
  <2>1. /\ src' = src /\ pos' = pos /\ mode = "scan" /\ mode' = mode
        /\ templates # <<>> /\ templates' = <<>>
    BY <1>10 DEF EofInTemplate, InExpression
  <2>2. QED  BY <2>1 DEF Rank
<1>11. CASE ScanPiece
  <2>1. src' = src /\ pos' = Piece + 1 /\ templates # <<>>  BY <1>11 DEF ScanPiece, InPiece
  <2>2. Piece \in pos..(Len(src) + 1) /\ Piece \in Nat /\ Len(src) \in Nat /\ pos \in Nat
    BY <2>1, PieceIs
  <2>3. QED  BY <2>1, <2>2
<1>12. CASE OpenArgs
  <2>1. src' = src /\ Bump(Peek) /\ Peek.kind = "lparen"  BY <1>12 DEF OpenArgs
  <2>2. QED  BY <2>1, BumpAdvances
<1>13. QED
  BY <1>3, <1>4, <1>5, <1>6, <1>7, <1>8, <1>9, <1>10, <1>11, <1>12 DEF Next

\* Every turn of the loops takes a symbol or leaves a loop, whatever the source and
\* however strings are nested in it: the loops end after at most four turns for a
\* symbol and two more.
THEOREM LoopsEnd == Spec => StepsBounded
<1>1. Init => TypeInv  BY TypeInit
<1>2. TypeInv /\ [Next]_vars => TypeInv'  BY TypeStep
<1>3. TypeInv /\ [Next]_vars => [Budget' \in Nat /\ Budget' < Budget]_vars
  BY BudgetStep
<1>4. QED  BY <1>1, <1>2, <1>3, PTL DEF Spec, StepsBounded

----------------------------------------------------------------------------
(***************************************************************************)
(* What is open in front of each symbol.                                    *)
(***************************************************************************)
NestStep(g, i) == IF i = 1 THEN <<>> ELSE Beyond(g[i - 1], i - 1)

\* The recursion has a solution: there is no shortest prefix of the source
\* without one.
LEMMA NestingDefined ==
    ASSUME Len(src) \in Nat
    PROVE  Nesting = [i \in 1..(Len(src) + 1) |-> NestStep(Nesting, i)]
<1> DEFINE n == Len(src) + 1
           IsNesting(g, m) == g = [i \in 1..m |-> NestStep(g, i)]
           Missing == {m \in 1..n : ~ \E g : IsNesting(g, m)}
<1>1. \E g : IsNesting(g, n)
  <2>1. SUFFICES ASSUME Missing # {} PROVE FALSE  OBVIOUS
  <2>2. Missing \in SUBSET Nat  OBVIOUS
  <2> HIDE DEF Missing
  <2>3. PICK m \in Missing : \A k \in Missing : m <= k  BY <2>1, <2>2, LeastNatural
  <2>4. m \in 1..n /\ ~ \E g : IsNesting(g, m)  BY <2>3 DEF Missing
  <2>5. m # 1
    <3> DEFINE g == [i \in 1..1 |-> <<>>]
    <3>1. IsNesting(g, 1)  BY DEF NestStep
    <3>2. QED  BY <2>4, <3>1
  <2>6. m - 1 \in 1..n /\ ~(m <= m - 1)  BY <2>4, <2>5
  <2>7. m - 1 \notin Missing  BY <2>3, <2>6
  <2>8. PICK g : IsNesting(g, m - 1)  BY <2>6, <2>7 DEF Missing
  <2> DEFINE h == [i \in 1..m |-> IF i = m THEN Beyond(g[m - 1], m - 1) ELSE g[i]]
  <2>9. \A i \in 1..m : h[i] = NestStep(h, i)  BY <2>4, <2>5, <2>8 DEF NestStep
  <2>10. IsNesting(h, m)  BY <2>9
  <2>11. QED  BY <2>4, <2>10
<1>2. Nesting = CHOOSE g : IsNesting(g, n)  BY DEF Nesting, NestStep
<1>3. QED  BY <1>1, <1>2

LEMMA NestingStays ==
    ASSUME UNCHANGED <<src, syntax>>
    PROVE  /\ Nesting' = Nesting
           /\ \A i : (Behind(i))' <=> Behind(i)
           /\ \A i : (Interpolates(i))' <=> Interpolates(i)
           /\ \A i : (At(i))' = At(i)
<1>1. Nesting' = Nesting
  BY DEF Nesting, Beyond, Quoted, Enter, Behind, Interpolates, At, Innards, PairOf, Quote,
         LineBreak, Closer, Opener
<1>2. QED  BY <1>1 DEF Behind, Interpolates, At

LEMMA NestingSteps ==
    ASSUME src \in Seq(Symbol)
    PROVE  Nesting[1] = <<>> /\ \A i \in 1..Len(src) : Nesting[i + 1] = Beyond(Nesting[i], i)
<1>1. Len(src) \in Nat  BY Symbols
<1> DEFINE n == Len(src) + 1
<1>2. Nesting = [i \in 1..n |-> NestStep(Nesting, i)]  BY <1>1, NestingDefined
<1>3. \A i \in 1..n : Nesting[i] = NestStep(Nesting, i)
  <2> DEFINE f == Nesting
             G(i) == NestStep(Nesting, i)
  <2>1. f = [i \in 1..n |-> G(i)]  BY <1>2
  <2> HIDE DEF f, G
  <2>2. \A i \in 1..n : f[i] = G(i)  BY <2>1
  <2>3. QED  BY <2>2 DEF f, G
<1>4. Nesting[1] = <<>>  BY <1>1, <1>3 DEF NestStep
<1>5. ASSUME NEW i \in 1..Len(src) PROVE Nesting[i + 1] = Beyond(Nesting[i], i)
  <2>1. i + 1 \in 1..n /\ i + 1 # 1 /\ (i + 1) - 1 = i  BY <1>1
  <2>2. Nesting[i + 1] = NestStep(Nesting, i + 1)  BY <1>3, <2>1
  <2>3. QED  BY <2>1, <2>2 DEF NestStep
<1>6. QED  BY <1>4, <1>5

Opens == Quote \cup {"lparen", "lbracket", "lbrace"}
Mark  == [by : Opens, at : 1..Len(src)]

MarkAt(i) == [by |-> src[i], at |-> IF Behind(i) THEN i - 1 ELSE i]

LEMMA MarkType ==
    ASSUME src \in Seq(Symbol), NEW i \in 1..Len(src), src[i] \in Opens
    PROVE  /\ MarkAt(i) \in Mark /\ MarkAt(i).by = src[i]
           /\ ~Behind(i) => MarkAt(i).at = i
<1>1. Len(src) \in Nat /\ i \in Nat /\ i >= 1  BY Symbols
<1>2. Behind(i) => i - 1 \in 1..Len(src)  BY <1>1 DEF Behind
<1>3. QED  BY <1>1, <1>2 DEF MarkAt, Mark

\* Outside the text of a string.
LEMMA BeyondOutside ==
    ASSUME NEW o, NEW i, ~Quoted(o)
    PROVE  LET s == src[i]
           IN  /\ s \in Quote \cup {"lbrace"} => Beyond(o, i) = Append(o, MarkAt(i))
               /\ s \in {"lparen", "lbracket"} =>
                    Beyond(o, i) = IF Innards(o) THEN o ELSE Append(o, MarkAt(i))
               /\ s \in Closer =>
                    Beyond(o, i) = IF /\ Innards(o) => s = "rbrace"
                                      /\ o # <<>> /\ PairOf[Last(o).by] = PairOf[s]
                                     THEN Front(o) ELSE o
               /\ s \notin Opens \cup Closer => Beyond(o, i) = o
<1> DEFINE s == src[i]
<1>1. s \in Quote \cup {"lbrace"} => Beyond(o, i) = Append(o, MarkAt(i))
  BY DEF Beyond, Enter, MarkAt, Quote, Closer
<1>2. s \in {"lparen", "lbracket"} =>
        Beyond(o, i) = IF Innards(o) THEN o ELSE Append(o, MarkAt(i))
  BY DEF Beyond, Enter, MarkAt, Quote, Closer
<1>3. s \in Closer =>
        Beyond(o, i) = IF /\ Innards(o) => s = "rbrace"
                          /\ o # <<>> /\ PairOf[Last(o).by] = PairOf[s]
                         THEN Front(o) ELSE o
  <2>1. s \in Closer => s \notin Quote \cup {"lbrace"} /\ s \notin {"lparen", "lbracket"}
    BY DEF Closer, Quote
  <2> HIDE DEF s
  <2>2. s \in Closer => s \in Closer /\ src[i] = s  BY DEF s
  <2>3. QED  BY <2>1, <2>2 DEF Beyond
<1>4. s \notin Opens \cup Closer => Beyond(o, i) = o
  BY DEF Beyond, Opens
<1>5. QED  BY <1>1, <1>2, <1>3, <1>4

\* In the text of a string.
LEMMA BeyondText ==
    ASSUME NEW o, NEW i, Quoted(o)
    PROVE  LET s == src[i]
           IN  /\ s \in LineBreak \cup {Last(o).by} => Beyond(o, i) = Front(o)
               /\ s \notin LineBreak \cup {Last(o).by} /\ s = "lbrace" /\ Behind(i) =>
                    Beyond(o, i) = Append(o, MarkAt(i))
               /\ s \notin LineBreak \cup {Last(o).by} /\ ~(s = "lbrace" /\ Behind(i)) =>
                    Beyond(o, i) = o
<1> DEFINE s == src[i]
           Inside == CASE s \in LineBreak \cup {Last(o).by} -> Front(o)
                       [] s = "lbrace" /\ Behind(i) -> Enter(o, i)
                       [] OTHER -> o
<1>1. "lbrace" \notin LineBreak \cup Quote /\ Last(o).by \in Quote
  BY DEF LineBreak, Quote, Quoted
<1>2. Beyond(o, i) = Inside  BY DEF Beyond
<1>3. s \in LineBreak \cup {Last(o).by} => Inside = Front(o)  BY <1>1
<1>4. s \notin LineBreak \cup {Last(o).by} /\ s = "lbrace" /\ Behind(i) =>
        Inside = Append(o, MarkAt(i))
  BY DEF Enter, MarkAt
<1>5. s \notin LineBreak \cup {Last(o).by} /\ ~(s = "lbrace" /\ Behind(i)) => Inside = o
  OBVIOUS
<1> HIDE DEF Inside
<1>6. QED  BY <1>2, <1>3, <1>4, <1>5

LEMMA BeyondType ==
    ASSUME src \in Seq(Symbol), NEW i \in 1..Len(src), NEW o \in Seq(Mark)
    PROVE  Beyond(o, i) \in Seq(Mark)
<1> DEFINE b == Beyond(o, i)
<1>1. \/ b = o
      \/ b = Front(o) /\ o # <<>>
      \/ b = Append(o, MarkAt(i)) /\ src[i] \in Opens
  <2>1. CASE Quoted(o)
    <3>1. o # <<>>  BY <2>1 DEF Quoted
    <3>2. \/ b = o
          \/ b = Front(o)
          \/ b = Append(o, MarkAt(i)) /\ src[i] = "lbrace"
      BY <2>1, BeyondText
    <3>3. QED  BY <3>1, <3>2 DEF Opens
  <2>2. CASE ~Quoted(o)
    <3> DEFINE s == src[i]
    <3>1. /\ s \in Quote \cup {"lbrace"} => b = Append(o, MarkAt(i))
          /\ s \in {"lparen", "lbracket"} => b = o \/ b = Append(o, MarkAt(i))
          /\ s \in Closer => b = o \/ (b = Front(o) /\ o # <<>>)
          /\ s \notin Opens \cup Closer => b = o
      BY <2>2, BeyondOutside
    <3> HIDE DEF b
    <3>2. QED  BY <3>1 DEF Opens
  <2>3. QED  BY <2>1, <2>2
<1> HIDE DEF b
<1>2. o # <<>> => Front(o) \in Seq(Mark)  BY PopProperties
<1>3. src[i] \in Opens => Append(o, MarkAt(i)) \in Seq(Mark)  BY MarkType, PushProperties
<1>4. QED  BY <1>1, <1>2, <1>3 DEF b

LEMMA NestingType ==
    ASSUME src \in Seq(Symbol), NEW i \in 1..(Len(src) + 1)
    PROVE  Nesting[i] \in Seq(Mark)
<1> DEFINE Wrong == {m \in 1..(Len(src) + 1) : Nesting[m] \notin Seq(Mark)}
<1>1. Len(src) \in Nat  BY Symbols
<1>2. SUFFICES ASSUME Wrong # {} PROVE FALSE  OBVIOUS
<1>3. Wrong \in SUBSET Nat  BY <1>1
<1> HIDE DEF Wrong
<1>4. PICK m \in Wrong : \A k \in Wrong : m <= k  BY <1>2, <1>3, LeastNatural
<1>5. m \in 1..(Len(src) + 1) /\ Nesting[m] \notin Seq(Mark)  BY <1>4 DEF Wrong
<1>6. m # 1
  <2>1. Nesting[1] = <<>> /\ <<>> \in Seq(Mark)  BY NestingSteps
  <2>2. QED  BY <1>5, <2>1
<1>7. /\ m - 1 \in 1..Len(src) /\ ~(m <= m - 1) /\ (m - 1) + 1 = m
      /\ m - 1 \in 1..(Len(src) + 1)
  BY <1>1, <1>5, <1>6
<1>8. Nesting[m - 1] \in Seq(Mark)  BY <1>4, <1>7 DEF Wrong
<1>9. Nesting[m] = Beyond(Nesting[m - 1], m - 1)  BY <1>7, NestingSteps
<1>10. QED  BY <1>5, <1>7, <1>8, <1>9, BeyondType

\* Symbols that open and close nothing.
LEMMA StaysOpen ==
    ASSUME src \in Seq(Symbol), NEW i \in 1..(Len(src) + 1), NEW j \in i..(Len(src) + 1),
           \A k \in i..(j - 1) : Beyond(Nesting[i], k) = Nesting[i]
    PROVE  \A k \in i..j : Nesting[k] = Nesting[i]
<1> DEFINE Wrong == {m \in i..j : Nesting[m] # Nesting[i]}
<1>1. Len(src) \in Nat  BY Symbols
<1>2. SUFFICES ASSUME Wrong # {} PROVE FALSE  OBVIOUS
<1>3. Wrong \in SUBSET Nat  BY <1>1
<1> HIDE DEF Wrong
<1>4. PICK m \in Wrong : \A k \in Wrong : m <= k  BY <1>2, <1>3, LeastNatural
<1>5. m \in i..j /\ Nesting[m] # Nesting[i]  BY <1>4 DEF Wrong
<1>6. m # i  BY <1>5
<1>7. /\ m - 1 \in 1..Len(src) /\ ~(m <= m - 1) /\ (m - 1) + 1 = m
      /\ m - 1 \in i..(j - 1) /\ m - 1 \in i..j
  BY <1>1, <1>5, <1>6
<1>8. Nesting[m - 1] = Nesting[i]  BY <1>4, <1>7 DEF Wrong
<1>9. Nesting[m] = Beyond(Nesting[m - 1], m - 1)  BY <1>7, NestingSteps
<1>10. QED  BY <1>5, <1>7, <1>8, <1>9

\* The text of a string, as far as nothing ends it and no interpolation begins.
LEMMA TextStaysOpen ==
    ASSUME src \in Seq(Symbol), NEW i \in 1..(Len(src) + 1), NEW j \in i..(Len(src) + 1),
           Quoted(Nesting[i]), ~Behind(i),
           \A k \in i..(j - 1) : src[k] \notin LineBreak \cup {Last(Nesting[i]).by} /\ ~Interpolates(k)
    PROVE  \A k \in i..j : Nesting[k] = Nesting[i] /\ ~Behind(k)
<1>1. Len(src) \in Nat  BY Symbols
<1>2. ASSUME NEW k \in i..j PROVE ~Behind(k)
  <2>1. CASE k = i  BY <2>1
  <2>2. CASE k # i
    <3>1. k - 1 \in i..(j - 1)  BY <1>1, <2>2
    <3>2. ~Interpolates(k - 1)  BY <3>1
    <3>3. QED  BY <3>2 DEF Behind
  <2>3. QED  BY <2>1, <2>2
<1>3. ASSUME NEW k \in i..(j - 1) PROVE Beyond(Nesting[i], k) = Nesting[i]
  <2>1. k \in i..j /\ ~Behind(k)  BY <1>1, <1>2
  <2>2. QED  BY <2>1, BeyondText
<1>4. \A k \in i..j : Nesting[k] = Nesting[i]  BY <1>3, StaysOpen
<1>5. QED  BY <1>2, <1>4

\* The blanks in front of a token.
LEMMA TokenOutside ==
    ASSUME src \in Seq(Symbol), pos \in 1..(Len(src) + 1), ~Quoted(Nesting[pos]), ~Behind(pos)
    PROVE  \A k \in pos..Peek.start : Nesting[k] = Nesting[pos] /\ ~Behind(k)
<1> DEFINE j == Peek.start
<1>1. Len(src) \in Nat /\ pos \in Nat /\ pos >= 1  BY Symbols
<1>2. /\ j \in pos..(Len(src) + 1)
      /\ \A k \in pos..(j - 1) : k \in 1..Len(src) /\ src[k] \in LineBreak
  BY NextToken
<1> HIDE DEF j
<1>3. ASSUME NEW k \in pos..j PROVE ~Behind(k)
  <2>1. CASE k = pos  BY <2>1
  <2>2. CASE k # pos
    <3>1. k - 1 \in pos..(j - 1)  BY <1>1, <1>2, <2>2
    <3>2. k - 1 \in 1..Len(src) /\ src[k - 1] \in LineBreak  BY <1>2, <3>1
    <3>3. At(k - 1) # "hash"  BY <3>2, Symbols DEF LineBreak
    <3>4. QED  BY <3>3 DEF Behind, Interpolates
  <2>3. QED  BY <2>1, <2>2
<1>4. ASSUME NEW k \in pos..(j - 1) PROVE Beyond(Nesting[pos], k) = Nesting[pos]
  <2>1. src[k] \notin Opens \cup Closer  BY <1>2 DEF LineBreak, Opens, Closer, Quote
  <2>2. QED  BY <2>1, BeyondOutside
<1>5. \A k \in pos..j : Nesting[k] = Nesting[pos]  BY <1>2, <1>4, StaysOpen
<1>6. QED  BY <1>3, <1>5 DEF j

MarkOf(t) == [by |-> src[t.start], at |-> t.start]

\* What is open behind a token that is no string, when o is open in front of it.
Crossing(t, o) ==
    /\ t.kind = "hashlbrace" => Nesting[t.next] = Append(o, [by |-> "lbrace", at |-> t.start])
    /\ t.kind = "lbrace" => Nesting[t.next] = Append(o, [by |-> "lbrace", at |-> t.start])
    /\ t.kind \in {"lparen", "lbracket"} =>
         Nesting[t.next] = IF Innards(o) THEN o
                                         ELSE Append(o, [by |-> t.kind, at |-> t.start])
    /\ t.kind \in Closer =>
         Nesting[t.next] = IF /\ Innards(o) => t.kind = "rbrace"
                              /\ o # <<>> /\ PairOf[Last(o).by] = PairOf[t.kind]
                             THEN Front(o) ELSE o
    /\ t.kind \notin Opener \cup Closer => Nesting[t.next] = o
    /\ ~Behind(t.next)
    /\ \A i \in (t.start + 1)..(t.next - 1) : Behind(i) /\ src[i] = "lbrace"

LEMMA PlainPasses ==
    ASSUME src \in Seq(Symbol), NEW t, t.start \in 1..Len(src),
           NEW o, Nesting[t.start] = o, ~Quoted(o), ~Behind(t.start),
           Simple(t) \/ Brace2(t)
    PROVE  Crossing(t, o)
<1>1. Len(src) \in Nat /\ t.start \in Nat /\ t.start >= 1  BY Symbols
<1> DEFINE j == t.start
<1>2. CASE Simple(t)
  <2>1. src[j] \notin Quote /\ ~Interpolates(j) /\ t.kind = src[j] /\ t.next = j + 1
    BY <1>2 DEF Simple
  <2>2. Nesting[t.next] = Beyond(o, j)  BY <2>1, NestingSteps
  <2>3. MarkAt(j) = [by |-> src[j], at |-> j]  BY DEF MarkAt
  <2>4. ~Behind(t.next)  BY <1>1, <2>1 DEF Behind
  <2>5. \A i \in (j + 1)..(t.next - 1) : FALSE  BY <1>1, <2>1
  <2>6. t.kind # "hashlbrace"  BY <2>1, Symbols DEF Symbol
  <2> DEFINE s == src[j]
             a == Nesting[t.next]
  <2>7. /\ s = "lbrace" => a = Append(o, [by |-> s, at |-> j])
        /\ s \in {"lparen", "lbracket"} =>
             a = IF Innards(o) THEN o ELSE Append(o, [by |-> s, at |-> j])
        /\ s \in Closer => a = IF /\ Innards(o) => s = "rbrace"
                                  /\ o # <<>> /\ PairOf[Last(o).by] = PairOf[s]
                                 THEN Front(o) ELSE o
        /\ s \notin Opens \cup Closer => a = o
    <3> DEFINE b == Beyond(o, j)
               m == MarkAt(j)
    <3>1. /\ s = "lbrace" => b = Append(o, m)
          /\ s \in {"lparen", "lbracket"} => b = IF Innards(o) THEN o ELSE Append(o, m)
          /\ s \in Closer => b = IF /\ Innards(o) => s = "rbrace"
                                    /\ o # <<>> /\ PairOf[Last(o).by] = PairOf[s]
                                   THEN Front(o) ELSE o
          /\ s \notin Opens \cup Closer => b = o
      BY BeyondOutside
    <3>2. a = b /\ m = [by |-> s, at |-> j]  BY <2>2, <2>3
    <3> HIDE DEF a, b, m, s
    <3>3. QED  BY <3>1, <3>2
  <2>8. s \notin Opener \cup Closer => s \notin Opens \cup Closer
    BY <2>1 DEF Opener, Closer, Opens
  <2>9. s = t.kind  BY <2>1
  <2> HIDE DEF s, a
  <2>10. QED  BY <2>4, <2>5, <2>6, <2>7, <2>8, <2>9 DEF a, Crossing
<1>3. CASE Brace2(t)
  <2>1. Interpolates(j) /\ t.kind = "hashlbrace" /\ t.next = j + 2  BY <1>3 DEF Brace2
  <2>2. src[j] = "hash" /\ src[j + 1] = "lbrace" /\ j + 1 \in 1..Len(src)
    BY <1>1, <2>1, InterpolationIs
  <2>3. src[j] \notin Opens \cup Closer  BY <2>2 DEF Opens, Closer, Quote
  <2>4. Beyond(o, j) = o  BY <2>3, BeyondOutside
  <2>5. Nesting[j + 1] = o  BY <2>4, NestingSteps
  <2>6. Behind(j + 1)  BY <1>1, <2>1 DEF Behind
  <2>7. MarkAt(j + 1) = [by |-> "lbrace", at |-> j]  BY <1>1, <2>2, <2>6 DEF MarkAt
  <2>8. Beyond(o, j + 1) = Append(o, MarkAt(j + 1))  BY <2>2, BeyondOutside
  <2>9. Nesting[(j + 1) + 1] = Beyond(Nesting[j + 1], j + 1)  BY <2>2, NestingSteps
  <2>10. (j + 1) + 1 = j + 2  BY <1>1
  <2>11. Nesting[t.next] = Append(o, [by |-> "lbrace", at |-> j])
    BY <2>1, <2>5, <2>7, <2>8, <2>9, <2>10
  <2>12. ~Behind(t.next)
    <3>1. t.next - 1 = j + 1  BY <1>1, <2>1
    <3>2. At(j + 1) # "hash"  BY <2>2, Symbols
    <3>3. QED  BY <3>1, <3>2 DEF Behind, Interpolates
  <2>13. \A i \in (j + 1)..(t.next - 1) : Behind(i) /\ src[i] = "lbrace"
    <3>1. \A i \in (j + 1)..(t.next - 1) : i = j + 1  BY <1>1, <2>1
    <3>2. QED  BY <2>2, <2>6, <3>1
  <2>14. t.kind \notin {"lbrace", "lparen", "lbracket"} \cup Closer /\ t.kind \in Opener
    BY <2>1 DEF Closer, Opener
  <2>15. QED  BY <2>1, <2>11, <2>12, <2>13, <2>14 DEF Crossing
<1>4. QED  BY <1>2, <1>3

\* A string, or its head.
LEMMA StringPasses ==
    ASSUME src \in Seq(Symbol), NEW t, t.start \in 1..Len(src),
           NEW o \in Seq(Mark), Nesting[t.start] = o, ~Quoted(o), ~Behind(t.start),
           NEW e \in Nat, StringTo(t, e)
    PROVE  /\ MarkOf(t) \in Mark /\ MarkOf(t).by \in Quote
           /\ t.kind = "Str" => Nesting[t.next] = o /\ ~Behind(t.next)
           /\ t.kind = "BadStr" =>
                /\ ~Behind(t.next)
                /\ \/ Nesting[t.next] = o
                   \/ Nesting[t.next] = Append(o, MarkOf(t)) /\ t.next = Len(src) + 1
           /\ t.kind = "StrTemplate" =>
                /\ Nesting[t.next] = Append(o, MarkOf(t)) /\ Behind(t.next)
                /\ t.next - 1 \in 1..Len(src) /\ src[t.next - 1] = "hash"
           /\ \A i \in (t.start + 1)..(t.next - 1) : Quoted(Nesting[i])
<1> DEFINE j == t.start
           x == MarkOf(t)
           q == src[j]
<1>1. Len(src) \in Nat /\ j \in Nat /\ j >= 1  BY Symbols
<1>2. /\ q \in Quote /\ e \in (j + 1)..(Len(src) + 1)
      /\ \A k \in (j + 1)..(e - 1) : src[k] \notin LineBreak \cup {q} /\ ~Interpolates(k)
  BY DEF StringTo
<1>3. x = MarkAt(j) /\ x \in Mark /\ x.by = q
  <2>1. src[j] \in Opens  BY <1>2 DEF Opens
  <2>2. x = MarkAt(j)  BY DEF MarkOf, MarkAt
  <2>3. QED  BY <2>1, <2>2, MarkType
<1>4. Nesting[j + 1] = Append(o, x)
  <2>1. Nesting[j + 1] = Beyond(o, j)  BY NestingSteps
  <2>2. QED  BY <1>2, <1>3, <2>1, BeyondOutside
<1> DEFINE w == Append(o, x)
<1>5. w \in Seq(Mark) /\ w # <<>> /\ Last(w) = x /\ Front(w) = o
  <2>1. w \in Seq(Mark) /\ w # <<>> /\ Last(w) = x  BY <1>3, PushProperties
  <2>2. Front(w) = o  BY <1>3, FrontOfPush
  <2>3. QED  BY <2>1, <2>2
<1> HIDE DEF x, w
<1>6. Quoted(w) /\ Last(w).by = q  BY <1>2, <1>3, <1>5 DEF Quoted
<1>7. ~Behind(j + 1)
  <2>1. At(j) # "hash" /\ (j + 1) - 1 = j  BY <1>1, <1>2, Symbols DEF Quote
  <2>2. QED  BY <2>1 DEF Behind, Interpolates
<1>8. \A k \in (j + 1)..e : Nesting[k] = w /\ ~Behind(k)
  <2>1. j + 1 \in 1..(Len(src) + 1) /\ e \in (j + 1)..(Len(src) + 1)  BY <1>1, <1>2
  <2>2. Quoted(Nesting[j + 1]) /\ Last(Nesting[j + 1]).by = q  BY <1>4, <1>6 DEF w
  <2>3. \A k \in (j + 1)..(e - 1) :
          src[k] \notin LineBreak \cup {Last(Nesting[j + 1]).by} /\ ~Interpolates(k)
    BY <1>2, <2>2
  <2>4. \A k \in (j + 1)..e : Nesting[k] = Nesting[j + 1] /\ ~Behind(k)
    BY <1>7, <2>1, <2>2, <2>3, TextStaysOpen
  <2>5. QED  BY <1>4, <2>4 DEF w
<1>9. Nesting[e] = w /\ ~Behind(e)  BY <1>1, <1>2, <1>8
<1>10. ASSUME t.next \in {e, e + 1} PROVE \A i \in (j + 1)..(t.next - 1) : Quoted(Nesting[i])
  <2>1. \A i \in (j + 1)..(t.next - 1) : i \in (j + 1)..e  BY <1>1, <1>2, <1>10
  <2>2. QED  BY <1>6, <1>8, <2>1
<1>11. ASSUME e <= Len(src), src[e] \in LineBreak \cup {q}, t.next = e + 1
       PROVE  Nesting[t.next] = o /\ ~Behind(t.next)
  <2>1. e \in 1..Len(src)  BY <1>1, <1>2, <1>11
  <2>2. Nesting[e + 1] = Beyond(w, e)  BY <1>9, <2>1, NestingSteps
  <2>3. Beyond(w, e) = Front(w)  BY <1>6, <1>11, BeyondText
  <2>4. At(e) # "hash" /\ (e + 1) - 1 = e  BY <1>2, <1>11, <2>1, Symbols DEF LineBreak, Quote
  <2>5. QED  BY <1>5, <1>11, <2>2, <2>3, <2>4 DEF Behind, Interpolates
<1>12. CASE e <= Len(src) /\ src[e] = q /\ t.kind = "Str" /\ t.next = e + 1
  BY <1>2, <1>3, <1>10, <1>11, <1>12 DEF x
<1>13. CASE e <= Len(src) /\ Interpolates(e) /\ t.kind = "StrTemplate" /\ t.next = e + 1
  <2>1. e \in 1..Len(src) /\ e >= 1  BY <1>1, <1>2, <1>13
  <2>2. src[e] = "hash" /\ (e + 1) - 1 = e /\ e + 1 > 1  BY <1>13, <2>1, InterpolationIs
  <2>3. src[e] \notin LineBreak \cup {q} /\ src[e] # "lbrace"  BY <1>2, <2>2 DEF LineBreak, Quote
  <2>4. Nesting[e + 1] = w
    <3>1. Nesting[e + 1] = Beyond(w, e)  BY <1>9, <2>1, NestingSteps
    <3>2. QED  BY <1>6, <2>3, <3>1, BeyondText
  <2>5. Behind(e + 1)  BY <1>13, <2>2 DEF Behind
  <2>6. QED  BY <1>2, <1>3, <1>10, <1>13, <2>1, <2>2, <2>4, <2>5 DEF x, w
<1>14. CASE /\ t.kind \notin {"Str", "StrTemplate"}
            /\ \/ e <= Len(src) /\ src[e] \in LineBreak /\ t.next = e + 1
               \/ e = Len(src) + 1 /\ t.next = e
  <2>1. CASE e <= Len(src) /\ src[e] \in LineBreak /\ t.next = e + 1
    BY <1>2, <1>3, <1>10, <1>11, <1>14, <2>1 DEF x
  <2>2. CASE e = Len(src) + 1 /\ t.next = e
    BY <1>2, <1>3, <1>9, <1>10, <1>14, <2>2 DEF x, w
  <2>3. QED  BY <1>14, <2>1, <2>2
<1>15. QED
  BY <1>12, <1>13, <1>14 DEF StringTo

\* What is open behind a token, when o is open in front of it.
Passage(t, o) ==
    /\ t.kind \in {"lbrace", "hashlbrace"} =>
         Nesting[t.next] = Append(o, [by |-> "lbrace", at |-> t.start])
    /\ t.kind \in {"lparen", "lbracket"} =>
         Nesting[t.next] = IF Innards(o) THEN o
                                         ELSE Append(o, [by |-> t.kind, at |-> t.start])
    /\ t.kind \in Closer =>
         Nesting[t.next] = IF /\ Innards(o) => t.kind = "rbrace"
                              /\ o # <<>> /\ PairOf[Last(o).by] = PairOf[t.kind]
                             THEN Front(o) ELSE o
    /\ t.kind \notin Opener \cup Closer \cup {"BadStr", "StrTemplate"} => Nesting[t.next] = o
    /\ t.kind = "BadStr" => \/ Nesting[t.next] = o
                            \/ Nesting[t.next] = Append(o, MarkOf(t)) /\ t.next = Len(src) + 1
    /\ t.kind = "StrTemplate" => Nesting[t.next] = Append(o, MarkOf(t))
    /\ t.kind = "StrTemplate" <=> Behind(t.next)
    /\ t.kind \in {"BadStr", "StrTemplate"} => MarkOf(t) \in Mark /\ MarkOf(t).by \in Quote
    /\ \A i \in (t.start + 1)..(t.next - 1) :
         Quoted(Nesting[i]) \/ (Behind(i) /\ src[i] = "lbrace")

LEMMA TokenPasses ==
    ASSUME src \in Seq(Symbol), pos \in 1..(Len(src) + 1),
           Peek.kind \notin {"eof", "Err"}, ~Quoted(Nesting[pos]), ~Behind(pos)
    PROVE  Passage(Peek, Nesting[pos])
<1> DEFINE t == Peek
           o == Nesting[pos]
<1>1. /\ t.start \in 1..Len(src)
      /\ Simple(t) \/ Brace2(t) \/ \E e \in Nat : StringTo(t, e)
      /\ t.start \in Nat /\ pos <= t.start /\ pos \in Nat
  BY TokenIs
<1>2. t.start \in pos..t.start  BY <1>1
<1>3. Nesting[t.start] = o /\ ~Behind(t.start)  BY <1>2, TokenOutside
<1>4. o \in Seq(Mark)  BY NestingType
<1>5. /\ t.kind \in Symbol => Simple(t)
      /\ t.kind = "hashlbrace" => Brace2(t)
      /\ t.kind \in {"Str", "BadStr", "StrTemplate"} => \E e \in Nat : StringTo(t, e)
  BY OddKinds
<1> HIDE DEF t, o
<1>6. ~Quoted(o)  BY DEF o
<1>7. CASE Simple(t) \/ Brace2(t)
  <2>1. t.kind \notin {"BadStr", "StrTemplate"}
    <3>1. Simple(t) => t.kind \in Symbol  BY <1>1, Symbols DEF Simple
    <3>2. "BadStr" \notin Symbol /\ "StrTemplate" \notin Symbol  BY DEF Symbol
    <3>3. QED  BY <1>7, <3>1, <3>2 DEF Brace2
  <2>2. Crossing(t, o)  BY <1>1, <1>3, <1>6, <1>7, PlainPasses
  <2>3. QED  BY <2>1, <2>2 DEF t, o, Crossing, Passage
<1>8. CASE \E e \in Nat : StringTo(t, e)
  <2>1. PICK e \in Nat : StringTo(t, e)  BY <1>8
  <2>2. /\ MarkOf(t) \in Mark /\ MarkOf(t).by \in Quote
        /\ t.kind = "Str" => Nesting[t.next] = o /\ ~Behind(t.next)
        /\ t.kind = "BadStr" =>
             /\ ~Behind(t.next)
             /\ \/ Nesting[t.next] = o
                \/ Nesting[t.next] = Append(o, MarkOf(t)) /\ t.next = Len(src) + 1
        /\ t.kind = "StrTemplate" => Nesting[t.next] = Append(o, MarkOf(t)) /\ Behind(t.next)
        /\ \A i \in (t.start + 1)..(t.next - 1) : Quoted(Nesting[i])
    BY <1>1, <1>3, <1>4, <1>6, <2>1, StringPasses
  <2>3. t.kind \in {"Str", "BadStr", "StrTemplate"}
    BY <2>1 DEF StringTo, t
  <2>4. t.kind \notin Opener \cup Closer  BY <2>3 DEF Opener, Closer
  <2>5. t.kind \notin {"lbrace", "hashlbrace", "lparen", "lbracket"}  BY <2>3
  <2>6. QED  BY <2>2, <2>3, <2>4, <2>5 DEF t, o, Passage
<1>9. QED  BY <1>1, <1>7, <1>8

----------------------------------------------------------------------------
(***************************************************************************)
(* Inside a string: what was open in front of it, its quote, and a brace    *)
(* for every one its interpolation has opened.                              *)
(***************************************************************************)
Enclosed(outside, x, n, inside) ==
    /\ Len(inside) = Len(outside) + 1 + n
    /\ \A j \in 1..Len(outside) : inside[j] = outside[j]
    /\ inside[Len(outside) + 1] = x
    /\ \A j \in (Len(outside) + 2)..Len(inside) : inside[j].by = "lbrace"

LEMMA EnclosedBegins ==
    ASSUME NEW outside \in Seq(Mark), NEW x \in Mark
    PROVE  Enclosed(outside, x, 0, Append(outside, x))
<1> DEFINE w == Append(outside, x)
<1>1. /\ Len(w) = Len(outside) + 1 /\ w[Len(outside) + 1] = x /\ Len(outside) \in Nat
      /\ \A j \in 1..Len(outside) : w[j] = outside[j]
  BY PushProperties, LenProperties
<1> HIDE DEF w
<1>2. QED  BY <1>1 DEF Enclosed, w

LEMMA EnclosedIs ==
    ASSUME NEW outside \in Seq(Mark), NEW x \in Mark, x.by \in Quote, NEW n \in Nat,
           NEW inside \in Seq(Mark), Enclosed(outside, x, n, inside)
    PROVE  /\ inside # <<>> /\ Innards(inside)
           /\ n = 0 => Quoted(inside) /\ Last(inside) = x /\ Front(inside) = outside
           /\ n # 0 => /\ ~Quoted(inside) /\ Last(inside).by = "lbrace"
                       /\ n - 1 \in Nat /\ Enclosed(outside, x, n - 1, Front(inside))
           /\ \A y \in Mark : y.by = "lbrace" => Enclosed(outside, x, n + 1, Append(inside, y))
<1> DEFINE p == Len(outside)
<1>1. /\ p \in Nat /\ Len(inside) = p + 1 + n
      /\ \A j \in 1..p : inside[j] = outside[j]
      /\ inside[p + 1] = x
      /\ \A j \in (p + 2)..Len(inside) : inside[j].by = "lbrace"
  BY LenProperties DEF Enclosed
<1> HIDE DEF p
<1>2. p + 1 \in 1..Len(inside) /\ Len(inside) \in Nat /\ Len(inside) >= 1  BY <1>1
<1>3. inside # <<>>  BY <1>2, EmptySeq
<1>4. Innards(inside)  BY <1>1, <1>2 DEF Innards
<1>5. /\ Front(inside) \in Seq(Mark) /\ Len(Front(inside)) = Len(inside) - 1
      /\ Last(inside) = inside[Len(inside)]
      /\ \A i \in 1..(Len(inside) - 1) : Front(inside)[i] = inside[i]
  BY <1>3, PopProperties
<1>6. ASSUME n = 0 PROVE Quoted(inside) /\ Last(inside) = x /\ Front(inside) = outside
  <2>1. Len(inside) = p + 1 /\ Len(inside) - 1 = p  BY <1>1, <1>6
  <2>2. Last(inside) = x  BY <1>1, <1>5, <2>1
  <2>3. Len(Front(inside)) = Len(outside) /\ \A i \in 1..Len(outside) : Front(inside)[i] = outside[i]
    BY <1>1, <1>5, <2>1 DEF p
  <2>4. Front(inside) = outside
    <3> DEFINE f == Front(inside)
    <3>1. f \in Seq(Mark) /\ Len(f) = Len(outside) /\ \A i \in 1..Len(f) : f[i] = outside[i]
      BY <1>5, <2>3
    <3> HIDE DEF f
    <3>2. f = outside  BY <3>1, SeqEqual
    <3>3. QED  BY <3>2 DEF f
  <2>5. QED  BY <1>3, <2>2, <2>4 DEF Quoted
<1>7. ASSUME n # 0
      PROVE  /\ ~Quoted(inside) /\ Last(inside).by = "lbrace"
             /\ n - 1 \in Nat /\ Enclosed(outside, x, n - 1, Front(inside))
  <2>1. n - 1 \in Nat /\ Len(inside) \in (p + 2)..Len(inside)  BY <1>1, <1>7
  <2>2. Last(inside).by = "lbrace"  BY <1>1, <1>5, <2>1
  <2>3. ~Quoted(inside)  BY <2>2 DEF Quoted, Quote
  <2> DEFINE f == Front(inside)
  <2>4. /\ Len(f) = p + 1 + (n - 1)
        /\ \A j \in 1..p : f[j] = inside[j]
        /\ f[p + 1] = inside[p + 1]
        /\ \A j \in (p + 2)..Len(f) : f[j] = inside[j] /\ j \in (p + 2)..Len(inside)
    BY <1>1, <1>5, <2>1
  <2> HIDE DEF f
  <2>5. Enclosed(outside, x, n - 1, f)  BY <1>1, <2>1, <2>4 DEF Enclosed, p
  <2>6. QED  BY <2>1, <2>2, <2>3, <2>5 DEF f
<1>8. ASSUME NEW y \in Mark, y.by = "lbrace"
      PROVE  Enclosed(outside, x, n + 1, Append(inside, y))
  <2> DEFINE w == Append(inside, y)
  <2>1. /\ Len(w) = Len(inside) + 1 /\ w[Len(inside) + 1] = y
        /\ \A i \in 1..Len(inside) : w[i] = inside[i]
    BY PushProperties
  <2> HIDE DEF w
  <2>2. /\ Len(w) = p + 1 + (n + 1)
        /\ \A j \in 1..p : w[j] = outside[j]
        /\ w[p + 1] = x
    BY <1>1, <1>2, <2>1
  <2>3. ASSUME NEW j \in (p + 2)..Len(w) PROVE w[j].by = "lbrace"
    <3>1. CASE j = Len(inside) + 1  BY <1>8, <2>1, <3>1
    <3>2. CASE j # Len(inside) + 1
      <4>1. j \in 1..Len(inside) /\ j \in (p + 2)..Len(inside)  BY <1>1, <2>1, <3>2
      <4>2. QED  BY <1>1, <2>1, <4>1
    <3>3. QED  BY <3>1, <3>2
  <2>4. QED  BY <2>2, <2>3 DEF Enclosed, p, w
<1>9. QED  BY <1>3, <1>4, <1>6, <1>7, <1>8

\* How many of the pairs open in an expression are braces.
BracesOf(nest) == {n \in 1..Len(nest) : nest[n] = "Brace"}

Inner(t) == IF t.at = "expression" THEN 1 + Cardinality(BracesOf(t.nest)) ELSE 0

LEMMA BracesPushed ==
    ASSUME NEW s \in Seq(Pair), NEW x \in Pair
    PROVE  /\ Cardinality(BracesOf(s)) \in Nat
           /\ Cardinality(BracesOf(Append(s, x))) =
                Cardinality(BracesOf(s)) + (IF x = "Brace" THEN 1 ELSE 0)
           /\ BracesOf(<<>>) = {} /\ Cardinality(BracesOf(<<>>)) = 0
<1> DEFINE n == Len(s)
           w == Append(s, x)
           I == BracesOf(s)
<1>1. n \in Nat /\ Len(w) = n + 1 /\ w[n + 1] = x /\ \A i \in 1..n : w[i] = s[i]
  BY PushProperties, LenProperties
<1>2. I \in SUBSET (1..n)  BY DEF BracesOf
<1> HIDE DEF w
<1>3. BracesOf(w) = IF x = "Brace" THEN I \cup {n + 1} ELSE I
  BY <1>1 DEF BracesOf
<1> HIDE DEF I, n
<1>4. Cardinality(I) \in Nat /\ Cardinality(I \cup {n + 1}) = Cardinality(I) + 1
  BY <1>1, <1>2, IndexAdded
<1>5. BracesOf(<<>>) = {}  BY DEF BracesOf
<1>6. Cardinality({}) = 0  BY FS_EmptySet
<1>7. Cardinality(BracesOf(w)) = Cardinality(I) + (IF x = "Brace" THEN 1 ELSE 0)
  <2>1. CASE x = "Brace"  BY <1>3, <1>4, <2>1
  <2>2. CASE x # "Brace"  BY <1>3, <1>4, <2>2
  <2>3. QED  BY <2>1, <2>2
<1>8. QED  BY <1>4, <1>5, <1>6, <1>7 DEF I, w

LEMMA NoBraces == Cardinality(BracesOf(<<>>)) = 0
<1>1. <<>> \in Seq(Pair) /\ "Brace" \in Pair  BY DEF Pair
<1>2. QED  BY <1>1, BracesPushed

LEMMA BracesPopped ==
    ASSUME NEW s \in Seq(Pair), s # <<>>
    PROVE  Cardinality(BracesOf(s)) =
             Cardinality(BracesOf(Front(s))) + (IF Last(s) = "Brace" THEN 1 ELSE 0)
<1> DEFINE f == Front(s)
           x == Last(s)
<1>1. /\ f \in Seq(Pair) /\ x \in Pair /\ Len(s) \in Nat /\ Len(s) >= 1
      /\ Len(f) = Len(s) - 1 /\ x = s[Len(s)]
      /\ \A i \in 1..(Len(s) - 1) : f[i] = s[i]
  BY PopProperties
<1> HIDE DEF f, x
<1> DEFINE w == Append(f, x)
<1>2. w \in Seq(Pair) /\ Len(w) = Len(f) + 1 /\ w[Len(f) + 1] = x /\ \A i \in 1..Len(f) : w[i] = f[i]
  BY <1>1, PushProperties
<1> HIDE DEF w
<1>3. Len(w) = Len(s) /\ \A i \in 1..Len(s) : w[i] = s[i]  BY <1>1, <1>2
<1>4. w = s  BY <1>2, <1>3, SeqEqual
<1>5. Cardinality(BracesOf(w)) = Cardinality(BracesOf(f)) + (IF x = "Brace" THEN 1 ELSE 0)
  BY <1>1, BracesPushed DEF w
<1>6. QED  BY <1>4, <1>5 DEF f, x

----------------------------------------------------------------------------
(***************************************************************************)
(* The strings being read are those of the source.  Outside them a run       *)
(* keeps out of strings altogether, unless the end of the source has cut it  *)
(* off in an interpolation.                                                 *)
(***************************************************************************)
Trim(open) == IF Quoted(open) THEN Front(open) ELSE open

\* Where what the k-th string encloses has been read to, and the place in front of
\* all strings.
Edge(k) == IF k = Len(templates) THEN pos ELSE templates[k + 1].start
Base    == IF templates = <<>> THEN pos ELSE templates[1].start

StringMark(t) == [by |-> t.quote, at |-> t.start]

InString(k) ==
    Enclosed(Nesting[templates[k].start], StringMark(templates[k]), Inner(templates[k]),
             Nesting[Edge(k)])

\* EofInTemplate.
Cut == /\ Pieces /\ templates = <<>> /\ Peek.kind = "eof"
       /\ Nesting[pos] # <<>> /\ ~Quoted(Nesting[pos])

BaseOutside == /\ ~Innards(Trim(Nesting[Base]))
               /\ Quoted(Nesting[Base]) => Base = Len(src) + 1

InText(i) == Quoted(Nesting[i]) /\ ~Behind(i)

Word(v) == v.kind \notin {"StrPiece", "StrTail"} => ~InText(v.start)

WordsOutside == \A k \in 1..Len(values) : Word(values[k])

Reading == ~StringInPath /\ mode # "failed"

Strings ==
    Reading => /\ Behind(pos) <=> (templates # <<>> /\ Innermost.at = "open")
               /\ \A k \in 1..Len(templates) : InString(k)
               /\ Cut \/ BaseOutside
               /\ WordsOutside

LEMMA PeekStays == ASSUME UNCHANGED <<src, syntax, pos, depth>> PROVE Peek' = Peek
  BY DEF Peek, StringHead, Outcome, PieceEnd, Interpolates, At, Blank, Least, Quote, LineBreak

LEMMA SourceStays ==
    ASSUME UNCHANGED <<src, syntax>>
    PROVE  /\ WordsOutside' <=> \A k \in 1..Len(values') : Word(values'[k])
           /\ \A k : (InString(k))' <=>
                Enclosed(Nesting[templates'[k].start], StringMark(templates'[k]),
                         Inner(templates'[k]),
                         Nesting[IF k = Len(templates') THEN pos' ELSE templates'[k + 1].start])
           /\ (Behind(pos))' <=> Behind(pos')
           /\ BaseOutside' <=> /\ ~Innards(Trim(Nesting[Base']))
                               /\ Quoted(Nesting[Base']) => Base' = Len(src) + 1
<1>1. /\ Nesting' = Nesting /\ \A i : (Behind(i))' <=> Behind(i)
  BY NestingStays
<1>2. WordsOutside' <=> \A k \in 1..Len(values') : Word(values'[k])
  <2>1. ASSUME NEW k PROVE (Word(values[k]))' <=> Word(values'[k])
    BY <1>1 DEF Word, InText, Quoted, Behind, Interpolates, At
  <2>2. QED  BY <2>1 DEF WordsOutside
<1>3. ASSUME NEW k
      PROVE  (InString(k))' <=>
                Enclosed(Nesting[templates'[k].start], StringMark(templates'[k]),
                         Inner(templates'[k]),
                         Nesting[IF k = Len(templates') THEN pos' ELSE templates'[k + 1].start])
  BY <1>1 DEF InString, Enclosed, StringMark, Inner, BracesOf, Edge
<1>4. (Behind(pos))' <=> Behind(pos')  BY DEF Behind, Interpolates, At
<1>5. BaseOutside' <=> /\ ~Innards(Trim(Nesting[Base']))
                       /\ Quoted(Nesting[Base']) => Base' = Len(src) + 1
  BY <1>1 DEF BaseOutside, Innards, Trim, Quoted
<1>6. QED  BY <1>2, <1>3, <1>4, <1>5

LEMMA WordPushed ==
    ASSUME WordsOutside, values \in Seq(Taken), NEW v \in Taken, Word(v)
    PROVE  \A k \in 1..Len(Append(values, v)) : Word(Append(values, v)[k])
<1> DEFINE w == Append(values, v)
<1>1. /\ Len(w) = Len(values) + 1 /\ w[Len(values) + 1] = v
      /\ \A i \in 1..Len(values) : w[i] = values[i]
      /\ Len(values) \in Nat
  BY PushProperties, LenProperties
<1> HIDE DEF w
<1>2. ASSUME NEW k \in 1..Len(w) PROVE Word(w[k])
  <2>1. CASE k = Len(values) + 1  BY <1>1, <2>1
  <2>2. CASE k # Len(values) + 1
    <3>1. k \in 1..Len(values)  BY <1>1, <2>2
    <3>2. w[k] = values[k] /\ Word(values[k])  BY <1>1, <3>1 DEF WordsOutside
    <3>3. QED  BY <3>2
  <2>3. QED  BY <2>1, <2>2
<1>3. QED  BY <1>2 DEF w

LEMMA StringsInit == Init => Strings
<1> SUFFICES ASSUME Init PROVE Strings  OBVIOUS
<1>1. src \in Seq(Symbol) /\ pos = 1 /\ templates = <<>> /\ values = <<>>
  BY RawTokensAssumption DEF Init
<1>2. Len(templates) = 0 /\ Len(values) = 0  BY <1>1
<1>3. Nesting[1] = <<>>  BY <1>1, NestingSteps
<1>4. ~Behind(pos)  BY <1>1 DEF Behind
<1>5. ~Quoted(<<>>) /\ ~Innards(<<>>)  BY DEF Quoted, Innards
<1>6. BaseOutside  BY <1>1, <1>3, <1>5 DEF BaseOutside, Base, Trim
<1>7. QED  BY <1>1, <1>2, <1>4, <1>6 DEF Strings, WordsOutside

\* The run takes tokens outside strings, and outside everything but pairs.
LEMMA OutsideStrings ==
    ASSUME TypeInv, Strings, Reading, templates = <<>>, Peek.kind # "eof"
    PROVE  /\ ~Quoted(Nesting[pos]) /\ ~Innards(Nesting[pos]) /\ ~Behind(pos)
           /\ BaseOutside /\ WordsOutside /\ Base = pos
           /\ Peek.start \in 1..Len(src) /\ Peek.start \in Nat
           /\ \A k \in pos..Peek.start : Nesting[k] = Nesting[pos] /\ ~Behind(k)
           /\ Nesting[Peek.start] = Nesting[pos] /\ ~Behind(Peek.start)
           /\ src \in Seq(Symbol) /\ pos \in 1..(Len(src) + 1) /\ Nesting[pos] \in Seq(Mark)
<1>1. src \in Seq(Symbol) /\ pos \in 1..(Len(src) + 1)  BY DEF TypeInv, TypeOK
<1>2. ~Behind(pos) /\ BaseOutside /\ WordsOutside /\ Base = pos
  BY DEF Strings, Cut, Base
<1> DEFINE s == Peek.start
<1>3. s \in pos..(Len(src) + 1) /\ s \in 1..Len(src)  BY <1>1, NextToken
<1>4. Len(src) \in Nat /\ pos \in Nat  BY <1>1, Symbols
<1> HIDE DEF s
<1>5. pos # Len(src) + 1 /\ s \in pos..s /\ s \in Nat  BY <1>3, <1>4
<1>6. ~Quoted(Nesting[pos]) /\ ~Innards(Nesting[pos])  BY <1>2, <1>5 DEF BaseOutside, Trim
<1>7. \A k \in pos..s : Nesting[k] = Nesting[pos] /\ ~Behind(k)
  BY <1>1, <1>2, <1>6, TokenOutside DEF s
<1>8. Nesting[pos] \in Seq(Mark)  BY <1>1, NestingType
<1>9. QED  BY <1>1, <1>2, <1>3, <1>5, <1>6, <1>7, <1>8 DEF s

\* The innermost string.
LEMMA InnermostString ==
    ASSUME TypeInv, Strings, Reading, templates # <<>>
    PROVE  LET t == Innermost
               o == Nesting[t.start]
               a == Nesting[pos]
           IN  /\ Enclosed(o, StringMark(t), Inner(t), a)
               /\ o \in Seq(Mark) /\ a \in Seq(Mark) /\ StringMark(t) \in Mark
               /\ StringMark(t).by \in Quote /\ Inner(t) \in Nat
               /\ a # <<>> /\ Innards(a)
               /\ t.at = "expression" =>
                    /\ ~Quoted(a) /\ Last(a).by = "lbrace" /\ ~Behind(pos)
                    /\ Enclosed(o, StringMark(t), Inner(t) - 1, Front(a))
               /\ t.at # "expression" =>
                    Quoted(a) /\ Last(a) = StringMark(t) /\ Front(a) = o /\ Inner(t) = 0
               /\ t.at = "open" <=> Behind(pos)
<1> DEFINE t == Innermost
           m == Len(templates)
           o == Nesting[t.start]
           a == Nesting[pos]
           x == StringMark(t)
           n == Inner(t)
<1>1. /\ src \in Seq(Symbol) /\ pos \in 1..(Len(src) + 1)
      /\ Behind(pos) <=> t.at = "open"
  BY DEF TypeInv, TypeOK, Strings
<1>2. /\ t = templates[m] /\ m \in Nat /\ m >= 1 /\ t.quote \in Quote /\ t.start \in 1..Len(src)
      /\ t.nest \in Seq(Pair)
  BY InnermostType
<1>3. InString(m) /\ Edge(m) = pos  BY <1>2 DEF Strings, Edge
<1>4. Enclosed(o, x, n, a)  BY <1>2, <1>3 DEF InString
<1>5. t.start \in 1..(Len(src) + 1)
  <2>1. Len(src) \in Nat  BY <1>1, Symbols
  <2>2. QED  BY <1>2, <2>1
<1>6. o \in Seq(Mark) /\ a \in Seq(Mark)  BY <1>1, <1>5, NestingType
<1>7. x \in Mark /\ x.by \in Quote  BY <1>2 DEF StringMark, Mark, Opens
<1>8. n \in Nat /\ (t.at = "expression" => n # 0) /\ (t.at # "expression" => n = 0)
  <2>1. Cardinality(BracesOf(t.nest)) \in Nat  BY <1>2, BracesPushed DEF Pair
  <2>2. QED  BY <2>1 DEF Inner
<1> HIDE DEF t, o, a, x, n
<1>9. /\ a # <<>> /\ Innards(a)
      /\ n = 0 => Quoted(a) /\ Last(a) = x /\ Front(a) = o
      /\ n # 0 => /\ ~Quoted(a) /\ Last(a).by = "lbrace"
                  /\ n - 1 \in Nat /\ Enclosed(o, x, n - 1, Front(a))
  BY <1>4, <1>6, <1>7, <1>8, EnclosedIs
<1>10. QED  BY <1>1, <1>4, <1>6, <1>7, <1>8, <1>9 DEF t, o, a, x, n

\* The innermost string goes on as x.
LEMMA StringsGoOn ==
    ASSUME TypeInv, Strings, Reading, templates # <<>>, NEW x \in Template, SetInnermost(x),
           UNCHANGED <<src, syntax, scan>>,
           x.start = Innermost.start, x.quote = Innermost.quote,
           Enclosed(Nesting[x.start], StringMark(x), Inner(x), Nesting[pos']),
           Behind(pos') <=> x.at = "open",
           \A k \in 1..Len(values') : Word(values'[k])
    PROVE  Strings'
<1> DEFINE m == Len(templates)
           s == Append(Front(templates), x)
<1>1. /\ templates \in Seq(Template) /\ m \in Nat /\ m >= 1 /\ Innermost = templates[m]
  BY InnermostType
<1>2. /\ templates' = s /\ s # <<>> /\ Len(s) = m /\ Last(s) = x /\ s[m] = x
      /\ \A i \in 1..(m - 1) : s[i] = templates[i]
  BY <1>1, TopReplaced DEF SetInnermost
<1> HIDE DEF s
<1>3. Innermost' = x  BY <1>2 DEF Innermost
<1>4. \A i \in 1..m : s[i].start = templates[i].start
  <2>1. \A i \in 1..m : i = m \/ i \in 1..(m - 1)  BY <1>1
  <2>2. QED  BY <1>1, <1>2, <2>1
<1>5. ASSUME NEW k \in 1..m PROVE (InString(k))'
  <2>1. CASE k = m
    BY <1>2, <2>1, SourceStays
  <2>2. CASE k # m
    <3>1. k \in 1..(m - 1) /\ k + 1 \in 1..m  BY <1>1, <2>2
    <3>2. s[k] = templates[k] /\ s[k + 1].start = templates[k + 1].start  BY <1>2, <1>4, <3>1
    <3>3. InString(k)  BY DEF Strings
    <3>4. Enclosed(Nesting[s[k].start], StringMark(s[k]), Inner(s[k]), Nesting[s[k + 1].start])
      BY <2>2, <3>2, <3>3 DEF InString, Edge
    <3>5. QED  BY <1>2, <2>2, <3>4, SourceStays
  <2>3. QED  BY <2>1, <2>2
<1>6. Base' = Base  BY <1>1, <1>2, <1>4 DEF Base
<1>7. BaseOutside  BY DEF Strings, Cut
<1>8. BaseOutside'  BY <1>6, <1>7, SourceStays DEF BaseOutside
<1>9. WordsOutside'  BY SourceStays
<1>10. QED  BY <1>2, <1>3, <1>5, <1>8, <1>9, SourceStays DEF Strings

\* No string is read, before and after.
LEMMA StringsOutside ==
    ASSUME UNCHANGED <<src, syntax>>, templates' = <<>>, ~Behind(pos'),
           ~Innards(Trim(Nesting[pos'])), Quoted(Nesting[pos']) => pos' = Len(src) + 1,
           \A k \in 1..Len(values') : Word(values'[k])
    PROVE  Strings'
<1>1. Base' = pos'  BY DEF Base
<1>2. Len(templates') = 0  OBVIOUS
<1>3. QED  BY <1>1, <1>2, SourceStays DEF Strings

\* Neither the strings nor the place is another.
LEMMA StringsRest ==
    ASSUME Strings, UNCHANGED <<src, syntax, scan, pos, depth, templates>>, Reading' => Reading,
           Reading => \A k \in 1..Len(values') : Word(values'[k])
    PROVE  Strings'
<1> SUFFICES ASSUME Reading' PROVE Strings'  BY DEF Strings
<1>1. Reading  OBVIOUS
<1>2. Peek' = Peek /\ Nesting' = Nesting  BY PeekStays, NestingStays
<1>3. Base' = Base /\ Pieces' = Pieces /\ Innermost' = Innermost  BY DEF Base, Pieces, Innermost
<1>4. Cut' <=> Cut  BY <1>2, <1>3 DEF Cut, Quoted
<1>5. BaseOutside' <=> BaseOutside  BY <1>3, SourceStays DEF BaseOutside
<1>6. \A k \in 1..Len(templates) : InString(k)  BY <1>1 DEF Strings
<1>7. \A k \in 1..Len(templates') : (InString(k))'
  BY <1>6, SourceStays DEF InString, Edge
<1>8. WordsOutside'  BY <1>1, SourceStays
<1>9. (Behind(pos))' <=> Behind(pos)  BY SourceStays
<1>10. QED  BY <1>1, <1>3, <1>4, <1>5, <1>7, <1>8, <1>9 DEF Strings

\* The tokens taken stay.
LEMMA ReadingWas ==
    ASSUME TypeInv, [Next]_vars, Reading'
    PROVE  Reading
<1> SUFFICES ASSUME StringInPath, mode # "failed" PROVE FALSE
  <2>1. mode = "failed" => mode' = "failed"
    BY DEF Next, TokenizerFails, Stop, StopAtCloser, Scanning, Reject, TakeToken, BeginTemplate,
           OpenInterpolation, TakeOfExpression, CloseInterpolation, RejectExpression,
           EofInTemplate, ScanPiece, PieceFails, InExpression, InPiece, OpenArgs, CallerRejects,
           TakeRawImportant, Return, vars
  <2>2. QED  BY <2>1 DEF Reading
<1>1. scan \in {"progid", "args"} /\ ~Declaration  BY DEF StringInPath, Declaration
<1>2. PICK k \in 1..Len(values) : values[k].kind = "StrTemplate"  BY DEF StringInPath
<1>3. scan' \in {"progid", "args"}
  BY <1>1 DEF Next, Fail, TokenizerFails, Stop, StopAtCloser, Reject, TakeToken, BeginTemplate,
           OpenInterpolation, TakeOfExpression, CloseInterpolation, RejectExpression,
           EofInTemplate, ScanPiece, PieceFails, OpenArgs, CallerRejects,
           TakeRawImportant, Return, vars
<1>4. \/ values' = values
      \/ \E v : values' = Append(values, v)
  BY <1>1 DEF Next, Fail, TokenizerFails, Stop, StopAtCloser, Reject, TakeToken, BeginTemplate,
           OpenInterpolation, TakeOfExpression, CloseInterpolation, RejectExpression,
           EofInTemplate, ScanPiece, PieceFails, OpenArgs, CallerRejects,
           TakeRawImportant, Return, vars, Note
<1>5. values \in Seq(Taken) /\ k \in 1..Len(values)  BY DEF TypeInv, TypeOK
<1>6. k \in 1..Len(values') /\ values'[k] = values[k]
  <2>1. CASE values' = values  BY <2>1
  <2>2. CASE \E v : values' = Append(values, v)
    <3>1. PICK v : values' = Append(values, v)  BY <2>2
    <3>2. QED  BY <1>5, <3>1, LenProperties
  <2>3. QED  BY <1>4, <2>1, <2>2
<1>7. StringInPath'  BY <1>2, <1>3, <1>6 DEF StringInPath
<1>8. QED  BY <1>7 DEF Reading

LEMMA NoInnards ==
    ASSUME NEW o \in Seq(Mark), ~Innards(o)
    PROVE  /\ ~Quoted(o) /\ Trim(o) = o
           /\ o # <<>> => ~Innards(Front(o))
           /\ \A y \in Mark : y.by \notin Quote => ~Innards(Append(o, y))
           /\ \A y \in Mark : y.by \in Quote =>
                /\ Quoted(Append(o, y)) /\ Trim(Append(o, y)) = o
<1>1. Len(o) \in Nat /\ \A k \in 1..Len(o) : o[k].by \notin Quote
  BY LenProperties DEF Innards
<1>2. ~Quoted(o)
  <2>1. o # <<>> => Len(o) # 0  BY EmptySeq
  <2>2. o # <<>> => Len(o) \in 1..Len(o)  BY <1>1, <2>1
  <2>3. QED  BY <1>1, <2>2 DEF Quoted, Last
<1>3. o # <<>> => ~Innards(Front(o))
  <2>1. SUFFICES ASSUME o # <<>> PROVE ~Innards(Front(o))  OBVIOUS
  <2> DEFINE f == Front(o)
  <2>2. Len(f) = Len(o) - 1 /\ \A i \in 1..(Len(o) - 1) : f[i] = o[i]
    BY <2>1, PopProperties
  <2> HIDE DEF f
  <2>3. \A i \in 1..Len(f) : f[i] = o[i] /\ i \in 1..Len(o)  BY <1>1, <2>2
  <2>4. ~Innards(f)  BY <1>1, <2>3 DEF Innards
  <2>5. QED  BY <2>4 DEF f
<1>4. ASSUME NEW y \in Mark, y.by \notin Quote PROVE ~Innards(Append(o, y))
  <2> DEFINE w == Append(o, y)
  <2>1. /\ Len(w) = Len(o) + 1 /\ w[Len(o) + 1] = y
        /\ \A i \in 1..Len(o) : w[i] = o[i]
    BY PushProperties
  <2> HIDE DEF w
  <2>2. \A i \in 1..Len(w) : i = Len(o) + 1 \/ i \in 1..Len(o)  BY <1>1, <2>1
  <2>3. \A i \in 1..Len(w) : w[i].by \notin Quote  BY <1>1, <1>4, <2>1, <2>2
  <2>4. QED  BY <2>3 DEF Innards, w
<1>5. ASSUME NEW y \in Mark, y.by \in Quote
      PROVE  Quoted(Append(o, y)) /\ Trim(Append(o, y)) = o
  <2>1. Append(o, y) # <<>> /\ Last(Append(o, y)) = y  BY PushProperties
  <2>2. Front(Append(o, y)) = o  BY FrontOfPush
  <2>3. QED  BY <1>5, <2>1, <2>2 DEF Quoted, Trim
<1>6. QED  BY <1>2, <1>3, <1>4, <1>5 DEF Trim

\* A token outside strings leads to no place inside one.
LEMMA StaysOutside ==
    ASSUME src \in Seq(Symbol), NEW t, t.start \in 1..Len(src), t.kind # "StrTemplate",
           NEW o \in Seq(Mark), ~Innards(o), Passage(t, o)
    PROVE  /\ ~Behind(t.next) /\ ~Innards(Trim(Nesting[t.next]))
           /\ Quoted(Nesting[t.next]) => t.next = Len(src) + 1
<1>1. ~Quoted(o) /\ Trim(o) = o  BY NoInnards
<1>2. ~Behind(t.next)  BY DEF Passage
<1> DEFINE a == Nesting[t.next]
<1>3. \/ a = o
      \/ o # <<>> /\ a = Front(o)
      \/ a = Append(o, [by |-> "lbrace", at |-> t.start])
      \/ t.kind \in {"lparen", "lbracket"} /\ a = Append(o, [by |-> t.kind, at |-> t.start])
      \/ a = Append(o, MarkOf(t)) /\ t.next = Len(src) + 1 /\ MarkOf(t) \in Mark /\ MarkOf(t).by \in Quote
  <2>1. CASE t.kind \in {"lbrace", "hashlbrace"}  BY <2>1 DEF Passage
  <2>2. CASE t.kind \in {"lparen", "lbracket"}  BY <2>2 DEF Passage
  <2>3. CASE t.kind \in Closer
    <3>1. a = IF /\ Innards(o) => t.kind = "rbrace"
                 /\ o # <<>> /\ PairOf[Last(o).by] = PairOf[t.kind]
                THEN Front(o) ELSE o
      BY <2>3 DEF Passage
    <3> HIDE DEF a
    <3>2. QED  BY <3>1
  <2>4. CASE t.kind = "BadStr"  BY <2>4 DEF Passage
  <2>5. CASE t.kind \notin Opener \cup Closer \cup {"BadStr", "StrTemplate"}
    BY <2>5 DEF Passage
  <2>6. QED  BY <2>1, <2>2, <2>3, <2>4, <2>5 DEF Opener
<1> HIDE DEF a
<1>4. CASE a = o  BY <1>1, <1>2, <1>4 DEF a
<1>5. CASE o # <<>> /\ a = Front(o)
  <2>1. ~Innards(a) /\ a \in Seq(Mark)  BY <1>5, NoInnards, PopProperties
  <2>2. ~Quoted(a) /\ Trim(a) = a  BY <2>1, NoInnards
  <2>3. QED  BY <1>2, <2>1, <2>2 DEF a
<1>6. CASE \E y \in Mark : y.by \notin Quote /\ a = Append(o, y)
  <2>1. PICK y \in Mark : y.by \notin Quote /\ a = Append(o, y)  BY <1>6
  <2>2. ~Innards(a) /\ a \in Seq(Mark)  BY <2>1, NoInnards, PushProperties
  <2>3. ~Quoted(a) /\ Trim(a) = a  BY <2>2, NoInnards
  <2>4. QED  BY <1>2, <2>2, <2>3 DEF a
<1>7. CASE a = Append(o, MarkOf(t)) /\ t.next = Len(src) + 1 /\ MarkOf(t) \in Mark /\ MarkOf(t).by \in Quote
  <2>1. Trim(a) = o  BY <1>7, NoInnards
  <2>2. QED  BY <1>2, <1>7, <2>1 DEF a
<1>8. /\ [by |-> "lbrace", at |-> t.start] \in Mark
      /\ [by |-> "lbrace", at |-> t.start].by \notin Quote
      /\ \A b \in {"lparen", "lbracket"} : /\ [by |-> b, at |-> t.start] \in Mark
                                           /\ [by |-> b, at |-> t.start].by \notin Quote
  BY DEF Mark, Opens, Quote
<1>9. QED  BY <1>3, <1>4, <1>5, <1>6, <1>7, <1>8

LEMMA StringsTakeToken == ASSUME TypeInv, Strings, TakeToken, Reading, Reading' PROVE Strings'
<1> DEFINE t == Peek
           o == Nesting[pos]
<1>1. /\ templates = <<>> /\ t.kind \notin {"eof", "Err"} /\ pos' = t.next
      /\ values' = Append(values, Value(t)) /\ values \in Seq(Taken)
      /\ UNCHANGED <<src, syntax, scan, templates>>
  BY DEF TakeToken, Scanning, Ends, EndsAnywhere, Bump, TypeInv, TypeOK
<1>2. /\ ~Quoted(o) /\ ~Innards(o) /\ ~Behind(pos) /\ WordsOutside
      /\ t.start \in 1..Len(src) /\ Nesting[t.start] = o /\ o \in Seq(Mark)
      /\ src \in Seq(Symbol) /\ pos \in 1..(Len(src) + 1)
  BY <1>1, OutsideStrings
<1>3. Passage(t, o)  BY <1>1, <1>2, TokenPasses
<1>4. Value(t) \in Taken  BY <1>1, Bumped DEF TakeToken
<1>5. Word(Value(t))  BY <1>2 DEF Word, InText, Value
<1>6. \A k \in 1..Len(values') : Word(values'[k])  BY <1>1, <1>2, <1>4, <1>5, WordPushed
<1>7. t.kind # "StrTemplate"
  <2>1. SUFFICES ASSUME t.kind = "StrTemplate" PROVE FALSE  OBVIOUS
  <2>2. scan = "progid"
    BY <2>1 DEF TakeToken, Typed, Pieces, Rejects, TypeInv, TypeOK, Scan
  <2>3. Len(values) \in Nat  BY <1>1, LenProperties
  <2>4. Len(values') = Len(values) + 1 /\ values'[Len(values) + 1] = Value(t)
    BY <1>1, <1>4, PushProperties
  <2>5. Len(values) + 1 \in 1..Len(values')  BY <2>3, <2>4
  <2>6. values'[Len(values) + 1].kind = "StrTemplate"  BY <2>1, <2>4 DEF Value
  <2>7. StringInPath'  BY <1>1, <2>2, <2>5, <2>6 DEF StringInPath
  <2>8. QED  BY <2>7 DEF Reading
<1> HIDE DEF t, o
<1>8. /\ ~Behind(t.next) /\ ~Innards(Trim(Nesting[t.next]))
      /\ Quoted(Nesting[t.next]) => t.next = Len(src) + 1
  BY <1>2, <1>3, <1>7, StaysOutside
<1>9. QED  BY <1>1, <1>6, <1>8, StringsOutside

LEMMA StringsOpenArgs == ASSUME TypeInv, Strings, OpenArgs, Reading, Reading' PROVE Strings'
<1> DEFINE t == Peek
           o == Nesting[pos]
<1>1. /\ templates = <<>> /\ t.kind = "lparen" /\ pos' = t.next
      /\ UNCHANGED <<src, syntax, templates, values>>
  BY DEF OpenArgs, Bump, TypeInv, Tidy
<1>2. /\ ~Quoted(o) /\ ~Innards(o) /\ ~Behind(pos) /\ WordsOutside
      /\ t.start \in 1..Len(src) /\ o \in Seq(Mark)
      /\ src \in Seq(Symbol) /\ pos \in 1..(Len(src) + 1)
  BY <1>1, OutsideStrings
<1>3. Passage(t, o)  BY <1>1, <1>2, TokenPasses
<1> HIDE DEF t, o
<1>4. /\ ~Behind(t.next) /\ ~Innards(Trim(Nesting[t.next]))
      /\ Quoted(Nesting[t.next]) => t.next = Len(src) + 1
  BY <1>1, <1>2, <1>3, StaysOutside
<1>5. \A k \in 1..Len(values') : Word(values'[k])  BY <1>1, <1>2 DEF WordsOutside
<1>6. QED  BY <1>1, <1>4, <1>5, StringsOutside

LEMMA StringsBeginTemplate ==
    ASSUME TypeInv, Strings, BeginTemplate, Reading, Reading'
    PROVE  Strings'
<1> DEFINE t == Peek
           o == Nesting[pos]
           m == Len(templates)
           x == [quote |-> At(t.start), start |-> t.start, at |-> "open", nest |-> <<>>, from |-> 0]
<1>1. /\ t.kind = "StrTemplate" /\ pos' = t.next /\ values' \in {values, Append(values, Value(t))}
      /\ templates' = Append(templates, x)
      /\ templates # <<>> => Innermost.at = "expression"
      /\ UNCHANGED <<src, syntax, scan>>
  BY DEF BeginTemplate, Bump, Note
<1>2. /\ src \in Seq(Symbol) /\ pos \in 1..(Len(src) + 1) /\ values \in Seq(Taken)
      /\ templates \in Seq(Template) /\ m \in Nat
  BY LenProperties DEF TypeInv, TypeOK
<1>3. ~Quoted(o) /\ ~Behind(pos) /\ o \in Seq(Mark) /\ (templates = <<>> => ~Innards(o))
  <2>1. CASE templates = <<>>  BY <1>1, <2>1, OutsideStrings
  <2>2. CASE templates # <<>>  BY <1>1, <2>2, InnermostString
  <2>3. QED  BY <2>1, <2>2
<1>4. /\ t.start \in 1..Len(src) /\ t.start \in Nat /\ pos <= t.start /\ pos \in Nat
      /\ Len(src) \in Nat
  BY <1>1, <1>2, TokenIs
<1>5. Nesting[t.start] = o /\ ~Behind(t.start)
  <2>1. t.start \in pos..t.start  BY <1>4
  <2>2. QED  BY <1>2, <1>3, <2>1, TokenOutside
<1>6. Passage(t, o)  BY <1>1, <1>2, <1>3, TokenPasses
<1>7. /\ Nesting[pos'] = Append(o, MarkOf(t)) /\ Behind(pos')
      /\ MarkOf(t) \in Mark /\ MarkOf(t).by \in Quote
  BY <1>1, <1>6 DEF Passage
<1>8. StringMark(x) = MarkOf(t) /\ x.start = t.start /\ x.at = "open" /\ Inner(x) = 0
  BY <1>2, <1>4, Symbols DEF StringMark, MarkOf, Inner
<1>9. x \in Template
  <2>1. At(t.start) \in Quote  BY <1>2, <1>4, <1>7, Symbols DEF MarkOf
  <2>2. QED  BY <1>4, <2>1 DEF Template
<1>10. \A k \in 1..Len(values') : Word(values'[k])
  <2>1. Word(Value(t))  BY <1>3, <1>5 DEF Word, InText, Value
  <2>2. Value(t) \in Taken  BY <1>1, Bumped DEF BeginTemplate
  <2>3. WordsOutside  BY DEF Strings
  <2>4. QED  BY <1>1, <1>2, <2>1, <2>2, <2>3, WordPushed DEF WordsOutside
<1> HIDE DEF t, o, x
<1>11. /\ templates' # <<>> /\ Len(templates') = m + 1 /\ Last(templates') = x
       /\ templates'[m + 1] = x /\ \A i \in 1..m : templates'[i] = templates[i]
  BY <1>1, <1>2, <1>9, PushProperties
<1> HIDE DEF m
<1>12. ASSUME NEW k \in 1..(m + 1) PROVE (InString(k))'
  <2>1. CASE k = m + 1
    <3>1. Enclosed(o, MarkOf(t), 0, Append(o, MarkOf(t)))  BY <1>3, <1>7, EnclosedBegins
    <3>2. QED  BY <1>1, <1>5, <1>7, <1>8, <1>11, <2>1, <3>1, SourceStays
  <2>2. CASE k # m + 1
    <3>1. k \in 1..m /\ templates'[k] = templates[k]  BY <1>2, <1>11, <2>2
    <3>2. InString(k)  BY <3>1 DEF Strings, m
    <3>3. Nesting[Edge(k)] = Nesting[templates'[k + 1].start]
      <4>1. CASE k = m  BY <1>5, <1>8, <1>11, <4>1 DEF Edge, m, o
      <4>2. CASE k # m
        <5>1. k + 1 \in 1..m  BY <1>2, <3>1, <4>2
        <5>2. QED  BY <1>11, <4>2, <5>1 DEF Edge, m
      <4>3. QED  BY <4>1, <4>2
    <3>4. QED  BY <1>1, <1>11, <2>2, <3>1, <3>2, <3>3, SourceStays DEF InString
  <2>3. QED  BY <2>1, <2>2
<1>13. BaseOutside'
  <2>1. CASE templates = <<>>
    <3>1. m = 0  BY <2>1 DEF m
    <3>2. Base' = t.start  BY <1>8, <1>11, <3>1 DEF Base
    <3>3. QED  BY <1>1, <1>3, <1>5, <2>1, <3>2, SourceStays DEF Trim
  <2>2. CASE templates # <<>>
    <3>1. 1 \in 1..m  BY <1>2, <2>2, EmptySeq DEF m
    <3>2. Base' = Base  BY <1>11, <2>2, <3>1 DEF Base
    <3>3. BaseOutside  BY <2>2 DEF Strings, Cut
    <3>4. QED  BY <1>1, <3>2, <3>3, SourceStays DEF BaseOutside
  <2>3. QED  BY <2>1, <2>2
<1>14. Innermost' = x  BY <1>11 DEF Innermost
<1>15. QED  BY <1>1, <1>7, <1>8, <1>10, <1>11, <1>12, <1>13, <1>14, SourceStays DEF Strings

LEMMA StringsOpenInterpolation ==
    ASSUME TypeInv, Strings, OpenInterpolation, Reading, Reading'
    PROVE  Strings'
<1> DEFINE x == [Innermost EXCEPT !.at = "expression", !.from = Peek.next]
           a == Nesting[pos]
<1>1. /\ templates # <<>> /\ Innermost.at = "open" /\ SetInnermost(x) /\ pos' = Peek.next
      /\ values' \in {values, Append(values, Value(Peek))} /\ values \in Seq(Taken)
      /\ UNCHANGED <<src, syntax, scan>> /\ src \in Seq(Symbol)
  BY DEF OpenInterpolation, Bump, Note, TypeInv, TypeOK
<1>2. /\ Peek.kind = "lbrace" /\ Peek.start = pos /\ Peek.next = pos + 1
      /\ src[pos] = "lbrace" /\ pos \in 1..Len(src) /\ pos \in Nat
  BY <1>1, BraceOfHash
<1>3. /\ Innermost \in Template /\ Innermost.nest = <<>>
  BY <1>1, InnermostType
<1>4. /\ Enclosed(Nesting[Innermost.start], StringMark(Innermost), Inner(Innermost), a)
      /\ Nesting[Innermost.start] \in Seq(Mark) /\ a \in Seq(Mark)
      /\ StringMark(Innermost) \in Mark /\ StringMark(Innermost).by \in Quote
      /\ Inner(Innermost) = 0 /\ Quoted(a) /\ Last(a) = StringMark(Innermost) /\ Behind(pos)
  BY <1>1, InnermostString
<1>5. /\ x \in Template /\ x.at = "expression" /\ x.nest = <<>>
      /\ x.start = Innermost.start /\ x.quote = Innermost.quote
  <2>1. Peek.next \in Nat  BY <1>2
  <2>2. x \in Template  BY <1>3, <2>1 DEF Template
  <2>3. QED  BY <1>3, <2>2 DEF Template
<1>6. Inner(x) = 1 /\ StringMark(x) = StringMark(Innermost)
  BY <1>5, NoBraces DEF Inner, StringMark
<1>7. Nesting[pos'] = Append(a, MarkAt(pos)) /\ MarkAt(pos) \in Mark /\ MarkAt(pos).by = "lbrace"
  <2>1. Nesting[pos + 1] = Beyond(a, pos)  BY <1>1, <1>2, NestingSteps
  <2>2. src[pos] \notin LineBreak \cup {Last(a).by}  BY <1>2, <1>4 DEF LineBreak, Quote
  <2>3. Beyond(a, pos) = Append(a, MarkAt(pos))  BY <1>2, <1>4, <2>2, BeyondText
  <2>4. MarkAt(pos) \in Mark /\ MarkAt(pos).by = "lbrace"  BY <1>1, <1>2, MarkType DEF Opens
  <2>5. QED  BY <1>1, <1>2, <2>1, <2>3, <2>4
<1>8. Enclosed(Nesting[x.start], StringMark(x), Inner(x), Nesting[pos'])
  <2>1. \A y \in Mark : y.by = "lbrace" =>
          Enclosed(Nesting[Innermost.start], StringMark(Innermost), Inner(Innermost) + 1, Append(a, y))
    <3>1. Inner(Innermost) \in Nat  BY <1>4
    <3>2. QED  BY <1>4, <3>1, EnclosedIs
  <2>2. Inner(Innermost) + 1 = 1  BY <1>4
  <2>3. QED  BY <1>5, <1>6, <1>7, <2>1, <2>2
<1>9. ~Behind(pos')
  <2>1. At(pos) # "hash" /\ pos' - 1 = pos  BY <1>1, <1>2, Symbols
  <2>2. QED  BY <2>1 DEF Behind, Interpolates
<1>10. \A k \in 1..Len(values') : Word(values'[k])
  <2>1. Word(Value(Peek))  BY <1>2, <1>4 DEF Word, InText, Value
  <2>2. Value(Peek) \in Taken  BY <1>2, Bumped DEF OpenInterpolation
  <2>3. WordsOutside  BY DEF Strings
  <2>4. QED  BY <1>1, <2>1, <2>2, <2>3, WordPushed DEF WordsOutside
<1>11. x.at # "open"  BY <1>5
<1> HIDE DEF x, a
<1>12. QED  BY <1>1, <1>5, <1>8, <1>9, <1>10, <1>11, StringsGoOn

LEMMA PairsOfKinds ==
    /\ PairOf["lbrace"] = "Brace" /\ PairOf["hashlbrace"] = "Brace" /\ PairOf["rbrace"] = "Brace"
    /\ PairOf["lparen"] = "Paren" /\ PairOf["rparen"] = "Paren"
    /\ PairOf["lbracket"] = "Bracket" /\ PairOf["rbracket"] = "Bracket"
  BY DEF PairOf, Opener, Closer

\* The braces open in an expression, as its tokens are taken.
LEMMA TrackBraces ==
    ASSUME NEW nest \in Seq(Pair), NEW kind
    PROVE  LET n == Cardinality(BracesOf(nest))
               m == Cardinality(BracesOf(Track(nest, kind)))
           IN  /\ n \in Nat
               /\ kind \in {"lbrace", "hashlbrace"} => m = n + 1
               /\ kind \in {"lparen", "lbracket"} => m = n
               /\ kind \in Closer /\ nest # <<>> /\ Last(nest) = PairOf[kind] =>
                    n = m + (IF kind = "rbrace" THEN 1 ELSE 0)
               /\ kind \notin Opener \cup Closer => m = n
<1> DEFINE n == Cardinality(BracesOf(nest))
           m == Cardinality(BracesOf(Track(nest, kind)))
<1>1. /\ kind \in Opener => Track(nest, kind) = Append(nest, PairOf[kind]) /\ PairOf[kind] \in Pair
      /\ kind \in Closer => Track(nest, kind) = IF nest = <<>> THEN nest ELSE Front(nest)
      /\ kind \notin Opener \cup Closer => Track(nest, kind) = nest
  BY TrackType
<1>2. n \in Nat  BY BracesPushed DEF Pair
<1>3. kind \in Opener => m = n + (IF PairOf[kind] = "Brace" THEN 1 ELSE 0)
  BY <1>1, BracesPushed
<1>4. kind \in Closer /\ nest # <<>> => n = m + (IF Last(nest) = "Brace" THEN 1 ELSE 0)
  BY <1>1, BracesPopped
<1> HIDE DEF n, m
<1>5. kind \in {"lbrace", "hashlbrace"} => m = n + 1
  BY <1>3, PairsOfKinds DEF Opener
<1>6. kind \in {"lparen", "lbracket"} => m = n
  BY <1>2, <1>3, PairsOfKinds DEF Opener
<1>7. kind \in Closer => (PairOf[kind] = "Brace" <=> kind = "rbrace")
  BY PairsOfKinds DEF Closer
<1>8. QED  BY <1>1, <1>2, <1>4, <1>5, <1>6, <1>7 DEF n, m

\* A token of an expression.
LEMMA InExpressions ==
    ASSUME TypeInv, Strings, Reading, templates # <<>>, Innermost.at = "expression",
           Peek.kind \notin {"eof", "Err"}
    PROVE  LET t == Peek
               a == Nesting[pos]
           IN  /\ src \in Seq(Symbol) /\ pos \in 1..(Len(src) + 1) /\ t.start \in 1..Len(src)
               /\ a \in Seq(Mark) /\ a # <<>> /\ ~Quoted(a) /\ Innards(a) /\ ~Behind(pos)
               /\ Last(a).by = "lbrace" /\ Passage(t, a) /\ t.kind # "BadStr"
               /\ Nesting[t.start] = a /\ ~Behind(t.start) /\ Word(Value(t))
<1> DEFINE t == Peek
           a == Nesting[pos]
<1>1. src \in Seq(Symbol) /\ pos \in 1..(Len(src) + 1)  BY DEF TypeInv, TypeOK
<1>2. /\ a \in Seq(Mark) /\ a # <<>> /\ ~Quoted(a) /\ Innards(a) /\ ~Behind(pos)
      /\ Last(a).by = "lbrace"
  BY InnermostString
<1>3. Passage(t, a)  BY <1>1, <1>2, TokenPasses
<1>4. t.kind # "BadStr"  BY <1>1, OddKinds, InnermostType
<1>5. /\ t.start \in 1..Len(src) /\ t.start \in Nat /\ pos <= t.start /\ pos \in Nat
  BY <1>1, TokenIs
<1>6. Nesting[t.start] = a /\ ~Behind(t.start)
  <2>1. t.start \in pos..t.start  BY <1>5
  <2>2. QED  BY <1>1, <1>2, <2>1, TokenOutside
<1>7. Word(Value(t))  BY <1>2, <1>6 DEF Word, InText, Value
<1>8. QED  BY <1>1, <1>2, <1>3, <1>4, <1>5, <1>6, <1>7

LEMMA StringsTakeOfExpression ==
    ASSUME TypeInv, Strings, TakeOfExpression, Reading, Reading'
    PROVE  Strings'
<1> DEFINE t == Peek
           a == Nesting[pos]
           kind == Nested(t.kind)
           nest == Innermost.nest
           x == [Innermost EXCEPT !.nest = Track(@, kind)]
           o == Nesting[Innermost.start]
           q == StringMark(Innermost)
           n == Inner(Innermost)
<1>1. /\ templates # <<>> /\ Innermost.at = "expression" /\ SetInnermost(x) /\ pos' = t.next
      /\ t.kind \notin {"eof", "Err", "StrTemplate"} /\ ~(t.kind = "rbrace" /\ nest = <<>>)
      /\ Typed => Passes(nest, kind)
      /\ values' \in {values, Append(values, Value(t))} /\ values \in Seq(Taken)
      /\ UNCHANGED <<src, syntax, scan>>
  BY DEF TakeOfExpression, InExpression, Bump, Note, TypeInv, TypeOK
<1>2. /\ a \in Seq(Mark) /\ a # <<>> /\ ~Quoted(a) /\ Innards(a)
      /\ Last(a).by = "lbrace" /\ Passage(t, a) /\ t.kind # "BadStr" /\ Word(Value(t))
      /\ t.start \in 1..Len(src)
  BY <1>1, InExpressions
<1>3. /\ Innermost \in Template /\ nest \in Seq(Pair) /\ (Pieces => AllBraces(nest))
      /\ Typed \/ Pieces
  BY <1>1, InnermostType
<1>4. /\ Enclosed(o, q, n, a) /\ o \in Seq(Mark) /\ q \in Mark /\ q.by \in Quote /\ n \in Nat
      /\ Enclosed(o, q, n - 1, Front(a))
  BY <1>1, InnermostString
<1>5. \A y \in Mark : y.by = "lbrace" => Enclosed(o, q, n + 1, Append(a, y))
  BY <1>2, <1>4, EnclosedIs
<1>6. Track(nest, kind) \in Seq(Pair)  BY <1>3, TrackType
<1>7. x \in Template  BY <1>3, <1>6 DEF Template
<1>8. /\ x.at = "expression" /\ x.nest = Track(nest, kind)
      /\ x.start = Innermost.start /\ x.quote = Innermost.quote
  BY <1>1, <1>3, <1>6, <1>7 DEF Template
<1>9. StringMark(x) = q  BY <1>8 DEF StringMark
<1>10. /\ n = 1 + Cardinality(BracesOf(nest))
       /\ Inner(x) = 1 + Cardinality(BracesOf(Track(nest, kind)))
  BY <1>1, <1>8 DEF Inner
<1> DEFINE b == Cardinality(BracesOf(nest))
           c == Cardinality(BracesOf(Track(nest, kind)))
<1>11. /\ b \in Nat
       /\ kind \in {"lbrace", "hashlbrace"} => c = b + 1
       /\ kind \in {"lparen", "lbracket"} => c = b
       /\ kind \in Closer /\ nest # <<>> /\ Last(nest) = PairOf[kind] =>
            b = c + (IF kind = "rbrace" THEN 1 ELSE 0)
       /\ kind \notin Opener \cup Closer => c = b
  BY <1>3, TrackBraces
<1>20. c \in Nat  BY <1>6, TrackBraces
<1>12. /\ t.kind \in Braces => kind = t.kind
       /\ t.kind \notin Braces => kind = t.kind \/ (kind = "word" /\ Pieces)
       /\ Pieces \/ kind = t.kind
  BY DEF Nested
<1>13. \A k \in 1..Len(values') : Word(values'[k])
  <2>1. Value(t) \in Taken  BY <1>1, Bumped DEF TakeOfExpression
  <2>2. WordsOutside  BY DEF Strings
  <2>3. QED  BY <1>1, <1>2, <2>1, <2>2, WordPushed DEF WordsOutside
<1>14. ~Behind(pos')  BY <1>1, <1>2 DEF Passage
<1>15. nest # <<>> /\ Pieces => Last(nest) = "Brace"
  <2>1. SUFFICES ASSUME nest # <<>>, Pieces PROVE Last(nest) = "Brace"  OBVIOUS
  <2>2. Last(nest) = nest[Len(nest)] /\ Len(nest) \in Nat /\ Len(nest) >= 1
    BY <1>3, <2>1, PopProperties
  <2> HIDE DEF nest
  <2>3. Len(nest) \in 1..Len(nest)  BY <2>2
  <2>4. QED  BY <1>3, <2>1, <2>2, <2>3 DEF AllBraces
<1>16. Typed => (kind \in Closer => nest # <<>> /\ Last(nest) = PairOf[kind])
  BY <1>1 DEF Passes
<1> HIDE DEF t, a, x, o, q, n, nest, kind, b, c
<1>17. Enclosed(o, q, 1 + c, Nesting[t.next])
  <2>1. CASE t.kind \in {"lbrace", "hashlbrace"}
    <3>1. Nesting[t.next] = Append(a, [by |-> "lbrace", at |-> t.start])
      BY <1>2, <2>1 DEF Passage
    <3>2. [by |-> "lbrace", at |-> t.start] \in Mark /\ [by |-> "lbrace", at |-> t.start].by = "lbrace"
      BY <1>2 DEF Mark, Opens
    <3>3. c = b + 1  BY <1>11, <1>12, <2>1 DEF Braces
    <3>4. n + 1 = 1 + c  BY <1>10, <1>11, <3>3 DEF b
    <3>5. QED  BY <1>5, <3>1, <3>2, <3>4
  <2>2. CASE t.kind = "rbrace"
    <3>1. Nesting[t.next] = Front(a)
      <4>1. PairOf[Last(a).by] = PairOf[t.kind]  BY <1>2, <2>2, PairsOfKinds
      <4>2. t.kind \in Closer  BY <2>2 DEF Closer
      <4>3. Nesting[t.next] = IF /\ Innards(a) => t.kind = "rbrace"
                                 /\ a # <<>> /\ PairOf[Last(a).by] = PairOf[t.kind]
                                THEN Front(a) ELSE a
        BY <1>2, <4>2 DEF Passage
      <4>4. QED  BY <1>2, <2>2, <4>1, <4>3
    <3>2. kind = "rbrace" /\ kind \in Closer  BY <1>12, <2>2 DEF Braces, Closer
    <3>3. nest # <<>>  BY <1>1, <2>2
    <3>4. Last(nest) = PairOf[kind]  BY <1>3, <1>15, <1>16, <3>2, <3>3, PairsOfKinds
    <3>5. b = c + 1  BY <1>11, <3>2, <3>3, <3>4
    <3>6. n - 1 = 1 + c  BY <1>10, <1>11, <1>20, <3>5 DEF b
    <3>7. QED  BY <1>4, <3>1, <3>6
  <2>3. CASE t.kind \in {"lparen", "lbracket"}
    <3>1. Nesting[t.next] = a  BY <1>2, <2>3 DEF Passage
    <3>2. c = b  BY <1>11, <1>12, <2>3 DEF Opener, Closer
    <3>3. QED  BY <1>4, <1>10, <3>1, <3>2 DEF b
  <2>4. CASE t.kind \in {"rparen", "rbracket"}
    <3>1. Nesting[t.next] = a
      <4>1. t.kind \in Closer /\ t.kind # "rbrace"  BY <2>4 DEF Closer
      <4>2. Nesting[t.next] = IF /\ Innards(a) => t.kind = "rbrace"
                                 /\ a # <<>> /\ PairOf[Last(a).by] = PairOf[t.kind]
                                THEN Front(a) ELSE a
        BY <1>2, <4>1 DEF Passage
      <4>3. QED  BY <1>2, <4>1, <4>2
    <3>2. c = b
      <4>1. CASE kind = "word"  BY <1>11, <4>1 DEF Opener, Closer
      <4>2. CASE ~Pieces
        <5>1. kind = t.kind /\ kind \in Closer /\ kind # "rbrace"
          BY <1>12, <2>4, <4>2 DEF Closer
        <5>2. nest # <<>> /\ Last(nest) = PairOf[kind]  BY <1>3, <1>16, <4>2, <5>1
        <5>3. b = c + 0  BY <1>11, <5>1, <5>2
        <5>4. QED  BY <1>20, <5>3
      <4>3. CASE Pieces /\ kind # "word"
        <5>1. t.kind \notin Braces  BY <2>4 DEF Braces
        <5>2. kind = "word"  BY <4>3, <5>1 DEF Nested, kind
        <5>3. QED  BY <4>3, <5>2
      <4>4. QED  BY <4>1, <4>2, <4>3
    <3>3. QED  BY <1>4, <1>10, <3>1, <3>2 DEF b
  <2>5. CASE t.kind \notin Opener \cup Closer
    <3>1. Nesting[t.next] = a  BY <1>1, <1>2, <2>5 DEF Passage
    <3>2. kind \notin Opener \cup Closer  BY <1>12, <2>5 DEF Opener, Closer
    <3>3. c = b  BY <1>11, <3>2
    <3>4. QED  BY <1>4, <1>10, <3>1, <3>3 DEF b
  <2>6. QED  BY <2>1, <2>2, <2>3, <2>4, <2>5 DEF Opener, Closer
<1>18. Enclosed(Nesting[x.start], StringMark(x), Inner(x), Nesting[pos'])
  BY <1>1, <1>8, <1>9, <1>10, <1>17 DEF o, c
<1>19. QED
  <2>1. SetInnermost(x) /\ x.at # "open"  BY <1>1, <1>8
  <2>2. QED  BY <1>1, <1>7, <1>8, <1>13, <1>14, <1>18, <2>1, StringsGoOn

LEMMA StringsCloseInterpolation ==
    ASSUME TypeInv, Strings, CloseInterpolation, Reading, Reading'
    PROVE  Strings'
<1> DEFINE t == Peek
           a == Nesting[pos]
           x == [Innermost EXCEPT !.at = "piece"]
           o == Nesting[Innermost.start]
           q == StringMark(Innermost)
           n == Inner(Innermost)
<1>1. /\ templates # <<>> /\ Innermost.at = "expression" /\ Innermost.nest = <<>>
      /\ SetInnermost(x) /\ pos' = t.next /\ t.kind = "rbrace"
      /\ values' \in {values, Append(values, Value(t))} /\ values \in Seq(Taken)
      /\ UNCHANGED <<src, syntax, scan>>
  BY DEF CloseInterpolation, InExpression, Bump, Note, TypeInv, TypeOK
<1>2. /\ a # <<>> /\ Innards(a) /\ Last(a).by = "lbrace" /\ Passage(t, a) /\ Word(Value(t))
  BY <1>1, InExpressions
<1>3. Innermost \in Template  BY <1>1, InnermostType
<1>4. Enclosed(o, q, n - 1, Front(a)) /\ n \in Nat  BY <1>1, InnermostString
<1>5. n = 1 + 0  BY <1>1, NoBraces DEF Inner
<1>6. /\ x \in Template /\ x.at = "piece" /\ x.start = Innermost.start /\ x.quote = Innermost.quote
  BY <1>3 DEF Template
<1>7. StringMark(x) = q /\ Inner(x) = 0  BY <1>6 DEF StringMark, Inner
<1>8. \A k \in 1..Len(values') : Word(values'[k])
  <2>1. Value(t) \in Taken  BY <1>1, Bumped DEF CloseInterpolation
  <2>2. WordsOutside  BY DEF Strings
  <2>3. QED  BY <1>1, <1>2, <2>1, <2>2, WordPushed DEF WordsOutside
<1>9. ~Behind(pos')  BY <1>1, <1>2 DEF Passage
<1>10. Nesting[t.next] = Front(a)
  <2>1. PairOf[Last(a).by] = PairOf[t.kind]  BY <1>1, <1>2, PairsOfKinds
  <2>2. t.kind \in Closer  BY <1>1 DEF Closer
  <2>3. Nesting[t.next] = IF /\ Innards(a) => t.kind = "rbrace"
                             /\ a # <<>> /\ PairOf[Last(a).by] = PairOf[t.kind]
                            THEN Front(a) ELSE a
    BY <1>2, <2>2 DEF Passage
  <2>4. QED  BY <1>1, <1>2, <2>1, <2>3
<1> HIDE DEF t, a, x, o, q, n
<1>11. n - 1 = 0  BY <1>4, <1>5
<1>12. Enclosed(Nesting[x.start], StringMark(x), Inner(x), Nesting[pos'])
  BY <1>1, <1>4, <1>6, <1>7, <1>10, <1>11 DEF o
<1>13. x.at # "open"  BY <1>6
<1>14. QED  BY <1>1, <1>6, <1>8, <1>9, <1>12, <1>13, StringsGoOn

LEMMA StringsEofInTemplate ==
    ASSUME TypeInv, Strings, EofInTemplate, Reading, Reading'
    PROVE  Strings'
<1>1. /\ templates # <<>> /\ Innermost.at = "expression" /\ Peek.kind = "eof" /\ Pieces
      /\ templates' = <<>> /\ UNCHANGED <<src, syntax, scan, pos, depth, values>>
  BY DEF EofInTemplate, InExpression
<1>2. Nesting[pos] # <<>> /\ ~Quoted(Nesting[pos]) /\ ~Behind(pos)  BY <1>1, InnermostString
<1>3. Peek' = Peek /\ Nesting' = Nesting  BY <1>1, PeekStays, NestingStays
<1>4. Cut'  BY <1>1, <1>2, <1>3 DEF Cut, Pieces, Quoted
<1>5. Len(templates') = 0  BY <1>1
<1>6. WordsOutside'  BY <1>1, SourceStays DEF Strings, WordsOutside
<1>7. QED  BY <1>1, <1>2, <1>4, <1>5, <1>6, SourceStays DEF Strings

\* The text of a piece.
LEMMA InPieces ==
    ASSUME TypeInv, Strings, Reading, templates # <<>>, Innermost.at = "piece"
    PROVE  LET a == Nesting[pos]
           IN  /\ \A k \in pos..Piece : Nesting[k] = a /\ ~Behind(k)
               /\ At(Piece) = Innermost.quote =>
                    Nesting[Piece + 1] = Front(a) /\ ~Behind(Piece + 1)
               /\ At(Piece) # Innermost.quote /\ Interpolates(Piece) =>
                    Nesting[Piece + 1] = a /\ Behind(Piece + 1)
<1> DEFINE a == Nesting[pos]
           e == Piece
           q == Innermost.quote
<1>1. src \in Seq(Symbol) /\ pos \in 1..(Len(src) + 1)  BY DEF TypeInv, TypeOK
<1>2. /\ e \in pos..(Len(src) + 1) /\ e \in Nat /\ e >= 1
      /\ Len(src) \in Nat /\ pos \in Nat /\ pos >= 1
      /\ \A k \in pos..(e - 1) : src[k] \notin LineBreak \cup {q} /\ ~Interpolates(k)
      /\ At(e) = q \/ Interpolates(e) => e \in 1..Len(src)
  BY PieceIs
<1>3. Quoted(a) /\ Last(a) = StringMark(Innermost) /\ ~Behind(pos)  BY InnermostString
<1>4. Last(a).by = q  BY <1>3 DEF StringMark
<1> HIDE DEF e
<1>5. \A k \in pos..e : Nesting[k] = a /\ ~Behind(k)
  BY <1>1, <1>2, <1>3, <1>4, TextStaysOpen
<1>6. e \in pos..e  BY <1>2
<1>7. Nesting[e] = a /\ ~Behind(e)  BY <1>5, <1>6
<1>8. ASSUME At(e) = q PROVE Nesting[e + 1] = Front(a) /\ ~Behind(e + 1)
  <2>1. e \in 1..Len(src) /\ src[e] = q  BY <1>1, <1>2, <1>8, Symbols
  <2>2. Nesting[e + 1] = Beyond(a, e)  BY <1>1, <1>7, <2>1, NestingSteps
  <2>3. Beyond(a, e) = Front(a)  BY <1>3, <1>4, <2>1, BeyondText
  <2>4. q \in Quote  BY InnermostType
  <2>5. At(e) # "hash" /\ (e + 1) - 1 = e  BY <1>2, <1>8, <2>4 DEF Quote
  <2>6. QED  BY <2>2, <2>3, <2>5 DEF Behind, Interpolates
<1>9. ASSUME At(e) # q, Interpolates(e) PROVE Nesting[e + 1] = a /\ Behind(e + 1)
  <2>1. e \in 1..Len(src) /\ src[e] = "hash"  BY <1>1, <1>2, <1>9, InterpolationIs
  <2>2. Nesting[e + 1] = Beyond(a, e)  BY <1>1, <1>7, <2>1, NestingSteps
  <2>3. src[e] \notin LineBreak \cup {Last(a).by} /\ src[e] # "lbrace"
    BY <1>1, <1>4, <1>9, <2>1, Symbols DEF LineBreak
  <2>4. Beyond(a, e) = a  BY <1>3, <2>3, BeyondText
  <2>5. (e + 1) - 1 = e /\ e + 1 > 1  BY <1>2
  <2>6. QED  BY <1>9, <2>2, <2>4, <2>5 DEF Behind
<1>10. QED  BY <1>5, <1>8, <1>9 DEF e

LEMMA StringsScanPiece ==
    ASSUME TypeInv, Strings, ScanPiece, Reading, Reading'
    PROVE  Strings'
<1> DEFINE a == Nesting[pos]
           o == Nesting[Innermost.start]
           q == StringMark(Innermost)
           m == Len(templates)
<1>1. /\ templates # <<>> /\ mode = "scan" /\ Innermost.at = "piece" /\ pos' = Piece + 1
      /\ At(Piece) = Innermost.quote \/ Interpolates(Piece)
      /\ UNCHANGED <<src, syntax, scan, depth>> /\ values \in Seq(Taken)
      /\ src \in Seq(Symbol)
  BY DEF ScanPiece, InPiece, TypeInv, TypeOK
<1>2. /\ Enclosed(o, q, 0, a) /\ o \in Seq(Mark) /\ Quoted(a) /\ Front(a) = o /\ ~Behind(pos)
  BY <1>1, InnermostString
<1>3. /\ At(Piece) = Innermost.quote => Nesting[pos'] = o /\ ~Behind(pos')
      /\ At(Piece) # Innermost.quote => Nesting[pos'] = a /\ Behind(pos')
  BY <1>1, <1>2, InPieces
<1>4. /\ Innermost \in Template /\ m \in Nat /\ m >= 1 /\ Innermost = templates[m]
      /\ templates \in Seq(Template)
  BY <1>1, InnermostType
<1>5. BaseOutside /\ WordsOutside  BY <1>1 DEF Strings, Cut
<1>6. m = 1 => Base = Innermost.start  BY <1>1, <1>4 DEF Base
<1>7. Base # Len(src) + 1 => ~Quoted(Nesting[Base])  BY <1>5 DEF BaseOutside
<1>8. Innermost.start \in 1..Len(src) /\ Len(src) \in Nat  BY <1>1, InnermostType, Symbols
<1>9. \A k \in 1..Len(values') : Word(values'[k])
  <2>1. pos \in 1..Len(src)
    <3>1. /\ Piece \in pos..(Len(src) + 1) /\ pos \in Nat /\ pos >= 1 /\ Piece \in 1..Len(src)
      BY <1>1, PieceIs
    <3> DEFINE e == Piece
    <3> HIDE DEF e
    <3>2. e \in pos..(Len(src) + 1) /\ e \in 1..Len(src)  BY <3>1 DEF e
    <3>3. QED  BY <1>8, <3>1, <3>2
  <2>2. \/ values' = values
        \/ \E v \in Taken : values' = Append(values, v) /\ v.kind \in {"StrTail", "StrPiece"}
        \/ /\ m = 1 /\ values' = Append(values, [kind |-> "InterpolableStr", start |-> Innermost.start])
    <3>1. /\ [kind |-> "StrTail", start |-> pos] \in Taken
          /\ [kind |-> "StrPiece", start |-> pos] \in Taken
      BY <2>1 DEF Taken, TakenKind
    <3>2. QED  BY <3>1 DEF ScanPiece
  <2>3. CASE values' = values  BY <1>5, <2>3 DEF WordsOutside
  <2>4. CASE \E v \in Taken : values' = Append(values, v) /\ v.kind \in {"StrTail", "StrPiece"}
    <3>1. PICK v \in Taken : values' = Append(values, v) /\ v.kind \in {"StrTail", "StrPiece"}
      BY <2>4
    <3>2. Word(v)  BY <3>1 DEF Word
    <3>3. QED  BY <1>1, <1>5, <3>1, <3>2, WordPushed
  <2>5. CASE m = 1 /\ values' = Append(values, [kind |-> "InterpolableStr", start |-> Innermost.start])
    <3> DEFINE v == [kind |-> "InterpolableStr", start |-> Innermost.start]
    <3>1. v \in Taken  BY <1>8 DEF Taken, TakenKind
    <3>2. ~Quoted(Nesting[Innermost.start])  BY <1>6, <1>7, <1>8, <2>5
    <3>3. Word(v)  BY <3>2 DEF Word, InText
    <3>4. values' = Append(values, v)  BY <2>5
    <3> HIDE DEF v
    <3>5. QED  BY <1>1, <1>5, <3>1, <3>3, <3>4, WordPushed
  <2>6. QED  BY <2>2, <2>3, <2>4, <2>5
<1>10. CASE At(Piece) # Innermost.quote
  <2> DEFINE x == [Innermost EXCEPT !.at = "open"]
  <2>1. SetInnermost(x)  BY <1>10 DEF ScanPiece
  <2>2. /\ x \in Template /\ x.at = "open" /\ x.start = Innermost.start
        /\ x.quote = Innermost.quote
    BY <1>4 DEF Template
  <2>3. StringMark(x) = q /\ Inner(x) = 0  BY <2>2 DEF StringMark, Inner
  <2> HIDE DEF x
  <2>4. Enclosed(Nesting[x.start], StringMark(x), Inner(x), Nesting[pos'])
    BY <1>2, <1>3, <1>10, <2>2, <2>3
  <2>5. Behind(pos') <=> x.at = "open"  BY <1>3, <1>10, <2>2
  <2>6. QED  BY <1>1, <1>9, <2>1, <2>2, <2>4, <2>5, StringsGoOn
<1>11. CASE At(Piece) = Innermost.quote
  <2>1. templates' = Front(templates)  BY <1>11 DEF ScanPiece
  <2>2. /\ templates' \in Seq(Template) /\ Len(templates') = m - 1
        /\ \A i \in 1..(m - 1) : templates'[i] = templates[i]
    BY <1>1, <1>4, <2>1, PopProperties
  <2>3. Nesting[pos'] = o /\ ~Behind(pos')  BY <1>3, <1>11
  <2>4. CASE m = 1
    <3>1. templates' = <<>>  BY <2>2, <2>4, EmptySeq
    <3>2. ~Quoted(o) /\ ~Innards(Trim(o))
      BY <1>5, <1>6, <1>7, <1>8, <2>4 DEF BaseOutside
    <3>3. QED  BY <1>1, <1>9, <2>3, <3>1, <3>2, StringsOutside
  <2>5. CASE m # 1
    <3>1. /\ templates' # <<>> /\ m - 1 \in 1..(m - 1) /\ 1 \in 1..(m - 1) /\ m - 1 \in 1..m
      BY <1>4, <2>2, <2>5
    <3>2. Innermost' = templates[m - 1]
      <4>1. Innermost' = templates'[Len(templates')]  BY DEF Innermost, Last
      <4>2. QED  BY <2>2, <3>1, <4>1
    <3>3. templates[m - 1].at = "expression"
      <4>1. TidyString(m - 1)  BY <3>1 DEF TypeInv, Tidy
      <4>2. m - 1 < Len(templates)  BY <1>4
      <4>3. QED  BY <4>1, <4>2 DEF TidyString
    <3>4. Base' = Base  BY <1>1, <2>2, <3>1 DEF Base
    <3>5. BaseOutside'  BY <1>1, <1>5, <3>4, SourceStays DEF BaseOutside
    <3>6. ASSUME NEW k \in 1..(m - 1) PROVE (InString(k))'
      <4>1. k \in 1..m /\ k # m /\ templates'[k] = templates[k]  BY <1>4, <2>2
      <4>2. InString(k)  BY <4>1 DEF Strings
      <4>3. Edge(k) = templates[k + 1].start  BY <4>1 DEF Edge
      <4>4. CASE k = m - 1
        <5>1. Nesting[templates[k + 1].start] = Nesting[pos']  BY <1>4, <2>3, <4>4
        <5>2. QED  BY <1>1, <2>2, <4>1, <4>2, <4>3, <4>4, <5>1, SourceStays DEF InString
      <4>5. CASE k # m - 1
        <5>1. k + 1 \in 1..(m - 1)  BY <1>4, <4>5
        <5>2. templates'[k + 1] = templates[k + 1]  BY <2>2, <5>1
        <5>3. QED  BY <1>1, <2>2, <4>1, <4>2, <4>3, <4>5, <5>2, SourceStays DEF InString
      <4>6. QED  BY <4>4, <4>5
    <3>7. ~(Innermost'.at = "open")  BY <3>2, <3>3
    <3>8. WordsOutside'  BY <1>1, <1>9, SourceStays
    <3>9. QED  BY <1>1, <2>2, <2>3, <3>1, <3>5, <3>6, <3>7, <3>8, SourceStays DEF Strings
  <2>6. QED  BY <2>4, <2>5
<1>12. QED  BY <1>10, <1>11

LEMMA StringsTakeRawImportant ==
    ASSUME TypeInv, Strings, TakeRawImportant, Reading' => Reading
    PROVE  Strings'
<1>1. /\ values \in Seq(Taken) /\ UNCHANGED <<src, syntax, scan, pos, depth, templates>>
      /\ \/ values' = values
         \/ Len(values) >= 2 /\ values' = SubSeq(values, 1, Len(values) - 2)
  BY DEF TypeInv, TypeOK, TakeRawImportant, RawImportant, EndsImportant
<1>2. ASSUME Reading PROVE \A k \in 1..Len(values') : Word(values'[k])
  <2>1. \A k \in 1..Len(values) : Word(values[k])  BY <1>2 DEF Strings, WordsOutside
  <2>2. CASE values' = values  BY <2>1, <2>2
  <2>3. CASE Len(values) >= 2 /\ values' = SubSeq(values, 1, Len(values) - 2)
    <3>1. Len(values) \in Nat /\ Len(values) - 2 \in 0..Len(values)  BY <1>1, <2>3, LenProperties
    <3>2. /\ Len(values') = Len(values) - 2
          /\ \A i \in 1..(Len(values) - 2) : values'[i] = values[i]
      <4> DEFINE n == Len(values) - 2
      <4>1. n \in 0..Len(values) /\ \A i \in 1..n : i \in 1..Len(values)  BY <3>1
      <4>2. \A i \in 1..n : values[i] \in Taken  BY <1>1, <4>1, ElementOfSeq
      <4> HIDE DEF n
      <4>3. /\ Len(SubSeq(values, 1, n)) = n
            /\ \A i \in 1..n : SubSeq(values, 1, n)[i] = values[i]
        BY <1>1, <3>1, <4>1, <4>2, SubSeqProperties
      <4>4. QED  BY <2>3, <4>3 DEF n
    <3>3. \A i \in 1..Len(values') : i \in 1..Len(values) /\ values'[i] = values[i]
      BY <3>1, <3>2
    <3>4. QED  BY <2>1, <3>3
  <2>4. QED  BY <1>1, <2>2, <2>3
<1>3. QED  BY <1>1, <1>2, StringsRest

LEMMA StringsStep == ASSUME TypeInv, Strings, [Next]_vars PROVE Strings'
<1>1. Reading' => Reading  BY ReadingWas
<1>2. ASSUME ~Reading PROVE Strings'  BY <1>1, <1>2 DEF Strings
<1>3. ASSUME ~Reading' PROVE Strings'  BY <1>3 DEF Strings
<1>4. SUFFICES ASSUME Reading, Reading' PROVE Strings'  BY <1>2, <1>3
<1>5. ASSUME Fail PROVE FALSE  BY <1>4, <1>5 DEF Fail, Reading
<1>6. \A k \in 1..Len(values) : Word(values[k])  BY <1>4 DEF Strings, WordsOutside
<1>7. CASE Stop \/ StopAtCloser \/ Return
  <2>1. values' = values /\ UNCHANGED <<src, syntax, scan, pos, depth, templates>>
    BY <1>7 DEF Stop, StopAtCloser, Return
  <2>2. QED  BY <1>1, <1>6, <2>1, StringsRest
<1>8. CASE UNCHANGED vars
  <2>1. values' = values /\ UNCHANGED <<src, syntax, scan, pos, depth, templates>>
    BY <1>8 DEF vars
  <2>2. QED  BY <1>1, <1>6, <2>1, StringsRest
<1>9. CASE TokenizerFails \/ Reject \/ RejectExpression \/ PieceFails \/ CallerRejects
  BY <1>5, <1>9 DEF TokenizerFails, Reject, RejectExpression, PieceFails, CallerRejects
<1>10. QED
  BY <1>1, <1>4, <1>7, <1>8, <1>9, StringsTakeToken, StringsBeginTemplate, StringsOpenInterpolation,
     StringsTakeOfExpression, StringsCloseInterpolation, StringsEofInTemplate, StringsScanPiece,
     StringsOpenArgs, StringsTakeRawImportant
  DEF Next

\* The token that ends a run is outside strings.
LEMMA EndOutside ==
    ASSUME TypeInv, Strings, Reading, templates = <<>>
    PROVE  Peek.start <= Len(src) => ~InText(Peek.start)
<1>1. CASE Peek.kind = "eof"
  <2>1. src \in Seq(Symbol) /\ pos \in 1..(Len(src) + 1)  BY DEF TypeInv, TypeOK
  <2>2. Len(src) \in Nat  BY <2>1, Symbols
  <2> DEFINE t == Peek
  <2>3. \/ t.start = Len(src) + 1
        \/ t.start \in 1..Len(src) /\ (Simple(t) \/ Brace2(t) \/ \E e \in Nat : StringTo(t, e))
    BY <2>1, NextToken
  <2>6. t.kind = "eof"  BY <1>1
  <2> HIDE DEF t
  <2>4. t.start \in 1..Len(src) => ~Simple(t) /\ ~Brace2(t) /\ ~\E e \in Nat : StringTo(t, e)
    BY <2>1, <2>6, Symbols DEF Simple, Brace2, StringTo, Symbol
  <2>5. QED  BY <2>2, <2>3, <2>4 DEF t
<1>2. CASE Peek.kind # "eof"
  BY <1>2, OutsideStrings DEF InText
<1>3. QED  BY <1>1, <1>2

LEMMA StringsAreWhole == ASSUME TypeInv, Strings PROVE StringsWhole
<1> SUFFICES ASSUME Over, ~StringInPath
             PROVE  /\ \A k \in 1..Len(values) : Word(values[k])
                    /\ Peek.start <= Len(src) => ~InText(Peek.start)
  BY DEF StringsWhole, Word, InText
<1>1. Reading  BY DEF Over, Reading
<1>2. templates = <<>>  BY DEF TypeInv, Tidy, Over
<1>3. QED  BY <1>1, <1>2, EndOutside DEF Strings, WordsOutside

\* Strings with interpolations are read as strings to their end, however deeply
\* they are nested in each other's expressions: no token of a run, and not the one
\* that ends it, begins inside the text of a string of the source.
THEOREM StringsAreRead == Spec => []StringsWhole
<1>1. Init => TypeInv /\ Strings  BY TypeInit, StringsInit
<1>2. TypeInv /\ Strings /\ [Next]_vars => TypeInv' /\ Strings'  BY TypeStep, StringsStep
<1>3. TypeInv /\ Strings => StringsWhole  BY StringsAreWhole
<1>4. QED  BY <1>1, <1>2, <1>3, PTL DEF Spec

----------------------------------------------------------------------------
(***************************************************************************)
(* The pairs of a run are the ones open in front of the place where it is   *)
(* outside strings, and the outermost one is where the source opens it.      *)
(***************************************************************************)
Balancing == scan \in {"value", "nonblock", "prelude", "parens"}

Matches(open, stack) ==
    /\ Len(open) = Len(stack)
    /\ \A k \in 1..Len(stack) : PairOf[open[k].by] = stack[k]

PairsAre ==
    /\ Matches(Trim(Nesting[Base]), pairs)
    /\ Declaration /\ pairs # <<>> => outermost = Trim(Nesting[Base])[1].at

PairsOpen == mode = "scan" /\ Balancing => Cut \/ PairsAre

LEMMA MatchPush ==
    ASSUME NEW open \in Seq(Mark), NEW stack \in Seq(Pair), Matches(open, stack),
           NEW x \in Mark, NEW y \in Pair, PairOf[x.by] = y
    PROVE  /\ Matches(Append(open, x), Append(stack, y))
           /\ Append(open, x)[1] = IF stack = <<>> THEN x ELSE open[1]
<1> DEFINE n == Len(stack)
           s == Append(open, x)
           p == Append(stack, y)
<1>1. n \in Nat /\ Len(open) = n /\ (stack = <<>> <=> n = 0)
  BY LenProperties, EmptySeq DEF Matches
<1>2. Len(s) = n + 1 /\ s[n + 1] = x /\ \A k \in 1..n : s[k] = open[k]
  BY <1>1, PushProperties
<1>3. Len(p) = n + 1 /\ p[n + 1] = y /\ \A k \in 1..n : p[k] = stack[k]
  BY PushProperties
<1>4. \A k \in 1..n : PairOf[open[k].by] = stack[k]  BY DEF Matches
<1> HIDE DEF n, s, p
<1>5. \A k \in 1..(n + 1) : k = n + 1 \/ k \in 1..n  BY <1>1
<1>6. Matches(s, p)  BY <1>1, <1>2, <1>3, <1>4, <1>5 DEF Matches
<1>7. s[1] = IF stack = <<>> THEN x ELSE open[1]
  <2>1. CASE n = 0  BY <1>1, <1>2, <2>1
  <2>2. CASE n # 0
    <3>1. 1 \in 1..n  BY <1>1, <2>2
    <3>2. QED  BY <1>1, <1>2, <2>2, <3>1
  <2>3. QED  BY <2>1, <2>2
<1>8. QED  BY <1>6, <1>7 DEF s, p

LEMMA MatchPop ==
    ASSUME NEW open \in Seq(Mark), NEW stack \in Seq(Pair), Matches(open, stack), stack # <<>>
    PROVE  /\ open # <<>> /\ PairOf[Last(open).by] = Last(stack)
           /\ Matches(Front(open), Front(stack))
           /\ Front(stack) # <<>> => Front(open)[1] = open[1]
<1> DEFINE n == Len(stack)
           s == Front(open)
           p == Front(stack)
<1>1. n \in Nat /\ n # 0 /\ Len(open) = n  BY LenProperties, EmptySeq DEF Matches
<1>2. open # <<>>  BY <1>1, EmptySeq
<1>3. Last(open) = open[n] /\ Len(s) = n - 1 /\ \A k \in 1..(n - 1) : s[k] = open[k]
  BY <1>1, <1>2, PopProperties
<1>4. Last(stack) = stack[n] /\ Len(p) = n - 1 /\ \A k \in 1..(n - 1) : p[k] = stack[k]
      /\ p \in Seq(Pair)
  BY PopProperties
<1>5. \A k \in 1..n : PairOf[open[k].by] = stack[k]  BY DEF Matches
<1> HIDE DEF n, s, p
<1>6. n \in 1..n /\ \A k \in 1..(n - 1) : k \in 1..n  BY <1>1
<1>7. Matches(s, p)  BY <1>3, <1>4, <1>5, <1>6 DEF Matches
<1>8. p # <<>> => s[1] = open[1]
  <2>1. p # <<>> => 1 \in 1..(n - 1)  BY <1>1, <1>4, EmptySeq
  <2>2. QED  BY <1>3, <2>1
<1>9. QED  BY <1>2, <1>3, <1>4, <1>5, <1>6, <1>7, <1>8 DEF s, p

LEMMA BalancingReads == ASSUME Balancing, mode # "failed" PROVE Reading
  BY DEF Balancing, Reading, StringInPath

LEMMA PairsTakeToken ==
    ASSUME TypeInv, Strings, PairsOpen, TakeToken, Balancing
    PROVE  PairsAre'
<1> DEFINE t == Peek
           o == Nesting[pos]
           a == Nesting[t.next]
<1>1. /\ mode = "scan" /\ templates = <<>> /\ templates' = <<>> /\ t.kind \notin {"eof", "Err"}
      /\ pos' = t.next /\ Passes(pairs, t.kind) /\ pairs' = Track(pairs, t.kind)
      /\ outermost' = Outermost(t) /\ pairs \in Seq(Pair) /\ ~(t.kind = "StrTemplate")
      /\ UNCHANGED <<src, syntax, scan>>
  BY DEF TakeToken, Scanning, Ends, EndsAnywhere, Bump, TypeInv, TypeOK, Tracks, Balancing,
         Typed, Pieces
<1>2. Reading  BY <1>1, BalancingReads
<1>3. /\ ~Quoted(o) /\ ~Innards(o) /\ ~Behind(pos) /\ Base = pos
      /\ t.start \in 1..Len(src) /\ o \in Seq(Mark)
      /\ src \in Seq(Symbol) /\ pos \in 1..(Len(src) + 1)
  BY <1>1, <1>2, OutsideStrings
<1>4. Passage(t, o)  BY <1>1, <1>3, TokenPasses
<1>5. Trim(o) = o  BY <1>3, NoInnards
<1>6. /\ Matches(o, pairs)
      /\ Declaration /\ pairs # <<>> => outermost = o[1].at
  BY <1>1, <1>3, <1>5 DEF PairsOpen, PairsAre, Cut
<1>7. Base' = t.next  BY <1>1 DEF Base
<1>8. Trim(Nesting[Base])' = Trim(a)  BY <1>1, <1>7, NestingStays DEF Trim, Quoted
<1>9. Declaration' = Declaration  BY <1>1 DEF Declaration
<1>10. SUFFICES /\ Matches(Trim(a), pairs')
                /\ Declaration /\ pairs' # <<>> => outermost' = Trim(a)[1].at
  BY <1>8, <1>9 DEF PairsAre, Matches
<1> HIDE DEF t, o, a
<1>11. CASE t.kind \in Opener
  <2> DEFINE x == [by |-> IF t.kind = "hashlbrace" THEN "lbrace" ELSE t.kind, at |-> t.start]
             y == PairOf[t.kind]
  <2>1. a = Append(o, x)
    <3>1. CASE t.kind \in {"lbrace", "hashlbrace"}  BY <1>4, <3>1 DEF Passage, a
    <3>2. CASE t.kind \in {"lparen", "lbracket"}  BY <1>3, <1>4, <3>2 DEF Passage, a
    <3>3. QED  BY <1>11, <3>1, <3>2 DEF Opener
  <2>2. x \in Mark /\ x.by \notin Quote /\ x.at = t.start /\ PairOf[x.by] = y /\ y \in Pair
    BY <1>3, <1>11, PairsOfKinds DEF Mark, Opens, Opener, Quote, Pair
  <2>3. pairs' = Append(pairs, y)  BY <1>1, <1>11, TrackType
  <2>4. outermost' = IF pairs = <<>> THEN t.start ELSE outermost
    BY <1>1, <1>11 DEF Outermost
  <2> HIDE DEF x, y
  <2>5. /\ Matches(Append(o, x), Append(pairs, y))
        /\ Append(o, x)[1] = IF pairs = <<>> THEN x ELSE o[1]
    BY <1>1, <1>3, <1>6, <2>2, MatchPush
  <2>6. Trim(a) = a
    <3>1. ~Innards(a) /\ a \in Seq(Mark)  BY <1>3, <2>1, <2>2, NoInnards, PushProperties
    <3>2. QED  BY <3>1, NoInnards
  <2>7. Declaration => outermost' = a[1].at
    <3>1. CASE pairs = <<>>  BY <2>1, <2>2, <2>4, <2>5, <3>1
    <3>2. CASE pairs # <<>>  BY <1>6, <2>1, <2>4, <2>5, <3>2
    <3>3. QED  BY <3>1, <3>2
  <2>8. QED  BY <2>1, <2>3, <2>5, <2>6, <2>7
<1>12. CASE t.kind \in Closer
  <2>1. pairs # <<>> /\ Last(pairs) = PairOf[t.kind]  BY <1>1, <1>12 DEF Passes
  <2>2. /\ o # <<>> /\ PairOf[Last(o).by] = Last(pairs)
        /\ Matches(Front(o), Front(pairs))
        /\ Front(pairs) # <<>> => Front(o)[1] = o[1]
    BY <1>1, <1>3, <1>6, <2>1, MatchPop
  <2>3. a = Front(o)
    <3>1. a = IF /\ Innards(o) => t.kind = "rbrace"
                 /\ o # <<>> /\ PairOf[Last(o).by] = PairOf[t.kind]
                THEN Front(o) ELSE o
      BY <1>4, <1>12 DEF Passage, a
    <3>2. QED  BY <1>3, <2>1, <2>2, <3>1
  <2>4. pairs' = Front(pairs)  BY <1>1, <1>12, <2>1, TrackType
  <2>5. outermost' = outermost
    BY <1>1, <1>12 DEF Outermost, Opener, Closer
  <2>6. Trim(a) = a
    <3>1. ~Innards(a) /\ a \in Seq(Mark)  BY <1>3, <2>2, <2>3, NoInnards, PopProperties
    <3>2. QED  BY <3>1, NoInnards
  <2>7. QED  BY <1>6, <2>1, <2>2, <2>3, <2>4, <2>5, <2>6
<1>13. CASE t.kind \notin Opener \cup Closer
  <2>1. pairs' = pairs /\ outermost' = outermost
    BY <1>1, <1>13, TrackType DEF Outermost
  <2>2. Trim(a) = o
    <3>1. CASE t.kind = "BadStr"
      BY <1>3, <1>4, <1>5, <3>1, NoInnards DEF Passage, a
    <3>2. CASE t.kind # "BadStr"
      BY <1>1, <1>4, <1>5, <1>13, <3>2 DEF Passage, a
    <3>3. QED  BY <3>1, <3>2
  <2>3. QED  BY <1>6, <2>1, <2>2
<1>14. QED  BY <1>11, <1>12, <1>13

\* The place in front of all strings, when the innermost one goes on.
LEMMA BaseKept ==
    ASSUME TypeInv, templates # <<>>, NEW x, SetInnermost(x), x.start = Innermost.start
    PROVE  Base' = Base
<1> DEFINE m == Len(templates)
           f == Front(templates)
<1>1. templates \in Seq(Template) /\ m \in Nat /\ m >= 1 /\ Innermost = templates[m]
  BY InnermostType
<1>2. f \in Seq(Template) /\ Len(f) = m - 1 /\ \A i \in 1..(m - 1) : f[i] = templates[i]
  BY <1>1, PopProperties
<1>3. templates' = Append(f, x)  BY DEF SetInnermost
<1> HIDE DEF f, m
<1>4. templates' # <<>> /\ templates'[1].start = templates[1].start
  <2>1. CASE m = 1
    <3>1. f = <<>>  BY <1>2, <2>1, EmptySeq
    <3>2. templates' = <<x>>  BY <1>3, <3>1
    <3>3. QED  BY <1>1, <2>1, <3>2
  <2>2. CASE m # 1
    <3>1. 1 \in 1..(m - 1)  BY <1>1, <2>2
    <3>2. templates' # <<>> /\ templates'[1] = f[1]  BY <1>2, <1>3, <3>1
    <3>3. QED  BY <1>2, <3>1, <3>2
  <2>3. QED  BY <2>1, <2>2
<1>5. QED  BY <1>4 DEF Base

\* It moves where the outermost string begins and where that string ends.
LEMMA BaseMoves ==
    ASSUME TypeInv,
           BeginTemplate \/ OpenInterpolation \/ TakeOfExpression \/ CloseInterpolation \/ ScanPiece
    PROVE  \/ BeginTemplate /\ templates = <<>> /\ Base = pos /\ Base' = Peek.start
           \/ /\ ScanPiece /\ At(Piece) = Innermost.quote /\ Len(templates) = 1
              /\ Base = Innermost.start /\ Base' = pos'
           \/ /\ Base' = Base /\ templates # <<>>
              /\ ScanPiece => ~(At(Piece) = Innermost.quote /\ Len(templates) = 1)
<1> DEFINE m == Len(templates)
<1>1. templates \in Seq(Template) /\ m \in Nat  BY LenProperties DEF TypeInv, TypeOK
<1> HIDE DEF m
<1>2. CASE BeginTemplate
  <2> DEFINE x == [quote |-> At(Peek.start), start |-> Peek.start, at |-> "open", nest |-> <<>>,
                   from |-> 0]
  <2>1. templates' = Append(templates, x) /\ ~ScanPiece
    <3>1. templates' = Append(templates, x) /\ (templates # <<>> => Innermost.at = "expression")
      BY <1>2 DEF BeginTemplate
    <3>2. QED  BY <3>1 DEF ScanPiece, InPiece
  <2>2. x.start = Peek.start  OBVIOUS
  <2> HIDE DEF x
  <2>3. CASE templates = <<>>
    <3>1. templates' = <<x>>  BY <2>1, <2>3
    <3>2. Base' = Peek.start /\ Base = pos  BY <2>2, <2>3, <3>1 DEF Base
    <3>3. QED  BY <1>2, <2>3, <3>2
  <2>4. CASE templates # <<>>
    <3>1. m # 0  BY <1>1, <2>4, EmptySeq DEF m
    <3>2. templates' # <<>> /\ templates'[1] = templates[1]  BY <1>1, <2>1, <3>1 DEF m
    <3>3. Base' = Base  BY <2>4, <3>2 DEF Base
    <3>4. QED  BY <2>1, <2>4, <3>3
  <2>5. QED  BY <2>3, <2>4
<1>4. CASE OpenInterpolation \/ TakeOfExpression \/ CloseInterpolation
  <2>1. templates # <<>> /\ Innermost \in Template /\ Innermost.at # "piece"
    BY <1>4, InnermostType DEF OpenInterpolation, TakeOfExpression, CloseInterpolation, InExpression
  <2> DEFINE x1 == [Innermost EXCEPT !.at = "expression", !.from = Peek.next]
             x2 == [Innermost EXCEPT !.nest = Track(@, Nested(Peek.kind))]
             x3 == [Innermost EXCEPT !.at = "piece"]
  <2>4. x1.start = Innermost.start /\ x2.start = Innermost.start /\ x3.start = Innermost.start
    BY <2>1 DEF Template
  <2>5. SetInnermost(x1) \/ SetInnermost(x2) \/ SetInnermost(x3)
    BY <1>4 DEF OpenInterpolation, TakeOfExpression, CloseInterpolation
  <2> HIDE DEF x1, x2, x3
  <2>2. \E x : SetInnermost(x) /\ x.start = Innermost.start  BY <2>4, <2>5
  <2>3. Base' = Base  BY <2>1, <2>2, BaseKept
  <2>6. QED  BY <2>1, <2>3 DEF ScanPiece, InPiece
<1>5. CASE ScanPiece
  <2>1. templates # <<>>  BY <1>5 DEF ScanPiece, InPiece
  <2>2. Innermost \in Template /\ m >= 1 /\ Innermost = templates[m]
    BY <2>1, InnermostType DEF m
  <2>3. CASE At(Piece) # Innermost.quote
    <3>1. \E x : SetInnermost(x) /\ x.start = Innermost.start
      BY <1>5, <2>2, <2>3 DEF ScanPiece, Template
    <3>2. Base' = Base  BY <2>1, <3>1, BaseKept
    <3>3. QED  BY <2>1, <2>3, <3>2
  <2>4. CASE At(Piece) = Innermost.quote
    <3>1. templates' = Front(templates)  BY <1>5, <2>4 DEF ScanPiece
    <3>2. /\ templates' \in Seq(Template) /\ Len(templates') = m - 1
          /\ m > 1 => templates' # <<>> /\ templates'[1] = templates[1]
      BY <1>1, <2>1, <3>1, PopProperties DEF m
    <3>3. CASE m = 1
      <4>1. templates' = <<>>  BY <3>2, <3>3, EmptySeq
      <4>2. Base' = pos' /\ Base = Innermost.start  BY <2>1, <2>2, <3>3, <4>1 DEF Base
      <4>3. QED  BY <1>5, <2>4, <3>3, <4>2 DEF m
    <3>4. CASE m # 1
      <4>1. m > 1  BY <1>1, <2>2, <3>4
      <4>2. Base' = Base  BY <2>1, <3>2, <4>1 DEF Base
      <4>3. QED  BY <2>1, <3>4, <4>2 DEF m
    <3>5. QED  BY <3>3, <3>4
  <2>5. QED  BY <2>3, <2>4
<1>6. QED  BY <1>2, <1>4, <1>5

\* Where a string is read, what is outside it stays.
LEMMA BaseStays ==
    ASSUME TypeInv, Strings, Reading,
           BeginTemplate \/ OpenInterpolation \/ TakeOfExpression \/ CloseInterpolation \/ ScanPiece
    PROVE  Nesting[Base'] = Nesting[Base]
<1>1. CASE BeginTemplate /\ templates = <<>> /\ Base = pos /\ Base' = Peek.start
  <2>1. Peek.kind # "eof"  BY <1>1 DEF BeginTemplate
  <2>2. QED  BY <1>1, <2>1, OutsideStrings
<1>2. CASE /\ ScanPiece /\ At(Piece) = Innermost.quote
           /\ Base = Innermost.start /\ Base' = pos'
  <2>1. templates # <<>> /\ Innermost.at = "piece" /\ pos' = Piece + 1
    BY <1>2 DEF ScanPiece, InPiece
  <2>2. Front(Nesting[pos]) = Nesting[Innermost.start]  BY <2>1, InnermostString
  <2>3. Nesting[Piece + 1] = Front(Nesting[pos])  BY <1>2, <2>1, InPieces
  <2>4. QED  BY <1>2, <2>1, <2>2, <2>3
<1>3. CASE Base' = Base  BY <1>3
<1>4. QED  BY <1>1, <1>2, <1>3, BaseMoves

LEMMA PairsStep ==
    ASSUME TypeInv, Strings, Strings', PairsOpen, [Next]_vars
    PROVE  PairsOpen'
<1> SUFFICES ASSUME mode' = "scan", Balancing' PROVE Cut' \/ PairsAre'  BY DEF PairsOpen
<1>1. CASE TakeToken
  <2>1. Balancing  BY <1>1 DEF TakeToken, Balancing
  <2>2. QED  BY <1>1, <2>1, PairsTakeToken
<1>2. CASE BeginTemplate \/ OpenInterpolation \/ TakeOfExpression \/ CloseInterpolation \/ ScanPiece
  <2>1. /\ mode = "scan" /\ UNCHANGED <<src, syntax, scan, pairs, outermost>>
        /\ templates # <<>> \/ Peek.kind # "eof"
    BY <1>2 DEF BeginTemplate, OpenInterpolation, TakeOfExpression, CloseInterpolation, ScanPiece,
                InExpression, InPiece
  <2>2. Balancing  BY <2>1 DEF Balancing
  <2>3. PairsAre  BY <2>1, <2>2 DEF PairsOpen, Cut
  <2>4. Reading  BY <2>1, <2>2, BalancingReads
  <2>5. Nesting[Base'] = Nesting[Base]  BY <1>2, <2>4, BaseStays
  <2>6. Nesting' = Nesting  BY <2>1, NestingStays
  <2>7. PairsAre'
    BY <2>1, <2>3, <2>5, <2>6 DEF PairsAre, Matches, Trim, Quoted, Declaration
  <2>8. QED  BY <2>7
<1>3. CASE EofInTemplate
  <2>1. /\ mode = "scan" /\ templates' = <<>> /\ UNCHANGED <<src, syntax, scan, pos, depth, values>>
        /\ templates # <<>> /\ Innermost.at = "expression" /\ Peek.kind = "eof" /\ Pieces
    BY <1>3 DEF EofInTemplate, InExpression
  <2>2. Reading
    <3>1. Balancing  BY <2>1 DEF Balancing
    <3>2. QED  BY <2>1, <3>1, BalancingReads
  <2>3. Nesting[pos] # <<>> /\ ~Quoted(Nesting[pos])  BY <2>1, <2>2, InnermostString
  <2>4. Peek' = Peek /\ Nesting' = Nesting  BY <2>1, PeekStays, NestingStays
  <2>5. QED  BY <2>1, <2>3, <2>4 DEF Cut, Pieces, Quoted
<1>4. CASE UNCHANGED vars
  <2>1. /\ mode = "scan"
        /\ UNCHANGED <<src, syntax, scan, pos, depth, pairs, outermost, templates>>
    BY <1>4 DEF vars
  <2>2. Peek' = Peek /\ Nesting' = Nesting  BY <2>1, PeekStays, NestingStays
  <2>3. Cut \/ PairsAre  BY <2>1 DEF PairsOpen, Balancing
  <2>4. Cut' <=> Cut  BY <2>1, <2>2 DEF Cut, Pieces, Quoted
  <2>5. PairsAre' <=> PairsAre
    BY <2>1, <2>2 DEF PairsAre, Matches, Trim, Quoted, Declaration, Base
  <2>6. QED  BY <2>3, <2>4, <2>5
<1>5. ASSUME Fail \/ Stop \/ StopAtCloser \/ TakeRawImportant \/ Return PROVE FALSE
  BY <1>5 DEF Fail, Stop, StopAtCloser, TakeRawImportant, Return
<1>6. ASSUME OpenArgs PROVE FALSE  BY <1>6 DEF OpenArgs, Balancing
<1>7. QED
  BY <1>1, <1>2, <1>3, <1>4, <1>5, <1>6
  DEF Next, TokenizerFails, Reject, RejectExpression, PieceFails, CallerRejects

LEMMA PairsInit == Init => PairsOpen
<1> SUFFICES ASSUME Init PROVE PairsAre  BY DEF PairsOpen
<1>1. src \in Seq(Symbol) /\ pos = 1 /\ templates = <<>> /\ pairs = <<>>
  BY RawTokensAssumption DEF Init
<1>2. Nesting[1] = <<>> /\ Base = 1  BY <1>1, NestingSteps DEF Base
<1>3. Trim(<<>>) = <<>>  BY DEF Trim, Quoted
<1>4. Matches(<<>>, <<>>)  BY DEF Matches
<1>5. QED  BY <1>1, <1>2, <1>3, <1>4 DEF PairsAre

\* What is open at the end of the source is what is open behind the last token.
LEMMA OpenAtEof ==
    ASSUME TypeInv, Strings, Reading, templates = <<>>, Peek.kind = "eof", ~Pieces
    PROVE  /\ LeftOpen = Trim(Nesting[pos]) /\ Base = pos
           /\ LeftOpen \in Seq(Mark) /\ ~Innards(LeftOpen)
<1>1. src \in Seq(Symbol) /\ pos \in 1..(Len(src) + 1)  BY DEF TypeInv, TypeOK
<1>2. BaseOutside /\ Base = pos /\ ~Behind(pos)  BY DEF Strings, Cut, Base
<1>3. Len(src) \in Nat  BY <1>1, Symbols
<1>4. Nesting[Len(src) + 1] = Nesting[pos]
  <2>1. CASE Quoted(Nesting[pos])  BY <1>2, <2>1 DEF BaseOutside
  <2>2. CASE ~Quoted(Nesting[pos])
    <3> DEFINE i == Peek.start
    <3>1. \A k \in pos..i : Nesting[k] = Nesting[pos]  BY <1>1, <1>2, <2>2, TokenOutside
    <3>2. i \in pos..(Len(src) + 1)  BY <1>1, NextToken
    <3>3. i = Len(src) + 1
      <4> DEFINE t == Peek
      <4>1. \/ t.start = Len(src) + 1
            \/ t.start \in 1..Len(src) /\ (Simple(t) \/ Brace2(t) \/ \E e \in Nat : StringTo(t, e))
        BY <1>1, NextToken
      <4>2. t.kind = "eof"  OBVIOUS
      <4> HIDE DEF t
      <4>3. t.start \in 1..Len(src) => ~Simple(t) /\ ~Brace2(t) /\ ~\E e \in Nat : StringTo(t, e)
        BY <1>1, <4>2, Symbols DEF Simple, Brace2, StringTo, Symbol
      <4>4. QED  BY <4>1, <4>3 DEF t
    <3> HIDE DEF i
    <3>4. i \in pos..i  BY <1>1, <1>3, <3>2
    <3>5. QED  BY <3>1, <3>3, <3>4
  <2>3. QED  BY <2>1, <2>2
<1>5. LeftOpen = Trim(Nesting[pos])  BY <1>4 DEF LeftOpen, Trim
<1>6. Nesting[pos] \in Seq(Mark)  BY <1>1, NestingType
<1>7. Trim(Nesting[pos]) \in Seq(Mark)
  <2>1. Quoted(Nesting[pos]) => Nesting[pos] # <<>>  BY DEF Quoted
  <2>2. Nesting[pos] # <<>> => Front(Nesting[pos]) \in Seq(Mark)  BY <1>6, PopProperties
  <2>3. QED  BY <1>6, <2>1, <2>2 DEF Trim
<1>8. QED  BY <1>2, <1>5, <1>7 DEF BaseOutside

NoneYet == mode = "scan" /\ Declaration => Unclosed = {}

LEMMA UnclosedPushed ==
    ASSUME errors \in Seq(Complaint), NEW e \in Complaint, errors' = Append(errors, e)
    PROVE  Unclosed' = Unclosed \cup
             (IF e.kind \in {"EofInBlock", "UnclosedParen"} THEN {Len(errors) + 1} ELSE {})
<1> DEFINE w == Append(errors, e)
           n == Len(errors)
           K == {"EofInBlock", "UnclosedParen"}
<1>1. n \in Nat /\ Len(w) = n + 1 /\ w[n + 1] = e /\ \A i \in 1..n : w[i] = errors[i]
  BY PushProperties, LenProperties
<1> HIDE DEF w, K
<1>2. Unclosed' = {k \in 1..Len(w) : w[k].kind \in K}  BY DEF Unclosed, w, K
<1>3. Unclosed = {k \in 1..n : errors[k].kind \in K}  BY DEF Unclosed, K
<1> HIDE DEF n
<1>4. \A k : k \in 1..Len(w) <=> (k \in 1..n \/ k = n + 1)  BY <1>1
<1>5. ~(n + 1 \in 1..n)  BY <1>1
<1>6. Unclosed' = Unclosed \cup (IF e.kind \in K THEN {n + 1} ELSE {})
  BY <1>1, <1>2, <1>3, <1>4, <1>5
<1>7. QED  BY <1>6 DEF n, K

LEMMA NoneYetStep == ASSUME TypeInv, NoneYet, [Next]_vars PROVE NoneYet'
<1> SUFFICES ASSUME mode' = "scan", Declaration' PROVE Unclosed' = {}  BY DEF NoneYet
<1>1. CASE TakeToken
  <2>1. mode = "scan" /\ Declaration /\ errors' = errors \o BadString(Peek)
        /\ Peek.kind \notin {"eof", "Err"} /\ Bump(Peek)
    BY <1>1 DEF TakeToken, Scanning, Declaration, Ends, EndsAnywhere
  <2>2. Unclosed = {}  BY <2>1 DEF NoneYet
  <2>3. errors \in Seq(Complaint)  BY DEF TypeInv, TypeOK
  <2> DEFINE e == [kind |-> IF Peek.next > Len(src) /\ Last(src) \notin LineBreak
                              THEN "UnterminatedString" ELSE "BadString",
                   start |-> Peek.start]
  <2>4. e \in Complaint /\ e.kind \notin {"EofInBlock", "UnclosedParen"}
    <3>1. Peek.start \in 1..Len(src)  BY <2>1, TokenIs DEF TypeInv, TypeOK
    <3>2. QED  BY <3>1 DEF Complaint
  <2>5. errors' = errors \o <<e>> \/ errors' = errors \o <<>>  BY <2>1 DEF BadString
  <2> HIDE DEF e
  <2>6. CASE errors' = errors \o <<e>>
    <3>1. errors' = Append(errors, e)  BY <2>3, <2>4, <2>6, AppendIsConcat
    <3>2. QED  BY <2>2, <2>3, <2>4, <3>1, UnclosedPushed
  <2>7. CASE errors' = errors \o <<>>
    <3>1. errors' = errors  BY <2>3, <2>7, ConcatEmptySeq
    <3>2. QED  BY <2>2, <3>1 DEF Unclosed
  <2>8. QED  BY <2>5, <2>6, <2>7
<1>2. CASE BeginTemplate \/ OpenInterpolation \/ TakeOfExpression \/ CloseInterpolation
           \/ ScanPiece \/ EofInTemplate \/ UNCHANGED vars
  <2>1. mode = "scan" /\ UNCHANGED <<scan, errors>>
    BY <1>2 DEF BeginTemplate, OpenInterpolation, TakeOfExpression, CloseInterpolation, ScanPiece,
                InExpression, InPiece, EofInTemplate, vars
  <2>2. QED  BY <2>1 DEF NoneYet, Declaration, Unclosed
<1>3. ASSUME Fail \/ Stop \/ StopAtCloser \/ TakeRawImportant \/ Return PROVE FALSE
  BY <1>3 DEF Fail, Stop, StopAtCloser, TakeRawImportant, Return
<1>4. ASSUME OpenArgs PROVE FALSE  BY <1>4 DEF OpenArgs, Declaration
<1>5. QED
  BY <1>1, <1>2, <1>3, <1>4
  DEF Next, TokenizerFails, Reject, RejectExpression, PieceFails, CallerRejects

LEMMA EofErrorStop ==
    ASSUME TypeInv, Strings, PairsOpen, NoneYet, Stop, Declaration
    PROVE  IF Peek.kind = "eof" /\ LeftOpen # <<>>
             THEN \E k \in 1..Len(errors') :
                    /\ Unclosed' = {k} /\ errors'[k].start = LeftOpen[1].at
                    /\ errors'[k].kind = "EofInBlock" <=> LeftOpen[1].by = "lbrace"
             ELSE Unclosed' = {}
<1>1. mode = "scan" /\ templates = <<>> /\ ~Pieces /\ Balancing
  BY DEF Stop, Scanning, Declaration, Pieces, Balancing
<1>2. Reading  BY <1>1, BalancingReads
<1>3. Unclosed = {} /\ PairsAre  BY <1>1 DEF NoneYet, PairsOpen, Cut
<1>4. errors \in Seq(Complaint) /\ pairs \in Seq(Pair)  BY DEF TypeInv, TypeOK
<1>5. ASSUME Peek.kind = "eof"
      PROVE  /\ LeftOpen = Trim(Nesting[Base]) /\ LeftOpen \in Seq(Mark) /\ ~Innards(LeftOpen)
             /\ Matches(LeftOpen, pairs)
             /\ pairs # <<>> => outermost = LeftOpen[1].at
  BY <1>1, <1>2, <1>3, <1>5, OpenAtEof DEF PairsAre
<1>6. CASE Peek.kind = "eof" /\ pairs # <<>>
  <2> DEFINE e == [kind |-> IF Head(pairs) = "Brace" THEN "EofInBlock" ELSE "UnclosedParen",
                   start |-> outermost]
             n == Len(errors) + 1
  <2>1. errors' = Append(errors, e)  BY <1>6 DEF Stop
  <2>0. LeftOpen \in Seq(Mark) /\ ~Innards(LeftOpen) /\ Matches(LeftOpen, pairs)
        /\ outermost = LeftOpen[1].at
    BY <1>5, <1>6
  <2>2. Len(pairs) \in Nat /\ Len(pairs) # 0 /\ Len(LeftOpen) = Len(pairs)
    BY <1>4, <1>5, <1>6, LenProperties, EmptySeq DEF Matches
  <2>3. 1 \in 1..Len(pairs) /\ Head(pairs) = pairs[1] /\ LeftOpen # <<>>
    BY <2>2
  <2>4. LeftOpen[1] \in Mark /\ 1 \in 1..Len(LeftOpen)
    <3>1. 1 \in 1..Len(LeftOpen)  BY <2>2, <2>3
    <3>2. QED  BY <2>0, <3>1, ElementOfSeq
  <2>5. LeftOpen[1].by \in Opens /\ LeftOpen[1].by \notin Quote /\ LeftOpen[1].at \in 1..Len(src)
    BY <2>0, <2>4 DEF Mark, Innards
  <2>6. PairOf[LeftOpen[1].by] = pairs[1]  BY <2>0, <2>4 DEF Matches
  <2>7. pairs[1] = "Brace" <=> LeftOpen[1].by = "lbrace"
    BY <2>5, <2>6, PairsOfKinds DEF Opens
  <2>8. e \in Complaint /\ e.start = LeftOpen[1].at
    BY <1>5, <1>6, <2>5 DEF Complaint
  <2>9. e.kind \in {"EofInBlock", "UnclosedParen"}
        /\ (e.kind = "EofInBlock" <=> LeftOpen[1].by = "lbrace")
    BY <2>3, <2>7
  <2> HIDE DEF e
  <2>10. Unclosed' = {n}  BY <1>3, <1>4, <2>1, <2>8, <2>9, UnclosedPushed
  <2>11. Len(errors') = n /\ errors'[n] = e /\ n \in 1..Len(errors')
    <3>1. Len(errors) \in Nat  BY <1>4, LenProperties
    <3>2. Len(errors') = n /\ errors'[n] = e  BY <1>4, <2>1, <2>8, PushProperties
    <3>3. QED  BY <3>1, <3>2
  <2> HIDE DEF n
  <2>12. QED  BY <1>6, <2>3, <2>8, <2>9, <2>10, <2>11
<1>7. CASE ~(Peek.kind = "eof" /\ pairs # <<>>)
  <2>1. errors' = errors  BY <1>7 DEF Stop
  <2>2. Unclosed' = {}  BY <1>3, <2>1 DEF Unclosed
  <2>3. ~(Peek.kind = "eof" /\ LeftOpen # <<>>)
    <3>1. SUFFICES ASSUME Peek.kind = "eof" PROVE LeftOpen = <<>>  OBVIOUS
    <3>2. pairs = <<>> /\ Matches(LeftOpen, pairs) /\ LeftOpen \in Seq(Mark)
      BY <1>5, <1>7, <3>1
    <3>3. Len(LeftOpen) = 0  BY <3>2 DEF Matches
    <3>4. QED  BY <3>2, <3>3, EmptySeq
  <2>4. QED  BY <2>2, <2>3
<1>8. QED  BY <1>6, <1>7

LEMMA EofErrorStep ==
    ASSUME TypeInv, Strings, PairsOpen, NoneYet, EofErrorAtOpener, [Next]_vars
    PROVE  EofErrorAtOpener'
<1> SUFFICES ASSUME Over', Declaration'
             PROVE  (IF Peek.kind = "eof" /\ LeftOpen # <<>>
                       THEN \E k \in 1..Len(errors) :
                              /\ Unclosed = {k} /\ errors[k].start = LeftOpen[1].at
                              /\ errors[k].kind = "EofInBlock" <=> LeftOpen[1].by = "lbrace"
                       ELSE Unclosed = {})'
  BY DEF EofErrorAtOpener
<1>1. ASSUME UNCHANGED <<src, syntax, pos, depth>> PROVE Peek' = Peek /\ LeftOpen' = LeftOpen
  BY <1>1, PeekStays, NestingStays DEF LeftOpen, Quoted
<1>2. CASE Stop
  <2>1. UNCHANGED <<src, syntax, pos, depth>> /\ Declaration
    BY <1>2 DEF Stop, Declaration
  <2>2. Peek' = Peek /\ LeftOpen' = LeftOpen  BY <1>1, <2>1
  <2>3. QED  BY <1>2, <2>1, <2>2, EofErrorStop
<1>3. CASE StopAtCloser
  <2>1. /\ UNCHANGED <<src, syntax, scan, pos, depth, errors>> /\ mode = "scan" /\ Declaration
        /\ Peek.kind # "eof"
    BY <1>3 DEF StopAtCloser, Scanning, Declaration, Ends, EndsAnywhere
  <2>2. Peek' = Peek  BY <1>1, <2>1
  <2>3. Unclosed' = {}  BY <2>1 DEF NoneYet, Unclosed
  <2>4. QED  BY <2>1, <2>2, <2>3
<1>4. CASE TakeRawImportant \/ Return \/ UNCHANGED vars
  <2>1. UNCHANGED <<src, syntax, scan, pos, depth, errors>> /\ Over /\ Declaration
    BY <1>4 DEF TakeRawImportant, Return, vars, Over, Declaration
  <2>2. Peek' = Peek /\ LeftOpen' = LeftOpen  BY <1>1, <2>1
  <2>3. Unclosed' = Unclosed  BY <2>1 DEF Unclosed
  <2>4. QED  BY <2>1, <2>2, <2>3 DEF EofErrorAtOpener
<1>5. ASSUME \/ Fail \/ TakeToken \/ BeginTemplate \/ OpenInterpolation \/ TakeOfExpression
             \/ CloseInterpolation \/ ScanPiece \/ EofInTemplate \/ OpenArgs
      PROVE  FALSE
  BY <1>5 DEF Fail, TakeToken, Scanning, BeginTemplate, OpenInterpolation, TakeOfExpression,
              CloseInterpolation, ScanPiece, InExpression, InPiece, EofInTemplate, OpenArgs, Over
<1>6. QED
  BY <1>2, <1>3, <1>4, <1>5
  DEF Next, TokenizerFails, Reject, RejectExpression, PieceFails, CallerRejects

RunInv == TypeInv /\ Strings /\ PairsOpen /\ NoneYet

LEMMA RunInvInit == Init => RunInv
<1> SUFFICES ASSUME Init PROVE NoneYet  BY TypeInit, StringsInit, PairsInit DEF RunInv
<1>1. Len(errors) = 0  BY DEF Init
<1>2. QED  BY <1>1 DEF NoneYet, Unclosed

LEMMA RunInvStep == RunInv /\ [Next]_vars => RunInv'
  BY TypeStep, StringsStep, PairsStep, NoneYetStep DEF RunInv

\* A value that is not closed is reported once, as a block or a parenthesis and at
\* the opener of the outermost pair still open at the end of the source, whatever
\* was opened and closed before, in strings and outside them.
THEOREM UnclosedIsOutermost == Spec => []EofErrorAtOpener
<1>1. Init => EofErrorAtOpener  BY DEF Init, EofErrorAtOpener, Over
<1>2. RunInv /\ EofErrorAtOpener /\ [Next]_vars => EofErrorAtOpener'
  BY EofErrorStep DEF RunInv
<1>3. QED  BY <1>1, <1>2, RunInvInit, RunInvStep, PTL DEF Spec

=============================================================================
