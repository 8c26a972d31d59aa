------------------------------- MODULE Stacks -------------------------------
(***************************************************************************)
(* Facts about the stacks and the append-only lists of the components: what *)
(* Append, Front and Last do, and how many indices a predicate picks.       *)
(***************************************************************************)
EXTENDS Integers, SequencesExt, TLAPS, SequenceTheorems, FiniteSetTheorems,
        WellFoundedInduction

LEMMA PushProperties ==
    ASSUME NEW S, NEW s \in Seq(S), NEW e \in S
    PROVE  /\ Append(s, e) \in Seq(S) /\ Append(s, e) # <<>>
           /\ Len(Append(s, e)) = Len(s) + 1
           /\ Last(Append(s, e)) = e
           /\ s # <<>> => Append(s, e)[1] = s[1]
           /\ \A i \in 1..Len(s) : Append(s, e)[i] = s[i]
           /\ Append(s, e)[Len(s) + 1] = e
<1>1. /\ Append(s, e) \in Seq(S) /\ Len(Append(s, e)) = Len(s) + 1
      /\ \A i \in 1..Len(s) : Append(s, e)[i] = s[i]
      /\ Append(s, e)[Len(s) + 1] = e
  BY AppendProperties
<1>2. s # <<>> => 1 \in 1..Len(s)  BY EmptySeq, LenProperties
<1>3. Append(s, e) # <<>>  BY <1>1, EmptySeq, LenProperties
<1>4. QED  BY <1>1, <1>2, <1>3 DEF Last

LEMMA PopProperties ==
    ASSUME NEW S, NEW s \in Seq(S), s # <<>>
    PROVE  /\ Front(s) \in Seq(S)
           /\ Len(s) \in Nat /\ Len(s) >= 1
           /\ Len(Front(s)) = Len(s) - 1
           /\ Last(s) = s[Len(s)] /\ Last(s) \in S
           /\ Len(s) > 1 => Front(s) # <<>> /\ Front(s)[1] = s[1]
           /\ \A i \in 1..(Len(s) - 1) : Front(s)[i] = s[i]
<1>1. Len(s) \in Nat /\ Len(s) >= 1  BY EmptySeq, LenProperties
<1>2. s[Len(s)] \in S  BY <1>1, ElementOfSeq
<1>3. \A i \in 1..(Len(s) - 1) : s[i] \in S  BY <1>1, ElementOfSeq
<1>4. /\ Front(s) \in Seq(S) /\ Len(Front(s)) = Len(s) - 1
      /\ \A i \in 1..(Len(s) - 1) : Front(s)[i] = s[i]
  <2> DEFINE n == Len(s) - 1
  <2>1. n \in 0..Len(s)  BY <1>1
  <2>2. \A i \in 1..n : s[i] \in S  BY <1>3
  <2>3. Front(s) = SubSeq(s, 1, n)  BY DEF Front
  <2> HIDE DEF n
  <2>4. SubSeq(s, 1, n) \in Seq(S) /\ Len(SubSeq(s, 1, n)) = n
        /\ \A i \in 1..n : SubSeq(s, 1, n)[i] = s[i]
    BY <2>1, <2>2, LenProperties, SubSeqProperties
  <2>5. QED  BY <2>3, <2>4 DEF n
<1>5. Len(s) > 1 => 1 \in 1..(Len(s) - 1) /\ Len(Front(s)) # 0  BY <1>1, <1>4
<1>6. QED  BY <1>1, <1>2, <1>4, <1>5, EmptySeq DEF Last

\* A pop undoes a push.
LEMMA FrontOfPush ==
    ASSUME NEW S, NEW s \in Seq(S), NEW e \in S
    PROVE  Front(Append(s, e)) = s
<1> DEFINE w == Append(s, e)
<1>1. /\ w \in Seq(S) /\ w # <<>> /\ Len(w) = Len(s) + 1
      /\ \A i \in 1..Len(s) : w[i] = s[i]
  BY PushProperties
<1> HIDE DEF w
<1>2. /\ Front(w) \in Seq(S) /\ Len(Front(w)) = Len(w) - 1
      /\ \A i \in 1..(Len(w) - 1) : Front(w)[i] = w[i]
  BY <1>1, PopProperties
<1>3. Len(s) \in Nat  BY LenProperties
<1>4. Len(Front(w)) = Len(s) /\ \A i \in 1..Len(s) : Front(w)[i] = s[i]
  BY <1>1, <1>2, <1>3
<1>5. QED  BY <1>2, <1>4, SeqEqual DEF w

\* One more index.
LEMMA IndexAdded ==
    ASSUME NEW n \in Nat, NEW I \in SUBSET (1..n)
    PROVE  /\ IsFiniteSet(I) /\ Cardinality(I) \in Nat
           /\ Cardinality(I \cup {n + 1}) = Cardinality(I) + 1
           /\ Cardinality(I) = 0 <=> I = {}
<1>1. IsFiniteSet(1..n)  BY FS_Interval
<1>2. IsFiniteSet(I)  BY <1>1, FS_Subset
<1>3. n + 1 \notin I  OBVIOUS
<1>4. QED  BY <1>2, <1>3, FS_CardinalityType, FS_AddElement, FS_EmptySet

\* Every set of naturals that is not empty has a least element.
LEMMA LeastNatural ==
    ASSUME NEW S \in SUBSET Nat, S # {}
    PROVE  \E j \in S : \A k \in S : j <= k
<1> DEFINE R == OpToRel(<, Nat)
<1>1. IsWellFoundedOn(R, Nat)  BY NatLessThanWellFounded
<1>2. \A x, y \in Nat : y < x => <<y, x>> \in R  BY DEF OpToRel
<1> HIDE DEF R
<1>3. PICK j \in S : \A k \in S : ~ (<<k, j>> \in R)  BY <1>1, WFMin
<1>4. ASSUME NEW k \in S PROVE j <= k
  <2>1. j \in Nat /\ k \in Nat  OBVIOUS
  <2>2. ~ (k < j)  BY <1>2, <1>3, <2>1
  <2>3. QED  BY <2>1, <2>2
<1>5. QED  BY <1>4

=============================================================================
