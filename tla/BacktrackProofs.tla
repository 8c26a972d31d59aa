-------------------------- MODULE BacktrackProofs --------------------------
(***************************************************************************)
(* What rolling back keeps true, for every source, every set of contexts    *)
(* and every depth of nested attempts.                                      *)
(***************************************************************************)
EXTENDS Backtrack, Stacks

----------------------------------------------------------------------------
(***************************************************************************)
(* Sequences cut to a prefix.                                               *)
(***************************************************************************)
LEMMA TruncateProperties ==
    ASSUME NEW S, NEW s \in Seq(S), NEW n \in 0..Len(s)
    PROVE  /\ Truncate(s, n) \in Seq(S)
           /\ Len(Truncate(s, n)) = n
           /\ \A i \in 1..n : Truncate(s, n)[i] = s[i]
<1>1. \A i \in 1..n : s[i] \in S  BY ElementOfSeq, LenProperties
<1>2. QED  BY <1>1, LenProperties, SubSeqProperties DEF Truncate

LEMMA TruncateConcat ==
    ASSUME NEW S, NEW s \in Seq(S), NEW t \in Seq(S), NEW n \in 0..Len(s)
    PROVE  Truncate(s \o t, n) = Truncate(s, n)
<1>1. /\ s \o t \in Seq(S) /\ n \in 0..Len(s \o t)
      /\ \A i \in 1..n : (s \o t)[i] = s[i]
  BY ConcatProperties, LenProperties
<1>2. /\ Truncate(s \o t, n) \in Seq(S) /\ Len(Truncate(s \o t, n)) = n
      /\ \A i \in 1..n : Truncate(s \o t, n)[i] = (s \o t)[i]
  BY <1>1, TruncateProperties
<1>3. /\ Truncate(s, n) \in Seq(S) /\ Len(Truncate(s, n)) = n
      /\ \A i \in 1..n : Truncate(s, n)[i] = s[i]
  BY TruncateProperties
<1>4. QED  BY <1>1, <1>2, <1>3, SeqEqual

LEMMA TruncateAppend ==
    ASSUME NEW S, NEW s \in Seq(S), NEW e \in S, NEW n \in 0..Len(s)
    PROVE  Truncate(Append(s, e), n) = Truncate(s, n)
<1>1. /\ <<e>> \in Seq(S) /\ Append(s, e) = s \o <<e>>  BY AppendIsConcat
<1>2. QED  BY <1>1, TruncateConcat, ZenonT(30)

LEMMA TruncateTruncate ==
    ASSUME NEW S, NEW s \in Seq(S), NEW m \in 0..Len(s), NEW n \in 0..m
    PROVE  Truncate(Truncate(s, m), n) = Truncate(s, n)
<1>1. /\ Truncate(s, m) \in Seq(S) /\ Len(Truncate(s, m)) = m
      /\ \A i \in 1..m : Truncate(s, m)[i] = s[i]
  BY TruncateProperties
<1>2. n \in 0..Len(s)  BY LenProperties
<1>3. /\ Truncate(Truncate(s, m), n) \in Seq(S) /\ Len(Truncate(Truncate(s, m), n)) = n
      /\ \A i \in 1..n : Truncate(Truncate(s, m), n)[i] = Truncate(s, m)[i]
  BY <1>1, TruncateProperties
<1>4. /\ Truncate(s, n) \in Seq(S) /\ Len(Truncate(s, n)) = n
      /\ \A i \in 1..n : Truncate(s, n)[i] = s[i]
  BY <1>2, TruncateProperties
<1>5. \A i \in 1..n : Truncate(s, m)[i] = s[i]  BY <1>1, LenProperties
<1>6. QED  BY <1>3, <1>4, <1>5, SeqEqual

LEMMA FrontProperties ==
    ASSUME NEW S, NEW s \in Seq(S), s # <<>>
    PROVE  /\ Front(s) \in Seq(S)
           /\ Len(s) \in Nat \ {0}
           /\ Len(Front(s)) = Len(s) - 1
           /\ \A i \in 1..(Len(s) - 1) : Front(s)[i] = s[i]
           /\ Last(s) = s[Len(s)]
           /\ Last(s) \in S
<1>1. Len(s) \in Nat \ {0}  BY EmptySeq
<1>2. Front(s) = Truncate(s, Len(s) - 1)  BY DEF Front, Truncate
<1>3. Len(s) - 1 \in 0..Len(s)  BY <1>1
<1>4. s[Len(s)] \in S  BY <1>1, ElementOfSeq
<1>5. QED  BY <1>1, <1>2, <1>3, <1>4, TruncateProperties DEF Last

----------------------------------------------------------------------------
(***************************************************************************)
(* Reading keeps every item dealt with once: skipping comments, owning a    *)
(* token, keeping one back, and owning the one kept back.                   *)
(***************************************************************************)
LEMMA SkipProperties ==
    ASSUME NEW i \in Nat \ {0}, NEW k \in Nat, i <= k
    PROVE  /\ Skip(i, k) \in Seq(Nat)
           /\ Range(Skip(i, k)) = i..(k - 1)
           /\ Increasing(Skip(i, k))
<1> DEFINE s == Skip(i, k)
<1>1. s \in [1..(k - i) -> Nat]  BY DEF Skip
<1>2. s \in Seq(Nat) /\ Len(s) = k - i  BY <1>1, SeqDef
<1>3. DOMAIN s = 1..(k - i) /\ \A n \in 1..(k - i) : s[n] = i + n - 1  BY DEF Skip
<1>4. Range(s) \subseteq i..(k - 1)  BY <1>3 DEF Range
<1>5. ASSUME NEW x \in i..(k - 1) PROVE x \in Range(s)
  <2>1. x - i + 1 \in 1..(k - i) /\ i + (x - i + 1) - 1 = x  OBVIOUS
  <2>2. x = s[x - i + 1]  BY <2>1, <1>3
  <2>3. QED  BY <2>1, <2>2, <1>3 DEF Range
<1>6. Increasing(s)  BY <1>2, <1>3 DEF Increasing
<1>7. QED  BY <1>2, <1>4, <1>5, <1>6

LEMMA IncreasingConcat ==
    ASSUME NEW s \in Seq(Nat), NEW t \in Seq(Nat), Increasing(s), Increasing(t),
           \A x \in Range(s), y \in Range(t) : x < y
    PROVE  Increasing(s \o t)
<1>1. /\ s \o t \in Seq(Nat) /\ Len(s \o t) = Len(s) + Len(t)
      /\ \A i \in 1..(Len(s) + Len(t)) :
            (s \o t)[i] = IF i <= Len(s) THEN s[i] ELSE t[i - Len(s)]
  BY ConcatProperties
<1>2. Len(s) \in Nat /\ Len(t) \in Nat  BY LenProperties
<1>3. SUFFICES ASSUME NEW m \in 1..(Len(s) + Len(t)), NEW n \in 1..(Len(s) + Len(t)), m < n
              PROVE  (s \o t)[m] < (s \o t)[n]
  BY <1>1 DEF Increasing
<1>4. CASE n <= Len(s)  BY <1>1, <1>2, <1>3, <1>4 DEF Increasing
<1>5. CASE m > Len(s)
  <2>1. m - Len(s) \in 1..Len(t) /\ n - Len(s) \in 1..Len(t) /\ m - Len(s) < n - Len(s)
    BY <1>2, <1>3, <1>5
  <2>2. t[m - Len(s)] < t[n - Len(s)]  BY <2>1 DEF Increasing
  <2>3. QED  BY <1>1, <1>2, <1>3, <1>5, <2>2
<1>6. CASE m <= Len(s) /\ n > Len(s)
  <2>1. m \in DOMAIN s /\ n - Len(s) \in DOMAIN t  BY <1>2, <1>3, <1>6, LenProperties
  <2>2. s[m] \in Range(s) /\ t[n - Len(s)] \in Range(t)  BY <2>1 DEF Range
  <2>3. s[m] < t[n - Len(s)]  BY <2>2
  <2>4. QED  BY <1>1, <1>2, <1>3, <1>6, <2>3
<1>7. QED  BY <1>2, <1>4, <1>5, <1>6

LEMMA AppendRange ==
    ASSUME NEW s \in Seq(Nat), NEW e \in Nat
    PROVE  /\ Append(s, e) = s \o <<e>> /\ <<e>> \in Seq(Nat)
           /\ Range(<<e>>) = {e}
           /\ Range(Append(s, e)) = Range(s) \cup {e}
<1>1. <<e>> \in Seq(Nat)  OBVIOUS
<1>2. Append(s, e) = s \o <<e>>  BY AppendIsConcat
<1>3. Range(s \o <<e>>) = Range(s) \cup Range(<<e>>)  BY <1>1, RangeConcatenation, ZenonT(30)
<1>4. Range(<<e>>) = {e}  BY DEF Range
<1>5. QED  BY <1>1, <1>2, <1>3, <1>4

LEMMA IncreasingAppend ==
    ASSUME NEW s \in Seq(Nat), NEW e \in Nat, Increasing(s), \A x \in Range(s) : x < e
    PROVE  Increasing(Append(s, e))
<1>1. Increasing(<<e>>)  BY DEF Increasing
<1>2. \A x \in Range(s), y \in Range(<<e>>) : x < y  BY AppendRange
<1>3. <<e>> \in Seq(Nat)  OBVIOUS
<1>4. Increasing(s \o <<e>>)  BY <1>1, <1>2, <1>3, IncreasingConcat
<1>5. QED  BY <1>4, AppendRange

LEMMA PartitionBounds ==
    ASSUME NEW n \in Int, NEW A, NEW B, NEW C, Partition(n, A, B, C)
    PROVE  /\ \A x \in A : x \in Nat /\ x <= n
           /\ \A x \in B : x \in Nat /\ x <= n
BY DEF Partition

LEMMA PartitionSkip ==
    ASSUME NEW pos \in Nat, pos >= 1, NEW k \in Nat, pos <= k, NEW A, NEW B,
           Partition(pos - 1, A, B, {})
    PROVE  Partition(k - 1, A, B \cup (pos..(k - 1)), {})
BY DEF Partition

LEMMA PartitionOwn ==
    ASSUME NEW k \in Nat, k >= 1, NEW A, NEW B, Partition(k - 1, A, B, {})
    PROVE  Partition(k, A \cup {k}, B, {})
BY DEF Partition

LEMMA PartitionKeep ==
    ASSUME NEW k \in Nat, k >= 1, NEW A, NEW B, Partition(k - 1, A, B, {})
    PROVE  Partition(k, A, B, {k})
BY DEF Partition

LEMMA PartitionRelease ==
    ASSUME NEW k \in Nat, k >= 1, NEW A, NEW B, Partition(k, A, B, {k})
    PROVE  /\ Partition(k, A \cup {k}, B, {})
           /\ \A x \in A : x < k
BY DEF Partition

\* With no token kept back.
LEMMA OnceUncached ==
    ASSUME NEW len, NEW pos, NEW cs, NEW nodes
    PROVE  Once(len, pos, cs, 0, nodes) <=>
             /\ Increasing(nodes) /\ Increasing(cs)
             /\ Partition(pos - 1, Range(nodes), Range(cs), {})
<1>1. {0} \ {0, len + 1} = {}  OBVIOUS
<1>2. QED  BY <1>1 DEF Once

LEMMA OnceSkip ==
    ASSUME NEW len \in Nat, NEW pos \in Nat, pos >= 1, NEW k \in Nat, pos <= k,
           NEW cs \in Seq(Nat), NEW nodes \in Seq(Nat), Once(len, pos, cs, 0, nodes)
    PROVE  Once(len, k, cs \o Skip(pos, k), 0, nodes)
<1> DEFINE read == Skip(pos, k)
<1>1. read \in Seq(Nat) /\ Range(read) = pos..(k - 1) /\ Increasing(read)  BY SkipProperties
<1> HIDE DEF read
<1>2. Range(cs \o read) = Range(cs) \cup (pos..(k - 1))  BY <1>1, RangeConcatenation
<1>3. Increasing(nodes) /\ Increasing(cs) /\ Partition(pos - 1, Range(nodes), Range(cs), {})
  BY OnceUncached
<1>4. \A x \in Range(cs) : x \in Nat /\ x <= pos - 1
  <2>1. pos - 1 \in Int  OBVIOUS
  <2>2. QED  BY <1>3, <2>1, PartitionBounds
<1>5. \A x \in Range(cs), y \in Range(read) : x < y  BY <1>1, <1>4
<1>6. Increasing(cs \o read)  BY <1>1, <1>3, <1>5, IncreasingConcat
<1>7. Partition(k - 1, Range(nodes), Range(cs \o read), {})  BY <1>2, <1>3, PartitionSkip, ZenonT(30)
<1>8. Once(len, k, cs \o read, 0, nodes)  BY <1>3, <1>6, <1>7, OnceUncached
<1>9. QED  BY <1>8 DEF read

LEMMA OnceOwn ==
    ASSUME NEW len \in Nat, NEW k \in Nat, k >= 1, k <= len,
           NEW cs \in Seq(Nat), NEW nodes \in Seq(Nat), Once(len, k, cs, 0, nodes)
    PROVE  Once(len, k + 1, cs, 0, Append(nodes, k))
<1>1. Increasing(nodes) /\ Increasing(cs) /\ Partition(k - 1, Range(nodes), Range(cs), {})
  BY OnceUncached
<1>2. Range(Append(nodes, k)) = Range(nodes) \cup {k}  BY AppendRange
<1>3. \A x \in Range(nodes) : x \in Nat /\ x < k
  <2>1. k - 1 \in Int  OBVIOUS
  <2>2. \A x \in Range(nodes) : x \in Nat /\ x <= k - 1  BY <1>1, <2>1, PartitionBounds
  <2>3. QED  BY <2>2
<1>4. Increasing(Append(nodes, k))  BY <1>1, <1>3, IncreasingAppend
<1>5. Partition(k, Range(Append(nodes, k)), Range(cs), {})  BY <1>1, <1>2, PartitionOwn
<1>6. (k + 1) - 1 = k  OBVIOUS
<1>7. QED  BY <1>1, <1>4, <1>5, <1>6, OnceUncached

LEMMA OnceKeep ==
    ASSUME NEW len \in Nat, NEW k \in Nat, k >= 1, k <= len + 1,
           NEW cs \in Seq(Nat), NEW nodes \in Seq(Nat), Once(len, k, cs, 0, nodes)
    PROVE  Once(len, IF k > len THEN k ELSE k + 1, cs, k, nodes)
<1>1. Increasing(nodes) /\ Increasing(cs) /\ Partition(k - 1, Range(nodes), Range(cs), {})
  BY OnceUncached
<1>2. CASE k > len
  <2>1. {k} \ {0, len + 1} = {}  BY <1>2
  <2>2. k <= len + 1 /\ (IF k > len THEN k ELSE k + 1) = k  BY <1>2
  <2>3. QED  BY <1>1, <2>1, <2>2 DEF Once
<1>3. CASE k <= len
  <2>1. {k} \ {0, len + 1} = {k}  BY <1>3
  <2>2. Partition(k, Range(nodes), Range(cs), {k})  BY <1>1, PartitionKeep
  <2>3. k <= len + 1 /\ (IF k > len THEN k ELSE k + 1) = k + 1 /\ (k + 1) - 1 = k  BY <1>3
  <2>4. QED  BY <1>1, <2>1, <2>2, <2>3 DEF Once
<1>4. k > len \/ k <= len  OBVIOUS
<1>5. QED  BY <1>2, <1>3, <1>4

LEMMA OnceRelease ==
    ASSUME NEW len \in Nat, NEW pos \in Nat, NEW ca \in Nat, ca # 0,
           NEW cs \in Seq(Nat), NEW nodes \in Seq(Nat), Once(len, pos, cs, ca, nodes)
    PROVE  Once(len, pos, cs, 0, IF ca > len THEN nodes ELSE Append(nodes, ca))
<1>1. /\ Increasing(nodes) /\ Increasing(cs)
      /\ Partition(pos - 1, Range(nodes), Range(cs), {ca} \ {0, len + 1})
      /\ ca <= len + 1 /\ pos = IF ca > len THEN ca ELSE ca + 1
  BY DEF Once
<1>2. CASE ca > len
  <2>1. {ca} \ {0, len + 1} = {}  BY <1>1, <1>2
  <2>2. QED  BY <1>1, <1>2, <2>1, OnceUncached
<1>3. CASE ca <= len
  <2>1. {ca} \ {0, len + 1} = {ca} /\ pos - 1 = ca  BY <1>1, <1>3
  <2>2. Partition(ca, Range(nodes), Range(cs), {ca})  BY <1>1, <2>1
  <2>3. Range(Append(nodes, ca)) = Range(nodes) \cup {ca}  BY AppendRange
  <2>4. /\ Partition(pos - 1, Range(Append(nodes, ca)), Range(cs), {})
        /\ \A x \in Range(nodes) : x < ca
    <3>1. ca >= 1  OBVIOUS
    <3>2. /\ Partition(ca, Range(nodes) \cup {ca}, Range(cs), {})
          /\ \A x \in Range(nodes) : x < ca
      BY <2>2, <3>1, PartitionRelease
    <3>3. QED  BY <2>1, <2>3, <3>2
  <2>5. Increasing(Append(nodes, ca))  BY <1>1, <2>4, IncreasingAppend
  <2>6. Once(len, pos, cs, 0, Append(nodes, ca))  BY <1>1, <2>4, <2>5, OnceUncached
  <2>7. ~(ca > len)  BY <1>3
  <2>8. QED  BY <2>6, <2>7
<1>4. ca > len \/ ca <= len  OBVIOUS
<1>5. QED  BY <1>2, <1>3, <1>4

----------------------------------------------------------------------------
(***************************************************************************)
(* Type correctness.                                                        *)
(***************************************************************************)
LEMMA FrameKinds ==
    ASSUME NEW f \in Frame
    PROVE  /\ f.kind \in {"try", "typed", "with", "raw"}
           /\ IsSnapshot(f) => f \in TryFrame
           /\ f.kind = "with" => f.ctx \in Contexts
           /\ f.kind = "raw" => f.lineComments \in BOOLEAN
BY DEF Frame, TryFrame, IsSnapshot

LEMMA LinesType == ASSUME NEW seq \in Seq(Nat) PROVE Lines(seq) \in Nat
<1> DEFINE D == {n \in 1..Len(seq) : ItemAt(seq[n]) = "line"}
<1>1. IsFiniteSet(1..Len(seq))  BY LenProperties, FS_Interval
<1>2. D \subseteq 1..Len(seq)  OBVIOUS
<1>3. IsFiniteSet(D)  BY <1>1, <1>2, FS_Subset
<1>4. QED  BY <1>3, FS_CardinalityType DEF Lines

LEMMA AdvanceType ==
    ASSUME TypeOK, NEW k \in Nat, tok.pos <= k, k <= Len(items) + 1, Advance(k)
    PROVE  /\ tok' \in TokState
           /\ tok'.pos = IF k > Len(items) THEN k ELSE k + 1
           /\ tok'.lineComments = tok.lineComments
           /\ Skip(tok.pos, k) \in Seq(Nat)
           /\ comments' = comments \o Skip(tok.pos, k)
           /\ comments' \in Seq(Nat)
<1>1. tok \in TokState /\ comments \in Seq(Nat)  BY DEF TypeOK
<1>2. tok.pos \in Nat \ {0}  BY <1>1 DEF TokState
<1>3. Skip(tok.pos, k) \in Seq(Nat)  BY <1>2, SkipProperties
<1>4. Lines(Skip(tok.pos, k)) \in Nat  BY <1>3, LinesType
<1>5. tok' = [tok EXCEPT !.pos = Past(k), !.seen = @ + Lines(Skip(tok.pos, k))]  BY DEF Advance
<1>6. Past(k) = IF k > Len(items) THEN k ELSE k + 1  BY DEF Past
<1>7. Past(k) \in Nat \ {0}  BY <1>2, <1>6
<1>8. comments' = comments \o Skip(tok.pos, k)  BY DEF Advance
<1>9. comments' \in Seq(Nat)  BY <1>1, <1>3, <1>8, ConcatProperties
<1>10. tok' \in TokState /\ tok'.pos = Past(k) /\ tok'.lineComments = tok.lineComments
  <2> DEFINE p == Past(k)
             l == Lines(Skip(tok.pos, k))
  <2>1. p \in Nat \ {0} /\ l \in Nat /\ tok' = [tok EXCEPT !.pos = p, !.seen = @ + l]
    BY <1>4, <1>5, <1>7
  <2> HIDE DEF p, l
  <2>2. tok.seen + l \in Nat  BY <1>1, <2>1 DEF TokState
  <2>3. tok' \in TokState /\ tok'.pos = p /\ tok'.lineComments = tok.lineComments
    BY <1>1, <2>1, <2>2 DEF TokState
  <2>4. QED  BY <2>3 DEF p
<1>11. QED  BY <1>3, <1>6, <1>8, <1>9, <1>10

LEMMA OwnType ==
    ASSUME ast \in Seq(Nat), NEW k \in Nat, Own(k)
    PROVE  ast' \in Seq(Nat)
BY AppendProperties DEF Own

LEMMA TakeNextType ==
    ASSUME TypeOK, NEW k \in 1..Len(items), TakeNext(k)
    PROVE  /\ tok' \in TokState /\ comments' \in Seq(Nat)
           /\ cached' \in Nat /\ ast' \in Seq(Nat)
<1>1. k \in Nat /\ k <= Len(items) + 1 /\ cached' = 0 /\ cached' \in Nat
  BY LenProperties DEF TypeOK, TakeNext
<1>2. ast' \in Seq(Nat)  BY <1>1, OwnType DEF TypeOK, TakeNext
<1>3. CASE cached # 0  BY <1>1, <1>2, <1>3 DEF TakeNext, TypeOK
<1>4. CASE cached = 0
  <2>1. Advance(k) /\ tok.pos <= k  BY <1>4 DEF TakeNext, BumpsTo
  <2>2. QED  BY <1>1, <1>2, <2>1, AdvanceType
<1>5. QED  BY <1>3, <1>4

LEMMA FramesType ==
    ASSUME frames \in Seq(Frame)
    PROVE  /\ \A f \in Frame : Append(frames, f) \in Seq(Frame)
           /\ frames # <<>> => Front(frames) \in Seq(Frame) /\ Top \in Frame
<1>1. \A f \in Frame : Append(frames, f) \in Seq(Frame)  BY AppendProperties
<1>2. frames # <<>> => Front(frames) \in Seq(Frame) /\ Top \in Frame
  BY FrontProperties DEF Top
<1>3. QED  BY <1>1, <1>2

LEMMA TypeInit == Init => TypeOK
<1>1. SUFFICES ASSUME Init PROVE TypeOK  OBVIOUS
<1>2. items \in Seq(Item)  BY <1>1, BacktrackAssumption DEF Init
<1>3. tok \in TokState  BY <1>1 DEF Init, TokState
<1>4. <<>> \in Seq(Nat) /\ <<>> \in Seq(Frame)  BY EmptySeq
<1>5. QED  BY <1>1, <1>2, <1>3, <1>4 DEF Init, TypeOK

\* A snapshot saves what it should.
LEMMA SnapshotType ==
    ASSUME TypeOK, NEW kind \in {"try", "typed"}
    PROVE  Snapshot(kind) \in TryFrame /\ Snapshot(kind) \in Frame
<1>1. Len(comments) \in Nat /\ Len(errors) \in Nat /\ Len(ast) \in Nat
  BY LenProperties DEF TypeOK
<1>2. QED  BY <1>1 DEF TypeOK, Snapshot, TryFrame, Frame

LEMMA RestoreType ==
    ASSUME TypeOK, SnapshotsNest, frames # <<>>, IsSnapshot(Top), RestoreFrom(Top)
    PROVE  /\ Top \in TryFrame
           /\ Top = frames[Len(frames)]
           /\ Top.nComments \in 0..Len(comments) /\ comments' \in Seq(Nat)
           /\ Top.nErrors \in 0..Len(errors) /\ errors' \in Seq(Nat)
           /\ Top.nAst \in 0..Len(ast) /\ ast' \in Seq(Nat)
           /\ tok' \in TokState /\ cached' \in Nat /\ pending' \in Nat
<1>1. /\ Top \in Frame /\ Top = frames[Len(frames)] /\ Len(frames) \in 1..Len(frames)
  BY FrontProperties DEF TypeOK, Top
<1>2. Top \in TryFrame  BY <1>1, FrameKinds
<1>3. /\ Top.nComments \in 0..Len(comments)
      /\ Top.nErrors \in 0..Len(errors)
      /\ Top.nAst \in 0..Len(ast)
  BY <1>1, <1>2, LenProperties DEF SnapshotsNest, TryFrame, TypeOK
<1>4. comments' \in Seq(Nat) /\ errors' \in Seq(Nat) /\ ast' \in Seq(Nat)
  BY <1>3, TruncateProperties DEF RestoreFrom, TypeOK
<1>5. tok' \in TokState /\ cached' \in Nat /\ pending' \in Nat
  BY <1>2 DEF RestoreFrom, TryFrame
<1>6. QED  BY <1>1, <1>2, <1>3, <1>4, <1>5

\* A step of any action keeps every variable in its type; rolling back needs to
\* know that the saved lengths are lengths of what is there.
LEMMA TypeStep == TypeOK /\ SnapshotsNest /\ [Next]_vars => TypeOK'
<1>1. SUFFICES ASSUME TypeOK, SnapshotsNest, [Next]_vars PROVE TypeOK'  OBVIOUS
<1> USE <1>1
<1>2. CASE Peek
  <2>1. PICK k \in Rest : BumpsTo(k) /\ Advance(k) /\ cached' = k  BY <1>2 DEF Peek
  <2>2. k \in Nat /\ tok.pos <= k /\ k <= Len(items) + 1
    BY <2>1 DEF TypeOK, TokState, Rest
  <2>3. tok' \in TokState /\ comments' \in Seq(Nat) /\ cached' \in Nat
    BY <2>1, <2>2, AdvanceType
  <2>4. QED  BY <1>2, <2>3 DEF Peek, TypeOK
<1>3. CASE BumpCached
  <2>1. ast' \in Seq(Nat) /\ cached' \in Nat  BY <1>3, OwnType DEF BumpCached, TypeOK
  <2>2. QED  BY <1>3, <2>1 DEF BumpCached, TypeOK
<1>4. CASE BumpFresh
  <2>1. PICK k \in Rest : BumpsTo(k) /\ Advance(k) /\ Own(k)  BY <1>4 DEF BumpFresh
  <2>2. k \in Nat /\ tok.pos <= k /\ k <= Len(items) + 1
    BY <2>1 DEF TypeOK, TokState, Rest
  <2>3. tok' \in TokState /\ comments' \in Seq(Nat)  BY <2>1, <2>2, AdvanceType
  <2>4. ast' \in Seq(Nat)  BY <2>1, <2>2, OwnType DEF TypeOK
  <2>5. QED  BY <1>4, <2>3, <2>4 DEF BumpFresh, TypeOK
<1>5. CASE BumpGlued
  <2>1. /\ tok.pos \in Nat /\ tok.pos <= Len(items) + 1
        /\ Advance(tok.pos) /\ Own(tok.pos)
    BY <1>5, LenProperties DEF BumpGlued, ItemAt, TypeOK, TokState
  <2>2. tok' \in TokState /\ comments' \in Seq(Nat)  BY <2>1, AdvanceType
  <2>3. ast' \in Seq(Nat)  BY <2>1, OwnType DEF TypeOK
  <2>4. QED  BY <1>5, <2>2, <2>3 DEF BumpGlued, TypeOK
<1>6. CASE PushError
  <2>1. errors' \in Seq(Nat)  BY <1>6, AppendProperties DEF PushError, TypeOK, TokState
  <2>2. QED  BY <1>6, <2>1 DEF PushError, TypeOK
<1>7. CASE EatLineContinuation
  <2>1. PICK k \in 1..Len(items) :
           /\ TakeNext(k)
           /\ pending' = IF ItemAt(k) = "indent" THEN pending + 1 ELSE pending
    BY <1>7 DEF EatLineContinuation
  <2>2. pending' \in Nat  BY <2>1 DEF TypeOK
  <2>3. QED  BY <1>7, <2>1, <2>2, TakeNextType DEF EatLineContinuation, TypeOK
<1>8. CASE DrainPendingDedents
  <2>1. PICK k \in 1..Len(items) : TakeNext(k)  BY <1>8 DEF DrainPendingDedents
  <2>2. pending' \in Nat  BY <1>8 DEF DrainPendingDedents, TypeOK
  <2>3. QED  BY <1>8, <2>1, <2>2, TakeNextType DEF DrainPendingDedents, TypeOK
<1>9. CASE EnterVirtualBlock
  BY <1>9 DEF EnterVirtualBlock, TypeOK
<1>10. CASE TryBegin
  <2>1. PICK kind \in {"try", "typed"} : frames' = Append(frames, Snapshot(kind))
    BY <1>10 DEF TryBegin
  <2>2. frames' \in Seq(Frame)  BY <2>1, SnapshotType, FramesType DEF TypeOK
  <2>3. QED  BY <1>10, <2>2 DEF TryBegin, TypeOK
<1>11. CASE TryOk
  BY <1>11, FramesType DEF TryOk, Open, TypeOK
<1>12. CASE TypedOk
  BY <1>12, FramesType DEF TypedOk, Open, TypeOK
<1>13. CASE TryErr
  <2>1. frames # <<>> /\ IsSnapshot(Top) /\ RestoreFrom(Top) /\ frames' = Front(frames)
    BY <1>13 DEF TryErr, Open, IsSnapshot
  <2>2. frames' \in Seq(Frame)  BY <2>1, FramesType DEF TypeOK
  <2>3. QED  BY <1>13, <2>1, <2>2, RestoreType DEF TryErr, TypeOK
<1>14. CASE Err
  BY <1>14 DEF Err, TypeOK
<1>15. CASE \E c \in Contexts : WithState(c)
  <2>1. PICK c \in Contexts : WithState(c)  BY <1>15
  <2>2. [kind |-> "with", ctx |-> ctx] \in Frame  BY DEF TypeOK, Frame
  <2>3. frames' \in Seq(Frame)  BY <2>1, <2>2, FramesType DEF WithState, TypeOK
  <2>4. QED  BY <2>1, <2>3 DEF WithState, TypeOK
<1>16. CASE DropState
  <2>1. frames' \in Seq(Frame) /\ Top.ctx \in Contexts
    BY <1>16, FramesType, FrameKinds DEF DropState, Open, TypeOK
  <2>2. QED  BY <1>16, <2>1 DEF DropState, TypeOK
<1>17. CASE RawBegin
  <2>1. [kind |-> "raw", lineComments |-> tok.lineComments] \in Frame
    BY DEF TypeOK, TokState, Frame
  <2>2. frames' \in Seq(Frame)  BY <1>17, <2>1, FramesType DEF RawBegin, TypeOK
  <2>3. tok' \in TokState  BY <1>17 DEF RawBegin, TypeOK, TokState
  <2>4. QED  BY <1>17, <2>2, <2>3 DEF RawBegin, TypeOK
<1>18. CASE RawEnd
  <2>1. frames' \in Seq(Frame) /\ Top.lineComments \in BOOLEAN
    BY <1>18, FramesType, FrameKinds DEF RawEnd, Open, TypeOK
  <2>2. tok' \in TokState  BY <1>18, <2>1 DEF RawEnd, TypeOK, TokState
  <2>3. QED  BY <1>18, <2>1, <2>2 DEF RawEnd, TypeOK
<1>19. CASE UNCHANGED vars
  BY <1>19 DEF vars, TypeOK
<1>20. QED
  BY <1>1, <1>2, <1>3, <1>4, <1>5, <1>6, <1>7, <1>8, <1>9, <1>10, <1>11, <1>12, <1>13,
     <1>14, <1>15, <1>16, <1>17, <1>18, <1>19 DEF Next

----------------------------------------------------------------------------
(***************************************************************************)
(* Work in progress only extends the lists, and deals with every item once. *)
(***************************************************************************)
Extends(s, t) == \E x \in Seq(Nat) : t = s \o x

LEMMA ExtendsProperties ==
    ASSUME NEW s \in Seq(Nat), NEW t, Extends(s, t)
    PROVE  /\ Len(s) <= Len(t)
           /\ \A n \in 0..Len(s) : Truncate(t, n) = Truncate(s, n)
<1>1. PICK x \in Seq(Nat) : t = s \o x  BY DEF Extends
<1>2. Len(s) <= Len(t)  BY <1>1, ConcatProperties, LenProperties
<1>3. \A n \in 0..Len(s) : Truncate(t, n) = Truncate(s, n)  BY <1>1, TruncateConcat
<1>4. QED  BY <1>2, <1>3

LEMMA ExtendsCases ==
    ASSUME NEW s \in Seq(Nat)
    PROVE  /\ Extends(s, s)
           /\ \A n \in Nat : Extends(s, Append(s, n))
<1>1. <<>> \in Seq(Nat) /\ s \o <<>> = s  BY EmptySeq, ConcatEmptySeq
<1>2. \A n \in Nat : <<n>> \in Seq(Nat) /\ Append(s, n) = s \o <<n>>  BY AppendIsConcat
<1>3. QED  BY <1>1, <1>2 DEF Extends

Grows == /\ items' = items /\ frames' = frames
         /\ tok'.lineComments = tok.lineComments
         /\ Extends(comments, comments') /\ Extends(errors, errors') /\ Extends(ast, ast')

WorkStep == \/ Peek \/ BumpCached \/ BumpFresh \/ BumpGlued \/ PushError
            \/ EatLineContinuation \/ DrainPendingDedents \/ EnterVirtualBlock

\* Reading the items up to the token k, and keeping k or owning it.
LEMMA AdvanceOnce ==
    ASSUME TypeOK, EachItemOnce, cached = 0,
           NEW k \in Nat, tok.pos <= k, k <= Len(items) + 1, Advance(k)
    PROVE  /\ Extends(comments, comments') /\ tok'.lineComments = tok.lineComments
           /\ cached' = k => Once(Len(items), tok'.pos, comments', cached', ast)
           /\ cached' = 0 /\ Own(k)
                => /\ Extends(ast, ast')
                   /\ Once(Len(items), tok'.pos, comments', cached', ast')
<1> DEFINE len == Len(items)
           past == IF k > len THEN k ELSE k + 1
<1>1. /\ len \in Nat /\ tok.pos \in Nat /\ tok.pos >= 1 /\ k >= 1
      /\ comments \in Seq(Nat) /\ ast \in Seq(Nat)
  BY LenProperties DEF TypeOK, TokState
<1>2. /\ tok'.pos = past /\ tok'.lineComments = tok.lineComments
      /\ comments' = comments \o Skip(tok.pos, k) /\ Skip(tok.pos, k) \in Seq(Nat)
      /\ comments' \in Seq(Nat)
  BY AdvanceType
<1>3. Extends(comments, comments')  BY <1>2 DEF Extends
<1>4. Once(len, tok.pos, comments, 0, ast)  BY DEF EachItemOnce
<1> HIDE DEF len
<1>5. Once(len, k, comments', 0, ast)  BY <1>1, <1>2, <1>4, OnceSkip
<1>6. Once(len, past, comments', k, ast)  BY <1>1, <1>2, <1>5, OnceKeep DEF len
<1>7. ASSUME Own(k)
      PROVE  Extends(ast, ast') /\ Once(len, past, comments', 0, ast')
  <2>1. CASE k <= len
    <3>1. ItemAt(k) # "eof"
      <4>1. items[k] \in Item  BY <1>1, <2>1, ElementOfSeq DEF TypeOK, len
      <4>2. QED  BY <2>1, <4>1 DEF ItemAt, Item, len
    <3>2. ast' = Append(ast, k)  BY <1>7, <3>1 DEF Own
    <3>3. Once(len, k + 1, comments', 0, ast')  BY <1>1, <1>2, <1>5, <2>1, <3>2, OnceOwn
    <3>4. past = k + 1  BY <1>1, <2>1
    <3>5. QED  BY <1>1, <3>2, <3>3, <3>4, ExtendsCases
  <2>2. CASE k > len
    <3>1. ItemAt(k) = "eof"  BY <1>1, <2>2 DEF ItemAt, len
    <3>2. ast' = ast /\ past = k  BY <1>7, <2>2, <3>1 DEF Own
    <3>3. QED  BY <1>1, <1>5, <3>2, ExtendsCases
  <2>3. QED  BY <1>1, <2>1, <2>2
<1>8. cached' = k => Once(len, tok'.pos, comments', cached', ast)  BY <1>2, <1>6
<1>9. cached' = 0 /\ Own(k)
        => Extends(ast, ast') /\ Once(len, tok'.pos, comments', cached', ast')
  BY <1>2, <1>7
<1>10. QED  BY <1>2, <1>3, <1>8, <1>9 DEF len

LEMMA ReleaseOnce ==
    ASSUME TypeOK, EachItemOnce, cached # 0, Own(cached)
    PROVE  Extends(ast, ast') /\ Once(Len(items), tok.pos, comments, 0, ast')
<1> DEFINE len == Len(items)
<1>1. /\ len \in Nat /\ tok.pos \in Nat /\ cached \in Nat
      /\ comments \in Seq(Nat) /\ ast \in Seq(Nat)
  BY LenProperties DEF TypeOK, TokState
<1>2. Once(len, tok.pos, comments, cached, ast)  BY DEF EachItemOnce
<1> HIDE DEF len
<1>3. Once(len, tok.pos, comments, 0, IF cached > len THEN ast ELSE Append(ast, cached))
  BY <1>1, <1>2, OnceRelease
<1>4. ast' = IF cached > len THEN ast ELSE Append(ast, cached)
  <2>1. CASE cached > len
    <3>1. ItemAt(cached) = "eof"  BY <1>1, <2>1 DEF ItemAt, len
    <3>2. QED  BY <2>1, <3>1 DEF Own
  <2>2. CASE cached <= len
    <3>1. items[cached] \in Item  BY <1>1, <2>2, ElementOfSeq DEF TypeOK, len
    <3>2. ItemAt(cached) # "eof"  BY <2>2, <3>1 DEF ItemAt, Item, len
    <3>3. ~(cached > len)  BY <1>1, <2>2
    <3>4. QED  BY <3>2, <3>3 DEF Own
  <2>3. QED  BY <1>1, <2>1, <2>2
<1>5. Extends(ast, ast')  BY <1>1, <1>4, ExtendsCases
<1>6. QED  BY <1>3, <1>4, <1>5 DEF len

LEMMA TakeNextOnce ==
    ASSUME TypeOK, EachItemOnce, NEW k \in 1..Len(items), TakeNext(k)
    PROVE  /\ Extends(comments, comments') /\ Extends(ast, ast')
           /\ tok'.lineComments = tok.lineComments
           /\ Once(Len(items), tok'.pos, comments', cached', ast')
<1>1. k \in Nat /\ k <= Len(items) + 1 /\ cached' = 0 /\ Own(k)
  BY LenProperties DEF TypeOK, TakeNext
<1>2. CASE cached # 0
  <2>1. k = cached /\ tok' = tok /\ comments' = comments  BY <1>2 DEF TakeNext
  <2>2. Extends(comments, comments)  BY ExtendsCases DEF TypeOK
  <2>3. Extends(ast, ast') /\ Once(Len(items), tok.pos, comments, 0, ast')
    BY <1>1, <1>2, <2>1, ReleaseOnce
  <2>4. QED  BY <1>1, <2>1, <2>2, <2>3
<1>3. CASE cached = 0
  <2>1. Advance(k) /\ tok.pos <= k  BY <1>3 DEF TakeNext, BumpsTo
  <2>2. QED  BY <1>1, <1>3, <2>1, AdvanceOnce
<1>4. QED  BY <1>2, <1>3

LEMMA WorkGrows ==
    ASSUME TypeOK, EachItemOnce, WorkStep
    PROVE  Grows /\ EachItemOnce'
<1>1. Extends(comments, comments) /\ Extends(errors, errors) /\ Extends(ast, ast)
  BY ExtendsCases DEF TypeOK
<1>2. CASE Peek
  <2>1. PICK k \in Rest : Advance(k) /\ cached' = k  BY <1>2 DEF Peek
  <2>2. k \in Nat /\ tok.pos <= k /\ k <= Len(items) + 1 /\ cached = 0
    BY <1>2, <2>1 DEF TypeOK, TokState, Rest, Peek
  <2>3. /\ Extends(comments, comments') /\ tok'.lineComments = tok.lineComments
        /\ Once(Len(items), tok'.pos, comments', cached', ast)
    BY <2>1, <2>2, AdvanceOnce
  <2>4. QED  BY <1>1, <1>2, <2>3 DEF Peek, Grows, EachItemOnce
<1>3. CASE BumpCached
  <2>1. /\ cached # 0 /\ Own(cached) /\ cached' = 0
        /\ UNCHANGED <<items, tok, comments, errors, frames>>
    BY <1>3 DEF BumpCached
  <2>2. Extends(ast, ast') /\ Once(Len(items), tok.pos, comments, 0, ast')
    BY <2>1, ReleaseOnce
  <2>3. QED  BY <1>1, <2>1, <2>2 DEF Grows, EachItemOnce
<1>4. CASE BumpFresh
  <2>1. PICK k \in Rest : Advance(k) /\ Own(k)  BY <1>4 DEF BumpFresh
  <2>2. /\ k \in Nat /\ tok.pos <= k /\ k <= Len(items) + 1 /\ cached = 0 /\ cached' = 0
        /\ UNCHANGED <<items, errors, frames>>
    BY <1>4, <2>1 DEF TypeOK, TokState, Rest, BumpFresh
  <2>3. /\ Extends(comments, comments') /\ tok'.lineComments = tok.lineComments
        /\ Extends(ast, ast') /\ Once(Len(items), tok'.pos, comments', cached', ast')
    BY <2>1, <2>2, AdvanceOnce
  <2>4. QED  BY <1>1, <2>2, <2>3 DEF Grows, EachItemOnce
<1>5. CASE BumpGlued
  <2>1. /\ tok.pos \in Nat /\ tok.pos <= Len(items) + 1 /\ cached = 0 /\ cached' = 0
        /\ Advance(tok.pos) /\ Own(tok.pos)
        /\ UNCHANGED <<items, errors, frames>>
    BY <1>5, LenProperties DEF BumpGlued, ItemAt, TypeOK, TokState
  <2>2. /\ Extends(comments, comments') /\ tok'.lineComments = tok.lineComments
        /\ Extends(ast, ast') /\ Once(Len(items), tok'.pos, comments', cached', ast')
    BY <2>1, AdvanceOnce
  <2>3. QED  BY <1>1, <2>1, <2>2 DEF Grows, EachItemOnce
<1>6. CASE PushError
  <2>1. Extends(errors, errors')  BY <1>6, ExtendsCases DEF PushError, TypeOK, TokState
  <2>2. QED  BY <1>1, <1>6, <2>1 DEF PushError, Grows, EachItemOnce
<1>7. CASE EatLineContinuation
  <2>1. PICK k \in 1..Len(items) : TakeNext(k)  BY <1>7 DEF EatLineContinuation
  <2>2. UNCHANGED <<items, errors, frames>>  BY <1>7 DEF EatLineContinuation
  <2>3. QED  BY <1>1, <2>1, <2>2, TakeNextOnce DEF Grows, EachItemOnce
<1>8. CASE DrainPendingDedents
  <2>1. PICK k \in 1..Len(items) : TakeNext(k)  BY <1>8 DEF DrainPendingDedents
  <2>2. UNCHANGED <<items, errors, frames>>  BY <1>8 DEF DrainPendingDedents
  <2>3. QED  BY <1>1, <2>1, <2>2, TakeNextOnce DEF Grows, EachItemOnce
<1>9. CASE EnterVirtualBlock
  BY <1>1, <1>9 DEF EnterVirtualBlock, Grows, EachItemOnce
<1>10. QED
  BY <1>2, <1>3, <1>4, <1>5, <1>6, <1>7, <1>8, <1>9 DEF WorkStep

----------------------------------------------------------------------------
(***************************************************************************)
(* The inductive invariant: what every open attempt will restore is as good *)
(* as what is there.                                                       *)
(***************************************************************************)
IInv == /\ TypeOK /\ SnapshotsNest
        /\ EachItemOnce /\ SnapshotsOnce
        /\ LineCommentsScoped /\ SavedModes /\ RescanStarts

\* Opening and closing attempts and scopes with the lists as they are.
Still == UNCHANGED <<items, comments, errors, cached, ast>> /\ tok'.pos = tok.pos

PushStep == TryBegin \/ (\E c \in Contexts : WithState(c)) \/ RawBegin

PopStep == TryOk \/ TypedOk \/ DropState \/ RawEnd

LEMMA PushSteps ==
    ASSUME TypeOK, PushStep
    PROVE  \E f \in Frame :
             /\ Still /\ frames' = Append(frames, f)
             /\ IsSnapshot(f) => /\ f = Snapshot(f.kind) /\ tok' = tok
             /\ f.kind = "with" => tok' = tok
             /\ f.kind = "raw" => /\ f.lineComments = tok.lineComments
                                  /\ ~tok'.lineComments
<1>1. CASE TryBegin
  <2>1. PICK kind \in {"try", "typed"} : frames' = Append(frames, Snapshot(kind))
    BY <1>1 DEF TryBegin
  <2>2. Snapshot(kind) \in Frame /\ Snapshot(kind).kind = kind
    BY SnapshotType DEF Snapshot
  <2>3. Still /\ tok' = tok  BY <1>1 DEF TryBegin, Still
  <2>4. QED  BY <2>1, <2>2, <2>3
<1>2. CASE \E c \in Contexts : WithState(c)
  <2> DEFINE f == [kind |-> "with", ctx |-> ctx]
  <2>1. f \in Frame /\ f.kind = "with" /\ ~IsSnapshot(f)  BY DEF TypeOK, Frame, IsSnapshot
  <2>2. Still /\ tok' = tok /\ frames' = Append(frames, f)  BY <1>2 DEF WithState, Still
  <2> HIDE DEF f
  <2>3. QED  BY <2>1, <2>2
<1>3. CASE RawBegin
  <2> DEFINE f == [kind |-> "raw", lineComments |-> tok.lineComments]
  <2>1. /\ f \in Frame /\ f.kind = "raw" /\ ~IsSnapshot(f)
        /\ f.lineComments = tok.lineComments
    BY DEF TypeOK, TokState, Frame, IsSnapshot
  <2>2. Still /\ ~tok'.lineComments /\ frames' = Append(frames, f)
    BY <1>3 DEF RawBegin, Still, TypeOK, TokState
  <2> HIDE DEF f
  <2>3. QED  BY <2>1, <2>2
<1>4. QED  BY <1>1, <1>2, <1>3 DEF PushStep

LEMMA PopSteps ==
    ASSUME TypeOK, PopStep
    PROVE  /\ Still /\ frames # <<>> /\ frames' = Front(frames)
           /\ Top.kind # "raw" => tok' = tok
           /\ Top.kind = "raw" => tok'.lineComments = Top.lineComments
<1>1. CASE TryOk  BY <1>1 DEF TryOk, Open, Still
<1>2. CASE TypedOk  BY <1>2 DEF TypedOk, Open, Still
<1>3. CASE DropState  BY <1>3 DEF DropState, Open, Still
<1>4. CASE RawEnd  BY <1>4 DEF RawEnd, Open, Still, TypeOK, TokState
<1>5. QED  BY <1>1, <1>2, <1>3, <1>4 DEF PopStep

LEMMA FrameTypes ==
    ASSUME TypeOK
    PROVE  /\ Len(frames) \in Nat
           /\ Len(comments) \in Nat /\ Len(errors) \in Nat /\ Len(ast) \in Nat
           /\ \A i \in 1..Len(frames) :
                /\ frames[i] \in Frame
                /\ IsSnapshot(frames[i]) =>
                     /\ frames[i].nComments \in Nat
                     /\ frames[i].nErrors \in Nat
                     /\ frames[i].nAst \in Nat
<1>1. /\ Len(frames) \in Nat
      /\ Len(comments) \in Nat /\ Len(errors) \in Nat /\ Len(ast) \in Nat
  BY LenProperties DEF TypeOK
<1>2. ASSUME NEW i \in 1..Len(frames)
      PROVE  /\ frames[i] \in Frame
             /\ IsSnapshot(frames[i]) => frames[i] \in TryFrame
  <2>1. frames[i] \in Frame  BY ElementOfSeq DEF TypeOK
  <2>2. QED  BY <2>1, FrameKinds
<1>3. QED  BY <1>1, <1>2 DEF TryFrame

LEMMA WorkInv == IInv /\ WorkStep => IInv'
<1>1. SUFFICES ASSUME IInv, WorkStep PROVE IInv'  OBVIOUS
<1>2. Grows /\ EachItemOnce'  BY <1>1, WorkGrows DEF IInv
<1>3. TypeOK'  BY <1>1, TypeStep DEF IInv, WorkStep, Next
<1>4. /\ Len(comments) <= Len(comments') /\ Len(errors) <= Len(errors')
      /\ Len(ast) <= Len(ast')
      /\ \A n \in 0..Len(comments) : Truncate(comments', n) = Truncate(comments, n)
      /\ \A n \in 0..Len(ast) : Truncate(ast', n) = Truncate(ast, n)
  BY <1>1, <1>2, ExtendsProperties DEF IInv, TypeOK, Grows
<1>5. /\ Len(comments') \in Nat /\ Len(errors') \in Nat /\ Len(ast') \in Nat
  BY <1>3, LenProperties DEF TypeOK
<1>6. frames' = frames /\ items' = items /\ tok'.lineComments = tok.lineComments
  BY <1>2 DEF Grows
<1>7. SnapshotsNest'
  BY <1>1, <1>4, <1>5, <1>6, FrameTypes DEF IInv, SnapshotsNest
<1>8. SnapshotsOnce'
  <2>1. SUFFICES ASSUME NEW i \in 1..Len(frames), IsSnapshot(frames[i])
                PROVE  Once(Len(items), frames[i].tok.pos,
                            Truncate(comments', frames[i].nComments),
                            frames[i].cached, Truncate(ast', frames[i].nAst))
    BY <1>6 DEF SnapshotsOnce, IsSnapshot
  <2>2. frames[i].nComments \in 0..Len(comments) /\ frames[i].nAst \in 0..Len(ast)
    BY <1>1, <2>1, FrameTypes DEF IInv, SnapshotsNest
  <2>3. QED  BY <1>1, <1>4, <2>1, <2>2 DEF IInv, SnapshotsOnce
<1>9. LineCommentsScoped' /\ SavedModes'
  BY <1>1, <1>6 DEF IInv, LineCommentsScoped, SavedModes, ModeBelow, IsSnapshot
<1>10. RescanStarts'
  BY <1>1 DEF IInv, RescanStarts, WorkStep, Peek, BumpCached, BumpFresh, BumpGlued, PushError,
              EatLineContinuation, DrainPendingDedents, EnterVirtualBlock
<1>11. QED  BY <1>2, <1>3, <1>7, <1>8, <1>9, <1>10 DEF IInv

LEMMA PushInv == IInv /\ PushStep => IInv'
<1>1. SUFFICES ASSUME IInv, PushStep PROVE IInv'  OBVIOUS
<1>2. TypeOK'  BY <1>1, TypeStep DEF IInv, PushStep, Next
<1>3. PICK f \in Frame :
        /\ Still /\ frames' = Append(frames, f)
        /\ IsSnapshot(f) => /\ f = Snapshot(f.kind) /\ tok' = tok
        /\ f.kind = "with" => tok' = tok
        /\ f.kind = "raw" => /\ f.lineComments = tok.lineComments
                             /\ ~tok'.lineComments
  BY <1>1, PushSteps DEF IInv
<1>0. PICK n \in Nat : n = Len(frames)  BY <1>1, FrameTypes DEF IInv
<1>4. /\ n \in Nat /\ Len(frames') = n + 1 /\ frames'[n + 1] = f
      /\ \A i \in 1..n : frames'[i] = frames[i]
  BY <1>0, <1>1, <1>3, AppendProperties, FrameTypes DEF IInv, TypeOK
<1>5. UNCHANGED <<items, comments, errors, cached, ast>> /\ tok'.pos = tok.pos
  BY <1>3 DEF Still
<1>6. IsSnapshot(f) => /\ f.nComments = Len(comments) /\ f.nErrors = Len(errors)
                       /\ f.nAst = Len(ast) /\ f.tok = tok /\ f.cached = cached
  BY <1>3 DEF Snapshot
<1>7. SnapshotsNest'
  <2>1. ASSUME NEW i \in 1..(n + 1), IsSnapshot(frames'[i])
        PROVE  /\ frames'[i].nComments <= Len(comments)
               /\ frames'[i].nErrors <= Len(errors)
               /\ frames'[i].nAst <= Len(ast)
    BY <1>0, <1>1, <1>4, <1>6, <2>1, FrameTypes DEF IInv, SnapshotsNest
  <2>2. ASSUME NEW i \in 1..(n + 1), NEW j \in 1..(n + 1), i < j,
               IsSnapshot(frames'[i]), IsSnapshot(frames'[j])
        PROVE  /\ frames'[i].nComments <= frames'[j].nComments
               /\ frames'[i].nErrors <= frames'[j].nErrors
               /\ frames'[i].nAst <= frames'[j].nAst
    <3>1. CASE j <= n  BY <1>0, <1>1, <1>4, <2>2, <3>1 DEF IInv, SnapshotsNest
    <3>2. CASE j = n + 1  BY <1>4, <1>6, <2>1, <2>2, <3>2
    <3>3. QED  BY <1>4, <3>1, <3>2
  <2>3. QED  BY <1>4, <1>5, <2>1, <2>2 DEF SnapshotsNest, IsSnapshot
<1>8. EachItemOnce'  BY <1>1, <1>5 DEF IInv, EachItemOnce
<1>9. SnapshotsOnce'
  <2>1. Truncate(comments, Len(comments)) = comments /\ Truncate(ast, Len(ast)) = ast
    BY <1>1, SubSeqFull DEF IInv, TypeOK, Truncate
  <2>2. ASSUME NEW i \in 1..(n + 1), IsSnapshot(frames'[i])
        PROVE  Once(Len(items), frames'[i].tok.pos,
                    Truncate(comments, frames'[i].nComments),
                    frames'[i].cached, Truncate(ast, frames'[i].nAst))
    <3>1. CASE i <= n  BY <1>0, <1>1, <1>4, <2>2, <3>1 DEF IInv, SnapshotsOnce
    <3>2. CASE i = n + 1  BY <1>1, <1>4, <1>6, <2>1, <2>2, <3>2 DEF IInv, EachItemOnce
    <3>3. QED  BY <1>4, <3>1, <3>2
  <2>3. QED  BY <1>4, <1>5, <2>2 DEF SnapshotsOnce, IsSnapshot
<1>10. \A i \in 1..(n + 1) : ModeBelow(i)' = ModeBelow(i)
  BY <1>0, <1>4 DEF ModeBelow
<1>11. ModeBelow(n + 2)' = (ModeBelow(n + 1) /\ f.kind # "raw")
  BY <1>0, <1>4 DEF ModeBelow
<1>12. tok.lineComments = ModeBelow(n + 1)  BY <1>0, <1>1 DEF IInv, LineCommentsScoped
<1>13. LineCommentsScoped'
  <2>1. (n + 1) + 1 = n + 2  BY <1>4
  <2>2. f.kind # "raw" => tok' = tok  BY <1>3, FrameKinds DEF IsSnapshot
  <2>3. CASE f.kind = "raw"
    <3>1. tok'.lineComments = FALSE  BY <1>2, <1>3, <2>3 DEF TypeOK, TokState
    <3>2. QED  BY <1>4, <1>11, <2>1, <2>3, <3>1 DEF LineCommentsScoped
  <2>4. CASE f.kind # "raw"
    <3>1. tok'.lineComments = ModeBelow(n + 1)  BY <1>12, <2>2, <2>4
    <3>2. ModeBelow(n + 2)' = ModeBelow(n + 1)
      <4>1. ModeBelow(n + 1) \in BOOLEAN  BY DEF ModeBelow
      <4>2. QED  BY <1>11, <2>4, <4>1
    <3>3. QED  BY <1>4, <2>1, <3>1, <3>2 DEF LineCommentsScoped
  <2>5. QED  BY <2>3, <2>4
<1>14. SavedModes'
  <2>1. ASSUME NEW i \in 1..(n + 1)
        PROVE  /\ IsSnapshot(frames'[i]) => frames'[i].tok.lineComments = ModeBelow(i)
               /\ frames'[i].kind = "raw" => frames'[i].lineComments = ModeBelow(i)
    <3>1. CASE i <= n  BY <1>0, <1>1, <1>4, <3>1 DEF IInv, SavedModes
    <3>2. CASE i = n + 1  BY <1>3, <1>4, <1>6, <1>12, <3>2
    <3>3. QED  BY <1>4, <3>1, <3>2
  <2>2. QED  BY <1>4, <1>10, <2>1 DEF SavedModes, IsSnapshot
<1>15. RescanStarts'
  BY <1>1 DEF IInv, RescanStarts, PushStep, TryBegin, WithState, RawBegin
<1>16. QED  BY <1>2, <1>7, <1>8, <1>9, <1>13, <1>14, <1>15 DEF IInv

\* Dropping the innermost frame, with lists no shorter than the others counted.
LEMMA PopNest ==
    ASSUME TypeOK, SnapshotsNest, SavedModes, frames # <<>>, frames' = Front(frames),
           Len(comments') \in Nat, Len(errors') \in Nat, Len(ast') \in Nat,
           \A i \in 1..(Len(frames) - 1) : IsSnapshot(frames[i]) =>
              /\ frames[i].nComments <= Len(comments')
              /\ frames[i].nErrors <= Len(errors')
              /\ frames[i].nAst <= Len(ast')
    PROVE  SnapshotsNest' /\ SavedModes' /\ (ModeBelow(Len(frames) + 1))' = ModeBelow(Len(frames))
<1>1. PICK n \in Nat : n = Len(frames)  BY FrameTypes
<1>2. /\ n >= 1 /\ Len(frames') = n - 1
      /\ \A i \in 1..(n - 1) : frames'[i] = frames[i]
  <2>1. /\ Len(frames) \in Nat \ {0} /\ Len(Front(frames)) = Len(frames) - 1
        /\ \A i \in 1..(Len(frames) - 1) : Front(frames)[i] = frames[i]
    BY FrontProperties DEF TypeOK
  <2>2. QED  BY <1>1, <2>1
<1>3. SnapshotsNest'
  <2>1. ASSUME NEW i \in 1..(n - 1), NEW j \in 1..(n - 1), i < j,
               IsSnapshot(frames'[i]), IsSnapshot(frames'[j])
        PROVE  /\ frames'[i].nComments <= frames'[j].nComments
               /\ frames'[i].nErrors <= frames'[j].nErrors
               /\ frames'[i].nAst <= frames'[j].nAst
    <3>1. frames'[i] = frames[i] /\ frames'[j] = frames[j]  BY <1>2
    <3>2. i \in 1..Len(frames) /\ j \in 1..Len(frames)  BY <1>1, <1>2
    <3>3. IsSnapshot(frames[i]) /\ IsSnapshot(frames[j])  BY <2>1, <3>1
    <3>4. /\ frames[i].nComments <= frames[j].nComments
          /\ frames[i].nErrors <= frames[j].nErrors
          /\ frames[i].nAst <= frames[j].nAst
      <4>1. \A a, b \in 1..Len(frames) :
               (a < b /\ IsSnapshot(frames[a]) /\ IsSnapshot(frames[b])) =>
                 /\ frames[a].nComments <= frames[b].nComments
                 /\ frames[a].nErrors <= frames[b].nErrors
                 /\ frames[a].nAst <= frames[b].nAst
        BY DEF SnapshotsNest
      <4>2. QED  BY <2>1, <3>2, <3>3, <4>1
    <3>5. QED  BY <3>1, <3>4
  <2>2. QED  BY <1>1, <1>2, <2>1 DEF SnapshotsNest, IsSnapshot
<1>4. \A i \in 1..n : ModeBelow(i)' = ModeBelow(i)  BY <1>2 DEF ModeBelow
<1>5. SavedModes'  BY <1>1, <1>2, <1>4 DEF SavedModes, IsSnapshot
<1>6. ModeBelow(n)' = ModeBelow(n)  BY <1>2, <1>4
<1>7. Len(frames') + 1 = n  BY <1>2
<1>8. QED  BY <1>1, <1>3, <1>5, <1>6, <1>7

LEMMA PopInv == IInv /\ PopStep => IInv'
<1>1. SUFFICES ASSUME IInv, PopStep PROVE IInv'  OBVIOUS
<1>2. TypeOK'  BY <1>1, TypeStep DEF IInv, PopStep, Next
<1>3. /\ Still /\ frames # <<>> /\ frames' = Front(frames)
      /\ Top.kind # "raw" => tok' = tok
      /\ Top.kind = "raw" => tok'.lineComments = Top.lineComments
  BY <1>1, PopSteps DEF IInv
<1>4. UNCHANGED <<items, comments, errors, cached, ast>> /\ tok'.pos = tok.pos
  BY <1>3 DEF Still
<1>5. PICK n \in Nat : n = Len(frames)  BY <1>1, FrameTypes DEF IInv
<1>6. /\ n >= 1 /\ Len(frames') = n - 1 /\ Top = frames[n]
      /\ \A i \in 1..(n - 1) : frames'[i] = frames[i]
  <2>1. /\ Len(frames) \in Nat \ {0} /\ Len(Front(frames)) = Len(frames) - 1
        /\ \A i \in 1..(Len(frames) - 1) : Front(frames)[i] = frames[i]
        /\ Top = frames[Len(frames)]
    BY <1>1, <1>3, FrontProperties DEF IInv, TypeOK, Top
  <2>2. QED  BY <1>3, <1>5, <2>1
<1>7. SnapshotsNest' /\ SavedModes' /\ (ModeBelow(Len(frames) + 1))' = ModeBelow(n)
  <2>1. /\ Len(comments') \in Nat /\ Len(errors') \in Nat /\ Len(ast') \in Nat
    BY <1>2, LenProperties DEF TypeOK
  <2>2. \A i \in 1..(Len(frames) - 1) : IsSnapshot(frames[i]) =>
              /\ frames[i].nComments <= Len(comments')
              /\ frames[i].nErrors <= Len(errors')
              /\ frames[i].nAst <= Len(ast')
    BY <1>1, <1>4, <1>5 DEF IInv, SnapshotsNest
  <2>3. QED  BY <1>1, <1>3, <1>5, <2>1, <2>2, PopNest DEF IInv
<1>8. EachItemOnce'  BY <1>1, <1>4 DEF IInv, EachItemOnce
<1>9. SnapshotsOnce'
  BY <1>1, <1>4, <1>5, <1>6 DEF IInv, SnapshotsOnce, IsSnapshot
<1>10. LineCommentsScoped'
  <2>1. n \in 1..n  BY <1>5, <1>6
  <2>2. CASE Top.kind = "raw"
    <3>1. Top.lineComments = ModeBelow(n)  BY <1>1, <1>5, <1>6, <2>1, <2>2 DEF IInv, SavedModes
    <3>2. QED  BY <1>3, <1>7, <2>2, <3>1 DEF LineCommentsScoped
  <2>3. CASE Top.kind # "raw"
    <3>1. ModeBelow(n + 1) = ModeBelow(n)
      <4>1. \A j \in 1..n : j \in 1..(n - 1) \/ j = n  BY <1>5
      <4>2. QED  BY <1>6, <2>3, <4>1 DEF ModeBelow
    <3>2. tok.lineComments = ModeBelow(n + 1)  BY <1>1, <1>5 DEF IInv, LineCommentsScoped
    <3>3. QED  BY <1>3, <1>7, <2>3, <3>1, <3>2 DEF LineCommentsScoped
  <2>4. QED  BY <2>2, <2>3
<1>11. RescanStarts'
  BY <1>1 DEF IInv, RescanStarts, PopStep, TryOk, TypedOk, DropState, RawEnd
<1>12. QED  BY <1>2, <1>7, <1>8, <1>9, <1>10, <1>11 DEF IInv

LEMMA RollbackInv == IInv /\ TryErr => IInv'
<1>1. SUFFICES ASSUME IInv, TryErr PROVE IInv'  OBVIOUS
<1>2. TypeOK'  BY <1>1, TypeStep DEF IInv, Next
<1>3. /\ frames # <<>> /\ IsSnapshot(Top) /\ RestoreFrom(Top)
      /\ frames' = Front(frames) /\ items' = items
  BY <1>1 DEF TryErr, Open, IsSnapshot
<1>4. PICK n \in Nat : n = Len(frames)  BY <1>1, FrameTypes DEF IInv
<1>5. /\ n >= 1 /\ Len(frames') = n - 1 /\ n \in 1..n
      /\ \A i \in 1..(n - 1) : frames'[i] = frames[i]
  <2>1. /\ Len(frames) \in Nat \ {0} /\ Len(Front(frames)) = Len(frames) - 1
        /\ \A i \in 1..(Len(frames) - 1) : Front(frames)[i] = frames[i]
    BY <1>1, <1>3, FrontProperties DEF IInv, TypeOK
  <2>2. QED  BY <1>3, <1>4, <2>1
<1>6. /\ Top = frames[n]
      /\ Top.nComments \in 0..Len(comments)
      /\ Top.nErrors \in 0..Len(errors)
      /\ Top.nAst \in 0..Len(ast)
  BY <1>1, <1>3, <1>4, RestoreType DEF IInv
<1>7. /\ comments' = Truncate(comments, Top.nComments) /\ Len(comments') = Top.nComments
      /\ errors' = Truncate(errors, Top.nErrors) /\ Len(errors') = Top.nErrors
      /\ ast' = Truncate(ast, Top.nAst) /\ Len(ast') = Top.nAst
      /\ tok' = Top.tok /\ cached' = Top.cached
  BY <1>1, <1>3, <1>6, TruncateProperties, ZenonT(30) DEF RestoreFrom, IInv, TypeOK
<1>8. ASSUME NEW i \in 1..(n - 1), IsSnapshot(frames[i])
      PROVE  /\ frames[i].nComments \in 0..Top.nComments
             /\ frames[i].nErrors \in 0..Top.nErrors
             /\ frames[i].nAst \in 0..Top.nAst
  <2>1. i \in 1..n /\ i < n  BY <1>4
  <2>2. /\ frames[i].nComments \in Nat /\ frames[i].nErrors \in Nat
        /\ frames[i].nAst \in Nat
    BY <1>1, <1>4, <1>8, <2>1, FrameTypes DEF IInv
  <2>3. /\ frames[i].nComments <= frames[n].nComments
        /\ frames[i].nErrors <= frames[n].nErrors
        /\ frames[i].nAst <= frames[n].nAst
    BY <1>1, <1>3, <1>4, <1>5, <1>6, <1>8, <2>1 DEF IInv, SnapshotsNest
  <2>4. Top.nComments \in Nat /\ Top.nErrors \in Nat /\ Top.nAst \in Nat
    BY <1>6, <1>2, <1>7, LenProperties DEF TypeOK
  <2>5. QED  BY <1>6, <2>2, <2>3, <2>4
<1>9. SnapshotsNest' /\ SavedModes' /\ (ModeBelow(Len(frames) + 1))' = ModeBelow(n)
  <2>1. /\ Len(comments') \in Nat /\ Len(errors') \in Nat /\ Len(ast') \in Nat
    BY <1>2, LenProperties DEF TypeOK
  <2>2. \A i \in 1..(Len(frames) - 1) : IsSnapshot(frames[i]) =>
              /\ frames[i].nComments <= Len(comments')
              /\ frames[i].nErrors <= Len(errors')
              /\ frames[i].nAst <= Len(ast')
    BY <1>4, <1>7, <1>8, <2>1
  <2>3. QED  BY <1>1, <1>3, <1>4, <2>1, <2>2, PopNest DEF IInv
<1>10. EachItemOnce'
  <2>1. Once(Len(items), Top.tok.pos, Truncate(comments, Top.nComments), Top.cached,
             Truncate(ast, Top.nAst))
    BY <1>1, <1>3, <1>4, <1>5, <1>6 DEF IInv, SnapshotsOnce
  <2>2. QED  BY <1>3, <1>7, <2>1 DEF EachItemOnce
<1>11. SnapshotsOnce'
  <2>1. ASSUME NEW i \in 1..(n - 1), IsSnapshot(frames[i])
        PROVE  Once(Len(items), frames[i].tok.pos,
                    Truncate(comments', frames[i].nComments),
                    frames[i].cached, Truncate(ast', frames[i].nAst))
    <3>1. /\ Truncate(comments', frames[i].nComments) = Truncate(comments, frames[i].nComments)
          /\ Truncate(ast', frames[i].nAst) = Truncate(ast, frames[i].nAst)
      BY <1>1, <1>6, <1>7, <1>8, <2>1, TruncateTruncate DEF IInv, TypeOK
    <3>2. i \in 1..n  BY <1>4
    <3>3. QED  BY <1>1, <1>4, <2>1, <3>1, <3>2 DEF IInv, SnapshotsOnce
  <2>2. QED  BY <1>3, <1>5, <2>1 DEF SnapshotsOnce, IsSnapshot
<1>12. LineCommentsScoped'
  <2>1. Top.tok.lineComments = ModeBelow(n)
    BY <1>1, <1>3, <1>4, <1>5, <1>6 DEF IInv, SavedModes
  <2>2. QED  BY <1>7, <1>9, <2>1 DEF LineCommentsScoped
<1>13. RescanStarts'  BY <1>1 DEF TryErr, RescanStarts
<1>14. QED  BY <1>2, <1>9, <1>10, <1>11, <1>12, <1>13 DEF IInv

LEMMA InvInit == Init => IInv
<1>1. SUFFICES ASSUME Init PROVE IInv  OBVIOUS
<1>2. /\ TypeOK /\ frames = <<>> /\ Len(frames) = 0 /\ tok.lineComments = TRUE
      /\ comments = <<>> /\ ast = <<>> /\ cached = 0 /\ tok.pos = 1
  BY <1>1, TypeInit, EmptySeq DEF Init
<1>3. SnapshotsNest /\ SnapshotsOnce /\ SavedModes
  BY <1>2 DEF SnapshotsNest, SnapshotsOnce, SavedModes
<1>4. LineCommentsScoped
  <2>1. \A j : j \notin 1..((0 + 1) - 1)  OBVIOUS
  <2>2. QED  BY <1>2, <2>1 DEF LineCommentsScoped, ModeBelow
<1>5. EachItemOnce
  <2>1. Range(<<>>) = {} /\ Increasing(<<>>)  BY DEF Range, Increasing
  <2>2. Partition(1 - 1, {}, {}, {})  BY DEF Partition
  <2>3. QED  BY <1>2, <2>1, <2>2, OnceUncached DEF EachItemOnce
<1>6. RescanStarts  BY <1>1 DEF Init, RescanStarts
<1>7. QED  BY <1>2, <1>3, <1>4, <1>5, <1>6 DEF IInv

LEMMA InvStep == IInv /\ [Next]_vars => IInv'
<1>1. SUFFICES ASSUME IInv, [Next]_vars PROVE IInv'  OBVIOUS
<1>2. CASE Err \/ UNCHANGED vars
  <2>1. UNCHANGED <<items, tok, comments, cached, errors, pending, ctx, ast, frames, rescan>>
    BY <1>2 DEF Err, vars
  <2>2. TypeOK'  BY <1>1, TypeStep DEF IInv
  <2>3. SnapshotsNest' /\ EachItemOnce' /\ SnapshotsOnce'
    BY <1>1, <2>1 DEF IInv, SnapshotsNest, EachItemOnce, SnapshotsOnce, IsSnapshot
  <2>4. LineCommentsScoped' /\ SavedModes'
    BY <1>1, <2>1 DEF IInv, LineCommentsScoped, SavedModes, ModeBelow, IsSnapshot
  <2>5. RescanStarts'  BY <1>1, <1>2 DEF IInv, RescanStarts, Err, Parsing, vars
  <2>6. QED  BY <2>2, <2>3, <2>4, <2>5 DEF IInv
<1>3. WorkStep \/ PushStep \/ PopStep \/ TryErr \/ Err \/ UNCHANGED vars
  BY <1>1 DEF Next, WorkStep, PushStep, PopStep
<1>4. QED  BY <1>1, <1>2, <1>3, WorkInv, PushInv, PopInv, RollbackInv

THEOREM Invariant == Spec => []IInv
<1>1. Init => IInv  BY InvInit
<1>2. IInv /\ [Next]_vars => IInv'  BY InvStep
<1>3. QED  BY <1>1, <1>2, PTL DEF Spec

\* Every variable stays in its type, whatever is tried and rolled back.
THEOREM TypeCorrect == Spec => []TypeOK
<1>1. IInv => TypeOK  BY DEF IInv
<1>2. QED  BY <1>1, Invariant, PTL

\* No item is lost or read twice: backtracking restores cursor, lookahead,
\* comments and nodes to the same point, at every depth.
THEOREM ReadsEachItemOnce == Spec => []EachItemOnce
<1>1. IInv => EachItemOnce  BY DEF IInv
<1>2. QED  BY <1>1, Invariant, PTL

\* Every state an open attempt may still roll back to is sound: the saved
\* lengths nest, no item is lost or doubled, the comment mode is the right one.
THEOREM SnapshotsStaySound == Spec => []SnapshotsSound
<1>1. IInv => SnapshotsSound  BY DEF IInv, SnapshotsSound
<1>2. QED  BY <1>1, Invariant, PTL

\* Line comments are text exactly inside the raw rescan of a custom property,
\* although every snapshot carries a copy of the flag.
THEOREM RescanScopesLineComments == Spec => []LineCommentsScoped
<1>1. IInv => LineCommentsScoped  BY DEF IInv
<1>2. QED  BY <1>1, Invariant, PTL

----------------------------------------------------------------------------
(***************************************************************************)
(* The context an attempt returns to: that of the innermost guard opened    *)
(* since, which is the least one above it.                                  *)
(***************************************************************************)
LEMMA SeqOfFunction ==
    ASSUME NEW S, NEW n \in Nat, NEW f \in [1..n -> S]
    PROVE  f \in Seq(S) /\ Len(f) = n
<1>1. f \in UNION {[1..m -> S] : m \in Nat}  OBVIOUS
<1>2. f \in Seq(S)  BY <1>1, SeqDef
<1>3. QED  BY <1>2, LenProperties

LEMMA FunctionIsAppend ==
    ASSUME NEW n \in Nat, NEW f, NEW g, f = [i \in 1..n |-> f[i]],
           g = [i \in 1..(n + 1) |-> g[i]], \A i \in 1..n : g[i] = f[i]
    PROVE  g = Append(f, g[n + 1])
<1> DEFINE S == {f[i] : i \in 1..n} \cup {g[n + 1]}
           e == g[n + 1]
<1>1. f \in [1..n -> S]  OBVIOUS
<1>2. \A i \in 1..(n + 1) : i \in 1..n \/ i = n + 1  OBVIOUS
<1>3. g \in [1..(n + 1) -> S]  BY <1>2
<1>4. e \in S /\ n + 1 \in Nat  OBVIOUS
<1> HIDE DEF S
<1>5. f \in Seq(S) /\ Len(f) = n  BY <1>1, SeqOfFunction
<1>6. g \in Seq(S) /\ Len(g) = n + 1  BY <1>3, <1>4, SeqOfFunction
<1>7. /\ Append(f, e) \in Seq(S) /\ Len(Append(f, e)) = n + 1
      /\ \A i \in 1..n : Append(f, e)[i] = f[i]
      /\ Append(f, e)[n + 1] = e
  BY <1>4, <1>5, AppendProperties
<1>8. \A i \in 1..(n + 1) : g[i] = Append(f, e)[i]  BY <1>2, <1>7
<1>9. QED  BY <1>6, <1>7, <1>8, SeqEqual

LEMMA FunctionIsFront ==
    ASSUME NEW n \in Nat, n >= 1, NEW f, NEW g, f = [i \in 1..n |-> f[i]],
           g = [i \in 1..(n - 1) |-> g[i]], \A i \in 1..(n - 1) : g[i] = f[i]
    PROVE  f # <<>> /\ g = Front(f) /\ Last(f) = f[n]
<1> DEFINE S == {f[i] : i \in 1..n}
<1>1. f \in [1..n -> S]  OBVIOUS
<1>2. \A i \in 1..(n - 1) : i \in 1..n  OBVIOUS
<1>3. g \in [1..(n - 1) -> S] /\ n - 1 \in Nat  BY <1>2
<1> HIDE DEF S
<1>4. f \in Seq(S) /\ Len(f) = n  BY <1>1, SeqOfFunction
<1>5. g \in Seq(S) /\ Len(g) = n - 1  BY <1>3, SeqOfFunction
<1>6. f # <<>>  BY <1>4, EmptySeq
<1>7. \A i \in 1..(n - 1) : f[i] \in S  BY <1>1, <1>2
<1>8. /\ Front(f) \in Seq(S) /\ Len(Front(f)) = n - 1
      /\ \A i \in 1..(n - 1) : Front(f)[i] = f[i]
  BY <1>4, <1>7, SubSeqProperties DEF Front
<1>9. QED  BY <1>4, <1>5, <1>6, <1>8, SeqEqual, ZenonT(30) DEF Last

LEMMA ContextTop ==
    ASSUME NEW fs \in Seq(Frame), NEW c
    PROVE  ContextAt(fs, c, Len(fs)) = c
<1>1. Len(fs) \in Nat  BY LenProperties
<1>2. Guards(fs, Len(fs)) = {}  BY <1>1 DEF Guards
<1>3. QED  BY <1>2 DEF ContextAt

LEMMA ContextPush ==
    ASSUME NEW fs \in Seq(Frame), NEW f \in Frame, NEW c, NEW i \in 1..Len(fs)
    PROVE  ContextAt(Append(fs, f), c, i) =
             ContextAt(fs, IF f.kind = "with" THEN f.ctx ELSE c, i)
<1> DEFINE gs == Append(fs, f)
           n == Len(fs)
           G == Guards(fs, i)
           H == Guards(gs, i)
           IsLeast(S, j) == j \in S /\ \A k \in S : j <= k
<1>1. /\ n \in Nat /\ Len(gs) = n + 1 /\ gs[n + 1] = f /\ i \in Nat
      /\ \A j \in 1..n : gs[j] = fs[j]
  BY LenProperties, AppendProperties
<1>2. G \subseteq (i + 1)..n /\ G \in SUBSET Nat  BY <1>1 DEF Guards
<1>3. H = IF f.kind = "with" THEN G \cup {n + 1} ELSE G
  <2>1. \A j \in (i + 1)..(n + 1) : j \in (i + 1)..n \/ j = n + 1  BY <1>1
  <2>2. \A j \in (i + 1)..n : j \in (i + 1)..(n + 1) /\ j \in 1..n  BY <1>1
  <2>3. n + 1 \in (i + 1)..(n + 1) /\ n + 1 \notin (i + 1)..n  BY <1>1
  <2>4. H = {j \in (i + 1)..(n + 1) : gs[j].kind = "with"}  BY <1>1 DEF Guards
  <2>5. G = {j \in (i + 1)..n : fs[j].kind = "with"}  BY DEF Guards
  <2> HIDE DEF G, H, gs
  <2>6. QED  BY <1>1, <2>1, <2>2, <2>3, <2>4, <2>5
<1>4. /\ ContextAt(fs, c, i) = IF G = {} THEN c ELSE fs[CHOOSE j \in G : \A k \in G : j <= k].ctx
      /\ ContextAt(fs, f.ctx, i)
           = IF G = {} THEN f.ctx ELSE fs[CHOOSE j \in G : \A k \in G : j <= k].ctx
      /\ ContextAt(gs, c, i) = IF H = {} THEN c ELSE gs[CHOOSE j \in H : \A k \in H : j <= k].ctx
  BY DEF ContextAt
<1> HIDE DEF G, H, gs, n
<1>5. CASE G = {} /\ f.kind # "with"  BY <1>3, <1>4, <1>5 DEF gs
<1>6. CASE G = {} /\ f.kind = "with"
  <2>1. H = {n + 1}  BY <1>3, <1>6
  <2>2. (CHOOSE j \in H : \A k \in H : j <= k) = n + 1
    <3>1. \A j \in H : j = n + 1  BY <2>1
    <3>2. n + 1 \in H /\ \A k \in H : n + 1 <= k  BY <1>1, <2>1
    <3>3. QED  BY <3>1, <3>2
  <2>3. QED  BY <1>1, <1>4, <1>6, <2>1, <2>2 DEF gs
<1>7. CASE G # {}
  <2>1. PICK g \in G : \A k \in G : g <= k  BY <1>2, <1>7, LeastNatural
  <2>2. \A j \in G : (\A k \in G : j <= k) => j = g
    BY <1>2, <2>1
  <2>3. (CHOOSE j \in G : \A k \in G : j <= k) = g  BY <2>1, <2>2
  <2>4. g \in H /\ \A k \in H : g <= k  BY <1>1, <1>2, <1>3, <2>1
  <2>5. H \in SUBSET Nat  BY <1>1, <1>2, <1>3
  <2>6. \A j \in H : (\A k \in H : j <= k) => j = g  BY <2>4, <2>5
  <2>7. (CHOOSE j \in H : \A k \in H : j <= k) = g  BY <2>4, <2>6
  <2>8. gs[g] = fs[g] /\ H # {}  BY <1>1, <1>2, <2>1, <2>4
  <2>9. QED  BY <1>4, <1>7, <2>3, <2>7, <2>8 DEF gs
<1>8. QED  BY <1>5, <1>6, <1>7

LEMMA ContextPop ==
    ASSUME NEW fs \in Seq(Frame), fs # <<>>, NEW c, NEW i \in 1..(Len(fs) - 1)
    PROVE  ContextAt(fs, c, i) =
             ContextAt(Front(fs), IF Last(fs).kind = "with" THEN Last(fs).ctx ELSE c, i)
<1>1. /\ Front(fs) \in Seq(Frame) /\ Last(fs) \in Frame /\ Len(Front(fs)) = Len(fs) - 1
      /\ Len(fs) \in Nat \ {0} /\ Last(fs) = fs[Len(fs)]
      /\ \A j \in 1..(Len(fs) - 1) : Front(fs)[j] = fs[j]
  BY FrontProperties
<1>2. fs = Append(Front(fs), Last(fs))
  <2>1. /\ Append(Front(fs), Last(fs)) \in Seq(Frame)
        /\ Len(Append(Front(fs), Last(fs))) = Len(fs)
        /\ \A j \in 1..(Len(fs) - 1) : Append(Front(fs), Last(fs))[j] = fs[j]
        /\ Append(Front(fs), Last(fs))[Len(fs)] = fs[Len(fs)]
    BY <1>1, AppendProperties
  <2>2. \A j \in 1..Len(fs) : j \in 1..(Len(fs) - 1) \/ j = Len(fs)  BY <1>1
  <2>3. QED  BY <2>1, <2>2, SeqEqual
<1>3. i \in 1..Len(Front(fs))  BY <1>1
<1>4. ContextAt(Append(Front(fs), Last(fs)), c, i) =
         ContextAt(Front(fs), IF Last(fs).kind = "with" THEN Last(fs).ctx ELSE c, i)
  BY <1>1, <1>3, ContextPush
<1>5. QED  BY <1>2, <1>4

----------------------------------------------------------------------------
(***************************************************************************)
(* Backtracking implements transactions: each step is a step of Transaction *)
(* on the copies that the snapshots stand for.                             *)
(***************************************************************************)
Now == WorkOf(tok, comments, errors, cached, pending, ast)

\* Frames that stay, in a step after which they restore the same and the context
\* above them leads back to the same.
LEMMA SameCopy ==
    ASSUME NEW i, frames'[i] = frames[i],
           IsSnapshot(frames[i]) =>
             /\ Truncate(comments', frames[i].nComments) = Truncate(comments, frames[i].nComments)
             /\ Truncate(errors', frames[i].nErrors) = Truncate(errors, frames[i].nErrors)
             /\ Truncate(ast', frames[i].nAst) = Truncate(ast, frames[i].nAst)
             /\ ContextAt(frames', ctx', i) = ContextAt(frames, ctx, i)
    PROVE  Copy(i)' = Copy(i)
<1>1. CASE IsSnapshot(frames[i])  BY <1>1 DEF Copy, IsSnapshot
<1>2. CASE ~IsSnapshot(frames[i])  BY <1>2 DEF Copy, IsSnapshot
<1>3. QED  BY <1>1, <1>2

LEMMA WorkCopies ==
    ASSUME IInv, Grows, ctx' = ctx
    PROVE  Copies' = Copies
<1>1. frames' = frames  BY DEF Grows
<1>2. ASSUME NEW i \in 1..Len(frames) PROVE Copy(i)' = Copy(i)
  <2>1. ASSUME IsSnapshot(frames[i])
        PROVE  /\ Truncate(comments', frames[i].nComments) = Truncate(comments, frames[i].nComments)
               /\ Truncate(errors', frames[i].nErrors) = Truncate(errors, frames[i].nErrors)
               /\ Truncate(ast', frames[i].nAst) = Truncate(ast, frames[i].nAst)
    <3>1. /\ frames[i].nComments \in 0..Len(comments)
          /\ frames[i].nErrors \in 0..Len(errors)
          /\ frames[i].nAst \in 0..Len(ast)
      BY <2>1, FrameTypes DEF IInv, SnapshotsNest
    <3>2. QED  BY <3>1, ExtendsProperties DEF Grows, IInv, TypeOK
  <2>2. QED  BY <1>1, <2>1, SameCopy
<1>3. QED  BY <1>1, <1>2 DEF Copies

\* A new frame, under an unchanged state but for the context it guards.
LEMMA PushCopies ==
    ASSUME IInv, NEW f \in Frame, frames' = Append(frames, f),
           UNCHANGED <<comments, errors, ast>>,
           ctx = IF f.kind = "with" THEN f.ctx ELSE ctx'
    PROVE  \E n \in Nat : /\ n = Len(frames) /\ Len(frames') = n + 1 /\ frames'[n + 1] = f
                        /\ Copies' = Append(Copies, Copy(n + 1)')
<1>1. PICK n \in Nat : n = Len(frames)  BY FrameTypes DEF IInv
<1>2. /\ frames \in Seq(Frame) /\ Len(frames') = n + 1 /\ frames'[n + 1] = f
      /\ \A i \in 1..n : frames'[i] = frames[i]
  BY <1>1, AppendProperties DEF IInv, TypeOK
<1>3. ASSUME NEW i \in 1..n PROVE Copy(i)' = Copy(i)
  <2>1. ContextAt(frames', ctx', i) = ContextAt(frames, ctx, i)  BY <1>1, <1>2, ContextPush
  <2>2. QED  BY <1>2, <2>1, SameCopy
<1>4. Copies = [i \in 1..n |-> Copy(i)]  BY <1>1 DEF Copies
<1>5. Copies' = [i \in 1..(n + 1) |-> Copy(i)']  BY <1>2 DEF Copies
<1>6. \A i \in 1..n : i \in 1..(n + 1)  OBVIOUS
<1>7. \A i \in 1..n : Copies'[i] = Copies[i]  BY <1>3, <1>4, <1>5, <1>6
<1>8. n + 1 \in 1..(n + 1)  OBVIOUS
<1>9. Copies'[n + 1] = Copy(n + 1)'  BY <1>5, <1>8
<1>10. Copies = [i \in 1..n |-> Copies[i]] /\ Copies' = [i \in 1..(n + 1) |-> Copies'[i]]
  BY <1>4, <1>5
<1>11. Copies' = Append(Copies, Copies'[n + 1])  BY <1>7, <1>10, FunctionIsAppend
<1>12. QED  BY <1>1, <1>2, <1>9, <1>11

\* The innermost frame is dropped; the lists may have been cut down to it.
LEMMA PopCopies ==
    ASSUME IInv, frames # <<>>, frames' = Front(frames),
           ctx' = IF Top.kind = "with" THEN Top.ctx ELSE ctx,
           \A i \in 1..(Len(frames) - 1) : IsSnapshot(frames[i]) =>
             /\ Truncate(comments', frames[i].nComments) = Truncate(comments, frames[i].nComments)
             /\ Truncate(errors', frames[i].nErrors) = Truncate(errors, frames[i].nErrors)
             /\ Truncate(ast', frames[i].nAst) = Truncate(ast, frames[i].nAst)
    PROVE  /\ Copies # <<>> /\ Copies' = Front(Copies)
           /\ Last(Copies) = Copy(Len(frames)) /\ Top = frames[Len(frames)]
<1>1. PICK n \in Nat : n = Len(frames)  BY FrameTypes DEF IInv
<1>2. /\ frames \in Seq(Frame) /\ n >= 1 /\ Len(frames') = n - 1 /\ Top = frames[n]
      /\ \A i \in 1..(n - 1) : frames'[i] = frames[i]
  <2>1. /\ Len(frames) \in Nat \ {0} /\ Len(Front(frames)) = Len(frames) - 1
        /\ \A i \in 1..(Len(frames) - 1) : Front(frames)[i] = frames[i]
        /\ Top = frames[Len(frames)] /\ frames \in Seq(Frame)
    BY FrontProperties DEF IInv, TypeOK, Top
  <2>2. QED  BY <1>1, <2>1
<1>3. ASSUME NEW i \in 1..(n - 1) PROVE Copy(i)' = Copy(i)
  <2>1. ContextAt(frames', ctx', i) = ContextAt(frames, ctx, i)
    BY <1>1, <1>2, ContextPop DEF Top
  <2>2. QED  BY <1>1, <1>2, <2>1, SameCopy
<1>4. Copies = [i \in 1..n |-> Copy(i)]  BY <1>1 DEF Copies
<1>5. Copies' = [i \in 1..(n - 1) |-> Copy(i)']  BY <1>2 DEF Copies
<1>6. \A i \in 1..(n - 1) : i \in 1..n  OBVIOUS
<1>7. \A i \in 1..(n - 1) : Copies'[i] = Copies[i]  BY <1>3, <1>4, <1>5, <1>6
<1>8. Copies = [i \in 1..n |-> Copies[i]] /\ Copies' = [i \in 1..(n - 1) |-> Copies'[i]]
  BY <1>4, <1>5
<1>9. Copies # <<>> /\ Copies' = Front(Copies) /\ Last(Copies) = Copies[n]
  BY <1>2, <1>7, <1>8, FunctionIsFront
<1>10. Copies[n] = Copy(n)  BY <1>2, <1>4
<1>11. QED  BY <1>1, <1>2, <1>9, <1>10

LEMMA RefinementInit == Init => T!TInit
BY DEF Init, Copies, T!TInit

LEMMA WorkRefines == IInv /\ WorkStep => T!Work
<1>1. SUFFICES ASSUME IInv, WorkStep PROVE T!Work  OBVIOUS
<1>2. UNCHANGED <<ctx, failing>>
  BY <1>1 DEF WorkStep, Peek, BumpCached, BumpFresh, BumpGlued, PushError,
              EatLineContinuation, DrainPendingDedents, EnterVirtualBlock
<1>3. Copies' = Copies  BY <1>1, <1>2, WorkGrows, WorkCopies DEF IInv
<1>4. QED  BY <1>2, <1>3 DEF T!Work

LEMMA AttemptRefines == IInv /\ TryBegin => T!Attempt
<1>1. SUFFICES ASSUME IInv, TryBegin PROVE T!Attempt  OBVIOUS
<1>2. PICK kind \in {"try", "typed"} : frames' = Append(frames, Snapshot(kind))
  BY <1>1 DEF TryBegin
<1>3. /\ ~failing /\ failing' = failing
      /\ UNCHANGED <<tok, comments, cached, errors, pending, ctx, ast>>
  BY <1>1 DEF TryBegin, Parsing
<1> DEFINE f == Snapshot(kind)
<1>4. f \in Frame /\ f.kind # "with" /\ IsSnapshot(f)
  BY <1>1, SnapshotType DEF IInv, Snapshot, IsSnapshot
<1>5. /\ f.tok = tok /\ f.nComments = Len(comments) /\ f.nErrors = Len(errors)
      /\ f.cached = cached /\ f.pending = pending /\ f.nAst = Len(ast)
  BY DEF Snapshot
<1> HIDE DEF f
<1>6. frames' = Append(frames, f) /\ ctx = IF f.kind = "with" THEN f.ctx ELSE ctx'
  BY <1>2, <1>3, <1>4 DEF f
<1>7. PICK n \in Nat : /\ n = Len(frames) /\ Len(frames') = n + 1 /\ frames'[n + 1] = f
                       /\ Copies' = Append(Copies, Copy(n + 1)')
  BY <1>1, <1>3, <1>4, <1>6, PushCopies
<1>8. ContextAt(frames', ctx', n + 1) = ctx
  <2>1. frames' \in Seq(Frame)  BY <1>1, <1>4, <1>6, FramesType DEF IInv, TypeOK
  <2>2. ContextAt(frames', ctx', Len(frames')) = ctx'  BY <2>1, ContextTop
  <2>3. QED  BY <1>3, <1>7, <2>2
<1>9. /\ Truncate(comments, Len(comments)) = comments
      /\ Truncate(errors, Len(errors)) = errors
      /\ Truncate(ast, Len(ast)) = ast
  BY <1>1, SubSeqFull DEF IInv, TypeOK, Truncate
<1>10. Copy(n + 1)' = [kind |-> "try", work |-> Now, ctx |-> ctx]
  <2>1. /\ IsSnapshot(frames'[n + 1]) /\ frames'[n + 1].tok = tok
        /\ frames'[n + 1].nComments = Len(comments) /\ frames'[n + 1].nErrors = Len(errors)
        /\ frames'[n + 1].cached = cached /\ frames'[n + 1].pending = pending
        /\ frames'[n + 1].nAst = Len(ast)
    BY <1>4, <1>5, <1>7
  <2>2. Copy(n + 1)' =
          [kind |-> "try", ctx |-> ContextAt(frames', ctx', n + 1),
           work |-> WorkOf(frames'[n + 1].tok, Truncate(comments', frames'[n + 1].nComments),
                           Truncate(errors', frames'[n + 1].nErrors), frames'[n + 1].cached,
                           frames'[n + 1].pending, Truncate(ast', frames'[n + 1].nAst))]
    BY <2>1 DEF Copy, IsSnapshot
  <2>3. QED  BY <1>3, <1>8, <1>9, <2>1, <2>2 DEF Now
<1>11. QED  BY <1>3, <1>7, <1>10 DEF T!Attempt, Now, WorkOf

LEMMA SucceedRefines == IInv /\ (TryOk \/ TypedOk) => T!Succeed
<1>1. SUFFICES ASSUME IInv, TryOk \/ TypedOk PROVE T!Succeed  OBVIOUS
<1>2. /\ ~failing /\ frames # <<>> /\ IsSnapshot(Top) /\ Top.kind # "with"
      /\ frames' = Front(frames)
      /\ UNCHANGED <<tok, comments, cached, errors, pending, ctx, ast, failing>>
  BY <1>1 DEF TryOk, TypedOk, Open, Parsing, IsSnapshot
<1>3. /\ Copies # <<>> /\ Copies' = Front(Copies) /\ Last(Copies) = Copy(Len(frames))
      /\ Top = frames[Len(frames)]
  BY <1>1, <1>2, PopCopies
<1>4. Last(Copies).kind = "try"  BY <1>2, <1>3 DEF Copy, IsSnapshot
<1>5. Now' = Now  BY <1>2 DEF Now
<1>6. QED  BY <1>2, <1>3, <1>4, <1>5 DEF T!Succeed, T!Last, T!Front, Last, Front, Now

LEMMA RollbackRefines == IInv /\ TryErr => T!Rollback
<1>1. SUFFICES ASSUME IInv, TryErr PROVE T!Rollback  OBVIOUS
<1>2. /\ failing /\ ~failing' /\ frames # <<>> /\ IsSnapshot(Top) /\ Top.kind # "with"
      /\ RestoreFrom(Top) /\ frames' = Front(frames) /\ ctx' = ctx
  BY <1>1 DEF TryErr, Open, IsSnapshot
<1>3. PICK n \in Nat : n = Len(frames)  BY <1>1, FrameTypes DEF IInv
<1>4. /\ Top = frames[n] /\ Top.nComments \in 0..Len(comments)
      /\ Top.nErrors \in 0..Len(errors) /\ Top.nAst \in 0..Len(ast)
  BY <1>1, <1>2, <1>3, RestoreType DEF IInv
<1>5. ASSUME NEW i \in 1..(n - 1), IsSnapshot(frames[i])
      PROVE  /\ Truncate(comments', frames[i].nComments) = Truncate(comments, frames[i].nComments)
             /\ Truncate(errors', frames[i].nErrors) = Truncate(errors, frames[i].nErrors)
             /\ Truncate(ast', frames[i].nAst) = Truncate(ast, frames[i].nAst)
  <2>1. i \in 1..n /\ n \in 1..n /\ i < n  BY <1>3
  <2>2. /\ frames[i].nComments \in Nat /\ frames[i].nErrors \in Nat
        /\ frames[i].nAst \in Nat
    BY <1>1, <1>3, <1>5, <2>1, FrameTypes DEF IInv
  <2>3. /\ frames[i].nComments <= Top.nComments /\ frames[i].nErrors <= Top.nErrors
        /\ frames[i].nAst <= Top.nAst
    BY <1>1, <1>2, <1>3, <1>4, <1>5, <2>1 DEF IInv, SnapshotsNest
  <2>4. Top.nComments \in Nat /\ Top.nErrors \in Nat /\ Top.nAst \in Nat  BY <1>4
  <2>5. /\ frames[i].nComments \in 0..Top.nComments
        /\ frames[i].nErrors \in 0..Top.nErrors
        /\ frames[i].nAst \in 0..Top.nAst
    BY <2>2, <2>3, <2>4
  <2>6. comments \in Seq(Nat) /\ errors \in Seq(Nat) /\ ast \in Seq(Nat)
    BY <1>1 DEF IInv, TypeOK
  <2>7. /\ comments' = Truncate(comments, Top.nComments)
        /\ errors' = Truncate(errors, Top.nErrors)
        /\ ast' = Truncate(ast, Top.nAst)
    BY <1>2 DEF RestoreFrom
  <2>8. QED  BY <1>4, <2>5, <2>6, <2>7, TruncateTruncate
<1>6. /\ Copies # <<>> /\ Copies' = Front(Copies) /\ Last(Copies) = Copy(n)
  BY <1>1, <1>2, <1>3, <1>5, PopCopies
<1>7. ContextAt(frames, ctx, n) = ctx  BY <1>1, <1>3, ContextTop DEF IInv, TypeOK
<1>8. Last(Copies) = [kind |-> "try", ctx |-> ctx, work |-> Now']
  BY <1>2, <1>4, <1>6, <1>7 DEF Copy, RestoreFrom, Now
<1>9. failing' = FALSE  BY <1>1 DEF TryErr
<1>10. QED  BY <1>2, <1>6, <1>8, <1>9 DEF T!Rollback, T!Last, T!Front, Last, Front, Now

LEMMA FailRefines == IInv /\ Err => T!Fail
<1>1. SUFFICES ASSUME IInv, Err PROVE T!Fail  OBVIOUS
<1>2. /\ ~failing /\ failing' = TRUE
      /\ UNCHANGED <<items, tok, comments, cached, errors, pending, ctx, ast, frames, rescan>>
  BY <1>1 DEF Err, Parsing
<1>3. ASSUME NEW i \in 1..Len(frames) PROVE Copy(i)' = Copy(i)
  BY <1>2, SameCopy
<1>4. Copies' = Copies  BY <1>2, <1>3 DEF Copies
<1>5. Now' = Now  BY <1>2 DEF Now
<1>6. QED  BY <1>2, <1>4, <1>5 DEF T!Fail, Now

LEMMA EnterRefines == ASSUME IInv, NEW c \in Contexts, WithState(c) PROVE T!Enter
<1> DEFINE f == [kind |-> "with", ctx |-> ctx]
<1>1. /\ ~failing /\ frames' = Append(frames, f)
      /\ UNCHANGED <<tok, comments, cached, errors, pending, ast, failing>>
  BY DEF WithState, Parsing
<1>2. f \in Frame /\ f.kind = "with" /\ f.ctx = ctx  BY DEF IInv, TypeOK, Frame
<1> HIDE DEF f
<1>3. PICK n \in Nat : /\ n = Len(frames) /\ Len(frames') = n + 1 /\ frames'[n + 1] = f
                       /\ Copies' = Append(Copies, Copy(n + 1)')
  BY <1>1, <1>2, PushCopies
<1>4. ~IsSnapshot(frames'[n + 1]) /\ frames'[n + 1].kind = "with" /\ frames'[n + 1].ctx = ctx
  BY <1>2, <1>3 DEF IsSnapshot
<1>5. Copy(n + 1)' = [kind |-> "with", ctx |-> ctx]  BY <1>4 DEF Copy, IsSnapshot
<1>6. Now' = Now  BY <1>1 DEF Now
<1>7. QED  BY <1>1, <1>3, <1>5, <1>6 DEF T!Enter, Now

LEMMA LeaveRefines == IInv /\ DropState => T!Leave
<1>1. SUFFICES ASSUME IInv, DropState PROVE T!Leave  OBVIOUS
<1>2. /\ frames # <<>> /\ Top.kind = "with" /\ ctx' = Top.ctx /\ frames' = Front(frames)
      /\ UNCHANGED <<tok, comments, cached, errors, pending, ast, failing>>
  BY <1>1 DEF DropState, Open
<1>3. /\ Copies # <<>> /\ Copies' = Front(Copies) /\ Last(Copies) = Copy(Len(frames))
      /\ Top = frames[Len(frames)]
  BY <1>1, <1>2, PopCopies
<1>4. Last(Copies) = [kind |-> "with", ctx |-> Top.ctx]
  BY <1>2, <1>3 DEF Copy, IsSnapshot
<1>5. Now' = Now  BY <1>2 DEF Now
<1>6. QED  BY <1>2, <1>3, <1>4, <1>5 DEF T!Leave, T!Last, T!Front, Last, Front, Now

LEMMA EnterModeRefines == IInv /\ RawBegin => T!EnterMode
<1>1. SUFFICES ASSUME IInv, RawBegin PROVE T!EnterMode  OBVIOUS
<1> DEFINE f == [kind |-> "raw", lineComments |-> tok.lineComments]
<1>2. /\ frames' = Append(frames, f)
      /\ UNCHANGED <<comments, cached, errors, pending, ctx, ast, failing>>
  BY <1>1 DEF RawBegin
<1>3. ~failing  BY <1>1 DEF RawBegin, IInv, RescanStarts
<1>4. f \in Frame /\ f.kind = "raw"  BY <1>1 DEF IInv, TypeOK, TokState, Frame
<1> HIDE DEF f
<1>5. PICK n \in Nat : /\ n = Len(frames) /\ Len(frames') = n + 1 /\ frames'[n + 1] = f
                       /\ Copies' = Append(Copies, Copy(n + 1)')
  BY <1>1, <1>2, <1>4, PushCopies
<1>6. ~IsSnapshot(frames'[n + 1]) /\ frames'[n + 1].kind = "raw"
  BY <1>4, <1>5 DEF IsSnapshot
<1>7. Copy(n + 1)' = [kind |-> "raw"]  BY <1>6 DEF Copy, IsSnapshot
<1>8. QED  BY <1>2, <1>3, <1>5, <1>7 DEF T!EnterMode

LEMMA LeaveModeRefines == IInv /\ RawEnd => T!LeaveMode
<1>1. SUFFICES ASSUME IInv, RawEnd PROVE T!LeaveMode  OBVIOUS
<1>2. /\ frames # <<>> /\ Top.kind = "raw" /\ frames' = Front(frames)
      /\ UNCHANGED <<comments, cached, errors, pending, ctx, ast, failing>>
  BY <1>1 DEF RawEnd, Open
<1>3. /\ Copies # <<>> /\ Copies' = Front(Copies) /\ Last(Copies) = Copy(Len(frames))
      /\ Top = frames[Len(frames)]
  BY <1>1, <1>2, PopCopies
<1>4. Last(Copies) = [kind |-> "raw"]  BY <1>2, <1>3 DEF Copy, IsSnapshot
<1>5. QED  BY <1>2, <1>3, <1>4 DEF T!LeaveMode, T!Last, T!Front, Last, Front

LEMMA StutterRefines == UNCHANGED vars => UNCHANGED T!tvars
<1>1. SUFFICES ASSUME UNCHANGED vars PROVE UNCHANGED T!tvars  OBVIOUS
<1>2. UNCHANGED <<tok, comments, cached, errors, pending, ctx, ast, frames, failing>>
  BY <1>1 DEF vars
<1>3. ASSUME NEW i \in 1..Len(frames) PROVE Copy(i)' = Copy(i)
  BY <1>2, SameCopy
<1>4. Copies' = Copies  BY <1>2, <1>3 DEF Copies
<1>5. Now' = Now  BY <1>2 DEF Now
<1>6. QED  BY <1>2, <1>4, <1>5 DEF T!tvars, Now

LEMMA StepRefines == IInv /\ [Next]_vars => [T!TNext]_T!tvars
<1>1. CASE UNCHANGED vars  BY <1>1, StutterRefines
<1>2. SUFFICES ASSUME IInv, Next PROVE T!TNext  BY <1>1
<1>3. CASE WorkStep  BY <1>2, <1>3, WorkRefines DEF T!TNext
<1>4. CASE TryBegin  BY <1>2, <1>4, AttemptRefines DEF T!TNext
<1>5. CASE TryOk \/ TypedOk  BY <1>2, <1>5, SucceedRefines DEF T!TNext
<1>6. CASE TryErr  BY <1>2, <1>6, RollbackRefines DEF T!TNext
<1>7. CASE Err  BY <1>2, <1>7, FailRefines DEF T!TNext
<1>8. CASE \E c \in Contexts : WithState(c)
  <2>1. PICK c \in Contexts : WithState(c)  BY <1>8
  <2>2. T!Enter  BY <1>2, <2>1, EnterRefines
  <2>3. QED  BY <2>2 DEF T!TNext
<1>9. CASE DropState  BY <1>2, <1>9, LeaveRefines DEF T!TNext
<1>10. CASE RawBegin  BY <1>2, <1>10, EnterModeRefines DEF T!TNext
<1>11. CASE RawEnd  BY <1>2, <1>11, LeaveModeRefines DEF T!TNext
<1>12. QED
  BY <1>2, <1>3, <1>4, <1>5, <1>6, <1>7, <1>8, <1>9, <1>10, <1>11 DEF Next, WorkStep

\* A failed attempt leaves no trace: every behaviour of try_parse and the scopes
\* around it, with their snapshots by length and their guards, is a behaviour of
\* the transactions by full copies.
THEOREM Refinement == Spec => Transactional
<1>1. Init => T!TInit  BY RefinementInit
<1>2. IInv /\ [Next]_vars => [T!TNext]_T!tvars  BY StepRefines
<1>3. Spec => []IInv  BY Invariant
<1>4. QED  BY <1>1, <1>2, <1>3, PTL DEF Spec, Transactional, T!TSpec

----------------------------------------------------------------------------
(***************************************************************************)
(* The line comments that the tokenizer has counted are those of the list,  *)
(* now and in whatever may be rolled back to.                               *)
(***************************************************************************)
LineIndices(seq) == {n \in 1..Len(seq) : ItemAt(seq[n]) = "line"}

LEMMA LineIndicesFinite ==
    ASSUME NEW s \in Seq(Nat)
    PROVE  /\ IsFiniteSet(LineIndices(s))
           /\ Lines(s) = Cardinality(LineIndices(s))
           /\ Lines(s) \in Nat
<1>1. IsFiniteSet(1..Len(s))  BY LenProperties, FS_Interval
<1>2. LineIndices(s) \subseteq 1..Len(s)  BY DEF LineIndices
<1>3. IsFiniteSet(LineIndices(s))  BY <1>1, <1>2, FS_Subset
<1>4. QED  BY <1>3, LinesType DEF Lines, LineIndices

LEMMA LinesEmpty == Lines(<<>>) = 0
<1>1. LineIndices(<<>>) = {} /\ Lines(<<>>) = Cardinality(LineIndices(<<>>))
  BY DEF LineIndices, Lines
<1>2. QED  BY <1>1, FS_EmptySet

\* The line comments of two lists, the second one's indices moved behind the first.
LEMMA LinesConcat ==
    ASSUME NEW s \in Seq(Nat), NEW t \in Seq(Nat)
    PROVE  Lines(s \o t) = Lines(s) + Lines(t)
<1> DEFINE A == LineIndices(s)
           B == LineIndices(t)
           C == {n \in (Len(s) + 1)..(Len(s) + Len(t)) : ItemAt(t[n - Len(s)]) = "line"}
<1>1. Len(s) \in Nat /\ Len(t) \in Nat  BY LenProperties
<1>2. /\ s \o t \in Seq(Nat) /\ Len(s \o t) = Len(s) + Len(t)
      /\ \A n \in 1..(Len(s) + Len(t)) : (s \o t)[n] = IF n <= Len(s) THEN s[n] ELSE t[n - Len(s)]
  BY ConcatProperties
<1>3. LineIndices(s \o t) = A \cup C
  <2>1. \A n : n \in 1..(Len(s) + Len(t)) <=>
                 n \in 1..Len(s) \/ n \in (Len(s) + 1)..(Len(s) + Len(t))
    BY <1>1
  <2>2. \A n \in 1..Len(s) : n <= Len(s)  BY <1>1
  <2>3. \A n \in (Len(s) + 1)..(Len(s) + Len(t)) : ~(n <= Len(s))  BY <1>1
  <2>4. \A n \in 1..Len(s) : (s \o t)[n] = s[n]  BY <1>2, <2>1, <2>2
  <2>5. \A n \in (Len(s) + 1)..(Len(s) + Len(t)) : (s \o t)[n] = t[n - Len(s)]
    BY <1>2, <2>1, <2>3
  <2>6. QED  BY <1>2, <2>1, <2>4, <2>5 DEF LineIndices
<1>4. A \cap C = {}  BY <1>1 DEF LineIndices
<1>5. IsFiniteSet(A) /\ IsFiniteSet(B)  BY LineIndicesFinite
<1>6. IsFiniteSet(C) /\ Cardinality(C) = Cardinality(B)
  <2> DEFINE shift == [n \in B |-> n + Len(s)]
  <2>1. ASSUME NEW n \in B PROVE shift[n] \in C
    <3>1. n \in 1..Len(t) /\ ItemAt(t[n]) = "line"  BY DEF LineIndices
    <3>2. n + Len(s) \in (Len(s) + 1)..(Len(s) + Len(t)) /\ (n + Len(s)) - Len(s) = n
      BY <1>1, <3>1
    <3>3. QED  BY <3>1, <3>2
  <2>2. \A m, n \in B : shift[m] = shift[n] => m = n  BY <1>1 DEF LineIndices
  <2>3. ASSUME NEW c \in C PROVE \E n \in B : shift[n] = c
    <3>1. c - Len(s) \in 1..Len(t) /\ (c - Len(s)) + Len(s) = c  BY <1>1
    <3>2. c - Len(s) \in B  BY <3>1 DEF LineIndices
    <3>3. QED  BY <3>1, <3>2
  <2>4. shift \in [B -> C]  BY <2>1
  <2> HIDE DEF shift, B, C
  <2>5. shift \in Bijection(B, C)  BY <2>2, <2>3, <2>4 DEF Bijection, Injection, Surjection, IsInjective
  <2>6. ExistsBijection(B, C)  BY <2>5 DEF ExistsBijection
  <2>7. QED  BY <1>5, <2>6, FS_Bijection
<1>7. Cardinality(A \cup C) = Cardinality(A) + Cardinality(C)
  <2>1. Cardinality(A \cup C) = Cardinality(A) + Cardinality(C) - Cardinality(A \cap C)
    BY <1>5, <1>6, FS_Union
  <2>2. Cardinality(A \cap C) = 0  BY <1>4, FS_EmptySet
  <2>3. Cardinality(A) \in Nat /\ Cardinality(C) \in Nat  BY <1>5, <1>6, FS_CardinalityType
  <2> HIDE DEF A, C
  <2>4. QED  BY <2>1, <2>2, <2>3
<1>8. QED  BY <1>2, <1>3, <1>6, <1>7, LineIndicesFinite

\* As many line comments as in a prefix are none behind it.
LEMMA NoLinesBehind ==
    ASSUME NEW s \in Seq(Nat), NEW n \in 0..Len(s), Lines(s) = Lines(Truncate(s, n))
    PROVE  \A m \in (n + 1)..Len(s) : ItemAt(s[m]) # "line"
<1> DEFINE p == Truncate(s, n)
<1>1. /\ p \in Seq(Nat) /\ Len(p) = n /\ \A i \in 1..n : p[i] = s[i]  BY TruncateProperties
<1>2. Len(s) \in Nat  BY LenProperties
<1> HIDE DEF p
<1>3. \A i \in 1..n : i \in 1..Len(s)  BY <1>2
<1>4. LineIndices(p) \subseteq LineIndices(s)  BY <1>1, <1>3 DEF LineIndices
<1>5. Cardinality(LineIndices(s)) = Cardinality(LineIndices(p)) /\ IsFiniteSet(LineIndices(s))
  BY <1>1, LineIndicesFinite DEF p
<1>6. LineIndices(s) = LineIndices(p)  BY <1>4, <1>5, FS_Subset
<1>7. ASSUME NEW m \in (n + 1)..Len(s), ItemAt(s[m]) = "line" PROVE FALSE
  <2>1. m \in 1..Len(s) /\ ~(m \in 1..n)  BY <1>2
  <2>2. m \in LineIndices(s)  BY <1>7, <2>1 DEF LineIndices
  <2>3. QED  BY <1>1, <1>6, <2>1, <2>2 DEF LineIndices
<1>8. QED  BY <1>7

SeenSaved ==
    \A i \in 1..Len(frames) :
        IsSnapshot(frames[i]) =>
          frames[i].tok.seen = Lines(Truncate(comments, frames[i].nComments))

SInv == SeenCountsLineComments /\ SeenSaved

\* The counts in the next state, of a source that stays.
LEMMA SInvNext ==
    ASSUME items' = items
    PROVE  /\ SeenCountsLineComments' <=> tok'.seen = Lines(comments')
           /\ SeenSaved' <=> \A i \in 1..Len(frames') : IsSnapshot(frames'[i]) =>
                                frames'[i].tok.seen = Lines(Truncate(comments', frames'[i].nComments))
BY DEF SeenCountsLineComments, SeenSaved, Lines, ItemAt, IsSnapshot, Truncate

\* The comments that a step of the work reads, and counts.
LEMMA AdvanceSeen ==
    ASSUME TypeOK, NEW k \in Nat, tok.pos <= k, Advance(k)
    PROVE  \E x \in Seq(Nat) : comments' = comments \o x /\ tok'.seen = tok.seen + Lines(x)
<1> DEFINE x == Skip(tok.pos, k)
<1>1. tok \in TokState /\ tok.pos \in Nat \ {0}  BY DEF TypeOK, TokState
<1>2. x \in Seq(Nat)  BY <1>1, SkipProperties
<1>3. comments' = comments \o x /\ tok'.seen = tok.seen + Lines(x)
  BY <1>1 DEF Advance, TokState
<1> HIDE DEF x
<1>4. QED  BY <1>2, <1>3

LEMMA WorkSeen ==
    ASSUME TypeOK, WorkStep
    PROVE  \E x \in Seq(Nat) : comments' = comments \o x /\ tok'.seen = tok.seen + Lines(x)
<1>1. ASSUME comments' = comments, tok' = tok
      PROVE  \E x \in Seq(Nat) : comments' = comments \o x /\ tok'.seen = tok.seen + Lines(x)
  <2>1. <<>> \in Seq(Nat) /\ comments \o <<>> = comments  BY EmptySeq, ConcatEmptySeq DEF TypeOK
  <2>2. tok.seen + 0 = tok.seen  BY DEF TypeOK, TokState
  <2>3. QED  BY <1>1, <2>1, <2>2, LinesEmpty
<1>2. ASSUME NEW k \in 1..Len(items), TakeNext(k)
      PROVE  \E x \in Seq(Nat) : comments' = comments \o x /\ tok'.seen = tok.seen + Lines(x)
  <2>1. k \in Nat  BY LenProperties DEF TypeOK
  <2>2. CASE cached # 0  BY <1>1, <1>2, <2>2 DEF TakeNext
  <2>3. CASE cached = 0
    <3>1. Advance(k) /\ tok.pos <= k  BY <1>2, <2>3 DEF TakeNext, BumpsTo
    <3>2. QED  BY <2>1, <3>1, AdvanceSeen
  <2>4. QED  BY <2>2, <2>3
<1>3. CASE Peek
  <2>1. PICK k \in Rest : Advance(k)  BY <1>3 DEF Peek
  <2>2. k \in Nat /\ tok.pos <= k  BY <2>1 DEF TypeOK, TokState, Rest
  <2>3. QED  BY <2>1, <2>2, AdvanceSeen
<1>4. CASE BumpFresh
  <2>1. PICK k \in Rest : Advance(k)  BY <1>4 DEF BumpFresh
  <2>2. k \in Nat /\ tok.pos <= k  BY <2>1 DEF TypeOK, TokState, Rest
  <2>3. QED  BY <2>1, <2>2, AdvanceSeen
<1>5. CASE BumpGlued
  <2>1. tok.pos \in Nat /\ tok.pos <= tok.pos /\ Advance(tok.pos)
    BY <1>5 DEF BumpGlued, TypeOK, TokState
  <2>2. QED  BY <2>1, AdvanceSeen
<1>6. CASE EatLineContinuation
  BY <1>2, <1>6 DEF EatLineContinuation
<1>7. CASE DrainPendingDedents
  BY <1>2, <1>7 DEF DrainPendingDedents
<1>8. CASE BumpCached \/ PushError \/ EnterVirtualBlock
  BY <1>1, <1>8 DEF BumpCached, PushError, EnterVirtualBlock
<1>9. QED  BY <1>3, <1>4, <1>5, <1>6, <1>7, <1>8 DEF WorkStep

LEMMA PushPopSeen ==
    ASSUME TypeOK, PushStep \/ PopStep
    PROVE  tok'.seen = tok.seen
BY DEF PushStep, PopStep, TryBegin, WithState, RawBegin, TryOk, TypedOk, DropState, RawEnd,
       TypeOK, TokState

LEMMA SeenInit == Init => SInv
<1>1. SUFFICES ASSUME Init PROVE SInv  OBVIOUS
<1>2. tok.seen = 0 /\ comments = <<>> /\ Len(frames) = 0  BY <1>1, EmptySeq DEF Init
<1>3. QED  BY <1>2, LinesEmpty DEF SInv, SeenCountsLineComments, SeenSaved

LEMMA SeenStep == IInv /\ SInv /\ [Next]_vars => SInv'
<1>1. SUFFICES ASSUME IInv, SInv, [Next]_vars PROVE SInv'  OBVIOUS
<1>2. TypeOK /\ SnapshotsNest /\ comments \in Seq(Nat) /\ tok.seen = Lines(comments)
  BY <1>1 DEF IInv, TypeOK, SInv, SeenCountsLineComments
<1>3. PICK n \in Nat : n = Len(frames)  BY <1>2, FrameTypes
<1>4. ASSUME NEW i \in 1..n, IsSnapshot(frames[i])
      PROVE  /\ frames[i].nComments \in 0..Len(comments)
             /\ frames[i].tok.seen = Lines(Truncate(comments, frames[i].nComments))
  BY <1>1, <1>2, <1>3, <1>4, FrameTypes DEF SnapshotsNest, SInv, SeenSaved
<1>5. CASE WorkStep
  <2>1. items' = items /\ frames' = frames  BY <1>1, <1>5, WorkGrows DEF IInv, Grows
  <2>2. PICK x \in Seq(Nat) : comments' = comments \o x /\ tok'.seen = tok.seen + Lines(x)
    BY <1>2, <1>5, WorkSeen
  <2>3. tok'.seen = Lines(comments')  BY <1>2, <2>2, LinesConcat
  <2>4. \A i \in 1..n : IsSnapshot(frames[i]) =>
              Truncate(comments', frames[i].nComments) = Truncate(comments, frames[i].nComments)
    BY <1>2, <1>4, <2>2, TruncateConcat
  <2>5. QED  BY <1>3, <1>4, <2>1, <2>3, <2>4, SInvNext DEF SInv
<1>6. CASE PushStep
  <2>1. PICK f \in Frame : /\ Still /\ frames' = Append(frames, f)
                           /\ IsSnapshot(f) => f = Snapshot(f.kind)
    BY <1>2, <1>6, PushSteps
  <2>2. items' = items /\ comments' = comments  BY <2>1 DEF Still
  <2>3. /\ Len(frames') = n + 1 /\ frames'[n + 1] = f
        /\ \A i \in 1..n : frames'[i] = frames[i]
    BY <1>2, <1>3, <2>1, AppendProperties DEF TypeOK
  <2>4. IsSnapshot(f) => f.tok = tok /\ f.nComments = Len(comments)  BY <2>1 DEF Snapshot
  <2>5. Truncate(comments, Len(comments)) = comments  BY <1>2, SubSeqFull DEF Truncate
  <2>6. ASSUME NEW i \in 1..(n + 1), IsSnapshot(frames'[i])
        PROVE  frames'[i].tok.seen = Lines(Truncate(comments, frames'[i].nComments))
    <3>1. i \in 1..n \/ i = n + 1  OBVIOUS
    <3>2. CASE i \in 1..n  BY <1>4, <2>3, <2>6, <3>2
    <3>3. CASE i = n + 1  BY <1>2, <2>3, <2>4, <2>5, <2>6, <3>3
    <3>4. QED  BY <3>1, <3>2, <3>3
  <2>7. tok'.seen = tok.seen  BY <1>2, <1>6, PushPopSeen
  <2>8. QED  BY <1>2, <2>2, <2>3, <2>6, <2>7, SInvNext DEF SInv
<1>7. CASE PopStep
  <2>1. Still /\ frames # <<>> /\ frames' = Front(frames)  BY <1>2, <1>7, PopSteps
  <2>2. items' = items /\ comments' = comments  BY <2>1 DEF Still
  <2>3. /\ Len(frames') = n - 1 /\ \A i \in 1..(n - 1) : frames'[i] = frames[i]
    BY <1>2, <1>3, <2>1, FrontProperties DEF TypeOK
  <2>4. \A i \in 1..(n - 1) : i \in 1..n  OBVIOUS
  <2>5. tok'.seen = tok.seen  BY <1>2, <1>7, PushPopSeen
  <2>6. QED  BY <1>2, <1>4, <2>2, <2>3, <2>4, <2>5, SInvNext DEF SInv
<1>8. CASE TryErr
  <2>1. /\ frames # <<>> /\ IsSnapshot(Top) /\ RestoreFrom(Top) /\ frames' = Front(frames)
        /\ items' = items
    BY <1>8 DEF TryErr, Open, IsSnapshot
  <2>2. /\ n >= 1 /\ Top = frames[n]
        /\ Len(frames') = n - 1 /\ \A i \in 1..(n - 1) : frames'[i] = frames[i]
    <3>1. /\ Len(frames) \in Nat \ {0} /\ Len(Front(frames)) = Len(frames) - 1
          /\ \A i \in 1..(Len(frames) - 1) : Front(frames)[i] = frames[i]
          /\ Top = frames[Len(frames)]
      BY <1>2, <2>1, FrontProperties DEF TypeOK, Top
    <3>2. QED  BY <1>3, <2>1, <3>1
  <2>3. n \in 1..n  BY <2>2
  <2>4. tok' = Top.tok /\ comments' = Truncate(comments, Top.nComments)
    BY <2>1 DEF RestoreFrom
  <2>5. Top.nComments \in 0..Len(comments) /\ tok'.seen = Lines(comments')
    BY <1>4, <2>1, <2>2, <2>3, <2>4
  <2>6. ASSUME NEW i \in 1..(n - 1), IsSnapshot(frames[i])
        PROVE  frames[i].tok.seen = Lines(Truncate(comments', frames[i].nComments))
    <3>1. i \in 1..n /\ i < n  OBVIOUS
    <3>2. frames[i].nComments <= Top.nComments
      BY <1>2, <1>3, <2>1, <2>2, <2>3, <2>6, <3>1 DEF SnapshotsNest
    <3>3. frames[i].nComments \in 0..Top.nComments  BY <1>4, <2>5, <2>6, <3>1, <3>2
    <3>4. Truncate(comments', frames[i].nComments) = Truncate(comments, frames[i].nComments)
      BY <1>2, <2>4, <2>5, <3>3, TruncateTruncate
    <3>5. QED  BY <1>4, <2>6, <3>1, <3>4
  <2>7. QED  BY <2>1, <2>2, <2>5, <2>6, SInvNext DEF SInv
<1>9. CASE Err \/ UNCHANGED vars
  <2>1. UNCHANGED <<items, tok, comments, frames>>  BY <1>9 DEF Err, vars
  <2>2. QED  BY <1>2, <1>3, <1>4, <2>1, SInvNext DEF SInv
<1>10. WorkStep \/ PushStep \/ PopStep \/ TryErr \/ Err \/ UNCHANGED vars
  BY <1>1 DEF Next, WorkStep, PushStep, PopStep
<1>11. QED  BY <1>5, <1>6, <1>7, <1>8, <1>9, <1>10

LEMMA SeenInvariant == Spec => [](IInv /\ SInv)
<1>1. Init => SInv  BY SeenInit
<1>2. IInv /\ SInv /\ [Next]_vars => SInv'  BY SeenStep
<1>3. QED  BY <1>1, <1>2, Invariant, PTL DEF Spec

\* The counter, restored by value, and the comment list, restored by length, agree
\* after any attempts and failures.
THEOREM CounterFollowsList == Spec => []SeenCountsLineComments
<1>1. IInv /\ SInv => SeenCountsLineComments  BY DEF SInv
<1>2. QED  BY <1>1, SeenInvariant, PTL

\* A custom property value keeps its typed form only if no `//` comment was read for
\* it: comparing the counters tells, although attempts inside it may have failed.
THEOREM TypedValuesAreWhole == Spec => TypedValueHasNoLineComment
<1> DEFINE Clean == \A n \in (Top.nComments + 1)..Len(comments) : ItemAt(comments[n]) # "line"
<1>1. IInv /\ SInv /\ [Next]_vars => [TypedOk => Clean]_vars
  <2>1. SUFFICES ASSUME IInv, SInv, TypedOk PROVE Clean  OBVIOUS
  <2>2. /\ TypeOK /\ SnapshotsNest /\ comments \in Seq(Nat) /\ frames \in Seq(Frame)
        /\ tok.seen = Lines(comments)
    BY <2>1 DEF IInv, TypeOK, SInv, SeenCountsLineComments
  <2>3. frames # <<>> /\ IsSnapshot(Top) /\ tok.seen = Top.tok.seen
    BY <2>1 DEF TypedOk, Open, IsSnapshot
  <2>4. Top = frames[Len(frames)] /\ Len(frames) \in 1..Len(frames)
    <3>1. Len(frames) \in Nat \ {0} /\ Top = frames[Len(frames)]
      BY <2>2, <2>3, FrontProperties DEF Top
    <3>2. QED  BY <3>1
  <2>5. /\ Top.nComments \in 0..Len(comments)
        /\ Top.tok.seen = Lines(Truncate(comments, Top.nComments))
    BY <2>1, <2>2, <2>3, <2>4, FrameTypes DEF SnapshotsNest, SInv, SeenSaved
  <2>6. QED  BY <2>2, <2>3, <2>5, NoLinesBehind
<1>2. QED  BY <1>1, SeenInvariant, PTL DEF Spec, TypedValueHasNoLineComment

=============================================================================
