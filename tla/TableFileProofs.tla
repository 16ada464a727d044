---------------------------- MODULE TableFileProofs ----------------------------
(***************************************************************************)
(* What a reader of a stored table finds: that the cells, the frames, the   *)
(* seek table and the batches of TableFile fit together for any length of   *)
(* the table, any frame size and any number of threads, and that            *)
(* EgtFileWriter holds nothing but them, whatever its callers do; and that  *)
(* the statistics the batches make and merge are those of one pass over the *)
(* table.                                                                   *)
(***************************************************************************)
EXTENDS TableFile, FiniteSums

\* What FlattenSeq computes.
LEMMA FlattenJoins == ASSUME NEW seqs PROVE FlattenSeq(seqs) = Joined(seqs)
BY DEF FlattenSeq, Joined

-------------------------------------------------------------------------------
(* Cells: what the bits of a MaybeDtcOutcome hold.                           *)

\* A cell's value with the unknown made a draw.
Settled(v) == IF IsUnknown(v) THEN Draw ELSE v

\* What fits in a cell.
Raws == {raw \in Nat : raw < 65536}

\* What finalize_table makes of a cell.
Stored(v) == IF is_unknown(Encode(v)) THEN Encode(Draw) ELSE Encode(v)

\* The three low bits tell the kind and the conversion of a win or a loss apart.
LEMMA BitsTell ==
  /\ \A c \in ConversionType : /\ Bits["win"][c] \in {2, 4, 6} /\ Bits["loss"][c] \in {3, 5, 7}
  /\ \A c, d \in ConversionType : /\ Bits["win"][c] = Bits["win"][d] => c = d
                                  /\ Bits["loss"][c] = Bits["loss"][d] => c = d
<1>1. /\ Bits["win"]["Checkmate"] = 2 /\ Bits["win"]["Capture"] = 4 /\ Bits["win"]["Promotion"] = 6
      /\ Bits["loss"]["Checkmate"] = 3 /\ Bits["loss"]["Capture"] = 5 /\ Bits["loss"]["Promotion"] = 7
  BY DEF Bits
<1> QED
  BY <1>1 DEF ConversionType

\* A cell of two bytes with these bits and this distance, whose lower byte is not 0 or 1.
Holds(raw, b, n) ==
  /\ raw \in Raws /\ raw >= 2
  /\ raw % 8 = b /\ raw \div 8 = n /\ raw % 2 = b % 2
  /\ Low(raw) >= 2

\* A distance of thirteen bits comes out of a cell as it went in.
LEMMA ResolvedCell ==
  ASSUME NEW b \in 2 .. 7, NEW n \in Nat, n < 8192
  PROVE  Holds(b + ((n * 8) % 65536), b, n)
<1> DEFINE raw == b + ((n * 8) % 65536)
<1>0. (n * 8) % 65536 = n * 8
  OBVIOUS
<1>1. b \in Nat /\ b >= 2 /\ b <= 7 /\ raw = b + n * 8 /\ raw \in Nat /\ raw >= 2 /\ raw < 65536
  BY <1>0
<1> HIDE DEF raw
<1>2. raw % 8 = b /\ raw \div 8 = n
  BY <1>1
<1>3. raw % 2 = b % 2
  BY <1>1
<1>4. (raw % 256) % 8 = raw % 8
  BY <1>1
<1>5. Low(raw) >= 2
  BY <1>1, <1>2, <1>4 DEF Low
<1>6. raw \in Raws /\ raw >= 2
  BY <1>1 DEF Raws
<1>7. Holds(raw, b, n)
  BY <1>2, <1>3, <1>5, <1>6, Zenon DEF Holds
<1> QED
  BY <1>7 DEF raw

\* What a finalized cell holds: two bytes, whose lower tells 0 and 1 from the rest, and
\* which decode to the outcome that was found, an unknown as a draw.
LEMMA StoredCell ==
  ASSUME NEW v \in Outcomes
  PROVE  /\ Stored(v) \in Raws
         /\ Low(Stored(v)) \in {0, 1} => Stored(v) \in {0, 1}
         /\ Decode(Stored(v)) = Settled(v)
<1>0. /\ Encode(Draw) = 1 /\ Encode(Invalid) = 0
      /\ ~ is_unknown(0) /\ ~ is_unknown(1) /\ Decode(0) = Invalid /\ Decode(1) = Draw
  BY DEF Encode, is_unknown, Decode, Draw, Invalid
<1>1. CASE v = Invalid
  <2>1. Stored(v) = 0 /\ Settled(v) = Invalid
    BY <1>0, <1>1 DEF Stored, Settled, IsUnknown, Invalid
  <2> QED
    BY <2>1, <1>0 DEF Low, Raws
<1>2. CASE v = Draw
  <2>1. Stored(v) = 1 /\ Settled(v) = Draw
    BY <1>0, <1>2 DEF Stored, Settled, IsUnknown, Draw
  <2> QED
    BY <2>1, <1>0 DEF Low, Raws
<1>3. CASE v \in Value /\ v.n < 2 ^ 13 /\ IsUnknown(v) /\ v.n # 0
  <2>1. v.kind = "unknown" /\ v.n \in Nat /\ v.n < 8192
    BY <1>3 DEF IsUnknown, Value
  <2>2. Encode(v) = (v.n * 8) % 65536
    BY <2>1 DEF Encode
  <2>3. ASSUME NEW n \in Nat, n < 8192, n # 0
        PROVE ((n * 8) % 65536) % 8 = 0 /\ ((n * 8) % 65536) \div 8 # 0
    BY <2>3
  <2>4. is_unknown(Encode(v))
    BY <2>1, <2>2, <2>3, <1>3 DEF is_unknown
  <2>5. Stored(v) = 1 /\ Settled(v) = Draw
    BY <1>0, <2>1, <2>4 DEF Stored, Settled, IsUnknown
  <2> QED
    BY <2>5, <1>0 DEF Low, Raws
<1>4. CASE v \in Value /\ v.n < 2 ^ 13 /\ IsResolved(v) /\ v.ct # "none"
  <2> DEFINE kind == v.kind
             c == v.ct
             n == v.n
             raw == Bits[kind][c] + ((n * 8) % 65536)
  <2>1. /\ kind \in {"win", "loss"} /\ c \in ConversionType /\ n \in Nat /\ n < 8192
        /\ v = [kind |-> kind, ct |-> c, n |-> n]
    BY <1>4 DEF IsResolved, IsWin, IsLoss, Value
  <2>2. Encode(v) = raw
    BY <2>1 DEF Encode
  <2> DEFINE b == Bits[kind][c]
  <2>3. /\ b \in 2 .. 7 /\ b % 2 = (IF kind = "win" THEN 0 ELSE 1)
        /\ \A d \in ConversionType : Bits[kind][d] = b => d = c
    <3>1. CASE kind = "win"
      BY <2>1, <3>1, BitsTell
    <3>2. CASE kind = "loss"
      BY <2>1, <3>2, BitsTell
    <3> QED
      BY <3>1, <3>2, <2>1
  <2>4. /\ raw \in Raws /\ raw >= 2 /\ Low(raw) >= 2 /\ Low(raw) \in Nat
        /\ raw % 8 = b /\ raw \div 8 = n /\ raw % 2 = b % 2
    <3>1. Holds(raw, b, n)
      <4> HIDE DEF kind, c, n, b
      <4> QED
        BY <2>1, <2>3, ResolvedCell DEF b
    <3>2. Low(raw) \in Nat
      <4>1. raw \in Raws
        BY <3>1 DEF Holds
      <4> HIDE DEF raw
      <4> QED
        BY <4>1 DEF Low, Raws
    <3> HIDE DEF raw, b
    <3> QED
      BY <3>1, <3>2, Zenon DEF Holds
  <2> HIDE DEF raw
  <2>5. Stored(v) = raw
    <3>1. ~ is_unknown(raw)
      <4> HIDE DEF b
      <4> QED
        BY <2>3, <2>4 DEF is_unknown
    <3> QED
      BY <2>2, <3>1 DEF Stored
  <2>6. Settled(v) = v
    BY <2>1 DEF Settled, IsUnknown
  <2>7. Decode(raw) = v
    <3> DEFINE K == IF raw % 2 = 0 THEN "win" ELSE "loss"
               CT(k) == CHOOSE d \in ConversionType : Bits[k][d] = raw % 8
    <3>1. K = kind
      <4> HIDE DEF kind, b
      <4> QED
        BY <2>1, <2>3, <2>4
    <3>2. CT(kind) = c
      <4>1. \E d \in ConversionType : Bits[kind][d] = raw % 8
        <5>1. Bits[kind][c] = b
          OBVIOUS
        <5> HIDE DEF kind, b, c
        <5> QED
          BY <5>1, <2>1, <2>4
      <4>2. CT(kind) \in ConversionType /\ Bits[kind][CT(kind)] = raw % 8
        BY <4>1
      <4> HIDE DEF CT, kind, b, c
      <4> QED
        BY <4>2, <2>3, <2>4
    <3>3. raw # 0 /\ raw % 8 # 1 /\ raw % 8 # 0
      <4> HIDE DEF b
      <4> QED
        BY <2>3, <2>4
    <3>4. Decode(raw) = [kind |-> K, ct |-> CT(K), n |-> raw \div 8]
      BY <3>3 DEF Decode
    <3>5. Decode(raw) = [kind |-> kind, ct |-> CT(kind), n |-> raw \div 8]
      <4> HIDE DEF CT, K, kind
      <4> QED
        BY <3>1, <3>4
    <3> HIDE DEF CT, K, kind, c, n
    <3> QED
      BY <3>2, <3>5, <2>1, <2>4
  <2>8. Low(raw) \notin {0, 1}
    BY <2>4
  <2> QED
    BY <2>4, <2>5, <2>6, <2>7, <2>8
<1>5. \/ v \in {Invalid, Draw}
      \/ /\ v \in Value /\ v.n < 2 ^ 13
         /\ \/ IsResolved(v) /\ v.ct # "none"
            \/ IsUnknown(v) /\ v.ct = "none" /\ v.n # 0
  BY FileAssumption
<1> QED
  BY <1>1, <1>2, <1>3, <1>4, <1>5, Zenon

-------------------------------------------------------------------------------
(* Frames: transpose_frame and detranspose_frame.                            *)

\* The high bytes of the cells that are neither 0 nor 1.
HighBytes(frame) ==
  FoldLeft(LAMBDA bytes, raw : IF raw \in {0, 1} THEN bytes ELSE Append(bytes, High(raw)),
           <<>>, frame)

\* g collects them at each set of positions: the function HighBytes is defined by.
Collects(g, frame) ==
  g = [s \in SUBSET DOMAIN frame |->
         IF s = {} THEN <<>>
         ELSE IF frame[Max(s)] \in {0, 1} THEN g[s \ {Max(s)}]
              ELSE Append(g[s \ {Max(s)}], High(frame[Max(s)]))]

\* The fold is that function's value at all positions.
LEMMA HighBytesUnfolded ==
  ASSUME NEW frame
  PROVE  HighBytes(frame) = (CHOOSE g : Collects(g, frame))[DOMAIN frame]
BY DEF HighBytes, FoldLeft, MapThenFoldSet, Collects

\* There is such a function.
LEMMA CollectExists ==
  ASSUME NEW frame \in Seq(Nat) PROVE \E g : Collects(g, frame)
<1> DEFINE A == Seq(Nat)
           X == Nat
           none == <<>>
           S(bytes) == [raw \in X |-> IF raw \in {0, 1} THEN bytes ELSE Append(bytes, High(raw))]
           step == [bytes \in A |-> S(bytes)]
           n == Len(frame)
<1>1. n \in Nat /\ DOMAIN frame = 1 .. n /\ \A k \in 1 .. n : frame[k] \in Nat
  BY LenProperties, ElementOfSeq
<1>2. \A raw \in X : High(raw) \in Nat
  BY DEF High
<1>3. \A bytes \in A : \A raw \in X :
        /\ S(bytes)[raw] = IF raw \in {0, 1} THEN bytes ELSE Append(bytes, High(raw))
        /\ S(bytes)[raw] \in A
  <2>1. \A bytes \in A : \A raw \in X : Append(bytes, High(raw)) \in A
    BY <1>2, AppendProperties
  <2> HIDE DEF A, X
  <2> QED
    BY <2>1
<1>4. \A bytes \in A : S(bytes) \in [X -> A]
  <2>1. \A bytes \in A : \A raw \in X :
          (IF raw \in {0, 1} THEN bytes ELSE Append(bytes, High(raw))) \in A
    BY <1>3
  <2> HIDE DEF A, X
  <2> QED
    BY <2>1
<1>5. step \in [A -> [X -> A]] /\ \A bytes \in A : step[bytes] = S(bytes)
  <2> HIDE DEF A, X, S
  <2> QED
    BY <1>4
<1>6. PICK g \in [SUBSET (1 .. Len(frame)) -> A] : FoldsAll(g, step, none, frame, Len(frame))
  <2>1. none \in A /\ frame \in Seq(X)
    BY EmptySeq
  <2> HIDE DEF A, X, step, none, n
  <2> QED
    BY <1>5, <2>1, FoldExists
<1>7. ASSUME NEW s \in SUBSET (1 .. n)
      PROVE  g[s] = IF s = {} THEN <<>>
                    ELSE IF frame[Max(s)] \in {0, 1} THEN g[s \ {Max(s)}]
                         ELSE Append(g[s \ {Max(s)}], High(frame[Max(s)]))
  <2>1. CASE s = {}
    BY <2>1, <1>6 DEF FoldsAll
  <2>2. CASE s # {}
    <3> DEFINE bytes == g[s \ {Max(s)}]
               raw == frame[Max(s)]
    <3>1. Max(s) \in s
      BY <2>2, <1>1, MaxUpTo
    <3>2. raw \in X /\ bytes \in A
      BY <3>1, <1>1, <1>6
    <3>3. g[s] = step[bytes][raw]
      BY <2>2, <1>6 DEF FoldsAll
    <3> HIDE DEF bytes, raw, step, A, X, S
    <3>4. g[s] = IF raw \in {0, 1} THEN bytes ELSE Append(bytes, High(raw))
      BY <3>2, <3>3, <1>3, <1>5
    <3> QED
      BY <3>4, <2>2 DEF bytes, raw
  <2> QED
    BY <2>1, <2>2
<1>8. Collects(g, frame)
  <2>1. g = [s \in SUBSET (1 .. n) |-> g[s]]
    BY <1>6
  <2> QED
    BY <2>1, <1>1, <1>7 DEF Collects
<1> QED
  BY <1>8

\* f[k] holds the high bytes of the first k cells.
Gathers(f, frame) ==
  /\ f \in [0 .. Len(frame) -> Seq(Nat)] /\ f[0] = <<>>
  /\ \A k \in 1 .. Len(frame) :
       f[k] = IF frame[k] \in {0, 1} THEN f[k - 1] ELSE Append(f[k - 1], High(frame[k]))

\* They are collected cell by cell.
LEMMA HighBytesChain ==
  ASSUME NEW frame \in Seq(Nat)
  PROVE  \E f : Gathers(f, frame) /\ HighBytes(frame) = f[Len(frame)]
<1> DEFINE n == Len(frame)
           g == CHOOSE g : Collects(g, frame)
           f == [k \in 0 .. n |-> g[1 .. k]]
<1>1. n \in Nat /\ DOMAIN frame = 1 .. n /\ \A k \in 1 .. n : frame[k] \in Nat
  BY LenProperties, ElementOfSeq
<1>2. Collects(g, frame) /\ HighBytes(frame) = g[1 .. n]
  BY <1>1, CollectExists, HighBytesUnfolded
<1> HIDE DEF g
<1>3. f[0] = <<>>
  <2>1. {} \in SUBSET (1 .. n) /\ g[{}] = <<>>
    BY <1>1, <1>2 DEF Collects
  <2>2. f[0] = g[1 .. 0] /\ 1 .. 0 = {}
    BY <1>1
  <2> HIDE DEF f
  <2> QED
    BY <2>1, <2>2
<1>4. ASSUME NEW k \in 1 .. n
      PROVE  f[k] = IF frame[k] \in {0, 1} THEN f[k - 1] ELSE Append(f[k - 1], High(frame[k]))
  <2>1. 1 .. k # {} /\ 1 .. k \in SUBSET (1 .. n) /\ k \in Nat \ {0}
    <3>1. k \in Nat \ {0} /\ k <= n /\ k \in 1 .. k
      BY <1>1
    <3>2. \A i \in 1 .. k : i \in 1 .. n
      BY <3>1, <1>1
    <3> QED
      BY <3>1, <3>2
  <2>2. g[1 .. k] = IF frame[Max(1 .. k)] \in {0, 1} THEN g[(1 .. k) \ {Max(1 .. k)}]
                    ELSE Append(g[(1 .. k) \ {Max(1 .. k)}], High(frame[Max(1 .. k)]))
    BY <2>1, <1>1, <1>2 DEF Collects
  <2>3. Max(1 .. k) = k /\ (1 .. k) \ {k} = 1 .. (k - 1)
    BY <2>1, RangeLast
  <2>4. f[k] = g[1 .. k] /\ f[k - 1] = g[1 .. (k - 1)]
    BY <1>1, <2>1
  <2> HIDE DEF f
  <2> QED
    BY <2>2, <2>3, <2>4
<1>5. \A k \in 0 .. n : f[k] \in Seq(Nat)
  <2> DEFINE D == {k \in 0 .. n : f[k] \in Seq(Nat)}
  <2>1. 0 \in D
    <3>1. 0 \in 0 .. n /\ <<>> \in Seq(Nat)
      BY <1>1, EmptySeq
    <3> HIDE DEF f
    <3> QED
      BY <3>1, <1>3
  <2>2. ASSUME NEW k \in 1 .. n, k - 1 \in D PROVE k \in D
    <3>1. f[k - 1] \in Seq(Nat) /\ frame[k] \in Nat /\ High(frame[k]) \in Nat
      BY <2>2, <1>1 DEF High
    <3>2. Append(f[k - 1], High(frame[k])) \in Seq(Nat)
      BY <3>1, AppendProperties
    <3>3. k \in 0 .. n
      BY <1>1
    <3> HIDE DEF f
    <3> QED
      BY <3>1, <3>2, <3>3, <1>4
  <2>3. \A k \in 0 .. n : k \in D
    <3> HIDE DEF D
    <3> QED
      BY <2>1, <2>2, <1>1, Climb
  <2> QED
    BY <2>3
<1>6. f = [k \in 0 .. n |-> f[k]] /\ f[n] = g[1 .. n]
  BY <1>1
<1> HIDE DEF f
<1>7. Gathers(f, frame)
  BY <1>3, <1>4, <1>5, <1>6 DEF Gathers
<1> QED
  BY <1>2, <1>6, <1>7

\* How many of the first i cells have a high byte.
Tall(frame, i) == Cardinality({k \in 1 .. i : frame[k] \notin {0, 1}})

\* Counting cell by cell.
LEMMA TallCounts ==
  ASSUME NEW n \in Nat, NEW frame \in [1 .. n -> Nat]
  PROVE  /\ \A i \in 0 .. n : Tall(frame, i) \in 0 .. i
         /\ Tall(frame, 0) = 0
         /\ \A i \in 1 .. n : Tall(frame, i) = IF frame[i] \in {0, 1} THEN Tall(frame, i - 1)
                                               ELSE Tall(frame, i - 1) + 1
<1> DEFINE T(i) == {k \in 1 .. i : frame[k] \notin {0, 1}}
<1>1. ASSUME NEW i \in 0 .. n PROVE IsFiniteSet(T(i)) /\ Cardinality(T(i)) \in 0 .. i
  <2>1. IsFiniteSet(1 .. i) /\ Cardinality(1 .. i) = i
    BY FS_Interval
  <2>2. T(i) \in SUBSET (1 .. i)
    OBVIOUS
  <2> HIDE DEF T
  <2>3. IsFiniteSet(T(i)) /\ Cardinality(T(i)) <= Cardinality(1 .. i)
    BY <2>1, <2>2, FS_Subset
  <2>4. Cardinality(T(i)) \in Nat
    BY <2>3, FS_CardinalityType
  <2> QED
    BY <2>1, <2>3, <2>4
<1>2. Cardinality(T(0)) = 0
  <2>1. T(0) = {}
    OBVIOUS
  <2> QED
    BY <2>1, FS_EmptySet
<1>3. ASSUME NEW i \in 1 .. n
      PROVE  Cardinality(T(i)) = IF frame[i] \in {0, 1} THEN Cardinality(T(i - 1))
                                 ELSE Cardinality(T(i - 1)) + 1
  <2>1. i \in Nat /\ i >= 1 /\ i - 1 \in 0 .. n
    OBVIOUS
  <2>2. \A k \in 1 .. i : k \in 1 .. (i - 1) \/ k = i
    BY <2>1
  <2>3. \A k \in 1 .. (i - 1) : k \in 1 .. i
    BY <2>1
  <2>4. CASE frame[i] \in {0, 1}
    <3>1. T(i) = T(i - 1)
      BY <2>2, <2>3, <2>4
    <3> QED
      BY <3>1, <2>4
  <2>5. CASE frame[i] \notin {0, 1}
    <3>1. T(i) = T(i - 1) \cup {i}
      BY <2>1, <2>2, <2>3, <2>5
    <3>2. i \notin T(i - 1)
      BY <2>1
    <3> HIDE DEF T
    <3> QED
      BY <3>1, <3>2, <2>1, <2>5, <1>1, FS_AddElement
  <2> QED
    BY <2>4, <2>5
<1> HIDE DEF T
<1> QED
  BY <1>1, <1>2, <1>3 DEF Tall, T

\* The high byte of the i-th cell comes where the cells with one up to it say.
LEMMA HighBytesPlaced ==
  ASSUME NEW n \in Nat, NEW frame \in [1 .. n -> Nat]
  PROVE  /\ HighBytes(frame) \in Seq(Nat) /\ Len(HighBytes(frame)) = Tall(frame, n)
         /\ \A i \in 1 .. n : frame[i] \notin {0, 1} =>
              /\ Tall(frame, i) \in 1 .. Tall(frame, n)
              /\ HighBytes(frame)[Tall(frame, i)] = High(frame[i])
<1>1. frame \in Seq(Nat) /\ Len(frame) = n
  OBVIOUS
<1>2. PICK f : Gathers(f, frame) /\ HighBytes(frame) = f[n]
  BY <1>1, HighBytesChain
<1>3. /\ \A k \in 0 .. n : f[k] \in Seq(Nat)
      /\ f[0] = <<>>
      /\ \A k \in 1 .. n :
           f[k] = IF frame[k] \in {0, 1} THEN f[k - 1] ELSE Append(f[k - 1], High(frame[k]))
  BY <1>1, <1>2 DEF Gathers
<1>4. \A i \in 1 .. n : High(frame[i]) \in Nat
  BY DEF High
<1> DEFINE c(i) == Tall(frame, i)
           Placed(k) == /\ Len(f[k]) = c(k)
                        /\ \A i \in 1 .. k : frame[i] \notin {0, 1} =>
                             c(i) \in 1 .. c(k) /\ f[k][c(i)] = High(frame[i])
           D == {k \in 0 .. n : Placed(k)}
<1>5. /\ \A i \in 0 .. n : c(i) \in 0 .. i
      /\ c(0) = 0
      /\ \A i \in 1 .. n : c(i) = IF frame[i] \in {0, 1} THEN c(i - 1) ELSE c(i - 1) + 1
  BY TallCounts
<1> HIDE DEF c
<1>6. 0 \in D
  <2>1. Len(f[0]) = c(0)
    BY <1>3, <1>5, EmptySeq
  <2> QED
    BY <2>1
<1>7. ASSUME NEW k \in 1 .. n, k - 1 \in D PROVE k \in D
  <2> DEFINE s == f[k - 1]
             byte == High(frame[k])
  <2>1. k \in 0 .. n /\ k - 1 \in 0 .. n /\ c(k - 1) \in Nat /\ c(k) \in Nat
        /\ \A i \in 1 .. k : i \in 1 .. (k - 1) \/ i = k
    BY <1>5
  <2>2. s \in Seq(Nat) /\ byte \in Nat /\ Len(s) = c(k - 1)
        /\ \A i \in 1 .. (k - 1) : frame[i] \notin {0, 1} =>
             c(i) \in 1 .. c(k - 1) /\ s[c(i)] = High(frame[i])
    BY <1>3, <1>4, <1>7, <2>1
  <2>3. CASE frame[k] \in {0, 1}
    <3>1. f[k] = s /\ c(k) = c(k - 1)
      BY <2>3, <1>3, <1>5
    <3> HIDE DEF s
    <3>2. Placed(k)
      BY <3>1, <2>1, <2>2, <2>3
    <3> QED
      BY <3>2, <2>1
  <2>4. CASE frame[k] \notin {0, 1}
    <3>1. f[k] = Append(s, byte) /\ c(k) = c(k - 1) + 1
      BY <2>4, <1>3, <1>5
    <3> HIDE DEF s
    <3>2. /\ Len(f[k]) = c(k) /\ f[k][c(k)] = byte
          /\ \A j \in 1 .. c(k - 1) : f[k][j] = s[j]
      <4> HIDE DEF byte
      <4> QED
        BY <3>1, <2>1, <2>2, AppendProperties
    <3>3. ASSUME NEW i \in 1 .. k, frame[i] \notin {0, 1}
          PROVE  c(i) \in 1 .. c(k) /\ f[k][c(i)] = High(frame[i])
      <4>1. CASE i = k
        BY <4>1, <3>1, <3>2, <2>1
      <4>2. CASE i # k
        <5>1. c(i) \in 1 .. c(k - 1) /\ s[c(i)] = High(frame[i])
          BY <4>2, <2>1, <2>2, <3>3
        <5> QED
          BY <5>1, <3>1, <3>2, <2>1
      <4> QED
        BY <4>1, <4>2
    <3>4. Placed(k)
      BY <3>2, <3>3
    <3> QED
      BY <3>4, <2>1
  <2> QED
    BY <2>3, <2>4
<1>8. \A k \in 0 .. n : k \in D
  <2> HIDE DEF D
  <2> QED
    BY <1>6, <1>7, Climb
<1>9. Placed(n)
  BY <1>8
<1> QED
  BY <1>9, <1>2, <1>3 DEF c

\* The high bytes and the zeros after them are as many as the low bytes.
LEMMA TwoHalves ==
  ASSUME NEW n \in Nat, NEW h \in Nat PROVE (n + h) + (n - h) = 2 * n
OBVIOUS

\* transpose_frame loses nothing of a frame in which every cell but 0 and 1 has a lower
\* byte that tells so: detranspose_frame gives the frame back.
THEOREM TransposeInverse ==
  ASSUME NEW n \in Nat, NEW frame \in [1 .. n -> Raws],
         \A i \in 1 .. n : Low(frame[i]) \in {0, 1} => frame[i] \in {0, 1}
  PROVE  /\ transpose_frame(frame) \in Seq(Nat) /\ Len(transpose_frame(frame)) = 2 * n
         /\ detranspose_frame(transpose_frame(frame), n) = frame
<1> DEFINE low == [i \in 1 .. n |-> Low(frame[i])]
           high == HighBytes(frame)
           zeros == Zeros(n - Len(high))
           bytes == (low \o high) \o zeros
<1>1. /\ frame \in [1 .. n -> Nat] /\ DOMAIN frame = 1 .. n /\ Len(frame) = n
      /\ \A i \in 1 .. n : frame[i] \in Nat
  <2>1. Raws \subseteq Nat
    BY DEF Raws
  <2>2. \A i \in 1 .. n : frame[i] \in Nat
    BY <2>1
  <2>3. frame = [i \in 1 .. n |-> frame[i]]
    OBVIOUS
  <2>4. frame \in [1 .. n -> Nat]
    BY <2>2, <2>3
  <2> QED
    BY <2>2, <2>4
<1>2. low \in Seq(Nat) /\ Len(low) = n /\ \A i \in 1 .. n : low[i] = Low(frame[i])
  <2>1. \A i \in 1 .. n : Low(frame[i]) \in Nat
    <3>1. ASSUME NEW x \in Nat PROVE x % 256 \in Nat
      <4>1. x % 256 \in 0 .. 255
        OBVIOUS
      <4> QED
        BY <4>1
    <3> QED
      BY <3>1, <1>1 DEF Low
  <2> QED
    BY <2>1
<1>3. /\ high \in Seq(Nat) /\ Len(high) = Tall(frame, n) /\ Tall(frame, n) \in 0 .. n
      /\ \A i \in 1 .. n : frame[i] \notin {0, 1} =>
           Tall(frame, i) \in 1 .. Len(high) /\ high[Tall(frame, i)] = High(frame[i])
  <2>1. \A i \in 0 .. n : Tall(frame, i) \in 0 .. i
    BY <1>1, TallCounts
  <2>2. /\ HighBytes(frame) \in Seq(Nat) /\ Len(HighBytes(frame)) = Tall(frame, n)
        /\ \A i \in 1 .. n : frame[i] \notin {0, 1} =>
             /\ Tall(frame, i) \in 1 .. Tall(frame, n)
             /\ HighBytes(frame)[Tall(frame, i)] = High(frame[i])
    BY <1>1, HighBytesPlaced
  <2>3. n \in 0 .. n
    OBVIOUS
  <2> QED
    BY <2>1, <2>2, <2>3
<1>4. zeros \in Seq(Nat) /\ Len(zeros) = n - Len(high)
  <2>1. Len(high) \in 0 .. n
    BY <1>3
  <2>2. ASSUME NEW m \in Nat PROVE Zeros(m) \in Seq(Nat) /\ Len(Zeros(m)) = m
    BY DEF Zeros
  <2> HIDE DEF high
  <2>3. n - Len(high) \in Nat
    BY <2>1
  <2> QED
    BY <2>2, <2>3
<1>5. transpose_frame(frame) = bytes
  <2>1. [i \in DOMAIN frame |-> Low(frame[i])] = low
    BY <1>1
  <2> QED
    BY <2>1, <1>1 DEF transpose_frame, HighBytes
<1> HIDE DEF low, high, zeros
<1>6. /\ bytes \in Seq(Nat) /\ Len(bytes) = 2 * n
      /\ \A i \in 1 .. n : bytes[i] = Low(frame[i])
      /\ \A j \in 1 .. Len(high) : bytes[n + j] = high[j]
  <2> DEFINE both == low \o high
  <2>1. /\ both \in Seq(Nat) /\ Len(both) = n + Len(high) /\ Len(high) \in Nat
        /\ \A j \in 1 .. (n + Len(high)) : both[j] = IF j <= n THEN low[j] ELSE high[j - n]
    BY <1>2, <1>3, ConcatProperties, LenProperties
  <2> HIDE DEF both
  <2>2. /\ bytes \in Seq(Nat) /\ Len(bytes) = 2 * n
        /\ \A j \in 1 .. (n + Len(high)) : bytes[j] = both[j]
    <3>1. bytes = both \o zeros
      BY DEF both
    <3> HIDE DEF bytes
    <3>2. /\ both \o zeros \in Seq(Nat) /\ Len(both \o zeros) = Len(both) + Len(zeros)
          /\ \A j \in 1 .. Len(both) + Len(zeros) : (both \o zeros)[j] =
               IF j <= Len(both) THEN both[j] ELSE zeros[j - Len(both)]
      BY <2>1, <1>4, ConcatProperties
    <3>3. /\ Len(high) \in 0 .. n /\ Len(zeros) = n - Len(high)
          /\ Len(both) = n + Len(high)
      BY <2>1, <1>3, <1>4
    <3>4. Len(both) + Len(zeros) = 2 * n
      <4>1. Len(high) \in Nat
        BY <3>3
      <4> QED
        BY <3>3, <4>1, TwoHalves
    <3>5. \A j \in 1 .. (n + Len(high)) : j \in 1 .. Len(both) + Len(zeros) /\ j <= Len(both)
      BY <3>3
    <3> QED
      BY <3>1, <3>2, <3>4, <3>5
  <2> HIDE DEF bytes
  <2>3. \A i \in 1 .. n : i \in 1 .. (n + Len(high)) /\ i <= n
    BY <2>1
  <2>4. \A j \in 1 .. Len(high) : n + j \in 1 .. (n + Len(high)) /\ ~ (n + j <= n) /\ (n + j) - n = j
    BY <2>1
  <2>5. \A i \in 1 .. n : bytes[i] = Low(frame[i])
    BY <2>1, <2>2, <2>3, <1>2
  <2>6. \A j \in 1 .. Len(high) : bytes[n + j] = high[j]
    BY <2>1, <2>2, <2>4
  <2> QED
    BY <2>2, <2>5, <2>6
<1> HIDE DEF bytes
<1>7. ASSUME NEW i \in 1 .. n
      PROVE  Cardinality({k \in 1 .. i : bytes[k] \notin {0, 1}}) = Tall(frame, i)
  <2>1. \A k \in 1 .. i : k \in 1 .. n
    OBVIOUS
  <2>2. \A k \in 1 .. n : bytes[k] \in {0, 1} <=> frame[k] \in {0, 1}
    <3>1. Low(0) = 0 /\ Low(1) = 1
      BY DEF Low
    <3> QED
      BY <3>1, <1>6
  <2>3. {k \in 1 .. i : bytes[k] \notin {0, 1}} = {k \in 1 .. i : frame[k] \notin {0, 1}}
    BY <2>1, <2>2
  <2> QED
    BY <2>3 DEF Tall
<1>8. ASSUME NEW i \in 1 .. n
      PROVE  frame[i] = IF bytes[i] \in {0, 1} THEN bytes[i]
                        ELSE bytes[i] + 256 * bytes[n + Tall(frame, i)]
  <2>0. bytes[i] = Low(frame[i])
    BY <1>6
  <2>1. CASE frame[i] \in {0, 1}
    <3>1. Low(frame[i]) = frame[i]
      BY <2>1 DEF Low
    <3> QED
      BY <3>1, <2>0, <2>1
  <2>2. CASE frame[i] \notin {0, 1}
    <3>1. bytes[i] \notin {0, 1}
      BY <2>0, <2>2
    <3>2. bytes[n + Tall(frame, i)] = High(frame[i])
      BY <2>2, <1>3, <1>6
    <3>3. frame[i] = Low(frame[i]) + 256 * High(frame[i])
      <4>1. \A x \in Nat : x = (x % 256) + 256 * (x \div 256)
        OBVIOUS
      <4> QED
        BY <4>1, <1>1 DEF Low, High
    <3> QED
      BY <3>1, <3>2, <3>3, <2>0
  <2> QED
    BY <2>1, <2>2
<1>9. detranspose_frame(bytes, n) = [i \in 1 .. n |-> frame[i]]
  <2> DEFINE before(i) == Cardinality({k \in 1 .. i : bytes[k] \notin {0, 1}})
             cell(i) == IF bytes[i] \in {0, 1} THEN bytes[i]
                        ELSE bytes[i] + 256 * bytes[n + before(i)]
  <2>1. detranspose_frame(bytes, n) = [i \in 1 .. n |-> cell(i)]
    BY DEF detranspose_frame
  <2>2. ASSUME NEW i \in 1 .. n PROVE cell(i) = frame[i]
    <3>1. before(i) = Tall(frame, i)
      BY <1>7
    <3> HIDE DEF before
    <3> QED
      BY <3>1, <1>8
  <2> HIDE DEF cell
  <2> QED
    BY <2>1, <2>2
<1>10. [i \in 1 .. n |-> frame[i]] = frame
  OBVIOUS
<1> QED
  BY <1>5, <1>6, <1>9, <1>10

-------------------------------------------------------------------------------
(* The seek table: compressed sizes and the offsets they add up to.          *)

\* g adds up the compressed sizes of each set of entries: the function Extent is defined by.
Adds(g, entries) ==
  g = [s \in SUBSET DOMAIN entries |->
         IF s = {} THEN 0 ELSE g[s \ {Max(s)}] + entries[Max(s)].comp]

\* Extent is that function's value at all entries.
LEMMA ExtentUnfolded ==
  ASSUME NEW entries
  PROVE  Extent(entries) = (CHOOSE g : Adds(g, entries))[DOMAIN entries]
BY DEF Extent, FoldLeft, MapThenFoldSet, Adds

\* A seek table's entries up to n have sizes.
Sized(entries, n) ==
  n \in Nat /\ DOMAIN entries = 1 .. n /\ \A k \in 1 .. n : entries[k].comp \in Nat

\* pre[k] is the size of the first k entries together.
Offsets(pre, entries, n) ==
  /\ pre \in [0 .. n -> Nat] /\ pre[0] = 0
  /\ \A k \in 1 .. n : pre[k] = pre[k - 1] + entries[k].comp

\* There are such functions.
LEMMA AddsExist ==
  ASSUME NEW entries, NEW n, Sized(entries, n)
  PROVE  (\E g : Adds(g, entries)) /\ (\E pre : Offsets(pre, entries, n))
<1> DEFINE A == Nat
           X == Nat
           zero == 0
           S(sum) == [x \in X |-> sum + x]
           step == [sum \in A |-> S(sum)]
           sizes == [k \in 1 .. n |-> entries[k].comp]
<1>1. n \in Nat /\ DOMAIN entries = 1 .. n /\ \A k \in 1 .. n : entries[k].comp \in Nat
  BY DEF Sized
<1>2. /\ sizes \in Seq(X) /\ Len(sizes) = n
      /\ \A k \in 1 .. n : sizes[k] = entries[k].comp /\ sizes[k] \in X
  BY <1>1
<1>3. \A sum \in A : S(sum) \in [X -> A]
  OBVIOUS
<1>4. \A sum \in A : \A x \in X : S(sum)[x] = sum + x
  OBVIOUS
<1>5. step \in [A -> [X -> A]] /\ \A sum \in A : step[sum] = S(sum)
  <2> HIDE DEF A, X, S
  <2> QED
    BY <1>3
<1>6. \A sum \in A : \A x \in X : step[sum][x] = sum + x
  <2> HIDE DEF step, S
  <2> QED
    BY <1>4, <1>5
<1>7. PICK g \in [SUBSET (1 .. Len(sizes)) -> A] : FoldsAll(g, step, zero, sizes, Len(sizes))
  <2>1. zero \in A
    OBVIOUS
  <2> HIDE DEF A, X, step, zero, sizes
  <2> QED
    BY <1>2, <1>5, <2>1, FoldExists
<1>8. PICK f : Accumulates(f, A, step, zero, sizes)
  <2>1. zero \in A
    OBVIOUS
  <2> HIDE DEF A, X, step, zero, sizes
  <2> QED
    BY <1>2, <1>5, <2>1, FoldChain
<1> HIDE DEF sizes, step
<1>9. ASSUME NEW s \in SUBSET (1 .. n)
      PROVE  g[s] = IF s = {} THEN 0 ELSE g[s \ {Max(s)}] + entries[Max(s)].comp
  <2>1. CASE s = {}
    BY <2>1, <1>2, <1>7 DEF FoldsAll
  <2>2. CASE s # {}
    <3>1. Max(s) \in s
      BY <2>2, <1>1, MaxUpTo
    <3>2. sizes[Max(s)] \in X /\ g[s \ {Max(s)}] \in A /\ sizes[Max(s)] = entries[Max(s)].comp
      BY <3>1, <1>2, <1>7
    <3>3. g[s] = step[g[s \ {Max(s)}]][sizes[Max(s)]]
      BY <2>2, <1>2, <1>7 DEF FoldsAll
    <3> HIDE DEF A, X
    <3> QED
      BY <2>2, <3>2, <3>3, <1>6
  <2> QED
    BY <2>1, <2>2
<1>10. Adds(g, entries)
  <2>1. g = [s \in SUBSET (1 .. n) |-> g[s]]
    BY <1>2, <1>7
  <2> QED
    BY <2>1, <1>1, <1>9 DEF Adds
<1>11. Offsets(f, entries, n)
  <2>1. f \in [0 .. n -> A] /\ f[0] = 0 /\ \A k \in 1 .. n : f[k] = step[f[k - 1]][sizes[k]]
    BY <1>2, <1>8 DEF Accumulates
  <2>2. \A k \in 1 .. n : k - 1 \in 0 .. n
    BY <1>1
  <2>3. \A k \in 1 .. n : f[k - 1] \in A
    BY <2>1, <2>2
  <2>4. \A k \in 1 .. n : f[k] = f[k - 1] + entries[k].comp
    <3>1. \A k \in 1 .. n : sizes[k] \in X /\ sizes[k] = entries[k].comp
      BY <1>2
    <3> HIDE DEF A, X, step, sizes
    <3> QED
      BY <2>1, <2>3, <3>1, <1>6
  <2> QED
    BY <2>1, <2>4 DEF Offsets
<1> QED
  BY <1>10, <1>11

\* The extent of a seek table is the offset after its last entry.
LEMMA ExtentIs ==
  ASSUME NEW entries, NEW n, Sized(entries, n), NEW pre, Offsets(pre, entries, n)
  PROVE  Extent(entries) = pre[n]
<1> DEFINE g == CHOOSE g : Adds(g, entries)
           D == {k \in 0 .. n : g[1 .. k] = pre[k]}
<1>1. n \in Nat /\ DOMAIN entries = 1 .. n
  BY DEF Sized
<1>2. Adds(g, entries) /\ Extent(entries) = g[1 .. n]
  BY <1>1, AddsExist, ExtentUnfolded
<1> HIDE DEF g
<1>3. 0 \in D
  <2>1. {} \in SUBSET (1 .. n) /\ g[{}] = 0 /\ 1 .. 0 = {} /\ 0 \in 0 .. n
    BY <1>1, <1>2 DEF Adds
  <2> QED
    BY <2>1 DEF Offsets
<1>4. ASSUME NEW k \in 1 .. n, k - 1 \in D PROVE k \in D
  <2>1. 1 .. k # {} /\ 1 .. k \in SUBSET (1 .. n) /\ k \in Nat \ {0} /\ k \in 0 .. n
    <3>1. k \in Nat \ {0} /\ k <= n /\ k \in 1 .. k
      BY <1>1
    <3>2. \A i \in 1 .. k : i \in 1 .. n
      BY <3>1, <1>1
    <3> QED
      BY <3>1, <3>2
  <2>2. g[1 .. k] = g[(1 .. k) \ {Max(1 .. k)}] + entries[Max(1 .. k)].comp
    BY <2>1, <1>1, <1>2 DEF Adds
  <2>3. Max(1 .. k) = k /\ (1 .. k) \ {k} = 1 .. (k - 1)
    BY <2>1, RangeLast
  <2>4. g[1 .. k] = pre[k]
    BY <2>2, <2>3, <1>4 DEF Offsets
  <2> QED
    BY <2>1, <2>4
<1>5. \A k \in 0 .. n : k \in D
  <2> HIDE DEF D
  <2> QED
    BY <1>1, <1>3, <1>4, Climb
<1> QED
  BY <1>1, <1>2, <1>5

\* So is the extent of the first k entries the offset after the k-th.
LEMMA ExtentOfPrefix ==
  ASSUME NEW entries, NEW n, Sized(entries, n), NEW pre, Offsets(pre, entries, n),
         NEW k \in 0 .. n
  PROVE  Extent(SubSeq(entries, 1, k)) = pre[k]
<1> DEFINE some == SubSeq(entries, 1, k)
           upto == [i \in 0 .. k |-> pre[i]]
<1>1. /\ n \in Nat /\ DOMAIN entries = 1 .. n /\ k \in Nat /\ k <= n
      /\ \A i \in 1 .. n : entries[i].comp \in Nat
  BY DEF Sized
<1>2. DOMAIN some = 1 .. k /\ \A i \in 1 .. k : some[i] = entries[i]
  BY <1>1
<1> HIDE DEF some
<1>3. \A i \in 1 .. k : i \in 1 .. n /\ i \in 0 .. k /\ i - 1 \in 0 .. k
  BY <1>1
<1>4. \A i \in 0 .. k : i \in 0 .. n
  BY <1>1
<1>5. Sized(some, k)
  BY <1>1, <1>2, <1>3 DEF Sized
<1>6. /\ pre \in [0 .. n -> Nat] /\ pre[0] = 0
      /\ \A i \in 1 .. n : pre[i] = pre[i - 1] + entries[i].comp
  BY DEF Offsets
<1>7. Offsets(upto, some, k)
  <2>1. upto \in [0 .. k -> Nat] /\ upto[0] = 0
    BY <1>1, <1>4, <1>6
  <2>2. ASSUME NEW i \in 1 .. k PROVE upto[i] = upto[i - 1] + some[i].comp
    <3>1. upto[i] = pre[i] /\ upto[i - 1] = pre[i - 1]
      BY <1>3
    <3> HIDE DEF upto
    <3> QED
      BY <3>1, <1>2, <1>3, <1>6
  <2> HIDE DEF upto
  <2> QED
    BY <2>1, <2>2 DEF Offsets
<1>8. Extent(some) = upto[k] /\ upto[k] = pre[k]
  <2>1. upto[k] = pre[k]
    BY <1>1
  <2> HIDE DEF upto
  <2> QED
    BY <2>1, <1>5, <1>7, ExtentIs
<1> QED
  BY <1>8 DEF some

-------------------------------------------------------------------------------
(* Where an index is: frames and places.                                     *)

\* The quotient rounded up is the least whose multiple is enough.
LEMMA CeilingIs ==
  ASSUME NEW a \in Nat \ {0}, NEW b \in Nat \ {0}
  PROVE  /\ Ceiling(a, b) \in Nat \ {0}
         /\ (Ceiling(a, b) - 1) * b < a /\ a <= Ceiling(a, b) * b
<1> DEFINE m == a + b - 1
           q == m \div b
           r == m % b
<1>1. m \in Nat /\ Ceiling(a, b) = q
  BY DEF Ceiling
<1>2. q \in Nat /\ r \in 0 .. (b - 1) /\ m = q * b + r
  <2> HIDE DEF m
  <2> QED
    BY <1>1
<1> HIDE DEF q, r
<1>3. q * b <= a + b - 1 /\ q * b >= a
  BY <1>2
<1>4. (q - 1) * b = q * b - b
  BY <1>2
<1>5. q # 0
  <2>1. CASE q = 0
    BY <1>3, <2>1
  <2> QED
    BY <2>1
<1> QED
  BY <1>1, <1>2, <1>3, <1>4, <1>5

\* Multiples are ordered as the numbers are.
LEMMA MultiplesOrdered ==
  ASSUME NEW p \in Int, NEW q \in Int, NEW d \in Nat \ {0}
  PROVE  (p <= q <=> p * d <= q * d) /\ (p < q <=> p * d < q * d)
<1>1. p <= q => p * d <= q * d
  OBVIOUS
<1>2. p < q => p * d < q * d
  OBVIOUS
<1>3. q < p => q * d < p * d
  OBVIOUS
<1>4. q <= p => q * d <= p * d
  OBVIOUS
<1>5. p * d \in Int /\ q * d \in Int
  OBVIOUS
<1> QED
  BY <1>1, <1>2, <1>3, <1>4, <1>5

\* The frames cover the index range, and all but the last are full.
LEMMA FramesCover ==
  /\ Length \in Nat \ {0} /\ FrameSize \in Nat \ {0}
  /\ Frames \in Nat \ {0} /\ (Frames - 1) * FrameSize < Length /\ Length <= Frames * FrameSize
  /\ \A f \in 1 .. Frames :
       /\ (f - 1) * FrameSize \in Nat /\ (f - 1) * FrameSize < Length
       /\ FrameLength(f) \in 1 .. FrameSize
       /\ (f - 1) * FrameSize + FrameLength(f) <= Length
<1>1. Length \in Nat \ {0} /\ FrameSize \in Nat \ {0}
  BY FileAssumption
<1>2. Frames \in Nat \ {0} /\ (Frames - 1) * FrameSize < Length /\ Length <= Frames * FrameSize
  BY <1>1, CeilingIs DEF Frames
<1>3. ASSUME NEW f \in 1 .. Frames
      PROVE  /\ (f - 1) * FrameSize \in Nat /\ (f - 1) * FrameSize < Length
             /\ FrameLength(f) \in 1 .. FrameSize
             /\ (f - 1) * FrameSize + FrameLength(f) <= Length
  <2> DEFINE m == (f - 1) * FrameSize
  <2>1. m \in Nat
    BY <1>1, <1>2
  <2>2. m < Length
    <3>1. f - 1 \in Int /\ Frames - 1 \in Int /\ f - 1 <= Frames - 1
      BY <1>2
    <3>2. m <= (Frames - 1) * FrameSize /\ (Frames - 1) * FrameSize \in Int
      BY <3>1, <1>1, MultiplesOrdered
    <3> HIDE DEF m
    <3> QED
      BY <3>2, <2>1, <1>1, <1>2
  <2>3. FrameLength(f) = Least(FrameSize, Length - m)
    BY DEF FrameLength
  <2> HIDE DEF m
  <2>4. FrameLength(f) \in 1 .. FrameSize /\ m + FrameLength(f) <= Length
    BY <1>1, <2>1, <2>2, <2>3 DEF Least
  <2> QED
    BY <2>1, <2>2, <2>4 DEF m
<1> QED
  BY <1>1, <1>2, <1>3

\* locate_frame finds the frame and the place in it of an index.
LEMMA IndexLocated ==
  ASSUME NEW i \in 1 .. Length
  PROVE  LET f == (i - 1) \div FrameSize + 1
             k == ((i - 1) % FrameSize) + 1
         IN f \in 1 .. Frames /\ k \in 1 .. FrameLength(f) /\ (f - 1) * FrameSize + k = i
<1> DEFINE q == (i - 1) \div FrameSize
           r == (i - 1) % FrameSize
<1>1. /\ Length \in Nat \ {0} /\ FrameSize \in Nat \ {0} /\ Frames \in Nat \ {0}
      /\ Length <= Frames * FrameSize
  BY FramesCover
<1>2. q \in Nat /\ r \in 0 .. (FrameSize - 1) /\ i - 1 = q * FrameSize + r
  <2>1. i - 1 \in Nat
    BY <1>1
  <2> QED
    BY <2>1, <1>1
<1> HIDE DEF q, r
<1>3. q * FrameSize < Frames * FrameSize
  <2>1. q * FrameSize \in Int /\ Frames * FrameSize \in Int
    BY <1>1, <1>2
  <2> QED
    BY <2>1, <1>1, <1>2
<1>4. q < Frames
  BY <1>1, <1>2, <1>3, MultiplesOrdered
<1>5. q + 1 \in 1 .. Frames /\ (q + 1) - 1 = q
  BY <1>1, <1>2, <1>4
<1>6. FrameLength(q + 1) = Least(FrameSize, Length - q * FrameSize)
  BY <1>5 DEF FrameLength
<1>7. r + 1 \in 1 .. FrameLength(q + 1) /\ q * FrameSize + (r + 1) = i
  <2>1. q * FrameSize \in Nat
    BY <1>1, <1>2
  <2> QED
    BY <2>1, <1>1, <1>2, <1>6 DEF Least
<1> QED
  BY <1>5, <1>7 DEF q, r

-------------------------------------------------------------------------------
(* Batches: multiples of a frame, which cover the table.                     *)

\* The frames of a whole batch, of which the last may have fewer.
PerBatch(t) == Ceiling(Frames, t)

\* The frames of the first b batches.
FramesUpTo(t, b) == Least(b * PerBatch(t), Frames)

\* The n batches cover the frames: each begins where the one before it ends, and has some.
Covered(t, n) ==
  /\ n \in Nat \ {0} /\ Batches(t) = 1 .. n
  /\ FramesUpTo(t, 0) = 0 /\ FramesUpTo(t, n) = Frames
  /\ \A b \in 1 .. n : /\ (b - 1) * PerBatch(t) \in Nat
                       /\ (b - 1) * PerBatch(t) < Frames
                       /\ FramesUpTo(t, b - 1) = (b - 1) * PerBatch(t)
                       /\ FramesUpTo(t, b) \in Nat
                       /\ FramesUpTo(t, b - 1) < FramesUpTo(t, b)

\* Each batch but the last has as many frames, and they cover the table.
LEMMA BatchesCover ==
  ASSUME NEW t \in Nat \ {0}
  PROVE  /\ PerBatch(t) \in Nat \ {0}
         /\ BatchSize(t) = PerBatch(t) * FrameSize /\ BatchSize(t) \in Nat \ {0}
         /\ \E n : Covered(t, n)
<1> DEFINE C == PerBatch(t)
           n == Ceiling(Length, BatchSize(t))
<1>1. /\ Length \in Nat \ {0} /\ FrameSize \in Nat \ {0} /\ Frames \in Nat \ {0}
      /\ (Frames - 1) * FrameSize < Length /\ Length <= Frames * FrameSize
  BY FramesCover
<1>2. C \in Nat \ {0} /\ BatchSize(t) = C * FrameSize
  BY <1>1, CeilingIs DEF PerBatch, BatchSize
<1> HIDE DEF C
<1>3. BatchSize(t) \in Nat \ {0}
  BY <1>1, <1>2
<1>4. /\ n \in Nat \ {0} /\ (n - 1) * BatchSize(t) < Length /\ Length <= n * BatchSize(t)
      /\ Batches(t) = 1 .. n
  BY <1>1, <1>3, CeilingIs DEF Batches
<1> HIDE DEF n
<1>5. ASSUME NEW b \in 1 .. n PROVE (b - 1) * C \in Nat /\ (b - 1) * C < Frames
  <2>1. b - 1 \in Nat /\ n - 1 \in Nat /\ b - 1 <= n - 1
    BY <1>4
  <2>2. (b - 1) * BatchSize(t) <= (n - 1) * BatchSize(t)
    BY <2>1, <1>3, MultiplesOrdered
  <2>3. (b - 1) * BatchSize(t) = ((b - 1) * C) * FrameSize
    BY <2>1, <1>1, <1>2
  <2>4. (b - 1) * C \in Nat
    BY <2>1, <1>2
  <2>5. ((b - 1) * C) * FrameSize < Frames * FrameSize
    <3>1. /\ (b - 1) * BatchSize(t) \in Int /\ (n - 1) * BatchSize(t) \in Int
          /\ Frames * FrameSize \in Int
      BY <2>1, <1>1, <1>3
    <3> QED
      BY <3>1, <2>2, <2>3, <1>1, <1>4
  <2>6. (b - 1) * C < Frames
    BY <2>4, <2>5, <1>1, MultiplesOrdered
  <2> QED
    BY <2>4, <2>6
<1>6. n * C >= Frames /\ n * C \in Nat
  <2>1. n * C \in Nat /\ n * BatchSize(t) = (n * C) * FrameSize
    BY <1>1, <1>2, <1>4
  <2>2. (Frames - 1) * FrameSize < (n * C) * FrameSize
    <3>1. (Frames - 1) * FrameSize \in Int /\ (n * C) * FrameSize \in Int
      BY <2>1, <1>1
    <3> QED
      BY <3>1, <2>1, <1>1, <1>4
  <2>3. Frames - 1 < n * C
    BY <2>1, <2>2, <1>1, MultiplesOrdered
  <2> QED
    BY <2>1, <2>3, <1>1
<1>7. FramesUpTo(t, 0) = 0 /\ FramesUpTo(t, n) = Frames
  <2>1. 0 * C = 0 /\ (Least(n * C, Frames) = Frames)
    BY <1>1, <1>2, <1>6 DEF Least
  <2>2. Least(0, Frames) = 0
    BY <1>1 DEF Least
  <2> QED
    BY <2>1, <2>2 DEF FramesUpTo, C
<1>8. ASSUME NEW b \in 1 .. n
      PROVE  /\ FramesUpTo(t, b - 1) = (b - 1) * C
             /\ FramesUpTo(t, b) \in Nat
             /\ FramesUpTo(t, b - 1) < FramesUpTo(t, b)
  <2> DEFINE m == (b - 1) * C
  <2>1. m \in Nat /\ m < Frames /\ b * C = m + C
    BY <1>2, <1>4, <1>5
  <2> HIDE DEF m
  <2>2. Least(m, Frames) = m
    BY <2>1, <1>1 DEF Least
  <2>3. Least(m + C, Frames) \in Nat /\ m < Least(m + C, Frames)
    BY <2>1, <1>1, <1>2 DEF Least
  <2>4. FramesUpTo(t, b - 1) = Least(m, Frames) /\ FramesUpTo(t, b) = Least(m + C, Frames)
    BY <2>1 DEF FramesUpTo, C, m
  <2> QED
    BY <2>2, <2>3, <2>4 DEF m
<1> QED
  BY <1>2, <1>3, <1>4, <1>5, <1>7, <1>8 DEF C, Covered

\* The frames a batch makes, and how many: those after the frames of the batches before.
LEMMA BatchFrames ==
  ASSUME NEW t \in Nat \ {0}, NEW b \in Batches(t)
  PROVE  LET from == (b - 1) * BatchSize(t) + 1
             to == Least(b * BatchSize(t), Length)
             frames == {f \in 1 .. Frames : (f - 1) * FrameSize + 1 \in from .. to}
             first == CHOOSE f \in frames : \A g \in frames : f <= g
         IN /\ first = FramesUpTo(t, b - 1) + 1
            /\ Cardinality(frames) = FramesUpTo(t, b) - FramesUpTo(t, b - 1)
<1> DEFINE from == (b - 1) * BatchSize(t) + 1
           to == Least(b * BatchSize(t), Length)
           frames == {f \in 1 .. Frames : (f - 1) * FrameSize + 1 \in from .. to}
           C == PerBatch(t)
           m == (b - 1) * C
           M == FramesUpTo(t, b)
<1>1. /\ Length \in Nat \ {0} /\ FrameSize \in Nat \ {0} /\ Frames \in Nat \ {0}
      /\ \A f \in 1 .. Frames : (f - 1) * FrameSize \in Nat /\ (f - 1) * FrameSize < Length
  BY FramesCover
<1>2. /\ C \in Nat \ {0} /\ BatchSize(t) = C * FrameSize
      /\ b \in Nat \ {0} /\ m \in Nat /\ m < Frames /\ FramesUpTo(t, b - 1) = m
      /\ M \in Nat /\ m < M
  <2>1. PICK n : Covered(t, n)
    BY BatchesCover
  <2>2. C \in Nat \ {0} /\ BatchSize(t) = C * FrameSize
    BY BatchesCover
  <2>3. n \in Nat \ {0} /\ Batches(t) = 1 .. n
    BY <2>1 DEF Covered
  <2>4. b \in 1 .. n
    BY <2>3
  <2>5. /\ m \in Nat /\ m < Frames /\ FramesUpTo(t, b - 1) = m
        /\ M \in Nat /\ FramesUpTo(t, b - 1) < M
    BY <2>1, <2>4 DEF Covered
  <2> HIDE DEF m, M, C
  <2> QED
    BY <2>2, <2>3, <2>4, <2>5
<1>3. b * C = m + C /\ M = Least(m + C, Frames) /\ M <= Frames
  <2>1. b * C = m + C
    BY <1>2
  <2>2. M = Least(m + C, Frames)
    BY <2>1 DEF FramesUpTo
  <2> HIDE DEF m, C, M
  <2>3. M <= Frames
    BY <2>2, <1>1, <1>2 DEF Least
  <2> QED
    BY <2>1, <2>2, <2>3
<1>4. (b - 1) * BatchSize(t) = m * FrameSize /\ b * BatchSize(t) = (m + C) * FrameSize
  <2> HIDE DEF C
  <2> QED
    BY <1>1, <1>2, <1>3
<1>5. ASSUME NEW f \in 1 .. Frames PROVE f \in frames <=> f \in (m + 1) .. M
  <2> DEFINE x == (f - 1) * FrameSize
             lo == m * FrameSize
             hi == (m + C) * FrameSize
  <2>0. f - 1 \in Int /\ m \in Int /\ m + C \in Int /\ lo \in Nat /\ hi \in Nat /\ x \in Nat /\ x < Length
    <3> HIDE DEF m, C
    <3> QED
      BY <1>1, <1>2
  <2>1. m <= f - 1 <=> lo <= x
    <3> HIDE DEF m, C
    <3> QED
      BY <2>0, <1>1, MultiplesOrdered
  <2>2. f - 1 < m + C <=> x < hi
    <3> HIDE DEF m, C
    <3> QED
      BY <2>0, <1>1, MultiplesOrdered
  <2>3. from = lo + 1 /\ to = Least(hi, Length)
    BY <1>4
  <2>4. f \in frames <=> x + 1 \in from .. to
    OBVIOUS
  <2> HIDE DEF frames, from, to, lo, hi, x, m, M, C
  <2>5. x + 1 \in from .. to <=> lo <= x /\ x < hi
    BY <2>0, <2>3, <1>1 DEF Least
  <2>6. f \in (m + 1) .. M <=> m <= f - 1 /\ f - 1 < m + C
    BY <1>1, <1>2, <1>3 DEF Least
  <2> QED
    BY <2>1, <2>2, <2>4, <2>5, <2>6
<1>6. frames = (m + 1) .. M
  <2>1. frames \subseteq 1 .. Frames
    OBVIOUS
  <2> HIDE DEF frames, m, M, C
  <2>2. (m + 1) .. M \subseteq 1 .. Frames
    BY <1>1, <1>2, <1>3
  <2> QED
    BY <2>1, <2>2, <1>5
<1> HIDE DEF frames, m, M, C
<1>7. Cardinality(frames) = M - m
  <2>1. m + 1 \in Int /\ M \in Int /\ m + 1 <= M
    BY <1>2
  <2>2. Cardinality((m + 1) .. M) = M - (m + 1) + 1
    BY <2>1, FS_Interval
  <2> QED
    BY <2>1, <2>2, <1>2, <1>6
<1>8. (CHOOSE f \in frames : \A g \in frames : f <= g) = m + 1
  <2>1. m + 1 \in frames /\ \A g \in frames : m + 1 <= g
    BY <1>2, <1>6
  <2>2. \A f \in frames : (\A g \in frames : f <= g) => f = m + 1
    BY <1>2, <1>6
  <2> QED
    BY <2>1, <2>2
<1> QED
  BY <1>2, <1>7, <1>8 DEF frames, m, M, C

-------------------------------------------------------------------------------
(* Segments: what the batches make, and all of them together.                *)

\* The cells of a frame, the bytes they are stored in and the frame in its segment.
Plain(f) == [k \in 1 .. FrameLength(f) |-> Finalized((f - 1) * FrameSize + k)]
Bytes(f) == transpose_frame(Plain(f))
Frame(f) == [data |-> Compressed(Bytes(f)), decomp |-> Len(Bytes(f))]

\* What a compressed frame is made of.
Unit == [unit : 1 .. 2, of : Seq(Nat)]

\* A compressed frame has a unit that names its bytes, and perhaps another.
LEMMA CompressedIs ==
  ASSUME NEW bytes \in Seq(Nat)
  PROVE  /\ Compressed(bytes) \in Seq(Unit) /\ Len(Compressed(bytes)) \in {1, 2}
         /\ Compressed(bytes)[1].of = bytes
<1> DEFINE n == IF Cardinality(ToSet(bytes)) > 2 THEN 2 ELSE 1
           e(u) == [unit |-> u, of |-> bytes]
<1>1. n \in {1, 2} /\ Compressed(bytes) = [u \in 1 .. n |-> e(u)]
  BY DEF Compressed
<1>2. \A u \in 1 .. n : e(u) \in Unit /\ e(u).of = bytes
  <2> HIDE DEF n
  <2>1. \A u \in 1 .. n : u \in 1 .. 2
    BY <1>1
  <2> QED
    BY <2>1 DEF Unit
<1> HIDE DEF n, e
<1> QED
  BY <1>1, <1>2

\* A frame is stored in twice as many bytes as it has cells, which give back its cells.
LEMMA FrameIs ==
  ASSUME solved \in [1 .. Length -> Outcomes], NEW f \in 1 .. Frames
  PROVE  /\ Bytes(f) \in Seq(Nat) /\ Len(Bytes(f)) = 2 * FrameLength(f)
         /\ FrameLength(f) \in Nat \ {0}
         /\ detranspose_frame(Bytes(f), FrameLength(f)) = Plain(f)
         /\ \A k \in 1 .. FrameLength(f) :
              Decode(Plain(f)[k]) = Settled(solved[(f - 1) * FrameSize + k])
<1> DEFINE n == FrameLength(f)
           at(k) == (f - 1) * FrameSize + k
<1>1. /\ n \in Nat \ {0} /\ \A k \in 1 .. n : at(k) \in 1 .. Length
  <2>1. /\ (f - 1) * FrameSize \in Nat /\ FrameLength(f) \in 1 .. FrameSize
        /\ (f - 1) * FrameSize + FrameLength(f) <= Length
        /\ Length \in Nat /\ FrameSize \in Nat
    BY FramesCover
  <2> QED
    BY <2>1
<1>2. \A k \in 1 .. n : solved[at(k)] \in Outcomes
  BY <1>1
<1>3. \A i : Finalized(i) = Stored(solved[i])
  BY DEF Finalized, working, Stored
<1> HIDE DEF at, n
<1>4. \A k \in 1 .. n : /\ Plain(f)[k] = Stored(solved[at(k)])
                        /\ Plain(f)[k] \in Raws
                        /\ Low(Plain(f)[k]) \in {0, 1} => Plain(f)[k] \in {0, 1}
                        /\ Decode(Plain(f)[k]) = Settled(solved[at(k)])
  <2>1. \A k \in 1 .. n : Plain(f)[k] = Stored(solved[at(k)])
    BY <1>3 DEF Plain, n, at
  <2> QED
    BY <2>1, <1>2, StoredCell
<1>5. Plain(f) \in [1 .. n -> Raws]
  <2>1. Plain(f) = [k \in 1 .. n |-> Plain(f)[k]]
    BY DEF Plain, n
  <2> QED
    BY <2>1, <1>4
<1>6. /\ Bytes(f) \in Seq(Nat) /\ Len(Bytes(f)) = 2 * n
      /\ detranspose_frame(Bytes(f), n) = Plain(f)
  BY <1>1, <1>4, <1>5, TransposeInverse DEF Bytes
<1> QED
  BY <1>1, <1>4, <1>6 DEF n, at

\* A batch's segment is its frames, in order, whichever thread finished it and when.
LEMMA SegmentIs ==
  ASSUME threads \in Nat \ {0}, NEW b \in Batches(threads)
  PROVE  LET before == FramesUpTo(threads, b - 1)
         IN finalize_batch(b).segment =
              [k \in 1 .. (FramesUpTo(threads, b) - before) |-> Frame(before + k)]
<1> DEFINE from == (b - 1) * BatchSize(threads) + 1
           to == Least(b * BatchSize(threads), Length)
           frames == {f \in 1 .. Frames : (f - 1) * FrameSize + 1 \in from .. to}
           first == CHOOSE f \in frames : \A g \in frames : f <= g
           before == FramesUpTo(threads, b - 1)
           n == FramesUpTo(threads, b) - before
<1>1. first = before + 1 /\ Cardinality(frames) = n
  BY BatchFrames
<1>2. finalize_batch(b).segment = [k \in 1 .. Cardinality(frames) |-> Frame(first + k - 1)]
  BY DEF finalize_batch, Frame, Bytes, Plain
<1>3. n \in Nat /\ before \in Nat
  <2>1. PICK m : Covered(threads, m)
    BY BatchesCover
  <2>2. /\ (b - 1) * PerBatch(threads) \in Nat
        /\ FramesUpTo(threads, b - 1) = (b - 1) * PerBatch(threads)
        /\ FramesUpTo(threads, b) \in Nat
        /\ FramesUpTo(threads, b - 1) < FramesUpTo(threads, b)
    BY <2>1 DEF Covered
  <2> QED
    BY <2>2
<1> HIDE DEF first, frames, before, n
<1>4. \A k \in 1 .. n : first + k - 1 = before + k
  BY <1>1, <1>3
<1>5. finalize_batch(b).segment = [k \in 1 .. n |-> Frame(before + k)]
  BY <1>1, <1>2, <1>4
<1> QED
  BY <1>5 DEF before, n

\* The segments of all batches, in the order of the batches.
AllSegments == [b \in Batches(threads) |-> finalize_batch(b).segment]
AllFrames == [f \in 1 .. Frames |-> Frame(f)]

\* The n sequences are slices of E, of which the b-th ends at pre[b].
Slices(some, n, pre, E) ==
  /\ n \in Nat /\ pre \in [0 .. n -> Nat] /\ pre[0] = 0
  /\ DOMAIN some = 1 .. n /\ some = [b \in 1 .. n |-> some[b]]
  /\ \A b \in 1 .. n :
       /\ pre[b - 1] < pre[b]
       /\ some[b] = [k \in 1 .. (pre[b] - pre[b - 1]) |-> E[pre[b - 1] + k]]

\* all is the first n values of E.
FirstOf(all, n, E) == all = [f \in 1 .. n |-> E[f]]

\* Slices of a function, each where the one before it ends, flatten to the function.
LEMMA SlicesFlatten ==
  ASSUME NEW some, NEW n, NEW pre, NEW E, Slices(some, n, pre, E)
  PROVE  FirstOf(FlattenSeq(some), pre[n], E)
<1> DEFINE S == {E[f] : f \in Nat}
           flat == FlattenSeq(some)
<1>0. n \in Nat /\ pre \in [0 .. n -> Nat] /\ pre[0] = 0 /\ pre[n] \in Nat
  <2>1. n \in Nat /\ pre \in [0 .. n -> Nat] /\ pre[0] = 0
    BY DEF Slices
  <2> QED
    BY <2>1
<1>1. ASSUME NEW b \in 1 .. n
      PROVE  /\ pre[b] \in Nat /\ pre[b - 1] \in Nat /\ pre[b - 1] < pre[b]
             /\ pre[b] - pre[b - 1] \in Nat
             /\ some[b] = [k \in 1 .. (pre[b] - pre[b - 1]) |-> E[pre[b - 1] + k]]
  <2>1. b \in 0 .. n /\ b - 1 \in 0 .. n
    BY <1>0
  <2>2. /\ pre[b - 1] < pre[b]
        /\ some[b] = [k \in 1 .. (pre[b] - pre[b - 1]) |-> E[pre[b - 1] + k]]
    BY DEF Slices
  <2>3. pre[b] \in Nat /\ pre[b - 1] \in Nat
    BY <2>1, <1>0
  <2>4. pre[b] - pre[b - 1] \in Nat
    BY <2>2, <2>3
  <2> QED
    BY <2>2, <2>3, <2>4
<1>2. ASSUME NEW b \in 1 .. n
      PROVE  some[b] \in Seq(S) /\ Len(some[b]) = pre[b] - pre[b - 1]
  <2> DEFINE x == pre[b - 1]
             d == pre[b] - pre[b - 1]
  <2>1. d \in Nat /\ x \in Nat /\ some[b] = [k \in 1 .. d |-> E[x + k]]
    BY <1>1
  <2> HIDE DEF x, d
  <2>2. \A k \in 1 .. d : E[x + k] \in S
    <3>1. \A k \in 1 .. d : x + k \in Nat
      BY <2>1
    <3> QED
      BY <3>1
  <2> DEFINE q == some[b]
             e == [k \in 1 .. d |-> E[x + k]]
  <2>3. q = e
    BY <2>1
  <2> HIDE DEF S, q
  <2>4. e \in [1 .. d -> S]
    BY <2>2
  <2> HIDE DEF e
  <2>5. q \in Seq(S) /\ Len(q) = d
    BY <2>1, <2>3, <2>4
  <2> QED
    BY <2>5 DEF q, d
<1> HIDE DEF S
<1>3. some \in Seq(Seq(S)) /\ Len(some) = n
  <2>1. DOMAIN some = 1 .. n /\ some = [b \in 1 .. n |-> some[b]]
    BY DEF Slices
  <2>2. some \in [1 .. n -> Seq(S)]
    BY <2>1, <1>2
  <2> QED
    BY <2>2, <1>0
<1>4. \A b \in 1 .. Len(some) : pre[b] = pre[b - 1] + Len(some[b])
  <2>1. ASSUME NEW b \in 1 .. n PROVE pre[b] = pre[b - 1] + Len(some[b])
    <3>1. pre[b] \in Nat /\ pre[b - 1] \in Nat /\ Len(some[b]) = pre[b] - pre[b - 1]
      BY <1>1, <1>2
    <3> QED
      BY <3>1
  <2> QED
    BY <2>1, <1>3
<1>5. /\ flat \in Seq(S) /\ Len(flat) = pre[n]
      /\ \A b \in 1 .. n : \A j \in 1 .. Len(some[b]) : flat[pre[b - 1] + j] = some[b][j]
  <2>1. pre \in [0 .. Len(some) -> Nat] /\ pre[0] = 0
    BY <1>0, <1>3
  <2>2. /\ FlattenSeq(some) \in Seq(S) /\ Len(FlattenSeq(some)) = pre[Len(some)]
        /\ \A b \in 1 .. Len(some) : \A j \in 1 .. Len(some[b]) :
             FlattenSeq(some)[pre[b - 1] + j] = some[b][j]
    <3>1. StartsOf(pre, some) /\ some \in Seq(Seq(S))
      BY <2>1, <1>3, <1>4 DEF StartsOf
    <3>2. InPieces(Joined(some), some, pre, S)
      BY <3>1, Flattened
    <3>3. InPieces(FlattenSeq(some), some, pre, S)
      BY <3>2, FlattenJoins
    <3> QED
      BY <3>3 DEF InPieces
  <2> QED
    BY <2>2, <1>3
<1> HIDE DEF flat
<1>6. ASSUME NEW f \in 1 .. pre[n] PROVE flat[f] = E[f]
  <2> DEFINE D == {b \in 0 .. n : f <= pre[b]}
  <2>1. PICK b \in D : \A c \in D : b <= c
    <3>1. D \subseteq Nat /\ n \in D
      <4>1. pre[n] \in Nat /\ n \in 0 .. n
        BY <1>0
      <4> QED
        BY <4>1
    <3> HIDE DEF D
    <3> QED
      BY <3>1, LeastNatural
  <2>2. f \in Nat /\ f >= 1
    BY <1>0
  <2>3. b \in 1 .. n /\ f <= pre[b]
    <3>1. b # 0
      BY <2>1, <2>2, <1>0
    <3> QED
      BY <3>1, <2>1, <1>0
  <2>4. pre[b - 1] < f
    <3>1. b - 1 \in 0 .. n /\ b - 1 < b
      BY <2>3, <1>0
    <3>2. ~ (f <= pre[b - 1])
      BY <3>1, <2>1
    <3>3. pre[b - 1] \in Nat
      BY <3>1, <1>0
    <3> QED
      BY <3>2, <3>3, <2>2
  <2> DEFINE x == pre[b - 1]
             y == pre[b]
             j == f - x
  <2>5. x \in Nat /\ y \in Nat /\ x < f /\ f <= y
    BY <2>3, <2>4, <1>1
  <2>6. /\ some[b] = [k \in 1 .. (y - x) |-> E[x + k]] /\ Len(some[b]) = y - x
        /\ \A k \in 1 .. Len(some[b]) : flat[x + k] = some[b][k]
    BY <2>3, <1>1, <1>2, <1>5
  <2> HIDE DEF x, y
  <2>7. j \in 1 .. (y - x) /\ x + j = f
    BY <2>2, <2>5
  <2> HIDE DEF j
  <2> QED
    BY <2>6, <2>7
<1>7. flat = [f \in 1 .. pre[n] |-> E[f]]
  <2>1. flat = [f \in 1 .. Len(flat) |-> flat[f]]
    BY <1>5
  <2> QED
    BY <2>1, <1>5, <1>6
<1> QED
  BY <1>7 DEF flat, FirstOf

\* The first n of them hold the frames of the first n batches; all hold all frames.
LEMMA SegmentsFlatten ==
  ASSUME threads \in Nat \ {0}, NEW m, Covered(threads, m), NEW n \in 0 .. m,
         NEW some, some = [b \in 1 .. n |-> finalize_batch(b).segment]
  PROVE  FlattenSeq(some) = [f \in 1 .. FramesUpTo(threads, n) |-> Frame(f)]
<1> DEFINE upTo(b) == FramesUpTo(threads, b)
           pre == [b \in 0 .. n |-> upTo(b)]
           E == [f \in Nat |-> Frame(f)]
<1>1. /\ m \in Nat \ {0} /\ Batches(threads) = 1 .. m /\ upTo(0) = 0
      /\ \A b \in 1 .. m : upTo(b) \in Nat /\ upTo(b - 1) < upTo(b)
  BY DEF Covered
<1>2. n \in Nat /\ n <= m
  BY <1>1
<1>3. ASSUME NEW b \in 0 .. n PROVE upTo(b) \in Nat
  <2>1. CASE b = 0
    BY <2>1, <1>1
  <2>2. CASE b # 0
    <3>1. b \in 1 .. m
      BY <2>2, <1>1, <1>2
    <3> HIDE DEF upTo
    <3> QED
      BY <3>1, <1>1
  <2> QED
    BY <2>1, <2>2
<1>4. ASSUME NEW b \in 1 .. n
      PROVE  /\ b \in 1 .. m /\ b \in 0 .. n /\ b - 1 \in 0 .. n
             /\ some[b] = [k \in 1 .. (upTo(b) - upTo(b - 1)) |-> Frame(upTo(b - 1) + k)]
  <2>1. b \in 1 .. m /\ b \in 0 .. n /\ b - 1 \in 0 .. n
    BY <1>1, <1>2
  <2>2. b \in Batches(threads) /\ some[b] = finalize_batch(b).segment
    BY <2>1, <1>1
  <2>3. some[b] = [k \in 1 .. (upTo(b) - upTo(b - 1)) |-> Frame(upTo(b - 1) + k)]
    BY <2>2, SegmentIs
  <2> QED
    BY <2>1, <2>3
<1> HIDE DEF upTo
<1>5. pre \in [0 .. n -> Nat] /\ \A b \in 0 .. n : pre[b] = upTo(b)
  BY <1>3
<1>6. pre[0] = 0
  BY <1>1, <1>2
<1> HIDE DEF pre
<1>7. ASSUME NEW b \in 1 .. n
      PROVE  /\ pre[b - 1] < pre[b]
             /\ some[b] = [k \in 1 .. (pre[b] - pre[b - 1]) |-> E[pre[b - 1] + k]]
  <2> DEFINE x == pre[b - 1]
             y == pre[b]
  <2>1. b \in 1 .. m /\ b \in 0 .. n /\ b - 1 \in 0 .. n
    BY <1>4
  <2>2. x = upTo(b - 1) /\ y = upTo(b) /\ x < y /\ x \in Nat /\ y \in Nat
    BY <2>1, <1>1, <1>5
  <2>3. some[b] = [k \in 1 .. (y - x) |-> Frame(x + k)]
    BY <2>2, <1>4
  <2> HIDE DEF x, y
  <2>4. \A k \in 1 .. (y - x) : x + k \in Nat
    BY <2>2
  <2>5. \A k \in 1 .. (y - x) : E[x + k] = Frame(x + k)
    BY <2>4
  <2> HIDE DEF E
  <2>6. some[b] = [k \in 1 .. (y - x) |-> E[x + k]]
    BY <2>3, <2>5
  <2> QED
    BY <2>2, <2>6 DEF x, y
<1>8. DOMAIN some = 1 .. n /\ some = [b \in 1 .. n |-> some[b]]
  OBVIOUS
<1>9. FlattenSeq(some) = [f \in 1 .. pre[n] |-> E[f]]
  <2> HIDE DEF E
  <2>1. Slices(some, n, pre, E)
    BY <1>2, <1>5, <1>6, <1>7, <1>8 DEF Slices
  <2>2. FirstOf(FlattenSeq(some), pre[n], E)
    BY <2>1, SlicesFlatten
  <2> QED
    BY <2>2 DEF FirstOf
<1>10. pre[n] = upTo(n) /\ upTo(n) \in Nat
  BY <1>2, <1>3, <1>5
<1>11. \A f \in 1 .. upTo(n) : E[f] = Frame(f)
  BY <1>10
<1> HIDE DEF E
<1> QED
  BY <1>9, <1>10, <1>11 DEF upTo

\* All segments together are all frames, and those of fewer batches are too few.
LEMMA AllSegmentsFlatten ==
  ASSUME threads \in Nat \ {0}
  PROVE  /\ FlattenSeq(AllSegments) = AllFrames
         /\ Len(FlattenSeq(Front(AllSegments))) # Frames
         /\ Len(AllSegments) \in Nat /\ AllSegments # <<>>
<1>1. PICK m : Covered(threads, m)
  BY BatchesCover
<1>2. /\ m \in Nat \ {0} /\ Batches(threads) = 1 .. m
      /\ FramesUpTo(threads, m) = Frames /\ FramesUpTo(threads, m - 1) < Frames
      /\ FramesUpTo(threads, m - 1) \in Nat
  <2>1. m \in Nat \ {0}
    BY <1>1 DEF Covered
  <2>2. m \in 1 .. m
    BY <2>1
  <2>3. /\ Batches(threads) = 1 .. m /\ FramesUpTo(threads, m) = Frames
        /\ (m - 1) * PerBatch(threads) \in Nat
        /\ FramesUpTo(threads, m - 1) = (m - 1) * PerBatch(threads)
        /\ FramesUpTo(threads, m - 1) < FramesUpTo(threads, m)
    BY <2>2, <1>1 DEF Covered
  <2> QED
    BY <2>1, <2>3
<1>3. AllSegments = [b \in 1 .. m |-> finalize_batch(b).segment]
  BY <1>2 DEF AllSegments
<1>4. FlattenSeq(AllSegments) = AllFrames
  <2>1. m \in 0 .. m
    BY <1>2
  <2> QED
    BY <2>1, <1>1, <1>2, <1>3, SegmentsFlatten DEF AllFrames
<1>5. Front(AllSegments) = [b \in 1 .. (m - 1) |-> finalize_batch(b).segment]
  <2>1. Len(AllSegments) = m
    BY <1>2, <1>3
  <2>2. SubSeq(AllSegments, 1, m - 1) = [b \in 1 .. (m - 1) |-> AllSegments[b]]
    BY <1>2, <1>3, <2>1
  <2>3. \A b \in 1 .. (m - 1) : AllSegments[b] = finalize_batch(b).segment
    BY <1>2, <1>3
  <2> QED
    BY <2>1, <2>2, <2>3 DEF Front
<1>6. FlattenSeq(Front(AllSegments)) = [f \in 1 .. FramesUpTo(threads, m - 1) |-> Frame(f)]
  <2>1. m - 1 \in 0 .. m
    BY <1>2
  <2> QED
    BY <2>1, <1>1, <1>5, SegmentsFlatten
<1>7. Len(FlattenSeq(Front(AllSegments))) = FramesUpTo(threads, m - 1)
  BY <1>2, <1>6
<1>8. Len(AllSegments) \in Nat /\ AllSegments # <<>>
  BY <1>2, <1>3
<1> QED
  BY <1>2, <1>4, <1>7, <1>8, FramesCover

-------------------------------------------------------------------------------
(* The object and its reader.                                                *)

\* The seek table of all frames, and the object they make.
SeekTable == [f \in 1 .. Frames |-> [comp |-> Len(Frame(f).data), decomp |-> Frame(f).decomp]]
Image == [data |-> FlattenSeq([f \in 1 .. Frames |-> Frame(f).data]), footer |-> SeekTable]

\* The data of the frames, one after the other, at the offsets the seek table adds up to.
LEMMA ImageIs ==
  ASSUME solved \in [1 .. Length -> Outcomes], NEW pre, Offsets(pre, SeekTable, Frames)
  PROVE  /\ Sized(SeekTable, Frames)
         /\ Image.data \in Seq(Unit) /\ Len(Image.data) = pre[Frames]
         /\ \A f \in 1 .. Frames :
              /\ SeekTable[f].comp = Len(Compressed(Bytes(f)))
              /\ SeekTable[f].decomp = 2 * FrameLength(f)
              /\ SubSeq(Image.data, pre[f - 1] + 1, pre[f - 1] + SeekTable[f].comp)
                   = Compressed(Bytes(f))
<1> DEFINE n == Frames
           d(f) == Compressed(Bytes(f))
           datas == [f \in 1 .. n |-> d(f)]
           flat == FlattenSeq(datas)
           c(f) == SeekTable[f].comp
<1>1. n \in Nat /\ n # 0
  BY FramesCover
<1>2. ASSUME NEW f \in 1 .. n
      PROVE  /\ d(f) \in Seq(Unit) /\ Len(d(f)) \in {1, 2} /\ c(f) = Len(d(f))
             /\ SeekTable[f].decomp = 2 * FrameLength(f)
  <2>1. Bytes(f) \in Seq(Nat) /\ Len(Bytes(f)) = 2 * FrameLength(f)
    BY FrameIs
  <2>2. d(f) \in Seq(Unit) /\ Len(d(f)) \in {1, 2}
    BY <2>1, CompressedIs
  <2>3. c(f) = Len(d(f)) /\ SeekTable[f].decomp = Len(Bytes(f))
    BY DEF SeekTable, Frame
  <2> QED
    BY <2>1, <2>2, <2>3
<1>3. Image.data = flat
  BY DEF Image, Frame
<1>4. DOMAIN SeekTable = 1 .. n
  BY DEF SeekTable
<1> HIDE DEF n, d, c
<1>5. ASSUME NEW f \in 1 .. n PROVE c(f) \in Nat
  <2>1. c(f) \in {1, 2}
    BY <1>2
  <2> QED
    BY <2>1
<1>6. Sized(SeekTable, n)
  BY <1>1, <1>4, <1>5 DEF Sized, c
<1>7. /\ pre \in [0 .. n -> Nat] /\ pre[0] = 0
      /\ \A f \in 1 .. n : pre[f] = pre[f - 1] + c(f)
  BY DEF Offsets, n, c
<1>8. datas \in Seq(Seq(Unit)) /\ Len(datas) = n /\ \A f \in 1 .. n : datas[f] = d(f)
  BY <1>1, <1>2
<1> HIDE DEF datas
<1>9. /\ flat \in Seq(Unit) /\ Len(flat) = pre[n]
      /\ \A f \in 1 .. n : \A j \in 1 .. Len(datas[f]) : flat[pre[f - 1] + j] = datas[f][j]
  <2>1. \A f \in 1 .. n : pre[f] = pre[f - 1] + Len(datas[f])
    BY <1>2, <1>7, <1>8
  <2>2. pre \in [0 .. Len(datas) -> Nat] /\ pre[0] = 0
    BY <1>7, <1>8
  <2>3. \A f \in 1 .. Len(datas) : pre[f] = pre[f - 1] + Len(datas[f])
    BY <2>1, <1>8
  <2>4. /\ FlattenSeq(datas) \in Seq(Unit) /\ Len(FlattenSeq(datas)) = pre[Len(datas)]
        /\ \A f \in 1 .. Len(datas) : \A j \in 1 .. Len(datas[f]) :
             FlattenSeq(datas)[pre[f - 1] + j] = datas[f][j]
    <3>1. StartsOf(pre, datas) /\ datas \in Seq(Seq(Unit))
      BY <2>2, <2>3, <1>8 DEF StartsOf
    <3>2. InPieces(Joined(datas), datas, pre, Unit)
      BY <3>1, Flattened
    <3>3. InPieces(FlattenSeq(datas), datas, pre, Unit)
      BY <3>2, FlattenJoins
    <3> QED
      BY <3>3 DEF InPieces
  <2> QED
    BY <2>4, <1>8
<1> HIDE DEF flat
<1>10. ASSUME NEW f \in 1 .. n
       PROVE  SubSeq(flat, pre[f - 1] + 1, pre[f - 1] + c(f)) = d(f)
  <2> DEFINE x == pre[f - 1]
             w == c(f)
             e == d(f)
             part == SubSeq(flat, x + 1, x + w)
  <2>1. x \in Nat /\ w \in Nat
    <3>1. f - 1 \in 0 .. n
      BY <1>1
    <3> QED
      BY <3>1, <1>5, <1>7
  <2>2. e \in Seq(Unit) /\ Len(e) = w /\ \A j \in 1 .. w : flat[x + j] = e[j]
    BY <1>2, <1>8, <1>9
  <2> HIDE DEF x, w, e
  <2>3. part = [j \in 1 .. w |-> flat[x + j]]
    <3>1. part = [j \in 1 .. ((x + w) - (x + 1) + 1) |-> flat[(j + (x + 1)) - 1]]
      BY <2>1
    <3>2. (x + w) - (x + 1) + 1 = w /\ \A j \in 1 .. w : (j + (x + 1)) - 1 = x + j
      BY <2>1
    <3> QED
      BY <3>1, <3>2
  <2>4. e = [j \in 1 .. w |-> e[j]]
    BY <2>2
  <2> HIDE DEF part
  <2>5. part = e
    BY <2>2, <2>3, <2>4
  <2> QED
    BY <2>5 DEF part, x, w, e
<1> QED
  BY <1>2, <1>3, <1>6, <1>9, <1>10 DEF n, d, c

\* The object all frames make opens, and gives back every cell the solver settled.
LEMMA ImageReads ==
  ASSUME solved \in [1 .. Length -> Outcomes]
  PROVE  Opens(Image) /\ \A i \in 1 .. Length : ReadCell(Image, i) = Settled(solved[i])
<1>1. Frames \in Nat \ {0}
  BY FramesCover
<1>2. Sized(SeekTable, Frames)
  <2>1. DOMAIN SeekTable = 1 .. Frames
    BY DEF SeekTable
  <2>2. ASSUME NEW f \in 1 .. Frames PROVE SeekTable[f].comp \in Nat
    <3>1. Len(Compressed(Bytes(f))) \in Nat
      BY FrameIs, CompressedIs
    <3>2. SeekTable[f].comp = Len(Compressed(Bytes(f)))
      BY DEF SeekTable, Frame
    <3> QED
      BY <3>1, <3>2
  <2> QED
    BY <1>1, <2>1, <2>2 DEF Sized
<1>3. PICK pre : Offsets(pre, SeekTable, Frames)
  BY <1>2, AddsExist
<1>4. /\ Image.data \in Seq(Unit) /\ Len(Image.data) = pre[Frames]
      /\ \A f \in 1 .. Frames :
           /\ SeekTable[f].comp = Len(Compressed(Bytes(f)))
           /\ SeekTable[f].decomp = 2 * FrameLength(f)
           /\ SubSeq(Image.data, pre[f - 1] + 1, pre[f - 1] + SeekTable[f].comp)
                = Compressed(Bytes(f))
  BY <1>3, ImageIs
<1>5. Image.footer = SeekTable /\ Len(SeekTable) = Frames
  BY <1>1 DEF Image, SeekTable
<1>6. Opens(Image)
  <2>1. Extent(SeekTable) = pre[Frames]
    BY <1>2, <1>3, ExtentIs
  <2>2. ASSUME NEW f \in 1 .. Frames PROVE SeekTable[f].comp # 0
    <3>1. Len(Compressed(Bytes(f))) \in {1, 2}
      BY FrameIs, CompressedIs
    <3>2. Len(Compressed(Bytes(f))) # 0
      BY <3>1
    <3> QED
      BY <3>2, <1>4
  <2> QED
    BY <2>1, <2>2, <1>4, <1>5 DEF Opens
<1>7. ASSUME NEW i \in 1 .. Length PROVE ReadCell(Image, i) = Settled(solved[i])
  <2> DEFINE f == (i - 1) \div FrameSize + 1
             k == ((i - 1) % FrameSize) + 1
             start == Extent(SubSeq(Image.footer, 1, f - 1))
             range == SubSeq(Image.data, start + 1, start + Image.footer[f].comp)
             bytes == range[1].of
  <2>1. f \in 1 .. Frames /\ k \in 1 .. FrameLength(f) /\ (f - 1) * FrameSize + k = i
    BY IndexLocated
  <2>2. ReadCell(Image, i) =
          IF range = Compressed(bytes) /\ Len(bytes) = 2 * FrameLength(f)
          THEN Decode(detranspose_frame(bytes, FrameLength(f))[k])
          ELSE Unknown(1)
    BY DEF ReadCell
  <2> HIDE DEF f, k
  <2>3. start = pre[f - 1]
    <3>1. f - 1 \in 0 .. Frames
      BY <2>1, <1>1
    <3> QED
      BY <3>1, <1>2, <1>3, <1>5, ExtentOfPrefix
  <2>4. range = Compressed(Bytes(f))
    BY <2>1, <2>3, <1>4, <1>5
  <2> HIDE DEF start, range
  <2>5. /\ Bytes(f) \in Seq(Nat) /\ Len(Bytes(f)) = 2 * FrameLength(f)
        /\ detranspose_frame(Bytes(f), FrameLength(f)) = Plain(f)
        /\ Decode(Plain(f)[k]) = Settled(solved[(f - 1) * FrameSize + k])
    BY <2>1, FrameIs
  <2>6. bytes = Bytes(f)
    BY <2>4, <2>5, CompressedIs
  <2> HIDE DEF bytes
  <2> QED
    BY <2>1, <2>2, <2>4, <2>5, <2>6
<1> QED
  BY <1>6, <1>7

-------------------------------------------------------------------------------
(* The writer: its inductive invariant and the theorem.                      *)

\* What the writer of a table holds, whatever its callers did: some of the batches, and all
\* of them once their statistics are merged; no segments or all of them; no footer or the
\* seek table of all frames, which needs the segments; an upload of all segments and that
\* footer; and, if anything is stored, the object all frames make.
GivenInv == threads \in Nat \ {0} /\ solved \in [1 .. Length -> Outcomes]

BatchesInv ==
  /\ DOMAIN batches \subseteq Batches(threads)
  /\ \A b \in DOMAIN batches : batches[b].segment = finalize_batch(b).segment
  /\ stats # <<>> => DOMAIN batches = Batches(threads)

WriterInv ==
  /\ segments \in {<<>>, <<AllSegments>>}
  /\ footer \in {<<>>, <<SeekTable>>}
  /\ footer # <<>> => segments # <<>>

UploadInv ==
  /\ upload = <<>> \/ \E n \in Nat : upload = <<[put |-> n, of |-> AllSegments]>>
  /\ upload # <<>> => footer = <<SeekTable>>

ObjectInv == object \in {<<>>, <<Image>>}

FileInv == GivenInv /\ BatchesInv /\ WriterInv /\ UploadInv /\ ObjectInv

\* What a batch makes depends on what the solver found and on the number of threads only.
LEMMA GivenKept ==
  ASSUME GivenInv, UNCHANGED given
  PROVE  /\ GivenInv'
         /\ Batches(threads)' = Batches(threads)
         /\ \A b : finalize_batch(b)'.segment = finalize_batch(b).segment
         /\ AllSegments' = AllSegments /\ SeekTable' = SeekTable /\ Image' = Image
<1>1. solved' = solved /\ threads' = threads /\ mirror' = mirror
  BY DEF given
<1>2. \A i : Finalized(i)' = Finalized(i)
  BY <1>1 DEF Finalized, working
<1>3. \A f : Plain(f)' = Plain(f)
  BY <1>2 DEF Plain
<1>4. \A f : Bytes(f)' = Bytes(f)
  BY <1>3 DEF Bytes
<1>5. \A f : Frame(f)' = Frame(f)
  BY <1>4 DEF Frame
<1>6. Batches(threads)' = Batches(threads)
  BY <1>1
<1>7. \A b : finalize_batch(b)'.segment = finalize_batch(b).segment
  BY <1>1, <1>5 DEF finalize_batch, Frame, Bytes, Plain
<1>8. AllSegments' = AllSegments
  BY <1>6, <1>7 DEF AllSegments
<1>9. SeekTable' = SeekTable
  BY <1>5 DEF SeekTable
<1>10. Image' = Image
  BY <1>5, <1>9 DEF Image
<1>11. GivenInv'
  BY <1>1 DEF GivenInv
<1> QED
  BY <1>6, <1>7, <1>8, <1>9, <1>10, <1>11

\* Before anything is called, the writer holds nothing.
LEMMA FileInvInit ==
  ASSUME Init PROVE FileInv
<1>1. GivenInv
  BY FileAssumption DEF Init, GivenInv
<1>2. BatchesInv
  <2>1. batches = <<>> /\ stats = <<>> /\ DOMAIN batches = {}
    BY DEF Init
  <2> QED
    BY <2>1 DEF BatchesInv
<1>3. WriterInv /\ UploadInv /\ ObjectInv
  BY DEF Init, WriterInv, UploadInv, ObjectInv
<1> QED
  BY <1>1, <1>2, <1>3 DEF FileInv

\* A batch may be finished in any order; what it made is what its place calls for.
LEMMA FileInvFinalizeBatch ==
  ASSUME FileInv, NEW b, FinalizeBatch(b) PROVE FileInv'
<1>1. /\ b \in Batches(threads) /\ b \notin DOMAIN batches
      /\ batches' = With(batches, b, finalize_batch(b))
      /\ UNCHANGED given /\ stats' = stats /\ UNCHANGED writer
      /\ upload' = upload /\ object' = object
  BY DEF FinalizeBatch
<1>2. /\ GivenInv' /\ Batches(threads)' = Batches(threads)
      /\ \A c : finalize_batch(c)'.segment = finalize_batch(c).segment
      /\ AllSegments' = AllSegments /\ SeekTable' = SeekTable /\ Image' = Image
  BY <1>1, GivenKept DEF FileInv
<1>3. /\ DOMAIN batches' = DOMAIN batches \cup {b}
      /\ batches'[b] = finalize_batch(b)
      /\ \A c \in DOMAIN batches : batches'[c] = batches[c]
  <2> DEFINE e == finalize_batch(b)
  <2>1. batches' = [c \in DOMAIN batches \cup {b} |-> IF c = b THEN e ELSE batches[c]]
    BY <1>1 DEF With
  <2> HIDE DEF e
  <2> QED
    BY <2>1, <1>1 DEF e
<1>4. BatchesInv'
  <2>1. DOMAIN batches' \subseteq Batches(threads)
    BY <1>1, <1>3 DEF FileInv, BatchesInv
  <2>2. \A c \in DOMAIN batches' : batches'[c].segment = finalize_batch(c).segment
    BY <1>3 DEF FileInv, BatchesInv
  <2>3. stats = <<>>
    BY <1>1 DEF FileInv, BatchesInv
  <2> QED
    BY <2>1, <2>2, <2>3, <1>1, <1>2 DEF BatchesInv
<1>5. WriterInv' /\ UploadInv' /\ ObjectInv'
  BY <1>1, <1>2 DEF FileInv, WriterInv, UploadInv, ObjectInv, writer
<1> QED
  BY <1>2, <1>4, <1>5 DEF FileInv

\* The statistics are merged once every batch is there.
LEMMA FileInvCollect ==
  ASSUME FileInv, Collect PROVE FileInv'
<1>1. /\ DOMAIN batches = Batches(threads) /\ batches' = batches
      /\ UNCHANGED given /\ UNCHANGED writer
      /\ upload' = upload /\ object' = object
  BY DEF Collect
<1>2. /\ GivenInv' /\ Batches(threads)' = Batches(threads)
      /\ \A c : finalize_batch(c)'.segment = finalize_batch(c).segment
      /\ AllSegments' = AllSegments /\ SeekTable' = SeekTable /\ Image' = Image
  BY <1>1, GivenKept DEF FileInv
<1>3. BatchesInv'
  BY <1>1, <1>2 DEF FileInv, BatchesInv
<1>4. WriterInv' /\ UploadInv' /\ ObjectInv'
  BY <1>1, <1>2 DEF FileInv, WriterInv, UploadInv, ObjectInv, writer
<1> QED
  BY <1>2, <1>3, <1>4 DEF FileInv

\* A step of the writer changes nothing of the batches.
LEMMA WriterStep ==
  ASSUME FileInv, UNCHANGED <<given, batches, stats>>
  PROVE  /\ GivenInv' /\ BatchesInv'
         /\ AllSegments' = AllSegments /\ SeekTable' = SeekTable /\ Image' = Image
<1>1. UNCHANGED given /\ batches' = batches /\ stats' = stats
  OBVIOUS
<1>2. /\ GivenInv' /\ Batches(threads)' = Batches(threads)
      /\ \A c : finalize_batch(c)'.segment = finalize_batch(c).segment
      /\ AllSegments' = AllSegments /\ SeekTable' = SeekTable /\ Image' = Image
  BY <1>1, GivenKept DEF FileInv
<1>3. BatchesInv'
  BY <1>1, <1>2 DEF FileInv, BatchesInv
<1> QED
  BY <1>2, <1>3

\* The segments a caller may hand over are all of them, or all but the last.
LEMMA DeliveredSegments ==
  ASSUME FileInv, NEW s \in Deliveries
  PROVE  s = AllSegments \/ s = Front(AllSegments)
<1> DEFINE all == [b \in DOMAIN Completed |-> Completed[b].segment]
<1>1. stats # <<>> /\ (s = all \/ s = Front(all))
  BY DEF Deliveries
<1>2. threads \in Nat \ {0} /\ DOMAIN batches = Batches(threads)
      /\ \A b \in Batches(threads) : batches[b].segment = finalize_batch(b).segment
  BY <1>1 DEF FileInv, GivenInv, BatchesInv
<1>3. PICK m : Covered(threads, m)
  BY <1>2, BatchesCover
<1>4. m \in Nat \ {0} /\ Batches(threads) = 1 .. m
  BY <1>3 DEF Covered
<1>5. Cardinality(DOMAIN batches) = m
  <2>1. 1 \in Int /\ m \in Int /\ 1 <= m
    BY <1>4
  <2>2. Cardinality(1 .. m) = m - 1 + 1
    BY <2>1, FS_Interval
  <2> QED
    BY <2>2, <1>2, <1>4
<1>6. Completed = [b \in 1 .. m |-> batches[b]]
  BY <1>5 DEF Completed
<1>7. all = [b \in 1 .. m |-> batches[b].segment]
  BY <1>6
<1>8. all = AllSegments
  <2> HIDE DEF all
  <2> QED
    BY <1>2, <1>4, <1>7 DEF AllSegments
<1> QED
  BY <1>1, <1>8

\* The writer takes segments once, and only if they hold every frame.
LEMMA FileInvWriteSegments ==
  ASSUME FileInv, NEW s \in Deliveries, write_segments(s) PROVE FileInv'
<1>1. /\ upload = <<>> /\ upload' = upload /\ object' = object /\ footer' = footer
      /\ UNCHANGED <<given, batches, stats>>
      /\ \/ segments' = segments
         \/ segments' = <<s>> /\ footer = <<>> /\ Len(FlattenSeq(s)) = Frames
  BY DEF write_segments, Call
<1>2. /\ GivenInv' /\ BatchesInv'
      /\ AllSegments' = AllSegments /\ SeekTable' = SeekTable /\ Image' = Image
  BY <1>1, WriterStep
<1>3. s = AllSegments \/ s = Front(AllSegments)
  BY DeliveredSegments
<1>4. Len(FlattenSeq(Front(AllSegments))) # Frames
  BY AllSegmentsFlatten DEF FileInv, GivenInv
<1>5. segments' = segments \/ (segments' = <<AllSegments>> /\ footer = <<>>)
  BY <1>1, <1>3, <1>4
<1>6. WriterInv'
  <2>1. segments \in {<<>>, <<AllSegments>>} /\ footer \in {<<>>, <<SeekTable>>}
        /\ (footer # <<>> => segments # <<>>)
    BY DEF FileInv, WriterInv
  <2> QED
    BY <2>1, <1>1, <1>2, <1>5 DEF WriterInv
<1>7. UploadInv' /\ ObjectInv'
  BY <1>1, <1>2 DEF FileInv, UploadInv, ObjectInv
<1> QED
  BY <1>2, <1>6, <1>7 DEF FileInv

\* finish makes the seek table of all frames.
LEMMA FileInvFinish ==
  ASSUME FileInv, finish PROVE FileInv'
<1> DEFINE frames == FlattenSeq(segments[1])
           made == [f \in DOMAIN frames |->
                      [comp |-> Len(frames[f].data), decomp |-> frames[f].decomp]]
<1>1. /\ upload = <<>> /\ upload' = upload /\ object' = object /\ segments' = segments
      /\ UNCHANGED <<given, batches, stats>>
      /\ footer' = footer \/ (segments # <<>> /\ footer' = <<made>>)
  BY DEF finish, Call
<1>2. /\ GivenInv' /\ BatchesInv'
      /\ AllSegments' = AllSegments /\ SeekTable' = SeekTable /\ Image' = Image
  BY <1>1, WriterStep
<1>3. segments # <<>> => made = SeekTable
  <2>1. SUFFICES ASSUME segments # <<>> PROVE made = SeekTable
    OBVIOUS
  <2>2. segments[1] = AllSegments
    BY <2>1 DEF FileInv, WriterInv
  <2>3. frames = [f \in 1 .. Frames |-> Frame(f)]
    BY <2>2, AllSegmentsFlatten DEF FileInv, GivenInv, AllFrames
  <2> HIDE DEF frames
  <2> QED
    BY <2>3 DEF SeekTable
<1> HIDE DEF made
<1>4. footer' = footer \/ (segments # <<>> /\ footer' = <<SeekTable>>)
  BY <1>1, <1>3
<1>5. WriterInv'
  <2>1. segments \in {<<>>, <<AllSegments>>} /\ footer \in {<<>>, <<SeekTable>>}
        /\ (footer # <<>> => segments # <<>>)
    BY DEF FileInv, WriterInv
  <2> QED
    BY <2>1, <1>1, <1>2, <1>4 DEF WriterInv
<1>6. UploadInv' /\ ObjectInv'
  BY <1>1, <1>2 DEF FileInv, UploadInv, ObjectInv
<1> QED
  BY <1>2, <1>5, <1>6 DEF FileInv

\* An upload starts with all segments and the seek table.
LEMMA FileInvBeginPublish ==
  ASSUME FileInv, BeginPublish PROVE FileInv'
<1>1. /\ upload = <<>> /\ object' = object /\ segments' = segments /\ footer' = footer
      /\ UNCHANGED <<given, batches, stats>>
      /\ \/ upload' = upload
         \/ footer # <<>> /\ upload' = <<[put |-> 0, of |-> SegmentsOf(segments)]>>
  BY DEF BeginPublish, Call, writer
<1>2. /\ GivenInv' /\ BatchesInv'
      /\ AllSegments' = AllSegments /\ SeekTable' = SeekTable /\ Image' = Image
  BY <1>1, WriterStep
<1>3. WriterInv /\ UploadInv /\ ObjectInv
  BY DEF FileInv
<1>4. footer # <<>> => footer = <<SeekTable>> /\ SegmentsOf(segments) = AllSegments
  BY <1>3 DEF WriterInv, SegmentsOf
<1>5. UploadInv'
  <2>1. CASE upload' = upload
    BY <2>1, <1>1, <1>2 DEF UploadInv
  <2>2. CASE footer # <<>> /\ upload' = <<[put |-> 0, of |-> SegmentsOf(segments)]>>
    <3>1. upload' = <<[put |-> 0, of |-> AllSegments']>> /\ footer' = <<SeekTable'>>
      BY <2>2, <1>1, <1>2, <1>4
    <3> QED
      BY <3>1 DEF UploadInv
  <2> QED
    BY <2>1, <2>2, <1>1
<1>6. WriterInv' /\ ObjectInv'
  BY <1>1, <1>2, <1>3 DEF WriterInv, ObjectInv
<1> QED
  BY <1>2, <1>5, <1>6 DEF FileInv

\* Putting a buffer leaves what is uploaded.
LEMMA FileInvPutBuffer ==
  ASSUME FileInv, PutBuffer PROVE FileInv'
<1>1. /\ upload # <<>> /\ upload' = [upload EXCEPT ![1].put = @ + 1] /\ object' = object
      /\ segments' = segments /\ footer' = footer /\ UNCHANGED <<given, batches, stats>>
  BY DEF PutBuffer, writer
<1>2. /\ GivenInv' /\ BatchesInv'
      /\ AllSegments' = AllSegments /\ SeekTable' = SeekTable /\ Image' = Image
  BY <1>1, WriterStep
<1>3. WriterInv /\ UploadInv /\ ObjectInv
  BY DEF FileInv
<1>4. UploadInv'
  <2>1. PICK n \in Nat : upload = <<[put |-> n, of |-> AllSegments]>>
    BY <1>1, <1>3 DEF UploadInv
  <2>2. footer = <<SeekTable>>
    BY <1>1, <1>3 DEF UploadInv
  <2>3. upload' = <<[put |-> n + 1, of |-> AllSegments]>>
    BY <2>1, <1>1
  <2>4. n + 1 \in Nat /\ footer' = <<SeekTable'>>
    BY <2>2, <1>1, <1>2
  <2> QED
    BY <2>3, <2>4, <1>2 DEF UploadInv
<1>5. WriterInv' /\ ObjectInv'
  BY <1>1, <1>2, <1>3 DEF WriterInv, ObjectInv
<1> QED
  BY <1>2, <1>4, <1>5 DEF FileInv

\* An aborted upload leaves the writer and the object as they were.
LEMMA FileInvAbortUpload ==
  ASSUME FileInv, AbortUpload PROVE FileInv'
<1>1. /\ upload' = <<>> /\ object' = object
      /\ segments' = segments /\ footer' = footer /\ UNCHANGED <<given, batches, stats>>
  BY DEF AbortUpload, writer
<1>2. /\ GivenInv' /\ BatchesInv'
      /\ AllSegments' = AllSegments /\ SeekTable' = SeekTable /\ Image' = Image
  BY <1>1, WriterStep
<1>3. WriterInv /\ ObjectInv
  BY DEF FileInv
<1>4. WriterInv' /\ UploadInv' /\ ObjectInv'
  BY <1>1, <1>2, <1>3 DEF WriterInv, UploadInv, ObjectInv
<1> QED
  BY <1>2, <1>4 DEF FileInv

\* A completed upload stores all frames, and may leave the writer as it was.
LEMMA FileInvCompleteUpload ==
  ASSUME FileInv, CompleteUpload PROVE FileInv'
<1> DEFINE frames == FlattenSeq(upload[1].of)
           stored == [data |-> FlattenSeq([f \in DOMAIN frames |-> frames[f].data]),
                      footer |-> footer[1]]
<1>1. /\ upload # <<>> /\ upload' = <<>> /\ object' = <<stored>>
      /\ UNCHANGED <<given, batches, stats>>
      /\ \/ segments' = <<>> /\ footer' = <<>>
         \/ segments' = segments /\ footer' = footer
  BY DEF CompleteUpload, writer
<1>2. /\ GivenInv' /\ BatchesInv'
      /\ AllSegments' = AllSegments /\ SeekTable' = SeekTable /\ Image' = Image
  BY <1>1, WriterStep
<1>3. WriterInv /\ UploadInv
  BY DEF FileInv
<1>4. upload[1].of = AllSegments /\ footer[1] = SeekTable
  BY <1>1, <1>3 DEF UploadInv
<1>5. stored = Image
  <2>1. frames = [f \in 1 .. Frames |-> Frame(f)]
    BY <1>4, AllSegmentsFlatten DEF FileInv, GivenInv, AllFrames
  <2> HIDE DEF frames
  <2>2. [f \in DOMAIN frames |-> frames[f].data] = [f \in 1 .. Frames |-> Frame(f).data]
    BY <2>1
  <2> QED
    BY <2>2, <1>4 DEF Image
<1> HIDE DEF stored
<1>6. WriterInv' /\ UploadInv' /\ ObjectInv'
  BY <1>1, <1>2, <1>3, <1>5 DEF WriterInv, UploadInv, ObjectInv
<1> QED
  BY <1>2, <1>6 DEF FileInv

\* Nothing changes when nothing of this does.
LEMMA FileInvStutter ==
  ASSUME FileInv, UNCHANGED vars PROVE FileInv'
<1>1. /\ upload' = upload /\ object' = object
      /\ segments' = segments /\ footer' = footer /\ UNCHANGED <<given, batches, stats>>
  BY DEF vars, writer
<1>2. /\ GivenInv' /\ BatchesInv'
      /\ AllSegments' = AllSegments /\ SeekTable' = SeekTable /\ Image' = Image
  BY <1>1, WriterStep
<1>3. WriterInv' /\ UploadInv' /\ ObjectInv'
  BY <1>1, <1>2 DEF FileInv, WriterInv, UploadInv, ObjectInv
<1> QED
  BY <1>2, <1>3 DEF FileInv

\* Whatever calls the writer gets, in whatever order, and whatever fails between, it holds
\* nothing but the frames of the whole table and stores no other object (EgtFileWriter).
THEOREM WriterHoldsTheTable == Spec => []FileInv
<1>1. Init => FileInv
  BY FileInvInit
<1>2. FileInv /\ [Next \/ Idle]_vars => FileInv'
  <2> SUFFICES ASSUME FileInv, [Next \/ Idle]_vars PROVE FileInv'
    OBVIOUS
  <2>1. CASE \E b \in 1 .. Length : FinalizeBatch(b)
    BY <2>1, FileInvFinalizeBatch
  <2>2. CASE Collect
    BY <2>2, FileInvCollect
  <2>3. CASE \E s \in Deliveries : write_segments(s)
    BY <2>3, FileInvWriteSegments
  <2>4. CASE finish
    BY <2>4, FileInvFinish
  <2>5. CASE BeginPublish
    BY <2>5, FileInvBeginPublish
  <2>6. CASE PutBuffer
    BY <2>6, FileInvPutBuffer
  <2>7. CASE AbortUpload
    BY <2>7, FileInvAbortUpload
  <2>8. CASE CompleteUpload
    BY <2>8, FileInvCompleteUpload
  <2>9. CASE Idle \/ UNCHANGED vars
    BY <2>9, FileInvStutter DEF Idle
  <2> QED
    BY <2>1, <2>2, <2>3, <2>4, <2>5, <2>6, <2>7, <2>8, <2>9 DEF Next
<1> QED
  BY <1>1, <1>2, PTL DEF Spec

\* An object the writer stored opens, and gives back index by index what the solver found,
\* the unknown as draws (EgtFileWriter, transpose_frame, load_seek_table).
THEOREM ReadsBackAlways == Spec => []ReadsBackFinal
<1>1. FileInv => ReadsBackFinal
  <2> SUFFICES ASSUME FileInv, object # <<>>
               PROVE  /\ Opens(object[1])
                      /\ \A i \in 1 .. Length :
                           ReadCell(object[1], i) =
                             IF IsUnknown(solved[i]) THEN Draw ELSE solved[i]
    BY DEF ReadsBackFinal
  <2>1. object[1] = Image /\ solved \in [1 .. Length -> Outcomes]
    BY DEF FileInv, ObjectInv, GivenInv
  <2>2. Opens(Image) /\ \A i \in 1 .. Length : ReadCell(Image, i) = Settled(solved[i])
    BY <2>1, ImageReads
  <2> QED
    BY <2>1, <2>2 DEF Settled
<1> QED
  BY <1>1, WriterHoldsTheTable, PTL

-------------------------------------------------------------------------------
(* Counting and listing cells: histograms and candidates.                    *)

\* A bounded set of naturals that is not empty has a greatest element.
LEMMA GreatestNatural ==
  ASSUME NEW C, C \subseteq Nat, C # {}, NEW bound \in Nat, \A n \in C : n < bound
  PROVE  \E n \in C : \A m \in C : m <= n
<1> DEFINE B == {k \in Nat : \A m \in C : m <= k}
<1>1. B \subseteq Nat /\ bound \in B
  OBVIOUS
<1>2. PICK k \in B : \A j \in B : k <= j
  <2> HIDE DEF B
  <2> QED
    BY <1>1, LeastNatural
<1>3. CASE k \in C
  BY <1>2, <1>3
<1>4. CASE k \notin C
  <2>1. PICK m \in C : TRUE
    OBVIOUS
  <2>2. m \in Nat /\ m <= k /\ m # k
    BY <2>1, <1>2, <1>4
  <2>3. k - 1 \in Nat /\ ~ (k <= k - 1)
    BY <2>2, <1>2
  <2>4. \A j \in C : j <= k - 1
    <3>1. \A j \in C : j \in Nat /\ j <= k /\ j # k
      BY <1>2, <1>4
    <3>2. k \in Nat
      BY <1>2
    <3> HIDE DEF B
    <3> QED
      BY <3>1, <3>2
  <2>5. k - 1 \in B
    BY <2>3, <2>4
  <2> HIDE DEF B
  <2> QED
    BY <2>3, <2>5, <1>2
<1> QED
  BY <1>3, <1>4

\* What a cell holds in the end.
Final(i) == Settled(solved[i])

\* It is a win or a loss exactly where the solver found one.
LEMMA FinalIs ==
  ASSUME solved \in [1 .. Length -> Outcomes], NEW i \in 1 .. Length
  PROVE  /\ Decode(Finalized(i)) = Final(i)
         /\ Final(i).kind \in {"invalid", "draw", "win", "loss"}
         /\ Final(i).n \in Nat /\ Final(i).n < 8192
         /\ IsResolved(Final(i)) <=> Final(i).kind \in Sides
         /\ Final(i).kind \in Sides => Final(i) = solved[i]
         /\ solved[i].kind \in Sides => Final(i) = solved[i]
<1>1. solved[i] \in Outcomes
  OBVIOUS
<1>2. Decode(Finalized(i)) = Final(i)
  <2>1. Finalized(i) = Stored(solved[i])
    BY DEF Finalized, working, Stored
  <2> QED
    BY <2>1, <1>1, StoredCell DEF Final
<1> DEFINE v == solved[i]
<1>3. /\ v.kind \in {"invalid", "unknown", "draw", "win", "loss"}
      /\ v.n \in Nat /\ v.n < 8192
  <2>1. 2 ^ 13 = 8192
    OBVIOUS
  <2>2. v \in {Invalid, Draw} \/ (v \in Value /\ v.n < 2 ^ 13)
    BY <1>1, FileAssumption
  <2> HIDE DEF v
  <2>3. CASE v \in {Invalid, Draw}
    BY <2>3 DEF Invalid, Draw
  <2>4. CASE v \in Value /\ v.n < 2 ^ 13
    BY <2>1, <2>4 DEF Value
  <2> QED
    BY <2>2, <2>3, <2>4
<1>4. Final(i) = IF v.kind = "unknown" THEN Draw ELSE v
  BY DEF Final, Settled, IsUnknown
<1> HIDE DEF v
<1>5. Draw.kind = "draw" /\ Draw.n = 0
  BY DEF Draw
<1>6. Final(i).kind \in {"invalid", "draw", "win", "loss"} /\ Final(i).n \in Nat /\ Final(i).n < 8192
  BY <1>3, <1>4, <1>5
<1>7. Final(i).kind \in Sides => Final(i) = v
  BY <1>3, <1>4, <1>5 DEF Sides
<1>8. v.kind \in Sides => Final(i) = v
  BY <1>3, <1>4 DEF Sides
<1>9. IsResolved(Final(i)) <=> Final(i).kind \in Sides
  BY DEF IsResolved, IsWin, IsLoss, Sides
<1> QED
  BY <1>2, <1>6, <1>7, <1>8, <1>9 DEF v

\* No win or loss of the table is deeper than this one.
Deepest(i) == \A j \in 1 .. Length : Final(j).kind = Final(i).kind => Final(j).n <= Final(i).n

\* The maxima passed to the statistics pick the deepest wins and losses.
LEMMA CandidateIs ==
  ASSUME solved \in [1 .. Length -> Outcomes], NEW i \in 1 .. Length, Final(i).kind \in Sides
  PROVE  Candidate(Final(i)) <=> Deepest(i) /\ (Final(i).kind = "win" => Final(i).n # 0)
<1> DEFINE kind == Final(i).kind
           plies == {solved[j].n : j \in {k \in 1 .. Length : solved[k].kind = kind}}
           deep == {Final(j).n : j \in {k \in 1 .. Length : Final(k).kind = kind}}
           best == CHOOSE n \in plies : \A m \in plies : m <= n
<1>1. \A j \in 1 .. Length : /\ solved[j].kind = kind <=> Final(j).kind = kind
                             /\ solved[j].kind = kind => Final(j) = solved[j]
  BY FinalIs
<1>2. plies = deep
  BY <1>1
<1>3. Final(i).n \in deep /\ deep \subseteq Nat /\ \A n \in deep : n < 8192
  BY FinalIs
<1>4. PICK n \in deep : \A m \in deep : m <= n
  <2> DEFINE bound == 8192
  <2>1. deep \subseteq Nat /\ bound \in Nat /\ \A n \in deep : n < bound
    BY <1>3
  <2> HIDE DEF deep, bound
  <2>2. deep # {}
    BY <1>3
  <2> QED
    BY <2>1, <2>2, GreatestNatural
<1>5. best \in deep /\ \A m \in deep : m <= best
  <2> HIDE DEF deep, plies
  <2> QED
    BY <1>2, <1>4
<1>6. Maximum(kind) = best
  <2>1. plies # {}
    <3> HIDE DEF deep, plies
    <3> QED
      BY <1>2, <1>3
  <2>2. Maximum(kind) = IF plies = {} THEN 0 ELSE best
    BY DEF Maximum
  <2> HIDE DEF plies, best
  <2> QED
    BY <2>1, <2>2
<1> HIDE DEF best, plies
<1>7. Final(i).n = best <=> \A m \in deep : m <= Final(i).n
  <2> DEFINE x == Final(i).n
  <2>1. x \in deep /\ x \in Nat /\ best \in Nat
    BY <1>3, <1>5
  <2> HIDE DEF deep, x
  <2>2. x = best => \A m \in deep : m <= x
    BY <1>5
  <2>3. (\A m \in deep : m <= x) => x = best
    <3>1. best \in deep /\ x <= best
      BY <2>1, <1>5
    <3>2. best <= x => x = best
      BY <2>1, <3>1
    <3> QED
      BY <3>1, <3>2
  <2> QED
    BY <2>2, <2>3 DEF x
<1>8. (\A m \in deep : m <= Final(i).n) <=> Deepest(i)
  BY DEF Deepest
<1>9. Final(i).n > 0 <=> Final(i).n # 0
  BY FinalIs
<1>10. Candidate(Final(i)) <=> Final(i).n = best /\ (kind = "win" => Final(i).n > 0)
  BY <1>6 DEF Candidate
<1> QED
  BY <1>7, <1>8, <1>9, <1>10

-------------------------------------------------------------------------------

\* h counts, by their ply, the members of S.
Counts(h, S, plies) ==
  /\ DOMAIN h = {plies[i] : i \in S} /\ h = [n \in DOMAIN h |-> h[n]]
  /\ \A n \in DOMAIN h : h[n] = Cardinality({i \in S : plies[i] = n})

\* So it does for a ply that none has.
LEMMA CountedIs ==
  ASSUME NEW S, NEW plies, NEW h, Counts(h, S, plies), NEW n
  PROVE  Counted(h, n) = Cardinality({i \in S : plies[i] = n})
<1>1. CASE n \in DOMAIN h
  BY <1>1 DEF Counts, Counted
<1>2. CASE n \notin DOMAIN h
  <2>1. {i \in S : plies[i] = n} = {}
    BY <1>2 DEF Counts
  <2> QED
    BY <2>1, <1>2, FS_EmptySet DEF Counted
<1> QED
  BY <1>1, <1>2

\* One more is counted by Bump.
LEMMA BumpCounts ==
  ASSUME NEW S, IsFiniteSet(S), NEW plies, NEW h, Counts(h, S, plies), NEW i, i \notin S
  PROVE  Counts(Bump(h, plies[i]), S \cup {i}, plies)
<1> DEFINE ply == plies[i]
           g == Bump(h, ply)
           A(n) == {j \in S : plies[j] = n}
           B(n) == {j \in S \cup {i} : plies[j] = n}
<1>1. g = [n \in DOMAIN h \cup {ply} |-> IF n = ply THEN Counted(h, ply) + 1 ELSE h[n]]
  BY DEF Bump, With
<1>2. DOMAIN h = {plies[j] : j \in S}
  BY DEF Counts
<1>3. DOMAIN g = {plies[j] : j \in S \cup {i}}
  BY <1>1, <1>2
<1>4. ASSUME NEW n \in DOMAIN g PROVE g[n] = Cardinality(B(n))
  <2>1. IsFiniteSet(A(n))
    BY FS_Subset
  <2>2. CASE n = ply
    <3>1. B(n) = A(n) \cup {i} /\ i \notin A(n)
      BY <2>2
    <3>2. Cardinality(B(n)) = Cardinality(A(n)) + 1
      <4> HIDE DEF A, B
      <4> QED
        BY <2>1, <3>1, FS_AddElement
    <3>3. g[n] = Counted(h, n) + 1
      BY <2>2, <1>1
    <3> QED
      BY <3>2, <3>3, CountedIs
  <2>3. CASE n # ply
    <3>1. B(n) = A(n)
      BY <2>3
    <3>2. n \in DOMAIN h /\ g[n] = h[n]
      BY <2>3, <1>1
    <3>3. h[n] = Cardinality(A(n))
      BY <3>2 DEF Counts
    <3> QED
      BY <3>1, <3>2, <3>3
  <2> QED
    BY <2>2, <2>3
<1>5. g = [n \in DOMAIN g |-> g[n]]
  BY <1>1
<1> HIDE DEF g
<1> QED
  BY <1>3, <1>4, <1>5 DEF Counts, g

\* Two disjoint sets are counted together by Added.
LEMMA AddedCounts ==
  ASSUME NEW S, IsFiniteSet(S), NEW T, IsFiniteSet(T), S \cap T = {}, NEW plies,
         NEW h, Counts(h, S, plies), NEW g, Counts(g, T, plies)
  PROVE  Counts(Added(h, g), S \cup T, plies)
<1> DEFINE both == Added(h, g)
           A(n) == {j \in S : plies[j] = n}
           B(n) == {j \in T : plies[j] = n}
           C(n) == {j \in S \cup T : plies[j] = n}
<1>1. both = [n \in DOMAIN h \cup DOMAIN g |-> Counted(h, n) + Counted(g, n)]
  BY DEF Added
<1>2. DOMAIN h = {plies[j] : j \in S} /\ DOMAIN g = {plies[j] : j \in T}
  BY DEF Counts
<1>3. DOMAIN both = {plies[j] : j \in S \cup T}
  BY <1>1, <1>2
<1>4. ASSUME NEW n \in DOMAIN both PROVE both[n] = Cardinality(C(n))
  <2>1. IsFiniteSet(A(n)) /\ IsFiniteSet(B(n))
    BY FS_Subset
  <2>2. C(n) = A(n) \cup B(n) /\ A(n) \cap B(n) = {}
    OBVIOUS
  <2>3. Cardinality(C(n)) = Cardinality(A(n)) + Cardinality(B(n))
    <3> HIDE DEF A, B, C
    <3>1. Cardinality(A(n) \cup B(n)) =
            Cardinality(A(n)) + Cardinality(B(n)) - Cardinality(A(n) \cap B(n))
      BY <2>1, FS_Union
    <3>2. Cardinality(A(n)) \in Nat /\ Cardinality(B(n)) \in Nat
      BY <2>1, FS_CardinalityType
    <3>3. Cardinality(A(n) \cap B(n)) = 0
      BY <2>2, FS_EmptySet
    <3> QED
      BY <3>1, <3>2, <3>3, <2>2
  <2>4. Counted(h, n) = Cardinality(A(n)) /\ Counted(g, n) = Cardinality(B(n))
    BY CountedIs
  <2>5. both[n] = Counted(h, n) + Counted(g, n)
    BY <1>1
  <2> QED
    BY <2>3, <2>4, <2>5
<1>5. both = [n \in DOMAIN both |-> both[n]]
  BY <1>1
<1> HIDE DEF both
<1> QED
  BY <1>3, <1>4, <1>5 DEF Counts, both

-------------------------------------------------------------------------------

\* c lists the members of S in order.
Lists(c, S) == /\ c \in Seq(Nat) /\ {c[k] : k \in DOMAIN c} = S
               /\ \A k, l \in DOMAIN c : k < l => c[k] < c[l]

\* Two lists, the second of greater members, are listed by their concatenation.
LEMMA ConcatLists ==
  ASSUME NEW c, NEW d, NEW S, NEW T, Lists(c, S), Lists(d, T), \A i \in S, j \in T : i < j
  PROVE  Lists(c \o d, S \cup T)
<1> DEFINE m == Len(c)
           n == Len(d)
           e == c \o d
<1>1. /\ m \in Nat /\ n \in Nat /\ c \in Seq(Nat) /\ d \in Seq(Nat)
      /\ DOMAIN c = 1 .. m /\ DOMAIN d = 1 .. n
      /\ \A k \in 1 .. m : c[k] \in Nat /\ c[k] \in S
      /\ \A k \in 1 .. n : d[k] \in Nat /\ d[k] \in T
  <2>1. c \in Seq(Nat) /\ d \in Seq(Nat)
    BY DEF Lists
  <2>2. m \in Nat /\ n \in Nat /\ DOMAIN c = 1 .. m /\ DOMAIN d = 1 .. n
    BY <2>1, LenProperties
  <2>3. \A k \in DOMAIN c : c[k] \in S
    BY DEF Lists
  <2>4. \A k \in DOMAIN d : d[k] \in T
    BY DEF Lists
  <2>5. (\A k \in 1 .. m : c[k] \in Nat) /\ \A k \in 1 .. n : d[k] \in Nat
    BY <2>1, ElementOfSeq
  <2> QED
    BY <2>1, <2>2, <2>3, <2>4, <2>5
<1>2. /\ e \in Seq(Nat) /\ Len(e) = m + n
      /\ \A k \in 1 .. (m + n) : e[k] = IF k <= m THEN c[k] ELSE d[k - m]
  BY <1>1, ConcatProperties
<1> HIDE DEF m, n, e
<1>3. DOMAIN e = 1 .. (m + n)
  BY <1>2, LenProperties
<1>4. ASSUME NEW k \in 1 .. (m + n)
      PROVE  \/ k \in 1 .. m /\ e[k] = c[k]
             \/ k - m \in 1 .. n /\ e[k] = d[k - m] /\ ~ (k <= m)
  <2>1. k \in 1 .. m \/ (k - m \in 1 .. n /\ ~ (k <= m))
    BY <1>1
  <2> QED
    BY <2>1, <1>1, <1>2
<1>5. ASSUME NEW k \in 1 .. m PROVE k \in 1 .. (m + n) /\ e[k] = c[k]
  BY <1>1, <1>2
<1>6. ASSUME NEW k \in 1 .. n PROVE k + m \in 1 .. (m + n) /\ e[k + m] = d[k]
  <2>1. k + m \in 1 .. (m + n) /\ ~ (k + m <= m) /\ (k + m) - m = k
    BY <1>1
  <2> QED
    BY <2>1, <1>2
<1>7. {e[k] : k \in DOMAIN e} = S \cup T
  <2>1. \A x \in S : \E k \in 1 .. m : c[k] = x
    BY <1>1 DEF Lists
  <2>2. \A x \in T : \E k \in 1 .. n : d[k] = x
    BY <1>1 DEF Lists
  <2>3. \A k \in DOMAIN e : e[k] \in S \cup T
    BY <1>1, <1>3, <1>4
  <2>4. \A x \in S : \E k \in DOMAIN e : e[k] = x
    BY <2>1, <1>3, <1>5
  <2>5. \A x \in T : \E k \in DOMAIN e : e[k] = x
    BY <2>2, <1>3, <1>6
  <2> QED
    BY <2>3, <2>4, <2>5
<1>8. ASSUME NEW k \in 1 .. (m + n), NEW l \in 1 .. (m + n), k < l PROVE e[k] < e[l]
  <2>1. CASE k \in 1 .. m /\ l \in 1 .. m
    <3>1. c[k] < c[l]
      BY <2>1, <1>1, <1>8 DEF Lists
    <3> QED
      BY <3>1, <2>1, <1>5
  <2>2. CASE k \in 1 .. m /\ l - m \in 1 .. n /\ e[l] = d[l - m]
    BY <2>2, <1>1, <1>5
  <2>3. CASE /\ k - m \in 1 .. n /\ e[k] = d[k - m]
             /\ l - m \in 1 .. n /\ e[l] = d[l - m]
    <3>1. k - m < l - m
      BY <1>1, <1>8
    <3>2. d[k - m] < d[l - m]
      BY <2>3, <3>1, <1>1 DEF Lists
    <3> QED
      BY <2>3, <3>2
  <2>4. ~ (~ (k <= m) /\ l \in 1 .. m)
    BY <1>1, <1>8
  <2> QED
    BY <2>1, <2>2, <2>3, <2>4, <1>4
<1> QED
  BY <1>2, <1>3, <1>7, <1>8 DEF Lists, e

\* A greater member is listed by appending it.
LEMMA AppendLists ==
  ASSUME NEW c, NEW S, Lists(c, S), NEW i \in Nat, \A j \in S : j < i
  PROVE  Lists(Append(c, i), S \cup {i})
<1>1. Lists(<<i>>, {i})
  BY DEF Lists
<1>2. Lists(c \o <<i>>, S \cup {i})
  BY <1>1, ConcatLists
<1>3. c \o <<i>> = Append(c, i)
  BY AppendIsConcat DEF Lists
<1> QED
  BY <1>2, <1>3

-------------------------------------------------------------------------------
(* Statistics of a set of cells: record_outcome and merge.                   *)

\* What statistics are made of.
Histograms == UNION {[plies -> Nat] : plies \in SUBSET Nat}
Tally == [draw : Nat, redundant : Nat, resolved : [Sides -> Nat],
          histograms : [Sides -> Histograms], candidates : [Sides -> Seq(Nat)]]

\* A histogram with one more entry, and two of them together, are histograms.
LEMMA HistogramsClosed ==
  ASSUME NEW h \in Histograms
  PROVE  /\ \A n \in Nat : Bump(h, n) \in Histograms
         /\ \A g \in Histograms : Added(h, g) \in Histograms
<1>1. PICK D \in SUBSET Nat : h \in [D -> Nat]
  BY DEF Histograms
<1>2. \A n : Counted(h, n) \in Nat
  BY <1>1 DEF Counted
<1>3. ASSUME NEW n \in Nat PROVE Bump(h, n) \in Histograms
  <2>1. Counted(h, n) + 1 \in Nat
    BY <1>2
  <2>2. Bump(h, n) \in [D \cup {n} -> Nat]
    BY <1>1, <2>1 DEF Bump, With
  <2>3. D \cup {n} \in SUBSET Nat
    OBVIOUS
  <2> QED
    BY <2>2, <2>3 DEF Histograms
<1>4. ASSUME NEW g \in Histograms PROVE Added(h, g) \in Histograms
  <2>1. PICK E \in SUBSET Nat : g \in [E -> Nat]
    BY DEF Histograms
  <2>2. \A n : Counted(g, n) \in Nat
    BY <2>1 DEF Counted
  <2>3. \A n : Counted(h, n) + Counted(g, n) \in Nat
    BY <1>2, <2>2
  <2>4. Added(h, g) \in [D \cup E -> Nat]
    BY <1>1, <2>1, <2>3 DEF Added
  <2>5. D \cup E \in SUBSET Nat
    OBVIOUS
  <2> QED
    BY <2>4, <2>5 DEF Histograms
<1> QED
  BY <1>3, <1>4

\* What recording a cell does to each part of the statistics.
LEMMA RecordIs ==
  ASSUME solved \in [1 .. Length -> Outcomes], NEW s \in Tally, NEW i \in 1 .. Length
  PROVE  LET r == record_outcome(s, i)
             v == Final(i)
             here(side) == ~ Redundant(i) /\ v.kind = side
         IN /\ r \in Tally
            /\ r.draw = IF here("draw") THEN s.draw + 1 ELSE s.draw
            /\ r.redundant = IF Redundant(i) THEN s.redundant + 1 ELSE s.redundant
            /\ \A side \in Sides :
                 /\ r.resolved[side] =
                      IF here(side) THEN s.resolved[side] + 1 ELSE s.resolved[side]
                 /\ r.histograms[side] =
                      IF here(side) THEN Bump(s.histograms[side], v.n) ELSE s.histograms[side]
                 /\ r.candidates[side] =
                      IF here(side) /\ Candidate(v) THEN Append(s.candidates[side], i)
                      ELSE s.candidates[side]
<1> DEFINE r == record_outcome(s, i)
           v == Final(i)
           here(side) == ~ Redundant(i) /\ v.kind = side
           k == v.kind
           e == [s EXCEPT !.resolved[k] = @ + 1,
                          !.histograms[k] = Bump(@, v.n),
                          !.candidates[k] = IF Candidate(v) THEN Append(@, i) ELSE @]
<1>1. /\ r = IF Redundant(i) THEN [s EXCEPT !.redundant = @ + 1]
             ELSE IF k = "draw" THEN [s EXCEPT !.draw = @ + 1]
             ELSE IF ~ IsResolved(v) THEN s ELSE e
      /\ k \in {"invalid", "draw", "win", "loss"} /\ v.n \in Nat
      /\ IsResolved(v) <=> k \in Sides
  <2>1. /\ Decode(Finalized(i)) = v /\ k \in {"invalid", "draw", "win", "loss"} /\ v.n \in Nat
        /\ IsResolved(v) <=> k \in Sides
    BY FinalIs
  <2>2. r = LET d == Decode(Finalized(i))
            IN IF Redundant(i) THEN [s EXCEPT !.redundant = @ + 1]
               ELSE IF d.kind = "draw" THEN [s EXCEPT !.draw = @ + 1]
               ELSE IF ~ IsResolved(d) THEN s
               ELSE [s EXCEPT !.resolved[d.kind] = @ + 1,
                              !.histograms[d.kind] = Bump(@, d.n),
                              !.candidates[d.kind] = IF Candidate(d) THEN Append(@, i) ELSE @]
    BY DEF record_outcome
  <2> HIDE DEF r, v
  <2> QED
    BY <2>1, <2>2
<1>2. i \in Nat
  BY FileAssumption
<1>a. /\ s.draw \in Nat /\ s.redundant \in Nat /\ s.resolved \in [Sides -> Nat]
      /\ s.histograms \in [Sides -> Histograms] /\ s.candidates \in [Sides -> Seq(Nat)]
      /\ s = [draw |-> s.draw, redundant |-> s.redundant, resolved |-> s.resolved,
              histograms |-> s.histograms, candidates |-> s.candidates]
  BY DEF Tally
<1> HIDE DEF r, v
<1>3. CASE Redundant(i)
  <2>1. r = [draw |-> s.draw, redundant |-> s.redundant + 1, resolved |-> s.resolved,
             histograms |-> s.histograms, candidates |-> s.candidates]
    BY <1>a, <1>1, <1>3
  <2>2. r \in Tally
    BY <2>1, <1>a DEF Tally
  <2> QED
    BY <2>1, <2>2, <1>3 DEF r, v
<1>4. CASE ~ Redundant(i) /\ k = "draw"
  <2>1. r = [draw |-> s.draw + 1, redundant |-> s.redundant, resolved |-> s.resolved,
             histograms |-> s.histograms, candidates |-> s.candidates]
    BY <1>a, <1>1, <1>4
  <2>2. r \in Tally
    BY <2>1, <1>a DEF Tally
  <2>3. k \notin Sides
    BY <1>4 DEF Sides
  <2> QED
    BY <2>1, <2>2, <2>3, <1>4 DEF r, v
<1>5. CASE ~ Redundant(i) /\ k = "invalid"
  <2>1. k \notin Sides /\ k # "draw"
    BY <1>5 DEF Sides
  <2>2. r = s
    BY <2>1, <1>1, <1>5
  <2> QED
    BY <2>1, <2>2, <1>5 DEF r, v
<1>6. CASE ~ Redundant(i) /\ k \in Sides
  <2>1. k # "draw" /\ r = e
    BY <1>1, <1>6 DEF Sides
  <2> HIDE DEF k
  <2> DEFINE res == [s.resolved EXCEPT ![k] = @ + 1]
             his == [s.histograms EXCEPT ![k] = Bump(@, v.n)]
             can == [s.candidates EXCEPT ![k] = IF Candidate(v) THEN Append(@, i) ELSE @]
  <2>2. /\ s.draw \in Nat /\ s.redundant \in Nat /\ s.resolved \in [Sides -> Nat]
        /\ s.histograms \in [Sides -> Histograms] /\ s.candidates \in [Sides -> Seq(Nat)]
        /\ s = [draw |-> s.draw, redundant |-> s.redundant, resolved |-> s.resolved,
                histograms |-> s.histograms, candidates |-> s.candidates]
    BY <1>a
  <2>3. r = [draw |-> s.draw, redundant |-> s.redundant, resolved |-> res,
             histograms |-> his, candidates |-> can]
    BY <2>1, <2>2
  <2>4. /\ res \in [Sides -> Nat]
        /\ \A side \in Sides : res[side] = IF side = k THEN s.resolved[side] + 1
                                           ELSE s.resolved[side]
    <3>1. s.resolved[k] + 1 \in Nat
      BY <2>2, <1>6
    <3> QED
      BY <3>1, <2>2, <1>6
  <2>5. /\ his \in [Sides -> Histograms]
        /\ \A side \in Sides : his[side] = IF side = k THEN Bump(s.histograms[side], v.n)
                                           ELSE s.histograms[side]
    <3>1. s.histograms[k] \in Histograms
      BY <2>2, <1>6
    <3>2. Bump(s.histograms[k], v.n) \in Histograms
      BY <3>1, <1>1, HistogramsClosed
    <3> QED
      BY <3>2, <2>2, <1>6
  <2>6. /\ can \in [Sides -> Seq(Nat)]
        /\ \A side \in Sides : can[side] = IF side = k /\ Candidate(v)
                                           THEN Append(s.candidates[side], i)
                                           ELSE s.candidates[side]
    <3>1. s.candidates[k] \in Seq(Nat)
      BY <2>2, <1>6
    <3>2. Append(s.candidates[k], i) \in Seq(Nat)
      BY <3>1, <1>2, AppendProperties
    <3> QED
      BY <3>2, <2>2, <1>6
  <2> HIDE DEF res, his, can
  <2>7. r \in Tally
    BY <2>2, <2>3, <2>4, <2>5, <2>6 DEF Tally
  <2>8. /\ r.draw = s.draw /\ r.redundant = s.redundant /\ r.resolved = res
        /\ r.histograms = his /\ r.candidates = can
    BY <2>3
  <2>9. \A side : here(side) <=> side = k
    BY <1>6 DEF k
  <2>10. ~ here("draw")
    BY <2>1, <2>9
  <2> HIDE DEF here
  <2>11. /\ r.draw = IF here("draw") THEN s.draw + 1 ELSE s.draw
         /\ r.redundant = IF Redundant(i) THEN s.redundant + 1 ELSE s.redundant
    BY <2>8, <2>10, <1>6
  <2>12. \A side \in Sides :
           /\ r.resolved[side] =
                IF here(side) THEN s.resolved[side] + 1 ELSE s.resolved[side]
           /\ r.histograms[side] =
                IF here(side) THEN Bump(s.histograms[side], v.n) ELSE s.histograms[side]
           /\ r.candidates[side] =
                IF here(side) /\ Candidate(v) THEN Append(s.candidates[side], i)
                ELSE s.candidates[side]
    BY <2>4, <2>5, <2>6, <2>8, <2>9
  <2> QED
    BY <2>7, <2>11, <2>12 DEF r, v, here
<1> QED
  BY <1>1, <1>3, <1>4, <1>5, <1>6 DEF Sides

\* The cells of a set of indices that count as this kind, and the deepest of these.
Plies == [i \in 1 .. Length |-> Final(i).n]
Of(kind, I) == {i \in I : ~ Redundant(i) /\ Final(i).kind = kind}
Longest(kind, I) == {i \in Of(kind, I) : Deepest(i) /\ (kind = "win" => Final(i).n # 0)}
Halves(I) == {i \in I : Redundant(i)}

\* s are the statistics of the cells of I.
SideTallied(s, side, I) ==
  /\ s.resolved[side] = Cardinality(Of(side, I))
  /\ Counts(s.histograms[side], Of(side, I), Plies)
  /\ Lists(s.candidates[side], Longest(side, I))
Tallied(s, I) ==
  /\ s \in Tally
  /\ s.draw = Cardinality(Of("draw", I)) /\ s.redundant = Cardinality(Halves(I))
  /\ \A side \in Sides : SideTallied(s, side, I)

\* There are none of no cells.
LEMMA NoneTallied == Tallied(NoStats, {})
<1>1. /\ NoStats.draw = 0 /\ NoStats.redundant = 0
      /\ \A side \in Sides : /\ NoStats.resolved[side] = 0 /\ NoStats.histograms[side] = <<>>
                             /\ NoStats.candidates[side] = <<>>
  BY DEF NoStats
<1>2. (\A kind : Of(kind, {}) = {} /\ Longest(kind, {}) = {}) /\ Halves({}) = {}
  BY DEF Of, Longest, Halves
<1>3. NoStats \in Tally
  <2>1. <<>> \in Histograms
    <3>1. <<>> \in [{} -> Nat]
      OBVIOUS
    <3> QED
      BY <3>1 DEF Histograms
  <2>2. <<>> \in Seq(Nat)
    BY EmptySeq
  <2> QED
    BY <2>1, <2>2 DEF NoStats, Tally
<1>4. Counts(<<>>, {}, Plies) /\ Lists(<<>>, {})
  <2>1. <<>> \in Seq(Nat) /\ DOMAIN <<>> = {}
    BY EmptySeq
  <2> QED
    BY <2>1 DEF Counts, Lists
<1> QED
  BY <1>1, <1>2, <1>3, <1>4, FS_EmptySet DEF Tallied, SideTallied

\* Recording the next cell makes the statistics of the cells up to it.
LEMMA RecordTallied ==
  ASSUME solved \in [1 .. Length -> Outcomes],
         NEW I, I \subseteq 1 .. Length, NEW i \in 1 .. Length, \A j \in I : j < i,
         NEW s, Tallied(s, I)
  PROVE  Tallied(record_outcome(s, i), I \cup {i})
<1> DEFINE r == record_outcome(s, i)
           v == Final(i)
           here(side) == ~ Redundant(i) /\ v.kind = side
           J == I \cup {i}
<1>1. /\ r \in Tally
      /\ r.draw = IF here("draw") THEN s.draw + 1 ELSE s.draw
      /\ r.redundant = IF Redundant(i) THEN s.redundant + 1 ELSE s.redundant
      /\ \A side \in Sides :
           /\ r.resolved[side] = IF here(side) THEN s.resolved[side] + 1 ELSE s.resolved[side]
           /\ r.histograms[side] = IF here(side) THEN Bump(s.histograms[side], v.n)
                                   ELSE s.histograms[side]
           /\ r.candidates[side] = IF here(side) /\ Candidate(v)
                                   THEN Append(s.candidates[side], i)
                                   ELSE s.candidates[side]
  BY RecordIs DEF Tallied
<1>2. i \notin I /\ i \in Nat /\ \A j \in I : j \in Nat
  BY FileAssumption
<1>3. IsFiniteSet(I)
  <2>1. IsFiniteSet(1 .. Length)
    BY FileAssumption, FS_Interval
  <2> QED
    BY <2>1, FS_Subset
<1>4. \A kind : IsFiniteSet(Of(kind, I)) /\ i \notin Of(kind, I)
  <2>1. \A kind : Of(kind, I) \subseteq I
    BY DEF Of
  <2> QED
    BY <2>1, <1>2, <1>3, FS_Subset
<1>5. \A kind : Of(kind, J) = IF here(kind) THEN Of(kind, I) \cup {i} ELSE Of(kind, I)
  BY DEF Of
<1>6. Halves(J) = IF Redundant(i) THEN Halves(I) \cup {i} ELSE Halves(I)
  BY DEF Halves
<1>7. IsFiniteSet(Halves(I)) /\ i \notin Halves(I)
  <2>1. Halves(I) \subseteq I
    BY DEF Halves
  <2> QED
    BY <2>1, <1>2, <1>3, FS_Subset
<1> HIDE DEF r, v, here, J
<1>8. r.draw = Cardinality(Of("draw", J))
  <2>1. s.draw = Cardinality(Of("draw", I))
    BY DEF Tallied
  <2>2. Cardinality(Of("draw", I) \cup {i}) = Cardinality(Of("draw", I)) + 1
    BY <1>4, FS_AddElement
  <2> QED
    BY <2>1, <2>2, <1>1, <1>5
<1>9. r.redundant = Cardinality(Halves(J))
  <2>1. s.redundant = Cardinality(Halves(I))
    BY DEF Tallied
  <2>2. Cardinality(Halves(I) \cup {i}) = Cardinality(Halves(I)) + 1
    BY <1>7, FS_AddElement
  <2> QED
    BY <2>1, <2>2, <1>1, <1>6
<1>10. ASSUME NEW side \in Sides PROVE SideTallied(r, side, J)
  <2>1. /\ s.resolved[side] = Cardinality(Of(side, I))
        /\ Counts(s.histograms[side], Of(side, I), Plies)
        /\ Lists(s.candidates[side], Longest(side, I))
    BY DEF Tallied, SideTallied
  <2>2. CASE ~ here(side)
    <3>1. Longest(side, J) = Longest(side, I)
      BY <2>2, <1>5 DEF Longest
    <3> QED
      BY <2>1, <2>2, <3>1, <1>1, <1>5 DEF SideTallied
  <2>3. CASE here(side)
    <3>1. Of(side, J) = Of(side, I) \cup {i}
      BY <2>3, <1>5
    <3>2. r.resolved[side] = Cardinality(Of(side, J))
      <4>1. Cardinality(Of(side, I) \cup {i}) = Cardinality(Of(side, I)) + 1
        BY <1>4, FS_AddElement
      <4> QED
        BY <4>1, <2>1, <2>3, <3>1, <1>1
    <3>3. Counts(r.histograms[side], Of(side, J), Plies)
      <4>1. Plies[i] = v.n
        BY DEF Plies, v
      <4>2. Counts(Bump(s.histograms[side], v.n), Of(side, I) \cup {i}, Plies)
        BY <4>1, <2>1, <1>4, BumpCounts
      <4> QED
        BY <4>2, <2>3, <3>1, <1>1
    <3>4. v.kind = side
      BY <2>3 DEF here
    <3>5. Candidate(v) <=> Deepest(i) /\ (side = "win" => v.n # 0)
      BY <3>4, CandidateIs DEF v
    <3>6. Longest(side, J) = IF Candidate(v) THEN Longest(side, I) \cup {i} ELSE Longest(side, I)
      BY <3>1, <3>5 DEF Longest, v
    <3>7. \A j \in Longest(side, I) : j < i
      BY DEF Longest, Of
    <3>8. Lists(r.candidates[side], Longest(side, J))
      <4>1. CASE Candidate(v)
        <5>1. Lists(Append(s.candidates[side], i), Longest(side, I) \cup {i})
          BY <2>1, <3>7, <1>2, AppendLists
        <5> QED
          BY <5>1, <4>1, <2>3, <3>6, <1>1
      <4>2. CASE ~ Candidate(v)
        BY <4>2, <2>1, <2>3, <3>6, <1>1
      <4> QED
        BY <4>1, <4>2
    <3> QED
      BY <3>2, <3>3, <3>8 DEF SideTallied
  <2> QED
    BY <2>2, <2>3
<1> QED
  BY <1>1, <1>8, <1>9, <1>10 DEF Tallied, r, J

\* The statistics of two sets of cells, one before the other, merge to those of both.
LEMMA MergeTallied ==
  ASSUME solved \in [1 .. Length -> Outcomes],
         NEW I, I \subseteq 1 .. Length, NEW J, J \subseteq 1 .. Length,
         \A i \in I, j \in J : i < j,
         NEW s, Tallied(s, I), NEW part, Tallied(part, J)
  PROVE  Tallied(merge(s, part), I \cup J)
<1> DEFINE r == merge(s, part)
           K == I \cup J
           his == [side \in Sides |-> Added(s.histograms[side], part.histograms[side])]
           can == [side \in Sides |-> s.candidates[side] \o part.candidates[side]]
           res == [side \in Sides |-> s.resolved[side] + part.resolved[side]]
<1>1. /\ s \in Tally /\ part \in Tally
      /\ s.draw = Cardinality(Of("draw", I)) /\ part.draw = Cardinality(Of("draw", J))
      /\ s.redundant = Cardinality(Halves(I)) /\ part.redundant = Cardinality(Halves(J))
  BY DEF Tallied
<1>2. r = [draw |-> s.draw + part.draw, redundant |-> s.redundant + part.redundant,
           resolved |-> res, histograms |-> his, candidates |-> can]
  BY DEF merge
<1> HIDE DEF r
<1>3. /\ s.draw \in Nat /\ s.redundant \in Nat /\ s.resolved \in [Sides -> Nat]
      /\ s.histograms \in [Sides -> Histograms] /\ s.candidates \in [Sides -> Seq(Nat)]
  BY <1>1 DEF Tally
<1>4. /\ part.draw \in Nat /\ part.redundant \in Nat /\ part.resolved \in [Sides -> Nat]
      /\ part.histograms \in [Sides -> Histograms] /\ part.candidates \in [Sides -> Seq(Nat)]
  BY <1>1 DEF Tally
<1>5. r \in Tally
  <2>1. s.draw + part.draw \in Nat /\ s.redundant + part.redundant \in Nat
    BY <1>3, <1>4
  <2>2. res \in [Sides -> Nat]
    BY <1>3, <1>4
  <2>3. his \in [Sides -> Histograms]
    BY <1>3, <1>4, HistogramsClosed
  <2>4. can \in [Sides -> Seq(Nat)]
    <3>1. ASSUME NEW side \in Sides
          PROVE  s.candidates[side] \o part.candidates[side] \in Seq(Nat)
      <4>1. s.candidates[side] \in Seq(Nat) /\ part.candidates[side] \in Seq(Nat)
        BY <1>3, <1>4
      <4> QED
        BY <4>1, ConcatProperties
    <3> QED
      BY <3>1
  <2> HIDE DEF res, his, can
  <2> QED
    BY <2>1, <2>2, <2>3, <2>4, <1>2 DEF Tally
<1>6. IsFiniteSet(I) /\ IsFiniteSet(J) /\ I \cap J = {}
  <2>1. IsFiniteSet(1 .. Length)
    BY FileAssumption, FS_Interval
  <2>2. \A i \in 1 .. Length : ~ (i < i)
    BY FileAssumption
  <2>3. IsFiniteSet(I) /\ IsFiniteSet(J)
    BY <2>1, FS_Subset
  <2> QED
    BY <2>2, <2>3
<1>7. ASSUME NEW A, A \subseteq I, NEW B, B \subseteq J
      PROVE  /\ IsFiniteSet(A) /\ IsFiniteSet(B) /\ A \cap B = {}
             /\ Cardinality(A \cup B) = Cardinality(A) + Cardinality(B)
  <2>1. IsFiniteSet(A) /\ IsFiniteSet(B)
    BY <1>6, <1>7, FS_Subset
  <2>2. A \cap B = {}
    BY <1>6, <1>7
  <2>3. Cardinality(A \cup B) = Cardinality(A) + Cardinality(B) - Cardinality(A \cap B)
    BY <2>1, FS_Union
  <2>4. Cardinality(A) \in Nat /\ Cardinality(B) \in Nat /\ Cardinality(A \cap B) = 0
    BY <2>1, <2>2, FS_CardinalityType, FS_EmptySet
  <2> QED
    BY <2>1, <2>2, <2>3, <2>4
<1>8. \A kind : /\ Of(kind, I) \subseteq I /\ Of(kind, J) \subseteq J
                /\ Of(kind, K) = Of(kind, I) \cup Of(kind, J)
                /\ Longest(kind, I) \subseteq I /\ Longest(kind, J) \subseteq J
                /\ Longest(kind, K) = Longest(kind, I) \cup Longest(kind, J)
  BY DEF Of, Longest
<1>9. Halves(I) \subseteq I /\ Halves(J) \subseteq J /\ Halves(K) = Halves(I) \cup Halves(J)
  BY DEF Halves
<1> HIDE DEF K
<1>10. r.draw = Cardinality(Of("draw", K)) /\ r.redundant = Cardinality(Halves(K))
  <2>1. Cardinality(Of("draw", K)) = Cardinality(Of("draw", I)) + Cardinality(Of("draw", J))
    BY <1>7, <1>8
  <2>2. Cardinality(Halves(K)) = Cardinality(Halves(I)) + Cardinality(Halves(J))
    BY <1>7, <1>9
  <2> QED
    BY <2>1, <2>2, <1>1, <1>2
<1>11. ASSUME NEW side \in Sides PROVE SideTallied(r, side, K)
  <2>1. /\ s.resolved[side] = Cardinality(Of(side, I))
        /\ Counts(s.histograms[side], Of(side, I), Plies)
        /\ Lists(s.candidates[side], Longest(side, I))
    BY DEF Tallied, SideTallied
  <2>2. /\ part.resolved[side] = Cardinality(Of(side, J))
        /\ Counts(part.histograms[side], Of(side, J), Plies)
        /\ Lists(part.candidates[side], Longest(side, J))
    BY DEF Tallied, SideTallied
  <2>3. /\ r.resolved[side] = s.resolved[side] + part.resolved[side]
        /\ r.histograms[side] = Added(s.histograms[side], part.histograms[side])
        /\ r.candidates[side] = s.candidates[side] \o part.candidates[side]
    BY <1>2
  <2>4. r.resolved[side] = Cardinality(Of(side, K))
    <3>1. Cardinality(Of(side, K)) = Cardinality(Of(side, I)) + Cardinality(Of(side, J))
      BY <1>7, <1>8
    <3> QED
      BY <3>1, <2>1, <2>2, <2>3
  <2>5. Counts(r.histograms[side], Of(side, K), Plies)
    <3>1. /\ IsFiniteSet(Of(side, I)) /\ IsFiniteSet(Of(side, J))
          /\ Of(side, I) \cap Of(side, J) = {}
      BY <1>7, <1>8
    <3>2. Counts(Added(s.histograms[side], part.histograms[side]),
                 Of(side, I) \cup Of(side, J), Plies)
      BY <3>1, <2>1, <2>2, AddedCounts
    <3> QED
      BY <3>2, <2>3, <1>8
  <2>6. Lists(r.candidates[side], Longest(side, K))
    <3>1. \A i \in Longest(side, I), j \in Longest(side, J) : i < j
      BY <1>8
    <3>2. Lists(s.candidates[side] \o part.candidates[side],
                Longest(side, I) \cup Longest(side, J))
      BY <3>1, <2>1, <2>2, ConcatLists
    <3> QED
      BY <3>2, <2>3, <1>8
  <2> QED
    BY <2>4, <2>5, <2>6 DEF SideTallied
<1> QED
  BY <1>5, <1>10, <1>11 DEF Tallied, r, K

-------------------------------------------------------------------------------
(* Statistics of a range of cells: one after the other, and part after part. *)

\* The statistics of the cells of a sequence of indices, recorded one after the other.
RecordAll(indices) == FoldLeft(record_outcome, NoStats, indices)

\* g records them at each set of positions: the function RecordAll is defined by.
Records(g, indices) ==
  g = [s \in SUBSET DOMAIN indices |->
         IF s = {} THEN NoStats ELSE record_outcome(g[s \ {Max(s)}], indices[Max(s)])]

\* The fold is that function's value at all positions.
LEMMA RecordAllUnfolded ==
  ASSUME NEW indices
  PROVE  RecordAll(indices) = (CHOOSE g : Records(g, indices))[DOMAIN indices]
BY DEF RecordAll, FoldLeft, MapThenFoldSet, Records

\* There is such a function.
LEMMA RecordsExist ==
  ASSUME solved \in [1 .. Length -> Outcomes], NEW indices \in Seq(1 .. Length)
  PROVE  \E g : Records(g, indices)
<1> DEFINE A == Tally
           X == 1 .. Length
           none == NoStats
           S(s) == [i \in X |-> record_outcome(s, i)]
           step == [s \in A |-> S(s)]
           n == Len(indices)
<1>1. n \in Nat /\ DOMAIN indices = 1 .. n /\ \A k \in 1 .. n : indices[k] \in X
  BY LenProperties, ElementOfSeq
<1>2. \A s \in A : \A i \in X : record_outcome(s, i) \in A
  BY RecordIs
<1>3. none \in A /\ indices \in Seq(X)
  BY NoneTallied DEF Tallied
<1> HIDE DEF A, X, none
<1>4. \A s \in A : S(s) \in [X -> A] /\ \A i \in X : S(s)[i] = record_outcome(s, i)
  BY <1>2
<1>5. step \in [A -> [X -> A]] /\ \A s \in A : step[s] = S(s)
  <2> HIDE DEF S
  <2> QED
    BY <1>4
<1>6. \A s \in A : \A i \in X : step[s][i] = record_outcome(s, i)
  <2> HIDE DEF S, step
  <2> QED
    BY <1>4, <1>5
<1> HIDE DEF step
<1>7. PICK g \in [SUBSET (1 .. Len(indices)) -> A] :
        FoldsAll(g, step, none, indices, Len(indices))
  BY <1>3, <1>5, FoldExists
<1>8. ASSUME NEW s \in SUBSET (1 .. n)
      PROVE  g[s] = IF s = {} THEN none ELSE record_outcome(g[s \ {Max(s)}], indices[Max(s)])
  <2>1. CASE s = {}
    BY <2>1, <1>7 DEF FoldsAll
  <2>2. CASE s # {}
    <3> DEFINE before == g[s \ {Max(s)}]
               i == indices[Max(s)]
    <3>1. Max(s) \in s
      BY <2>2, <1>1, MaxUpTo
    <3>2. i \in X /\ before \in A
      BY <3>1, <1>1, <1>7
    <3>3. g[s] = step[before][i]
      BY <2>2, <1>7 DEF FoldsAll
    <3> HIDE DEF before, i
    <3>4. g[s] = record_outcome(before, i)
      BY <3>2, <3>3, <1>6
    <3> QED
      BY <3>4, <2>2 DEF before, i
  <2> QED
    BY <2>1, <2>2
<1>9. Records(g, indices)
  <2>1. g = [s \in SUBSET (1 .. n) |-> g[s]]
    BY <1>7
  <2> QED
    BY <2>1, <1>1, <1>8 DEF Records, none
<1> QED
  BY <1>9

\* The statistics of a range of cells are what recording them in order makes.
LEMMA RecordAllTallied ==
  ASSUME solved \in [1 .. Length -> Outcomes],
         NEW x \in Nat, NEW n \in Nat, x + n <= Length,
         NEW indices, indices = [k \in 1 .. n |-> x + k]
  PROVE  Tallied(RecordAll(indices), (x + 1) .. (x + n))
<1> DEFINE g == CHOOSE g : Records(g, indices)
           D == {k \in 0 .. n : Tallied(g[1 .. k], (x + 1) .. (x + k))}
<1>0. Length \in Nat
  BY FileAssumption
<1>1. \A k \in 1 .. n : x + k \in 1 .. Length
  BY <1>0
<1>2. indices \in Seq(1 .. Length) /\ DOMAIN indices = 1 .. n
  BY <1>1
<1>3. Records(g, indices) /\ RecordAll(indices) = g[1 .. n]
  BY <1>2, RecordsExist, RecordAllUnfolded
<1> HIDE DEF g
<1>4. 0 \in D
  <2>1. {} \in SUBSET (1 .. n) /\ g[{}] = NoStats /\ 1 .. 0 = {} /\ 0 \in 0 .. n
    BY <1>2, <1>3 DEF Records
  <2>2. (x + 1) .. (x + 0) = {}
    OBVIOUS
  <2> QED
    BY <2>1, <2>2, NoneTallied
<1>5. ASSUME NEW k \in 1 .. n, k - 1 \in D PROVE k \in D
  <2>1. 1 .. k # {} /\ 1 .. k \in SUBSET (1 .. n) /\ k \in Nat \ {0} /\ k \in 0 .. n
    <3>1. k \in Nat \ {0} /\ k <= n /\ k \in 1 .. k /\ k \in 0 .. n
      OBVIOUS
    <3>2. \A i \in 1 .. k : i \in 1 .. n
      BY <3>1
    <3> HIDE DEF D
    <3> QED
      BY <3>1, <3>2
  <2>2. Max(1 .. k) = k /\ (1 .. k) \ {k} = 1 .. (k - 1) /\ indices[k] = x + k
    BY <2>1, RangeLast
  <2>3. g[1 .. k] = record_outcome(g[(1 .. k) \ {Max(1 .. k)}], indices[Max(1 .. k)])
    BY <2>1, <1>2, <1>3 DEF Records
  <2>4. g[1 .. k] = record_outcome(g[1 .. (k - 1)], x + k)
    BY <2>2, <2>3
  <2> DEFINE I == (x + 1) .. (x + (k - 1))
             i == x + k
  <2>5. Tallied(g[1 .. (k - 1)], I)
    BY <1>5
  <2>6. /\ i \in 1 .. Length /\ I \subseteq 1 .. Length /\ (\A j \in I : j < i)
        /\ I \cup {i} = (x + 1) .. (x + k)
    <3>1. i \in 1 .. Length
      BY <1>1
    <3>2. I \subseteq 1 .. Length
      BY <1>0, <2>1
    <3>3. \A j \in I : j < i
      BY <2>1
    <3>4. I \cup {i} = (x + 1) .. (x + k)
      BY <2>1
    <3> QED
      BY <3>1, <3>2, <3>3, <3>4
  <2> HIDE DEF I, i
  <2>7. Tallied(record_outcome(g[1 .. (k - 1)], i), I \cup {i})
    BY <2>5, <2>6, RecordTallied
  <2>8. Tallied(g[1 .. k], (x + 1) .. (x + k))
    BY <2>4, <2>6, <2>7 DEF i
  <2> QED
    BY <2>1, <2>8
<1>6. n \in D
  <2>1. n \in 0 .. n
    OBVIOUS
  <2> HIDE DEF D
  <2> QED
    BY <2>1, <1>4, <1>5, Climb
<1> QED
  BY <1>3, <1>6

-------------------------------------------------------------------------------

\* The statistics of the parts of a table, merged one after the other.
MergeAll(parts) == FoldLeft(LAMBDA s, part : merge(s, part.stats), NoStats, parts)

\* g merges them at each set of positions: the function MergeAll is defined by.
Merges(g, parts) ==
  g = [s \in SUBSET DOMAIN parts |->
         IF s = {} THEN NoStats ELSE merge(g[s \ {Max(s)}], parts[Max(s)].stats)]

\* The fold is that function's value at all positions.
LEMMA MergeAllUnfolded ==
  ASSUME NEW parts
  PROVE  MergeAll(parts) = (CHOOSE g : Merges(g, parts))[DOMAIN parts]
BY DEF MergeAll, FoldLeft, MapThenFoldSet, Merges

\* Merged statistics are statistics.
LEMMA MergeTyped ==
  ASSUME NEW s \in Tally, NEW part \in Tally PROVE merge(s, part) \in Tally
<1> DEFINE his == [side \in Sides |-> Added(s.histograms[side], part.histograms[side])]
           can == [side \in Sides |-> s.candidates[side] \o part.candidates[side]]
           res == [side \in Sides |-> s.resolved[side] + part.resolved[side]]
<1>1. merge(s, part) = [draw |-> s.draw + part.draw, redundant |-> s.redundant + part.redundant,
                        resolved |-> res, histograms |-> his, candidates |-> can]
  BY DEF merge
<1>2. /\ s.draw \in Nat /\ s.redundant \in Nat /\ s.resolved \in [Sides -> Nat]
      /\ s.histograms \in [Sides -> Histograms] /\ s.candidates \in [Sides -> Seq(Nat)]
  BY DEF Tally
<1>3. /\ part.draw \in Nat /\ part.redundant \in Nat /\ part.resolved \in [Sides -> Nat]
      /\ part.histograms \in [Sides -> Histograms] /\ part.candidates \in [Sides -> Seq(Nat)]
  BY DEF Tally
<1>4. s.draw + part.draw \in Nat /\ s.redundant + part.redundant \in Nat
  BY <1>2, <1>3
<1>5. res \in [Sides -> Nat]
  BY <1>2, <1>3
<1>6. his \in [Sides -> Histograms]
  BY <1>2, <1>3, HistogramsClosed
<1>7. can \in [Sides -> Seq(Nat)]
  <2>1. ASSUME NEW side \in Sides
        PROVE  s.candidates[side] \o part.candidates[side] \in Seq(Nat)
    <3>1. s.candidates[side] \in Seq(Nat) /\ part.candidates[side] \in Seq(Nat)
      BY <1>2, <1>3
    <3> QED
      BY <3>1, ConcatProperties
  <2> QED
    BY <2>1
<1> HIDE DEF res, his, can
<1> QED
  BY <1>1, <1>4, <1>5, <1>6, <1>7 DEF Tally

\* The parts' statistics are those of n ranges of cells, each after the one before it.
Parts(parts, n, pre) ==
  /\ n \in Nat /\ DOMAIN parts = 1 .. n
  /\ pre \in [0 .. n -> 0 .. Length] /\ pre[0] = 0
  /\ \A b \in 1 .. n : /\ pre[b - 1] <= pre[b]
                       /\ Tallied(parts[b].stats, (pre[b - 1] + 1) .. pre[b])

\* There is such a function.
LEMMA MergesExist ==
  ASSUME NEW parts, NEW n, NEW pre, Parts(parts, n, pre) PROVE \E g : Merges(g, parts)
<1> DEFINE A == Tally
           X == Tally
           none == NoStats
           S(s) == [part \in X |-> merge(s, part)]
           step == [s \in A |-> S(s)]
           seq == [b \in 1 .. n |-> parts[b].stats]
<1>1. n \in Nat /\ DOMAIN parts = 1 .. n /\ \A b \in 1 .. n : parts[b].stats \in X
  BY DEF Parts, Tallied
<1>2. seq \in Seq(X) /\ Len(seq) = n /\ \A b \in 1 .. n : seq[b] = parts[b].stats
  <2> HIDE DEF X
  <2> QED
    BY <1>1
<1>3. \A s \in A : \A part \in X : merge(s, part) \in A
  BY MergeTyped
<1>4. none \in A
  BY NoneTallied DEF Tallied
<1> HIDE DEF A, X, none
<1>5. \A s \in A : S(s) \in [X -> A] /\ \A part \in X : S(s)[part] = merge(s, part)
  BY <1>3
<1>6. step \in [A -> [X -> A]] /\ \A s \in A : step[s] = S(s)
  <2> HIDE DEF S
  <2> QED
    BY <1>5
<1>7. \A s \in A : \A part \in X : step[s][part] = merge(s, part)
  <2> HIDE DEF S, step
  <2> QED
    BY <1>5, <1>6
<1> HIDE DEF step, seq
<1>8. PICK g \in [SUBSET (1 .. Len(seq)) -> A] : FoldsAll(g, step, none, seq, Len(seq))
  BY <1>2, <1>4, <1>6, FoldExists
<1>9. ASSUME NEW s \in SUBSET (1 .. n)
      PROVE  g[s] = IF s = {} THEN none ELSE merge(g[s \ {Max(s)}], parts[Max(s)].stats)
  <2>1. CASE s = {}
    BY <2>1, <1>2, <1>8 DEF FoldsAll
  <2>2. CASE s # {}
    <3> DEFINE before == g[s \ {Max(s)}]
               part == seq[Max(s)]
    <3>1. Max(s) \in s
      BY <2>2, <1>1, MaxUpTo
    <3>2. part \in X /\ before \in A /\ part = parts[Max(s)].stats
      BY <3>1, <1>1, <1>2, <1>8
    <3>3. g[s] = step[before][part]
      BY <2>2, <1>2, <1>8 DEF FoldsAll
    <3> HIDE DEF before, part
    <3>4. g[s] = merge(before, part)
      BY <3>2, <3>3, <1>7
    <3> QED
      BY <3>2, <3>4, <2>2 DEF before
  <2> QED
    BY <2>1, <2>2
<1>10. Merges(g, parts)
  <2>1. g = [s \in SUBSET (1 .. n) |-> g[s]]
    BY <1>2, <1>8
  <2> QED
    BY <2>1, <1>1, <1>9 DEF Merges, none
<1> QED
  BY <1>10

\* Merging the parts in order makes the statistics of all their cells.
LEMMA MergeAllTallied ==
  ASSUME solved \in [1 .. Length -> Outcomes],
         NEW parts, NEW n, NEW pre, Parts(parts, n, pre)
  PROVE  Tallied(MergeAll(parts), 1 .. pre[n])
<1> DEFINE g == CHOOSE g : Merges(g, parts)
           D == {b \in 0 .. n : Tallied(g[1 .. b], 1 .. pre[b])}
<1>1. /\ n \in Nat /\ DOMAIN parts = 1 .. n /\ pre[0] = 0 /\ pre \in [0 .. n -> 0 .. Length]
      /\ Length \in Nat
  BY FileAssumption DEF Parts
<1>2. Merges(g, parts) /\ MergeAll(parts) = g[1 .. n]
  BY <1>1, MergesExist, MergeAllUnfolded
<1> HIDE DEF g
<1>3. 0 \in D
  <2>1. {} \in SUBSET (1 .. n) /\ g[{}] = NoStats /\ 1 .. 0 = {} /\ 0 \in 0 .. n
    BY <1>1, <1>2 DEF Merges
  <2>2. 1 .. pre[0] = {}
    BY <1>1
  <2> QED
    BY <2>1, <2>2, NoneTallied
<1>4. ASSUME NEW b \in 1 .. n, b - 1 \in D PROVE b \in D
  <2>1. 1 .. b # {} /\ 1 .. b \in SUBSET (1 .. n) /\ b \in Nat \ {0} /\ b \in 0 .. n
        /\ b - 1 \in 0 .. n
    <3>1. b \in Nat \ {0} /\ b <= n /\ b \in 1 .. b /\ b - 1 \in 0 .. n
      BY <1>1
    <3>2. \A i \in 1 .. b : i \in 1 .. n
      BY <3>1, <1>1
    <3> QED
      BY <3>1, <3>2
  <2>2. Max(1 .. b) = b /\ (1 .. b) \ {b} = 1 .. (b - 1)
    BY <2>1, RangeLast
  <2>3. g[1 .. b] = merge(g[(1 .. b) \ {Max(1 .. b)}], parts[Max(1 .. b)].stats)
    BY <2>1, <1>1, <1>2 DEF Merges
  <2>4. g[1 .. b] = merge(g[1 .. (b - 1)], parts[b].stats)
    BY <2>2, <2>3
  <2> DEFINE x == pre[b - 1]
             y == pre[b]
             I == 1 .. x
             J == (x + 1) .. y
  <2>5. Tallied(g[1 .. (b - 1)], I)
    BY <1>4
  <2>6. x <= y /\ Tallied(parts[b].stats, J)
    BY DEF Parts
  <2>7. x \in 0 .. Length /\ y \in 0 .. Length
    BY <2>1, <1>1
  <2> HIDE DEF x, y
  <2>8. /\ I \subseteq 1 .. Length /\ J \subseteq 1 .. Length
        /\ (\A i \in I, j \in J : i < j) /\ I \cup J = 1 .. y
    BY <2>6, <2>7, <1>1
  <2> HIDE DEF I, J
  <2>9. Tallied(merge(g[1 .. (b - 1)], parts[b].stats), I \cup J)
    BY <2>5, <2>6, <2>8, MergeTallied
  <2>10. Tallied(g[1 .. b], 1 .. pre[b])
    BY <2>4, <2>8, <2>9 DEF y
  <2> QED
    BY <2>1, <2>10
<1>5. n \in D
  <2>1. n \in 0 .. n
    BY <1>1
  <2> HIDE DEF D
  <2> QED
    BY <2>1, <1>1, <1>3, <1>4, Climb
<1> QED
  BY <1>2, <1>5

-------------------------------------------------------------------------------
(* Statistics of the table: their inductive invariant and the theorem.       *)

\* The indices of the first b batches.
IndexUpTo(b) == Least(b * BatchSize(threads), Length)

\* The n batches cover the indices: each begins where the one before it ends, and has some.
Ranged(n) ==
  /\ n \in Nat \ {0} /\ Batches(threads) = 1 .. n
  /\ IndexUpTo(0) = 0 /\ IndexUpTo(n) = Length
  /\ \A b \in 1 .. n : /\ IndexUpTo(b - 1) = (b - 1) * BatchSize(threads)
                       /\ IndexUpTo(b - 1) \in Nat /\ IndexUpTo(b) \in Nat
                       /\ IndexUpTo(b - 1) < IndexUpTo(b) /\ IndexUpTo(b) <= Length

\* They do.
LEMMA RangesCover ==
  ASSUME threads \in Nat \ {0} PROVE \E n : Ranged(n)
<1> DEFINE B == BatchSize(threads)
           n == Ceiling(Length, B)
<1>1. Length \in Nat \ {0} /\ B \in Nat \ {0}
  BY FileAssumption, BatchesCover
<1> HIDE DEF B
<1>2. n \in Nat \ {0} /\ (n - 1) * B < Length /\ Length <= n * B
  BY <1>1, CeilingIs
<1>3. Batches(threads) = 1 .. n
  BY DEF Batches, B
<1> HIDE DEF n
<1>4. IndexUpTo(0) = 0 /\ IndexUpTo(n) = Length
  <2>1. 0 * B = 0 /\ n * B \in Nat
    BY <1>1, <1>2
  <2>2. Least(0, Length) = 0 /\ Least(n * B, Length) = Length
    BY <2>1, <1>1, <1>2 DEF Least
  <2> QED
    BY <2>1, <2>2 DEF IndexUpTo, B
<1>5. ASSUME NEW b \in 1 .. n
      PROVE  /\ IndexUpTo(b - 1) = (b - 1) * B
             /\ IndexUpTo(b - 1) \in Nat /\ IndexUpTo(b) \in Nat
             /\ IndexUpTo(b - 1) < IndexUpTo(b) /\ IndexUpTo(b) <= Length
  <2> DEFINE m == (b - 1) * B
  <2>1. b - 1 \in Nat /\ n - 1 \in Nat /\ b - 1 <= n - 1
    BY <1>2
  <2>2. m \in Nat /\ b * B = m + B
    BY <2>1, <1>1
  <2>3. m < Length
    <3>1. m <= (n - 1) * B
      BY <2>1, <1>1, MultiplesOrdered
    <3>2. (n - 1) * B \in Nat
      BY <2>1, <1>1
    <3> HIDE DEF m
    <3> QED
      BY <3>1, <3>2, <2>2, <1>1, <1>2
  <2>4. IndexUpTo(b - 1) = Least(m, Length) /\ IndexUpTo(b) = Least(m + B, Length)
    BY <2>2 DEF IndexUpTo, B
  <2> HIDE DEF m
  <2>5. Least(m, Length) = m
    BY <2>2, <2>3, <1>1 DEF Least
  <2>6. /\ Least(m + B, Length) \in Nat /\ m < Least(m + B, Length)
        /\ Least(m + B, Length) <= Length
    BY <2>2, <2>3, <1>1 DEF Least
  <2> QED
    BY <2>2, <2>4, <2>5, <2>6 DEF m
<1>6. Ranged(n)
  BY <1>2, <1>3, <1>4, <1>5 DEF Ranged, B
<1> QED
  BY <1>6

\* s are the statistics of the cells of batch b.
BatchTallied(b, s) == Tallied(s, (IndexUpTo(b - 1) + 1) .. IndexUpTo(b))

\* A batch makes them.
LEMMA BatchStatsTallied ==
  ASSUME GivenInv, NEW b \in Batches(threads)
  PROVE  BatchTallied(b, finalize_batch(b).stats)
<1> DEFINE from == (b - 1) * BatchSize(threads) + 1
           to == Least(b * BatchSize(threads), Length)
           x == IndexUpTo(b - 1)
           y == IndexUpTo(b)
           n == y - x
           indices == [k \in 1 .. n |-> x + k]
<1>1. PICK m : Ranged(m)
  BY RangesCover DEF GivenInv
<1>2. b \in 1 .. m
  BY <1>1 DEF Ranged
<1>3. /\ x \in Nat /\ y \in Nat /\ x < y /\ y <= Length
      /\ from = x + 1 /\ to = y
  <2>1. x = (b - 1) * BatchSize(threads) /\ x \in Nat /\ y \in Nat /\ x < y /\ y <= Length
    BY <1>1, <1>2 DEF Ranged
  <2>2. to = y
    BY DEF IndexUpTo
  <2> HIDE DEF x, y
  <2>3. from = x + 1
    BY <2>1
  <2> QED
    BY <2>1, <2>2, <2>3
<1>4. finalize_batch(b).stats =
        FoldLeft(record_outcome, NoStats, [k \in 1 .. to - from + 1 |-> from + k - 1])
  BY DEF finalize_batch
<1> HIDE DEF from, to, x, y
<1>5. to - from + 1 = n /\ \A k \in 1 .. n : from + k - 1 = x + k
  BY <1>3
<1>6. [k \in 1 .. to - from + 1 |-> from + k - 1] = indices
  <2> HIDE DEF n
  <2> QED
    BY <1>5
<1>7. finalize_batch(b).stats = RecordAll(indices)
  BY <1>4, <1>6 DEF RecordAll
<1>8. n \in Nat /\ x + n = y /\ FileAssumption
  BY <1>3, FileAssumption
<1> HIDE DEF n
<1>9. Tallied(RecordAll(indices), (x + 1) .. (x + n))
  <2>1. x + n <= Length
    BY <1>3, <1>8
  <2> QED
    BY <2>1, <1>3, <1>8, RecordAllTallied DEF GivenInv
<1> QED
  BY <1>7, <1>8, <1>9 DEF BatchTallied, x, y

\* The statistics of some cells depend on what the solver found and on the symmetry only.
LEMMA TallyKept ==
  ASSUME UNCHANGED given
  PROVE  /\ \A s, I : Tallied(s, I)' <=> Tallied(s, I)
         /\ \A s, b : BatchTallied(b, s)' <=> BatchTallied(b, s)
<1>1. solved' = solved /\ threads' = threads /\ mirror' = mirror
  BY DEF given
<1>2. /\ \A i : Final(i)' = Final(i)
      /\ \A i : Redundant(i)' <=> Redundant(i)
  BY <1>1 DEF Final, Redundant
<1>3. \A i : Deepest(i)' <=> Deepest(i)
  BY <1>2 DEF Deepest
<1>4. Plies' = Plies
  BY <1>2 DEF Plies
<1>5. \A kind, I : Of(kind, I)' = Of(kind, I)
  BY <1>2 DEF Of
<1>6. \A kind, I : Longest(kind, I)' = Longest(kind, I)
  BY <1>2, <1>3, <1>5 DEF Longest
<1>7. \A I : Halves(I)' = Halves(I)
  BY <1>2 DEF Halves
<1>8. \A s, side, I : SideTallied(s, side, I)' <=> SideTallied(s, side, I)
  BY <1>4, <1>5, <1>6 DEF SideTallied
<1>9. \A s, I : Tallied(s, I)' <=> Tallied(s, I)
  BY <1>5, <1>7, <1>8 DEF Tallied
<1>10. \A b : IndexUpTo(b)' = IndexUpTo(b)
  BY <1>1 DEF IndexUpTo
<1>11. \A s, b : BatchTallied(b, s)' <=> BatchTallied(b, s)
  BY <1>9, <1>10 DEF BatchTallied
<1> QED
  BY <1>9, <1>11

\* Each finished batch has the statistics of its cells, and the merged ones are the table's.
StatsInv ==
  /\ \A b \in DOMAIN batches : \E s : s = batches[b].stats /\ BatchTallied(b, s)
  /\ stats # <<>> => \E s : stats = <<s>> /\ Tallied(s, 1 .. Length)

\* A finished batch adds its own.
LEMMA StatsInvFinalizeBatch ==
  ASSUME FileInv, StatsInv, NEW b, FinalizeBatch(b) PROVE StatsInv'
<1> DEFINE e == finalize_batch(b)
<1>1. /\ b \in Batches(threads) /\ batches' = With(batches, b, e)
      /\ UNCHANGED given /\ stats' = stats
  BY DEF FinalizeBatch
<1>2. BatchTallied(b, e.stats)
  BY <1>1, BatchStatsTallied DEF FileInv
<1>3. /\ \A s, I : Tallied(s, I)' <=> Tallied(s, I)
      /\ \A s, c : BatchTallied(c, s)' <=> BatchTallied(c, s)
  BY <1>1, TallyKept
<1> HIDE DEF e
<1>4. ASSUME NEW c \in DOMAIN batches'
      PROVE  \E s : s = batches'[c].stats /\ BatchTallied(c, s)'
  <2>1. c \in DOMAIN batches \cup {b} /\ batches'[c] = IF c = b THEN e ELSE batches[c]
    BY <1>1 DEF With
  <2>2. \E s : s = batches'[c].stats /\ BatchTallied(c, s)
    BY <2>1, <1>2 DEF StatsInv
  <2> QED
    BY <2>2, <1>3
<1> QED
  BY <1>1, <1>3, <1>4 DEF StatsInv

\* Merging them in the order of the batches makes the table's.
LEMMA StatsInvCollect ==
  ASSUME FileInv, StatsInv, Collect PROVE StatsInv'
<1> DEFINE merged == MergeAll(Completed)
<1>1. /\ DOMAIN batches = Batches(threads) /\ batches' = batches
      /\ UNCHANGED given /\ stats' = <<merged>>
  BY DEF Collect, MergeAll
<1>2. /\ \A s, I : Tallied(s, I)' <=> Tallied(s, I)
      /\ \A s, c : BatchTallied(c, s)' <=> BatchTallied(c, s)
  BY <1>1, TallyKept
<1>3. PICK m : Ranged(m)
  BY RangesCover DEF FileInv, GivenInv
<1>4. m \in Nat \ {0} /\ DOMAIN batches = 1 .. m /\ IndexUpTo(0) = 0 /\ IndexUpTo(m) = Length
  BY <1>1, <1>3 DEF Ranged
<1>5. Cardinality(DOMAIN batches) = m
  <2>1. 1 \in Int /\ m \in Int /\ 1 <= m
    BY <1>4
  <2>2. Cardinality(1 .. m) = m - 1 + 1
    BY <2>1, FS_Interval
  <2> QED
    BY <2>2, <1>4
<1>6. DOMAIN Completed = 1 .. m /\ \A b \in 1 .. m : Completed[b] = batches[b]
  BY <1>5 DEF Completed
<1> DEFINE upTo(b) == IndexUpTo(b)
           pre == [b \in 0 .. m |-> upTo(b)]
<1>7. /\ \A b \in 1 .. m : upTo(b - 1) \in Nat /\ upTo(b) \in Nat
                           /\ upTo(b - 1) <= upTo(b) /\ upTo(b) <= Length
      /\ upTo(0) = 0 /\ upTo(m) = Length
  <2>1. ASSUME NEW b \in 1 .. m
        PROVE  upTo(b - 1) \in Nat /\ upTo(b) \in Nat /\ upTo(b - 1) <= upTo(b)
               /\ upTo(b) <= Length
    BY <1>3 DEF Ranged
  <2> HIDE DEF upTo
  <2> QED
    BY <2>1, <1>4 DEF upTo
<1>8. \A b \in 1 .. m : Tallied(Completed[b].stats, (upTo(b - 1) + 1) .. upTo(b))
  BY <1>4, <1>6 DEF StatsInv, BatchTallied
<1> HIDE DEF upTo
<1>9. Parts(Completed, m, pre)
  <2>1. \A b \in 0 .. m : upTo(b) \in 0 .. Length
    BY <1>4, <1>7, FileAssumption
  <2>2. pre \in [0 .. m -> 0 .. Length] /\ pre[0] = 0
    BY <2>1, <1>4, <1>7
  <2>3. ASSUME NEW b \in 1 .. m PROVE pre[b - 1] = upTo(b - 1) /\ pre[b] = upTo(b)
    <3>1. b - 1 \in 0 .. m /\ b \in 0 .. m
      BY <1>4
    <3> QED
      BY <3>1
  <2> HIDE DEF pre
  <2> QED
    BY <2>2, <2>3, <1>4, <1>6, <1>7, <1>8 DEF Parts
<1>10. pre[m] = Length
  BY <1>4, <1>7
<1> HIDE DEF pre
<1>11. Tallied(merged, 1 .. Length)
  BY <1>9, <1>10, MergeAllTallied DEF FileInv, GivenInv
<1> HIDE DEF merged
<1> QED
  BY <1>1, <1>2, <1>11 DEF StatsInv

\* Nothing else changes any of them.
LEMMA StatsInvKept ==
  ASSUME StatsInv, UNCHANGED <<given, batches, stats>> PROVE StatsInv'
<1>1. /\ \A s, I : Tallied(s, I)' <=> Tallied(s, I)
      /\ \A s, c : BatchTallied(c, s)' <=> BatchTallied(c, s)
  BY TallyKept
<1> QED
  BY <1>1 DEF StatsInv

\* Whichever batch is finished first, the statistics of a table are those of its cells.
THEOREM StatisticsTallied == Spec => []StatsInv
<1>1. Init => StatsInv
  <2>1. Init => batches = <<>> /\ stats = <<>> /\ DOMAIN <<>> = {}
    BY DEF Init
  <2> QED
    BY <2>1 DEF StatsInv
<1>2. FileInv /\ StatsInv /\ [Next \/ Idle]_vars => StatsInv'
  <2> SUFFICES ASSUME FileInv, StatsInv, [Next \/ Idle]_vars PROVE StatsInv'
    OBVIOUS
  <2>1. CASE \E b \in 1 .. Length : FinalizeBatch(b)
    BY <2>1, StatsInvFinalizeBatch
  <2>2. CASE Collect
    BY <2>2, StatsInvCollect
  <2>3. CASE \/ \E s \in Deliveries : write_segments(s)
             \/ finish \/ BeginPublish \/ PutBuffer \/ AbortUpload \/ CompleteUpload
             \/ Idle \/ UNCHANGED vars
    <3>1. UNCHANGED <<given, batches, stats>>
      BY <2>3 DEF write_segments, finish, BeginPublish, PutBuffer, AbortUpload,
                  CompleteUpload, Idle, vars
    <3> QED
      BY <3>1, StatsInvKept
  <2> QED
    BY <2>1, <2>2, <2>3 DEF Next
<1> QED
  BY <1>1, <1>2, WriterHoldsTheTable, PTL DEF Spec

\* They are those of one pass over the table in index order, without the redundant halves of
\* diagonal pairs (finalization_stats.rs, finalize_table).
THEOREM StatisticsAlways == Spec => []StatisticsSequential
<1>1. FileInv /\ StatsInv => StatisticsSequential
  <2> SUFFICES ASSUME FileInv, StatsInv, stats # <<>> PROVE StatisticsSequential
    BY DEF StatisticsSequential
  <2> DEFINE I == 1 .. Length
             unique(i) == ~(i \in DOMAIN mirror /\ mirror[i] < i)
             value(i) == IF IsUnknown(solved[i]) THEN Draw ELSE solved[i]
             of(kind) == {i \in I : unique(i) /\ value(i).kind = kind}
             longest(kind) ==
               {i \in of(kind) :
                  /\ \A j \in I : value(j).kind = kind => value(j).n <= value(i).n
                  /\ kind = "win" => value(i).n # 0}
             plies(kind) == {value(i).n : i \in of(kind)}
             s == stats[1]
  <2>1. (\A i : unique(i) <=> ~ Redundant(i)) /\ \A i : value(i) = Final(i)
    BY DEF Redundant, Final, Settled
  <2>2. \A kind : of(kind) = Of(kind, I)
    BY <2>1 DEF Of
  <2>3. {i \in I : ~unique(i)} = Halves(I)
    BY <2>1 DEF Halves
  <2>4. \A kind : longest(kind) = Longest(kind, I)
    <3>1. ASSUME NEW kind, NEW i
          PROVE  i \in longest(kind) <=> i \in Longest(kind, I)
      <4> HIDE DEF value, unique
      <4> QED
        BY <2>1, <2>2 DEF Longest, Deepest, Of
    <3> QED
      BY <3>1
  <2>5. Tallied(s, I)
    <3>1. PICK t : stats = <<t>> /\ Tallied(t, I)
      BY DEF StatsInv
    <3>2. s = t
      BY <3>1
    <3> QED
      BY <3>1, <3>2
  <2>6. /\ s.draw = Cardinality(Of("draw", I)) /\ s.redundant = Cardinality(Halves(I))
        /\ \A kind \in Sides : SideTallied(s, kind, I)
    BY <2>5 DEF Tallied
  <2>7. s.draw = Cardinality(of("draw")) /\ s.redundant = Cardinality({i \in I : ~unique(i)})
    <3> HIDE DEF of, unique, s
    <3> QED
      BY <2>2, <2>3, <2>6
  <2>8. ASSUME NEW kind \in Sides
        PROVE  /\ s.resolved[kind] = Cardinality(of(kind))
               /\ DOMAIN s.histograms[kind] = plies(kind)
               /\ \A n \in plies(kind) :
                    s.histograms[kind][n] = Cardinality({i \in of(kind) : value(i).n = n})
               /\ ToSet(s.candidates[kind]) = longest(kind)
               /\ \A k, l \in DOMAIN s.candidates[kind] :
                    k < l => s.candidates[kind][k] < s.candidates[kind][l]
    <3> DEFINE h == s.histograms[kind]
               c == s.candidates[kind]
    <3>1. /\ s.resolved[kind] = Cardinality(Of(kind, I))
          /\ Counts(h, Of(kind, I), Plies) /\ Lists(c, Longest(kind, I))
      BY <2>6 DEF SideTallied
    <3>2. \A i \in of(kind) : Plies[i] = value(i).n
      <4>1. \A i \in of(kind) : i \in I
        OBVIOUS
      <4> HIDE DEF value, of
      <4> QED
        BY <4>1, <2>1 DEF Plies
    <3> HIDE DEF value, of, longest, h, c, s
    <3>3. /\ DOMAIN h = {Plies[i] : i \in of(kind)}
          /\ \A n \in DOMAIN h : h[n] = Cardinality({i \in of(kind) : Plies[i] = n})
      BY <3>1, <2>2 DEF Counts
    <3>4. plies(kind) = {Plies[i] : i \in of(kind)}
      BY <3>2
    <3>5. \A n : {i \in of(kind) : Plies[i] = n} = {i \in of(kind) : value(i).n = n}
      BY <3>2
    <3>6. /\ ToSet(c) = longest(kind)
          /\ \A k, l \in DOMAIN c : k < l => c[k] < c[l]
      BY <3>1, <2>4 DEF Lists, ToSet
    <3> HIDE DEF plies
    <3>7. DOMAIN h = plies(kind)
          /\ \A n \in plies(kind) : h[n] = Cardinality({i \in of(kind) : value(i).n = n})
      <4>1. DOMAIN h = plies(kind)
        BY <3>3, <3>4
      <4>2. ASSUME NEW n \in plies(kind)
            PROVE  h[n] = Cardinality({i \in of(kind) : value(i).n = n})
        <5>1. h[n] = Cardinality({i \in of(kind) : Plies[i] = n})
          BY <4>1, <3>3
        <5>2. {i \in of(kind) : Plies[i] = n} = {i \in of(kind) : value(i).n = n}
          BY <3>5
        <5> QED
          BY <5>1, <5>2
      <4> QED
        BY <4>1, <4>2
    <3>8. s.resolved[kind] = Cardinality(of(kind))
      BY <3>1, <2>2
    <3> QED
      BY <3>6, <3>7, <3>8 DEF h, c
  <2> QED
    BY <2>7, <2>8 DEF StatisticsSequential
<1> QED
  BY <1>1, StatisticsTallied, WriterHoldsTheTable, PTL
===============================================================================
