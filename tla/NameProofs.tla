------------------------------ MODULE NameProofs ------------------------------
(***************************************************************************)
(* Theorems about the names of tables: for any number of files, slots,     *)
(* roles and pieces, the name of a table gives back the elements it was    *)
(* made from, although it says of a pawn only its file and whether it is   *)
(* opposed.  A conversion has fewer pieces or pawns than its table, twins  *)
(* are each other's twins, and the keys TableId is ordered by tell tables  *)
(* apart; so every plan has its tables in the order of generation.         *)
(***************************************************************************)
EXTENDS Selection, FiniteSums

\* S is a set of positions up to n.
Within(S, n) == n \in Nat /\ S \subseteq 1 .. n

\* Its members are positive numbers.
LEMMA WithinNat ==
  ASSUME NEW S, NEW n, Within(S, n)
  PROVE  n \in Nat /\ \A i \in S : i \in Nat /\ i \in Nat \ {0} /\ i <= n /\ i > 0
BY DEF Within

\* How many of S there are up to i.
UpTo(S, i) == Cardinality({j \in S : j <= i})

\* It grows by one at each member.
LEMMA UpToStep ==
  ASSUME NEW S, NEW n, Within(S, n)
  PROVE  /\ IsFiniteSet(S) /\ Cardinality(S) \in Nat
         /\ UpTo(S, 0) = 0 /\ UpTo(S, n) = Cardinality(S)
         /\ \A i \in Nat : UpTo(S, i) \in Nat
         /\ \A i \in Nat \ {0} : UpTo(S, i) = UpTo(S, i - 1) + IF i \in S THEN 1 ELSE 0
<1>1. IsFiniteSet(S) /\ \A T \in SUBSET S : IsFiniteSet(T) /\ Cardinality(T) \in Nat
  <2>1. IsFiniteSet(1 .. n)
    BY FS_Interval DEF Within
  <2> QED
    BY <2>1, FS_Subset, FS_CardinalityType DEF Within
<1>2. UpTo(S, 0) = 0
  <2>1. {j \in S : j <= 0} = {}
    BY WithinNat
  <2> QED
    BY <2>1, FS_EmptySet DEF UpTo
<1>3. UpTo(S, n) = Cardinality(S)
  <2>1. {j \in S : j <= n} = S
    BY WithinNat
  <2> QED
    BY <2>1 DEF UpTo
<1>4. \A i \in Nat : UpTo(S, i) \in Nat
  <2>1. \A i \in Nat : {j \in S : j <= i} \in SUBSET S
    OBVIOUS
  <2> QED
    BY <2>1, <1>1 DEF UpTo
<1>5. ASSUME NEW i \in Nat \ {0}
      PROVE  UpTo(S, i) = UpTo(S, i - 1) + IF i \in S THEN 1 ELSE 0
  <2> DEFINE A == {j \in S : j <= i}
             B == {j \in S : j <= i - 1}
  <2>1. CASE i \in S
    <3>1. A = B \cup {i} /\ i \notin B
      BY <2>1, WithinNat
    <3>2. Cardinality(B \cup {i}) = Cardinality(B) + 1
      <4>1. IsFiniteSet(B)
        BY <1>1
      <4> HIDE DEF B
      <4> QED
        BY <4>1, <3>1, FS_AddElement
    <3> QED
      BY <3>1, <3>2, <2>1 DEF UpTo
  <2>2. CASE i \notin S
    <3>1. A = B
      BY <2>2, WithinNat
    <3>2. Cardinality(B) \in Nat
      BY <1>1
    <3> HIDE DEF A, B
    <3>3. UpTo(S, i) = Cardinality(A) /\ UpTo(S, i - 1) = Cardinality(B)
      BY DEF UpTo, A, B
    <3> QED
      BY <3>1, <3>2, <3>3, <2>2
  <2> QED
    BY <2>1, <2>2
<1> QED
  BY <1>1, <1>2, <1>3, <1>4, <1>5

\* It does not fall, and it is greater from a member on.
LEMMA UpToGrows ==
  ASSUME NEW S, NEW n, Within(S, n), NEW i \in Nat, NEW k \in Nat, i <= k
  PROVE  /\ UpTo(S, i) <= UpTo(S, k)
         /\ k \in S /\ i # k => UpTo(S, i) < UpTo(S, k)
         /\ UpTo(S, k) <= Cardinality(S)
<1>1. /\ IsFiniteSet(S) /\ Cardinality(S) \in Nat
      /\ \A m \in Nat : {j \in S : j <= m} \subseteq S
      /\ UpTo(S, i) \in Nat /\ UpTo(S, k) \in Nat
  BY UpToStep
<1>2. UpTo(S, k) <= Cardinality(S)
  BY <1>1, FS_Subset DEF UpTo
<1>3. UpTo(S, i) <= UpTo(S, k)
  <2>1. {j \in S : j <= i} \subseteq {j \in S : j <= k}
    BY WithinNat
  <2>2. IsFiniteSet({j \in S : j <= k})
    BY <1>1, FS_Subset
  <2> QED
    BY <2>1, <2>2, FS_Subset DEF UpTo
<1>4. ASSUME k \in S, i # k PROVE UpTo(S, i) < UpTo(S, k)
  <2>1. {j \in S : j <= i} \subseteq {j \in S : j <= k} /\ k \in {j \in S : j <= k}
        /\ k \notin {j \in S : j <= i}
    BY <1>4, WithinNat
  <2>2. IsFiniteSet({j \in S : j <= k})
    BY <1>1, FS_Subset
  <2>3. Cardinality({j \in S : j <= i}) # Cardinality({j \in S : j <= k})
    BY <2>1, <2>2, FS_Subset
  <2> QED
    BY <2>3, <1>1, <1>3 DEF UpTo
<1> QED
  BY <1>2, <1>3, <1>4

\* Nth finds the k-th member, and a member is found by its number.
LEMMA NthMember ==
  ASSUME NEW S, NEW n, Within(S, n)
  PROVE  /\ \A k \in 1 .. Cardinality(S) : Nth(S, k) \in S /\ UpTo(S, Nth(S, k)) = k
         /\ \A i \in S : UpTo(S, i) \in 1 .. Cardinality(S) /\ Nth(S, UpTo(S, i)) = i
<1>1. ASSUME NEW i \in S PROVE UpTo(S, i) \in 1 .. Cardinality(S)
  <2>1. 0 \in Nat /\ i \in Nat /\ 0 <= i /\ i # 0 /\ i # 0
    BY WithinNat
  <2>2. UpTo(S, 0) < UpTo(S, i) /\ UpTo(S, i) <= Cardinality(S)
    BY <2>1, UpToGrows
  <2> QED
    BY <2>1, <2>2, UpToStep
<1>2. ASSUME NEW i \in S, NEW k \in S, UpTo(S, i) = UpTo(S, k) PROVE i = k
  <2>1. i \in Nat /\ k \in Nat /\ UpTo(S, i) \in Nat
    BY WithinNat, UpToStep
  <2>2. i < k => UpTo(S, i) < UpTo(S, k)
    BY <2>1, UpToGrows
  <2>3. k < i => UpTo(S, k) < UpTo(S, i)
    BY <2>1, UpToGrows
  <2> QED
    BY <2>1, <2>2, <2>3, <1>2
<1>3. ASSUME NEW k \in 1 .. Cardinality(S) PROVE \E i \in S : UpTo(S, i) = k
  <2> DEFINE C == {i \in Nat : UpTo(S, i) >= k}
  <2>1. n \in C /\ C \subseteq Nat
    <3>1. n \in Nat /\ UpTo(S, n) = Cardinality(S) /\ Cardinality(S) \in Nat
      BY WithinNat, UpToStep
    <3> QED
      BY <3>1
  <2>2. PICK i \in C : \A m \in C : i <= m
    <3> HIDE DEF C
    <3> QED
      BY <2>1, LeastNatural
  <2>3. i # 0
    <3>1. ~ (UpTo(S, 0) >= k)
      <4>1. UpTo(S, 0) = 0 /\ k > 0
        BY UpToStep
      <4> QED
        BY <4>1
    <3> QED
      BY <3>1, <2>2
  <2>4. i \in Nat \ {0} /\ i - 1 \in Nat /\ i - 1 \notin C
    BY <2>2, <2>3
  <2>5. UpTo(S, i) \in Nat /\ UpTo(S, i - 1) \in Nat /\ UpTo(S, i) >= k /\ UpTo(S, i - 1) < k
    <3>1. UpTo(S, i) \in Nat /\ UpTo(S, i - 1) \in Nat
      BY <2>4, UpToStep
    <3> QED
      BY <3>1, <2>2, <2>4
  <2>6. UpTo(S, i) = UpTo(S, i - 1) + IF i \in S THEN 1 ELSE 0
    BY <2>4, UpToStep
  <2> QED
    BY <2>4, <2>5, <2>6
<1>4. ASSUME NEW k \in 1 .. Cardinality(S) PROVE Nth(S, k) \in S /\ UpTo(S, Nth(S, k)) = k
  BY <1>3 DEF Nth, UpTo
<1> QED
  BY <1>1, <1>2, <1>4

\* A function on the first n numbers is a sequence; Listed gives the function.
LEMMA ListedIs ==
  ASSUME NEW n \in Nat, NEW S, NEW g \in [1 .. n -> S]
  PROVE  <<>> \o g = g /\ g \in Seq(S) /\ Len(g) = n
<1>1. g \in Seq(S) /\ Len(g) = n
  OBVIOUS
<1> QED
  BY <1>1, EmptySeq, ConcatEmptySeq

\* The two sides.
LEMMA SidesAre ==
  /\ STM # SNTM /\ \A s \in Sides : s = STM \/ s = SNTM
  /\ STM \in Sides /\ SNTM \in Sides
  /\ OtherSide(STM) = SNTM /\ OtherSide(SNTM) = STM
BY DEF STM, SNTM, Sides, OtherSide

\* A word is a sequence of sides of at most Slots entries.
LEMMA WordIs ==
  ASSUME NEW w
  PROVE  w \in Words <=> w \in Seq(Sides) /\ Len(w) <= Slots
<1>1. ASSUME w \in Words PROVE w \in Seq(Sides) /\ Len(w) <= Slots
  <2>1. PICK n \in 0 .. Slots : w \in [1 .. n -> Sides]
    BY <1>1 DEF Words
  <2>2. n \in Nat /\ n <= Slots
    BY <2>1, NamesAssumption
  <2> QED
    BY <2>1, <2>2
<1>2. ASSUME w \in Seq(Sides), Len(w) <= Slots PROVE w \in Words
  <2>1. Len(w) \in 0 .. Slots /\ w \in [1 .. Len(w) -> Sides]
    BY <1>2, NamesAssumption
  <2> QED
    BY <2>1 DEF Words
<1> QED
  BY <1>1, <1>2

\* The slots of a side are slots of the word.
LEMMA SlotsWithin ==
  ASSUME NEW w \in Seq(Sides), NEW side
  PROVE  /\ Within(SlotsOf(w, side), Len(w))
         /\ CountOf(w, side) = Cardinality(SlotsOf(w, side)) /\ CountOf(w, side) \in Nat
<1>1. Within(SlotsOf(w, side), Len(w))
  <2>1. Len(w) \in Nat /\ DOMAIN w = 1 .. Len(w)
    OBVIOUS
  <2> QED
    BY <2>1 DEF Within, SlotsOf
<1> QED
  BY <1>1, UpToStep DEF CountOf

\* Each slot is one side's.
LEMMA SlotsDivide ==
  ASSUME NEW w \in Seq(Sides) PROVE CountOf(w, STM) + CountOf(w, SNTM) = Len(w)
<1> DEFINE S == SlotsOf(w, STM)
           T == SlotsOf(w, SNTM)
<1>1. DOMAIN w = 1 .. Len(w) /\ Len(w) \in Nat /\ \A i \in 1 .. Len(w) : w[i] \in Sides
  OBVIOUS
<1>2. S \cap T = {} /\ S \cup T = 1 .. Len(w)
  BY <1>1, SidesAre DEF SlotsOf
<1>3. IsFiniteSet(S) /\ IsFiniteSet(T)
  BY SlotsWithin, UpToStep
<1>4. Cardinality(S) \in Nat /\ Cardinality(T) \in Nat
  BY <1>3, FS_CardinalityType
<1>5. Cardinality(1 .. Len(w)) = Len(w)
  <2>1. 1 \in Int /\ Len(w) \in Int
    BY <1>1
  <2>2. Cardinality(1 .. Len(w)) = IF 1 > Len(w) THEN 0 ELSE Len(w) - 1 + 1
    BY <2>1, FS_Interval
  <2> QED
    BY <2>2, <1>1
<1>6. Cardinality({}) = 0
  BY FS_EmptySet
<1>8. CountOf(w, STM) = Cardinality(S) /\ CountOf(w, SNTM) = Cardinality(T)
  BY DEF CountOf
<1> HIDE DEF S, T
<1>7. Cardinality(S \cup T) = Cardinality(S) + Cardinality(T) - Cardinality(S \cap T)
  BY <1>3, FS_Union
<1>9. Cardinality(S \cap T) = 0 /\ Cardinality(S \cup T) = Len(w)
  BY <1>2, <1>5, <1>6
<1> QED
  BY <1>4, <1>7, <1>8, <1>9

-------------------------------------------------------------------------------

\* The pawn at slot i is next to an enemy on its way.
Faces(w, side, i) ==
  IF side = STM THEN i + 1 <= Len(w) /\ w[i + 1] = SNTM ELSE i > 1 /\ w[i - 1] = STM

\* The number of slot i on its side's way.
Turn(w, side, i) ==
  IF side = STM THEN UpTo(SlotsOf(w, side), i)
  ELSE CountOf(w, side) + 1 - UpTo(SlotsOf(w, side), i)

\* The flags of a side say of each pawn whether it faces an enemy.
LEMMA FlagsAre ==
  ASSUME NEW w \in Seq(Sides), NEW side \in Sides
  PROVE  /\ FormatFlags(w, side) \in Seq(BOOLEAN)
         /\ Len(FormatFlags(w, side)) = CountOf(w, side)
         /\ \A k \in 1 .. CountOf(w, side) :
              FormatFlags(w, side)[k] = Faces(w, side, Traversal(w, side, k))
<1> DEFINE g == [k \in 1 .. CountOf(w, side) |-> Faces(w, side, Traversal(w, side, k))]
<1>1. FormatFlags(w, side) = <<>> \o g
  BY DEF FormatFlags, Listed, Faces
<1>2. g \in [1 .. CountOf(w, side) -> BOOLEAN] /\ CountOf(w, side) \in Nat
  BY SlotsWithin DEF Faces
<1>3. <<>> \o g = g /\ g \in Seq(BOOLEAN) /\ Len(g) = CountOf(w, side)
  <2> HIDE DEF g
  <2> QED
    BY <1>2, ListedIs
<1> QED
  BY <1>1, <1>3

\* The flag of a pawn, by its slot.
LEMMA FlagAt ==
  ASSUME NEW w \in Seq(Sides), NEW side \in Sides, NEW i \in SlotsOf(w, side)
  PROVE  /\ Turn(w, side, i) \in 1 .. CountOf(w, side)
         /\ FormatFlags(w, side)[Turn(w, side, i)] = Faces(w, side, i)
<1> DEFINE S == SlotsOf(w, side)
<1>1. /\ UpTo(S, i) \in 1 .. CountOf(w, side) /\ Nth(S, UpTo(S, i)) = i
      /\ CountOf(w, side) \in Nat
  BY SlotsWithin, NthMember
<1>2. Turn(w, side, i) \in 1 .. CountOf(w, side)
  BY <1>1 DEF Turn
<1>3. Traversal(w, side, Turn(w, side, i)) = i
  <2>1. CASE side = STM
    BY <2>1, <1>1 DEF Traversal, Turn
  <2>2. CASE side # STM
    <3>1. CountOf(w, side) + 1 - (CountOf(w, side) + 1 - UpTo(S, i)) = UpTo(S, i)
      BY <1>1
    <3> QED
      BY <2>2, <3>1, <1>1 DEF Traversal, Turn
  <2> QED
    BY <2>1, <2>2
<1> QED
  BY <1>2, <1>3, FlagsAre

\* Words that are equal below slot i have there equally many pawns of each side.
LEMMA CountsAgree ==
  ASSUME NEW w \in Seq(Sides), NEW v \in Seq(Sides), NEW i \in Nat \ {0},
         i <= Len(w), i <= Len(v), \A j \in 1 .. (i - 1) : w[j] = v[j], NEW side
  PROVE  UpTo(SlotsOf(w, side), i - 1) = UpTo(SlotsOf(v, side), i - 1)
<1>1. DOMAIN w = 1 .. Len(w) /\ DOMAIN v = 1 .. Len(v) /\ Len(w) \in Nat /\ Len(v) \in Nat
  OBVIOUS
<1>2. ASSUME NEW j PROVE (j \in SlotsOf(w, side) /\ j <= i - 1)
                         <=> (j \in SlotsOf(v, side) /\ j <= i - 1)
  BY <1>1 DEF SlotsOf
<1>3. {j \in SlotsOf(w, side) : j <= i - 1} = {j \in SlotsOf(v, side) : j <= i - 1}
  BY <1>2
<1> QED
  BY <1>3 DEF UpTo

\* Two words with the same flags cannot differ first where one has the mover's pawn:
\* the other side's pawn there and its counterpart in the other word, which comes
\* later, would have one flag.
LEMMA FlagsDiffer ==
  ASSUME NEW w \in Seq(Sides), NEW v \in Seq(Sides),
         \A side \in Sides : FormatFlags(w, side) = FormatFlags(v, side),
         NEW i \in Nat \ {0}, i <= Len(w), i <= Len(v), \A j \in 1 .. (i - 1) : w[j] = v[j],
         w[i] = STM, v[i] = SNTM
  PROVE  FALSE
<1> DEFINE S == SlotsOf(w, SNTM)
           T == SlotsOf(v, SNTM)
           b == UpTo(S, i - 1)
<1>1. /\ DOMAIN w = 1 .. Len(w) /\ DOMAIN v = 1 .. Len(v) /\ Len(w) \in Nat /\ Len(v) \in Nat
      /\ \A j \in 1 .. Len(w) : w[j] = STM \/ w[j] = SNTM
  BY SidesAre
<1>2. CountOf(w, SNTM) = CountOf(v, SNTM)
  <2>1. /\ Len(FormatFlags(w, SNTM)) = CountOf(w, SNTM)
        /\ Len(FormatFlags(v, SNTM)) = CountOf(v, SNTM)
    BY FlagsAre, SidesAre
  <2> QED
    BY <2>1, SidesAre
<1>3. /\ Within(S, Len(w)) /\ CountOf(w, SNTM) = Cardinality(S) /\ CountOf(w, SNTM) \in Nat
      /\ Within(T, Len(v)) /\ CountOf(v, SNTM) = Cardinality(T)
  BY SlotsWithin
<1>4. i \in T /\ i \notin S /\ i - 1 \in Nat
  BY <1>1, SidesAre DEF SlotsOf
<1>5. b \in Nat /\ UpTo(T, i - 1) = b /\ UpTo(T, i) = b + 1
  <2>1. UpTo(T, i - 1) = b
    BY CountsAgree
  <2>2. UpTo(T, i) = UpTo(T, i - 1) + IF i \in T THEN 1 ELSE 0
    BY <1>3, UpToStep
  <2>3. b \in Nat
    BY <1>3, <1>4, UpToStep
  <2> QED
    BY <2>1, <2>2, <2>3, <1>4
<1>6. b + 1 \in 1 .. CountOf(w, SNTM)
  <2>1. UpTo(T, i) \in 1 .. Cardinality(T)
    BY <1>3, <1>4, NthMember
  <2> QED
    BY <2>1, <1>2, <1>3, <1>5
<1>7. PICK k \in S : UpTo(S, k) = b + 1
  <2>1. Nth(S, b + 1) \in S /\ UpTo(S, Nth(S, b + 1)) = b + 1
    BY <1>3, <1>6, NthMember
  <2> QED
    BY <2>1
<1>8. k \in Nat /\ k <= Len(w) /\ i < k
  <2>1. k \in Nat /\ k <= Len(w)
    BY <1>3, WithinNat
  <2>2. ASSUME k < i PROVE FALSE
    <3>1. UpTo(S, k) <= b
      <4>1. k <= i - 1
        BY <2>1, <2>2
      <4> QED
        BY <4>1, <2>1, <1>3, <1>4, UpToGrows
    <3> QED
      BY <3>1, <1>5, <1>7
  <2> QED
    BY <2>1, <2>2, <1>4
<1>9. w[k - 1] = STM
  <2>1. k - 1 \in 1 .. Len(w) /\ k - 1 \in Nat /\ k - 1 # 0
    BY <1>8
  <2>2. ASSUME k - 1 \in S PROVE FALSE
    <3>1. UpTo(S, i - 1) < UpTo(S, k - 1)
      <4>1. i - 1 <= k - 1 /\ i - 1 # k - 1
        BY <1>8
      <4> QED
        BY <4>1, <2>1, <2>2, <1>3, <1>4, UpToGrows
    <3>2. UpTo(S, k) = UpTo(S, k - 1) + 1
      <4>1. k \in Nat \ {0}
        BY <1>8
      <4> QED
        BY <4>1, <1>3, <1>7, UpToStep
    <3>3. UpTo(S, k - 1) \in Nat
      BY <2>1, <1>3, UpToStep
    <3> QED
      BY <3>1, <3>2, <3>3, <1>5, <1>7
  <2>3. w[k - 1] # SNTM
    BY <2>1, <2>2, <1>1 DEF SlotsOf
  <2> QED
    BY <2>1, <2>3, <1>1
<1>10. Turn(w, SNTM, k) = Turn(v, SNTM, i)
  BY <1>2, <1>5, <1>7, SidesAre DEF Turn
<1>11. Faces(v, SNTM, i)
  <2>1. Faces(w, SNTM, k)
    BY <1>8, <1>9, SidesAre DEF Faces
  <2>2. FormatFlags(w, SNTM)[Turn(w, SNTM, k)] = Faces(w, SNTM, k)
    BY <1>7, FlagAt, SidesAre
  <2>3. FormatFlags(v, SNTM)[Turn(v, SNTM, i)] = Faces(v, SNTM, i)
    BY <1>4, FlagAt, SidesAre
  <2>4. FormatFlags(w, SNTM) = FormatFlags(v, SNTM)
    BY SidesAre
  <2>5. Faces(w, SNTM, k) = Faces(v, SNTM, i)
    BY <2>2, <2>3, <2>4, <1>10
  <2> QED
    BY <2>1, <2>5
<1>12. i > 1 /\ v[i - 1] = STM /\ w[i - 1] = STM
  <2>1. i > 1 /\ v[i - 1] = STM
    BY <1>11, SidesAre DEF Faces
  <2>2. i - 1 \in 1 .. (i - 1)
    BY <2>1
  <2> QED
    BY <2>1, <2>2
<1>13. i - 1 \in SlotsOf(w, STM) /\ i - 1 \in SlotsOf(v, STM)
  BY <1>12, <1>1 DEF SlotsOf
<1>14. Turn(w, STM, i - 1) = Turn(v, STM, i - 1)
  BY CountsAgree DEF Turn
<1>15. FormatFlags(w, STM)[Turn(w, STM, i - 1)] = Faces(w, STM, i - 1)
  BY <1>13, FlagAt, SidesAre
<1>16. FormatFlags(v, STM)[Turn(v, STM, i - 1)] = Faces(v, STM, i - 1)
  BY <1>13, FlagAt, SidesAre
<1>17. Faces(w, STM, i - 1) = Faces(v, STM, i - 1)
  <2>1. FormatFlags(w, STM) = FormatFlags(v, STM)
    BY SidesAre
  <2> QED
    BY <2>1, <1>14, <1>15, <1>16
<1>18. i - 1 + 1 = i
  OBVIOUS
<1> QED
  BY <1>17, <1>18, SidesAre DEF Faces

\* The flags of both sides say which word it is, although they say nothing of the
\* pawns between: no two words have the same flags (parse_elements, which takes the
\* one word that fits a file's flags).
THEOREM FlagsIdentifyWords ==
  ASSUME NEW w \in Seq(Sides), NEW v \in Seq(Sides),
         \A side \in Sides : FormatFlags(w, side) = FormatFlags(v, side)
  PROVE  w = v
<1>1. Len(w) = Len(v)
  <2>1. \A side \in Sides : CountOf(w, side) = CountOf(v, side)
    <3>1. \A side \in Sides : /\ Len(FormatFlags(w, side)) = CountOf(w, side)
                              /\ Len(FormatFlags(v, side)) = CountOf(v, side)
      BY FlagsAre
    <3> QED
      BY <3>1
  <2>2. CountOf(w, STM) + CountOf(w, SNTM) = Len(w)
    BY SlotsDivide
  <2>3. CountOf(v, STM) + CountOf(v, SNTM) = Len(v)
    BY SlotsDivide
  <2> QED
    BY <2>1, <2>2, <2>3, SidesAre
<1>2. /\ DOMAIN w = 1 .. Len(w) /\ DOMAIN v = 1 .. Len(v) /\ Len(w) \in Nat
      /\ \A j \in 1 .. Len(w) : w[j] \in Sides /\ v[j] \in Sides
  BY <1>1
<1> DEFINE D == {j \in 1 .. Len(w) : w[j] # v[j]}
<1>3. ASSUME D # {} PROVE FALSE
  <2>1. PICK i \in D : \A j \in D : i <= j
    <3>1. D \subseteq Nat
      BY <1>2
    <3> HIDE DEF D
    <3> QED
      BY <3>1, <1>3, LeastNatural
  <2>2. i \in Nat \ {0} /\ i <= Len(w) /\ i <= Len(v) /\ w[i] # v[i]
    BY <1>1, <1>2
  <2>3. \A j \in 1 .. (i - 1) : w[j] = v[j] /\ v[j] = w[j]
    <3>1. SUFFICES ASSUME NEW j \in 1 .. (i - 1), j \in D PROVE FALSE
      BY <2>2, <1>2
    <3>2. i <= j
      BY <3>1, <2>1
    <3> QED
      BY <3>1, <3>2, <2>2
  <2>4. \/ w[i] = STM /\ v[i] = SNTM
        \/ v[i] = STM /\ w[i] = SNTM
    BY <2>2, <1>2, SidesAre
  <2>5. ASSUME w[i] = STM, v[i] = SNTM PROVE FALSE
    BY <2>2, <2>3, <2>5, FlagsDiffer
  <2>6. ASSUME v[i] = STM, w[i] = SNTM PROVE FALSE
    BY <2>2, <2>3, <2>6, FlagsDiffer
  <2> QED
    BY <2>4, <2>5, <2>6
<1>4. w = [j \in 1 .. Len(w) |-> w[j]] /\ v = [j \in 1 .. Len(w) |-> v[j]]
  BY <1>1, <1>2
<1> QED
  BY <1>3, <1>4

-------------------------------------------------------------------------------

\* Parsing and formatting compute the flags of a word alike.
LEMMA PawnFlagsAre ==
  ASSUME NEW w \in Seq(Sides), NEW side \in Sides
  PROVE  pawn_flags(w, side) = FormatFlags(w, side)
<1> DEFINE n == CountOf(w, side)
           next(i) == IF side = STM THEN i + 1 ELSE i - 1
           flag(i) == next(i) \in DOMAIN w /\ w[next(i)] # side
           g == [k \in 1 .. n |-> flag(Nth(SlotsOf(w, side), k))]
<1>1. n \in Nat /\ Within(SlotsOf(w, side), Len(w)) /\ n = Cardinality(SlotsOf(w, side))
  BY SlotsWithin
<1>2. <<>> \o g = g /\ g \in Seq(BOOLEAN) /\ Len(g) = n
  <2>1. g \in [1 .. n -> BOOLEAN]
    OBVIOUS
  <2> HIDE DEF g
  <2> QED
    BY <1>1, <2>1, ListedIs
<1>3. pawn_flags(w, side) = IF side = SNTM THEN Reverse(<<>> \o g) ELSE <<>> \o g
  BY DEF pawn_flags, Listed
<1>4. ASSUME NEW k \in 1 .. n
      PROVE  flag(Nth(SlotsOf(w, side), k)) = Faces(w, side, Nth(SlotsOf(w, side), k))
  <2> DEFINE i == Nth(SlotsOf(w, side), k)
  <2>1. i \in 1 .. Len(w) /\ w[i] = side /\ Len(w) \in Nat /\ DOMAIN w = 1 .. Len(w)
        /\ \A j \in 1 .. Len(w) : w[j] = STM \/ w[j] = SNTM
    <3>1. i \in SlotsOf(w, side)
      BY <1>1, NthMember
    <3> QED
      BY <3>1, SidesAre DEF SlotsOf
  <2> HIDE DEF i
  <2>2. CASE side = STM
    <3>1. i + 1 \in DOMAIN w <=> i + 1 <= Len(w)
      BY <2>1
    <3>2. i + 1 \in DOMAIN w => (w[i + 1] # side <=> w[i + 1] = SNTM)
      BY <2>1, <2>2, SidesAre
    <3>3. flag(i) <=> Faces(w, side, i)
      BY <2>2, <3>1, <3>2 DEF Faces
    <3> QED
      BY <3>3 DEF Faces, i
  <2>3. CASE side = SNTM
    <3>1. i - 1 \in DOMAIN w <=> i > 1
      BY <2>1
    <3>2. i - 1 \in DOMAIN w => (w[i - 1] # side <=> w[i - 1] = STM)
      BY <2>1, <2>3, SidesAre
    <3>3. flag(i) <=> Faces(w, side, i)
      BY <2>3, <3>1, <3>2, SidesAre DEF Faces
    <3> QED
      BY <3>3 DEF Faces, i
  <2> QED
    BY <2>2, <2>3, SidesAre
<1>5. /\ FormatFlags(w, side) \in Seq(BOOLEAN) /\ Len(FormatFlags(w, side)) = n
      /\ \A k \in 1 .. n : FormatFlags(w, side)[k] = Faces(w, side, Traversal(w, side, k))
  BY FlagsAre
<1>6. /\ pawn_flags(w, side) = [k \in 1 .. n |-> pawn_flags(w, side)[k]]
      /\ \A k \in 1 .. n : pawn_flags(w, side)[k] = Faces(w, side, Traversal(w, side, k))
  <2>1. CASE side = STM
    <3>1. pawn_flags(w, side) = g
      BY <2>1, <1>2, <1>3, SidesAre
    <3>2. \A k \in 1 .. n : g[k] = Faces(w, side, Nth(SlotsOf(w, side), k))
      <4> HIDE DEF flag
      <4> QED
        BY <1>4
    <3>3. g = [k \in 1 .. n |-> g[k]]
      OBVIOUS
    <3> HIDE DEF g
    <3> QED
      BY <3>1, <3>2, <3>3, <2>1 DEF Traversal
  <2>2. CASE side = SNTM
    <3>1. pawn_flags(w, side) = Reverse(g)
      BY <2>2, <1>2, <1>3
    <3>2. \A k \in 1 .. n : g[k] = Faces(w, side, Nth(SlotsOf(w, side), k))
      <4> HIDE DEF flag
      <4> QED
        BY <1>4
    <3> HIDE DEF g
    <3>3. Reverse(g) = [k \in 1 .. n |-> g[(n - k) + 1]]
      BY <1>2 DEF Reverse
    <3>4. \A k \in 1 .. n : (n - k) + 1 \in 1 .. n /\ (n - k) + 1 = n + 1 - k
      BY <1>1
    <3>5. \A k \in 1 .. n : Reverse(g)[k] = g[n + 1 - k]
      BY <3>3, <3>4
    <3>6. Reverse(g) = [k \in 1 .. n |-> Reverse(g)[k]]
      BY <3>3
    <3>7. \A k \in 1 .. n : Traversal(w, side, k) = Nth(SlotsOf(w, side), n + 1 - k)
      BY <2>2, SidesAre DEF Traversal
    <3> HIDE DEF n
    <3>8. \A k \in 1 .. n : n + 1 - k \in 1 .. n
      BY <3>4
    <3> QED
      BY <3>1, <3>2, <3>5, <3>6, <3>7, <3>8
  <2> QED
    BY <2>1, <2>2, SidesAre
<1>7. FormatFlags(w, side) = [k \in 1 .. n |-> FormatFlags(w, side)[k]]
  <2> HIDE DEF n
  <2> QED
    BY <1>5
<1> QED
  BY <1>5, <1>6, <1>7

-------------------------------------------------------------------------------
(* The pawns of all files.                                                  *)

\* What a table may have: per file a word, per side numbers of men by role; and a
\* pawn in a name.
Layout == [1 .. Files -> Words]
Armies == [Sides -> [ToSet(Roles) -> Nat]]
Marks == [file : 0 .. Files - 1, opposed : BOOLEAN]

\* How many pawns a side has on each file, and on the first f files.
Counted(files, side) == [f \in 1 .. Files |-> CountOf(files[f], side)]
Ahead(files, side, f) == SumOf(Counted(files, side), 1 .. f)

\* The library's two sums are one.
LEMMA SumFunctionIs ==
  ASSUME NEW w PROVE SumFunction(w) = SumOf(w, DOMAIN w)
BY DEF SumFunction, SumFunctionOnSet, FoldFunctionOnSet, SumOf, MapThenSumSet

\* The files of a layout are words.
LEMMA LayoutWords ==
  ASSUME NEW files \in Layout
  PROVE  /\ Files \in Nat
         /\ \A f \in 1 .. Files : /\ files[f] \in Seq(Sides) /\ Len(files[f]) \in Nat
                                  /\ Len(files[f]) <= Slots
                                  /\ \A side : CountOf(files[f], side) \in Nat
<1>1. \A f \in 1 .. Files : files[f] \in Words
  BY DEF Layout
<1>2. \A f \in 1 .. Files : files[f] \in Seq(Sides) /\ Len(files[f]) <= Slots
  BY <1>1, WordIs
<1> QED
  BY <1>2, SlotsWithin, NamesAssumption, LenProperties

\* The pawns ahead, file by file.
LEMMA AheadStep ==
  ASSUME NEW files \in Layout, NEW side
  PROVE  /\ Counted(files, side) \in [1 .. Files -> Nat]
         /\ Ahead(files, side, 0) = 0
         /\ \A f \in 0 .. Files : Ahead(files, side, f) \in Nat
         /\ \A f \in 1 .. Files : Ahead(files, side, f)
                                    = Ahead(files, side, f - 1) + CountOf(files[f], side)
         /\ PawnsOf(files, side) = Ahead(files, side, Files)
<1>1. Counted(files, side) \in [1 .. Files -> Nat] /\ Files \in Nat
  BY LayoutWords DEF Counted
<1>2. PawnsOf(files, side) = Ahead(files, side, Files)
  <2>1. PawnsOf(files, side) = SumFunction(Counted(files, side))
    BY DEF PawnsOf, Counted
  <2>2. DOMAIN Counted(files, side) = 1 .. Files
    BY <1>1
  <2> QED
    BY <2>1, <2>2, SumFunctionIs DEF Ahead
<1>3. \A f \in 1 .. Files : Counted(files, side)[f] = CountOf(files[f], side)
  BY DEF Counted
<1> QED
  BY <1>1, <1>2, <1>3, SumOfFirst DEF Ahead

\* What FlattenSeq computes.
LEMMA FlattenJoins == ASSUME NEW seqs PROVE FlattenSeq(seqs) = Joined(seqs)
BY DEF FlattenSeq, Joined

\* list has a side's pawns, file by file, with their flags.
PawnList(list, files, side) ==
  /\ list \in Seq(Marks) /\ Len(list) = Ahead(files, side, Files)
  /\ \A f \in 1 .. Files : \A k \in 1 .. CountOf(files[f], side) :
       list[Ahead(files, side, f - 1) + k]
         = [file |-> f - 1, opposed |-> FormatFlags(files[f], side)[k]]

\* What a name holds.
LEMMA FormatShape ==
  ASSUME NEW files \in Layout, NEW men, NEW side \in Sides
  PROVE  /\ DOMAIN format_name(files, men) = Sides
         /\ format_name(files, men)[side].men = men[side]
         /\ PawnList(format_name(files, men)[side].pawns, files, side)
<1> DEFINE flags(f) == FormatFlags(files[f], side)
           mark(f, k) == [file |-> f - 1, opposed |-> flags(f)[k]]
           pieces(f) == <<>> \o [k \in 1 .. Len(flags(f)) |-> mark(f, k)]
           seqs == <<>> \o [f \in 1 .. Files |-> pieces(f)]
           pre == [f \in 0 .. Files |-> Ahead(files, side, f)]
<1>1. /\ DOMAIN format_name(files, men) = Sides
      /\ format_name(files, men)[side].men = men[side]
      /\ format_name(files, men)[side].pawns = FlattenSeq(seqs)
  BY DEF format_name, PerFile, Listed
<1>2. ASSUME NEW f \in 1 .. Files
      PROVE  /\ flags(f) \in Seq(BOOLEAN) /\ Len(flags(f)) = CountOf(files[f], side)
             /\ CountOf(files[f], side) \in Nat
             /\ \A k \in 1 .. CountOf(files[f], side) : mark(f, k) \in Marks
  <2>1. /\ flags(f) \in Seq(BOOLEAN) /\ Len(flags(f)) = CountOf(files[f], side)
        /\ CountOf(files[f], side) \in Nat
    BY FlagsAre, LayoutWords
  <2>2. f - 1 \in 0 .. Files - 1
    BY LayoutWords
  <2>3. \A k \in 1 .. CountOf(files[f], side) : flags(f)[k] \in BOOLEAN
    <3> HIDE DEF flags
    <3> QED
      BY <2>1
  <2> HIDE DEF flags
  <2> QED
    BY <2>1, <2>2, <2>3 DEF Marks
<1>3. ASSUME NEW f \in 1 .. Files
      PROVE  /\ pieces(f) \in Seq(Marks) /\ Len(pieces(f)) = CountOf(files[f], side)
             /\ \A k \in 1 .. CountOf(files[f], side) : pieces(f)[k] = mark(f, k)
  <2> DEFINE g == [k \in 1 .. Len(flags(f)) |-> mark(f, k)]
  <2>1. g \in [1 .. CountOf(files[f], side) -> Marks]
    <3> HIDE DEF mark, flags
    <3> QED
      BY <1>2
  <2>2. <<>> \o g = g /\ g \in Seq(Marks) /\ Len(g) = CountOf(files[f], side)
    <3> HIDE DEF g
    <3> QED
      BY <1>2, <2>1, ListedIs
  <2>3. \A k \in 1 .. CountOf(files[f], side) : g[k] = mark(f, k)
    <3> HIDE DEF mark, flags
    <3> QED
      BY <1>2
  <2>4. pieces(f) = <<>> \o g
    OBVIOUS
  <2> HIDE DEF g, pieces
  <2> QED
    BY <2>2, <2>3, <2>4
<1> HIDE DEF pieces
<1>4. /\ seqs \in Seq(Seq(Marks)) /\ Len(seqs) = Files
      /\ \A f \in 1 .. Files : seqs[f] = pieces(f)
  <2> DEFINE h == [f \in 1 .. Files |-> pieces(f)]
  <2>1. h \in [1 .. Files -> Seq(Marks)] /\ \A f \in 1 .. Files : h[f] = pieces(f)
    BY <1>3
  <2>2. <<>> \o h = h /\ h \in Seq(Seq(Marks)) /\ Len(h) = Files
    <3> HIDE DEF h
    <3> QED
      BY <2>1, ListedIs, LayoutWords
  <2>3. seqs = <<>> \o h
    OBVIOUS
  <2> HIDE DEF h, seqs
  <2> QED
    BY <2>1, <2>2, <2>3
<1> HIDE DEF seqs
<1>5. /\ pre \in [0 .. Len(seqs) -> Nat] /\ pre[0] = 0
      /\ \A f \in 1 .. Len(seqs) : pre[f] = pre[f - 1] + Len(seqs[f])
  <2>1. \A f \in 0 .. Files : pre[f] = Ahead(files, side, f) /\ Ahead(files, side, f) \in Nat
    BY AheadStep
  <2>2. \A f \in 1 .. Files : f \in 0 .. Files /\ f - 1 \in 0 .. Files
    BY LayoutWords
  <2>3. 0 \in 0 .. Files
    BY LayoutWords
  <2>4. \A f \in 1 .. Files : pre[f] = pre[f - 1] + Len(seqs[f])
    BY <2>1, <2>2, <1>3, <1>4, AheadStep
  <2> QED
    BY <2>1, <2>3, <2>4, <1>4, AheadStep
<1>6. /\ Joined(seqs) \in Seq(Marks) /\ Len(Joined(seqs)) = pre[Len(seqs)]
      /\ \A f \in 1 .. Len(seqs) : \A k \in 1 .. Len(seqs[f]) :
           Joined(seqs)[pre[f - 1] + k] = seqs[f][k]
  <2>1. seqs \in Seq(Seq(Marks))
    BY <1>4
  <2> HIDE DEF pre
  <2>2. StartsOf(pre, seqs)
    BY <1>5 DEF StartsOf
  <2>3. InPieces(Joined(seqs), seqs, pre, Marks)
    BY <2>1, <2>2, Flattened
  <2> QED
    BY <2>3 DEF InPieces
<1>7. FlattenSeq(seqs) = Joined(seqs)
  BY FlattenJoins
<1>8. pre[Files] = Ahead(files, side, Files)
      /\ \A f \in 1 .. Files : pre[f - 1] = Ahead(files, side, f - 1)
  BY LayoutWords
<1> HIDE DEF pre
<1>9. Len(Joined(seqs)) = Ahead(files, side, Files)
  BY <1>4, <1>6, <1>8
<1>10. ASSUME NEW f \in 1 .. Files, NEW k \in 1 .. CountOf(files[f], side)
       PROVE  Joined(seqs)[Ahead(files, side, f - 1) + k] = mark(f, k)
  <2>1. f \in 1 .. Len(seqs) /\ k \in 1 .. Len(seqs[f]) /\ seqs[f][k] = mark(f, k)
    BY <1>3, <1>4
  <2>2. Joined(seqs)[pre[f - 1] + k] = seqs[f][k]
    BY <2>1, <1>6
  <2> QED
    BY <2>1, <2>2, <1>8
<1> QED
  BY <1>1, <1>6, <1>7, <1>9, <1>10 DEF PawnList

\* A later file has no fewer pawns ahead.
LEMMA AheadGrows ==
  ASSUME NEW files \in Layout, NEW side, NEW f \in 0 .. Files, NEW g \in 0 .. Files, f <= g
  PROVE  Ahead(files, side, f) <= Ahead(files, side, g)
<1> DEFINE n == g - f
           D == {k \in Nat : k <= n => Ahead(files, side, f) <= Ahead(files, side, f + k)}
<1>1. Files \in Nat /\ f \in Nat /\ g \in Nat /\ n \in Nat /\ f + n = g
  BY LayoutWords
<1>2. \A k \in 0 .. Files : Ahead(files, side, k) \in Nat
  BY AheadStep
<1>3. 0 \in D
  BY <1>1, <1>2
<1>4. ASSUME NEW k \in 1 .. n, k - 1 \in D PROVE k \in D
  <2>1. /\ k \in Nat /\ k - 1 \in Nat /\ k - 1 <= n
        /\ f + k \in 1 .. Files /\ (f + k) - 1 = f + (k - 1)
        /\ f + (k - 1) \in 0 .. Files /\ f + k \in 0 .. Files
    BY <1>1
  <2>2. Ahead(files, side, f) <= Ahead(files, side, f + (k - 1))
    BY <2>1, <1>4
  <2>3. Ahead(files, side, f + k)
          = Ahead(files, side, f + (k - 1)) + CountOf(files[f + k], side)
    BY <2>1, AheadStep
  <2>4. CountOf(files[f + k], side) \in Nat
    BY <2>1, LayoutWords
  <2>5. Ahead(files, side, f) \in Nat /\ Ahead(files, side, f + (k - 1)) \in Nat
    BY <2>1, <1>2
  <2>6. Ahead(files, side, f) <= Ahead(files, side, f + k)
    BY <2>2, <2>3, <2>4, <2>5
  <2> QED
    BY <2>1, <2>6
<1>5. \A k \in 0 .. n : k \in D
  <2> HIDE DEF D, n
  <2> QED
    BY <1>1, <1>3, <1>4, Climb
<1>6. n \in 0 .. n
  BY <1>1
<1> QED
  BY <1>1, <1>5, <1>6

\* Every pawn of a list is on a file.
LEMMA OnFile ==
  ASSUME NEW files \in Layout, NEW side, NEW i \in 1 .. Ahead(files, side, Files)
  PROVE  \E f \in 1 .. Files : \E k \in 1 .. CountOf(files[f], side) :
           i = Ahead(files, side, f - 1) + k
<1> DEFINE C == {f \in 0 .. Files : i <= Ahead(files, side, f)}
<1>1. Files \in Nat /\ \A f \in 0 .. Files : Ahead(files, side, f) \in Nat
  BY LayoutWords, AheadStep
<1>2. Files \in 0 .. Files /\ 0 \in 0 .. Files
  BY <1>1
<1>3. i \in Nat \ {0} /\ i <= Ahead(files, side, Files)
  BY <1>1, <1>2
<1>4. PICK f \in C : \A g \in C : f <= g
  <2>1. Files \in C /\ C \subseteq Nat
    BY <1>1, <1>2, <1>3
  <2> HIDE DEF C
  <2> QED
    BY <2>1, LeastNatural
<1>5. f # 0
  <2>1. Ahead(files, side, 0) = 0
    BY AheadStep
  <2> QED
    BY <2>1, <1>3, <1>4
<1>6. f \in 1 .. Files /\ f - 1 \in 0 .. Files
  BY <1>1, <1>4, <1>5
<1>7. ~ (i <= Ahead(files, side, f - 1))
  <2>1. f - 1 \notin C
    <3> HIDE DEF C
    <3> QED
      BY <1>4, <1>6
  <2> QED
    BY <2>1, <1>6
<1>8. /\ i <= Ahead(files, side, f)
      /\ Ahead(files, side, f) = Ahead(files, side, f - 1) + CountOf(files[f], side)
      /\ Ahead(files, side, f - 1) \in Nat /\ CountOf(files[f], side) \in Nat
  BY <1>1, <1>4, <1>6, AheadStep, LayoutWords
<1>9. i - Ahead(files, side, f - 1) \in 1 .. CountOf(files[f], side)
      /\ i = Ahead(files, side, f - 1) + (i - Ahead(files, side, f - 1))
  BY <1>3, <1>7, <1>8
<1> QED
  BY <1>6, <1>9

\* The members of an interval, by their numbers.
LEMMA NthInterval ==
  ASSUME NEW a \in Nat, NEW m \in Nat
  PROVE  /\ Within((a + 1) .. (a + m), a + m) /\ Cardinality((a + 1) .. (a + m)) = m
         /\ \A k \in 1 .. m : Nth((a + 1) .. (a + m), k) = a + k
<1> DEFINE S == (a + 1) .. (a + m)
<1>1. Within(S, a + m)
  BY DEF Within
<1>2. \A k \in 0 .. m : Cardinality((a + 1) .. (a + k)) = k
  <2>1. SUFFICES ASSUME NEW k \in 0 .. m PROVE Cardinality((a + 1) .. (a + k)) = k
    OBVIOUS
  <2>2. a + 1 \in Int /\ a + k \in Int
    OBVIOUS
  <2>3. Cardinality((a + 1) .. (a + k))
          = IF a + 1 > a + k THEN 0 ELSE (a + k) - (a + 1) + 1
    BY <2>2, FS_Interval
  <2> QED
    BY <2>3
<1>3. m \in 0 .. m
  OBVIOUS
<1>4. ASSUME NEW k \in 1 .. m PROVE Nth(S, k) = a + k
  <2>1. a + k \in S /\ {j \in S : j <= a + k} = (a + 1) .. (a + k) /\ k \in 0 .. m
    OBVIOUS
  <2>2. UpTo(S, a + k) = k
    BY <2>1, <1>2 DEF UpTo
  <2>3. Nth(S, UpTo(S, a + k)) = a + k
    <3> HIDE DEF S
    <3> QED
      BY <2>1, <1>1, NthMember
  <2> QED
    BY <2>2, <2>3
<1> QED
  BY <1>1, <1>2, <1>3, <1>4

\* The places of a file's pawns in a list.
OfFile(list, f) == {i \in DOMAIN list : list[i].file = f - 1}

\* They follow each other.
LEMMA FilePlaces ==
  ASSUME NEW files \in Layout, NEW side, NEW list, PawnList(list, files, side),
         NEW f \in 1 .. Files
  PROVE  OfFile(list, f) = (Ahead(files, side, f - 1) + 1) ..
                           (Ahead(files, side, f - 1) + CountOf(files[f], side))
<1> DEFINE a == Ahead(files, side, f - 1)
           c == CountOf(files[f], side)
<1>1. Files \in Nat /\ f \in 0 .. Files /\ f - 1 \in 0 .. Files /\ Files \in 0 .. Files
  BY LayoutWords
<1>2. a \in Nat /\ c \in Nat /\ Ahead(files, side, f) = a + c
      /\ Ahead(files, side, Files) \in Nat
  BY <1>1, AheadStep, LayoutWords
<1>3. a + c <= Ahead(files, side, Files)
  <2>1. f <= Files
    BY <1>1
  <2>2. Ahead(files, side, f) <= Ahead(files, side, Files)
    BY <2>1, <1>1, AheadGrows
  <2> QED
    BY <2>2, <1>2
<1>4. DOMAIN list = 1 .. Ahead(files, side, Files)
  BY DEF PawnList
<1>5. \A g \in 1 .. Files : \A k \in 1 .. CountOf(files[g], side) :
        list[Ahead(files, side, g - 1) + k].file = g - 1
  <2>1. ASSUME NEW g \in 1 .. Files, NEW k \in 1 .. CountOf(files[g], side)
        PROVE  list[Ahead(files, side, g - 1) + k].file = g - 1
    <3>1. list[Ahead(files, side, g - 1) + k]
            = [file |-> g - 1, opposed |-> FormatFlags(files[g], side)[k]]
      BY DEF PawnList
    <3> QED
      BY <3>1
  <2> QED
    BY <2>1
<1> HIDE DEF a, c
<1>6. ASSUME NEW i \in (a + 1) .. (a + c) PROVE i \in OfFile(list, f)
  <2>1. i - a \in 1 .. c /\ i = a + (i - a) /\ i \in 1 .. Ahead(files, side, Files)
    BY <1>2, <1>3
  <2>2. list[a + (i - a)].file = f - 1
    BY <2>1, <1>5 DEF a, c
  <2>3. list[i].file = f - 1
    BY <2>1, <2>2
  <2> QED
    BY <2>1, <2>3, <1>4 DEF OfFile
<1>7. ASSUME NEW i \in OfFile(list, f) PROVE i \in (a + 1) .. (a + c)
  <2>1. i \in 1 .. Ahead(files, side, Files) /\ list[i].file = f - 1
    BY <1>4 DEF OfFile
  <2>a. PICK g \in 1 .. Files : \E k \in 1 .. CountOf(files[g], side) :
          i = Ahead(files, side, g - 1) + k
    BY <2>1, OnFile
  <2>2. PICK k \in 1 .. CountOf(files[g], side) : i = Ahead(files, side, g - 1) + k
    BY <2>a
  <2>3. g = f
    <3>1. g - 1 = f - 1
      BY <2>1, <2>2, <1>5
    <3> QED
      BY <3>1, <1>1
  <2>4. i = a + k /\ k \in 1 .. c
    BY <2>2, <2>3 DEF a, c
  <2> QED
    BY <2>4, <1>2
<1>8. OfFile(list, f) = (a + 1) .. (a + c)
  BY <1>6, <1>7
<1> QED
  BY <1>8 DEF a, c

-------------------------------------------------------------------------------
(* Parsing.                                                                 *)

\* The flags a list has for a file.
ReadFlags(list, f) ==
  <<>> \o [k \in 1 .. Cardinality(OfFile(list, f)) |-> list[Nth(OfFile(list, f), k)].opposed]

\* From a list of pawns a file's flags are read back.
LEMMA FlagsRead ==
  ASSUME NEW files \in Layout, NEW side \in Sides, NEW list, PawnList(list, files, side),
         NEW f \in 1 .. Files
  PROVE  ReadFlags(list, f) = FormatFlags(files[f], side)
<1> DEFINE a == Ahead(files, side, f - 1)
           c == CountOf(files[f], side)
           flags == FormatFlags(files[f], side)
<1>1. a \in Nat /\ c \in Nat
  <2>1. f - 1 \in 0 .. Files
    BY LayoutWords
  <2> QED
    BY <2>1, AheadStep, LayoutWords
<1>2. flags \in Seq(BOOLEAN) /\ Len(flags) = c
  BY LayoutWords, FlagsAre
<1>3. OfFile(list, f) = (a + 1) .. (a + c)
  BY FilePlaces
<1>4. \A k \in 1 .. c : list[a + k].opposed = flags[k]
  <2>1. ASSUME NEW k \in 1 .. c PROVE list[a + k].opposed = flags[k]
    <3>1. list[a + k] = [file |-> f - 1, opposed |-> flags[k]]
      BY DEF PawnList
    <3> QED
      BY <3>1
  <2> QED
    BY <2>1
<1> HIDE DEF a, c, flags
<1>5. Cardinality(OfFile(list, f)) = c /\ \A k \in 1 .. c : Nth(OfFile(list, f), k) = a + k
  BY <1>1, <1>3, NthInterval
<1>6. ReadFlags(list, f) = <<>> \o [k \in 1 .. c |-> flags[k]]
  BY <1>4, <1>5 DEF ReadFlags
<1>7. flags = [k \in 1 .. c |-> flags[k]] /\ <<>> \o flags = flags
  BY <1>2, ConcatEmptySeq
<1>8. ReadFlags(list, f) = flags
  BY <1>6, <1>7
<1> QED
  BY <1>8 DEF flags

\* What parse_elements computes on the way: the number of pawns on a file, the words
\* that fit, the least one, and the elements.
Length(name, f) == Len(ReadFlags(name[STM].pawns, f)) + Len(ReadFlags(name[SNTM].pawns, f))
Fitting(name, f) ==
  {w \in [1 .. Length(name, f) -> Sides] :
     \A side \in Sides : pawn_flags(w, side) = ReadFlags(name[side].pawns, f)}
LeastWord(S) == CHOOSE w \in S : \A v \in S : WordNumber(w) <= WordNumber(v)
ParsedFiles(name) == <<>> \o [f \in 1 .. Files |-> LeastWord(Fitting(name, f))]
Parsed(name) == Elements(ParsedFiles(name), [side \in Sides |-> name[side].men])

\* And what it makes of them.
LEMMA ParseUnfolded ==
  ASSUME NEW name
  PROVE  parse_elements(name) =
           IF /\ \A f \in 1 .. Files : Length(name, f) <= Slots /\ Fitting(name, f) # {}
              /\ validate_elements(Parsed(name))
              /\ compute_tablename(Parsed(name)) = name
           THEN Parsed(name) ELSE Invalid
BY DEF parse_elements, PerFile, Listed, ReadFlags, OfFile, Length, Fitting, LeastWord,
       ParsedFiles, Parsed

-------------------------------------------------------------------------------
(* Words as numbers.                                                        *)

Bit(side) == IF side = SNTM THEN 1 ELSE 0

\* g is the function WordNumber's fold is defined with.
Reads(g, word) ==
  g = [s \in SUBSET DOMAIN word |->
         IF s = {} THEN 1 ELSE 2 * g[s \ {Max(s)}] + Bit(word[Max(s)])]

\* A word's number is that function's value on all slots.
LEMMA WordNumberUnfolded ==
  ASSUME NEW order
  PROVE  WordNumber(order) = (CHOOSE g : Reads(g, Reverse(order)))[DOMAIN Reverse(order)]
BY DEF WordNumber, FoldLeft, MapThenFoldSet, Reads, Bit

\* Such a function exists.
LEMMA ReadsExists ==
  ASSUME NEW word \in Seq(Sides) PROVE \E g : Reads(g, word)
<1> DEFINE J(a) == [x \in Sides |-> 2 * a + Bit(x)]
           step == [a \in Nat |-> J(a)]
<1>1. \A a \in Nat : \A x \in Sides : 2 * a + Bit(x) \in Nat
  BY DEF Bit
<1>2. step \in [Nat -> [Sides -> Nat]]
  BY <1>1
<1>3. \A a \in Nat : \A x \in Sides : step[a][x] = 2 * a + Bit(x)
  <2>1. \A a \in Nat : step[a] = J(a)
    <3> HIDE DEF J
    <3> QED
      OBVIOUS
  <2>2. \A a \in Nat : \A x \in Sides : J(a)[x] = 2 * a + Bit(x)
    OBVIOUS
  <2> HIDE DEF step, J
  <2> QED
    BY <2>1, <2>2
<1> HIDE DEF step
<1>4. PICK g \in [SUBSET (1 .. Len(word)) -> Nat] : FoldsAll(g, step, 1, word, Len(word))
  <2>1. 1 \in Nat
    OBVIOUS
  <2> QED
    BY <2>1, <1>2, FoldExists
<1>5. DOMAIN word = 1 .. Len(word) /\ Len(word) \in Nat
      /\ \A i \in 1 .. Len(word) : word[i] \in Sides
  OBVIOUS
<1>6. \A s \in SUBSET (1 .. Len(word)) : s # {} =>
        Max(s) \in s /\ s \ {Max(s)} \in SUBSET (1 .. Len(word))
  BY <1>5, MaxUpTo
<1>7. \A s \in SUBSET (1 .. Len(word)) :
        g[s] = IF s = {} THEN 1 ELSE 2 * g[s \ {Max(s)}] + Bit(word[Max(s)])
  <2>1. ASSUME NEW s \in SUBSET (1 .. Len(word))
        PROVE  g[s] = IF s = {} THEN 1 ELSE 2 * g[s \ {Max(s)}] + Bit(word[Max(s)])
    <3>1. g[s] = IF s = {} THEN 1 ELSE step[g[s \ {Max(s)}]][word[Max(s)]]
      BY <1>4 DEF FoldsAll
    <3>2. CASE s = {}
      BY <3>1, <3>2
    <3>3. CASE s # {}
      <4>1. g[s \ {Max(s)}] \in Nat /\ word[Max(s)] \in Sides
        BY <3>3, <1>4, <1>5, <1>6
      <4> QED
        BY <4>1, <3>1, <3>3, <1>3
    <3> QED
      BY <3>2, <3>3
  <2> QED
    BY <2>1
<1>8. g = [s \in SUBSET (1 .. Len(word)) |-> g[s]]
  OBVIOUS
<1>9. Reads(g, word)
  BY <1>5, <1>7, <1>8 DEF Reads
<1> QED
  BY <1>9

\* f[k] is what the k highest slots are read as.
Numbering(f, order) ==
  /\ f \in [0 .. Len(order) -> Nat] /\ f[0] = 1
  /\ \A k \in 1 .. Len(order) : f[k] = 2 * f[k - 1] + Bit(order[Len(order) - k + 1])

\* A word's number is read slot by slot.
LEMMA WordNumberChain ==
  ASSUME NEW order \in Seq(Sides)
  PROVE  \E f : Numbering(f, order) /\ WordNumber(order) = f[Len(order)]
<1> DEFINE word == Reverse(order)
           n == Len(order)
           g == CHOOSE h : Reads(h, word)
           f == [k \in 0 .. n |-> g[1 .. k]]
<1>1. n \in Nat /\ DOMAIN order = 1 .. n /\ \A i \in 1 .. n : order[i] \in Sides
  OBVIOUS
<1>2. word = [i \in 1 .. n |-> order[(n - i) + 1]]
  BY DEF Reverse
<1>3. \A i \in 1 .. n : (n - i) + 1 \in 1 .. n
  BY <1>1
<1>4. word \in Seq(Sides) /\ DOMAIN word = 1 .. n
  BY <1>1, <1>2, <1>3
<1>5. Reads(g, word)
  <2> HIDE DEF word
  <2> QED
    BY <1>4, ReadsExists
<1>6. WordNumber(order) = g[1 .. n]
  BY <1>4, WordNumberUnfolded
<1> HIDE DEF g
<1>7. \A k \in 0 .. n : 1 .. k \in SUBSET DOMAIN word
  <2> HIDE DEF n, word
  <2> QED
    BY <1>1, <1>4
<1>8. f[0] = 1
  <2>1. g[{}] = 1
    BY <1>5 DEF Reads
  <2>2. f[0] = g[1 .. 0] /\ 1 .. 0 = {}
    BY <1>1
  <2> HIDE DEF f
  <2> QED
    BY <2>1, <2>2
<1>9. ASSUME NEW k \in 1 .. n PROVE f[k] = 2 * f[k - 1] + Bit(order[n - k + 1])
  <2>1. k \in Nat \ {0} /\ k \in 0 .. n /\ k - 1 \in 0 .. n /\ k \in 1 .. k
    BY <1>1
  <2>2. 1 .. k \in SUBSET DOMAIN word /\ 1 .. k # {}
    BY <2>1, <1>7
  <2>3. g[1 .. k] = 2 * g[(1 .. k) \ {Max(1 .. k)}] + Bit(word[Max(1 .. k)])
    <3> HIDE DEF word
    <3> QED
      BY <2>2, <1>5 DEF Reads
  <2>4. Max(1 .. k) = k /\ (1 .. k) \ {k} = 1 .. (k - 1)
    BY <2>1, RangeLast
  <2>5. word[k] = order[n - k + 1]
    BY <1>2
  <2>6. f[k] = g[1 .. k] /\ f[k - 1] = g[1 .. (k - 1)]
    BY <2>1
  <2> HIDE DEF f, word
  <2> QED
    BY <2>3, <2>4, <2>5, <2>6
<1>10. \A k \in 0 .. n : f[k] \in Nat
  <2> DEFINE D == {k \in Nat : f[k] \in Nat}
  <2>1. 0 \in D
    BY <1>8
  <2>2. ASSUME NEW k \in 1 .. n, k - 1 \in D PROVE k \in D
    <3>1. f[k - 1] \in Nat /\ k \in Nat
      BY <2>2, <1>1
    <3>2. f[k] = 2 * f[k - 1] + Bit(order[n - k + 1])
      BY <1>9
    <3> HIDE DEF f
    <3>3. f[k] \in Nat
      BY <3>1, <3>2 DEF Bit
    <3> QED
      BY <3>1, <3>3
  <2>3. \A k \in 0 .. n : k \in D
    <3> HIDE DEF D, n
    <3> QED
      BY <2>1, <2>2, <1>1, Climb
  <2> QED
    BY <2>3
<1>11. f[n] = g[1 .. n]
  BY <1>1
<1>12. Numbering(f, order)
  <2>1. f = [k \in 0 .. n |-> f[k]]
    OBVIOUS
  <2> HIDE DEF f
  <2> QED
    BY <2>1, <1>8, <1>9, <1>10 DEF Numbering
<1> HIDE DEF f
<1> QED
  BY <1>6, <1>11, <1>12

\* Words that are read as one number are equal, the shorter named first.
LEMMA NumberingsAgree ==
  ASSUME NEW v \in Seq(Sides), NEW w \in Seq(Sides), Len(v) <= Len(w),
         NEW f, Numbering(f, v), NEW h, Numbering(h, w), f[Len(v)] = h[Len(w)]
  PROVE  v = w
<1> DEFINE n == Len(v)
           m == Len(w)
<1>1. /\ n \in Nat /\ m \in Nat /\ n <= m
      /\ \A i \in 1 .. n : v[i] = STM \/ v[i] = SNTM
      /\ \A i \in 1 .. m : w[i] = STM \/ w[i] = SNTM
  BY SidesAre
<1>2. /\ \A k \in 0 .. n : f[k] \in Nat
      /\ \A k \in 0 .. m : h[k] \in Nat
      /\ f[0] = 1 /\ h[0] = 1 /\ f[n] = h[m]
      /\ \A k \in 1 .. n : f[k] = 2 * f[k - 1] + Bit(v[n - k + 1])
      /\ \A k \in 1 .. m : h[k] = 2 * h[k - 1] + Bit(w[m - k + 1])
  BY DEF Numbering
<1> HIDE DEF n, m
<1>3. \A x : Bit(x) \in {0, 1}
  BY DEF Bit
<1>4. ASSUME NEW j \in 1 .. n, f[n - (j - 1)] = h[m - (j - 1)]
      PROVE  f[n - j] = h[m - j] /\ Bit(v[j]) = Bit(w[j])
  <2>1. /\ n - (j - 1) \in 1 .. n /\ m - (j - 1) \in 1 .. m
        /\ n - j \in 0 .. n /\ m - j \in 0 .. m
        /\ n - (j - 1) - 1 = n - j /\ m - (j - 1) - 1 = m - j
        /\ n - (n - (j - 1)) + 1 = j /\ m - (m - (j - 1)) + 1 = j
    BY <1>1
  <2>2. f[n - (j - 1)] = 2 * f[n - j] + Bit(v[j])
    BY <2>1, <1>2
  <2>3. h[m - (j - 1)] = 2 * h[m - j] + Bit(w[j])
    BY <2>1, <1>2
  <2>4. f[n - j] \in Nat /\ h[m - j] \in Nat
    BY <2>1, <1>2
  <2> DEFINE a == f[n - j]
             c == h[m - j]
             p == Bit(v[j])
             q == Bit(w[j])
  <2>5. 2 * a + p = 2 * c + q
    BY <2>2, <2>3, <1>4
  <2>6. a \in Nat /\ c \in Nat /\ p \in {0, 1} /\ q \in {0, 1}
    BY <2>4, <1>3
  <2>7. a = c /\ p = q
    <3> HIDE DEF a, c, p, q
    <3> QED
      BY <2>5, <2>6
  <2> QED
    BY <2>7
<1> DEFINE D == {j \in Nat : f[n - j] = h[m - j]}
<1>5. \A j \in 0 .. n : j \in D
  <2>1. 0 \in D
    BY <1>1, <1>2
  <2>2. ASSUME NEW j \in 1 .. n, j - 1 \in D PROVE j \in D
    <3>1. f[n - (j - 1)] = h[m - (j - 1)]
      BY <2>2
    <3> QED
      BY <3>1, <1>1, <1>4
  <2> HIDE DEF D
  <2> QED
    BY <2>1, <2>2, <1>1, Climb
<1>6. \A j \in 0 .. n : f[n - j] = h[m - j]
  BY <1>5
<1>7. m = n
  <2>1. h[m - n] = 1
    <3>1. n \in 0 .. n /\ n - n = 0
      BY <1>1
    <3> QED
      BY <3>1, <1>2, <1>6
  <2>2. ASSUME m - n # 0 PROVE FALSE
    <3> DEFINE k == m - n
    <3>1. k \in 1 .. m /\ k - 1 \in 0 .. m
      BY <2>2, <1>1
    <3>2. \A i \in 0 .. m : h[i] # 0
      <4> DEFINE E == {i \in Nat : h[i] # 0}
      <4>1. 0 \in E
        BY <1>2
      <4>2. ASSUME NEW i \in 1 .. m, i - 1 \in E PROVE i \in E
        <5>1. h[i] = 2 * h[i - 1] + Bit(w[m - i + 1]) /\ Bit(w[m - i + 1]) \in {0, 1}
          BY <1>2, <1>3
        <5>2. i - 1 \in 0 .. m /\ i \in Nat
          BY <1>1
        <5>3. h[i - 1] \in Nat /\ h[i - 1] # 0
          BY <5>2, <4>2, <1>2
        <5>4. h[i] # 0
          BY <5>1, <5>3
        <5> QED
          BY <5>2, <5>4
      <4>3. \A i \in 0 .. m : i \in E
        <5> HIDE DEF E
        <5> QED
          BY <4>1, <4>2, <1>1, Climb
      <4> QED
        BY <4>3
    <3>3. h[k] = 2 * h[k - 1] + Bit(w[m - k + 1]) /\ Bit(w[m - k + 1]) \in {0, 1}
      BY <3>1, <1>2, <1>3
    <3>4. h[k - 1] \in Nat /\ h[k - 1] # 0
      BY <3>1, <3>2, <1>2
    <3>5. h[k] = 1
      BY <2>1
    <3> HIDE DEF k
    <3> QED
      BY <3>3, <3>4, <3>5
  <2> QED
    BY <2>2, <1>1
<1>8. \A j \in 1 .. n : v[j] = w[j]
  <2>1. ASSUME NEW j \in 1 .. n PROVE v[j] = w[j]
    <3>1. j - 1 \in 0 .. n
      BY <1>1
    <3>2. Bit(v[j]) = Bit(w[j])
      BY <3>1, <1>4, <1>6
    <3> QED
      BY <3>2, <1>1, <1>7, SidesAre DEF Bit
  <2> QED
    BY <2>1
<1>9. v = [j \in 1 .. n |-> v[j]] /\ w = [j \in 1 .. m |-> w[j]]
  BY DEF n, m
<1> QED
  BY <1>7, <1>8, <1>9

\* No two words have one number.
LEMMA WordNumberIs ==
  ASSUME NEW v \in Seq(Sides), NEW w \in Seq(Sides)
  PROVE  WordNumber(v) \in Nat /\ (WordNumber(v) = WordNumber(w) => v = w)
<1>1. PICK f : Numbering(f, v) /\ WordNumber(v) = f[Len(v)]
  BY WordNumberChain
<1>2. PICK h : Numbering(h, w) /\ WordNumber(w) = h[Len(w)]
  BY WordNumberChain
<1>3. Len(v) \in Nat /\ Len(w) \in Nat
  OBVIOUS
<1>4. Len(v) \in 0 .. Len(v)
  BY <1>3
<1>5. WordNumber(v) \in Nat
  BY <1>1, <1>4 DEF Numbering
<1>6. ASSUME WordNumber(v) = WordNumber(w) PROVE v = w
  <2>1. CASE Len(v) <= Len(w)
    BY <2>1, <1>1, <1>2, <1>6, NumberingsAgree
  <2>2. CASE Len(w) <= Len(v)
    <3>1. h[Len(w)] = f[Len(v)]
      BY <1>1, <1>2, <1>6
    <3>2. w = v
      BY <3>1, <2>2, <1>1, <1>2, NumberingsAgree
    <3> QED
      BY <3>2
  <2> QED
    BY <2>1, <2>2, <1>3
<1> QED
  BY <1>5, <1>6

-------------------------------------------------------------------------------
(* Names give back what they were made from.                                *)

\* The one word that fits a file of a name is the one it was made from.
LEMMA FittingIs ==
  ASSUME NEW files \in Layout, NEW men, NEW f \in 1 .. Files
  PROVE  LET name == format_name(files, men)
         IN /\ Length(name, f) = Len(files[f])
            /\ Fitting(name, f) = {files[f]}
            /\ LeastWord(Fitting(name, f)) = files[f]
<1> DEFINE name == format_name(files, men)
           w == files[f]
<1>1. w \in Seq(Sides) /\ Len(w) \in Nat
  BY LayoutWords
<1>2. \A side \in Sides : ReadFlags(name[side].pawns, f) = FormatFlags(w, side)
  <2>1. \A side \in Sides : PawnList(name[side].pawns, files, side)
    BY FormatShape
  <2> HIDE DEF name
  <2> QED
    BY <2>1, FlagsRead
<1> HIDE DEF name
<1>3. Length(name, f) = Len(w)
  <2>1. \A side \in Sides : Len(ReadFlags(name[side].pawns, f)) = CountOf(w, side)
    BY <1>1, <1>2, FlagsAre
  <2>2. CountOf(w, STM) + CountOf(w, SNTM) = Len(w)
    BY <1>1, SlotsDivide
  <2> HIDE DEF w
  <2> QED
    BY <2>1, <2>2, SidesAre DEF Length
<1>4. Fitting(name, f) = {w}
  <2>1. w \in Fitting(name, f)
    <3>1. w \in [1 .. Len(w) -> Sides]
      BY <1>1
    <3>2. \A side \in Sides : pawn_flags(w, side) = ReadFlags(name[side].pawns, f)
      BY <1>1, <1>2, PawnFlagsAre
    <3> HIDE DEF w
    <3> QED
      BY <3>1, <3>2, <1>3 DEF Fitting
  <2>2. ASSUME NEW v \in Fitting(name, f) PROVE v = w
    <3>1. v \in [1 .. Len(w) -> Sides]
          /\ \A side \in Sides : pawn_flags(v, side) = FormatFlags(w, side)
      BY <1>2, <1>3 DEF Fitting
    <3>2. v \in Seq(Sides)
      BY <3>1, <1>1
    <3>3. \A side \in Sides : FormatFlags(v, side) = FormatFlags(w, side)
      BY <3>1, <3>2, PawnFlagsAre
    <3> HIDE DEF w
    <3> QED
      BY <3>2, <3>3, <1>1, FlagsIdentifyWords
  <2> QED
    BY <2>1, <2>2
<1>5. LeastWord({w}) = w
  <2>1. WordNumber(w) <= WordNumber(w)
    <3>1. WordNumber(w) \in Nat
      BY <1>1, WordNumberIs
    <3> QED
      BY <3>1
  <2> HIDE DEF w
  <2> QED
    BY <2>1 DEF LeastWord
<1> QED
  BY <1>3, <1>4, <1>5 DEF name

\* Whatever its pawns and men, the name of a table that is not too large is parsed to
\* exactly the elements it was made from (compute_tablename, parse_elements).
THEOREM NamesIdentify ==
  ASSUME NEW files \in Layout, NEW Men, NEW men \in [Sides -> Men],
         validate_elements(Elements(files, men))
  PROVE  parse_elements(compute_tablename(Elements(files, men))) = Elements(files, men)
<1> DEFINE name == format_name(files, men)
<1>1. compute_tablename(Elements(files, men)) = name
  BY DEF compute_tablename, Elements
<1>2. ASSUME NEW f \in 1 .. Files
      PROVE  /\ Length(name, f) = Len(files[f]) /\ Fitting(name, f) = {files[f]}
             /\ LeastWord(Fitting(name, f)) = files[f]
  BY FittingIs
<1>3. \A side \in Sides : name[side].men = men[side]
  BY FormatShape
<1> HIDE DEF name
<1>4. ParsedFiles(name) = files
  <2>1. ParsedFiles(name) = <<>> \o [f \in 1 .. Files |-> files[f]]
    BY <1>2 DEF ParsedFiles
  <2>2. files = [f \in 1 .. Files |-> files[f]]
    BY DEF Layout
  <2>3. <<>> \o files = files
    <3>1. files \in [1 .. Files -> Words] /\ Files \in Nat
      BY LayoutWords DEF Layout
    <3> QED
      BY <3>1, ListedIs
  <2> QED
    BY <2>1, <2>2, <2>3
<1>5. Parsed(name) = Elements(files, men)
  <2>1. [side \in Sides |-> name[side].men] = men
    BY <1>3
  <2> QED
    BY <2>1, <1>4 DEF Parsed
<1>6. \A f \in 1 .. Files : Length(name, f) <= Slots /\ Fitting(name, f) # {}
  BY <1>2, LayoutWords
<1>7. parse_elements(name) = Elements(files, men)
  BY <1>1, <1>5, <1>6, ParseUnfolded
<1> QED
  BY <1>1, <1>7

-------------------------------------------------------------------------------
(* Reflection.                                                              *)

\* Precedes is a strict total order of sequences of numbers.
LEMMA PrecedesOrders ==
  ASSUME NEW s \in Seq(Nat), NEW t \in Seq(Nat), NEW u \in Seq(Nat)
  PROVE  /\ ~ Precedes(s, s)
         /\ Precedes(s, t) /\ Precedes(t, u) => Precedes(s, u)
         /\ s = t \/ Precedes(s, t) \/ Precedes(t, s)
<1>1. \A a, b : Precedes(a, b) <=> Lex(a, b)
  BY DEF Precedes, Lex
<1> QED
  BY <1>1, LexOrders

\* A reflected layout has the same words on the opposite files.
LEMMA ReflectedLayout ==
  ASSUME NEW files \in Layout
  PROVE  /\ Reverse(files) \in Layout
         /\ \A f \in 1 .. Files : /\ Files + 1 - f \in 1 .. Files
                                  /\ Reverse(files)[f] = files[Files + 1 - f]
         /\ Reverse(Reverse(files)) = files
<1>1. files \in [1 .. Files -> Words] /\ Files \in Nat
  BY LayoutWords DEF Layout
<1>2. Len(files) = Files
  BY <1>1
<1>3. Reverse(files) = [f \in 1 .. Files |-> files[(Files - f) + 1]]
  BY <1>2 DEF Reverse
<1>4. \A f \in 1 .. Files : (Files - f) + 1 = Files + 1 - f /\ Files + 1 - f \in 1 .. Files
                            /\ Files + 1 - (Files + 1 - f) = f
  BY <1>1
<1>5. \A f \in 1 .. Files : Reverse(files)[f] = files[Files + 1 - f]
  BY <1>3, <1>4
<1>6. Reverse(files) \in [1 .. Files -> Words]
  BY <1>1, <1>3, <1>4
<1>7. Len(Reverse(files)) = Files
  BY <1>1, <1>6
<1>8. Reverse(Reverse(files)) = [f \in 1 .. Files |-> Reverse(files)[(Files - f) + 1]]
  BY <1>7 DEF Reverse
<1>9. \A f \in 1 .. Files : Reverse(files)[(Files - f) + 1] = files[f]
  BY <1>4, <1>5
<1>10. files = [f \in 1 .. Files |-> files[f]]
  BY <1>1
<1>11. Reverse(Reverse(files)) = files
  BY <1>8, <1>9, <1>10
<1> QED
  BY <1>4, <1>5, <1>6, <1>11 DEF Layout

\* The pawns ahead on the reflection are those behind.
LEMMA AheadReflected ==
  ASSUME NEW files \in Layout, NEW side, NEW f \in 0 .. Files
  PROVE  Ahead(Reverse(files), side, f)
           = Ahead(files, side, Files) - Ahead(files, side, Files - f)
<1> DEFINE R == Reverse(files)
           D == {k \in Nat : Ahead(R, side, k)
                               = Ahead(files, side, Files) - Ahead(files, side, Files - k)}
<1>1. R \in Layout /\ Files \in Nat
  BY ReflectedLayout, LayoutWords
<1>2. /\ \A k \in 0 .. Files : Ahead(files, side, k) \in Nat
      /\ Ahead(R, side, 0) = 0
      /\ \A k \in 1 .. Files : Ahead(files, side, k)
                                 = Ahead(files, side, k - 1) + CountOf(files[k], side)
      /\ \A k \in 1 .. Files : Ahead(R, side, k) = Ahead(R, side, k - 1) + CountOf(R[k], side)
  BY <1>1, AheadStep
<1>3. \A k \in 1 .. Files : R[k] = files[Files + 1 - k] /\ Files + 1 - k \in 1 .. Files
  BY ReflectedLayout
<1> HIDE DEF R
<1>4. 0 \in D
  <2>1. Files \in 0 .. Files /\ Files - 0 = Files
    BY <1>1
  <2> QED
    BY <2>1, <1>2
<1>5. ASSUME NEW k \in 1 .. Files, k - 1 \in D PROVE k \in D
  <2> DEFINE g == Files + 1 - k
  <2>1. g \in 1 .. Files /\ g - 1 = Files - k /\ g = Files - (k - 1)
        /\ g \in 0 .. Files /\ g - 1 \in 0 .. Files /\ Files \in 0 .. Files /\ k \in Nat
    BY <1>1
  <2> HIDE DEF g
  <2>2. Ahead(R, side, k - 1) = Ahead(files, side, Files) - Ahead(files, side, g)
    BY <2>1, <1>5
  <2>3. Ahead(files, side, g) = Ahead(files, side, g - 1) + CountOf(files[g], side)
    BY <2>1, <1>2
  <2>4. Ahead(R, side, k) = Ahead(R, side, k - 1) + CountOf(files[g], side)
    BY <1>2, <1>3 DEF g
  <2>5. CountOf(files[g], side) \in Nat
    BY <2>1, LayoutWords
  <2>6. Ahead(files, side, Files) \in Nat /\ Ahead(files, side, g - 1) \in Nat
    BY <2>1, <1>2
  <2>7. Ahead(R, side, k) = Ahead(files, side, Files) - Ahead(files, side, g - 1)
    BY <2>2, <2>3, <2>4, <2>5, <2>6
  <2> QED
    BY <2>1, <2>7
<1>6. \A k \in 0 .. Files : k \in D
  <2> HIDE DEF D
  <2> QED
    BY <1>1, <1>4, <1>5, Climb, Zenon
<1> QED
  BY <1>6 DEF R

\* list has the file of each of a side's pawns.
FilesListed(list, files, side) ==
  /\ list \in Seq(0 .. Files - 1) /\ Len(list) = Ahead(files, side, Files)
  /\ \A f \in 1 .. Files : \A k \in 1 .. CountOf(files[f], side) :
       list[Ahead(files, side, f - 1) + k] = f - 1

\* Only one list has.
LEMMA FilesListedOnce ==
  ASSUME NEW files \in Layout, NEW side, NEW list, FilesListed(list, files, side),
         NEW other, FilesListed(other, files, side)
  PROVE  list = other
<1>1. /\ list = [i \in 1 .. Ahead(files, side, Files) |-> list[i]]
      /\ other = [i \in 1 .. Ahead(files, side, Files) |-> other[i]]
  BY DEF FilesListed
<1>2. ASSUME NEW i \in 1 .. Ahead(files, side, Files) PROVE list[i] = other[i]
  <2>1. PICK f \in 1 .. Files : \E k \in 1 .. CountOf(files[f], side) :
          i = Ahead(files, side, f - 1) + k
    BY OnFile
  <2>2. PICK k \in 1 .. CountOf(files[f], side) : i = Ahead(files, side, f - 1) + k
    BY <2>1
  <2> QED
    BY <2>2 DEF FilesListed
<1> QED
  BY <1>1, <1>2

\* FileList does.
LEMMA FileListIs ==
  ASSUME NEW files \in Layout, NEW side
  PROVE  FilesListed(FileList(files, side), files, side)
<1> DEFINE E == 0 .. Files - 1
           count(f) == CountOf(files[f], side)
           pieces(f) == <<>> \o [k \in 1 .. count(f) |-> f - 1]
           seqs == <<>> \o [f \in 1 .. Files |-> pieces(f)]
           pre == [f \in 0 .. Files |-> Ahead(files, side, f)]
<1>1. FileList(files, side) = FlattenSeq(seqs)
  BY DEF FileList, PerFile, Listed
<1>2. Files \in Nat /\ \A f \in 1 .. Files : count(f) \in Nat /\ f - 1 \in E
  <2>1. Files \in Nat /\ \A f \in 1 .. Files : count(f) \in Nat
    BY LayoutWords
  <2>2. \A f \in 1 .. Files : f - 1 \in E
    BY <2>1
  <2> QED
    BY <2>1, <2>2
<1>3. ASSUME NEW f \in 1 .. Files
      PROVE  /\ pieces(f) \in Seq(E) /\ Len(pieces(f)) = count(f)
             /\ \A k \in 1 .. count(f) : pieces(f)[k] = f - 1
  <2> DEFINE g == [k \in 1 .. count(f) |-> f - 1]
  <2>1. g \in [1 .. count(f) -> E] /\ \A k \in 1 .. count(f) : g[k] = f - 1
    BY <1>2
  <2>2. <<>> \o g = g /\ g \in Seq(E) /\ Len(g) = count(f)
    <3>1. count(f) \in Nat
      BY <1>2
    <3> HIDE DEF g, count, E
    <3> QED
      BY <2>1, <3>1, ListedIs
  <2>3. pieces(f) = <<>> \o g
    OBVIOUS
  <2> HIDE DEF g, pieces
  <2> QED
    BY <2>1, <2>2, <2>3
<1> HIDE DEF pieces, E
<1>4. /\ seqs \in Seq(Seq(E)) /\ Len(seqs) = Files
      /\ \A f \in 1 .. Files : seqs[f] = pieces(f)
  <2> DEFINE h == [f \in 1 .. Files |-> pieces(f)]
  <2>1. h \in [1 .. Files -> Seq(E)] /\ \A f \in 1 .. Files : h[f] = pieces(f)
    BY <1>3
  <2>2. <<>> \o h = h /\ h \in Seq(Seq(E)) /\ Len(h) = Files
    <3> HIDE DEF h
    <3> QED
      BY <2>1, <1>2, ListedIs
  <2>3. seqs = <<>> \o h
    OBVIOUS
  <2> HIDE DEF h, seqs
  <2> QED
    BY <2>1, <2>2, <2>3
<1> HIDE DEF seqs
<1>5. /\ pre \in [0 .. Len(seqs) -> Nat] /\ pre[0] = 0
      /\ \A f \in 1 .. Len(seqs) : pre[f] = pre[f - 1] + Len(seqs[f])
  <2>1. \A f \in 0 .. Files : pre[f] = Ahead(files, side, f) /\ Ahead(files, side, f) \in Nat
    BY AheadStep
  <2>2. \A f \in 1 .. Files : f \in 0 .. Files /\ f - 1 \in 0 .. Files
    BY <1>2
  <2>3. 0 \in 0 .. Files
    BY <1>2
  <2>4. \A f \in 1 .. Files : pre[f] = pre[f - 1] + Len(seqs[f])
    BY <2>1, <2>2, <1>3, <1>4, AheadStep
  <2> QED
    BY <2>1, <2>3, <2>4, <1>4, AheadStep
<1>6. /\ Joined(seqs) \in Seq(E) /\ Len(Joined(seqs)) = pre[Len(seqs)]
      /\ \A f \in 1 .. Len(seqs) : \A k \in 1 .. Len(seqs[f]) :
           Joined(seqs)[pre[f - 1] + k] = seqs[f][k]
  <2> HIDE DEF pre
  <2>1. seqs \in Seq(Seq(E))
    BY <1>4
  <2>2. StartsOf(pre, seqs)
    BY <1>5 DEF StartsOf
  <2>3. InPieces(Joined(seqs), seqs, pre, E)
    BY <2>1, <2>2, Flattened
  <2> QED
    BY <2>3 DEF InPieces
<1>7. FlattenSeq(seqs) = Joined(seqs)
  BY FlattenJoins
<1>8. pre[Files] = Ahead(files, side, Files)
      /\ \A f \in 1 .. Files : pre[f - 1] = Ahead(files, side, f - 1)
  BY <1>2
<1> HIDE DEF pre
<1>9. Len(Joined(seqs)) = Ahead(files, side, Files)
  BY <1>4, <1>6, <1>8
<1>10. ASSUME NEW f \in 1 .. Files, NEW k \in 1 .. CountOf(files[f], side)
       PROVE  Joined(seqs)[Ahead(files, side, f - 1) + k] = f - 1
  <2>1. f \in 1 .. Len(seqs) /\ k \in 1 .. Len(seqs[f]) /\ seqs[f][k] = f - 1
    BY <1>3, <1>4
  <2>2. Joined(seqs)[pre[f - 1] + k] = seqs[f][k]
    BY <2>1, <1>6
  <2> QED
    BY <2>1, <2>2, <1>8
<1> QED
  BY <1>1, <1>6, <1>7, <1>9, <1>10 DEF FilesListed, E

\* Flipped, it is the reflection's.
LEMMA FlipsToReflected ==
  ASSUME NEW files \in Layout, NEW side
  PROVE  FlipFiles(FileList(files, side)) = FileList(Reverse(files), side)
<1> DEFINE L == FileList(files, side)
           R == Reverse(files)
           n == Ahead(files, side, Files)
           flip == [i \in 1 .. n |-> Files - 1 - L[n + 1 - i]]
<1>1. FilesListed(L, files, side)
  BY FileListIs
<1>2. R \in Layout /\ Files \in Nat /\ Files \in 0 .. Files /\ 0 \in 0 .. Files
  BY ReflectedLayout, LayoutWords
<1>3. n \in Nat
  BY <1>2, AheadStep
<1> HIDE DEF L, R, n
<1>4. L \in Seq(0 .. Files - 1) /\ Len(L) = n
  BY <1>1 DEF FilesListed, n
<1>5. FlipFiles(L) = <<>> \o flip
  BY <1>4 DEF FlipFiles, Listed
<1>6. \A i \in 1 .. n : n + 1 - i \in 1 .. n
  BY <1>3
<1>7. flip \in [1 .. n -> 0 .. Files - 1]
  <2>1. \A i \in 1 .. n : L[i] \in 0 .. Files - 1
    <3> DEFINE E == 0 .. Files - 1
    <3>1. L \in Seq(E)
      BY <1>4
    <3> HIDE DEF E
    <3>2. \A i \in 1 .. Len(L) : L[i] \in E
      BY <3>1
    <3> QED
      BY <3>2, <1>4 DEF E
  <2>2. \A i \in 1 .. n : L[n + 1 - i] \in 0 .. Files - 1
    BY <2>1, <1>6
  <2>3. \A x \in 0 .. Files - 1 : Files - 1 - x \in 0 .. Files - 1
    BY <1>2
  <2> QED
    BY <2>2, <2>3
<1>8. <<>> \o flip = flip /\ flip \in Seq(0 .. Files - 1) /\ Len(flip) = n
  <2> HIDE DEF flip
  <2> QED
    BY <1>3, <1>7, ListedIs
<1>9. Ahead(R, side, Files) = n
  <2>1. Ahead(R, side, Files) = Ahead(files, side, Files) - Ahead(files, side, Files - Files)
    BY <1>2, AheadReflected DEF R
  <2>2. Files - Files = 0 /\ Ahead(files, side, 0) = 0
    BY <1>2, AheadStep
  <2> QED
    BY <2>1, <2>2, <1>3 DEF n
<1>10. ASSUME NEW f \in 1 .. Files, NEW k \in 1 .. CountOf(R[f], side)
       PROVE  flip[Ahead(R, side, f - 1) + k] = f - 1
  <2> DEFINE g == Files + 1 - f
             c == CountOf(files[g], side)
             a == Ahead(files, side, g - 1)
  <2>1. /\ g \in 1 .. Files /\ R[f] = files[g] /\ g \in 0 .. Files /\ g - 1 \in 0 .. Files
        /\ f - 1 \in 0 .. Files /\ Files - (f - 1) = g /\ f = Files + 1 - g
    BY <1>2, ReflectedLayout DEF R
  <2>2. c \in Nat /\ k \in 1 .. c
    BY <2>1, LayoutWords
  <2>3. Ahead(files, side, g) = a + c /\ a \in Nat
    BY <2>1, AheadStep
  <2>4. Ahead(R, side, f - 1) = n - (a + c)
    <3>1. Ahead(R, side, f - 1) = n - Ahead(files, side, Files - (f - 1))
      BY <2>1, AheadReflected DEF R, n
    <3> QED
      BY <2>1, <2>3, <3>1
  <2>5. a + c <= n
    <3>1. g <= Files
      BY <2>1, <1>2
    <3>2. Ahead(files, side, g) <= Ahead(files, side, Files)
      BY <3>1, <2>1, <1>2, AheadGrows
    <3> QED
      BY <3>2, <2>3 DEF n
  <2>6. L[a + (c + 1 - k)] = g - 1
    <3>1. c + 1 - k \in 1 .. c
      BY <2>2
    <3>2. \A j \in 1 .. c : L[a + j] = g - 1
      BY <2>1, <1>1 DEF FilesListed
    <3> HIDE DEF a, c, g
    <3> QED
      BY <3>1, <3>2
  <2> HIDE DEF a, c, g, flip
  <2> DEFINE i == Ahead(R, side, f - 1) + k
  <2>7. i \in 1 .. n /\ n + 1 - i = a + (c + 1 - k)
    BY <2>2, <2>3, <2>4, <2>5, <1>3
  <2>8. flip[i] = Files - 1 - L[n + 1 - i]
    <3> HIDE DEF i
    <3> QED
      BY <2>7 DEF flip
  <2>9. Files - 1 - (g - 1) = f - 1
    BY <2>1, <1>2
  <2> QED
    BY <2>6, <2>7, <2>8, <2>9
<1>11. FilesListed(flip, R, side)
  <2> HIDE DEF flip
  <2> QED
    BY <1>8, <1>9, <1>10 DEF FilesListed
<1>12. FilesListed(FileList(R, side), R, side)
  BY <1>2, FileListIs
<1>13. flip = FileList(R, side)
  <2> HIDE DEF flip
  <2> QED
    BY <1>2, <1>11, <1>12, FilesListedOnce
<1> QED
  BY <1>5, <1>8, <1>13 DEF L, R

\* What canonicalized compares: the files of the mover's pawns, those of the other
\* side's, and the words as numbers.
Look(files) == (FileList(files, STM) \o FileList(files, SNTM)) \o Numbers(files)

\* Sequences that are joined from equally long last parts have equal last parts.
LEMMA LastParts ==
  ASSUME NEW s \in Seq(Nat), NEW t \in Seq(Nat), NEW p \in Seq(Nat), NEW q \in Seq(Nat),
         Len(p) = Len(q), s \o p = t \o q
  PROVE  p = q
<1>1. Len(s) \in Nat /\ Len(t) \in Nat /\ Len(p) \in Nat
  OBVIOUS
<1>2. /\ Len(s \o p) = Len(s) + Len(p)
      /\ \A i \in 1 .. Len(s) + Len(p) :
           (s \o p)[i] = IF i <= Len(s) THEN s[i] ELSE p[i - Len(s)]
  BY ConcatProperties
<1>3. /\ Len(t \o q) = Len(t) + Len(q)
      /\ \A i \in 1 .. Len(t) + Len(q) :
           (t \o q)[i] = IF i <= Len(t) THEN t[i] ELSE q[i - Len(t)]
  BY ConcatProperties
<1>4. Len(s) = Len(t)
  BY <1>1, <1>2, <1>3
<1>5. ASSUME NEW i \in 1 .. Len(p) PROVE p[i] = q[i]
  <2>1. Len(s) + i \in 1 .. Len(s) + Len(p) /\ ~ (Len(s) + i <= Len(s))
        /\ (Len(s) + i) - Len(s) = i
    BY <1>1
  <2>2. (s \o p)[Len(s) + i] = p[i]
    BY <2>1, <1>2
  <2>3. (t \o q)[Len(s) + i] = q[i]
    BY <2>1, <1>3, <1>4
  <2> QED
    BY <2>2, <2>3
<1>6. p = [i \in 1 .. Len(p) |-> p[i]] /\ q = [i \in 1 .. Len(p) |-> q[i]]
  OBVIOUS
<1> QED
  BY <1>5, <1>6

\* The numbers of the words.
LEMMA NumbersAre ==
  ASSUME NEW files \in Layout
  PROVE  /\ Numbers(files) \in Seq(Nat) /\ Len(Numbers(files)) = Files
         /\ \A f \in 1 .. Files : Numbers(files)[f] = WordNumber(files[f])
<1> DEFINE g == [f \in 1 .. Files |-> WordNumber(files[f])]
<1>1. Numbers(files) = <<>> \o g
  BY DEF Numbers, PerFile, Listed
<1>2. g \in [1 .. Files -> Nat] /\ \A f \in 1 .. Files : g[f] = WordNumber(files[f])
  <2>1. \A f \in 1 .. Files : WordNumber(files[f]) \in Nat
    BY LayoutWords, WordNumberIs
  <2> QED
    BY <2>1
<1>3. <<>> \o g = g /\ g \in Seq(Nat) /\ Len(g) = Files
  <2> HIDE DEF g
  <2> QED
    BY <1>2, ListedIs, LayoutWords
<1> HIDE DEF g
<1> QED
  BY <1>1, <1>2, <1>3

\* Layouts that look alike are equal.
LEMMA LookIs ==
  ASSUME NEW files \in Layout
  PROVE  /\ Look(files) \in Seq(Nat)
         /\ \A other \in Layout : Look(files) = Look(other) => files = other
<1>1. ASSUME NEW some \in Layout
      PROVE  /\ FileList(some, STM) \o FileList(some, SNTM) \in Seq(Nat)
             /\ Look(some) \in Seq(Nat)
  <2>1. \A side : FileList(some, side) \in Seq(Nat)
    <3>1. SUFFICES ASSUME NEW side PROVE FileList(some, side) \in Seq(Nat)
      OBVIOUS
    <3>2. FileList(some, side) \in Seq(0 .. Files - 1)
      BY FileListIs DEF FilesListed
    <3>3. 0 .. Files - 1 \subseteq Nat
      BY LayoutWords
    <3> DEFINE list == FileList(some, side)
               E == 0 .. Files - 1
    <3> HIDE DEF list, E
    <3>4. list \in Seq(E) /\ E \subseteq Nat
      BY <3>2, <3>3 DEF list, E
    <3>5. list \in [1 .. Len(list) -> E] /\ Len(list) \in Nat
      BY <3>4
    <3>6. list \in [1 .. Len(list) -> Nat]
      BY <3>4, <3>5
    <3>7. list \in Seq(Nat)
      BY <3>5, <3>6
    <3> QED
      BY <3>7 DEF list
  <2>2. FileList(some, STM) \o FileList(some, SNTM) \in Seq(Nat)
    BY <2>1, ConcatProperties
  <2> QED
    BY <2>2, NumbersAre, ConcatProperties DEF Look
<1>2. ASSUME NEW other \in Layout, Look(files) = Look(other) PROVE files = other
  <2>1. Numbers(files) = Numbers(other)
    <3>1. Len(Numbers(files)) = Len(Numbers(other))
      BY NumbersAre
    <3> QED
      BY <3>1, <1>1, <1>2, NumbersAre, LastParts DEF Look
  <2>2. \A f \in 1 .. Files : files[f] = other[f]
    <3>1. ASSUME NEW f \in 1 .. Files PROVE files[f] = other[f]
      <4>1. WordNumber(files[f]) = WordNumber(other[f])
        BY <2>1, NumbersAre
      <4>2. files[f] \in Seq(Sides) /\ other[f] \in Seq(Sides)
        BY LayoutWords
      <4> QED
        BY <4>1, <4>2, WordNumberIs
    <3> QED
      BY <3>1
  <2>3. files = [f \in 1 .. Files |-> files[f]] /\ other = [f \in 1 .. Files |-> other[f]]
    BY DEF Layout
  <2> QED
    BY <2>2, <2>3
<1> QED
  BY <1>1, <1>2

\* The orientation is the one that looks less.
LEMMA CanonicalizedIs ==
  ASSUME NEW files \in Layout
  PROVE  canonicalized(files) =
           IF Precedes(Look(Reverse(files)), Look(files))
           THEN [files |-> Reverse(files), reflected |-> TRUE]
           ELSE [files |-> files, reflected |-> FALSE]
BY FlipsToReflected DEF canonicalized, reflected, Look

\* A layout and its reflection have one orientation, and one of the two is reflected
\* to it unless they are equal.
LEMMA CanonicalOrientation ==
  ASSUME NEW files \in Layout
  PROVE  LET c == canonicalized(files)
             r == canonicalized(Reverse(files))
         IN /\ c.files \in Layout /\ c.files \in {files, Reverse(files)}
            /\ c.files = r.files
            /\ r.reflected = (IF Reverse(files) = files THEN FALSE ELSE ~ c.reflected)
            /\ canonicalized(c.files) = [files |-> c.files, reflected |-> FALSE]
<1> DEFINE R == Reverse(files)
           c == canonicalized(files)
           r == canonicalized(R)
           a == Precedes(Look(R), Look(files))
           b == Precedes(Look(files), Look(R))
<1>1. R \in Layout /\ Reverse(R) = files
  BY ReflectedLayout
<1>2. /\ c = IF a THEN [files |-> R, reflected |-> TRUE] ELSE [files |-> files, reflected |-> FALSE]
      /\ r = IF b THEN [files |-> files, reflected |-> TRUE] ELSE [files |-> R, reflected |-> FALSE]
  <2>1. c = IF a THEN [files |-> R, reflected |-> TRUE] ELSE [files |-> files, reflected |-> FALSE]
    BY CanonicalizedIs
  <2> HIDE DEF R
  <2>2. r = IF b THEN [files |-> files, reflected |-> TRUE] ELSE [files |-> R, reflected |-> FALSE]
    BY <1>1, CanonicalizedIs
  <2> QED
    BY <2>1, <2>2
<1>3. /\ Look(files) \in Seq(Nat) /\ Look(R) \in Seq(Nat)
      /\ (Look(files) = Look(R) => files = R)
  BY <1>1, LookIs
<1>4. /\ ~ (a /\ b) /\ (~ a /\ ~ b => files = R) /\ (files = R => ~ a /\ ~ b)
  BY <1>3, PrecedesOrders
<1> HIDE DEF R, a, b
<1>5. CASE a
  <2>1. c.files = R /\ c.reflected = TRUE /\ r = [files |-> R, reflected |-> FALSE] /\ R # files
    BY <1>2, <1>4, <1>5
  <2>2. r.files = R /\ r.reflected = FALSE /\ canonicalized(c.files) = r
    BY <2>1
  <2> QED
    BY <2>1, <2>2, <1>1 DEF R
<1>6. CASE ~ a /\ b
  <2>1. c = [files |-> files, reflected |-> FALSE] /\ r = [files |-> files, reflected |-> TRUE]
        /\ R # files
    BY <1>2, <1>4, <1>6
  <2>2. c.files = files /\ c.reflected = FALSE /\ r.files = files /\ r.reflected = TRUE
    BY <2>1
  <2> QED
    BY <2>1, <2>2, <1>1 DEF R
<1>7. CASE ~ a /\ ~ b
  <2>1. c = [files |-> files, reflected |-> FALSE] /\ r = c /\ R = files
    BY <1>2, <1>4, <1>7
  <2>2. c.files = files /\ r.files = files /\ r.reflected = FALSE
    BY <2>1
  <2> QED
    BY <2>1, <2>2, <1>1 DEF R
<1> QED
  BY <1>5, <1>6, <1>7

-------------------------------------------------------------------------------
(* Opposed pawns.                                                           *)

\* Sets that h pairs off have as many elements.
LEMMA PairedOff ==
  ASSUME NEW S, NEW T, IsFiniteSet(S), NEW h \in [S -> T],
         \A a, b \in S : h[a] = h[b] => a = b, \A t \in T : \E a \in S : h[a] = t
  PROVE  IsFiniteSet(T) /\ Cardinality(T) = Cardinality(S)
<1>1. h \in Bijection(S, T)
  <2>1. DOMAIN h = S
    OBVIOUS
  <2> QED
    BY <2>1 DEF Bijection, Injection, Surjection, IsInjective
<1>2. ExistsBijection(S, T)
  BY <1>1 DEF ExistsBijection
<1> QED
  BY <1>2, FS_Bijection

\* The place in a list of the pawn at slot i of file f.
PlaceOf(files, side, f, i) == Ahead(files, side, f - 1) + Turn(files[f], side, i)

\* There it stands, with its file and its flag.
LEMMA PlaceIs ==
  ASSUME NEW files \in Layout, NEW side \in Sides, NEW list, PawnList(list, files, side),
         NEW f \in 1 .. Files, NEW i \in SlotsOf(files[f], side)
  PROVE  /\ PlaceOf(files, side, f, i) \in DOMAIN list
         /\ list[PlaceOf(files, side, f, i)].file = f - 1
         /\ list[PlaceOf(files, side, f, i)].opposed = Faces(files[f], side, i)
<1> DEFINE w == files[f]
           k == Turn(w, side, i)
           c == CountOf(w, side)
           a == Ahead(files, side, f - 1)
<1>1. w \in Seq(Sides) /\ c \in Nat
  BY LayoutWords
<1>2. k \in 1 .. c /\ FormatFlags(w, side)[k] = Faces(w, side, i)
  BY <1>1, FlagAt
<1>3. list[a + k] = [file |-> f - 1, opposed |-> FormatFlags(w, side)[k]]
  BY <1>2 DEF PawnList
<1>4. a + k \in OfFile(list, f)
  <2>1. OfFile(list, f) = (a + 1) .. (a + c)
    BY FilePlaces
  <2>2. a \in Nat
    <3>1. f - 1 \in 0 .. Files
      BY LayoutWords
    <3> QED
      BY <3>1, AheadStep
  <2> HIDE DEF a, k, c
  <2> QED
    BY <2>1, <2>2, <1>1, <1>2
<1>5. a + k \in DOMAIN list
  BY <1>4 DEF OfFile
<1>6. list[a + k].file = f - 1 /\ list[a + k].opposed = Faces(w, side, i)
  BY <1>2, <1>3
<1> QED
  BY <1>5, <1>6 DEF PlaceOf

\* No two pawns stand at one place, and at every place stands one.
LEMMA PlacesOf ==
  ASSUME NEW files \in Layout, NEW side \in Sides, NEW list, PawnList(list, files, side)
  PROVE  /\ \A f, g \in 1 .. Files :
              \A i \in SlotsOf(files[f], side), j \in SlotsOf(files[g], side) :
                PlaceOf(files, side, f, i) = PlaceOf(files, side, g, j) => f = g /\ i = j
         /\ \A place \in DOMAIN list :
              \E f \in 1 .. Files : \E i \in SlotsOf(files[f], side) :
                place = PlaceOf(files, side, f, i)
<1>1. ASSUME NEW f \in 1 .. Files, NEW g \in 1 .. Files,
             NEW i \in SlotsOf(files[f], side), NEW j \in SlotsOf(files[g], side),
             PlaceOf(files, side, f, i) = PlaceOf(files, side, g, j)
      PROVE  f = g /\ i = j
  <2>1. f = g
    <3>1. list[PlaceOf(files, side, f, i)].file = f - 1
      BY PlaceIs
    <3>2. list[PlaceOf(files, side, g, j)].file = g - 1
      BY PlaceIs
    <3>3. f \in Nat /\ g \in Nat
      BY LayoutWords
    <3> QED
      BY <3>1, <3>2, <3>3, <1>1
  <2> DEFINE w == files[f]
             S == SlotsOf(w, side)
             a == Ahead(files, side, f - 1)
  <2>2. w \in Seq(Sides) /\ CountOf(w, side) \in Nat /\ a \in Nat
    <3>1. f - 1 \in 0 .. Files
      BY LayoutWords
    <3> QED
      BY <3>1, LayoutWords, AheadStep
  <2>3. Turn(w, side, i) \in 1 .. CountOf(w, side) /\ Turn(w, side, j) \in 1 .. CountOf(w, side)
    BY <2>1, <2>2, FlagAt
  <2>4. Turn(w, side, i) = Turn(w, side, j)
    <3>1. a + Turn(w, side, i) = a + Turn(w, side, j)
      BY <2>1, <1>1 DEF PlaceOf
    <3> HIDE DEF a, w
    <3> QED
      BY <3>1, <2>2, <2>3
  <2>5. UpTo(S, i) \in 1 .. Cardinality(S) /\ UpTo(S, j) \in 1 .. Cardinality(S)
        /\ Nth(S, UpTo(S, i)) = i /\ Nth(S, UpTo(S, j)) = j
    <3>1. Within(S, Len(w)) /\ i \in S /\ j \in S
      BY <2>1, <2>2, SlotsWithin
    <3> HIDE DEF S
    <3> QED
      BY <3>1, NthMember
  <2>6. UpTo(S, i) = UpTo(S, j)
    <3> DEFINE c == CountOf(w, side)
               p == UpTo(S, i)
               q == UpTo(S, j)
    <3>1. (p = q) \/ (c + 1 - p = c + 1 - q)
      BY <2>4 DEF Turn
    <3>2. c \in Nat /\ p \in Int /\ q \in Int
      <4>1. c \in Nat /\ c = Cardinality(S)
        BY <2>2 DEF CountOf
      <4> HIDE DEF c, p, q
      <4> QED
        BY <4>1, <2>5 DEF p, q
    <3>3. p = q
      <4> HIDE DEF c, p, q
      <4> QED
        BY <3>1, <3>2
    <3> QED
      BY <3>3
  <2> QED
    BY <2>1, <2>5, <2>6
<1>2. ASSUME NEW place \in DOMAIN list
      PROVE  \E f \in 1 .. Files : \E i \in SlotsOf(files[f], side) :
               place = PlaceOf(files, side, f, i)
  <2>1. place \in 1 .. Ahead(files, side, Files)
    BY DEF PawnList
  <2>2. PICK f \in 1 .. Files : \E k \in 1 .. CountOf(files[f], side) :
          place = Ahead(files, side, f - 1) + k
    BY <2>1, OnFile
  <2>3. PICK k \in 1 .. CountOf(files[f], side) : place = Ahead(files, side, f - 1) + k
    BY <2>2
  <2> DEFINE w == files[f]
             S == SlotsOf(w, side)
             c == CountOf(w, side)
             i == Traversal(w, side, k)
  <2>4. w \in Seq(Sides) /\ c \in Nat /\ Within(S, Len(w)) /\ c = Cardinality(S)
    BY LayoutWords, SlotsWithin
  <2>5. i \in S /\ Turn(w, side, i) = k
    <3> HIDE DEF S, c, w
    <3>1. k \in 1 .. c /\ c + 1 - k \in 1 .. c /\ c + 1 - (c + 1 - k) = k
      BY <2>4, <2>3 DEF c, w
    <3>2. \A m \in 1 .. c : Nth(S, m) \in S /\ UpTo(S, Nth(S, m)) = m
      BY <2>4, NthMember
    <3>3. CASE side = STM
      <4>1. i = Nth(S, k)
        BY <3>3 DEF Traversal, S
      <4> QED
        BY <4>1, <3>1, <3>2, <3>3 DEF Turn, S
    <3>4. CASE side # STM
      <4>1. i = Nth(S, c + 1 - k)
        BY <3>4 DEF Traversal, S, c
      <4>2. i \in S /\ UpTo(S, i) = c + 1 - k
        BY <4>1, <3>1, <3>2
      <4>3. Turn(w, side, i) = c + 1 - UpTo(S, i)
        BY <3>4 DEF Turn, S, c
      <4> QED
        BY <4>2, <4>3, <3>1
    <3> QED
      BY <3>3, <3>4
  <2>6. place = PlaceOf(files, side, f, i)
    BY <2>3, <2>5 DEF PlaceOf
  <2> HIDE DEF i
  <2> QED
    BY <2>5, <2>6
<1> QED
  BY <1>1, <1>2

\* Where a pawn of the mover stands right below a pawn of the other side.
Meetings(files) ==
  {p \in (1 .. Files) \X Nat : /\ p[2] \in SlotsOf(files[p[1]], STM)
                               /\ p[2] + 1 \in SlotsOf(files[p[1]], SNTM)}

\* The places of the opposed pawns in a list.
OpposedIn(list) == {i \in DOMAIN list : list[i].opposed}

\* Each side marks a pawn for each meeting, and no other.
LEMMA MeetingsMarked ==
  ASSUME NEW files \in Layout, NEW side \in Sides, NEW list, PawnList(list, files, side)
  PROVE  /\ IsFiniteSet(Meetings(files))
         /\ Cardinality(OpposedIn(list)) = Cardinality(Meetings(files))
<1> DEFINE M == Meetings(files)
           slot(p) == IF side = STM THEN p[2] ELSE p[2] + 1
           h == [p \in M |-> PlaceOf(files, side, p[1], slot(p))]
<1>1. IsFiniteSet(M)
  <2>1. ASSUME NEW p \in M PROVE p \in (1 .. Files) \X (1 .. Slots)
    <3>1. p = <<p[1], p[2]>> /\ p[1] \in 1 .. Files /\ p[2] \in Nat
          /\ p[2] \in SlotsOf(files[p[1]], STM)
      BY DEF Meetings
    <3>2. files[p[1]] \in Seq(Sides) /\ Len(files[p[1]]) <= Slots /\ Len(files[p[1]]) \in Nat
      BY <3>1, LayoutWords
    <3>3. p[2] \in 1 .. Len(files[p[1]])
      BY <3>1, <3>2 DEF SlotsOf
    <3>4. p[2] \in 1 .. Slots
      BY <3>2, <3>3, NamesAssumption
    <3> QED
      BY <3>1, <3>4
  <2>2. IsFiniteSet(1 .. Files) /\ IsFiniteSet(1 .. Slots)
    <3>1. 1 \in Int /\ Files \in Int /\ Slots \in Int
      BY NamesAssumption
    <3> QED
      BY <3>1, FS_Interval
  <2>3. IsFiniteSet((1 .. Files) \X (1 .. Slots))
    BY <2>2, FS_Product
  <2>4. M \subseteq (1 .. Files) \X (1 .. Slots)
    BY <2>1
  <2> QED
    BY <2>3, <2>4, FS_Subset
<1>2. ASSUME NEW p \in M
      PROVE  /\ p = <<p[1], p[2]>> /\ p[1] \in 1 .. Files /\ p[2] \in Nat
             /\ slot(p) \in SlotsOf(files[p[1]], side)
             /\ Faces(files[p[1]], side, slot(p))
  <2>1. /\ p = <<p[1], p[2]>> /\ p[1] \in 1 .. Files /\ p[2] \in Nat
        /\ p[2] \in SlotsOf(files[p[1]], STM) /\ p[2] + 1 \in SlotsOf(files[p[1]], SNTM)
    BY DEF Meetings
  <2> DEFINE w == files[p[1]]
             i == p[2]
  <2>2. w \in Seq(Sides) /\ DOMAIN w = 1 .. Len(w) /\ Len(w) \in Nat
    BY <2>1, LayoutWords
  <2>3. i \in 1 .. Len(w) /\ w[i] = STM /\ i + 1 \in 1 .. Len(w) /\ w[i + 1] = SNTM /\ i \in Nat
    BY <2>1, <2>2 DEF SlotsOf
  <2> HIDE DEF w, i
  <2>4. Faces(w, STM, i)
    BY <2>2, <2>3, SidesAre DEF Faces
  <2>5. Faces(w, SNTM, i + 1)
    <3>1. i + 1 > 1 /\ i + 1 - 1 = i
      BY <2>3
    <3> QED
      BY <3>1, <2>3, SidesAre DEF Faces
  <2>6. /\ side = STM => slot(p) = i
        /\ side = SNTM => slot(p) = i + 1
    BY SidesAre DEF i
  <2>7. side = STM \/ side = SNTM
    BY SidesAre
  <2> QED
    BY <2>1, <2>4, <2>5, <2>6, <2>7 DEF w, i
<1>3. ASSUME NEW f \in 1 .. Files, NEW i \in SlotsOf(files[f], side), Faces(files[f], side, i)
      PROVE  \E p \in M : p[1] = f /\ slot(p) = i
  <2> DEFINE w == files[f]
  <2>1. w \in Seq(Sides) /\ DOMAIN w = 1 .. Len(w) /\ Len(w) \in Nat
    BY LayoutWords
  <2>2. i \in 1 .. Len(w) /\ w[i] = side
    BY <2>1 DEF SlotsOf
  <2> HIDE DEF w
  <2>3. CASE side = STM
    <3>1. i + 1 \in 1 .. Len(w) /\ w[i + 1] = SNTM
      BY <2>1, <2>2, <2>3, <1>3 DEF Faces, w
    <3>2. <<f, i>> \in M
      BY <3>1, <2>1, <2>2, <2>3 DEF Meetings, SlotsOf, w
    <3>3. slot(<<f, i>>) = i
      BY <2>3
    <3> HIDE DEF slot, M
    <3> QED
      BY <3>2, <3>3
  <2>4. CASE side = SNTM
    <3>1. i - 1 \in 1 .. Len(w) /\ w[i - 1] = STM /\ i - 1 \in Nat /\ i - 1 + 1 = i
      BY <2>1, <2>2, <2>4, <1>3, SidesAre DEF Faces, w
    <3>2. <<f, i - 1>> \in M
      BY <3>1, <2>1, <2>2, <2>4 DEF Meetings, SlotsOf, w
    <3>3. slot(<<f, i - 1>>) = i
      BY <3>1, <2>4, SidesAre
    <3> HIDE DEF slot, M
    <3> QED
      BY <3>2, <3>3
  <2> QED
    BY <2>3, <2>4, SidesAre
<1> DEFINE O == OpposedIn(list)
<1>4. h \in [M -> O]
  <2>1. ASSUME NEW p \in M PROVE PlaceOf(files, side, p[1], slot(p)) \in O
    <3>1. p[1] \in 1 .. Files /\ slot(p) \in SlotsOf(files[p[1]], side)
          /\ Faces(files[p[1]], side, slot(p))
      BY <1>2
    <3> HIDE DEF slot
    <3>2. PlaceOf(files, side, p[1], slot(p)) \in DOMAIN list
          /\ list[PlaceOf(files, side, p[1], slot(p))].opposed = Faces(files[p[1]], side, slot(p))
      BY <3>1, PlaceIs
    <3> QED
      BY <3>1, <3>2 DEF OpposedIn
  <2> HIDE DEF M, O, slot
  <2> QED
    BY <2>1
<1>5. \A p, q \in M : h[p] = h[q] => p = q
  <2>1. ASSUME NEW p \in M, NEW q \in M, h[p] = h[q] PROVE p = q
    <3>1. p[1] \in 1 .. Files /\ slot(p) \in SlotsOf(files[p[1]], side)
          /\ q[1] \in 1 .. Files /\ slot(q) \in SlotsOf(files[q[1]], side)
      BY <1>2
    <3>2. PlaceOf(files, side, p[1], slot(p)) = PlaceOf(files, side, q[1], slot(q))
      <4> HIDE DEF slot, M
      <4> QED
        BY <2>1
    <3>3. p[1] = q[1] /\ slot(p) = slot(q)
      <4> HIDE DEF slot, M, h
      <4> QED
        BY <3>1, <3>2, PlacesOf
    <3>4. p[2] \in Nat /\ q[2] \in Nat
      BY <1>2
    <3>5. p[2] = q[2]
      BY <3>3, <3>4
    <3>6. p = <<p[1], p[2]>> /\ q = <<q[1], q[2]>>
      BY <1>2
    <3> QED
      BY <3>3, <3>5, <3>6
  <2> QED
    BY <2>1
<1>6. \A place \in O : \E p \in M : h[p] = place
  <2>1. ASSUME NEW place \in O PROVE \E p \in M : h[p] = place
    <3>1. place \in DOMAIN list /\ list[place].opposed
      BY DEF OpposedIn
    <3>2. PICK f \in 1 .. Files : \E i \in SlotsOf(files[f], side) :
            place = PlaceOf(files, side, f, i)
      BY <3>1, PlacesOf
    <3>3. PICK i \in SlotsOf(files[f], side) : place = PlaceOf(files, side, f, i)
      BY <3>2
    <3>4. Faces(files[f], side, i)
      BY <3>1, <3>3, PlaceIs
    <3>5. PICK p \in M : p[1] = f /\ slot(p) = i
      BY <3>4, <1>3
    <3>6. h[p] = PlaceOf(files, side, p[1], slot(p))
      OBVIOUS
    <3> HIDE DEF h, slot, M
    <3> QED
      BY <3>3, <3>5, <3>6
  <2> QED
    BY <2>1
<1>7. IsFiniteSet(O) /\ Cardinality(O) = Cardinality(M)
  <2> HIDE DEF h, M, O
  <2> QED
    BY <1>1, <1>4, <1>5, <1>6, PairedOff
<1> QED
  BY <1>1, <1>7

\* So both halves of a name mark equally many.
LEMMA OpposedAlike ==
  ASSUME NEW files \in Layout, NEW men
  PROVE  Opposed(format_name(files, men)[STM]) = Opposed(format_name(files, men)[SNTM])
<1> DEFINE name == format_name(files, men)
<1>1. \A side \in Sides : PawnList(name[side].pawns, files, side)
  BY FormatShape
<1> HIDE DEF name
<1>2. \A side \in Sides :
        Cardinality(OpposedIn(name[side].pawns)) = Cardinality(Meetings(files))
  BY <1>1, MeetingsMarked
<1>3. \A half : Opposed(half) = Cardinality(OpposedIn(half.pawns))
  BY DEF Opposed, OpposedIn
<1> QED
  BY <1>2, <1>3, SidesAre DEF name

\* Two keys are equal if their words are.
LEMMA KeysAlike ==
  ASSUME NEW key \in Layout, NEW other \in Layout, \A f \in 1 .. Files : key[f] = other[f]
  PROVE  key = other
<1>1. key = [f \in 1 .. Files |-> key[f]] /\ other = [f \in 1 .. Files |-> other[f]]
  BY DEF Layout
<1> QED
  BY <1>1

-------------------------------------------------------------------------------
(* Numbers of men.                                                          *)

\* A sum with one summand replaced.
Replaced(w, a, n) == [w EXCEPT ![a] = n]

\* It changes by as much as that summand.
LEMMA SumOfUpdated ==
  ASSUME NEW D, IsFiniteSet(D), NEW w, w \in [D -> Nat], NEW a, a \in D, NEW n, n \in Nat
  PROVE  /\ SumOf(w, D) \in Nat /\ w[a] <= SumOf(w, D)
         /\ SumOf(Replaced(w, a, n), D) = SumOf(w, D) - w[a] + n
<1> DEFINE v == Replaced(w, a, n)
           E == D \ {a}
<1>1. v \in [D -> Nat] /\ v[a] = n /\ \A x \in E : v[x] = w[x]
  BY DEF Replaced
<1>2. IsFiniteSet(E) /\ E \subseteq D
  BY FS_Subset
<1> HIDE DEF v
<1>3. SumOf(w, D) = w[a] + SumOf(w, E)
  BY SumOfRemove
<1>4. SumOf(v, D) = v[a] + SumOf(v, E)
  BY <1>1, SumOfRemove
<1>5. SumOf(w, E) = SumOf(v, E) /\ SumOf(w, E) \in Nat /\ w[a] \in Nat
  <2> HIDE DEF E
  <2>1. SumOf(w, E) = SumOf(v, E)
    BY <1>1, <1>2, SumOfAlike
  <2>2. SumOf(w, E) \in Nat
    BY <1>2, SumOfNat
  <2> QED
    BY <2>1, <2>2
<1> HIDE DEF E
<1>6. SumOf(v, D) = SumOf(w, D) - w[a] + n
  BY <1>1, <1>3, <1>4, <1>5
<1>7. SumOf(w, D) \in Nat /\ w[a] <= SumOf(w, D)
  BY <1>3, <1>5
<1> QED
  BY <1>6, <1>7 DEF v

\* Numbers of men by role.
Army == [ToSet(Roles) -> Nat]

\* There are finitely many roles.
LEMMA RolesFinite == IsFiniteSet(ToSet(Roles))
<1>1. Roles \in Seq(ToSet(Roles))
  BY NamesAssumption
<1>2. Len(Roles) \in Nat /\ Roles \in [1 .. Len(Roles) -> ToSet(Roles)]
  BY <1>1
<1>3. \A t \in ToSet(Roles) : \E i \in 1 .. Len(Roles) : Roles[i] = t
  BY <1>2 DEF ToSet
<1>4. Roles \in Surjection(1 .. Len(Roles), ToSet(Roles))
  BY <1>2, <1>3 DEF Surjection
<1>5. IsFiniteSet(1 .. Len(Roles))
  <2>1. 1 \in Int /\ Len(Roles) \in Int
    BY <1>2
  <2> QED
    BY <2>1, FS_Interval
<1> QED
  BY <1>4, <1>5, FS_Surjection

\* A man more or less.
LEMMA MenCounted ==
  ASSUME NEW army \in Army
  PROVE  /\ MenOf(army) \in Nat
         /\ \A role \in ToSet(Roles) :
              /\ [army EXCEPT ![role] = @ + 1] \in Army
              /\ MenOf([army EXCEPT ![role] = @ + 1]) = MenOf(army) + 1
              /\ army[role] > 0 => /\ [army EXCEPT ![role] = @ - 1] \in Army
                                   /\ MenOf([army EXCEPT ![role] = @ - 1]) = MenOf(army) - 1
<1> DEFINE D == ToSet(Roles)
<1>1. \A some \in Army : MenOf(some) = SumOf(some, D)
  <2>1. \A some \in Army : DOMAIN some = D
    BY DEF Army
  <2>2. \A some : MenOf(some) = SumOf(some, DOMAIN some)
    BY SumFunctionIs DEF MenOf
  <2> QED
    BY <2>1, <2>2
<1>2. IsFiniteSet(D) /\ Army = [D -> Nat]
  BY RolesFinite DEF Army
<1> HIDE DEF D
<1>3. SumOf(army, D) \in Nat
  BY <1>2, SumOfNat
<1>4. ASSUME NEW role \in D
      PROVE  /\ [army EXCEPT ![role] = @ + 1] \in Army
             /\ MenOf([army EXCEPT ![role] = @ + 1]) = MenOf(army) + 1
             /\ army[role] > 0 => /\ [army EXCEPT ![role] = @ - 1] \in Army
                                  /\ MenOf([army EXCEPT ![role] = @ - 1]) = MenOf(army) - 1
  <2>1. army \in [D -> Nat] /\ army[role] \in Nat
    BY <1>2
  <2>2. \A n \in Nat : Replaced(army, role, n) \in Army
    BY <1>2 DEF Replaced
  <2>3. \A n \in Nat : SumOf(Replaced(army, role, n), D) = SumOf(army, D) - army[role] + n
    <3>1. SUFFICES ASSUME NEW n \in Nat
                   PROVE  SumOf(Replaced(army, role, n), D) = SumOf(army, D) - army[role] + n
      OBVIOUS
    <3> HIDE DEF Army
    <3> QED
      BY <1>2, <2>1, SumOfUpdated
  <2>4. \A n \in Nat : MenOf(Replaced(army, role, n)) = MenOf(army) - army[role] + n
    BY <2>2, <2>3, <1>1
  <2>5. MenOf(army) \in Nat
    BY <1>1, <1>3
  <2>6. /\ [army EXCEPT ![role] = @ + 1] \in Army
        /\ MenOf([army EXCEPT ![role] = @ + 1]) = MenOf(army) - army[role] + (army[role] + 1)
    <3>1. army[role] + 1 \in Nat
      BY <2>1
    <3> QED
      BY <3>1, <2>2, <2>4 DEF Replaced
  <2>7. army[role] > 0 =>
          /\ [army EXCEPT ![role] = @ - 1] \in Army
          /\ MenOf([army EXCEPT ![role] = @ - 1]) = MenOf(army) - army[role] + (army[role] - 1)
    <3>1. army[role] > 0 => army[role] - 1 \in Nat
      BY <2>1
    <3> QED
      BY <3>1, <2>2, <2>4 DEF Replaced
  <2> QED
    BY <2>1, <2>5, <2>6, <2>7
<1>5. MenOf(army) \in Nat
  BY <1>1, <1>3
<1> QED
  BY <1>4, <1>5 DEF D

\* And its reflection, too.
LEMMA ReflectionCounts ==
  ASSUME NEW files \in Layout, NEW side
  PROVE  PawnsOf(Reverse(files), side) = PawnsOf(files, side)
<1>1. Files \in Nat /\ Files \in 0 .. Files /\ 0 \in 0 .. Files /\ Files - Files = 0
  BY NamesAssumption
<1>2. Reverse(files) \in Layout
  BY ReflectedLayout
<1>3. PawnsOf(Reverse(files), side) = Ahead(Reverse(files), side, Files)
  BY <1>2, AheadStep
<1>4. PawnsOf(files, side) = Ahead(files, side, Files) /\ Ahead(files, side, 0) = 0
      /\ Ahead(files, side, Files) \in Nat
  BY <1>1, AheadStep
<1>5. Ahead(Reverse(files), side, Files)
        = Ahead(files, side, Files) - Ahead(files, side, Files - Files)
  BY <1>1, AheadReflected
<1> QED
  BY <1>1, <1>3, <1>4, <1>5

-------------------------------------------------------------------------------
(* Conversions.                                                             *)

\* The pawns and the pieces of a table.
Lengths(files) == [f \in 1 .. Files |-> Len(files[f])]
PawnTotal(files) == PawnsOf(files, STM) + PawnsOf(files, SNTM)
PieceTotal(files, men) == 2 + MenOf(men[STM]) + MenOf(men[SNTM]) + PawnTotal(files)

\* The pawns are as many as the words are long.
LEMMA PawnsAreLengths ==
  ASSUME NEW files \in Layout
  PROVE  /\ Lengths(files) \in [1 .. Files -> Nat] /\ PawnTotal(files) \in Nat
         /\ PawnTotal(files) = SumOf(Lengths(files), 1 .. Files)
<1> DEFINE a(f) == Ahead(files, STM, f)
           b(f) == Ahead(files, SNTM, f)
           s(f) == SumOf(Lengths(files), 1 .. f)
           D == {f \in 0 .. Files : a(f) + b(f) = s(f)}
<1>1. /\ Lengths(files) \in [1 .. Files -> Nat] /\ Files \in Nat
      /\ \A f \in 1 .. Files : files[f] \in Seq(Sides)
      /\ \A f \in 1 .. Files : Lengths(files)[f] = Len(files[f])
  BY LayoutWords DEF Lengths
<1>2. s(0) = 0 /\ \A f \in 1 .. Files : s(f) = s(f - 1) + Len(files[f])
  <2>1. s(0) = 0 /\ \A f \in 1 .. Files : s(f) = s(f - 1) + Lengths(files)[f]
    BY <1>1, SumOfFirst
  <2> HIDE DEF s
  <2> QED
    BY <2>1, <1>1
<1>3. /\ a(0) = 0 /\ b(0) = 0
      /\ \A f \in 0 .. Files : a(f) \in Nat /\ b(f) \in Nat
      /\ \A f \in 1 .. Files : a(f) = a(f - 1) + CountOf(files[f], STM)
      /\ \A f \in 1 .. Files : b(f) = b(f - 1) + CountOf(files[f], SNTM)
      /\ PawnsOf(files, STM) = a(Files) /\ PawnsOf(files, SNTM) = b(Files)
  BY AheadStep
<1>4. \A f \in 1 .. Files : /\ CountOf(files[f], STM) + CountOf(files[f], SNTM) = Len(files[f])
                            /\ CountOf(files[f], STM) \in Nat /\ CountOf(files[f], SNTM) \in Nat
  <2>1. \A f \in 1 .. Files : CountOf(files[f], STM) + CountOf(files[f], SNTM) = Len(files[f])
    BY <1>1, SlotsDivide
  <2> QED
    BY <2>1, LayoutWords
<1> HIDE DEF a, b, s
<1>5. 0 \in D
  BY <1>1, <1>2, <1>3
<1>6. \A f \in 1 .. Files : f - 1 \in D => f \in D
  <2>1. SUFFICES ASSUME NEW f \in 1 .. Files, f - 1 \in D PROVE a(f) + b(f) = s(f)
    BY <1>1
  <2>2. f - 1 \in 0 .. Files /\ a(f - 1) + b(f - 1) = s(f - 1)
    BY <2>1, <1>1
  <2>3. /\ a(f) = a(f - 1) + CountOf(files[f], STM) /\ b(f) = b(f - 1) + CountOf(files[f], SNTM)
        /\ s(f) = s(f - 1) + Len(files[f]) /\ a(f - 1) \in Nat /\ b(f - 1) \in Nat
    BY <2>2, <1>2, <1>3
  <2>4. /\ CountOf(files[f], STM) + CountOf(files[f], SNTM) = Len(files[f])
        /\ CountOf(files[f], STM) \in Nat /\ CountOf(files[f], SNTM) \in Nat
    BY <1>4
  <2> QED
    BY <2>2, <2>3, <2>4
<1>7. Files \in D /\ Files \in 0 .. Files
  <2>1. Files \in 0 .. Files
    BY <1>1
  <2> HIDE DEF D
  <2> QED
    BY <2>1, <1>1, <1>5, <1>6, Climb
<1>8. PawnTotal(files) = a(Files) + b(Files) /\ a(Files) \in Nat /\ b(Files) \in Nat
  BY <1>3, <1>7 DEF PawnTotal
<1> QED
  BY <1>1, <1>7, <1>8 DEF s

\* A sum changes by what one summand changes.
Exchanges(w, a, j, D) == SumOf(Replaced(w, a, j), D) = SumOf(w, D) - w[a] + j

\* It does, when the summand is replaced.
LEMMA SumExchanges ==
  ASSUME NEW D, IsFiniteSet(D), NEW w, w \in [D -> Nat], NEW a, a \in D, NEW j, j \in Nat
  PROVE  Exchanges(w, a, j, D)
BY SumOfUpdated DEF Exchanges

\* One number of a list replaced.
LEMMA SumOfReplaced ==
  ASSUME NEW n, n \in Nat, NEW list, list \in [1 .. n -> Nat], NEW k, k \in 1 .. n,
         NEW m, m \in Nat
  PROVE  Exchanges(list, k, m, 1 .. n)
<1> DEFINE D == 1 .. n
<1>1. IsFiniteSet(D)
  <2>1. 1 \in Int /\ n \in Int
    OBVIOUS
  <2> QED
    BY <2>1, FS_Interval
<1>2. list \in [D -> Nat] /\ k \in D
  OBVIOUS
<1> HIDE DEF D
<1>3. Exchanges(list, k, m, D)
  BY <1>1, <1>2, SumExchanges
<1> QED
  BY <1>3 DEF D

\* Another word on one file.
Placing(files, f, w) == [files EXCEPT ![f] = w]

\* The pawns are more or fewer by the difference of the words.
LEMMA WordReplaced ==
  ASSUME NEW files \in Layout, NEW f \in 1 .. Files, NEW w \in Words
  PROVE  /\ Placing(files, f, w) \in Layout
         /\ Placing(files, f, w)[f] = w
         /\ \A g \in 1 .. Files : g # f => Placing(files, f, w)[g] = files[g]
         /\ PawnTotal(Placing(files, f, w)) = PawnTotal(files) - Len(files[f]) + Len(w)
<1> DEFINE placed == Placing(files, f, w)
           l == Lengths(files)
<1>1. /\ placed \in Layout /\ placed[f] = w
      /\ \A g \in 1 .. Files : g # f => placed[g] = files[g]
  BY DEF Layout, Placing
<1>2. Len(w) \in Nat
  BY WordIs
<1>3. Lengths(placed) = Replaced(l, f, Len(w))
  <2> HIDE DEF placed
  <2> QED
    BY <1>1 DEF Lengths, Replaced
<1>4. /\ l \in [1 .. Files -> Nat] /\ PawnTotal(files) = SumOf(l, 1 .. Files)
      /\ l[f] = Len(files[f])
  BY PawnsAreLengths DEF Lengths
<1>5. PawnTotal(placed) = SumOf(Lengths(placed), 1 .. Files)
  <2> HIDE DEF placed
  <2> QED
    BY <1>1, PawnsAreLengths
<1> HIDE DEF placed, l
<1>7. SumOf(Replaced(l, f, Len(w)), 1 .. Files) = SumOf(l, 1 .. Files) - l[f] + Len(w)
  <2>1. Files \in Nat /\ l \in [1 .. Files -> Nat]
    BY <1>4, NamesAssumption
  <2>2. f \in 1 .. Files /\ Len(w) \in Nat
    BY <1>2
  <2>3. Exchanges(l, f, Len(w), 1 .. Files)
    BY <2>1, <2>2, SumOfReplaced, Zenon
  <2> QED
    BY <2>3 DEF Exchanges
<1>8. PawnTotal(placed) = PawnTotal(files) - Len(files[f]) + Len(w)
  BY <1>3, <1>4, <1>5, <1>7
<1> QED
  BY <1>1, <1>8 DEF placed

\* A pawn removed from a file, turned over, or inserted.
LEMMA WordChanges ==
  ASSUME NEW w \in Words
  PROVE  /\ Len(w) \in Nat
         /\ \A i \in DOMAIN w : /\ RemoveAt(w, i) \in Words /\ Len(RemoveAt(w, i)) = Len(w) - 1
                                /\ [w EXCEPT ![i] = STM] \in Words
                                /\ Len([w EXCEPT ![i] = STM]) = Len(w)
         /\ Len(w) < Slots => \A i \in 1 .. Len(w) + 1 : /\ InsertAt(w, i, STM) \in Words
                                                         /\ Len(InsertAt(w, i, STM)) = Len(w) + 1
<1>1. w \in Seq(Sides) /\ Len(w) \in Nat /\ Len(w) <= Slots /\ DOMAIN w = 1 .. Len(w)
  BY WordIs
<1>2. Slots \in Nat /\ STM \in Sides
  BY NamesAssumption, SidesAre
<1>3. ASSUME NEW i \in DOMAIN w
      PROVE  /\ RemoveAt(w, i) \in Words /\ Len(RemoveAt(w, i)) = Len(w) - 1
             /\ [w EXCEPT ![i] = STM] \in Words /\ Len([w EXCEPT ![i] = STM]) = Len(w)
  <2>1. i \in Nat /\ i >= 1 /\ i <= Len(w)
    BY <1>1
  <2>2. /\ SubSeq(w, 1, i - 1) \in Seq(Sides) /\ Len(SubSeq(w, 1, i - 1)) = i - 1
        /\ SubSeq(w, i + 1, Len(w)) \in Seq(Sides) /\ Len(SubSeq(w, i + 1, Len(w))) = Len(w) - i
    BY <1>1, <2>1
  <2> DEFINE a == SubSeq(w, 1, i - 1)
             b == SubSeq(w, i + 1, Len(w))
  <2>3. RemoveAt(w, i) \in Seq(Sides) /\ Len(RemoveAt(w, i)) = Len(w) - 1
    <3>1. RemoveAt(w, i) = a \o b
      BY DEF RemoveAt
    <3> HIDE DEF a, b
    <3>2. a \o b \in Seq(Sides) /\ Len(a \o b) = Len(a) + Len(b)
      <4>1. a \in Seq(Sides) /\ b \in Seq(Sides)
        BY <2>2 DEF a, b
      <4> QED
        BY <4>1, ConcatProperties
    <3>3. Len(a) = i - 1 /\ Len(b) = Len(w) - i
      BY <2>2 DEF a, b
    <3> QED
      BY <3>1, <3>2, <3>3, <1>1, <2>1
  <2>4. [w EXCEPT ![i] = STM] \in Seq(Sides) /\ Len([w EXCEPT ![i] = STM]) = Len(w)
    BY <1>1, <1>2, <2>1
  <2>5. Len(RemoveAt(w, i)) <= Slots /\ Len([w EXCEPT ![i] = STM]) <= Slots
    BY <1>1, <1>2, <2>3, <2>4
  <2>6. RemoveAt(w, i) \in Words
    BY <2>3, <2>5, WordIs
  <2>7. [w EXCEPT ![i] = STM] \in Words
    BY <2>4, <2>5, WordIs
  <2> QED
    BY <2>3, <2>4, <2>6, <2>7
<1>4. ASSUME Len(w) < Slots, NEW i \in 1 .. Len(w) + 1
      PROVE  InsertAt(w, i, STM) \in Words /\ Len(InsertAt(w, i, STM)) = Len(w) + 1
  <2>1. i \in Nat /\ i >= 1 /\ i <= Len(w) + 1
    BY <1>1
  <2>2. /\ SubSeq(w, 1, i - 1) \in Seq(Sides) /\ Len(SubSeq(w, 1, i - 1)) = i - 1
        /\ SubSeq(w, i, Len(w)) \in Seq(Sides) /\ Len(SubSeq(w, i, Len(w))) = Len(w) + 1 - i
    BY <1>1, <2>1
  <2>3. <<STM>> \in Seq(Sides) /\ Len(<<STM>>) = 1
    BY <1>2
  <2> DEFINE a == SubSeq(w, 1, i - 1)
             b == SubSeq(w, i, Len(w))
             c == <<STM>>
  <2>4. InsertAt(w, i, STM) = a \o c \o b
    BY DEF InsertAt
  <2>5. InsertAt(w, i, STM) \in Seq(Sides) /\ Len(InsertAt(w, i, STM)) = Len(w) + 1
    <3>1. /\ a \in Seq(Sides) /\ Len(a) = i - 1 /\ c \in Seq(Sides) /\ Len(c) = 1
          /\ b \in Seq(Sides) /\ Len(b) = Len(w) + 1 - i
      BY <2>2, <2>3
    <3> HIDE DEF a, b, c
    <3>2. a \o c \in Seq(Sides) /\ Len(a \o c) = Len(a) + Len(c)
      BY <3>1, ConcatProperties
    <3>3. (a \o c) \o b \in Seq(Sides) /\ Len((a \o c) \o b) = Len(a \o c) + Len(b)
      BY <3>1, <3>2, ConcatProperties
    <3> QED
      BY <1>1, <2>1, <2>4, <3>1, <3>2, <3>3
  <2> QED
    BY <1>1, <1>2, <1>4, <2>5, WordIs
<1> QED
  BY <1>1, <1>3, <1>4

\* A word seen from the other side.
Turned(w) == [i \in 1 .. Len(w) |-> OtherSide(w[Len(w) + 1 - i])]

\* Turning over twice changes nothing.
LEMMA TurnedIs ==
  ASSUME NEW w \in Words
  PROVE  /\ Turned(w) \in Words /\ Len(Turned(w)) = Len(w) /\ Turned(Turned(w)) = w
         /\ <<>> \o Turned(w) = Turned(w)
<1> DEFINE n == Len(w)
           t == Turned(w)
<1>1. n \in Nat /\ n <= Slots /\ w \in [1 .. n -> Sides] /\ w \in Seq(Sides)
  BY WordIs
<1>2. \A i \in 1 .. n : n + 1 - i \in 1 .. n /\ n + 1 - (n + 1 - i) = i
  BY <1>1
<1>3. \A s \in Sides : OtherSide(s) \in Sides /\ OtherSide(OtherSide(s)) = s
  BY SidesAre
<1>4. t \in [1 .. n -> Sides] /\ \A i \in 1 .. n : t[i] = OtherSide(w[n + 1 - i])
  BY <1>1, <1>2, <1>3 DEF Turned
<1>5. <<>> \o t = t /\ t \in Seq(Sides) /\ Len(t) = n
  <2> HIDE DEF t, n
  <2> QED
    BY <1>1, <1>4, ListedIs
<1>6. Turned(t) = [i \in 1 .. n |-> OtherSide(t[n + 1 - i])]
  <2> HIDE DEF t, n
  <2> QED
    BY <1>5 DEF Turned
<1>7. \A i \in 1 .. n : OtherSide(t[n + 1 - i]) = w[i]
  <2>1. SUFFICES ASSUME NEW i \in 1 .. n PROVE OtherSide(t[n + 1 - i]) = w[i]
    OBVIOUS
  <2>2. t[n + 1 - i] = OtherSide(w[i])
    <3>1. n + 1 - i \in 1 .. n /\ n + 1 - (n + 1 - i) = i
      BY <1>2
    <3> HIDE DEF t, n
    <3> QED
      BY <3>1, <1>4
  <2>3. w[i] \in Sides
    BY <1>1
  <2> QED
    BY <2>2, <2>3, <1>3
<1>8. w = [i \in 1 .. n |-> w[i]]
  BY <1>1
<1>9. Turned(t) = w
  <2> HIDE DEF t, n
  <2> QED
    BY <1>6, <1>7, <1>8
<1>10. t \in Words
  <2> HIDE DEF t, n
  <2> QED
    BY <1>1, <1>5, WordIs
<1> QED
  BY <1>5, <1>9, <1>10

\* The twin's key has each word turned over.
LEMMA TwinKeyIs ==
  ASSUME NEW files \in Layout
  PROVE  /\ TwinKey(files) \in Layout
         /\ \A f \in 1 .. Files : TwinKey(files)[f] = Turned(files[f])
<1> DEFINE key == [f \in 1 .. Files |-> <<>> \o Turned(files[f])]
<1>1. TwinKey(files) = <<>> \o key
  BY DEF TwinKey, PerFile, Listed, Turned
<1>2. \A f \in 1 .. Files : files[f] \in Words
  BY DEF Layout
<1>3. \A f \in 1 .. Files : /\ Turned(files[f]) \in Words
                            /\ <<>> \o Turned(files[f]) = Turned(files[f])
  BY <1>2, TurnedIs
<1>4. key \in [1 .. Files -> Words] /\ \A f \in 1 .. Files : key[f] = Turned(files[f])
  BY <1>3
<1>5. <<>> \o key = key
  <2>1. Files \in Nat
    BY NamesAssumption
  <2> HIDE DEF key
  <2> QED
    BY <2>1, <1>4, ListedIs
<1> HIDE DEF key
<1> QED
  BY <1>1, <1>4, <1>5 DEF Layout

\* Twice gives the key back, and it is indifferent to reflection.
LEMMA TwinKeyTwice ==
  ASSUME NEW files \in Layout
  PROVE  /\ TwinKey(TwinKey(files)) = files
         /\ TwinKey(Reverse(files)) = Reverse(TwinKey(files))
         /\ PawnTotal(TwinKey(files)) = PawnTotal(files)
         /\ PawnTotal(Reverse(files)) = PawnTotal(files)
<1> DEFINE t == TwinKey(files)
<1>1. t \in Layout /\ \A f \in 1 .. Files : t[f] = Turned(files[f])
  BY TwinKeyIs
<1>2. \A f \in 1 .. Files : files[f] \in Words
  BY DEF Layout
<1> HIDE DEF t
<1>3. TwinKey(t) \in Layout /\ \A f \in 1 .. Files : TwinKey(t)[f] = Turned(t[f])
  BY <1>1, TwinKeyIs
<1>4. \A f \in 1 .. Files : TwinKey(t)[f] = files[f]
  BY <1>1, <1>2, <1>3, TurnedIs
<1>5. TwinKey(t) = files
  BY <1>3, <1>4, KeysAlike
<1>6. /\ Reverse(files) \in Layout /\ Reverse(t) \in Layout
      /\ \A f \in 1 .. Files : /\ Files + 1 - f \in 1 .. Files
                               /\ Reverse(files)[f] = files[Files + 1 - f]
                               /\ Reverse(t)[f] = t[Files + 1 - f]
  BY <1>1, ReflectedLayout
<1>7. /\ TwinKey(Reverse(files)) \in Layout
      /\ \A f \in 1 .. Files : TwinKey(Reverse(files))[f] = Turned(Reverse(files)[f])
  BY <1>6, TwinKeyIs
<1>8. \A f \in 1 .. Files : TwinKey(Reverse(files))[f] = Reverse(t)[f]
  BY <1>1, <1>6, <1>7
<1>9. TwinKey(Reverse(files)) = Reverse(t)
  BY <1>6, <1>7, <1>8, KeysAlike
<1>10. PawnTotal(t) = PawnTotal(files)
  <2>1. \A f \in 1 .. Files : Len(t[f]) = Len(files[f])
    BY <1>1, <1>2, TurnedIs
  <2>2. Lengths(t) = Lengths(files)
    BY <2>1 DEF Lengths
  <2> QED
    BY <2>2, <1>1, PawnsAreLengths
<1>11. PawnTotal(Reverse(files)) = PawnTotal(files)
  BY ReflectionCounts DEF PawnTotal
<1> QED
  BY <1>5, <1>9, <1>10, <1>11 DEF t

\* What a name says of the numbers of its table.
LEMMA NameCounts ==
  ASSUME NEW files \in Layout, NEW men \in Armies
  PROVE  /\ PawnTotal(files) \in Nat /\ PieceTotal(files, men) \in Nat
         /\ n_pawns(format_name(files, men)) = PawnTotal(files)
         /\ n_pieces(format_name(files, men)) = PieceTotal(files, men)
         /\ validate_elements(Elements(files, men)) <=> PieceTotal(files, men) <= MaxPieces
<1> DEFINE name == format_name(files, men)
           a == PawnsOf(files, STM)
           b == PawnsOf(files, SNTM)
<1>1. \A side \in Sides : name[side].men = men[side] /\ Len(name[side].pawns) = PawnsOf(files, side)
  BY FormatShape, AheadStep DEF PawnList
<1>2. a \in Nat /\ b \in Nat
  <2>1. Files \in 0 .. Files
    BY NamesAssumption
  <2> QED
    BY <2>1, AheadStep
<1>3. \A side \in Sides : MenOf(men[side]) \in Nat
  <2>1. \A side \in Sides : men[side] \in Army
    BY DEF Armies, Army
  <2> QED
    BY <2>1, MenCounted
<1> HIDE DEF name
<1>4. n_pawns(name) = a + b
  BY <1>1, SidesAre DEF n_pawns
<1>5. /\ side_piece_counts(name)[STM] = 1 + MenOf(men[STM]) + a
      /\ side_piece_counts(name)[SNTM] = 1 + MenOf(men[SNTM]) + b
  BY <1>1, SidesAre DEF side_piece_counts
<1>6. /\ PiecesOf(Elements(files, men), STM) = 1 + MenOf(men[STM]) + a
      /\ PiecesOf(Elements(files, men), SNTM) = 1 + MenOf(men[SNTM]) + b
  BY DEF PiecesOf, Elements
<1>7. PawnTotal(files) = a + b
      /\ PieceTotal(files, men) = 2 + MenOf(men[STM]) + MenOf(men[SNTM]) + (a + b)
  BY DEF PawnTotal, PieceTotal
<1>8. MenOf(men[STM]) \in Nat /\ MenOf(men[SNTM]) \in Nat
  BY <1>3, SidesAre
<1> HIDE DEF a, b
<1>9. PawnTotal(files) \in Nat /\ PieceTotal(files, men) \in Nat
  BY <1>2, <1>7, <1>8
<1>10. n_pieces(name) = PieceTotal(files, men)
  BY <1>2, <1>5, <1>7, <1>8 DEF n_pieces
<1>11. validate_elements(Elements(files, men)) <=> PieceTotal(files, men) <= MaxPieces
  <2>1. PiecesOf(Elements(files, men), STM) + PiecesOf(Elements(files, men), SNTM)
          = PieceTotal(files, men)
    BY <1>2, <1>6, <1>7, <1>8
  <2> QED
    BY <2>1 DEF validate_elements
<1> QED
  BY <1>4, <1>7, <1>9, <1>10, <1>11 DEF name

\* name is that of a table with these pawns, the right way round, and men.
TableOf(name, files, men) ==
  /\ files \in Layout /\ men \in Armies
  /\ canonicalized(files).reflected = FALSE
  /\ validate_elements(Elements(files, men))
  /\ name = format_name(files, men)
IsTable(name) == \E files \in Layout : \E men \in Armies : TableOf(name, files, men)

\* It is parsed to them.
LEMMA TableParsed ==
  ASSUME NEW name, NEW files, NEW men, TableOf(name, files, men)
  PROVE  /\ parse_elements(name) = Elements(files, men)
         /\ parse_elements(name).files = files /\ parse_elements(name).men = men
         /\ n_pawns(name) = PawnTotal(files) /\ n_pieces(name) = PieceTotal(files, men)
         /\ PawnTotal(files) \in Nat /\ PieceTotal(files, men) \in Nat
         /\ PieceTotal(files, men) <= MaxPieces
<1>1. /\ files \in Layout /\ men \in Armies /\ validate_elements(Elements(files, men))
      /\ name = format_name(files, men)
  BY DEF TableOf
<1>2. compute_tablename(Elements(files, men)) = name
  BY <1>1 DEF compute_tablename, Elements
<1>3. parse_elements(name) = Elements(files, men)
  <2>1. men \in [Sides -> Army]
    BY <1>1 DEF Armies, Army
  <2> QED
    BY <2>1, <1>1, <1>2, NamesIdentify
<1>4. Elements(files, men).files = files /\ Elements(files, men).men = men
  BY DEF Elements
<1> QED
  BY <1>1, <1>3, <1>4, NameCounts

\* The men of the sides exchanged.
Exchanged(men) == [side \in Sides |-> men[OtherSide(side)]]

\* What the other side sees of pawns and men.
LEMMA SeenIs ==
  ASSUME NEW files \in Layout, NEW men \in Armies
  PROVE  LET key == canonicalized(TwinKey(files)).files
         IN /\ key \in Layout /\ canonicalized(key).reflected = FALSE
            /\ key \in {TwinKey(files), Reverse(TwinKey(files))}
            /\ Exchanged(men) \in Armies /\ Exchanged(Exchanged(men)) = men
            /\ Seen(files, men) = format_name(key, Exchanged(men))
            /\ PawnTotal(key) = PawnTotal(files)
            /\ PieceTotal(key, Exchanged(men)) = PieceTotal(files, men)
<1> DEFINE t == TwinKey(files)
           key == canonicalized(t).files
<1>1. t \in Layout /\ PawnTotal(t) = PawnTotal(files)
  BY TwinKeyIs, TwinKeyTwice
<1> HIDE DEF t
<1>2. /\ key \in Layout /\ key \in {t, Reverse(t)}
      /\ canonicalized(key) = [files |-> key, reflected |-> FALSE]
  BY <1>1, CanonicalOrientation
<1>3. PawnTotal(key) = PawnTotal(files)
  BY <1>1, <1>2, TwinKeyTwice
<1>4. Exchanged(men) \in Armies /\ Exchanged(Exchanged(men)) = men
      /\ Exchanged(men)[STM] = men[SNTM] /\ Exchanged(men)[SNTM] = men[STM]
  <2>1. \A side \in Sides : OtherSide(side) \in Sides /\ OtherSide(OtherSide(side)) = side
    BY SidesAre
  <2>2. Exchanged(men) \in Armies
    BY <2>1 DEF Exchanged, Armies
  <2>3. \A side \in Sides : Exchanged(men)[side] = men[OtherSide(side)]
    BY DEF Exchanged
  <2>4. \A side \in Sides : Exchanged(men)[OtherSide(side)] = men[side]
    BY <2>1, <2>3
  <2>5. Exchanged(Exchanged(men)) = [side \in Sides |-> men[side]]
    BY <2>4 DEF Exchanged
  <2>6. men = [side \in Sides |-> men[side]]
    BY DEF Armies
  <2> QED
    BY <2>2, <2>3, <2>5, <2>6, SidesAre
<1>5. \A side \in Sides : MenOf(men[side]) \in Nat
  <2>1. \A side \in Sides : men[side] \in Army
    BY DEF Armies, Army
  <2> QED
    BY <2>1, MenCounted
<1>6. PieceTotal(key, Exchanged(men)) = PieceTotal(files, men)
  <2>1. MenOf(men[STM]) \in Nat /\ MenOf(men[SNTM]) \in Nat /\ PawnTotal(files) \in Nat
    BY <1>5, SidesAre, PawnsAreLengths
  <2> HIDE DEF key
  <2> QED
    BY <2>1, <1>3, <1>4 DEF PieceTotal
<1>7. Seen(files, men) = format_name(key, Exchanged(men))
  BY DEF Seen, compute_tablename, Elements, Exchanged, t
<1> QED
  BY <1>2, <1>3, <1>4, <1>6, <1>7 DEF t

\* A table of fewer pieces, or of as many pieces and fewer pawns.
Smaller(name, other) ==
  /\ n_pieces(name) \in Nat /\ n_pawns(name) \in Nat
  /\ n_pieces(other) \in Nat /\ n_pawns(other) \in Nat
  /\ \/ n_pieces(name) < n_pieces(other)
     \/ n_pieces(name) = n_pieces(other) /\ n_pawns(name) < n_pawns(other)

\* What is seen of fewer men or pawns is smaller.
LEMMA SeenSmaller ==
  ASSUME NEW name, NEW files, NEW men, TableOf(name, files, men),
         NEW left \in Layout, NEW kept \in Armies,
         \/ PieceTotal(left, kept) < PieceTotal(files, men)
         \/ /\ PieceTotal(left, kept) = PieceTotal(files, men)
            /\ PawnTotal(left) < PawnTotal(files)
  PROVE  Smaller(Seen(left, kept), name)
<1> DEFINE key == canonicalized(TwinKey(left)).files
<1>1. /\ key \in Layout /\ Exchanged(kept) \in Armies
      /\ Seen(left, kept) = format_name(key, Exchanged(kept))
      /\ PawnTotal(key) = PawnTotal(left)
      /\ PieceTotal(key, Exchanged(kept)) = PieceTotal(left, kept)
  BY SeenIs
<1> HIDE DEF key
<1>2. /\ n_pawns(Seen(left, kept)) = PawnTotal(left) /\ PawnTotal(left) \in Nat
      /\ n_pieces(Seen(left, kept)) = PieceTotal(left, kept) /\ PieceTotal(left, kept) \in Nat
  BY <1>1, NameCounts
<1>3. /\ n_pawns(name) = PawnTotal(files) /\ n_pieces(name) = PieceTotal(files, men)
      /\ PawnTotal(files) \in Nat /\ PieceTotal(files, men) \in Nat
  BY TableParsed
<1>4. CASE PieceTotal(left, kept) < PieceTotal(files, men)
  <2>1. n_pieces(Seen(left, kept)) < n_pieces(name)
    BY <1>2, <1>3, <1>4
  <2>2. /\ n_pieces(Seen(left, kept)) \in Nat /\ n_pawns(Seen(left, kept)) \in Nat
        /\ n_pieces(name) \in Nat /\ n_pawns(name) \in Nat
    BY <1>2, <1>3
  <2> QED
    BY <2>1, <2>2 DEF Smaller
<1>5. CASE PieceTotal(left, kept) = PieceTotal(files, men) /\ PawnTotal(left) < PawnTotal(files)
  BY <1>2, <1>3, <1>5 DEF Smaller
<1> QED
  BY <1>4, <1>5

\* A man gained or lost.
LEMMA MenGained ==
  ASSUME NEW men \in Armies, NEW side \in Sides, NEW role \in ToSet(Roles)
  PROVE  /\ Gain(men, side, role) \in Armies
         /\ \A files \in Layout :
              PieceTotal(files, Gain(men, side, role)) = PieceTotal(files, men) + 1
         /\ role \in Held(men, side) =>
              /\ Lose(men, side, role) \in Armies
              /\ \A files \in Layout :
                   PieceTotal(files, Lose(men, side, role)) = PieceTotal(files, men) - 1
<1>1. /\ \A s \in Sides : men[s] \in Army /\ MenOf(men[s]) \in Nat
      /\ Armies = [Sides -> Army]
  BY MenCounted DEF Armies, Army
<1> DEFINE more == [men[side] EXCEPT ![role] = @ + 1]
           less == [men[side] EXCEPT ![role] = @ - 1]
<1>2. /\ more \in Army /\ MenOf(more) = MenOf(men[side]) + 1
      /\ men[side][role] > 0 => less \in Army /\ MenOf(less) = MenOf(men[side]) - 1
  BY <1>1, MenCounted
<1>3. Gain(men, side, role) = [men EXCEPT ![side] = more]
  BY DEF Gain
<1>4. Lose(men, side, role) = [men EXCEPT ![side] = less]
  BY DEF Lose
<1> HIDE DEF more, less
<1>5. ASSUME NEW army \in Army, NEW n \in Int, MenOf(army) = MenOf(men[side]) + n
      PROVE  /\ [men EXCEPT ![side] = army] \in Armies
             /\ \A files \in Layout :
                  PieceTotal(files, [men EXCEPT ![side] = army]) = PieceTotal(files, men) + n
  <2> DEFINE other == [men EXCEPT ![side] = army]
  <2>1. other \in Armies
    BY <1>1
  <2>2. other[side] = army /\ \A s \in Sides : s # side => other[s] = men[s]
    BY <1>1
  <2>3. MenOf(men[STM]) \in Nat /\ MenOf(men[SNTM]) \in Nat
    BY <1>1, SidesAre
  <2> HIDE DEF other
  <2>4. MenOf(other[STM]) + MenOf(other[SNTM]) = MenOf(men[STM]) + MenOf(men[SNTM]) + n
    <3>1. CASE side = STM
      <4>1. other[STM] = army /\ other[SNTM] = men[SNTM]
        BY <2>2, <3>1, SidesAre
      <4> QED
        BY <4>1, <2>3, <3>1, <1>5
    <3>2. CASE side = SNTM
      <4>1. other[SNTM] = army /\ other[STM] = men[STM]
        BY <2>2, <3>2, SidesAre
      <4> QED
        BY <4>1, <2>3, <3>2, <1>5
    <3> QED
      BY <3>1, <3>2, SidesAre
  <2>5. MenOf(other[STM]) \in Nat /\ MenOf(other[SNTM]) \in Nat
    BY <2>1, <1>1, SidesAre, MenCounted
  <2>6. ASSUME NEW files \in Layout
        PROVE  PieceTotal(files, other) = PieceTotal(files, men) + n
    <3>1. PawnTotal(files) \in Nat
      BY PawnsAreLengths
    <3> QED
      BY <3>1, <2>3, <2>4, <2>5 DEF PieceTotal
  <2> QED
    BY <2>1, <2>6 DEF other
<1>6. /\ Gain(men, side, role) \in Armies
      /\ \A files \in Layout :
           PieceTotal(files, Gain(men, side, role)) = PieceTotal(files, men) + 1
  <2>1. more \in Army /\ 1 \in Int /\ MenOf(more) = MenOf(men[side]) + 1
    BY <1>2
  <2>2. /\ [men EXCEPT ![side] = more] \in Armies
        /\ \A files \in Layout :
             PieceTotal(files, [men EXCEPT ![side] = more]) = PieceTotal(files, men) + 1
    BY <2>1, <1>5
  <2> QED
    BY <2>2, <1>3
<1>7. ASSUME role \in Held(men, side)
      PROVE  /\ Lose(men, side, role) \in Armies
             /\ \A files \in Layout :
                  PieceTotal(files, Lose(men, side, role)) = PieceTotal(files, men) - 1
  <2>1. men[side][role] > 0
    BY <1>7 DEF Held
  <2>2. less \in Army /\ MenOf(less) = MenOf(men[side]) + (-1)
    <3>1. MenOf(men[side]) \in Nat
      BY <1>1
    <3> QED
      BY <3>1, <2>1, <1>2
  <2>3. /\ Lose(men, side, role) \in Armies
        /\ \A files \in Layout :
             PieceTotal(files, Lose(men, side, role)) = PieceTotal(files, men) + (-1)
    <3>1. -1 \in Int
      OBVIOUS
    <3>2. /\ [men EXCEPT ![side] = less] \in Armies
          /\ \A files \in Layout :
               PieceTotal(files, [men EXCEPT ![side] = less]) = PieceTotal(files, men) + (-1)
      BY <2>2, <3>1, <1>5
    <3> QED
      BY <3>2, <1>4
  <2>4. ASSUME NEW files \in Layout
        PROVE  PieceTotal(files, Lose(men, side, role)) = PieceTotal(files, men) - 1
    <3>1. PieceTotal(files, men) \in Nat
      BY NameCounts
    <3> QED
      BY <3>1, <2>3
  <2> QED
    BY <2>3, <2>4
<1> QED
  BY <1>6, <1>7

\* A pawn fewer.
LEMMA PawnRemoved ==
  ASSUME NEW files \in Layout, NEW side, NEW p \in PawnSlots(files, side)
  PROVE  /\ p[1] \in 1 .. Files
         /\ Removed(files, p[1], p[2]) \in Layout
         /\ \A g \in 1 .. Files : g # p[1] => Removed(files, p[1], p[2])[g] = files[g]
         /\ PawnTotal(Removed(files, p[1], p[2])) = PawnTotal(files) - 1
<1> DEFINE f == p[1]
           w == files[f]
           v == RemoveAt(w, p[2])
<1>1. f \in 1 .. Files /\ p[2] \in DOMAIN w
  BY DEF PawnSlots
<1>2. w \in Words /\ PawnTotal(files) \in Nat
  BY <1>1, PawnsAreLengths DEF Layout
<1>3. v \in Words /\ Len(w) \in Nat /\ Len(v) = Len(w) - 1
  BY <1>1, <1>2, WordChanges
<1>4. Removed(files, f, p[2]) = Placing(files, f, v)
  BY DEF Removed, Placing
<1> HIDE DEF v, f
<1>5. /\ Placing(files, f, v) \in Layout
      /\ \A g \in 1 .. Files : g # f => Placing(files, f, v)[g] = files[g]
      /\ PawnTotal(Placing(files, f, v)) = PawnTotal(files) - Len(files[f]) + Len(v)
  BY <1>1, <1>3, WordReplaced
<1>6. PawnTotal(Placing(files, f, v)) = PawnTotal(files) - 1
  BY <1>2, <1>3, <1>5
<1> QED
  BY <1>1, <1>4, <1>5, <1>6 DEF f

\* With the same men the pieces differ as the pawns do.
LEMMA PiecesByPawns ==
  ASSUME NEW files \in Layout, NEW left \in Layout, NEW men \in Armies
  PROVE  /\ PawnTotal(files) \in Nat /\ PawnTotal(left) \in Nat
         /\ PieceTotal(files, men) \in Nat /\ PieceTotal(left, men) \in Nat
         /\ PieceTotal(left, men) = PieceTotal(files, men) + PawnTotal(left) - PawnTotal(files)
<1>1. /\ PawnTotal(files) \in Nat /\ PawnTotal(left) \in Nat
      /\ PieceTotal(files, men) \in Nat /\ PieceTotal(left, men) \in Nat
  BY NameCounts
<1>2. \A side \in Sides : MenOf(men[side]) \in Nat
  <2>1. \A side \in Sides : men[side] \in Army
    BY DEF Armies, Army
  <2> QED
    BY <2>1, MenCounted
<1>3. MenOf(men[STM]) \in Nat /\ MenOf(men[SNTM]) \in Nat
  BY <1>2, SidesAre
<1>4. PieceTotal(left, men) = PieceTotal(files, men) + PawnTotal(left) - PawnTotal(files)
  BY <1>1, <1>3 DEF PieceTotal
<1> QED
  BY <1>1, <1>4

\* A man or a pawn that takes leaves a smaller table.
LEMMA ManTakesSmaller ==
  ASSUME NEW name, NEW files, NEW men, TableOf(name, files, men),
         NEW d \in ManTakes(files, men)
  PROVE  Smaller(d, name)
<1>1. files \in Layout /\ men \in Armies /\ STM \in Sides /\ SNTM \in Sides
  BY SidesAre DEF TableOf
<1>2. PieceTotal(files, men) \in Nat
  BY <1>1, NameCounts
<1>3. CASE \E role \in Held(men, SNTM) : d = Seen(files, Lose(men, SNTM, role))
  <2>1. PICK role \in Held(men, SNTM) : d = Seen(files, Lose(men, SNTM, role))
    BY <1>3
  <2>2. role \in ToSet(Roles)
    BY DEF Held
  <2>3. /\ Lose(men, SNTM, role) \in Armies
        /\ PieceTotal(files, Lose(men, SNTM, role)) = PieceTotal(files, men) - 1
    BY <1>1, <2>2, MenGained
  <2>4. PieceTotal(files, Lose(men, SNTM, role)) < PieceTotal(files, men)
    BY <1>2, <2>3
  <2> QED
    BY <1>1, <2>1, <2>3, <2>4, SeenSmaller
<1>4. CASE \E p \in PawnSlots(files, SNTM) : d = Seen(Removed(files, p[1], p[2]), men)
  <2>1. PICK p \in PawnSlots(files, SNTM) : d = Seen(Removed(files, p[1], p[2]), men)
    BY <1>4
  <2> DEFINE left == Removed(files, p[1], p[2])
  <2>2. left \in Layout /\ PawnTotal(left) = PawnTotal(files) - 1
    BY <1>1, PawnRemoved
  <2> HIDE DEF left
  <2>3. PieceTotal(left, men) < PieceTotal(files, men)
    BY <1>1, <2>2, PiecesByPawns
  <2> QED
    BY <1>1, <2>1, <2>2, <2>3, SeenSmaller DEF left
<1> QED
  BY <1>3, <1>4 DEF ManTakes

\* So does a promotion.
LEMMA PromotesSmaller ==
  ASSUME NEW name, NEW files, NEW men, TableOf(name, files, men),
         NEW d \in Promotes(files, men)
  PROVE  Smaller(d, name)
<1>1. files \in Layout /\ men \in Armies /\ STM \in Sides
  BY SidesAre DEF TableOf
<1>2. PICK p \in PawnSlots(files, STM) : \E role \in ToSet(Roles) :
        d = Seen(Removed(files, p[1], p[2]), Gain(men, STM, role))
  BY DEF Promotes
<1>3. PICK role \in ToSet(Roles) : d = Seen(Removed(files, p[1], p[2]), Gain(men, STM, role))
  BY <1>2
<1> DEFINE left == Removed(files, p[1], p[2])
           more == Gain(men, STM, role)
<1>4. left \in Layout /\ PawnTotal(left) = PawnTotal(files) - 1
  BY <1>1, PawnRemoved
<1>5. more \in Armies /\ \A l \in Layout : PieceTotal(l, more) = PieceTotal(l, men) + 1
  BY <1>1, MenGained
<1>6. d = Seen(left, more)
  BY <1>3
<1> HIDE DEF left, more
<1>7. /\ PawnTotal(files) \in Nat /\ PieceTotal(files, men) \in Nat
      /\ PieceTotal(left, men) = PieceTotal(files, men) + PawnTotal(left) - PawnTotal(files)
      /\ PieceTotal(left, men) \in Nat
  BY <1>1, <1>4, PiecesByPawns
<1>8. PieceTotal(left, more) = PieceTotal(files, men) /\ PawnTotal(left) < PawnTotal(files)
  BY <1>4, <1>5, <1>7
<1> QED
  BY <1>1, <1>4, <1>5, <1>6, <1>8, SeenSmaller

\* So does a pawn that takes.
LEMMA PawnTakesSmaller ==
  ASSUME NEW name, NEW files, NEW men, TableOf(name, files, men),
         NEW d \in PawnTakes(files, men)
  PROVE  Smaller(d, name)
<1> DEFINE takers == {t \in PawnSlots(files, STM) \X (1 .. Files) : t[2] \in Beside(t[1][1])}
           left(t) == Removed(files, t[1][1], t[1][2])
<1>1. files \in Layout /\ men \in Armies /\ STM \in Sides /\ SNTM \in Sides
  BY SidesAre DEF TableOf
<1>2. ASSUME NEW t \in takers
      PROVE  /\ left(t) \in Layout /\ t[2] \in 1 .. Files /\ left(t)[t[2]] = files[t[2]]
             /\ left(t)[t[2]] \in Words
             /\ PawnTotal(left(t)) = PawnTotal(files) - 1
             /\ PawnTotal(files) \in Nat /\ PieceTotal(files, men) \in Nat
             /\ PieceTotal(left(t), men) = PieceTotal(files, men) - 1
  <2>1. t[1] \in PawnSlots(files, STM) /\ t[2] \in 1 .. Files /\ t[2] \in Beside(t[1][1])
    OBVIOUS
  <2>2. /\ t[1][1] \in 1 .. Files /\ left(t) \in Layout
        /\ \A g \in 1 .. Files : g # t[1][1] => left(t)[g] = files[g]
        /\ PawnTotal(left(t)) = PawnTotal(files) - 1
    BY <1>1, <2>1, PawnRemoved
  <2> HIDE DEF left
  <2>3. t[2] # t[1][1]
    BY <2>1, <2>2 DEF Beside
  <2>4. left(t)[t[2]] = files[t[2]] /\ left(t)[t[2]] \in Words
    BY <2>1, <2>2, <2>3 DEF Layout
  <2>5. /\ PawnTotal(files) \in Nat /\ PieceTotal(files, men) \in Nat
        /\ PieceTotal(left(t), men) = PieceTotal(files, men) + PawnTotal(left(t)) - PawnTotal(files)
    BY <1>1, <2>2, PiecesByPawns
  <2>6. PieceTotal(left(t), men) = PieceTotal(files, men) - 1
    BY <2>2, <2>5
  <2> QED
    BY <2>1, <2>2, <2>4, <2>5, <2>6
<1>3. ASSUME NEW role \in Held(men, SNTM)
      PROVE  /\ role \in ToSet(Roles) /\ Lose(men, SNTM, role) \in Armies
             /\ \A l \in Layout : PieceTotal(l, Lose(men, SNTM, role)) = PieceTotal(l, men) - 1
  <2>1. role \in ToSet(Roles)
    BY DEF Held
  <2> QED
    BY <1>1, <2>1, MenGained
<1>4. \/ \E t \in takers : \E i \in {j \in DOMAIN files[t[2]] : files[t[2]][j] = SNTM} :
           d = Seen([left(t) EXCEPT ![t[2]][i] = STM], men)
      \/ \E t \in takers : \E i \in 1 .. Slots : \E role \in Held(men, SNTM) :
           /\ Len(files[t[2]]) < Slots /\ i <= Len(files[t[2]]) + 1
           /\ d = Seen([left(t) EXCEPT ![t[2]] = InsertAt(@, i, STM)], Lose(men, SNTM, role))
      \/ \E t \in takers : \E role \in Held(men, SNTM) : \E new \in ToSet(Roles) :
           d = Seen(left(t), Gain(Lose(men, SNTM, role), STM, new))
  <2> DEFINE taken(t) == {Seen([left(t) EXCEPT ![t[2]][i] = STM], men) :
                            i \in {j \in DOMAIN files[t[2]] : files[t[2]][j] = SNTM}}
             reached == {c \in takers \X (1 .. Slots) \X Held(men, SNTM) :
                           Len(files[c[1][2]]) < Slots /\ c[2] <= Len(files[c[1][2]]) + 1}
             placed(c) == Seen([left(c[1]) EXCEPT ![c[1][2]] = InsertAt(@, c[2], STM)],
                               Lose(men, SNTM, c[3]))
  <2>1. PawnTakes(files, men) =
          (UNION {taken(t) : t \in takers})
          \cup {placed(c) : c \in reached}
          \cup {Seen(left(t), Gain(Lose(men, SNTM, role), STM, new)) :
                  t \in takers, role \in Held(men, SNTM), new \in ToSet(Roles)}
    BY DEF PawnTakes
  <2> HIDE DEF takers, left
  <2>2. CASE \E t \in takers : d \in taken(t)
    <3>1. PICK t \in takers : d \in taken(t)
      BY <2>2
    <3> QED
      BY <3>1
  <2>3. CASE \E c \in reached : d = placed(c)
    <3>1. PICK c \in reached : d = placed(c)
      BY <2>3
    <3>2. /\ c[1] \in takers /\ c[2] \in 1 .. Slots /\ c[3] \in Held(men, SNTM)
          /\ Len(files[c[1][2]]) < Slots /\ c[2] <= Len(files[c[1][2]]) + 1
      OBVIOUS
    <3> QED
      BY <3>1, <3>2
  <2>4. CASE (\A t \in takers : d \notin taken(t)) /\ \A c \in reached : d # placed(c)
    <3> HIDE DEF taken, placed, reached
    <3>1. \E t \in takers, role \in Held(men, SNTM), new \in ToSet(Roles) :
            d = Seen(left(t), Gain(Lose(men, SNTM, role), STM, new))
      BY <2>1, <2>4
    <3> QED
      BY <3>1
  <2> QED
    BY <2>2, <2>3, <2>4
<1> HIDE DEF left, takers
<1>5. CASE \E t \in takers : \E i \in {j \in DOMAIN files[t[2]] : files[t[2]][j] = SNTM} :
             d = Seen([left(t) EXCEPT ![t[2]][i] = STM], men)
  <2>1. PICK t \in takers : \E i \in {j \in DOMAIN files[t[2]] : files[t[2]][j] = SNTM} :
               d = Seen([left(t) EXCEPT ![t[2]][i] = STM], men)
    BY <1>5
  <2>2. PICK i \in DOMAIN files[t[2]] : d = Seen([left(t) EXCEPT ![t[2]][i] = STM], men)
    BY <2>1
  <2> DEFINE w == [left(t)[t[2]] EXCEPT ![i] = STM]
             after == Placing(left(t), t[2], w)
  <2>3. d = Seen(after, men)
    BY <2>2 DEF Placing
  <2>4. w \in Words /\ Len(w) = Len(left(t)[t[2]]) /\ Len(left(t)[t[2]]) \in Nat
    BY <1>2, <2>2, WordChanges
  <2> HIDE DEF w
  <2>5. /\ after \in Layout
        /\ PawnTotal(after) = PawnTotal(left(t)) - Len(left(t)[t[2]]) + Len(w)
    BY <1>2, <2>4, WordReplaced
  <2> HIDE DEF after
  <2>6. PawnTotal(after) = PawnTotal(files) - 1
    BY <1>2, <2>4, <2>5
  <2>7. PieceTotal(after, men) < PieceTotal(files, men)
    BY <1>1, <2>5, <2>6, PiecesByPawns
  <2> QED
    BY <1>1, <2>3, <2>5, <2>7, SeenSmaller
<1>6. CASE \E t \in takers : \E i \in 1 .. Slots : \E role \in Held(men, SNTM) :
             /\ Len(files[t[2]]) < Slots /\ i <= Len(files[t[2]]) + 1
             /\ d = Seen([left(t) EXCEPT ![t[2]] = InsertAt(@, i, STM)], Lose(men, SNTM, role))
  <2>1. PICK t \in takers : \E i \in 1 .. Slots : \E role \in Held(men, SNTM) :
          /\ Len(files[t[2]]) < Slots /\ i <= Len(files[t[2]]) + 1
          /\ d = Seen([left(t) EXCEPT ![t[2]] = InsertAt(@, i, STM)], Lose(men, SNTM, role))
    BY <1>6
  <2>2. PICK i \in 1 .. Slots, role \in Held(men, SNTM) :
          /\ Len(files[t[2]]) < Slots /\ i <= Len(files[t[2]]) + 1
          /\ d = Seen([left(t) EXCEPT ![t[2]] = InsertAt(@, i, STM)], Lose(men, SNTM, role))
    BY <2>1
  <2> DEFINE w == InsertAt(left(t)[t[2]], i, STM)
             after == Placing(left(t), t[2], w)
             less == Lose(men, SNTM, role)
  <2>3. d = Seen(after, less)
    BY <2>2 DEF Placing
  <2>4. w \in Words /\ Len(w) = Len(left(t)[t[2]]) + 1 /\ Len(left(t)[t[2]]) \in Nat
    <3>1. left(t)[t[2]] \in Words /\ left(t)[t[2]] = files[t[2]]
      BY <1>2
    <3>2. Len(left(t)[t[2]]) \in Nat /\ Len(left(t)[t[2]]) < Slots
      BY <3>1, <2>2, WordChanges
    <3>3. i \in 1 .. Len(left(t)[t[2]]) + 1
      BY <3>1, <3>2, <2>2, NamesAssumption
    <3> QED
      BY <3>1, <3>2, <3>3, WordChanges
  <2>5. less \in Armies /\ \A l \in Layout : PieceTotal(l, less) = PieceTotal(l, men) - 1
    BY <1>3
  <2> HIDE DEF w, less
  <2>6. /\ after \in Layout
        /\ PawnTotal(after) = PawnTotal(left(t)) - Len(left(t)[t[2]]) + Len(w)
    BY <1>2, <2>4, WordReplaced
  <2> HIDE DEF after
  <2>7. PawnTotal(after) = PawnTotal(files)
    <3>1. PawnTotal(left(t)) = PawnTotal(files) - 1 /\ PawnTotal(files) \in Nat
      BY <1>2
    <3> QED
      BY <3>1, <2>4, <2>6
  <2>8. PieceTotal(after, men) = PieceTotal(files, men) /\ PieceTotal(files, men) \in Nat
    BY <1>1, <2>6, <2>7, PiecesByPawns
  <2>9. PieceTotal(after, less) < PieceTotal(files, men)
    BY <2>5, <2>6, <2>8
  <2> QED
    BY <1>1, <2>3, <2>5, <2>6, <2>9, SeenSmaller
<1>7. CASE \E t \in takers : \E role \in Held(men, SNTM) : \E new \in ToSet(Roles) :
             d = Seen(left(t), Gain(Lose(men, SNTM, role), STM, new))
  <2>1. PICK t \in takers, role \in Held(men, SNTM), new \in ToSet(Roles) :
          d = Seen(left(t), Gain(Lose(men, SNTM, role), STM, new))
    BY <1>7
  <2> DEFINE less == Lose(men, SNTM, role)
             other == Gain(less, STM, new)
  <2>2. less \in Armies /\ \A l \in Layout : PieceTotal(l, less) = PieceTotal(l, men) - 1
    BY <1>3
  <2> HIDE DEF less
  <2>3. other \in Armies /\ \A l \in Layout : PieceTotal(l, other) = PieceTotal(l, less) + 1
    BY <1>1, <2>2, MenGained
  <2>4. d = Seen(left(t), other)
    BY <2>1 DEF less
  <2> HIDE DEF other
  <2>5. PieceTotal(left(t), other) < PieceTotal(files, men)
    <3>1. /\ left(t) \in Layout /\ PieceTotal(files, men) \in Nat
          /\ PieceTotal(left(t), men) = PieceTotal(files, men) - 1
      BY <1>2
    <3>2. /\ PieceTotal(left(t), less) = PieceTotal(left(t), men) - 1
          /\ PieceTotal(left(t), other) = PieceTotal(left(t), less) + 1
      BY <3>1, <2>2, <2>3
    <3> QED
      BY <3>1, <3>2
  <2> QED
    BY <1>1, <1>2, <2>3, <2>4, <2>5, SeenSmaller
<1> QED
  BY <1>4, <1>5, <1>6, <1>7

\* Whatever a table may convert into has fewer pieces, or as many and fewer pawns: what
\* the order of TableId begins with (captures_and_promotions in tests, selection.rs).
THEOREM ConversionsSmaller ==
  ASSUME NEW name, IsTable(name), NEW d \in ConversionsOf(name)
  PROVE  Smaller(d, name)
<1>1. PICK files \in Layout : \E men \in Armies : TableOf(name, files, men)
  BY DEF IsTable
<1>2. PICK men \in Armies : TableOf(name, files, men)
  BY <1>1
<1>3. parse_elements(name).files = files /\ parse_elements(name).men = men
  BY <1>2, TableParsed
<1>4. d \in ManTakes(files, men) \/ d \in Promotes(files, men) \/ d \in PawnTakes(files, men)
  BY <1>3 DEF ConversionsOf
<1> QED
  BY <1>2, <1>4, ManTakesSmaller, PromotesSmaller, PawnTakesSmaller

\* What the other side sees of a table is its twin: a table again.
LEMMA TwinIs ==
  ASSUME NEW name, NEW files, NEW men, TableOf(name, files, men)
  PROVE  TableOf(twin(name).id, canonicalized(TwinKey(files)).files, Exchanged(men))
<1> DEFINE key == canonicalized(TwinKey(files)).files
           other == Exchanged(men)
<1>1. files \in Layout /\ men \in Armies
  BY DEF TableOf
<1>2. /\ parse_elements(name).files = files /\ parse_elements(name).men = men
      /\ PieceTotal(files, men) <= MaxPieces
  BY TableParsed
<1>3. /\ key \in Layout /\ canonicalized(key).reflected = FALSE /\ other \in Armies
      /\ PieceTotal(key, other) = PieceTotal(files, men)
  BY <1>1, SeenIs
<1>4. twin(name).id = from_elements(Elements(key, other))
  BY <1>2 DEF twin, Exchanged
<1> HIDE DEF key, other
<1>5. validate_elements(Elements(key, other))
  BY <1>2, <1>3, NameCounts
<1>6. twin(name).id = format_name(key, other)
  <2>1. Elements(key, other).files = key /\ Elements(key, other).men = other
    BY DEF Elements
  <2> QED
    BY <2>1, <1>3, <1>4, <1>5 DEF from_elements, compute_tablename
<1> QED
  BY <1>3, <1>5, <1>6 DEF TableOf, key, other

\* The twin of the twin is the table itself.
THEOREM TwinTwice ==
  ASSUME NEW name, IsTable(name)
  PROVE  IsTable(twin(name).id) /\ twin(twin(name).id).id = name
<1>1. PICK files \in Layout : \E men \in Armies : TableOf(name, files, men)
  BY DEF IsTable
<1>2. PICK men \in Armies : TableOf(name, files, men)
  BY <1>1
<1> DEFINE t == TwinKey(files)
           key == canonicalized(t).files
           other == Exchanged(men)
           back == canonicalized(TwinKey(key)).files
<1>3. TableOf(twin(name).id, key, other)
  BY <1>2, TwinIs
<1>4. key \in Layout /\ other \in Armies /\ Exchanged(other) = men /\ key \in {t, Reverse(t)}
  BY SeenIs
<1>5. t \in Layout /\ TwinKey(t) = files /\ TwinKey(Reverse(t)) = Reverse(files)
  <2>1. t \in Layout /\ TwinKey(t) = files
    BY TwinKeyIs, TwinKeyTwice
  <2> HIDE DEF t
  <2> QED
    BY <2>1, TwinKeyTwice
<1>6. canonicalized(files).files = files /\ canonicalized(Reverse(files)).files = files
  <2>1. canonicalized(files).reflected = FALSE
    BY <1>2 DEF TableOf
  <2>2. canonicalized(files).files = files
    BY <2>1, CanonicalizedIs
  <2> QED
    BY <2>2, CanonicalOrientation
<1> HIDE DEF key, other, t
<1>7. back = files
  BY <1>4, <1>5, <1>6
<1>8. TableOf(twin(twin(name).id).id, back, Exchanged(other))
  BY <1>3, TwinIs
<1> HIDE DEF back
<1>9. TableOf(twin(twin(name).id).id, files, men)
  BY <1>4, <1>7, <1>8
<1> QED
  BY <1>2, <1>3, <1>4, <1>9 DEF TableOf, IsTable

-------------------------------------------------------------------------------
(* Keys.                                                                    *)

\* Concatenations are told apart part by part, if the first parts are as long.
LEMMA PartsAlike ==
  ASSUME NEW s \in Seq(Nat), NEW t \in Seq(Nat), NEW p \in Seq(Nat), NEW q \in Seq(Nat),
         Len(s) = Len(t), s \o p = t \o q
  PROVE  s = t /\ p = q
<1>1. Len(s) \in Nat /\ Len(p) \in Nat /\ Len(q) \in Nat
  OBVIOUS
<1>2. /\ Len(s \o p) = Len(s) + Len(p)
      /\ \A i \in 1 .. Len(s) + Len(p) :
           (s \o p)[i] = IF i <= Len(s) THEN s[i] ELSE p[i - Len(s)]
  BY ConcatProperties
<1>3. /\ Len(t \o q) = Len(t) + Len(q)
      /\ \A i \in 1 .. Len(t) + Len(q) :
           (t \o q)[i] = IF i <= Len(t) THEN t[i] ELSE q[i - Len(t)]
  BY ConcatProperties
<1>4. Len(p) = Len(q)
  BY <1>1, <1>2, <1>3
<1>5. p = q
  BY <1>4, LastParts
<1>6. \A i \in 1 .. Len(s) : s[i] = t[i]
  <2>1. SUFFICES ASSUME NEW i \in 1 .. Len(s) PROVE s[i] = t[i]
    OBVIOUS
  <2>2. i \in 1 .. Len(s) + Len(p) /\ i \in 1 .. Len(t) + Len(q) /\ i <= Len(s) /\ i <= Len(t)
    BY <1>1, <1>4
  <2> QED
    BY <2>2, <1>2, <1>3
<1>7. s = [i \in 1 .. Len(s) |-> s[i]] /\ t = [i \in 1 .. Len(s) |-> t[i]]
  OBVIOUS
<1> QED
  BY <1>5, <1>6, <1>7

\* The first place past a shorter part is in the other part, and in both sums.
Past(a, c, b, d) ==
  /\ a + 1 \in 1 .. b /\ ~ (a + 1 <= a) /\ a + 1 <= b /\ a + 1 - a = 1
  /\ a + 1 \in 1 .. a + c /\ a + 1 \in 1 .. b + d /\ c > 0

\* It is where the shorter part has ended.
LEMMA PastPart ==
  ASSUME NEW a \in Nat, NEW c \in Nat, NEW b \in Nat, NEW d \in Nat,
         a + c = b + d, a < b
  PROVE  Past(a, c, b, d)
BY DEF Past

\* Is every entry of a list below m?
AllBelow(list, m) == \A i \in 1 .. Len(list) : list[i] < m

\* Parts of small entries and rests of large ones are told apart.
LEMMA SmallsFirst ==
  ASSUME NEW m \in Nat,
         NEW s \in Seq(Nat), NEW t \in Seq(Nat), NEW p \in Seq(Nat), NEW q \in Seq(Nat),
         AllBelow(s, m), AllBelow(t, m), p = <<>> \/ p[1] >= m, q = <<>> \/ q[1] >= m,
         s \o p = t \o q
  PROVE  s = t /\ p = q
<1>1. Len(s) \in Nat /\ Len(p) \in Nat /\ Len(q) \in Nat /\ Len(t) \in Nat
  OBVIOUS
<1>2. /\ Len(s \o p) = Len(s) + Len(p)
      /\ \A i \in 1 .. Len(s) + Len(p) :
           (s \o p)[i] = IF i <= Len(s) THEN s[i] ELSE p[i - Len(s)]
  BY ConcatProperties
<1>3. /\ Len(t \o q) = Len(t) + Len(q)
      /\ \A i \in 1 .. Len(t) + Len(q) :
           (t \o q)[i] = IF i <= Len(t) THEN t[i] ELSE q[i - Len(t)]
  BY ConcatProperties
<1>4. Len(s) + Len(p) = Len(t) + Len(q)
  BY <1>2, <1>3
<1>5. ~ (Len(s) < Len(t))
  <2>1. SUFFICES ASSUME Len(s) < Len(t) PROVE FALSE
    OBVIOUS
  <2> DEFINE i == Len(s) + 1
  <2>2. /\ i \in 1 .. Len(t) /\ ~ (i <= Len(s)) /\ i <= Len(t) /\ i - Len(s) = 1
        /\ i \in 1 .. Len(s) + Len(p) /\ i \in 1 .. Len(t) + Len(q) /\ Len(p) > 0
    <3>1. /\ Len(s) \in Nat /\ Len(p) \in Nat /\ Len(t) \in Nat /\ Len(q) \in Nat
          /\ Len(s) + Len(p) = Len(t) + Len(q) /\ Len(s) < Len(t)
      BY <1>1, <1>4, <2>1
    <3>2. Past(Len(s), Len(p), Len(t), Len(q))
      <4> HIDE DEF i
      <4> QED
        BY <3>1, PastPart
    <3> QED
      BY <3>2 DEF Past
  <2>3. p[1] >= m
    BY <2>2
  <2>4. t[i] = p[1]
    <3>1. (s \o p)[i] = p[1] /\ (t \o q)[i] = t[i]
      <4> HIDE DEF i
      <4> QED
        BY <2>2, <1>2, <1>3
    <3> QED
      BY <3>1
  <2>5. t[i] < m /\ t[i] \in Nat /\ p[1] \in Nat
    <3>1. 1 \in 1 .. Len(p)
      BY <1>1, <2>2
    <3> HIDE DEF i
    <3>2. t[i] < m
      BY <2>2 DEF AllBelow
    <3>3. t[i] \in Nat
      <4>1. \A k \in 1 .. Len(t) : t[k] \in Nat
        BY ElementOfSeq
      <4> QED
        BY <4>1, <2>2
    <3>4. p[1] \in Nat
      BY <3>1, ElementOfSeq
    <3> QED
      BY <3>2, <3>3, <3>4
  <2> HIDE DEF i
  <2> QED
    BY <2>3, <2>4, <2>5
<1>6. ~ (Len(t) < Len(s))
  <2>1. SUFFICES ASSUME Len(t) < Len(s) PROVE FALSE
    OBVIOUS
  <2> DEFINE i == Len(t) + 1
  <2>2. /\ i \in 1 .. Len(s) /\ ~ (i <= Len(t)) /\ i <= Len(s) /\ i - Len(t) = 1
        /\ i \in 1 .. Len(s) + Len(p) /\ i \in 1 .. Len(t) + Len(q) /\ Len(q) > 0
    <3>1. /\ Len(t) \in Nat /\ Len(q) \in Nat /\ Len(s) \in Nat /\ Len(p) \in Nat
          /\ Len(t) + Len(q) = Len(s) + Len(p) /\ Len(t) < Len(s)
      BY <1>1, <1>4, <2>1
    <3>2. Past(Len(t), Len(q), Len(s), Len(p))
      <4> HIDE DEF i
      <4> QED
        BY <3>1, PastPart
    <3> QED
      BY <3>2 DEF Past
  <2>3. q[1] >= m
    BY <2>2
  <2>4. s[i] = q[1]
    <3>1. (s \o p)[i] = s[i] /\ (t \o q)[i] = q[1]
      <4> HIDE DEF i
      <4> QED
        BY <2>2, <1>2, <1>3
    <3> QED
      BY <3>1
  <2>5. s[i] < m /\ s[i] \in Nat /\ q[1] \in Nat
    <3>1. 1 \in 1 .. Len(q)
      BY <1>1, <2>2
    <3> HIDE DEF i
    <3>2. s[i] < m
      BY <2>2 DEF AllBelow
    <3>3. s[i] \in Nat
      <4>1. \A k \in 1 .. Len(s) : s[k] \in Nat
        BY ElementOfSeq
      <4> QED
        BY <4>1, <2>2
    <3>4. q[1] \in Nat
      BY <3>1, ElementOfSeq
    <3> QED
      BY <3>2, <3>3, <3>4
  <2> HIDE DEF i
  <2> QED
    BY <2>3, <2>4, <2>5
<1>7. Len(s) = Len(t)
  BY <1>1, <1>5, <1>6
<1> QED
  BY <1>7, PartsAlike

\* Two parts with a separator between them, which is not in the first one.
Apart(s, m, p) == s \o <<m>> \o p
Lacks(s, m) == \A i \in 1 .. Len(s) : s[i] # m

\* A separator splits a sequence where it occurs only once.
LEMMA SplitOnce ==
  ASSUME NEW m \in Nat,
         NEW s \in Seq(Nat), NEW t \in Seq(Nat), NEW p \in Seq(Nat), NEW q \in Seq(Nat),
         Lacks(s, m), Lacks(t, m), Apart(s, m, p) = Apart(t, m, q)
  PROVE  s = t /\ p = q
<1> DEFINE x == <<m>>
<1>1. x \in Seq(Nat) /\ Len(x) = 1 /\ x[1] = m
  OBVIOUS
<1> HIDE DEF x
<1>2. (s \o x) \o p = (t \o x) \o q
  BY DEF x, Apart
<1>3. /\ s \o x \in Seq(Nat) /\ Len(s \o x) = Len(s) + 1
      /\ \A i \in 1 .. Len(s) + 1 : (s \o x)[i] = IF i <= Len(s) THEN s[i] ELSE x[i - Len(s)]
  <2>1. /\ s \o x \in Seq(Nat) /\ Len(s \o x) = Len(s) + Len(x)
        /\ \A i \in 1 .. Len(s) + Len(x) :
             (s \o x)[i] = IF i <= Len(s) THEN s[i] ELSE x[i - Len(s)]
    BY <1>1, ConcatProperties
  <2> QED
    BY <2>1, <1>1
<1>4. /\ t \o x \in Seq(Nat) /\ Len(t \o x) = Len(t) + 1
      /\ \A i \in 1 .. Len(t) + 1 : (t \o x)[i] = IF i <= Len(t) THEN t[i] ELSE x[i - Len(t)]
  <2>1. /\ t \o x \in Seq(Nat) /\ Len(t \o x) = Len(t) + Len(x)
        /\ \A i \in 1 .. Len(t) + Len(x) :
             (t \o x)[i] = IF i <= Len(t) THEN t[i] ELSE x[i - Len(t)]
    BY <1>1, ConcatProperties
  <2> QED
    BY <2>1, <1>1
<1> DEFINE u == s \o x
           v == t \o x
<1>5. /\ Len(s) \in Nat /\ Len(t) \in Nat
      /\ u \in Seq(Nat) /\ v \in Seq(Nat) /\ Len(u) = Len(s) + 1 /\ Len(v) = Len(t) + 1
      /\ u[Len(s) + 1] = m /\ v[Len(t) + 1] = m
      /\ \A i \in 1 .. Len(s) : u[i] = s[i]
      /\ \A i \in 1 .. Len(t) : v[i] = t[i]
  <2>1. Len(s) \in Nat /\ Len(t) \in Nat /\ Len(u) = Len(s) + 1 /\ Len(v) = Len(t) + 1
    BY <1>3, <1>4
  <2>2. u[Len(s) + 1] = m
    <3>1. Len(s) + 1 \in 1 .. Len(s) + 1 /\ ~ (Len(s) + 1 <= Len(s)) /\ (Len(s) + 1) - Len(s) = 1
      BY <2>1
    <3> QED
      BY <3>1, <1>1, <1>3
  <2>3. v[Len(t) + 1] = m
    <3>1. Len(t) + 1 \in 1 .. Len(t) + 1 /\ ~ (Len(t) + 1 <= Len(t)) /\ (Len(t) + 1) - Len(t) = 1
      BY <2>1
    <3> QED
      BY <3>1, <1>1, <1>4
  <2>4. \A i \in 1 .. Len(s) : u[i] = s[i]
    BY <2>1, <1>3
  <2>5. \A i \in 1 .. Len(t) : v[i] = t[i]
    BY <2>1, <1>4
  <2> QED
    BY <2>1, <2>2, <2>3, <2>4, <2>5, <1>3, <1>4
<1>6. u \o p = v \o q
  BY <1>2
<1> HIDE DEF u, v
<1>7. /\ Len(u \o p) = Len(u) + Len(p)
      /\ \A i \in 1 .. Len(u) + Len(p) :
           (u \o p)[i] = IF i <= Len(u) THEN u[i] ELSE p[i - Len(u)]
  BY <1>5, ConcatProperties
<1>8. /\ Len(v \o q) = Len(v) + Len(q)
      /\ \A i \in 1 .. Len(v) + Len(q) :
           (v \o q)[i] = IF i <= Len(v) THEN v[i] ELSE q[i - Len(v)]
  BY <1>5, ConcatProperties
<1>9. Len(p) \in Nat /\ Len(q) \in Nat /\ Len(u) \in Nat /\ Len(v) \in Nat
  BY <1>5
<1>10. ~ (Len(s) < Len(t))
  <2>1. SUFFICES ASSUME Len(s) < Len(t) PROVE FALSE
    OBVIOUS
  <2> DEFINE i == Len(s) + 1
  <2>2. /\ i \in 1 .. Len(u) + Len(p) /\ i <= Len(u) /\ i \in 1 .. Len(v) + Len(q) /\ i <= Len(v)
        /\ i \in 1 .. Len(t)
    <3>1. Len(s) \in Nat /\ Len(t) \in Nat /\ Len(u) = Len(s) + 1 /\ Len(v) = Len(t) + 1
      BY <1>5
    <3> QED
      BY <1>9, <2>1, <3>1
  <2>3. u[i] = v[i]
    <3>1. (u \o p)[i] = u[i] /\ (v \o q)[i] = v[i]
      <4> HIDE DEF i
      <4> QED
        BY <2>2, <1>7, <1>8
    <3> QED
      BY <3>1, <1>6
  <2> QED
    BY <2>2, <2>3, <1>5 DEF Lacks
<1>11. ~ (Len(t) < Len(s))
  <2>1. SUFFICES ASSUME Len(t) < Len(s) PROVE FALSE
    OBVIOUS
  <2> DEFINE i == Len(t) + 1
  <2>2. /\ i \in 1 .. Len(u) + Len(p) /\ i <= Len(u) /\ i \in 1 .. Len(v) + Len(q) /\ i <= Len(v)
        /\ i \in 1 .. Len(s)
    <3>1. Len(s) \in Nat /\ Len(t) \in Nat /\ Len(u) = Len(s) + 1 /\ Len(v) = Len(t) + 1
      BY <1>5
    <3> QED
      BY <1>9, <2>1, <3>1
  <2>3. u[i] = v[i]
    <3>1. (u \o p)[i] = u[i] /\ (v \o q)[i] = v[i]
      <4> HIDE DEF i
      <4> QED
        BY <2>2, <1>7, <1>8
    <3> QED
      BY <3>1, <1>6
  <2> QED
    BY <2>2, <2>3, <1>5 DEF Lacks
<1>12. Len(s) = Len(t)
  BY <1>5, <1>10, <1>11
<1>13. u = v /\ p = q
  <2>1. u \in Seq(Nat) /\ v \in Seq(Nat) /\ Len(u) = Len(v)
    BY <1>5, <1>12
  <2> QED
    BY <2>1, <1>6, PartsAlike
<1>14. s = t
  BY <1>1, <1>12, <1>13, PartsAlike DEF u, v
<1> QED
  BY <1>13, <1>14

\* Where the parts of a sequence end: it has n parts, part k after pre[k - 1] entries.
Ends(pre, n) ==
  /\ n \in Nat /\ pre \in [0 .. n -> Nat] /\ pre[0] = 0
  /\ \A k \in 1 .. n : pre[k - 1] <= pre[k]

\* Every place is in one part.
LEMMA PartOf ==
  ASSUME NEW pre, NEW n, Ends(pre, n)
  PROVE  /\ \A k \in 0 .. n : pre[k] <= pre[n]
         /\ \A i \in 1 .. pre[n] : \E k \in 1 .. n : pre[k - 1] < i /\ i <= pre[k]
<1>1. /\ n \in Nat /\ pre[0] = 0 /\ \A k \in 0 .. n : pre[k] \in Nat
      /\ \A k \in 1 .. n : pre[k - 1] <= pre[k]
  BY DEF Ends
<1>2. ASSUME NEW i \in 1 .. pre[n] PROVE \E k \in 1 .. n : pre[k - 1] < i /\ i <= pre[k]
  <2> DEFINE C == {k \in 0 .. n : i <= pre[k]}
  <2>1. n \in 0 .. n /\ pre[n] \in Nat /\ i \in Nat \ {0} /\ i <= pre[n]
    BY <1>1
  <2>2. C \subseteq Nat /\ n \in C
    BY <2>1, <1>1
  <2>3. PICK k \in C : \A j \in C : k <= j
    <3> HIDE DEF C
    <3> QED
      BY <2>2, LeastNatural
  <2>4. k \in 1 .. n /\ k - 1 \in 0 .. n /\ ~ (k <= k - 1) /\ pre[k - 1] \in Nat
    <3>1. k # 0
      BY <2>1, <1>1
    <3> QED
      BY <3>1, <1>1
  <2>5. pre[k - 1] < i
    BY <2>1, <2>3, <2>4
  <2> QED
    BY <2>4, <2>5
<1>3. \A k \in 0 .. n : pre[k] <= pre[n]
  <2> DEFINE D == {j \in 0 .. n : pre[n - j] <= pre[n]}
  <2>1. 0 \in D
    BY <1>1
  <2>2. ASSUME NEW j \in 1 .. n, j - 1 \in D PROVE j \in D
    <3>1. /\ j \in 0 .. n /\ n - j \in 0 .. n /\ n - (j - 1) \in 1 .. n
          /\ (n - (j - 1)) - 1 = n - j /\ n - (j - 1) \in 0 .. n
      BY <1>1
    <3>2. pre[n - (j - 1)] <= pre[n]
      BY <2>2
    <3>3. pre[n - j] <= pre[n - (j - 1)]
      BY <3>1, <1>1
    <3>4. pre[n - j] \in Nat /\ pre[n - (j - 1)] \in Nat /\ pre[n] \in Nat
      BY <3>1, <1>1
    <3>5. pre[n - j] <= pre[n]
      BY <3>2, <3>3, <3>4
    <3> QED
      BY <3>1, <3>5
  <2>3. \A j \in 0 .. n : j \in D
    <3> HIDE DEF D
    <3> QED
      BY <2>1, <2>2, <1>1, Climb
  <2>4. SUFFICES ASSUME NEW k \in 0 .. n PROVE pre[k] <= pre[n]
    OBVIOUS
  <2>5. n - k \in 0 .. n /\ n - (n - k) = k
    BY <1>1
  <2> QED
    BY <2>3, <2>5
<1> QED
  BY <1>2, <1>3

\* list repeats 1, then 2, and so on to n.
Runs(list, pre, n) ==
  /\ Ends(pre, n) /\ Len(list) = pre[n]
  /\ \A k \in 1 .. n : \A i \in 1 .. Len(list) : pre[k - 1] < i /\ i <= pre[k] => list[i] = k

\* How often, can be read from it.
LEMMA RunsAlike ==
  ASSUME NEW list, NEW n, NEW pre, NEW post, Runs(list, pre, n), Runs(list, post, n)
  PROVE  \A k \in 0 .. n : pre[k] = post[k]
<1>1. /\ n \in Nat /\ pre[0] = 0 /\ post[0] = 0
      /\ \A k \in 0 .. n : pre[k] \in Nat /\ post[k] \in Nat
      /\ \A k \in 1 .. n : pre[k - 1] <= pre[k] /\ post[k - 1] <= post[k]
      /\ Len(list) = pre[n] /\ Len(list) = post[n]
  BY DEF Ends, Runs
<1>2. /\ \A k \in 0 .. n : pre[k] <= Len(list) /\ post[k] <= Len(list)
      /\ \A i \in 1 .. Len(list) : \E k \in 1 .. n : pre[k - 1] < i /\ i <= pre[k]
      /\ \A i \in 1 .. Len(list) : \E k \in 1 .. n : post[k - 1] < i /\ i <= post[k]
  <2>1. Ends(pre, n) /\ Ends(post, n)
    BY DEF Runs
  <2>2. /\ \A k \in 0 .. n : pre[k] <= pre[n]
        /\ \A i \in 1 .. pre[n] : \E k \in 1 .. n : pre[k - 1] < i /\ i <= pre[k]
    BY <2>1, PartOf
  <2>3. /\ \A k \in 0 .. n : post[k] <= post[n]
        /\ \A i \in 1 .. post[n] : \E k \in 1 .. n : post[k - 1] < i /\ i <= post[k]
    BY <2>1, PartOf
  <2> QED
    BY <1>1, <2>2, <2>3
<1>3. /\ \A k \in 1 .. n : \A i \in 1 .. Len(list) :
           pre[k - 1] < i /\ i <= pre[k] => list[i] = k
      /\ \A k \in 1 .. n : \A i \in 1 .. Len(list) :
           post[k - 1] < i /\ i <= post[k] => list[i] = k
  BY DEF Runs
<1> DEFINE D == {k \in 0 .. n : pre[k] = post[k]}
<1>4. 0 \in D
  BY <1>1
<1>5. ASSUME NEW k \in 1 .. n, k - 1 \in D PROVE k \in D
  <2>1. /\ k \in 0 .. n /\ k - 1 \in 0 .. n /\ pre[k - 1] = post[k - 1]
        /\ pre[k] \in Nat /\ post[k] \in Nat /\ pre[k - 1] \in Nat
        /\ pre[k - 1] <= pre[k] /\ post[k - 1] <= post[k]
    BY <1>1, <1>5
  <2>2. ~ (pre[k] < post[k])
    <3>1. SUFFICES ASSUME pre[k] < post[k] PROVE FALSE
      OBVIOUS
    <3> DEFINE i == post[k]
    <3>2. i \in 1 .. Len(list) /\ post[k - 1] < i /\ i <= post[k] /\ ~ (i <= pre[k])
      <4>1. post[k] <= Len(list) /\ Len(list) \in Nat
        BY <2>1, <1>1, <1>2
      <4>2. post[k] >= 1 /\ post[k - 1] < post[k]
        BY <2>1, <3>1
      <4> QED
        BY <4>1, <4>2, <2>1, <3>1
    <3> HIDE DEF i
    <3>3. list[i] = k
      BY <3>2, <1>3
    <3>4. PICK j \in 1 .. n : pre[j - 1] < i /\ i <= pre[j]
      BY <3>2, <1>2
    <3>5. list[i] = j
      BY <3>2, <3>4, <1>3
    <3> QED
      BY <3>2, <3>3, <3>4, <3>5
  <2>3. ~ (post[k] < pre[k])
    <3>1. SUFFICES ASSUME post[k] < pre[k] PROVE FALSE
      OBVIOUS
    <3> DEFINE i == pre[k]
    <3>2. i \in 1 .. Len(list) /\ pre[k - 1] < i /\ i <= pre[k] /\ ~ (i <= post[k])
      <4>1. pre[k] <= Len(list) /\ Len(list) \in Nat
        BY <2>1, <1>1, <1>2
      <4>2. pre[k] >= 1 /\ pre[k - 1] < pre[k]
        BY <2>1, <3>1
      <4> QED
        BY <4>1, <4>2, <2>1, <3>1
    <3> HIDE DEF i
    <3>3. list[i] = k
      BY <3>2, <1>3
    <3>4. PICK j \in 1 .. n : post[j - 1] < i /\ i <= post[j]
      BY <3>2, <1>2
    <3>5. list[i] = j
      BY <3>2, <3>4, <1>3
    <3> QED
      BY <3>2, <3>3, <3>4, <3>5
  <2> QED
    BY <2>1, <2>2, <2>3
<1>6. \A k \in 0 .. n : k \in D
  <2> HIDE DEF D
  <2> QED
    BY <1>1, <1>4, <1>5, Climb, Zenon
<1> QED
  BY <1>6

\* The parts of a name's key: the men of a side role by role, and its pawns.
RoleRuns(army) == [r \in 1 .. Len(Roles) |-> [i \in 1 .. army[Roles[r]] |-> r]]
PawnPairs(list) == [k \in DOMAIN list |-> <<Len(Roles) + 1, 97 + list[k].file>>]
HalfKey(half) == <<0>> \o Joined(RoleRuns(half.men)) \o Joined(PawnPairs(half.pawns))

\* A name's key is its halves' around the separator.
LEMMA NameKeyParts ==
  ASSUME NEW name
  PROVE  name_key(name) = HalfKey(name[STM]) \o <<95>> \o HalfKey(name[SNTM])
BY FlattenJoins, Zenon DEF name_key, HalfKey, RoleRuns, PawnPairs

\* How many men there are in the first k roles.
MenUpTo(army) ==
  [k \in 0 .. Len(Roles) |-> SumOf([r \in 1 .. Len(Roles) |-> army[Roles[r]]], 1 .. k)]

\* The men are runs of roles.
LEMMA RoleRunsAre ==
  ASSUME NEW army \in Army
  PROVE  /\ Joined(RoleRuns(army)) \in Seq(Nat)
         /\ AllBelow(Joined(RoleRuns(army)), Len(Roles) + 1)
         /\ Runs(Joined(RoleRuns(army)), MenUpTo(army), Len(Roles))
         /\ \A r \in 1 .. Len(Roles) : MenUpTo(army)[r] = MenUpTo(army)[r - 1] + army[Roles[r]]
<1> DEFINE n == Len(Roles)
           w == [r \in 1 .. n |-> army[Roles[r]]]
           pre == MenUpTo(army)
           runs == RoleRuns(army)
<1>1. n \in Nat /\ \A r \in 1 .. n : Roles[r] \in ToSet(Roles)
  <2>1. Roles \in Seq(ToSet(Roles))
    BY NamesAssumption
  <2> HIDE DEF n
  <2> QED
    BY <2>1, ElementOfSeq, LenProperties DEF n
<1>2. /\ w \in [1 .. n -> Nat] /\ \A r \in 1 .. n : w[r] = army[Roles[r]] /\ army[Roles[r]] \in Nat
  BY <1>1 DEF Army
<1>3. pre = [k \in 0 .. n |-> SumOf(w, 1 .. k)]
  BY DEF MenUpTo
<1>4. /\ SumOf(w, 1 .. 0) = 0
      /\ \A k \in 0 .. n : SumOf(w, 1 .. k) \in Nat
      /\ \A k \in 1 .. n : SumOf(w, 1 .. k) = SumOf(w, 1 .. (k - 1)) + w[k]
  BY <1>1, <1>2, SumOfFirst
<1>5. /\ runs = [r \in 1 .. n |-> runs[r]] /\ \A r \in 1 .. n : runs[r] = [i \in 1 .. w[r] |-> r]
  BY DEF RoleRuns
<1> HIDE DEF n, w, pre, runs
<1>6. /\ pre \in [0 .. n -> Nat] /\ pre[0] = 0 /\ 0 \in 0 .. n /\ n \in 0 .. n
      /\ \A k \in 1 .. n : pre[k] = pre[k - 1] + w[k]
  <2>1. 0 \in 0 .. n /\ n \in 0 .. n /\ \A k \in 1 .. n : k - 1 \in 0 .. n /\ k \in 0 .. n
    BY <1>1
  <2> QED
    BY <2>1, <1>3, <1>4
<1>7. \A r \in 1 .. n : /\ runs[r] \in Seq(Nat) /\ Len(runs[r]) = w[r]
                        /\ \A i \in 1 .. w[r] : runs[r][i] = r
  <2>1. SUFFICES ASSUME NEW r \in 1 .. n
        PROVE  /\ runs[r] \in Seq(Nat) /\ Len(runs[r]) = w[r]
               /\ \A i \in 1 .. w[r] : runs[r][i] = r
    OBVIOUS
  <2>2. r \in Nat /\ w[r] \in Nat /\ runs[r] = [i \in 1 .. w[r] |-> r]
    BY <1>1, <1>2, <1>5
  <2> QED
    BY <2>2
<1>8. runs \in Seq(Seq(Nat)) /\ Len(runs) = n
  BY <1>1, <1>5, <1>7
<1>9. /\ Joined(runs) \in Seq(Nat) /\ Len(Joined(runs)) = pre[n]
      /\ \A k \in 1 .. n : \A j \in 1 .. Len(runs[k]) :
           Joined(runs)[pre[k - 1] + j] = runs[k][j]
  <2>1. /\ pre \in [0 .. Len(runs) -> Nat] /\ pre[0] = 0
        /\ \A k \in 1 .. Len(runs) : pre[k] = pre[k - 1] + Len(runs[k])
    BY <1>6, <1>7, <1>8
  <2>2. /\ Joined(runs) \in Seq(Nat) /\ Len(Joined(runs)) = pre[Len(runs)]
        /\ \A k \in 1 .. Len(runs) : \A j \in 1 .. Len(runs[k]) :
             Joined(runs)[pre[k - 1] + j] = runs[k][j]
    <3>1. runs \in Seq(Seq(Nat))
      BY <1>8
    <3>2. StartsOf(pre, runs)
      BY <2>1 DEF StartsOf
    <3>3. InPieces(Joined(runs), runs, pre, Nat)
      BY <3>1, <3>2, Flattened
    <3> QED
      BY <3>3 DEF InPieces
  <2> QED
    BY <2>2, <1>8
<1> DEFINE list == Joined(runs)
<1>10. \A k \in 1 .. n : \A i \in 1 .. Len(list) : pre[k - 1] < i /\ i <= pre[k] => list[i] = k
  <2>1. SUFFICES ASSUME NEW k \in 1 .. n, NEW i \in 1 .. Len(list), pre[k - 1] < i, i <= pre[k]
                 PROVE  list[i] = k
    OBVIOUS
  <2> DEFINE j == i - pre[k - 1]
  <2>2. /\ k - 1 \in 0 .. n /\ pre[k - 1] \in Nat /\ pre[k] = pre[k - 1] + w[k] /\ w[k] \in Nat
        /\ i \in Nat
    BY <1>1, <1>2, <1>6
  <2>3. j \in 1 .. w[k] /\ pre[k - 1] + j = i
    BY <2>1, <2>2
  <2> HIDE DEF j, list
  <2>4. runs[k][j] = k /\ j \in 1 .. Len(runs[k])
    BY <2>3, <1>7
  <2>5. list[pre[k - 1] + j] = runs[k][j]
    BY <2>4, <1>9 DEF list
  <2> QED
    BY <2>3, <2>4, <2>5
<1>11. Ends(pre, n)
  <2>1. \A k \in 1 .. n : pre[k - 1] <= pre[k]
    <3>1. SUFFICES ASSUME NEW k \in 1 .. n PROVE pre[k - 1] <= pre[k]
      OBVIOUS
    <3>2. k - 1 \in 0 .. n /\ pre[k - 1] \in Nat /\ pre[k] = pre[k - 1] + w[k] /\ w[k] \in Nat
      BY <1>1, <1>2, <1>6
    <3> QED
      BY <3>2
  <2> QED
    BY <2>1, <1>1, <1>6 DEF Ends
<1> HIDE DEF list
<1>12. list \in Seq(Nat) /\ Len(list) = pre[n]
  BY <1>9 DEF list
<1>13. Runs(list, pre, n)
  BY <1>10, <1>11, <1>12 DEF Runs
<1>14. AllBelow(list, n + 1)
  <2>1. SUFFICES ASSUME NEW i \in 1 .. Len(list) PROVE list[i] < n + 1
    BY DEF AllBelow
  <2>2. PICK k \in 1 .. n : pre[k - 1] < i /\ i <= pre[k]
    BY <1>11, <1>12, PartOf
  <2>3. list[i] = k
    BY <2>2, <1>10
  <2> QED
    BY <2>3, <1>1
<1> QED
  BY <1>2, <1>6, <1>12, <1>13, <1>14 DEF n, list, pre, runs

\* The men are told by them.
LEMMA RoleRunsTell ==
  ASSUME NEW army \in Army, NEW other \in Army,
         Joined(RoleRuns(army)) = Joined(RoleRuns(other))
  PROVE  army = other
<1> DEFINE n == Len(Roles)
           pre == MenUpTo(army)
           post == MenUpTo(other)
<1>1. /\ Runs(Joined(RoleRuns(army)), pre, n) /\ Runs(Joined(RoleRuns(other)), post, n)
      /\ \A r \in 1 .. n : /\ pre[r] = pre[r - 1] + army[Roles[r]]
                           /\ post[r] = post[r - 1] + other[Roles[r]]
  BY RoleRunsAre
<1> HIDE DEF n, pre, post
<1>2. \A k \in 0 .. n : pre[k] = post[k]
  BY <1>1, RunsAlike
<1>3. n \in Nat /\ \A k \in 0 .. n : pre[k] \in Nat
  BY <1>1 DEF Runs, Ends
<1>4. \A role \in ToSet(Roles) : \E r \in 1 .. n : role = Roles[r]
  <2>1. Roles \in Seq(ToSet(Roles))
    BY NamesAssumption
  <2>2. DOMAIN Roles = 1 .. n
    BY <2>1 DEF n
  <2> QED
    BY <2>2 DEF ToSet
<1>5. \A role \in ToSet(Roles) : army[role] \in Nat /\ other[role] \in Nat
  BY DEF Army
<1>6. ASSUME NEW role \in ToSet(Roles) PROVE army[role] = other[role]
  <2>1. PICK r \in 1 .. n : role = Roles[r]
    BY <1>4
  <2>2. /\ r - 1 \in 0 .. n /\ r \in 0 .. n /\ pre[r - 1] \in Nat
        /\ army[role] \in Nat /\ other[role] \in Nat
    BY <1>3, <1>5
  <2> QED
    BY <2>1, <2>2, <1>1, <1>2
<1> QED
  BY <1>6 DEF Army

\* Every pawn is a pair: a letter and its file.
LEMMA PawnPairsAre ==
  ASSUME NEW list \in Seq(Marks)
  PROVE  /\ Joined(PawnPairs(list)) \in Seq(Nat)
         /\ Len(Joined(PawnPairs(list))) = 2 * Len(list)
         /\ \A k \in 1 .. Len(list) :
              /\ Joined(PawnPairs(list))[2 * k - 1] = Len(Roles) + 1
              /\ Joined(PawnPairs(list))[2 * k] = 97 + list[k].file
<1> DEFINE n == Len(list)
           m == Len(Roles) + 1
           pairs == PawnPairs(list)
           pre == [k \in 0 .. n |-> 2 * k]
<1>1. n \in Nat /\ m \in Nat /\ DOMAIN list = 1 .. n /\ \A k \in 1 .. n : list[k].file \in Nat
  <2>1. Roles \in Seq(ToSet(Roles)) /\ Files \in Nat
    BY NamesAssumption
  <2>2. \A k \in 1 .. n : list[k] \in Marks
    BY ElementOfSeq
  <2>3. \A k \in 1 .. n : list[k].file \in Nat
    BY <2>1, <2>2 DEF Marks
  <2> QED
    BY <2>1, <2>3
<1>2. /\ pairs = [k \in 1 .. n |-> pairs[k]]
      /\ \A k \in 1 .. n : pairs[k] = <<m, 97 + list[k].file>>
  BY <1>1 DEF PawnPairs
<1> HIDE DEF n, m, pairs
<1>3. \A k \in 1 .. n : /\ pairs[k] \in Seq(Nat) /\ Len(pairs[k]) = 2
                        /\ pairs[k][1] = m /\ pairs[k][2] = 97 + list[k].file
  <2>1. SUFFICES ASSUME NEW k \in 1 .. n
        PROVE  /\ pairs[k] \in Seq(Nat) /\ Len(pairs[k]) = 2
               /\ pairs[k][1] = m /\ pairs[k][2] = 97 + list[k].file
    OBVIOUS
  <2> DEFINE x == 97 + list[k].file
  <2>2. x \in Nat /\ m \in Nat /\ pairs[k] = <<m, x>>
    BY <1>1, <1>2
  <2> HIDE DEF x
  <2>3. <<m, x>> \in Seq(Nat) /\ Len(<<m, x>>) = 2 /\ <<m, x>>[1] = m /\ <<m, x>>[2] = x
    BY <2>2
  <2> QED
    BY <2>2, <2>3 DEF x
<1>4. pairs \in Seq(Seq(Nat)) /\ Len(pairs) = n
  <2>1. \A k \in 1 .. n : pairs[k] \in Seq(Nat)
    BY <1>3
  <2> QED
    BY <2>1, <1>1, <1>2
<1>5. /\ pre \in [0 .. Len(pairs) -> Nat] /\ pre[0] = 0
      /\ \A k \in 1 .. Len(pairs) : pre[k] = pre[k - 1] + Len(pairs[k])
  <2>1. /\ pre \in [0 .. n -> Nat] /\ pre[0] = 0
        /\ \A k \in 1 .. n : pre[k] = 2 * k /\ pre[k - 1] = 2 * (k - 1)
    BY <1>1
  <2> HIDE DEF pre
  <2>2. \A k \in 1 .. n : pre[k] = pre[k - 1] + 2 /\ Len(pairs[k]) = 2
    BY <2>1, <1>1, <1>3
  <2> QED
    BY <2>1, <2>2, <1>4
<1>6. n \in 0 .. n /\ \A k \in 1 .. n : k - 1 \in 0 .. n
  BY <1>1
<1>7. pre[n] = 2 * n /\ \A k \in 1 .. n : pre[k - 1] = 2 * (k - 1)
  BY <1>6
<1> HIDE DEF pre
<1>8. /\ Joined(pairs) \in Seq(Nat) /\ Len(Joined(pairs)) = pre[Len(pairs)]
      /\ \A k \in 1 .. Len(pairs) : \A j \in 1 .. Len(pairs[k]) :
           Joined(pairs)[pre[k - 1] + j] = pairs[k][j]
  <2>1. pairs \in Seq(Seq(Nat))
    BY <1>4
  <2>2. StartsOf(pre, pairs)
    BY <1>5 DEF StartsOf
  <2>3. InPieces(Joined(pairs), pairs, pre, Nat)
    BY <2>1, <2>2, Flattened
  <2> QED
    BY <2>3 DEF InPieces
<1>9. ASSUME NEW k \in 1 .. n
      PROVE  Joined(pairs)[2 * k - 1] = m /\ Joined(pairs)[2 * k] = 97 + list[k].file
  <2>1. k \in 1 .. Len(pairs) /\ 1 \in 1 .. Len(pairs[k]) /\ 2 \in 1 .. Len(pairs[k])
    <3>1. Len(pairs[k]) = 2
      BY <1>3
    <3> QED
      BY <3>1, <1>4
  <2>2. /\ Joined(pairs)[pre[k - 1] + 1] = pairs[k][1]
        /\ Joined(pairs)[pre[k - 1] + 2] = pairs[k][2]
    BY <2>1, <1>8
  <2>3. pre[k - 1] + 1 = 2 * k - 1 /\ pre[k - 1] + 2 = 2 * k
    BY <1>1, <1>7
  <2> QED
    BY <2>2, <2>3, <1>3
<1> QED
  BY <1>4, <1>7, <1>8, <1>9 DEF n, m, pairs

\* Their files are told by them.
LEMMA PawnPairsTell ==
  ASSUME NEW list \in Seq(Marks), NEW other \in Seq(Marks),
         Joined(PawnPairs(list)) = Joined(PawnPairs(other))
  PROVE  /\ DOMAIN list = DOMAIN other
         /\ \A i \in DOMAIN list : list[i].file = other[i].file
<1> DEFINE joined == Joined(PawnPairs(list))
<1>1. /\ Len(joined) = 2 * Len(list)
      /\ \A k \in 1 .. Len(list) : joined[2 * k] = 97 + list[k].file
  BY PawnPairsAre
<1>2. /\ Len(joined) = 2 * Len(other)
      /\ \A k \in 1 .. Len(other) : joined[2 * k] = 97 + other[k].file
  BY PawnPairsAre
<1> HIDE DEF joined
<1>3. /\ Len(list) \in Nat /\ Len(other) \in Nat
      /\ DOMAIN list = 1 .. Len(list) /\ DOMAIN other = 1 .. Len(other)
  OBVIOUS
<1>4. Len(list) = Len(other)
  <2>1. 2 * Len(list) = 2 * Len(other)
    BY <1>1, <1>2
  <2>2. \A i, j \in Nat : 2 * i = 2 * j => i = j
    OBVIOUS
  <2>3. Len(list) \in Nat /\ Len(other) \in Nat
    BY <1>3
  <2> QED
    BY <2>1, <2>2, <2>3
<1>5. \A i \in 1 .. Len(list) : list[i].file \in Nat /\ other[i].file \in Nat
  <2>1. \A i \in 1 .. Len(list) : list[i] \in Marks /\ other[i] \in Marks
    BY <1>4, ElementOfSeq
  <2> QED
    BY <2>1, NamesAssumption DEF Marks
<1>6. \A i \in 1 .. Len(list) : list[i].file = other[i].file
  <2>1. SUFFICES ASSUME NEW i \in 1 .. Len(list) PROVE list[i].file = other[i].file
    OBVIOUS
  <2>2. joined[2 * i] = 97 + list[i].file /\ joined[2 * i] = 97 + other[i].file
    <3>1. i \in 1 .. Len(other)
      BY <1>4
    <3> QED
      BY <1>1, <1>2, <3>1, Zenon
  <2> QED
    BY <2>2, <1>5
<1> QED
  BY <1>3, <1>4, <1>6

\* So the key of a half tells its men and the files of its pawns.
LEMMA HalfKeyIs ==
  ASSUME NEW half, half.men \in Army, half.pawns \in Seq(Marks)
  PROVE  HalfKey(half) \in Seq(Nat) /\ Lacks(HalfKey(half), 95)
<1> DEFINE z == <<0>>
           a == Joined(RoleRuns(half.men))
           b == Joined(PawnPairs(half.pawns))
           n == Len(half.pawns)
           m == Len(Roles) + 1
<1>1. z \in Seq(Nat) /\ Len(z) = 1 /\ z[1] = 0
  OBVIOUS
<1>2. a \in Seq(Nat) /\ AllBelow(a, m)
  BY RoleRunsAre
<1>3. /\ b \in Seq(Nat) /\ Len(b) = 2 * n
      /\ \A k \in 1 .. n : b[2 * k - 1] = m /\ b[2 * k] = 97 + half.pawns[k].file
  BY PawnPairsAre
<1>4. n \in Nat /\ \A k \in 1 .. n : half.pawns[k].file \in Nat
  <2>1. \A k \in 1 .. n : half.pawns[k] \in Marks
    BY ElementOfSeq
  <2> QED
    BY <2>1, NamesAssumption DEF Marks
<1>5. m \in Nat /\ m <= 5
  BY NamesAssumption DEF m
<1> HIDE DEF z, a, b, n, m
<1>6. \A i \in 1 .. Len(b) : b[i] # 95
  <2>1. SUFFICES ASSUME NEW i \in 1 .. Len(b) PROVE b[i] # 95
    OBVIOUS
  <2>2. i \in Nat /\ i >= 1 /\ i <= 2 * n
    BY <1>3, <1>4
  <2>3. PICK k \in 1 .. n : i = 2 * k - 1 \/ i = 2 * k
    <3>1. CASE i % 2 = 0
      <4>1. i = 2 * (i \div 2) /\ i \div 2 \in 1 .. n
        BY <2>2, <3>1, <1>4
      <4> QED
        BY <4>1
    <3>2. CASE i % 2 # 0
      <4>1. i = 2 * (i \div 2) + 1 /\ i \div 2 \in Nat
        BY <2>2, <3>2
      <4> DEFINE k == i \div 2
      <4>2. i = 2 * k + 1 /\ k \in Nat
        BY <4>1
      <4> HIDE DEF k
      <4>3. k + 1 \in 1 .. n /\ i = 2 * (k + 1) - 1
        BY <2>2, <4>2, <1>4
      <4> QED
        BY <4>3
    <3> QED
      BY <3>1, <3>2
  <2>4. b[2 * k - 1] = m /\ b[2 * k] = 97 + half.pawns[k].file /\ half.pawns[k].file \in Nat
    BY <1>3, <1>4
  <2>5. CASE i = 2 * k - 1
    <3>1. b[i] = m
      BY <2>4, <2>5
    <3> QED
      BY <3>1, <1>5
  <2>6. CASE i = 2 * k
    <3>1. b[i] = 97 + half.pawns[k].file
      BY <2>4, <2>6
    <3> QED
      BY <3>1, <2>4
  <2> QED
    BY <2>3, <2>5, <2>6
<1>7. /\ z \o a \in Seq(Nat) /\ Len(z \o a) = Len(z) + Len(a)
      /\ \A i \in 1 .. Len(z) + Len(a) :
           (z \o a)[i] = IF i <= Len(z) THEN z[i] ELSE a[i - Len(z)]
  BY <1>1, <1>2, ConcatProperties
<1>8. /\ (z \o a) \o b \in Seq(Nat) /\ Len((z \o a) \o b) = Len(z \o a) + Len(b)
      /\ \A i \in 1 .. Len(z \o a) + Len(b) :
           ((z \o a) \o b)[i] = IF i <= Len(z \o a) THEN (z \o a)[i] ELSE b[i - Len(z \o a)]
  <2> DEFINE y == z \o a
  <2>1. y \in Seq(Nat)
    BY <1>7
  <2> HIDE DEF y
  <2>2. /\ y \o b \in Seq(Nat) /\ Len(y \o b) = Len(y) + Len(b)
        /\ \A i \in 1 .. Len(y) + Len(b) : (y \o b)[i] = IF i <= Len(y) THEN y[i] ELSE b[i - Len(y)]
    BY <2>1, <1>3, ConcatProperties
  <2> QED
    BY <2>2 DEF y
<1>9. Len(a) \in Nat /\ Len(b) \in Nat /\ \A i \in 1 .. Len(a) : a[i] < m /\ a[i] \in Nat
  BY <1>2, <1>3, ElementOfSeq DEF AllBelow
<1> DEFINE c == z \o a
<1>10. Len(c) = 1 + Len(a) /\ Len(c) \in Nat
  BY <1>1, <1>7, <1>9
<1>11. \A i \in 1 .. Len(c) : c[i] # 95
  <2>1. SUFFICES ASSUME NEW i \in 1 .. Len(c) PROVE c[i] # 95
    OBVIOUS
  <2>2. i \in 1 .. Len(z) + Len(a) /\ i \in Nat /\ i >= 1
    BY <1>7, <1>10
  <2>3. CASE i = 1
    BY <2>2, <2>3, <1>1, <1>7
  <2>4. CASE i # 1
    <3>1. i - 1 \in 1 .. Len(a) /\ ~ (i <= Len(z)) /\ i - Len(z) = i - 1
      BY <2>2, <2>4, <1>1, <1>9
    <3>2. c[i] = a[i - 1]
      BY <3>1, <2>2, <1>7
    <3>3. a[i - 1] < m /\ a[i - 1] \in Nat
      BY <3>1, <1>9
    <3> QED
      BY <3>2, <3>3, <1>5
  <2> QED
    BY <2>3, <2>4
<1>12. HalfKey(half) = c \o b
  BY DEF HalfKey, z, a, b
<1>13. /\ c \o b \in Seq(Nat) /\ Len(c \o b) = Len(c) + Len(b)
       /\ \A i \in 1 .. Len(c) + Len(b) : (c \o b)[i] = IF i <= Len(c) THEN c[i] ELSE b[i - Len(c)]
  BY <1>8
<1> HIDE DEF c
<1>14. ASSUME NEW i \in 1 .. Len(c \o b) PROVE (c \o b)[i] # 95
  <2>1. i \in 1 .. Len(c) + Len(b) /\ i \in Nat
    BY <1>9, <1>10, <1>13
  <2>2. CASE i <= Len(c)
    BY <2>1, <2>2, <1>10, <1>11, <1>13
  <2>3. CASE ~ (i <= Len(c))
    <3>1. i - Len(c) \in 1 .. Len(b)
      BY <2>1, <2>3, <1>9, <1>10
    <3> QED
      BY <2>1, <2>3, <3>1, <1>6, <1>13
  <2> QED
    BY <2>2, <2>3
<1> QED
  BY <1>12, <1>13, <1>14 DEF Lacks

\* The key of a half tells its men and the files of its pawns.
LEMMA HalfKeyTells ==
  ASSUME NEW half, half.men \in Army, half.pawns \in Seq(Marks),
         NEW other, other.men \in Army, other.pawns \in Seq(Marks),
         HalfKey(half) = HalfKey(other)
  PROVE  /\ half.men = other.men
         /\ DOMAIN half.pawns = DOMAIN other.pawns
         /\ \A i \in DOMAIN half.pawns : half.pawns[i].file = other.pawns[i].file
<1> DEFINE z == <<0>>
           a == Joined(RoleRuns(half.men))
           b == Joined(PawnPairs(half.pawns))
           c == Joined(RoleRuns(other.men))
           d == Joined(PawnPairs(other.pawns))
           m == Len(Roles) + 1
<1>1. z \in Seq(Nat)
  OBVIOUS
<1>2. a \in Seq(Nat) /\ AllBelow(a, m) /\ c \in Seq(Nat) /\ AllBelow(c, m)
  BY RoleRunsAre
<1>3. m \in Nat
  BY NamesAssumption
<1>4. ASSUME NEW list \in Seq(Marks)
      PROVE  /\ Joined(PawnPairs(list)) \in Seq(Nat)
             /\ Joined(PawnPairs(list)) = <<>> \/ Joined(PawnPairs(list))[1] >= m
  <2> DEFINE l == Joined(PawnPairs(list))
  <2>1. /\ l \in Seq(Nat) /\ Len(l) = 2 * Len(list)
        /\ \A k \in 1 .. Len(list) : l[2 * k - 1] = m
    BY PawnPairsAre
  <2>2. Len(list) \in Nat
    OBVIOUS
  <2> HIDE DEF l, m
  <2>3. CASE Len(list) = 0
    <3>1. Len(l) = 0
      BY <2>1, <2>3
    <3>2. l = <<>>
      BY <3>1, <2>1
    <3> QED
      BY <3>2, <2>1 DEF l
  <2>4. CASE Len(list) # 0
    <3>1. 1 \in 1 .. Len(list) /\ 2 * 1 - 1 = 1
      BY <2>2, <2>4
    <3>2. l[1] = m
      BY <3>1, <2>1
    <3>3. l[1] >= m
      BY <3>2, <1>3
    <3> QED
      BY <3>3, <2>1 DEF l
  <2> QED
    BY <2>3, <2>4 DEF l
<1>5. /\ b \in Seq(Nat) /\ (b = <<>> \/ b[1] >= m) /\ d \in Seq(Nat) /\ (d = <<>> \/ d[1] >= m)
  BY <1>4
<1>6. (z \o a) \o b = (z \o c) \o d
  BY DEF HalfKey
<1> HIDE DEF z, a, b, c, d, m
<1>7. ASSUME NEW l \in Seq(Nat), AllBelow(l, m)
      PROVE  z \o l \in Seq(Nat) /\ AllBelow(z \o l, m)
  <2>1. Len(z) = 1 /\ z[1] = 0 /\ Len(l) \in Nat
    BY DEF z
  <2>2. /\ z \o l \in Seq(Nat) /\ Len(z \o l) = Len(z) + Len(l)
        /\ \A i \in 1 .. Len(z) + Len(l) :
             (z \o l)[i] = IF i <= Len(z) THEN z[i] ELSE l[i - Len(z)]
    BY <1>1, ConcatProperties
  <2>3. ASSUME NEW i \in 1 .. Len(z \o l) PROVE (z \o l)[i] < m
    <3>1. i \in 1 .. Len(z) + Len(l) /\ i \in Nat /\ i >= 1
      BY <2>1, <2>2
    <3>2. CASE i = 1
      <4>1. (z \o l)[i] = 0
        BY <2>1, <2>2, <3>1, <3>2
      <4> QED
        BY <4>1 DEF m
    <3>3. CASE i # 1
      <4>1. i - 1 \in 1 .. Len(l) /\ ~ (i <= Len(z)) /\ i - Len(z) = i - 1
        BY <2>1, <3>1, <3>3
      <4>2. (z \o l)[i] = l[i - 1]
        BY <2>2, <3>1, <4>1
      <4> QED
        BY <4>1, <4>2, <1>7 DEF AllBelow
    <3> QED
      BY <3>2, <3>3
  <2> QED
    BY <2>2, <2>3 DEF AllBelow
<1> DEFINE x == z \o a
           y == z \o c
<1>8. x \in Seq(Nat) /\ AllBelow(x, m) /\ y \in Seq(Nat) /\ AllBelow(y, m) /\ x \o b = y \o d
  BY <1>2, <1>6, <1>7
<1>9. a = c /\ b = d
  <2>1. x = y /\ b = d
    <3> HIDE DEF x, y
    <3> QED
      BY <1>3, <1>5, <1>8, SmallsFirst
  <2>2. z \o a = z \o c
    BY <2>1
  <2>3. a = c
    BY <2>2, <1>1, <1>2, PartsAlike
  <2> QED
    BY <2>1, <2>3
<1>10. half.men = other.men
  BY <1>9, RoleRunsTell DEF a, c
<1>11. /\ DOMAIN half.pawns = DOMAIN other.pawns
       /\ \A i \in DOMAIN half.pawns : half.pawns[i].file = other.pawns[i].file
  BY <1>9, PawnPairsTell DEF b, d
<1> QED
  BY <1>10, <1>11

\* The order on names compares numbers.
LEMMA TableKeyIs ==
  ASSUME NEW name, NEW files, NEW men, TableOf(name, files, men)
  PROVE  /\ TableKey(name) \in Seq(Nat) /\ TableKey(name)[1] = n_pieces(name)
         /\ TableKey(name)[2] = n_pawns(name) /\ Len(TableKey(name)) >= 2
         /\ name_key(name) \in Seq(Nat)
         /\ \A side \in Sides :
              /\ name[side].men = men[side] /\ name[side].men \in Army
              /\ name[side].pawns \in Seq(Marks) /\ PawnList(name[side].pawns, files, side)
<1>1. files \in Layout /\ men \in Armies /\ name = format_name(files, men)
  BY DEF TableOf
<1>2. \A side \in Sides : /\ name[side].men = men[side] /\ name[side].men \in Army
                          /\ name[side].pawns \in Seq(Marks)
                          /\ PawnList(name[side].pawns, files, side)
  BY <1>1, FormatShape DEF Armies, Army, PawnList
<1> DEFINE a == HalfKey(name[STM])
           b == HalfKey(name[SNTM])
           s == <<95>>
           k == name_key(name)
           two == <<n_pieces(name), n_pawns(name)>>
<1>3. a \in Seq(Nat) /\ b \in Seq(Nat)
  BY <1>2, SidesAre, HalfKeyIs
<1>4. k = (a \o s) \o b
  BY NameKeyParts
<1>5. s \in Seq(Nat)
  OBVIOUS
<1>6. n_pieces(name) \in Nat /\ n_pawns(name) \in Nat
  BY TableParsed
<1>7. two \in Seq(Nat) /\ Len(two) = 2 /\ two[1] = n_pieces(name) /\ two[2] = n_pawns(name)
  BY <1>6
<1>8. TableKey(name) = two \o k
  BY DEF TableKey
<1> HIDE DEF a, b, s, k, two
<1>9. a \o s \in Seq(Nat)
  BY <1>3, <1>5, ConcatProperties
<1>10. k \in Seq(Nat)
  BY <1>3, <1>4, <1>9, ConcatProperties
<1>11. /\ two \o k \in Seq(Nat) /\ Len(two \o k) = Len(two) + Len(k) /\ Len(k) \in Nat
       /\ \A i \in 1 .. Len(two) + Len(k) :
            (two \o k)[i] = IF i <= Len(two) THEN two[i] ELSE k[i - Len(two)]
  BY <1>7, <1>10, ConcatProperties, LenProperties
<1>12. 1 \in 1 .. Len(two) + Len(k) /\ 2 \in 1 .. Len(two) + Len(k) /\ Len(two) + Len(k) >= 2
  BY <1>7, <1>11
<1>13. (two \o k)[1] = two[1] /\ (two \o k)[2] = two[2]
  BY <1>7, <1>11, <1>12
<1> QED
  BY <1>2, <1>7, <1>8, <1>10, <1>11, <1>12, <1>13 DEF k

\* The words of a table as bits.
Bits(files) == [f \in 1 .. Files |->
                  [i \in DOMAIN files[f] |-> IF files[f][i] = STM THEN 0 ELSE 1]]
EarlierPawns(files) == [k \in 0 .. Files |-> SumOf(Lengths(files), 1 .. k)]

\* The second key lists them.
LEMMA BitsListed ==
  ASSUME NEW files \in Layout
  PROVE  /\ Joined(Bits(files)) \in Seq(Nat)
         /\ \A f \in 1 .. Files : \A i \in 1 .. Len(files[f]) :
              Joined(Bits(files))[EarlierPawns(files)[f - 1] + i]
                = IF files[f][i] = STM THEN 0 ELSE 1
<1> DEFINE bits == Bits(files)
           pre == EarlierPawns(files)
           l == Lengths(files)
<1>1. /\ Files \in Nat /\ l \in [1 .. Files -> Nat]
      /\ \A f \in 1 .. Files : l[f] = Len(files[f]) /\ files[f] \in Seq(Sides)
  BY LayoutWords, PawnsAreLengths DEF Lengths
<1>2. /\ SumOf(l, 1 .. 0) = 0
      /\ \A k \in 0 .. Files : SumOf(l, 1 .. k) \in Nat
      /\ \A k \in 1 .. Files : SumOf(l, 1 .. k) = SumOf(l, 1 .. (k - 1)) + l[k]
  BY <1>1, SumOfFirst
<1>3. pre = [k \in 0 .. Files |-> SumOf(l, 1 .. k)]
  BY DEF EarlierPawns
<1>4. /\ pre \in [0 .. Files -> Nat] /\ pre[0] = 0
      /\ \A k \in 1 .. Files : pre[k] = pre[k - 1] + l[k]
  <2>1. 0 \in 0 .. Files /\ \A k \in 1 .. Files : k - 1 \in 0 .. Files /\ k \in 0 .. Files
    BY <1>1
  <2> HIDE DEF pre
  <2> QED
    BY <2>1, <1>2, <1>3
<1>5. /\ bits = [f \in 1 .. Files |-> bits[f]]
      /\ \A f \in 1 .. Files :
           bits[f] = [i \in DOMAIN files[f] |-> IF files[f][i] = STM THEN 0 ELSE 1]
  BY DEF Bits
<1> HIDE DEF bits, pre, l
<1>6. \A f \in 1 .. Files :
        /\ bits[f] \in Seq(Nat) /\ Len(bits[f]) = l[f]
        /\ \A i \in 1 .. Len(files[f]) : bits[f][i] = IF files[f][i] = STM THEN 0 ELSE 1
  <2>1. SUFFICES ASSUME NEW f \in 1 .. Files
        PROVE  /\ bits[f] \in Seq(Nat) /\ Len(bits[f]) = l[f]
               /\ \A i \in 1 .. Len(files[f]) : bits[f][i] = IF files[f][i] = STM THEN 0 ELSE 1
    OBVIOUS
  <2>2. DOMAIN files[f] = 1 .. Len(files[f]) /\ Len(files[f]) \in Nat /\ l[f] = Len(files[f])
    BY <1>1
  <2>3. bits[f] = [i \in 1 .. l[f] |-> IF files[f][i] = STM THEN 0 ELSE 1]
    BY <2>2, <1>5
  <2> QED
    BY <2>2, <2>3
<1>7. bits \in Seq(Seq(Nat)) /\ Len(bits) = Files
  <2>1. \A f \in 1 .. Files : bits[f] \in Seq(Nat)
    BY <1>6
  <2> QED
    BY <2>1, <1>1, <1>5
<1>8. /\ Joined(bits) \in Seq(Nat)
      /\ \A k \in 1 .. Len(bits) : \A j \in 1 .. Len(bits[k]) :
           Joined(bits)[pre[k - 1] + j] = bits[k][j]
  <2>1. bits \in Seq(Seq(Nat))
    BY <1>7
  <2>2. /\ pre \in [0 .. Len(bits) -> Nat] /\ pre[0] = 0
        /\ \A k \in 1 .. Len(bits) : pre[k] = pre[k - 1] + Len(bits[k])
    BY <1>4, <1>6, <1>7
  <2>3. StartsOf(pre, bits)
    BY <2>2 DEF StartsOf
  <2>4. InPieces(Joined(bits), bits, pre, Nat)
    BY <2>1, <2>3, Flattened
  <2> QED
    BY <2>4 DEF InPieces
<1>9. \A f \in 1 .. Files : \A i \in 1 .. Len(files[f]) :
        Joined(bits)[pre[f - 1] + i] = IF files[f][i] = STM THEN 0 ELSE 1
  <2>1. SUFFICES ASSUME NEW f \in 1 .. Files, NEW i \in 1 .. Len(files[f])
                 PROVE  Joined(bits)[pre[f - 1] + i] = IF files[f][i] = STM THEN 0 ELSE 1
    OBVIOUS
  <2>2. f \in 1 .. Len(bits) /\ i \in 1 .. Len(bits[f])
    BY <1>1, <1>6, <1>7
  <2>3. Joined(bits)[pre[f - 1] + i] = bits[f][i]
    BY <2>2, <1>8
  <2> QED
    BY <2>3, <1>6
<1> QED
  BY <1>8, <1>9 DEF bits, pre

\* So does a table's, as it is parsed to its pawns.
LEMMA ElementsKeyIs ==
  ASSUME NEW name, NEW files, NEW men, TableOf(name, files, men)
  PROVE  ElementsKey(name) = Joined(Bits(files)) /\ ElementsKey(name) \in Seq(Nat)
<1>1. parse_elements(name).files = files /\ files \in Layout
  BY TableParsed DEF TableOf
<1>2. ElementsKey(name) = Joined(Bits(files))
  BY <1>1, FlattenJoins DEF ElementsKey, Bits
<1> QED
  BY <1>1, <1>2, BitsListed

\* It tells words of the same lengths apart.
LEMMA BitsTell ==
  ASSUME NEW files \in Layout, NEW other \in Layout,
         \A f \in 1 .. Files : Len(files[f]) = Len(other[f]),
         Joined(Bits(files)) = Joined(Bits(other))
  PROVE  files = other
<1> DEFINE joined == Joined(Bits(files))
           pre == EarlierPawns(files)
<1>1. EarlierPawns(other) = pre
  <2>1. Lengths(other) = Lengths(files)
    BY DEF Lengths
  <2> QED
    BY <2>1 DEF EarlierPawns
<1>2. \A f \in 1 .. Files : \A i \in 1 .. Len(files[f]) :
        joined[pre[f - 1] + i] = IF files[f][i] = STM THEN 0 ELSE 1
  BY BitsListed
<1>3. \A f \in 1 .. Files : \A i \in 1 .. Len(files[f]) :
        joined[pre[f - 1] + i] = IF other[f][i] = STM THEN 0 ELSE 1
  <2>1. \A f \in 1 .. Files : \A i \in 1 .. Len(other[f]) :
          Joined(Bits(other))[EarlierPawns(other)[f - 1] + i] = IF other[f][i] = STM THEN 0 ELSE 1
    BY BitsListed
  <2> HIDE DEF pre
  <2> QED
    BY <2>1, <1>1
<1> HIDE DEF joined, pre
<1>4. \A f \in 1 .. Files : files[f] \in Seq(Sides) /\ other[f] \in Seq(Sides)
  BY LayoutWords
<1>5. ASSUME NEW f \in 1 .. Files PROVE files[f] = other[f]
  <2>1. \A i \in 1 .. Len(files[f]) : files[f][i] = other[f][i]
    <3>1. SUFFICES ASSUME NEW i \in 1 .. Len(files[f]) PROVE files[f][i] = other[f][i]
      OBVIOUS
    <3>2. /\ files[f][i] = STM \/ files[f][i] = SNTM
          /\ other[f][i] = STM \/ other[f][i] = SNTM
      <4>1. files[f] \in Seq(Sides) /\ other[f] \in Seq(Sides) /\ i \in 1 .. Len(other[f])
        BY <1>4
      <4>2. files[f][i] \in Sides
        BY <4>1, ElementOfSeq
      <4>3. other[f][i] \in Sides
        BY <4>1, ElementOfSeq
      <4> QED
        BY <4>2, <4>3, SidesAre
    <3>3. (IF files[f][i] = STM THEN 0 ELSE 1) = (IF other[f][i] = STM THEN 0 ELSE 1)
      BY <1>2, <1>3
    <3> QED
      BY <3>2, <3>3
  <2>2. /\ files[f] = [i \in 1 .. Len(files[f]) |-> files[f][i]]
        /\ other[f] = [i \in 1 .. Len(files[f]) |-> other[f][i]]
    BY <1>4
  <2> QED
    BY <2>1, <2>2
<1> QED
  BY <1>5, KeysAlike

\* Names with the same keys are the same.
THEOREM KeysTell ==
  ASSUME NEW name, IsTable(name), NEW other, IsTable(other),
         TableKey(name) = TableKey(other), ElementsKey(name) = ElementsKey(other)
  PROVE  name = other
<1>1. PICK files \in Layout : \E men \in Armies : TableOf(name, files, men)
  BY DEF IsTable
<1>2. PICK men \in Armies : TableOf(name, files, men)
  BY <1>1
<1>3. PICK words \in Layout : \E rest \in Armies : TableOf(other, words, rest)
  BY DEF IsTable
<1>4. PICK rest \in Armies : TableOf(other, words, rest)
  BY <1>3
<1>5. /\ name_key(name) \in Seq(Nat)
      /\ TableKey(name) = <<n_pieces(name), n_pawns(name)>> \o name_key(name)
      /\ \A side \in Sides :
           /\ name[side].men = men[side] /\ name[side].men \in Army
           /\ name[side].pawns \in Seq(Marks) /\ PawnList(name[side].pawns, files, side)
  BY <1>2, TableKeyIs DEF TableKey
<1>6. /\ name_key(other) \in Seq(Nat)
      /\ TableKey(other) = <<n_pieces(other), n_pawns(other)>> \o name_key(other)
      /\ \A side \in Sides :
           /\ other[side].men = rest[side] /\ other[side].men \in Army
           /\ other[side].pawns \in Seq(Marks) /\ PawnList(other[side].pawns, words, side)
  BY <1>4, TableKeyIs DEF TableKey
<1>7. name_key(name) = name_key(other)
  <2>1. /\ n_pieces(name) \in Nat /\ n_pawns(name) \in Nat
        /\ n_pieces(other) \in Nat /\ n_pawns(other) \in Nat
    BY <1>2, <1>4, TableParsed
  <2> DEFINE s == <<n_pieces(name), n_pawns(name)>>
             t == <<n_pieces(other), n_pawns(other)>>
  <2>2. s \in Seq(Nat) /\ t \in Seq(Nat) /\ Len(s) = Len(t)
    BY <2>1
  <2>3. s \o name_key(name) = t \o name_key(other)
    BY <1>5, <1>6
  <2> HIDE DEF s, t
  <2> QED
    BY <2>2, <2>3, <1>5, <1>6, PartsAlike
<1>8. HalfKey(name[STM]) = HalfKey(other[STM]) /\ HalfKey(name[SNTM]) = HalfKey(other[SNTM])
  <2> DEFINE s == HalfKey(name[STM])
             p == HalfKey(name[SNTM])
             t == HalfKey(other[STM])
             q == HalfKey(other[SNTM])
  <2>1. /\ s \in Seq(Nat) /\ p \in Seq(Nat) /\ t \in Seq(Nat) /\ q \in Seq(Nat)
        /\ Lacks(s, 95) /\ Lacks(t, 95)
    <3>1. \A side \in Sides : HalfKey(name[side]) \in Seq(Nat) /\ Lacks(HalfKey(name[side]), 95)
      BY <1>5, HalfKeyIs
    <3>2. \A side \in Sides : HalfKey(other[side]) \in Seq(Nat) /\ Lacks(HalfKey(other[side]), 95)
      BY <1>6, HalfKeyIs
    <3> QED
      BY <3>1, <3>2, SidesAre
  <2>2. Apart(s, 95, p) = Apart(t, 95, q)
    BY <1>7, NameKeyParts DEF Apart
  <2> HIDE DEF s, p, t, q
  <2>3. s = t /\ p = q
    BY <2>1, <2>2, SplitOnce
  <2> QED
    BY <2>3 DEF s, p, t, q
<1>9. \A side \in Sides : /\ name[side].men = other[side].men
                          /\ DOMAIN name[side].pawns = DOMAIN other[side].pawns
                          /\ \A i \in DOMAIN name[side].pawns :
                               name[side].pawns[i].file = other[side].pawns[i].file
  <2>1. \A side \in Sides : HalfKey(name[side]) = HalfKey(other[side])
    BY <1>8, SidesAre
  <2> QED
    BY <2>1, <1>5, <1>6, HalfKeyTells
<1>10. men = rest
  <2>1. \A side \in Sides : men[side] = rest[side]
    BY <1>5, <1>6, <1>9
  <2> QED
    BY <2>1 DEF Armies
<1>11. ASSUME NEW side \in Sides, NEW f \in 1 .. Files
       PROVE  CountOf(files[f], side) = CountOf(words[f], side)
  <2> DEFINE list == name[side].pawns
             listed == other[side].pawns
             a == Ahead(files, side, f - 1)
             b == Ahead(words, side, f - 1)
             m == CountOf(files[f], side)
             n == CountOf(words[f], side)
  <2>1. OfFile(list, f) = (a + 1) .. (a + m) /\ OfFile(listed, f) = (b + 1) .. (b + n)
    BY <1>5, <1>6, FilePlaces
  <2>2. OfFile(list, f) = OfFile(listed, f)
    BY <1>9 DEF OfFile
  <2>3. a \in Nat /\ b \in Nat /\ m \in Nat /\ n \in Nat
    <3>1. f - 1 \in 0 .. Files
      BY LayoutWords
    <3> QED
      BY <3>1, AheadStep, LayoutWords
  <2> HIDE DEF list, listed, a, b, m, n
  <2>4. Cardinality((a + 1) .. (a + m)) = m /\ Cardinality((b + 1) .. (b + n)) = n
    BY <2>3, NthInterval
  <2>5. m = n
    BY <2>1, <2>2, <2>4
  <2> QED
    BY <2>5 DEF m, n
<1>12. \A f \in 1 .. Files : Len(files[f]) = Len(words[f])
  <2>1. SUFFICES ASSUME NEW f \in 1 .. Files PROVE Len(files[f]) = Len(words[f])
    OBVIOUS
  <2>2. files[f] \in Seq(Sides) /\ words[f] \in Seq(Sides)
    BY LayoutWords
  <2>3. /\ CountOf(files[f], STM) + CountOf(files[f], SNTM) = Len(files[f])
        /\ CountOf(words[f], STM) + CountOf(words[f], SNTM) = Len(words[f])
    BY <2>2, SlotsDivide
  <2> QED
    BY <2>3, <1>11, SidesAre
<1>13. files = words
  <2>1. Joined(Bits(files)) = Joined(Bits(words))
    BY <1>2, <1>4, ElementsKeyIs
  <2> QED
    BY <2>1, <1>12, BitsTell
<1> QED
  BY <1>2, <1>4, <1>10, <1>13 DEF TableOf

-------------------------------------------------------------------------------
(* Plans.                                                                   *)

\* The values of a function on a finite set are finitely many.
LEMMA ValuesFinite ==
  ASSUME NEW S, IsFiniteSet(S), NEW h, h = [x \in S |-> h[x]]
  PROVE  IsFiniteSet({h[x] : x \in S})
<1> DEFINE T == {h[x] : x \in S}
<1>1. h \in [S -> T] /\ \A t \in T : \E x \in S : h[x] = t
  OBVIOUS
<1> HIDE DEF T
<1>2. h \in Surjection(S, T)
  BY <1>1 DEF Surjection
<1>3. IsFiniteSet(T)
  BY <1>2, FS_Surjection
<1> QED
  BY <1>3 DEF T

\* So are the functions from one finite set to another.
LEMMA FunctionsFinite ==
  ASSUME NEW S, NEW T, IsFiniteSet(S), IsFiniteSet(T)
  PROVE  IsFiniteSet([S -> T])
<1> DEFINE G == SUBSET (S \X T)
           read(g) == [x \in S |-> CHOOSE y \in T : <<x, y>> \in g]
           h == [g \in G |-> read(g)]
           R == {h[g] : g \in G}
<1>1. IsFiniteSet(G)
  BY FS_Product, FS_SUBSET
<1>2. IsFiniteSet(R)
  <2>1. h = [g \in G |-> h[g]]
    OBVIOUS
  <2> HIDE DEF G, h
  <2> QED
    BY <2>1, <1>1, ValuesFinite
<1>3. ASSUME NEW f \in [S -> T] PROVE f \in R
  <2> DEFINE g == {<<x, f[x]>> : x \in S}
  <2>1. g \in G
    OBVIOUS
  <2>2. ASSUME NEW x \in S PROVE (CHOOSE y \in T : <<x, y>> \in g) = f[x]
    <3>1. f[x] \in T /\ <<x, f[x]>> \in g
      OBVIOUS
    <3>2. \A y : <<x, y>> \in g => y = f[x]
      OBVIOUS
    <3> HIDE DEF g
    <3> QED
      BY <3>1, <3>2
  <2>3. read(g) = f
    <3> HIDE DEF g
    <3> QED
      BY <2>2
  <2>4. h[g] = read(g)
    <3> HIDE DEF g, read, G
    <3> QED
      BY <2>1
  <2> HIDE DEF h, G, read, g
  <2> QED
    BY <2>1, <2>3, <2>4
<1>4. [S -> T] \subseteq R
  BY <1>3
<1> HIDE DEF R
<1> QED
  BY <1>2, <1>4, FS_Subset

\* There are finitely many ways to place pawns.
LEMMA LayoutsFinite == IsFiniteSet(Layout)
<1>1. Slots \in Nat /\ Files \in Nat
  BY NamesAssumption
<1>2. IsFiniteSet(Sides)
  <2>1. Sides = {STM} \cup {SNTM}
    BY DEF Sides
  <2> QED
    BY <2>1, FS_EmptySet, FS_AddElement, FS_Singleton, FS_Union
<1>3. \A n \in Nat : IsFiniteSet(1 .. n) /\ IsFiniteSet(0 .. n)
  <2>1. \A n \in Nat : 0 \in Int /\ 1 \in Int /\ n \in Int
    OBVIOUS
  <2> QED
    BY <2>1, FS_Interval
<1>4. \A n \in Nat : IsFiniteSet([1 .. n -> Sides])
  BY <1>2, <1>3, FunctionsFinite
<1>5. IsFiniteSet(Words)
  <2> DEFINE h == [n \in 0 .. Slots |-> [1 .. n -> Sides]]
             R == {h[n] : n \in 0 .. Slots}
  <2>1. IsFiniteSet(R)
    <3>1. h = [n \in 0 .. Slots |-> h[n]] /\ IsFiniteSet(0 .. Slots)
      BY <1>1, <1>3
    <3> HIDE DEF h
    <3> QED
      BY <3>1, ValuesFinite
  <2>2. ASSUME NEW T \in R PROVE IsFiniteSet(T)
    <3>1. PICK n \in 0 .. Slots : T = [1 .. n -> Sides]
      OBVIOUS
    <3>2. n \in Nat
      BY <1>1
    <3> QED
      BY <3>1, <3>2, <1>4
  <2>3. R = {[1 .. n -> Sides] : n \in 0 .. Slots}
    OBVIOUS
  <2>4. Words = UNION R
    BY <2>3 DEF Words
  <2> HIDE DEF R
  <2> QED
    BY <2>1, <2>2, <2>4, FS_UNION
<1> QED
  BY <1>1, <1>3, <1>5, FunctionsFinite DEF Layout

\* There are finitely many tables.
LEMMA TablesFinite ==
  ASSUME NEW S, \A name \in S : IsTable(name)
  PROVE  IsFiniteSet(S)
<1> DEFINE P == Layout \X [Sides -> [ToSet(Roles) -> 0 .. MaxPieces]]
           h == [p \in P |-> format_name(p[1], p[2])]
           R == {h[p] : p \in P}
<1>1. IsFiniteSet(P)
  <2>1. IsFiniteSet(Sides)
    <3>1. Sides = {STM} \cup {SNTM}
      BY DEF Sides
    <3> QED
      BY <3>1, FS_EmptySet, FS_AddElement, FS_Singleton, FS_Union
  <2>2. IsFiniteSet(0 .. MaxPieces)
    <3>1. 0 \in Int /\ MaxPieces \in Int
      BY NamesAssumption
    <3> QED
      BY <3>1, FS_Interval
  <2>3. IsFiniteSet([ToSet(Roles) -> 0 .. MaxPieces])
    BY <2>2, RolesFinite, FunctionsFinite
  <2>4. IsFiniteSet([Sides -> [ToSet(Roles) -> 0 .. MaxPieces]])
    BY <2>1, <2>3, FunctionsFinite
  <2> QED
    BY <2>4, LayoutsFinite, FS_Product
<1>2. IsFiniteSet(R)
  <2>1. h = [p \in P |-> h[p]]
    OBVIOUS
  <2> HIDE DEF P, h
  <2> QED
    BY <2>1, <1>1, ValuesFinite
<1>3. ASSUME NEW name \in S PROVE name \in R
  <2>1. PICK files \in Layout : \E men \in Armies : TableOf(name, files, men)
    BY DEF IsTable
  <2>2. PICK men \in Armies : TableOf(name, files, men)
    BY <2>1
  <2>3. name = format_name(files, men) /\ PieceTotal(files, men) <= MaxPieces
    BY <2>2, TableParsed DEF TableOf
  <2>4. MaxPieces \in Nat
    BY NamesAssumption
  <2>5. \A side \in Sides : men[side] \in Army /\ MenOf(men[side]) \in Nat
    BY MenCounted DEF Armies, Army
  <2>6. MenOf(men[STM]) <= MaxPieces /\ MenOf(men[SNTM]) <= MaxPieces
    <3>1. PawnTotal(files) \in Nat /\ MenOf(men[STM]) \in Nat /\ MenOf(men[SNTM]) \in Nat
      BY <2>5, PawnsAreLengths, SidesAre
    <3> QED
      BY <3>1, <2>3, <2>4 DEF PieceTotal
  <2>7. ASSUME NEW side \in Sides PROVE men[side] \in [ToSet(Roles) -> 0 .. MaxPieces]
    <3>1. /\ MenOf(men[side]) <= MaxPieces /\ men[side] \in [ToSet(Roles) -> Nat]
          /\ MenOf(men[side]) \in Nat
      BY <2>5, <2>6, SidesAre DEF Army
    <3>2. ASSUME NEW role \in ToSet(Roles) PROVE men[side][role] \in 0 .. MaxPieces
      <4>1. DOMAIN men[side] = ToSet(Roles) /\ men[side][role] \in Nat
        BY <3>1
      <4>2. men[side][role] <= MenOf(men[side])
        <5>1. MenOf(men[side]) = SumOf(men[side], ToSet(Roles))
          BY <4>1, SumFunctionIs DEF MenOf
        <5>2. 0 \in Nat
          OBVIOUS
        <5> QED
          BY <5>1, <5>2, <3>1, RolesFinite, SumOfUpdated
      <4> QED
        BY <4>1, <4>2, <3>1, <2>4
    <3> QED
      BY <3>1, <3>2
  <2>8. men \in [Sides -> [ToSet(Roles) -> 0 .. MaxPieces]]
    BY <2>7 DEF Armies
  <2>9. <<files, men>> \in P /\ h[<<files, men>>] = format_name(files, men)
    BY <2>8
  <2> HIDE DEF P, h
  <2> QED
    BY <2>3, <2>9
<1>4. S \subseteq R
  BY <1>3
<1> HIDE DEF R
<1> QED
  BY <1>2, <1>4, FS_Subset

\* Material::tables places the pawns file by file.
Times(list, f) == Cardinality({i \in DOMAIN list : list[i] = f - 1})
Orders(stm, sntm, f) ==
  {w \in Words : CountOf(w, STM) = Times(stm, f) /\ CountOf(w, SNTM) = Times(sntm, f)}
FileNumbers == [f \in 1 .. Files |-> f]
More(layouts, stm, sntm, f) == {Append(l, w) : l \in layouts, w \in Orders(stm, sntm, f)}

\* g is the function the fold over files is defined with.
Lays(g, stm, sntm) ==
  g = [s \in SUBSET DOMAIN FileNumbers |->
         IF s = {} THEN {<<>>} ELSE More(g[s \ {Max(s)}], stm, sntm, FileNumbers[Max(s)])]

\* A material's layouts are that function's value on all files.
LEMMA LayoutsUnfolded ==
  ASSUME NEW stm, NEW sntm
  PROVE  pawn_order_combinations(stm, sntm) =
           (CHOOSE g : Lays(g, stm, sntm))[DOMAIN FileNumbers]
BY DEF pawn_order_combinations, FoldLeft, MapThenFoldSet, Lays, Orders, Times, FileNumbers, More

\* Such a function exists.
LEMMA LaysExists ==
  ASSUME NEW stm, NEW sntm PROVE \E g : Lays(g, stm, sntm)
<1> DEFINE A == SUBSET Seq(Words)
           X == 1 .. Files
           J(a) == [f \in X |-> More(a, stm, sntm, f)]
           step == [a \in A |-> J(a)]
           word == FileNumbers
<1>1. \A a \in A : \A f \in X : More(a, stm, sntm, f) \in A
  <2>1. SUFFICES ASSUME NEW a \in A, NEW f \in X, NEW m \in More(a, stm, sntm, f)
                 PROVE  m \in Seq(Words)
    OBVIOUS
  <2>2. PICK l \in a, w \in Orders(stm, sntm, f) : m = Append(l, w)
    BY DEF More
  <2>3. l \in Seq(Words) /\ w \in Words
    BY DEF Orders
  <2> QED
    BY <2>2, <2>3
<1>2. step \in [A -> [X -> A]]
  <2> HIDE DEF A, X
  <2> QED
    BY <1>1
<1>3. \A a \in A : \A f \in X : step[a][f] = More(a, stm, sntm, f)
  <2>1. \A a \in A : step[a] = J(a)
    <3> HIDE DEF J
    <3> QED
      OBVIOUS
  <2>2. \A a \in A : \A f \in X : J(a)[f] = More(a, stm, sntm, f)
    OBVIOUS
  <2> HIDE DEF step, J, A, X
  <2> QED
    BY <2>1, <2>2
<1>4. /\ Files \in Nat /\ word \in Seq(X) /\ Len(word) = Files /\ DOMAIN word = 1 .. Files
      /\ \A f \in 1 .. Files : word[f] = f
  BY NamesAssumption DEF FileNumbers
<1>5. {<<>>} \in A
  OBVIOUS
<1> HIDE DEF step, A, J, word
<1>6. PICK g \in [SUBSET (1 .. Len(word)) -> A] : FoldsAll(g, step, {<<>>}, word, Len(word))
  <2> HIDE DEF X
  <2> QED
    BY <1>2, <1>4, <1>5, FoldExists
<1>7. \A s \in SUBSET (1 .. Len(word)) : s # {} =>
        Max(s) \in s /\ s \ {Max(s)} \in SUBSET (1 .. Len(word))
  BY <1>4, MaxUpTo
<1>8. \A s \in SUBSET (1 .. Len(word)) :
        g[s] = IF s = {} THEN {<<>>} ELSE More(g[s \ {Max(s)}], stm, sntm, word[Max(s)])
  <2>1. ASSUME NEW s \in SUBSET (1 .. Len(word))
        PROVE  g[s] = IF s = {} THEN {<<>>} ELSE More(g[s \ {Max(s)}], stm, sntm, word[Max(s)])
    <3>1. g[s] = IF s = {} THEN {<<>>} ELSE step[g[s \ {Max(s)}]][word[Max(s)]]
      BY <1>6 DEF FoldsAll
    <3>2. CASE s = {}
      BY <3>1, <3>2
    <3>3. CASE s # {}
      <4>1. g[s \ {Max(s)}] \in A /\ word[Max(s)] \in X
        <5>1. Max(s) \in s /\ s \ {Max(s)} \in SUBSET (1 .. Len(word))
          BY <3>3, <1>7
        <5>2. g[s \ {Max(s)}] \in A
          BY <5>1, <1>6
        <5>3. Max(s) \in 1 .. Files
          BY <5>1, <1>4
        <5> QED
          BY <5>2, <5>3, <1>4
      <4> QED
        BY <4>1, <3>1, <3>3, <1>3
    <3> QED
      BY <3>2, <3>3
  <2> QED
    BY <2>1
<1>9. g = [s \in SUBSET (1 .. Len(word)) |-> g[s]]
  OBVIOUS
<1>10. Lays(g, stm, sntm)
  <2>1. SUBSET DOMAIN word = SUBSET (1 .. Len(word))
    BY <1>4
  <2> QED
    BY <2>1, <1>8, <1>9 DEF Lays, word
<1> QED
  BY <1>10

\* The layouts of the first k files.
Laying(f, stm, sntm) ==
  f[0] = {<<>>} /\ \A k \in 1 .. Files : f[k] = More(f[k - 1], stm, sntm, k)

\* So they are laid file by file.
LEMMA LayoutsChain ==
  ASSUME NEW stm, NEW sntm
  PROVE  \E f : Laying(f, stm, sntm) /\ pawn_order_combinations(stm, sntm) = f[Files]
<1> DEFINE g == CHOOSE h : Lays(h, stm, sntm)
           f == [k \in 0 .. Files |-> g[1 .. k]]
           word == FileNumbers
<1>1. Files \in Nat /\ DOMAIN word = 1 .. Files /\ \A k \in 1 .. Files : word[k] = k
  BY NamesAssumption DEF FileNumbers
<1>2. Lays(g, stm, sntm)
  BY LaysExists
<1>3. pawn_order_combinations(stm, sntm) = g[1 .. Files]
  BY <1>1, LayoutsUnfolded
<1> HIDE DEF g, word
<1>4. \A k \in 0 .. Files : 1 .. k \in SUBSET DOMAIN word
  BY <1>1
<1>5. f[0] = {<<>>}
  <2>1. g[{}] = {<<>>}
    BY <1>2 DEF Lays
  <2>2. f[0] = g[1 .. 0] /\ 1 .. 0 = {}
    BY <1>1
  <2> HIDE DEF f
  <2> QED
    BY <2>1, <2>2
<1>6. ASSUME NEW k \in 1 .. Files PROVE f[k] = More(f[k - 1], stm, sntm, k)
  <2>1. k \in Nat \ {0} /\ k \in 0 .. Files /\ k - 1 \in 0 .. Files /\ k \in 1 .. k
    BY <1>1
  <2>2. 1 .. k \in SUBSET DOMAIN word /\ 1 .. k # {}
    BY <2>1, <1>4
  <2>3. g[1 .. k] = More(g[(1 .. k) \ {Max(1 .. k)}], stm, sntm, word[Max(1 .. k)])
    BY <2>2, <1>2 DEF Lays, word
  <2>4. Max(1 .. k) = k /\ (1 .. k) \ {k} = 1 .. (k - 1)
    BY <2>1, RangeLast
  <2>5. f[k] = g[1 .. k] /\ f[k - 1] = g[1 .. (k - 1)]
    BY <2>1
  <2> HIDE DEF f
  <2> QED
    BY <2>3, <2>4, <2>5, <1>1
<1>7. f[Files] = g[1 .. Files]
  BY <1>1
<1> HIDE DEF f
<1>8. Laying(f, stm, sntm)
  BY <1>5, <1>6 DEF Laying
<1> QED
  BY <1>3, <1>7, <1>8

\* A layout of the lists has on each file the pawns that are listed.
LEMMA LayoutsAre ==
  ASSUME NEW stm, NEW sntm, NEW files \in pawn_order_combinations(stm, sntm)
  PROVE  /\ files \in Layout
         /\ \A f \in 1 .. Files : files[f] \in Orders(stm, sntm, f)
<1>1. PICK f : Laying(f, stm, sntm) /\ pawn_order_combinations(stm, sntm) = f[Files]
  BY LayoutsChain
<1> DEFINE Ok(l, k) == /\ l \in Seq(Words) /\ Len(l) = k
                       /\ \A j \in 1 .. k : l[j] \in Orders(stm, sntm, j)
           D == {k \in Nat : \A l \in f[k] : Ok(l, k)}
<1>2. Files \in Nat
  BY NamesAssumption
<1>3. 0 \in D
  <2>1. f[0] = {<<>>}
    BY <1>1 DEF Laying
  <2>2. Ok(<<>>, 0)
    OBVIOUS
  <2> HIDE DEF Ok
  <2> QED
    BY <2>1, <2>2
<1>4. ASSUME NEW k \in 1 .. Files, k - 1 \in D PROVE k \in D
  <2>1. k \in Nat \ {0} /\ k - 1 \in Nat /\ \A l \in f[k - 1] : Ok(l, k - 1)
    BY <1>2, <1>4
  <2>2. f[k] = More(f[k - 1], stm, sntm, k)
    BY <1>1 DEF Laying
  <2>3. ASSUME NEW m \in f[k] PROVE Ok(m, k)
    <3>1. PICK l \in f[k - 1] : \E w \in Orders(stm, sntm, k) : m = Append(l, w)
      BY <2>2 DEF More
    <3>2. PICK w \in Orders(stm, sntm, k) : m = Append(l, w)
      BY <3>1
    <3>3. /\ l \in Seq(Words) /\ Len(l) = k - 1
          /\ \A j \in 1 .. k - 1 : l[j] \in Orders(stm, sntm, j)
      BY <2>1
    <3>4. w \in Words
      BY DEF Orders
    <3>5. m \in Seq(Words) /\ Len(m) = k /\ m[k] = w /\ \A j \in 1 .. k - 1 : m[j] = l[j]
      BY <2>1, <3>2, <3>3, <3>4
    <3>6. \A j \in 1 .. k : m[j] \in Orders(stm, sntm, j)
      <4>1. SUFFICES ASSUME NEW j \in 1 .. k PROVE m[j] \in Orders(stm, sntm, j)
        OBVIOUS
      <4>2. CASE j = k
        BY <4>2, <3>5
      <4>3. CASE j # k
        <5>1. j \in 1 .. k - 1
          BY <4>3, <2>1
        <5> QED
          BY <5>1, <3>3, <3>5
      <4> QED
        BY <4>2, <4>3
    <3> QED
      BY <3>5, <3>6
  <2> HIDE DEF Ok
  <2> QED
    BY <2>1, <2>3
<1>5. \A k \in 0 .. Files : k \in D
  <2> HIDE DEF D
  <2> QED
    BY <1>2, <1>3, <1>4, Climb
<1>6. Files \in D
  <2> HIDE DEF D
  <2> QED
    BY <1>2, <1>5
<1>7. Ok(files, Files)
  <2> HIDE DEF Ok
  <2> QED
    BY <1>1, <1>6
<1>8. files \in [1 .. Files -> Words]
  <2>1. files \in Seq(Words) /\ Len(files) = Files
    BY <1>7
  <2> QED
    BY <2>1
<1> QED
  BY <1>7, <1>8 DEF Layout

\* Every pawn of a list is on one file.
LEMMA TimesSum ==
  ASSUME NEW n \in Nat, NEW list \in [1 .. n -> 0 .. Files - 1]
  PROVE  /\ [f \in 1 .. Files |-> Times(list, f)] \in [1 .. Files -> Nat]
         /\ SumOf([f \in 1 .. Files |-> Times(list, f)], 1 .. Files) = n
<1> DEFINE w == [f \in 1 .. Files |-> Times(list, f)]
           on(f) == {i \in 1 .. n : list[i] = f - 1}
           below(k) == {i \in 1 .. n : list[i] < k}
           D == {k \in 0 .. Files : SumOf(w, 1 .. k) = Cardinality(below(k))}
<1>1. Files \in Nat /\ \A i \in 1 .. n : list[i] \in Nat /\ list[i] < Files
  BY NamesAssumption
<1>2. IsFiniteSet(1 .. n) /\ Cardinality(1 .. n) = n
  <2>1. 1 \in Int /\ n \in Int
    OBVIOUS
  <2> QED
    BY <2>1, FS_Interval
<1>3. \A k : /\ IsFiniteSet(on(k)) /\ Cardinality(on(k)) \in Nat
             /\ IsFiniteSet(below(k)) /\ Cardinality(below(k)) \in Nat
  <2>1. \A k : on(k) \in SUBSET (1 .. n) /\ below(k) \in SUBSET (1 .. n)
    OBVIOUS
  <2> HIDE DEF on, below
  <2> QED
    BY <2>1, <1>2, FS_Subset, FS_CardinalityType
<1>4. \A f \in 1 .. Files : Times(list, f) = Cardinality(on(f))
  BY DEF Times
<1>5. w \in [1 .. Files -> Nat] /\ \A f \in 1 .. Files : w[f] = Cardinality(on(f))
  <2> HIDE DEF on
  <2> QED
    BY <1>3, <1>4
<1>6. /\ SumOf(w, 1 .. 0) = 0
      /\ \A k \in 1 .. Files : SumOf(w, 1 .. k) = SumOf(w, 1 .. (k - 1)) + w[k]
  <2> HIDE DEF w
  <2> QED
    BY <1>1, <1>5, SumOfFirst
<1> HIDE DEF w
<1>7. 0 \in D
  <2>1. below(0) = {}
    BY <1>1
  <2>2. 0 \in 0 .. Files
    BY <1>1
  <2> HIDE DEF below
  <2> QED
    BY <2>1, <2>2, <1>6, FS_EmptySet
<1>8. ASSUME NEW k \in 1 .. Files, k - 1 \in D PROVE k \in D
  <2>1. below(k) = below(k - 1) \cup on(k) /\ below(k - 1) \cap on(k) = {}
    BY <1>1
  <2>2. Cardinality(below(k)) = Cardinality(below(k - 1)) + Cardinality(on(k))
    <3> HIDE DEF below, on
    <3>1. Cardinality(below(k)) = Cardinality(below(k - 1)) + Cardinality(on(k)) - Cardinality({})
      BY <2>1, <1>3, FS_Union
    <3> QED
      BY <3>1, <1>3, FS_EmptySet
  <2>3. SumOf(w, 1 .. (k - 1)) = Cardinality(below(k - 1))
    BY <1>8
  <2>4. k \in 0 .. Files
    BY <1>1
  <2> HIDE DEF below, on
  <2> QED
    BY <2>2, <2>3, <2>4, <1>5, <1>6
<1>9. Files \in D
  <2>1. Files \in 0 .. Files
    BY <1>1
  <2> HIDE DEF D
  <2> QED
    BY <2>1, <1>1, <1>7, <1>8, Climb
<1>10. below(Files) = 1 .. n
  BY <1>1
<1> HIDE DEF below
<1> QED
  BY <1>2, <1>5, <1>9, <1>10 DEF w

\* A layout of a material has its pawns.
LEMMA LayoutCounts ==
  ASSUME NEW a \in Nat, NEW b \in Nat,
         NEW stm \in get_file_combinations(a), NEW sntm \in get_file_combinations(b),
         NEW files \in pawn_order_combinations(stm, sntm)
  PROVE  files \in Layout /\ PawnsOf(files, STM) = a /\ PawnsOf(files, SNTM) = b
<1>1. files \in Layout /\ \A f \in 1 .. Files : files[f] \in Orders(stm, sntm, f)
  BY LayoutsAre
<1>2. stm \in [1 .. a -> 0 .. Files - 1] /\ sntm \in [1 .. b -> 0 .. Files - 1]
  BY DEF get_file_combinations
<1>3. Counted(files, STM) = [f \in 1 .. Files |-> Times(stm, f)]
  BY <1>1 DEF Counted, Orders
<1>4. Counted(files, SNTM) = [f \in 1 .. Files |-> Times(sntm, f)]
  BY <1>1 DEF Counted, Orders
<1>5. /\ SumOf([f \in 1 .. Files |-> Times(stm, f)], 1 .. Files) = a
      /\ SumOf([f \in 1 .. Files |-> Times(sntm, f)], 1 .. Files) = b
  BY <1>2, TimesSum
<1>6. \A side : PawnsOf(files, side) = SumOf(Counted(files, side), 1 .. Files)
  BY <1>1, AheadStep DEF Ahead
<1> QED
  BY <1>1, <1>3, <1>4, <1>5, <1>6

\* The tables of a material of at most MaxPieces pieces are tables.
LEMMA MaterialTables ==
  ASSUME NEW m \in Materials, NEW prefix, NEW name \in Tables(m, prefix),
         MaterialCounts(m)[STM] + MaterialCounts(m)[SNTM] <= MaxPieces
  PROVE  IsTable(name)
<1> DEFINE men == [side \in Sides |-> m[side].men]
           lists == {l \in get_file_combinations(m[STM].pawns)
                             \X get_file_combinations(m[SNTM].pawns) : is_canonical(l[1], l[2])}
<1>1. PICK files \in UNION {pawn_order_combinations(l[1], l[2]) : l \in lists} :
        ~ canonicalized(files).reflected /\ name = from_elements(Elements(files, men))
  BY DEF Tables
<1>2. PICK l \in lists : files \in pawn_order_combinations(l[1], l[2])
  BY <1>1
<1>3. /\ m[STM].pawns \in Nat /\ m[SNTM].pawns \in Nat
      /\ m[STM].men \in Army /\ m[SNTM].men \in Army /\ men \in Armies
      /\ men[STM] = m[STM].men /\ men[SNTM] = m[SNTM].men
  BY SidesAre DEF Materials, Army, Armies
<1>4. l[1] \in get_file_combinations(m[STM].pawns) /\ l[2] \in get_file_combinations(m[SNTM].pawns)
  OBVIOUS
<1>5. files \in Layout /\ PawnsOf(files, STM) = m[STM].pawns /\ PawnsOf(files, SNTM) = m[SNTM].pawns
  BY <1>2, <1>3, <1>4, LayoutCounts
<1> HIDE DEF men
<1>6. PieceTotal(files, men) <= MaxPieces
  <2>1. /\ MaterialCounts(m)[STM] = 1 + MenOf(m[STM].men) + m[STM].pawns
        /\ MaterialCounts(m)[SNTM] = 1 + MenOf(m[SNTM].men) + m[SNTM].pawns
    BY SidesAre DEF MaterialCounts
  <2>2. MenOf(m[STM].men) \in Nat /\ MenOf(m[SNTM].men) \in Nat
    BY <1>3, MenCounted
  <2>3. PieceTotal(files, men) = MaterialCounts(m)[STM] + MaterialCounts(m)[SNTM]
    BY <2>1, <2>2, <1>3, <1>5 DEF PieceTotal, PawnTotal
  <2> QED
    BY <2>3
<1>7. validate_elements(Elements(files, men))
  BY <1>3, <1>5, <1>6, NameCounts
<1>8. canonicalized(files).reflected = FALSE
  BY <1>1, <1>5, CanonicalizedIs
<1>9. name = format_name(files, men)
  <2>1. Elements(files, men).files = files /\ Elements(files, men).men = men
    BY DEF Elements
  <2> QED
    BY <2>1, <1>1, <1>7, <1>8 DEF from_elements, compute_tablename
<1> QED
  BY <1>3, <1>5, <1>7, <1>8, <1>9 DEF IsTable, TableOf

\* The materials of n pieces have n pieces.
LEMMA MaterialsOf ==
  ASSUME NEW n \in Nat, n >= 2, NEW m \in material_names(n)
  PROVE  m \in Materials /\ MaterialCounts(m)[STM] + MaterialCounts(m)[SNTM] = n
<1>1. PICK k \in 0 .. n - 2 :
        m \in {[side \in Sides |-> h[IF side = STM THEN 1 ELSE 2]] :
                h \in Halves(k) \X Halves(n - 2 - k)}
  BY DEF material_names
<1>2. PICK h \in Halves(k) \X Halves(n - 2 - k) :
        m = [side \in Sides |-> h[IF side = STM THEN 1 ELSE 2]]
  BY <1>1
<1> DEFINE a == h[1]
           b == h[2]
<1>3. a \in Halves(k) /\ b \in Halves(n - 2 - k)
  OBVIOUS
<1>4. k \in Nat /\ n - 2 - k \in Nat
  OBVIOUS
<1>5. m = [side \in Sides |-> m[side]] /\ m[STM] = a /\ m[SNTM] = b
  BY <1>2, SidesAre
<1> HIDE DEF a, b
<1>6. \A i \in Nat : \A half \in Halves(i) :
        /\ half \in [men : [ToSet(Roles) -> Nat], pawns : Nat]
        /\ half.men \in Army /\ half.pawns \in Nat /\ MenOf(half.men) + half.pawns = i
  <2>1. SUFFICES ASSUME NEW i \in Nat, NEW half \in Halves(i)
                 PROVE  /\ half \in [men : [ToSet(Roles) -> Nat], pawns : Nat]
                        /\ half.men \in Army /\ half.pawns \in Nat
                        /\ MenOf(half.men) + half.pawns = i
    OBVIOUS
  <2>2. /\ half \in [men : [ToSet(Roles) -> 0 .. i], pawns : 0 .. i]
        /\ MenOf(half.men) + half.pawns = i
    BY DEF Halves
  <2>3. half.men \in [ToSet(Roles) -> Nat] /\ half.pawns \in Nat
    BY <2>2
  <2> QED
    BY <2>2, <2>3 DEF Army
<1>7. m \in Materials
  BY <1>3, <1>4, <1>5, <1>6, SidesAre DEF Materials
<1>8. /\ MaterialCounts(m)[STM] = 1 + MenOf(a.men) + a.pawns
      /\ MaterialCounts(m)[SNTM] = 1 + MenOf(b.men) + b.pawns
  BY <1>5, SidesAre DEF MaterialCounts
<1>9. /\ MenOf(a.men) \in Nat /\ a.pawns \in Nat /\ MenOf(a.men) + a.pawns = k
      /\ MenOf(b.men) \in Nat /\ b.pawns \in Nat /\ MenOf(b.men) + b.pawns = n - 2 - k
  BY <1>3, <1>4, <1>6, MenCounted
<1> QED
  BY <1>4, <1>7, <1>8, <1>9

\* A name that is parsed without error is a table's.
LEMMA ParsedIsTable ==
  ASSUME NEW name \in Texts, parse(name) # Invalid
  PROVE  IsTable(name)
<1> DEFINE files == ParsedFiles(name)
           men == [side \in Sides |-> name[side].men]
<1>1. parse_elements(name) # Invalid /\ ~ canonicalized(parse_elements(name).files).reflected
  BY DEF parse
<1>2. /\ \A f \in 1 .. Files : Length(name, f) <= Slots /\ Fitting(name, f) # {}
      /\ validate_elements(Parsed(name))
      /\ compute_tablename(Parsed(name)) = name
      /\ parse_elements(name) = Parsed(name)
  BY <1>1, ParseUnfolded
<1>3. \A side \in Sides : name[side].men \in Army /\ name[side].pawns \in Seq(Marks)
  BY DEF Texts, Army, Marks
<1>4. ASSUME NEW f \in 1 .. Files PROVE LeastWord(Fitting(name, f)) \in Words
  <2>1. ASSUME NEW side \in Sides PROVE Len(ReadFlags(name[side].pawns, f)) \in Nat
    <3> DEFINE list == name[side].pawns
               S == OfFile(list, f)
               g == [k \in 1 .. Cardinality(S) |-> list[Nth(S, k)].opposed]
    <3>1. list \in Seq(Marks) /\ Len(list) \in Nat /\ DOMAIN list = 1 .. Len(list)
      BY <1>3
    <3>2. Within(S, Len(list))
      BY <3>1 DEF Within, OfFile
    <3>3. Cardinality(S) \in Nat
      BY <3>2, UpToStep
    <3>4. g \in [1 .. Cardinality(S) -> {g[k] : k \in 1 .. Cardinality(S)}]
      OBVIOUS
    <3>5. Len(<<>> \o g) = Cardinality(S)
      <4> HIDE DEF g, S
      <4> QED
        BY <3>3, <3>4, ListedIs
    <3> QED
      BY <3>3, <3>5 DEF ReadFlags
  <2>2. Length(name, f) \in 0 .. Slots
    <3>1. Length(name, f) \in Nat /\ Slots \in Nat
      BY <2>1, SidesAre, NamesAssumption DEF Length
    <3> QED
      BY <3>1, <1>2
  <2>3. PICK w : w \in Fitting(name, f)
    BY <1>2
  <2>4. \A v \in Fitting(name, f) :
          v \in [1 .. Length(name, f) -> Sides] /\ v \in Words /\ v \in Seq(Sides)
    <3>1. \A v \in Fitting(name, f) : v \in [1 .. Length(name, f) -> Sides]
      BY DEF Fitting
    <3>2. \A v \in Fitting(name, f) : v \in Words
      BY <2>2, <3>1 DEF Words
    <3> QED
      BY <3>1, <3>2, WordIs
  <2>5. ASSUME NEW v \in Fitting(name, f) PROVE v = w
    <3>1. w \in Seq(Sides) /\ v \in Seq(Sides)
      BY <2>3, <2>4
    <3>2. \A side \in Sides : pawn_flags(w, side) = pawn_flags(v, side)
      BY <2>3 DEF Fitting
    <3>3. \A side \in Sides : FormatFlags(w, side) = FormatFlags(v, side)
      BY <3>1, <3>2, PawnFlagsAre
    <3> QED
      BY <3>1, <3>3, FlagsIdentifyWords
  <2>6. \A v \in Fitting(name, f) : WordNumber(w) <= WordNumber(v)
    <3>1. WordNumber(w) \in Nat
      BY <2>3, <2>4, WordNumberIs
    <3> QED
      BY <2>5, <3>1
  <2>7. LeastWord(Fitting(name, f)) \in Fitting(name, f)
    BY <2>3, <2>6 DEF LeastWord
  <2> QED
    BY <2>4, <2>7
<1>5. files \in Layout
  <2> DEFINE g == [f \in 1 .. Files |-> LeastWord(Fitting(name, f))]
  <2>1. g \in [1 .. Files -> Words] /\ Files \in Nat
    BY <1>4, NamesAssumption
  <2>2. <<>> \o g = g
    <3> HIDE DEF g
    <3> QED
      BY <2>1, ListedIs
  <2> QED
    BY <2>1, <2>2 DEF ParsedFiles, Layout
<1>6. men \in Armies
  BY <1>3 DEF Armies, Army
<1>7. Parsed(name) = Elements(files, men) /\ Parsed(name).files = files
      /\ Elements(files, men).files = files /\ Elements(files, men).men = men
  BY DEF Parsed, Elements
<1> HIDE DEF files, men
<1>8. canonicalized(files).reflected = FALSE
  BY <1>1, <1>2, <1>5, <1>7, CanonicalizedIs
<1>9. name = format_name(files, men)
  BY <1>2, <1>7 DEF compute_tablename
<1>10. validate_elements(Elements(files, men))
  BY <1>2, <1>7
<1> QED
  BY <1>5, <1>6, <1>8, <1>9, <1>10 DEF IsTable, TableOf

\* A selector that is accepted resolves to tables.
LEMMA ResolvesToTables ==
  ASSUME NEW selector, IsSelector(selector), ParsesSelector(selector),
         NEW t \in resolve(selector)
  PROVE  IsTable(t)
<1>1. CASE selector.kind = "hierarchy"
  <2>1. ValidPrefix(selector.prefix)
    BY <1>1 DEF ParsesSelector
  <2>2. PICK n \in selector.prefix.n :
          t \in UNION {Tables(m, selector.prefix) : m \in material_names(n)}
    BY <1>1 DEF resolve
  <2>3. PICK m \in material_names(n) : t \in Tables(m, selector.prefix)
    BY <2>2
  <2>4. n \in 2 .. MaxPieces
    BY <2>1, <2>2 DEF ValidPrefix
  <2>5. n \in Nat /\ n >= 2 /\ n <= MaxPieces
    BY <2>4, NamesAssumption
  <2>6. m \in Materials /\ MaterialCounts(m)[STM] + MaterialCounts(m)[SNTM] = n
    BY <2>3, <2>5, MaterialsOf
  <2> QED
    BY <2>3, <2>5, <2>6, MaterialTables
<1>2. CASE selector.kind = "material"
  <2> DEFINE m == selector.material
  <2>1. m \in Materials /\ MaterialCounts(m)[STM] + MaterialCounts(m)[SNTM] \in 2 .. MaxPieces
    BY <1>2 DEF IsSelector, ParsesSelector
  <2>2. MaterialCounts(m)[STM] + MaterialCounts(m)[SNTM] <= MaxPieces
    BY <2>1, NamesAssumption
  <2>3. t \in Tables(m, Anything)
    BY <1>2 DEF resolve
  <2> QED
    BY <2>1, <2>2, <2>3, MaterialTables
<1>3. CASE selector.kind = "exact"
  <2>1. selector.name \in Texts /\ parse(selector.name) # Invalid
    BY <1>3 DEF IsSelector, ParsesSelector
  <2>2. t = selector.name
    BY <1>3 DEF resolve
  <2> QED
    BY <2>1, <2>2, ParsedIsTable
<1> QED
  BY <1>1, <1>2, <1>3 DEF IsSelector

\* A smaller table's key precedes.
LEMMA SmallerPrecedes ==
  ASSUME NEW name, IsTable(name), NEW other, IsTable(other), Smaller(name, other)
  PROVE  Precedes(TableKey(name), TableKey(other))
<1> DEFINE s == TableKey(name)
           t == TableKey(other)
           common == 1 .. (IF Len(s) < Len(t) THEN Len(s) ELSE Len(t))
           different == {i \in common : s[i] # t[i]}
<1>1. PICK files \in Layout : \E men \in Armies : TableOf(name, files, men)
  BY DEF IsTable
<1>2. PICK men \in Armies : TableOf(name, files, men)
  BY <1>1
<1>3. PICK words \in Layout : \E rest \in Armies : TableOf(other, words, rest)
  BY DEF IsTable
<1>4. PICK rest \in Armies : TableOf(other, words, rest)
  BY <1>3
<1>5. /\ s \in Seq(Nat) /\ s[1] = n_pieces(name) /\ s[2] = n_pawns(name) /\ Len(s) >= 2
      /\ t \in Seq(Nat) /\ t[1] = n_pieces(other) /\ t[2] = n_pawns(other) /\ Len(t) >= 2
  BY <1>2, <1>4, TableKeyIs
<1>6. \/ s[1] < t[1]
      \/ s[1] = t[1] /\ s[2] < t[2]
  BY <1>5 DEF Smaller
<1>7. Precedes(s, t) <=> IF different = {} THEN Len(s) < Len(t)
                         ELSE LET i == CHOOSE i \in different : \A j \in different : i <= j
                              IN s[i] < t[i]
  BY DEF Precedes
<1> HIDE DEF s, t
<1>8. /\ 1 \in common /\ 2 \in common /\ common \subseteq Nat \ {0}
      /\ s[1] \in Nat /\ s[2] \in Nat /\ t[1] \in Nat /\ t[2] \in Nat
  <2>1. Len(s) \in Nat /\ Len(t) \in Nat
    BY <1>5
  <2>2. 1 \in common /\ 2 \in common /\ common \subseteq Nat \ {0}
    BY <2>1, <1>5
  <2>3. 1 \in 1 .. Len(s) /\ 2 \in 1 .. Len(s) /\ 1 \in 1 .. Len(t) /\ 2 \in 1 .. Len(t)
    BY <2>1, <1>5
  <2>4. s[1] \in Nat /\ s[2] \in Nat /\ t[1] \in Nat /\ t[2] \in Nat
    BY <2>3, <1>5, ElementOfSeq
  <2> QED
    BY <2>2, <2>4
<1>9. PICK i \in different : s[i] < t[i] /\ \A j \in different : i <= j
  <2>1. CASE s[1] < t[1]
    <3>1. 1 \in different
      BY <2>1, <1>8
    <3>2. \A j \in different : 1 <= j
      BY <1>8
    <3> HIDE DEF different
    <3> QED
      BY <2>1, <3>1, <3>2
  <2>2. CASE s[1] = t[1] /\ s[2] < t[2]
    <3>1. 2 \in different
      BY <2>2, <1>8
    <3>2. \A j \in different : 2 <= j
      <4>1. \A j \in different : j \in Nat \ {0} /\ j # 1
        BY <1>8, <2>2
      <4> HIDE DEF different
      <4> QED
        BY <4>1
    <3> HIDE DEF different
    <3> QED
      BY <2>2, <3>1, <3>2
  <2> QED
    BY <1>6, <2>1, <2>2
<1>10. different \subseteq Nat
  BY <1>8
<1> HIDE DEF different
<1>11. (CHOOSE k \in different : \A j \in different : k <= j) = i
  <2>1. \A k \in different : (\A j \in different : k <= j) => k = i
    BY <1>9, <1>10
  <2> QED
    BY <1>9, <2>1
<1> QED
  BY <1>7, <1>9, <1>11 DEF s, t

\* A pair of a plan: a table with its twin, if it has another.
PairOf(t) == IF twin(t).id = t THEN <<t>> ELSE <<t, twin(t).id>>

\* A plan of tables consists of such pairs.
LEMMA PlanPairs ==
  ASSUME NEW S, \A t \in S : IsTable(t), NEW p \in GenerationPlan(S)
  PROVE  IsTable(p[1]) /\ p = PairOf(p[1])
<1>1. PICK t \in S : p = LET other == twin(t).id
                         IN IF t = other THEN <<t>>
                            ELSE IF Before(t, other) THEN <<t, other>> ELSE <<other, t>>
  BY DEF GenerationPlan
<1>2. IsTable(t) /\ IsTable(twin(t).id) /\ twin(twin(t).id).id = t
  BY TwinTwice
<1>3. CASE p = <<t>> /\ twin(t).id = t
  BY <1>2, <1>3 DEF PairOf
<1>4. CASE p = <<t, twin(t).id>> /\ twin(t).id # t
  BY <1>2, <1>4 DEF PairOf
<1>5. CASE p = <<twin(t).id, t>> /\ twin(t).id # t
  BY <1>2, <1>5 DEF PairOf
<1> QED
  BY <1>1, <1>3, <1>4, <1>5

\* It has finitely many.
LEMMA PlanFinite ==
  ASSUME NEW S, \A t \in S : IsTable(t)
  PROVE  IsFiniteSet(GenerationPlan(S))
<1> DEFINE paired(t) == LET other == twin(t).id
                        IN IF t = other THEN <<t>>
                           ELSE IF Before(t, other) THEN <<t, other>> ELSE <<other, t>>
           h == [t \in S |-> paired(t)]
<1>1. IsFiniteSet(S)
  BY TablesFinite
<1>2. h = [t \in S |-> h[t]] /\ \A t \in S : h[t] = paired(t)
  OBVIOUS
<1>3. GenerationPlan(S) = {paired(t) : t \in S}
  BY DEF GenerationPlan
<1>4. IsFiniteSet({h[t] : t \in S})
  <2> HIDE DEF h
  <2> QED
    BY <1>1, <1>2, ValuesFinite
<1> HIDE DEF h, paired
<1> QED
  BY <1>2, <1>3, <1>4

\* A table's twin has as many pieces and pawns.
LEMMA TwinCounts ==
  ASSUME NEW name, IsTable(name)
  PROVE  n_pieces(twin(name).id) = n_pieces(name) /\ n_pawns(twin(name).id) = n_pawns(name)
<1>1. PICK files \in Layout : \E men \in Armies : TableOf(name, files, men)
  BY DEF IsTable
<1>2. PICK men \in Armies : TableOf(name, files, men)
  BY <1>1
<1> DEFINE key == canonicalized(TwinKey(files)).files
<1>3. TableOf(twin(name).id, key, Exchanged(men))
  BY <1>2, TwinIs
<1>4. PawnTotal(key) = PawnTotal(files) /\ PieceTotal(key, Exchanged(men)) = PieceTotal(files, men)
  BY SeenIs
<1> HIDE DEF key
<1> QED
  BY <1>2, <1>3, <1>4, TableParsed

\* Both tables of a pair are tables, each other's twins and as large.
LEMMA PairMembers ==
  ASSUME NEW t, IsTable(t), NEW table \in Range(PairOf(t))
  PROVE  /\ IsTable(table) /\ twin(table).id \in Range(PairOf(t))
         /\ n_pieces(table) = n_pieces(t) /\ n_pawns(table) = n_pawns(t)
<1>1. IsTable(twin(t).id) /\ twin(twin(t).id).id = t
  BY TwinTwice
<1>2. Range(PairOf(t)) = {t, twin(t).id}
  BY DEF PairOf, Range
<1> QED
  BY <1>1, <1>2, TwinCounts

\* A table's conversions are in pairs that come before its own, and different pairs
\* have different keys.
LEMMA PairsInOrder ==
  ASSUME NEW t, IsTable(t), NEW u, IsTable(u)
  PROVE  /\ TableKey(t) = TableKey(u) /\ ElementsKey(t) = ElementsKey(u) => PairOf(t) = PairOf(u)
         /\ \A table \in Range(PairOf(t)) : \A d \in ConversionsOf(table) :
              d \in Range(PairOf(u)) => Before(u, t)
<1>1. TableKey(t) = TableKey(u) /\ ElementsKey(t) = ElementsKey(u) => t = u
  BY KeysTell
<1>2. ASSUME NEW table \in Range(PairOf(t)), NEW d \in ConversionsOf(table),
             d \in Range(PairOf(u))
      PROVE  Before(u, t)
  <2>1. IsTable(table) /\ n_pieces(table) = n_pieces(t) /\ n_pawns(table) = n_pawns(t)
    BY PairMembers
  <2>2. n_pieces(d) = n_pieces(u) /\ n_pawns(d) = n_pawns(u)
    BY <1>2, PairMembers
  <2>3. Smaller(d, table)
    BY <2>1, ConversionsSmaller
  <2>4. Smaller(u, t)
    BY <2>1, <2>2, <2>3 DEF Smaller
  <2> QED
    BY <2>4, SmallerPrecedes DEF Before
<1> QED
  BY <1>1, <1>2

-------------------------------------------------------------------------------
(* Words spelled by pawns on places.                                        *)

\* What is left of a word without a letter, and with one more.
LEMMA LettersChange ==
  ASSUME NEW w \in Seq(Sides), NEW e \in Sides
  PROVE  /\ \A i \in 1 .. Len(w) :
              /\ RemoveAt(w, i) \in Seq(Sides) /\ Len(RemoveAt(w, i)) = Len(w) - 1
              /\ \A k \in 1 .. i - 1 : RemoveAt(w, i)[k] = w[k]
              /\ \A k \in i + 1 .. Len(w) : RemoveAt(w, i)[k - 1] = w[k]
         /\ \A i \in 1 .. Len(w) + 1 :
              /\ InsertAt(w, i, e) \in Seq(Sides) /\ Len(InsertAt(w, i, e)) = Len(w) + 1
              /\ InsertAt(w, i, e)[i] = e
              /\ \A k \in 1 .. i - 1 : InsertAt(w, i, e)[k] = w[k]
              /\ \A k \in i .. Len(w) : InsertAt(w, i, e)[k + 1] = w[k]
<1>1. Len(w) \in Nat
  OBVIOUS
<1>2. ASSUME NEW i \in 1 .. Len(w)
      PROVE  /\ RemoveAt(w, i) \in Seq(Sides) /\ Len(RemoveAt(w, i)) = Len(w) - 1
             /\ \A k \in 1 .. i - 1 : RemoveAt(w, i)[k] = w[k]
             /\ \A k \in i + 1 .. Len(w) : RemoveAt(w, i)[k - 1] = w[k]
  <2> DEFINE a == SubSeq(w, 1, i - 1)
             b == SubSeq(w, i + 1, Len(w))
  <2>1. i \in Nat /\ i >= 1 /\ i <= Len(w)
    BY <1>1
  <2>2. /\ a \in Seq(Sides) /\ Len(a) = i - 1 /\ \A k \in 1 .. i - 1 : a[k] = w[k]
        /\ b \in Seq(Sides) /\ Len(b) = Len(w) - i
        /\ \A k \in 1 .. Len(w) - i : b[k] = w[i + k]
    BY <1>1, <2>1
  <2>3. RemoveAt(w, i) = a \o b
    BY DEF RemoveAt
  <2> HIDE DEF a, b
  <2>4. /\ a \o b \in Seq(Sides) /\ Len(a \o b) = Len(a) + Len(b)
        /\ \A k \in 1 .. Len(a) + Len(b) :
             (a \o b)[k] = IF k <= Len(a) THEN a[k] ELSE b[k - Len(a)]
    BY <2>2, ConcatProperties
  <2>5. \A k \in 1 .. i - 1 : (a \o b)[k] = w[k]
    BY <1>1, <2>1, <2>2, <2>4
  <2>6. ASSUME NEW k \in i + 1 .. Len(w) PROVE (a \o b)[k - 1] = w[k]
    <3>1. /\ k - 1 \in 1 .. Len(a) + Len(b) /\ ~ (k - 1 <= Len(a))
          /\ k - 1 - Len(a) = k - i /\ k - i \in 1 .. Len(w) - i /\ i + (k - i) = k
      BY <1>1, <2>1, <2>2
    <3>2. (a \o b)[k - 1] = b[k - i] /\ b[k - i] = w[k]
      BY <3>1, <2>2, <2>4
    <3> QED
      BY <3>2
  <2>7. Len(a) + Len(b) = Len(w) - 1
    BY <1>1, <2>1, <2>2
  <2>8. /\ a \o b \in Seq(Sides) /\ Len(a \o b) = Len(w) - 1
        /\ \A k \in 1 .. i - 1 : (a \o b)[k] = w[k]
        /\ \A k \in i + 1 .. Len(w) : (a \o b)[k - 1] = w[k]
    BY <2>4, <2>5, <2>6, <2>7
  <2> QED
    BY <2>3, <2>8
<1>3. ASSUME NEW i \in 1 .. Len(w) + 1
      PROVE  /\ InsertAt(w, i, e) \in Seq(Sides) /\ Len(InsertAt(w, i, e)) = Len(w) + 1
             /\ InsertAt(w, i, e)[i] = e
             /\ \A k \in 1 .. i - 1 : InsertAt(w, i, e)[k] = w[k]
             /\ \A k \in i .. Len(w) : InsertAt(w, i, e)[k + 1] = w[k]
  <2> DEFINE a == SubSeq(w, 1, i - 1)
             b == SubSeq(w, i, Len(w))
             c == <<e>>
             m == a \o c
  <2>1. i \in Nat /\ i >= 1 /\ i <= Len(w) + 1
    BY <1>1
  <2>2. /\ a \in Seq(Sides) /\ Len(a) = i - 1 /\ \A k \in 1 .. i - 1 : a[k] = w[k]
        /\ b \in Seq(Sides) /\ Len(b) = Len(w) + 1 - i
        /\ \A k \in 1 .. Len(w) + 1 - i : b[k] = w[i + k - 1]
        /\ c \in Seq(Sides) /\ Len(c) = 1 /\ c[1] = e
    BY <1>1, <2>1
  <2>3. InsertAt(w, i, e) = m \o b
    BY DEF InsertAt
  <2> HIDE DEF a, b, c
  <2>4. /\ m \in Seq(Sides) /\ Len(m) = Len(a) + Len(c)
        /\ \A k \in 1 .. Len(a) + Len(c) :
             m[k] = IF k <= Len(a) THEN a[k] ELSE c[k - Len(a)]
    BY <2>2, ConcatProperties
  <2>5. Len(m) = i /\ m[i] = e /\ \A k \in 1 .. i - 1 : m[k] = w[k]
    <3>1. Len(a) + Len(c) = i /\ i - Len(a) = 1 /\ ~ (i <= Len(a)) /\ i \in 1 .. i
      BY <2>1, <2>2
    <3>2. m[i] = c[1]
      BY <3>1, <2>4
    <3>3. \A k \in 1 .. i - 1 : k \in 1 .. i /\ k <= Len(a)
      BY <2>1, <2>2
    <3> HIDE DEF m
    <3> QED
      BY <3>1, <3>2, <3>3, <2>2, <2>4
  <2> HIDE DEF m
  <2>6. /\ m \o b \in Seq(Sides) /\ Len(m \o b) = Len(m) + Len(b)
        /\ \A k \in 1 .. Len(m) + Len(b) :
             (m \o b)[k] = IF k <= Len(m) THEN m[k] ELSE b[k - Len(m)]
    <3>1. m \in Seq(Sides) /\ b \in Seq(Sides)
      BY <2>2, <2>4
    <3> QED
      BY <3>1, ConcatProperties
  <2>7. Len(m) + Len(b) = Len(w) + 1
    BY <1>1, <2>1, <2>2, <2>5
  <2>8. (m \o b)[i] = e /\ \A k \in 1 .. i - 1 : (m \o b)[k] = w[k]
    <3>1. i \in 1 .. Len(w) + 1 /\ i <= Len(m)
      BY <1>1, <2>1, <2>5
    <3>2. \A k \in 1 .. i - 1 : k \in 1 .. Len(w) + 1 /\ k <= Len(m)
      BY <1>1, <2>1, <2>5
    <3> QED
      BY <3>1, <3>2, <2>5, <2>6, <2>7
  <2>9. ASSUME NEW k \in i .. Len(w) PROVE (m \o b)[k + 1] = w[k]
    <3>1. /\ k + 1 \in 1 .. Len(w) + 1 /\ ~ (k + 1 <= Len(m))
          /\ k + 1 - Len(m) = k + 1 - i /\ k + 1 - i \in 1 .. Len(w) + 1 - i
          /\ i + (k + 1 - i) - 1 = k
      BY <1>1, <2>1, <2>5
    <3>2. (m \o b)[k + 1] = b[k + 1 - Len(m)]
      BY <3>1, <2>6, <2>7
    <3>3. b[k + 1 - i] = w[i + (k + 1 - i) - 1]
      BY <3>1, <2>2
    <3> QED
      BY <3>1, <3>2, <3>3
  <2> QED
    BY <2>3, <2>6, <2>7, <2>8, <2>9
<1> QED
  BY <1>2, <1>3

\* A word that a function on places spells out, from the lowest place up.
Spelled(g) == [i \in 1 .. Cardinality(DOMAIN g) |-> g[Nth(DOMAIN g, i)]]

\* Its letters are those on the places.
LEMMA SpelledIs ==
  ASSUME NEW S, NEW n, Within(S, n), NEW g \in [S -> Sides]
  PROVE  /\ Spelled(g) \in Seq(Sides) /\ Len(Spelled(g)) = Cardinality(S)
         /\ Cardinality(S) \in Nat
         /\ \A h \in S : /\ UpTo(S, h) \in 1 .. Cardinality(S)
                         /\ Spelled(g)[UpTo(S, h)] = g[h]
<1>1. DOMAIN g = S /\ Cardinality(S) \in Nat
  BY UpToStep
<1>2. \A k \in 1 .. Cardinality(S) : Nth(S, k) \in S
  BY NthMember
<1>3. Spelled(g) = [i \in 1 .. Cardinality(S) |-> g[Nth(S, i)]]
  BY <1>1 DEF Spelled
<1>4. Spelled(g) \in Seq(Sides) /\ Len(Spelled(g)) = Cardinality(S)
  BY <1>1, <1>2, <1>3
<1>5. \A h \in S : UpTo(S, h) \in 1 .. Cardinality(S) /\ Nth(S, UpTo(S, h)) = h
  BY NthMember
<1> QED
  BY <1>1, <1>3, <1>4, <1>5

\* No other word has them.
LEMMA SpelledOnce ==
  ASSUME NEW S, NEW n, Within(S, n), NEW g \in [S -> Sides],
         NEW w \in Seq(Sides), Len(w) = Cardinality(S), \A h \in S : w[UpTo(S, h)] = g[h]
  PROVE  Spelled(g) = w
<1>1. /\ Spelled(g) \in Seq(Sides) /\ Len(Spelled(g)) = Cardinality(S)
      /\ Cardinality(S) \in Nat
      /\ \A h \in S : Spelled(g)[UpTo(S, h)] = g[h]
  BY SpelledIs
<1>2. \A k \in 1 .. Cardinality(S) : Nth(S, k) \in S /\ UpTo(S, Nth(S, k)) = k
  BY NthMember
<1>3. \A k \in 1 .. Cardinality(S) : Spelled(g)[k] = w[k]
  BY <1>1, <1>2
<1> QED
  BY <1>1, <1>3

\* Without a member a set has as many members up to a number, or one less.
LEMMA UpToLess ==
  ASSUME NEW S, NEW n, Within(S, n), NEW a \in S
  PROVE  /\ Within(S \ {a}, n) /\ Cardinality(S \ {a}) = Cardinality(S) - 1
         /\ \A h \in Nat : UpTo(S \ {a}, h) = UpTo(S, h) - IF a <= h THEN 1 ELSE 0
<1>1. Within(S \ {a}, n)
  BY DEF Within
<1>2. IsFiniteSet(S) /\ Cardinality(S) \in Nat /\ Cardinality(S \ {a}) = Cardinality(S) - 1
  BY UpToStep, FS_RemoveElement
<1>3. ASSUME NEW h \in Nat
      PROVE  UpTo(S \ {a}, h) = UpTo(S, h) - IF a <= h THEN 1 ELSE 0
  <2> DEFINE A == {j \in S : j <= h}
             B == {j \in S \ {a} : j <= h}
  <2>1. IsFiniteSet(A) /\ Cardinality(A) \in Nat
    BY <1>2, FS_Subset, FS_CardinalityType
  <2>2. CASE a <= h
    <3>1. a \in A /\ B = A \ {a}
      BY <2>2
    <3>2. Cardinality(B) = Cardinality(A) - 1
      <4> HIDE DEF A, B
      <4> QED
        BY <2>1, <3>1, FS_RemoveElement
    <3> QED
      BY <2>2, <3>2 DEF UpTo
  <2>3. CASE ~ (a <= h)
    <3>1. B = A
      BY <2>3
    <3>2. UpTo(S \ {a}, h) = Cardinality(B) /\ UpTo(S, h) = Cardinality(A)
      BY DEF UpTo
    <3> HIDE DEF A, B
    <3> QED
      BY <2>1, <2>3, <3>1, <3>2
  <2> QED
    BY <2>2, <2>3
<1> QED
  BY <1>1, <1>2, <1>3

\* A letter is taken away with its place.
LEMMA SpelledShorter ==
  ASSUME NEW S, NEW n, Within(S, n), NEW g \in [S -> Sides], NEW a \in S,
         NEW r \in [S \ {a} -> Sides], \A h \in S \ {a} : r[h] = g[h]
  PROVE  Spelled(r) = RemoveAt(Spelled(g), UpTo(S, a))
<1> DEFINE w == Spelled(g)
           i == UpTo(S, a)
           T == S \ {a}
<1>1. /\ w \in Seq(Sides) /\ Len(w) = Cardinality(S) /\ Cardinality(S) \in Nat
      /\ \A h \in S : UpTo(S, h) \in 1 .. Cardinality(S) /\ w[UpTo(S, h)] = g[h]
  BY SpelledIs
<1>2. /\ Within(T, n) /\ Cardinality(T) = Cardinality(S) - 1
      /\ \A h \in Nat : UpTo(T, h) = UpTo(S, h) - IF a <= h THEN 1 ELSE 0
  BY UpToLess
<1>3. i \in 1 .. Len(w) /\ STM \in Sides
  BY <1>1, SidesAre
<1> DEFINE v == RemoveAt(w, i)
<1>4. /\ v \in Seq(Sides) /\ Len(v) = Len(w) - 1
      /\ \A k \in 1 .. i - 1 : v[k] = w[k]
      /\ \A k \in i + 1 .. Len(w) : v[k - 1] = w[k]
  <2> HIDE DEF w, i
  <2> QED
    BY <1>1, <1>3, LettersChange
<1> HIDE DEF v, w
<1>5. ASSUME NEW h \in T PROVE v[UpTo(T, h)] = r[h]
  <2>1. h \in Nat /\ a \in Nat /\ h \in S /\ h # a
    BY WithinNat
  <2>2. UpTo(S, h) \in Nat /\ i \in Nat
    BY <2>1, UpToStep
  <2>3. CASE h < a
    <3>1. UpTo(S, h) < i
      BY <2>1, <2>3, UpToGrows
    <3>2. UpTo(T, h) = UpTo(S, h)
      BY <1>2, <2>1, <2>2, <2>3
    <3>3. UpTo(S, h) \in 1 .. i - 1
      BY <1>1, <2>1, <2>2, <3>1
    <3> QED
      BY <3>2, <3>3, <1>1, <1>4, <2>1
  <2>4. CASE a < h
    <3>1. i < UpTo(S, h)
      BY <2>1, <2>4, UpToGrows
    <3>2. UpTo(T, h) = UpTo(S, h) - 1
      BY <1>2, <2>1, <2>4
    <3>3. UpTo(S, h) \in i + 1 .. Len(w)
      BY <1>1, <2>1, <2>2, <3>1
    <3> QED
      BY <3>2, <3>3, <1>1, <1>4, <2>1
  <2> QED
    BY <2>1, <2>3, <2>4
<1> HIDE DEF i, T
<1>6. v = Spelled(r)
  <2>1. r \in [T -> Sides] /\ Len(v) = Cardinality(T)
    BY <1>1, <1>2, <1>4 DEF T
  <2> QED
    BY <2>1, <1>2, <1>4, <1>5, SpelledOnce
<1> QED
  BY <1>6 DEF v, w, i

\* A pawn on a free place puts in a letter.
LEMMA SpelledLonger ==
  ASSUME NEW S, NEW n, Within(S, n), NEW g \in [S -> Sides], NEW a \in 1 .. n, a \notin S,
         NEW r \in [S \cup {a} -> Sides], r[a] = STM, \A h \in S : r[h] = g[h]
  PROVE  /\ Cardinality(S) < n /\ UpTo(S, a) + 1 \in 1 .. Cardinality(S) + 1
         /\ Spelled(r) = InsertAt(Spelled(g), UpTo(S, a) + 1, STM)
<1> DEFINE w == Spelled(g)
           i == UpTo(S, a) + 1
           T == S \cup {a}
<1>1. /\ w \in Seq(Sides) /\ Len(w) = Cardinality(S) /\ Cardinality(S) \in Nat
      /\ \A h \in S : UpTo(S, h) \in 1 .. Cardinality(S) /\ w[UpTo(S, h)] = g[h]
  BY SpelledIs
<1>2. n \in Nat /\ a \in Nat /\ Within(T, n) /\ T \ {a} = S /\ a \in T
  BY DEF Within
<1>3. /\ Cardinality(S) = Cardinality(T) - 1 /\ Cardinality(T) \in Nat
      /\ \A h \in Nat : UpTo(S, h) = UpTo(T, h) - IF a <= h THEN 1 ELSE 0
  <2> HIDE DEF T
  <2>1. Within(T, n) /\ a \in T
    BY <1>2
  <2>2. Cardinality(T \ {a}) = Cardinality(T) - 1
    BY <2>1, UpToLess
  <2>3. \A h \in Nat : UpTo(T \ {a}, h) = UpTo(T, h) - IF a <= h THEN 1 ELSE 0
    BY <2>1, UpToLess
  <2>4. Cardinality(T) \in Nat
    BY <2>1, UpToStep
  <2> QED
    BY <1>2, <2>2, <2>3, <2>4
<1>4. \A h \in Nat : UpTo(T, h) \in Nat /\ UpTo(S, h) \in Nat
  <2> HIDE DEF T
  <2> QED
    BY <1>2, UpToStep
<1>5. Cardinality(T) <= n
  <2>1. IsFiniteSet(1 .. n) /\ Cardinality(1 .. n) = n
    <3>1. 1 \in Int /\ n \in Int
      BY <1>2
    <3> QED
      BY <1>2, <3>1, FS_Interval
  <2>2. T \subseteq 1 .. n
    BY <1>2 DEF Within
  <2> HIDE DEF T
  <2>3. Cardinality(T) <= Cardinality(1 .. n)
    BY <2>1, <2>2, FS_Subset
  <2> QED
    BY <2>1, <2>3
<1>6. UpTo(S, a) <= Cardinality(S)
  BY <1>2, UpToGrows
<1>7. i \in 1 .. Len(w) + 1 /\ STM \in Sides
  <2>1. UpTo(S, a) \in Nat
    BY <1>2, <1>4
  <2>2. STM \in Sides
    BY SidesAre
  <2> HIDE DEF w
  <2> QED
    BY <2>1, <2>2, <1>1, <1>6
<1> DEFINE v == InsertAt(w, i, STM)
<1>8. /\ v \in Seq(Sides) /\ Len(v) = Len(w) + 1 /\ v[i] = STM
      /\ \A k \in 1 .. i - 1 : v[k] = w[k]
      /\ \A k \in i .. Len(w) : v[k + 1] = w[k]
  <2> HIDE DEF w, i
  <2>1. w \in Seq(Sides)
    BY <1>1
  <2> QED
    BY <2>1, <1>7, LettersChange
<1>9. UpTo(T, a) = i
  <2>1. UpTo(S, a) = UpTo(T, a) - 1
    BY <1>2, <1>3
  <2> HIDE DEF T
  <2> QED
    BY <2>1, <1>2, <1>4
<1> HIDE DEF v, w
<1>10. ASSUME NEW h \in S PROVE v[UpTo(T, h)] = r[h]
  <2>1. h \in Nat /\ h # a /\ h \in T
    BY WithinNat
  <2>2. UpTo(S, h) \in Nat /\ UpTo(T, h) \in Nat /\ i \in Nat /\ UpTo(T, a) \in Nat
    <3>1. UpTo(S, h) \in Nat /\ UpTo(T, h) \in Nat
      BY <2>1, <1>4
    <3>2. UpTo(S, a) \in Nat /\ UpTo(T, a) \in Nat
      BY <1>2, <1>4
    <3> HIDE DEF T
    <3> QED
      BY <3>1, <3>2
  <2>3. CASE h < a
    <3>1. UpTo(T, h) < UpTo(T, a)
      <4> HIDE DEF T
      <4> QED
        BY <1>2, <2>1, <2>3, UpToGrows
    <3>2. UpTo(T, h) = UpTo(S, h)
      <4>1. UpTo(S, h) = UpTo(T, h) - 0
        BY <1>2, <1>3, <2>1, <2>3
      <4> HIDE DEF T
      <4> QED
        BY <2>2, <4>1
    <3>3. UpTo(S, h) \in 1 .. i - 1
      <4> HIDE DEF T, i
      <4> QED
        BY <1>1, <1>9, <2>2, <3>1, <3>2
    <3> HIDE DEF T, i
    <3> QED
      BY <3>2, <3>3, <1>1, <1>8
  <2>4. CASE a < h
    <3>1. UpTo(T, a) < UpTo(T, h)
      <4> HIDE DEF T
      <4> QED
        BY <1>2, <2>1, <2>4, UpToGrows
    <3>2. UpTo(T, h) = UpTo(S, h) + 1
      <4>1. UpTo(S, h) = UpTo(T, h) - 1
        BY <1>2, <1>3, <2>1, <2>4
      <4> HIDE DEF T
      <4> QED
        BY <2>2, <4>1
    <3>3. UpTo(S, h) \in i .. Len(w)
      <4> HIDE DEF T, i
      <4> QED
        BY <1>1, <1>9, <2>2, <3>1, <3>2
    <3> HIDE DEF T, i
    <3> QED
      BY <3>2, <3>3, <1>1, <1>8
  <2> QED
    BY <1>2, <2>1, <2>3, <2>4
<1> HIDE DEF i
<1>11. \A h \in T : v[UpTo(T, h)] = r[h]
  BY <1>8, <1>9, <1>10
<1> HIDE DEF T
<1>12. v = Spelled(r)
  <2>1. r \in [T -> Sides] /\ Within(T, n)
    BY <1>2 DEF T
  <2>2. v \in Seq(Sides) /\ Len(v) = Cardinality(T)
    BY <1>1, <1>3, <1>8
  <2> QED
    BY <2>1, <2>2, <1>11, SpelledOnce
<1>13. Cardinality(S) < n
  BY <1>1, <1>2, <1>3, <1>5
<1> QED
  BY <1>1, <1>7, <1>12, <1>13 DEF v, w, i

\* A pawn of the mover that steps over free places, or takes a pawn's place, or passes
\* it, stands in its letter.
LEMMA SpelledShifted ==
  ASSUME NEW S, NEW n, Within(S, n), NEW g \in [S -> Sides], NEW a \in S, NEW b \in 1 .. n,
         a <= b, \A h \in S : h <= a \/ h > b,
         NEW r \in [(S \ {a}) \cup {b} -> Sides], r[b] = STM, \A h \in S \ {a} : r[h] = g[h]
  PROVE  Spelled(r) = [Spelled(g) EXCEPT ![UpTo(S, a)] = STM]
<1> DEFINE w == Spelled(g)
           i == UpTo(S, a)
           R == S \ {a}
           T == R \cup {b}
           v == [w EXCEPT ![i] = STM]
<1>1. /\ w \in Seq(Sides) /\ Len(w) = Cardinality(S) /\ Cardinality(S) \in Nat
      /\ \A h \in S : UpTo(S, h) \in 1 .. Cardinality(S) /\ w[UpTo(S, h)] = g[h]
  BY SpelledIs
<1>2. /\ n \in Nat /\ a \in Nat /\ b \in Nat /\ Within(R, n) /\ Within(T, n)
      /\ T \ {b} = R /\ b \in T /\ b \notin R
  <2>1. n \in Nat /\ S \subseteq 1 .. n
    BY DEF Within
  <2>2. a \in Nat /\ b \in Nat
    BY <2>1
  <2>3. b \notin R
    BY <2>1, <2>2
  <2> QED
    BY <2>1, <2>2, <2>3 DEF Within
<1> HIDE DEF T
<1>3. /\ Cardinality(R) = Cardinality(S) - 1
      /\ \A h \in Nat : UpTo(R, h) = UpTo(S, h) - IF a <= h THEN 1 ELSE 0
  BY UpToLess
<1> HIDE DEF R
<1>4. /\ Cardinality(R) = Cardinality(T) - 1 /\ Cardinality(T) \in Nat
      /\ \A h \in Nat : UpTo(R, h) = UpTo(T, h) - IF b <= h THEN 1 ELSE 0
  <2>1. Within(T, n) /\ b \in T
    BY <1>2
  <2>2. Cardinality(T \ {b}) = Cardinality(T) - 1
    BY <2>1, UpToLess
  <2>3. \A h \in Nat : UpTo(T \ {b}, h) = UpTo(T, h) - IF b <= h THEN 1 ELSE 0
    BY <2>1, UpToLess
  <2>4. Cardinality(T) \in Nat
    BY <2>1, UpToStep
  <2> QED
    BY <1>2, <2>2, <2>3, <2>4
<1>5. \A h \in Nat : UpTo(S, h) \in Nat /\ UpTo(T, h) \in Nat
  BY <1>2, UpToStep
<1>6. UpTo(T, b) = i
  <2>1. UpTo(S, b) = i
    <3>1. {j \in S : j <= b} = {j \in S : j <= a}
      <4>1. \A j \in S : j \in Nat
        BY WithinNat
      <4>2. \A j \in S : (j <= b <=> j <= a)
        BY <1>2, <4>1
      <4> QED
        BY <4>2
    <3> QED
      BY <3>1 DEF UpTo
  <2>2. UpTo(R, b) = UpTo(S, b) - 1 /\ UpTo(R, b) = UpTo(T, b) - 1
    BY <1>2, <1>3, <1>4
  <2> HIDE DEF i
  <2> QED
    BY <2>1, <2>2, <1>2, <1>5
<1>7. ASSUME NEW h \in R PROVE UpTo(T, h) = UpTo(S, h) /\ UpTo(S, h) # i /\ h \in S
  <2>1. h \in Nat /\ h \in S /\ h # a /\ (h < a \/ h > b)
    <3>1. h \in S /\ h # a
      BY DEF R
    <3> QED
      BY <3>1, <1>2, WithinNat
  <2>2. (a <= h <=> b <= h)
    BY <2>1, <1>2
  <2>3. UpTo(T, h) = UpTo(S, h)
    <3>1. UpTo(R, h) = UpTo(S, h) - IF a <= h THEN 1 ELSE 0
      BY <2>1, <1>3
    <3>2. UpTo(R, h) = UpTo(T, h) - IF b <= h THEN 1 ELSE 0
      BY <2>1, <1>4
    <3>3. UpTo(S, h) \in Nat /\ UpTo(T, h) \in Nat
      BY <2>1, <1>5
    <3> QED
      BY <3>1, <3>2, <3>3, <2>2
  <2>4. UpTo(S, h) # i
    <3>1. CASE h < a
      BY <3>1, <2>1, <1>2, <1>5, UpToGrows
    <3>2. CASE h > a
      BY <3>2, <2>1, <1>2, <1>5, UpToGrows
    <3> QED
      BY <3>1, <3>2, <2>1, <1>2
  <2> QED
    BY <2>1, <2>3, <2>4
<1>8. i \in 1 .. Len(w) /\ STM \in Sides
  BY <1>1, SidesAre
<1> HIDE DEF w, i
<1>9. /\ v \in Seq(Sides) /\ Len(v) = Len(w) /\ v[i] = STM
      /\ \A k \in 1 .. Len(w) : k # i => v[k] = w[k]
  BY <1>1, <1>8
<1> HIDE DEF v
<1>10. \A h \in T : v[UpTo(T, h)] = r[h]
  <2>1. ASSUME NEW h \in R PROVE v[UpTo(T, h)] = r[h]
    <3>1. UpTo(T, h) = UpTo(S, h) /\ UpTo(S, h) # i /\ h \in S
      BY <1>7
    <3>2. UpTo(S, h) \in 1 .. Len(w) /\ w[UpTo(S, h)] = g[h]
      BY <3>1, <1>1
    <3>3. r[h] = g[h]
      BY DEF R
    <3> QED
      BY <3>1, <3>2, <3>3, <1>9
  <2> QED
    BY <2>1, <1>6, <1>9 DEF T
<1>11. v = Spelled(r)
  <2>1. r \in [T -> Sides]
    BY DEF T, R
  <2>2. Len(v) = Cardinality(T)
    BY <1>1, <1>3, <1>4, <1>9
  <2>3. Within(T, n) /\ v \in Seq(Sides)
    BY <1>2, <1>9
  <2> QED
    BY <2>1, <2>2, <2>3, <1>10, SpelledOnce
<1> QED
  BY <1>11 DEF v, w, i

-------------------------------------------------------------------------------
(* Conversions by files.                                                    *)

\* One file, or two, changed to other words.
Alters(files, left, f, w) ==
  left[f] = w /\ \A h \in 1 .. Files : h # f => left[h] = files[h]
AltersTwo(files, left, f, v, g, w) ==
  /\ f # g /\ left[f] = v /\ left[g] = w
  /\ \A h \in 1 .. Files : h # f /\ h # g => left[h] = files[h]

\* The ways to convert: a man or a pawn is taken, a pawn promotes, taking or not, a pawn
\* takes a pawn or a man on a file beside its own.
LosesMan(files, men, left, kept) ==
  left = files /\ \E role \in Held(men, SNTM) : kept = Lose(men, SNTM, role)
LosesPawn(files, men, left, kept) ==
  /\ kept = men
  /\ \E f \in 1 .. Files : \E i \in DOMAIN files[f] :
       files[f][i] = SNTM /\ Alters(files, left, f, RemoveAt(files[f], i))
Promoted(men, kept, f) ==
  \E new \in ToSet(Roles) :
    \/ kept = Gain(men, STM, new)
    \/ Beside(f) # {} /\ \E role \in Held(men, SNTM) : kept = Gain(Lose(men, SNTM, role), STM, new)
LeavesAsMan(files, men, left, kept) ==
  \E f \in 1 .. Files : \E i \in DOMAIN files[f] :
    /\ i = Len(files[f]) /\ files[f][i] = STM
    /\ Alters(files, left, f, RemoveAt(files[f], i)) /\ Promoted(men, kept, f)
TakesPawn(files, men, left, kept) ==
  /\ kept = men
  /\ \E f \in 1 .. Files : \E i \in DOMAIN files[f] : \E g \in Beside(f) :
       \E j \in DOMAIN files[g] :
         /\ files[f][i] = STM /\ files[g][j] = SNTM
         /\ AltersTwo(files, left, f, RemoveAt(files[f], i), g, [files[g] EXCEPT ![j] = STM])
TakesMan(files, men, left, kept) ==
  /\ \E role \in Held(men, SNTM) : kept = Lose(men, SNTM, role)
  /\ \E f \in 1 .. Files : \E i \in DOMAIN files[f] : \E g \in Beside(f) :
       \E j \in 1 .. Len(files[g]) + 1 :
         /\ files[f][i] = STM /\ Len(files[g]) < Slots
         /\ AltersTwo(files, left, f, RemoveAt(files[f], i), g, InsertAt(files[g], j, STM))
Converts(files, men, left, kept) ==
  \/ LosesMan(files, men, left, kept) \/ LosesPawn(files, men, left, kept)
  \/ LeavesAsMan(files, men, left, kept) \/ TakesPawn(files, men, left, kept)
  \/ TakesMan(files, men, left, kept)

\* The tables these lead to.
ConvertedFrom(files, men) == ManTakes(files, men) \cup Promotes(files, men) \cup PawnTakes(files, men)

\* Changed files are those of the EXCEPT expressions.
LEMMA AlteredIs ==
  ASSUME NEW files \in Layout, NEW left \in Layout, NEW f \in 1 .. Files
  PROVE  /\ \A i : Alters(files, left, f, RemoveAt(files[f], i)) => left = Removed(files, f, i)
         /\ \A i, w : \A g \in 1 .. Files :
              AltersTwo(files, left, f, RemoveAt(files[f], i), g, w)
                => left = Placing(Removed(files, f, i), g, w)
<1>1. files \in [1 .. Files -> Words] /\ left \in [1 .. Files -> Words]
  BY DEF Layout
<1>2. ASSUME NEW i, Alters(files, left, f, RemoveAt(files[f], i))
      PROVE  left = Removed(files, f, i)
  <2> DEFINE v == RemoveAt(files[f], i)
  <2>1. left[f] = v /\ \A h \in 1 .. Files : h # f => left[h] = files[h]
    BY <1>2 DEF Alters
  <2>2. Removed(files, f, i) = [files EXCEPT ![f] = v]
    BY DEF Removed
  <2> HIDE DEF v
  <2> QED
    BY <1>1, <2>1, <2>2
<1>3. ASSUME NEW i, NEW w, NEW g \in 1 .. Files,
             AltersTwo(files, left, f, RemoveAt(files[f], i), g, w)
      PROVE  left = Placing(Removed(files, f, i), g, w)
  <2> DEFINE v == RemoveAt(files[f], i)
  <2>1. /\ f # g /\ left[f] = v /\ left[g] = w
        /\ \A h \in 1 .. Files : h # f /\ h # g => left[h] = files[h]
    BY <1>3 DEF AltersTwo
  <2>2. Removed(files, f, i) = [files EXCEPT ![f] = v]
    BY DEF Removed
  <2> HIDE DEF v
  <2>3. left = [[files EXCEPT ![f] = v] EXCEPT ![g] = w]
    BY <1>1, <2>1
  <2> QED
    BY <2>2, <2>3 DEF Placing
<1> QED
  BY <1>2, <1>3

\* They are conversions as Conversions lists them.
LEMMA ConvertsTo ==
  ASSUME NEW files \in Layout, NEW left \in Layout, NEW men, NEW kept,
         Converts(files, men, left, kept)
  PROVE  Seen(left, kept) \in ConvertedFrom(files, men)
<1> DEFINE takers == {t \in PawnSlots(files, STM) \X (1 .. Files) : t[2] \in Beside(t[1][1])}
           less(t) == Removed(files, t[1][1], t[1][2])
           taken(t) == {Seen([less(t) EXCEPT ![t[2]][i] = STM], men) :
                          i \in {j \in DOMAIN files[t[2]] : files[t[2]][j] = SNTM}}
           reached == {c \in takers \X (1 .. Slots) \X Held(men, SNTM) :
                         Len(files[c[1][2]]) < Slots /\ c[2] <= Len(files[c[1][2]]) + 1}
           placed(c) == Seen([less(c[1]) EXCEPT ![c[1][2]] = InsertAt(@, c[2], STM)],
                             Lose(men, SNTM, c[3]))
<1>0. /\ \A t \in takers : taken(t) \subseteq PawnTakes(files, men)
      /\ \A c \in reached : placed(c) \in PawnTakes(files, men)
      /\ \A t \in takers, role \in Held(men, SNTM), new \in ToSet(Roles) :
           Seen(less(t), Gain(Lose(men, SNTM, role), STM, new)) \in PawnTakes(files, men)
  <2>1. PawnTakes(files, men) =
          (UNION {taken(t) : t \in takers})
          \cup {placed(c) : c \in reached}
          \cup {Seen(less(t), Gain(Lose(men, SNTM, role), STM, new)) :
                  t \in takers, role \in Held(men, SNTM), new \in ToSet(Roles)}
    BY DEF PawnTakes
  <2> HIDE DEF takers, less, taken, reached, placed
  <2> QED
    BY <2>1
<1>1. /\ Files \in Nat /\ Slots \in Nat /\ STM \in Sides /\ SNTM \in Sides
      /\ \A f \in 1 .. Files : /\ files[f] \in Seq(Sides) /\ Len(files[f]) \in Nat
                               /\ Len(files[f]) <= Slots /\ DOMAIN files[f] = 1 .. Len(files[f])
  BY LayoutWords, SidesAre, NamesAssumption
<1>2. ASSUME NEW side, NEW f \in 1 .. Files, NEW i \in DOMAIN files[f], files[f][i] = side
      PROVE  /\ <<f, i>> \in PawnSlots(files, side) /\ <<f, i>>[1] = f /\ <<f, i>>[2] = i
             /\ i \in 1 .. Slots
  <2>1. i \in 1 .. Slots
    BY <1>1
  <2> QED
    BY <1>2, <2>1 DEF PawnSlots
<1>3. CASE LosesMan(files, men, left, kept)
  BY <1>3 DEF LosesMan, ConvertedFrom, ManTakes
<1>4. CASE LosesPawn(files, men, left, kept)
  <2>1. PICK f \in 1 .. Files : \E i \in DOMAIN files[f] :
               /\ files[f][i] = SNTM /\ Alters(files, left, f, RemoveAt(files[f], i))
               /\ kept = men
    BY <1>4 DEF LosesPawn
  <2>2. PICK i \in DOMAIN files[f] :
               /\ files[f][i] = SNTM /\ Alters(files, left, f, RemoveAt(files[f], i))
               /\ kept = men
    BY <2>1
  <2>3. left = Removed(files, f, i)
    BY <2>2, AlteredIs
  <2> DEFINE p == <<f, i>>
  <2>4. p \in PawnSlots(files, SNTM) /\ Seen(left, kept) = Seen(Removed(files, p[1], p[2]), men)
    BY <1>2, <2>2, <2>3
  <2> HIDE DEF p
  <2>5. Seen(left, kept) \in ManTakes(files, men)
    BY <2>4 DEF ManTakes
  <2> QED
    BY <2>5 DEF ConvertedFrom
<1>5. CASE LeavesAsMan(files, men, left, kept)
  <2>1. PICK f \in 1 .. Files : \E i \in DOMAIN files[f] :
               /\ i = Len(files[f]) /\ files[f][i] = STM
               /\ Alters(files, left, f, RemoveAt(files[f], i)) /\ Promoted(men, kept, f)
    BY <1>5 DEF LeavesAsMan
  <2>2. PICK i \in DOMAIN files[f] :
               /\ i = Len(files[f]) /\ files[f][i] = STM
               /\ Alters(files, left, f, RemoveAt(files[f], i)) /\ Promoted(men, kept, f)
    BY <2>1
  <2>3. left = Removed(files, f, i)
    BY <2>2, AlteredIs
  <2> DEFINE p == <<f, i>>
  <2>4. p \in PawnSlots(files, STM) /\ p[1] = f /\ p[2] = i /\ p[2] = Len(files[p[1]])
    BY <1>2, <2>2
  <2> HIDE DEF p
  <2>5. PICK new \in ToSet(Roles) :
          \/ kept = Gain(men, STM, new)
          \/ Beside(f) # {} /\ \E role \in Held(men, SNTM) :
                                 kept = Gain(Lose(men, SNTM, role), STM, new)
    BY <2>2 DEF Promoted
  <2>6. CASE kept = Gain(men, STM, new)
    <3>1. Seen(left, kept) = Seen(Removed(files, p[1], p[2]), Gain(men, STM, new))
      BY <2>3, <2>4, <2>6
    <3>2. Seen(left, kept) \in Promotes(files, men)
      BY <3>1, <2>4 DEF Promotes
    <3> QED
      BY <3>2 DEF ConvertedFrom
  <2>7. CASE Beside(f) # {} /\ \E role \in Held(men, SNTM) :
                                 kept = Gain(Lose(men, SNTM, role), STM, new)
    <3>1. PICK role \in Held(men, SNTM) : kept = Gain(Lose(men, SNTM, role), STM, new)
      BY <2>7
    <3>2. PICK g \in Beside(f) : TRUE
      BY <2>7
    <3> DEFINE t == <<p, g>>
    <3>3. t \in takers /\ t[1] = p
      <4>1. g \in 1 .. Files /\ g \in Beside(p[1])
        BY <2>4 DEF Beside
      <4> QED
        BY <4>1, <2>4
    <3>4. left = less(t)
      BY <2>3, <2>4, <3>3
    <3> HIDE DEF t, takers, less
    <3>5. Seen(left, kept) \in PawnTakes(files, men)
      BY <1>0, <2>5, <3>1, <3>3, <3>4
    <3> QED
      BY <3>5 DEF ConvertedFrom
  <2> QED
    BY <2>5, <2>6, <2>7
<1>6. CASE TakesPawn(files, men, left, kept)
  <2>1. PICK f \in 1 .. Files : \E i \in DOMAIN files[f] : \E g \in Beside(f) :
               \E j \in DOMAIN files[g] :
                 /\ files[f][i] = STM /\ files[g][j] = SNTM /\ kept = men
                 /\ AltersTwo(files, left, f, RemoveAt(files[f], i),
                              g, [files[g] EXCEPT ![j] = STM])
    BY <1>6 DEF TakesPawn
  <2>2. PICK i \in DOMAIN files[f], g \in Beside(f) :
               \E j \in DOMAIN files[g] :
                 /\ files[f][i] = STM /\ files[g][j] = SNTM /\ kept = men
                 /\ AltersTwo(files, left, f, RemoveAt(files[f], i),
                              g, [files[g] EXCEPT ![j] = STM])
    BY <2>1
  <2>3. PICK j \in DOMAIN files[g] :
                 /\ files[f][i] = STM /\ files[g][j] = SNTM /\ kept = men
                 /\ AltersTwo(files, left, f, RemoveAt(files[f], i),
                              g, [files[g] EXCEPT ![j] = STM])
    BY <2>2
  <2>4. g \in 1 .. Files /\ g # f
    BY <2>3 DEF Beside, AltersTwo
  <2>5. left = Placing(Removed(files, f, i), g, [files[g] EXCEPT ![j] = STM])
    BY <2>3, <2>4, AlteredIs
  <2> DEFINE p == <<f, i>>
             t == <<p, g>>
  <2>6. p \in PawnSlots(files, STM) /\ p[1] = f /\ p[2] = i
    BY <1>2, <2>3
  <2>7. t \in takers /\ t[1][1] = f /\ t[1][2] = i /\ t[2] = g
    BY <2>4, <2>6
  <2> HIDE DEF p, t
  <2>8. Removed(files, f, i)[g] = files[g] /\ Removed(files, f, i) \in Layout
    BY <2>4, <2>6, PawnRemoved
  <2>9. left = [Removed(files, f, i) EXCEPT ![g][j] = STM]
    BY <2>5, <2>8 DEF Placing
  <2>10. /\ j \in {k \in DOMAIN files[t[2]] : files[t[2]][k] = SNTM}
         /\ Seen(left, kept) = Seen([Removed(files, t[1][1], t[1][2]) EXCEPT ![t[2]][j] = STM], men)
    BY <2>3, <2>7, <2>9
  <2>11. Seen(left, kept) \in taken(t)
    BY <2>10
  <2> HIDE DEF takers, taken
  <2> QED
    BY <1>0, <2>7, <2>11 DEF ConvertedFrom
<1>7. CASE TakesMan(files, men, left, kept)
  <2>1. PICK role \in Held(men, SNTM) : kept = Lose(men, SNTM, role)
    BY <1>7 DEF TakesMan
  <2>2. PICK f \in 1 .. Files : \E i \in DOMAIN files[f] : \E g \in Beside(f) :
               \E j \in 1 .. Len(files[g]) + 1 :
                 /\ files[f][i] = STM /\ Len(files[g]) < Slots
                 /\ AltersTwo(files, left, f, RemoveAt(files[f], i), g, InsertAt(files[g], j, STM))
    BY <1>7 DEF TakesMan
  <2>3. PICK i \in DOMAIN files[f], g \in Beside(f) :
               \E j \in 1 .. Len(files[g]) + 1 :
                 /\ files[f][i] = STM /\ Len(files[g]) < Slots
                 /\ AltersTwo(files, left, f, RemoveAt(files[f], i), g, InsertAt(files[g], j, STM))
    BY <2>2
  <2>4. PICK j \in 1 .. Len(files[g]) + 1 :
                 /\ files[f][i] = STM /\ Len(files[g]) < Slots
                 /\ AltersTwo(files, left, f, RemoveAt(files[f], i), g, InsertAt(files[g], j, STM))
    BY <2>3
  <2>5. g \in 1 .. Files /\ g # f
    BY <2>4 DEF Beside, AltersTwo
  <2>6. left = Placing(Removed(files, f, i), g, InsertAt(files[g], j, STM))
    BY <2>4, <2>5, AlteredIs
  <2> DEFINE p == <<f, i>>
             t == <<p, g>>
             c == <<t, j, role>>
  <2>7. p \in PawnSlots(files, STM) /\ p[1] = f /\ p[2] = i
    BY <1>2, <2>4
  <2>8. t \in takers /\ t[1][1] = f /\ t[1][2] = i /\ t[2] = g
    BY <2>5, <2>7
  <2> HIDE DEF p, t
  <2>9. Removed(files, f, i)[g] = files[g] /\ Removed(files, f, i) \in Layout
    BY <2>5, <2>7, PawnRemoved
  <2>10. left = [Removed(files, f, i) EXCEPT ![g] = InsertAt(@, j, STM)]
    BY <2>6, <2>9 DEF Placing
  <2>11. j \in 1 .. Slots /\ j <= Len(files[g]) + 1
    BY <1>1, <2>4, <2>5
  <2>12. c[1] = t /\ c[2] = j /\ c[3] = role
    OBVIOUS
  <2>13. c \in reached
    BY <2>1, <2>4, <2>8, <2>11, <2>12
  <2>14. Seen(left, kept) = placed(c)
    BY <2>1, <2>8, <2>10, <2>12
  <2> HIDE DEF c, reached, placed
  <2>15. Seen(left, kept) \in PawnTakes(files, men)
    BY <1>0, <2>13, <2>14
  <2> QED
    BY <2>15 DEF ConvertedFrom
<1> QED
  BY <1>3, <1>4, <1>5, <1>6, <1>7 DEF Converts

\* The file that another one is on the reflection.
Opposite(f) == Files + 1 - f

\* Files are exchanged two by two.
LEMMA OppositeIs ==
  ASSUME NEW f \in 1 .. Files
  PROVE  /\ Opposite(f) \in 1 .. Files /\ Opposite(Opposite(f)) = f
         /\ \A h \in 1 .. Files : Opposite(h) = f <=> h = Opposite(f)
         /\ \A g \in Beside(f) : g \in 1 .. Files /\ Opposite(g) \in Beside(Opposite(f))
         /\ \A files \in Layout : /\ Reverse(files)[Opposite(f)] = files[f]
                                  /\ Reverse(files)[f] = files[Opposite(f)]
<1>1. Files \in Nat
  BY NamesAssumption
<1>2. Opposite(f) \in 1 .. Files /\ Opposite(Opposite(f)) = f
  BY <1>1 DEF Opposite
<1>3. \A h \in 1 .. Files : Opposite(h) = f <=> h = Opposite(f)
  BY <1>1 DEF Opposite
<1>4. ASSUME NEW g \in Beside(f) PROVE g \in 1 .. Files /\ Opposite(g) \in Beside(Opposite(f))
  <2>1. g \in 1 .. Files /\ (g = f - 1 \/ g = f + 1)
    BY DEF Beside
  <2>2. Opposite(g) \in 1 .. Files
    BY <1>1, <2>1 DEF Opposite
  <2>3. Opposite(g) = Opposite(f) + 1 \/ Opposite(g) = Opposite(f) - 1
    BY <1>1, <2>1 DEF Opposite
  <2> QED
    BY <2>1, <2>2, <2>3 DEF Beside
<1>5. ASSUME NEW files \in Layout
      PROVE  Reverse(files)[Opposite(f)] = files[f] /\ Reverse(files)[f] = files[Opposite(f)]
  <2>1. \A h \in 1 .. Files : Reverse(files)[h] = files[Opposite(h)]
    BY ReflectedLayout DEF Opposite
  <2> QED
    BY <1>2, <2>1
<1> QED
  BY <1>2, <1>3, <1>4, <1>5

\* Reflected layouts differ on the reflected files.
LEMMA AltersReflected ==
  ASSUME NEW files \in Layout, NEW left \in Layout, NEW f \in 1 .. Files
  PROVE  /\ \A w : Alters(files, left, f, w)
                     => Alters(Reverse(files), Reverse(left), Opposite(f), w)
         /\ \A v, w : \A g \in 1 .. Files :
              AltersTwo(files, left, f, v, g, w)
                => AltersTwo(Reverse(files), Reverse(left), Opposite(f), v, Opposite(g), w)
<1>1. \A h \in 1 .. Files :
        /\ Opposite(h) \in 1 .. Files /\ Opposite(Opposite(h)) = h
        /\ Reverse(files)[h] = files[Opposite(h)] /\ Reverse(left)[h] = left[Opposite(h)]
  BY OppositeIs
<1>2. ASSUME NEW w, Alters(files, left, f, w)
      PROVE  Alters(Reverse(files), Reverse(left), Opposite(f), w)
  BY <1>1, <1>2 DEF Alters
<1>3. ASSUME NEW v, NEW w, NEW g \in 1 .. Files, AltersTwo(files, left, f, v, g, w)
      PROVE  AltersTwo(Reverse(files), Reverse(left), Opposite(f), v, Opposite(g), w)
  <2>1. /\ f # g /\ left[f] = v /\ left[g] = w
        /\ \A h \in 1 .. Files : h # f /\ h # g => left[h] = files[h]
    BY <1>3 DEF AltersTwo
  <2>2. /\ Opposite(f) # Opposite(g)
        /\ Reverse(left)[Opposite(f)] = v /\ Reverse(left)[Opposite(g)] = w
    BY <1>1, <2>1
  <2>3. ASSUME NEW h \in 1 .. Files, h # Opposite(f), h # Opposite(g)
        PROVE  Reverse(left)[h] = Reverse(files)[h]
    BY <1>1, <2>1, <2>3
  <2> QED
    BY <2>2, <2>3 DEF AltersTwo
<1> QED
  BY <1>2, <1>3

\* What converts a layout converts its reflection.
LEMMA ConvertsReflected ==
  ASSUME NEW files \in Layout, NEW left \in Layout, NEW men, NEW kept,
         Converts(files, men, left, kept)
  PROVE  Converts(Reverse(files), men, Reverse(left), kept)
<1> DEFINE others == Reverse(files)
           after == Reverse(left)
<1>1. \A f \in 1 .. Files :
        /\ Opposite(f) \in 1 .. Files /\ others[Opposite(f)] = files[f]
        /\ \A g \in Beside(f) : g \in 1 .. Files /\ Opposite(g) \in Beside(Opposite(f))
  BY OppositeIs
<1>2. \A f \in 1 .. Files :
        /\ \A w : Alters(files, left, f, w) => Alters(others, after, Opposite(f), w)
        /\ \A v, w : \A g \in 1 .. Files :
             AltersTwo(files, left, f, v, g, w)
               => AltersTwo(others, after, Opposite(f), v, Opposite(g), w)
  BY AltersReflected
<1> HIDE DEF others, after
<1>3. CASE LosesMan(files, men, left, kept)
  BY <1>3 DEF LosesMan, Converts, others, after
<1>4. CASE LosesPawn(files, men, left, kept)
  <2>1. PICK f \in 1 .. Files : \E i \in DOMAIN files[f] :
               /\ files[f][i] = SNTM /\ Alters(files, left, f, RemoveAt(files[f], i))
               /\ kept = men
    BY <1>4 DEF LosesPawn
  <2>2. PICK i \in DOMAIN files[f] :
               /\ files[f][i] = SNTM /\ Alters(files, left, f, RemoveAt(files[f], i))
               /\ kept = men
    BY <2>1
  <2> DEFINE o == Opposite(f)
  <2>3. /\ o \in 1 .. Files /\ others[o] = files[f]
        /\ Alters(others, after, o, RemoveAt(others[o], i))
    BY <1>1, <1>2, <2>2
  <2> HIDE DEF o
  <2>4. LosesPawn(others, men, after, kept)
    BY <2>2, <2>3 DEF LosesPawn
  <2> QED
    BY <2>4 DEF Converts, others, after
<1>5. CASE LeavesAsMan(files, men, left, kept)
  <2>1. PICK f \in 1 .. Files : \E i \in DOMAIN files[f] :
               /\ i = Len(files[f]) /\ files[f][i] = STM
               /\ Alters(files, left, f, RemoveAt(files[f], i)) /\ Promoted(men, kept, f)
    BY <1>5 DEF LeavesAsMan
  <2>2. PICK i \in DOMAIN files[f] :
               /\ i = Len(files[f]) /\ files[f][i] = STM
               /\ Alters(files, left, f, RemoveAt(files[f], i)) /\ Promoted(men, kept, f)
    BY <2>1
  <2> DEFINE o == Opposite(f)
  <2>3. /\ o \in 1 .. Files /\ others[o] = files[f]
        /\ Alters(others, after, o, RemoveAt(others[o], i))
        /\ Beside(f) # {} => Beside(o) # {}
    <3>1. Beside(f) # {} => Beside(o) # {}
      BY <1>1
    <3> QED
      BY <3>1, <1>1, <1>2, <2>2
  <2> HIDE DEF o
  <2>4. Promoted(men, kept, o)
    BY <2>2, <2>3 DEF Promoted
  <2>5. LeavesAsMan(others, men, after, kept)
    BY <2>2, <2>3, <2>4 DEF LeavesAsMan
  <2> QED
    BY <2>5 DEF Converts, others, after
<1>6. CASE TakesPawn(files, men, left, kept)
  <2>1. PICK f \in 1 .. Files : \E i \in DOMAIN files[f] : \E g \in Beside(f) :
               \E j \in DOMAIN files[g] :
                 /\ files[f][i] = STM /\ files[g][j] = SNTM /\ kept = men
                 /\ AltersTwo(files, left, f, RemoveAt(files[f], i),
                              g, [files[g] EXCEPT ![j] = STM])
    BY <1>6 DEF TakesPawn
  <2>2. PICK i \in DOMAIN files[f], g \in Beside(f) :
               \E j \in DOMAIN files[g] :
                 /\ files[f][i] = STM /\ files[g][j] = SNTM /\ kept = men
                 /\ AltersTwo(files, left, f, RemoveAt(files[f], i),
                              g, [files[g] EXCEPT ![j] = STM])
    BY <2>1
  <2>3. PICK j \in DOMAIN files[g] :
                 /\ files[f][i] = STM /\ files[g][j] = SNTM /\ kept = men
                 /\ AltersTwo(files, left, f, RemoveAt(files[f], i),
                              g, [files[g] EXCEPT ![j] = STM])
    BY <2>2
  <2> DEFINE o == Opposite(f)
             p == Opposite(g)
  <2>4. /\ o \in 1 .. Files /\ others[o] = files[f] /\ others[p] = files[g] /\ p \in Beside(o)
        /\ g \in 1 .. Files
    BY <1>1
  <2>5. AltersTwo(others, after, o, RemoveAt(others[o], i), p, [others[p] EXCEPT ![j] = STM])
    BY <1>2, <2>3, <2>4
  <2> HIDE DEF o, p
  <2>6. TakesPawn(others, men, after, kept)
    BY <2>3, <2>4, <2>5 DEF TakesPawn
  <2> QED
    BY <2>6 DEF Converts, others, after
<1>7. CASE TakesMan(files, men, left, kept)
  <2>1. PICK f \in 1 .. Files : \E i \in DOMAIN files[f] : \E g \in Beside(f) :
               \E j \in 1 .. Len(files[g]) + 1 :
                 /\ files[f][i] = STM /\ Len(files[g]) < Slots
                 /\ AltersTwo(files, left, f, RemoveAt(files[f], i), g, InsertAt(files[g], j, STM))
    BY <1>7 DEF TakesMan
  <2>2. PICK i \in DOMAIN files[f], g \in Beside(f) :
               \E j \in 1 .. Len(files[g]) + 1 :
                 /\ files[f][i] = STM /\ Len(files[g]) < Slots
                 /\ AltersTwo(files, left, f, RemoveAt(files[f], i), g, InsertAt(files[g], j, STM))
    BY <2>1
  <2>3. PICK j \in 1 .. Len(files[g]) + 1 :
                 /\ files[f][i] = STM /\ Len(files[g]) < Slots
                 /\ AltersTwo(files, left, f, RemoveAt(files[f], i), g, InsertAt(files[g], j, STM))
    BY <2>2
  <2> DEFINE o == Opposite(f)
             p == Opposite(g)
  <2>4. /\ o \in 1 .. Files /\ others[o] = files[f] /\ others[p] = files[g] /\ p \in Beside(o)
        /\ g \in 1 .. Files
    BY <1>1
  <2>5. AltersTwo(others, after, o, RemoveAt(others[o], i), p, InsertAt(others[p], j, STM))
    BY <1>2, <2>3, <2>4
  <2>6. \E role \in Held(men, SNTM) : kept = Lose(men, SNTM, role)
    BY <1>7 DEF TakesMan
  <2> HIDE DEF o, p
  <2>7. TakesMan(others, men, after, kept)
    BY <2>3, <2>4, <2>5, <2>6 DEF TakesMan
  <2> QED
    BY <2>7 DEF Converts, others, after
<1> QED
  BY <1>3, <1>4, <1>5, <1>6, <1>7 DEF Converts

\* A layout and its reflection are seen as one table, and are converted to the same.
LEMMA ConvertsEither ==
  ASSUME NEW files \in Layout, NEW left \in Layout, NEW men, NEW kept,
         Converts(files, men, left, kept), NEW other \in {files, Reverse(files)}
  PROVE  Seen(left, kept) \in ConvertedFrom(other, men)
<1>1. Reverse(files) \in Layout /\ Reverse(left) \in Layout
  BY ReflectedLayout
<1>2. Seen(Reverse(left), kept) = Seen(left, kept)
  <2>1. TwinKey(Reverse(left)) = Reverse(TwinKey(left)) /\ TwinKey(left) \in Layout
    BY TwinKeyTwice, TwinKeyIs
  <2>2. canonicalized(TwinKey(left)).files = canonicalized(Reverse(TwinKey(left))).files
    BY <2>1, CanonicalOrientation
  <2> QED
    BY <2>1, <2>2 DEF Seen
<1>3. Seen(left, kept) \in ConvertedFrom(files, men)
  BY ConvertsTo
<1>4. Seen(Reverse(left), kept) \in ConvertedFrom(Reverse(files), men)
  <2>1. Converts(Reverse(files), men, Reverse(left), kept)
    BY ConvertsReflected
  <2> QED
    BY <1>1, <2>1, ConvertsTo
<1> QED
  BY <1>2, <1>3, <1>4

\* Seen by the other side, a layout that is canonical or not leads to the twin, and the
\* reflections of both sides make up for each other.
LEMMA SeenByTwin ==
  ASSUME NEW key \in Layout, NEW men \in Armies, NEW name,
         name = format_name(canonicalized(key).files, men),
         PieceTotal(canonicalized(key).files, men) <= MaxPieces
  PROVE  /\ IsTable(name)
         /\ Seen(key, men) = twin(name).id
         /\ canonicalized(TwinKey(key)).reflected
              = (canonicalized(key).reflected # twin(name).reflected)
<1> DEFINE c == canonicalized(key)
           t == TwinKey(key)
<1>1. /\ c.files \in Layout /\ c.files \in {key, Reverse(key)} /\ c.reflected \in BOOLEAN
      /\ canonicalized(c.files).reflected = FALSE
      /\ (c.reflected => c.files = Reverse(key) /\ Reverse(key) # key)
      /\ (~ c.reflected => c.files = key)
  <2>1. canonicalized(key) =
          IF Precedes(Look(Reverse(key)), Look(key))
          THEN [files |-> Reverse(key), reflected |-> TRUE]
          ELSE [files |-> key, reflected |-> FALSE]
    BY CanonicalizedIs
  <2>2. ~ Precedes(Look(key), Look(key))
    BY LookIs, PrecedesOrders
  <2>3. /\ c.files \in Layout /\ c.files \in {key, Reverse(key)}
        /\ canonicalized(c.files) = [files |-> c.files, reflected |-> FALSE]
    BY CanonicalOrientation
  <2>4. canonicalized(c.files).reflected = FALSE
    BY <2>3
  <2> QED
    BY <2>1, <2>2, <2>3, <2>4
<1> HIDE DEF c, t
<1>2. TableOf(name, c.files, men)
  <2>1. validate_elements(Elements(c.files, men))
    <3>1. PieceTotal(c.files, men) <= MaxPieces
      BY DEF c
    <3> QED
      BY <3>1, <1>1, NameCounts
  <2>2. name = format_name(c.files, men)
    BY DEF c
  <2> QED
    BY <1>1, <2>1, <2>2 DEF TableOf
<1>3. /\ TableOf(twin(name).id, canonicalized(TwinKey(c.files)).files, Exchanged(men))
      /\ parse_elements(name).files = c.files
  BY <1>2, TwinIs, TableParsed
<1>4. twin(name).id = format_name(canonicalized(TwinKey(c.files)).files, Exchanged(men))
  BY <1>3 DEF TableOf
<1>5. twin(name).reflected = canonicalized(TwinKey(c.files)).reflected
  BY <1>3 DEF twin
<1>6. t \in Layout /\ TwinKey(Reverse(key)) = Reverse(t)
      /\ (Reverse(t) = t => Reverse(key) = key)
  <2>1. t \in Layout /\ TwinKey(Reverse(key)) = Reverse(t) /\ TwinKey(t) = key
    BY TwinKeyIs, TwinKeyTwice DEF t
  <2>2. TwinKey(Reverse(t)) = Reverse(TwinKey(t))
    BY <2>1, TwinKeyTwice
  <2> QED
    BY <2>1, <2>2
<1>7. /\ canonicalized(t).files = canonicalized(Reverse(t)).files
      /\ canonicalized(Reverse(t)).reflected
           = (IF Reverse(t) = t THEN FALSE ELSE ~ canonicalized(t).reflected)
      /\ canonicalized(t).reflected \in BOOLEAN
  <2>1. canonicalized(t).reflected \in BOOLEAN
    <3>1. canonicalized(t) =
            IF Precedes(Look(Reverse(t)), Look(t))
            THEN [files |-> Reverse(t), reflected |-> TRUE]
            ELSE [files |-> t, reflected |-> FALSE]
      BY <1>6, CanonicalizedIs
    <3> QED
      BY <3>1
  <2> QED
    BY <2>1, <1>6, CanonicalOrientation
<1>8. Seen(key, men) = format_name(canonicalized(t).files, Exchanged(men))
  BY SeenIs DEF t
<1>9. CASE c.reflected
  <2>1. c.files = Reverse(key) /\ Reverse(key) # key
    BY <1>1, <1>9
  <2>2. TwinKey(c.files) = Reverse(t) /\ Reverse(t) # t
    BY <1>6, <2>1
  <2>3. twin(name).reflected = ~ canonicalized(t).reflected
    BY <1>5, <1>7, <2>2
  <2>4. Seen(key, men) = twin(name).id
    BY <1>4, <1>7, <1>8, <2>2
  <2>5. canonicalized(t).reflected = (c.reflected # twin(name).reflected)
    BY <1>1, <1>7, <1>9, <2>3
  <2> QED
    BY <1>1, <1>2, <2>4, <2>5 DEF IsTable, TableOf, c, t
<1>10. CASE ~ c.reflected
  <2>1. TwinKey(c.files) = t
    BY <1>1, <1>10 DEF t
  <2>2. twin(name).reflected = canonicalized(t).reflected
    BY <1>5, <2>1
  <2>3. Seen(key, men) = twin(name).id
    BY <1>4, <1>8, <2>1
  <2>4. canonicalized(t).reflected = (c.reflected # twin(name).reflected)
    BY <1>1, <1>7, <1>10, <2>2
  <2> QED
    BY <1>1, <1>2, <2>3, <2>4 DEF IsTable, TableOf, c, t
<1> QED
  BY <1>1, <1>9, <1>10
===============================================================================
