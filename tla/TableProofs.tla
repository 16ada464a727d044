----------------------------- MODULE TableProofs ------------------------------
(***************************************************************************)
(* Theorems about Routing and Generation: the games that are routed to     *)
(* tables, and the runs that make tables.  A position, its mirror image and*)
(* the position with colours exchanged are looked up in one table; a move  *)
(* leads to the table's twin or to a conversion made before both.  No      *)
(* table is computed from an artifact the run replaces, no stale reader is *)
(* kept, and verification reads what was just made, whatever is held.      *)
(***************************************************************************)
EXTENDS Routing, Generation, NameProofs

-------------------------------------------------------------------------------
(* Keys of positions.                                                       *)

\* Positions up to n, seen from the other end.
Flipped(S, n) == {n + 1 - i : i \in S}

\* They are as many, and up to n again.
LEMMA FlippedIs ==
  ASSUME NEW S, NEW n, Within(S, n)
  PROVE  Within(Flipped(S, n), n) /\ Cardinality(Flipped(S, n)) = Cardinality(S)
<1> DEFINE h == [i \in S |-> n + 1 - i]
           T == Flipped(S, n)
<1>1. n \in Nat /\ \A i \in S : i \in Nat /\ n + 1 - i \in 1 .. n
  <2>1. n \in Nat /\ \A i \in S : i \in 1 .. n
    BY DEF Within
  <2> QED
    BY <2>1
<1>2. Within(T, n)
  BY <1>1 DEF Within, Flipped
<1>3. h \in [S -> T] /\ \A t \in T : \E i \in S : h[i] = t
  BY DEF Flipped
<1>4. \A i, j \in S : h[i] = h[j] => i = j
  BY <1>1
<1>5. IsFiniteSet(S)
  BY UpToStep
<1>6. Cardinality(T) = Cardinality(S)
  <2> HIDE DEF h, T
  <2> QED
    BY <1>3, <1>4, <1>5, PairedOff
<1> QED
  BY <1>2, <1>6

\* There the members are numbered downwards.
LEMMA NthFlipped ==
  ASSUME NEW S, NEW n, Within(S, n), NEW k \in 1 .. Cardinality(S)
  PROVE  /\ Cardinality(S) + 1 - k \in 1 .. Cardinality(S)
         /\ Nth(Flipped(S, n), k) = n + 1 - Nth(S, Cardinality(S) + 1 - k)
<1> DEFINE T == Flipped(S, n)
           c == Cardinality(S)
           m == c + 1 - k
           i == Nth(S, m)
           Above == {j \in S : j >= i}
           Below == {j \in S : j <= i - 1}
<1>1. /\ IsFiniteSet(S) /\ c \in Nat /\ n \in Nat
      /\ \A j \in S : j \in Nat /\ j \in Nat \ {0} /\ j \in 1 .. n
  BY UpToStep, WithinNat
<1>2. m \in 1 .. c
  BY <1>1
<1> HIDE DEF c, m
<1>3. i \in S /\ UpTo(S, i) = m
  BY <1>2, NthMember DEF c
<1> HIDE DEF i
<1>4. UpTo(S, i - 1) + 1 = m /\ UpTo(S, i - 1) \in Nat
  <2>1. i \in Nat \ {0} /\ i - 1 \in Nat
    BY <1>1, <1>3
  <2>2. UpTo(S, i) = UpTo(S, i - 1) + IF i \in S THEN 1 ELSE 0
    BY <2>1, UpToStep
  <2>3. UpTo(S, i - 1) \in Nat
    BY <2>1, UpToStep
  <2> QED
    BY <2>2, <2>3, <1>3
<1>5. Cardinality(Above) = k
  <2>1. IsFiniteSet(Above) /\ IsFiniteSet(Below)
    BY <1>1, FS_Subset
  <2>2. Above \cup Below = S /\ Above \cap Below = {}
    BY <1>1, <1>3
  <2> HIDE DEF Above, Below
  <2>3. Cardinality(Above \cup Below)
          = Cardinality(Above) + Cardinality(Below) - Cardinality(Above \cap Below)
    BY <2>1, FS_Union
  <2>4. Cardinality({}) = 0 /\ Cardinality(Above) \in Nat
    BY <2>1, FS_EmptySet, FS_CardinalityType
  <2>5. Cardinality(Below) = UpTo(S, i - 1)
    BY DEF UpTo, Below
  <2>a. Cardinality(Below) = m - 1 /\ m \in Int
    BY <2>5, <1>1, <1>2, <1>4
  <2>b. Cardinality(Above \cup Below) = c /\ Cardinality(Above \cap Below) = 0
    BY <2>2, <2>4 DEF c
  <2>6. c = Cardinality(Above) + (m - 1) - 0
    BY <2>3, <2>a, <2>b
  <2>7. k \in Nat /\ m = c + 1 - k
    BY <1>1 DEF m
  <2> QED
    BY <2>4, <2>6, <2>7, <1>1
<1>6. UpTo(T, n + 1 - i) = k
  <2>1. {j \in T : j <= n + 1 - i} = Flipped(Above, n)
    <3>1. ASSUME NEW j \in S PROVE n + 1 - j <= n + 1 - i <=> j >= i
      BY <1>1, <1>3
    <3> QED
      BY <3>1 DEF Flipped
  <2>2. Within(Above, n)
    BY <1>1 DEF Within
  <2>3. Cardinality(Flipped(Above, n)) = Cardinality(Above)
    <3> HIDE DEF Above
    <3> QED
      BY <2>2, FlippedIs
  <2> QED
    BY <2>1, <2>3, <1>5 DEF UpTo
<1>7. Nth(T, UpTo(T, n + 1 - i)) = n + 1 - i
  <2>1. Within(T, n) /\ n + 1 - i \in T
    BY <1>3, FlippedIs DEF Flipped
  <2> HIDE DEF T
  <2> QED
    BY <2>1, NthMember
<1> QED
  BY <1>2, <1>6, <1>7 DEF m, c, i

\* The ranks of a file's pawns, the i-th on the way of the side to move, and the word.
RanksOf(squares, f) == {r \in 1 .. Slots : <<f, r>> \in DOMAIN squares}
RankAt(squares, color, f, i) ==
  Nth(RanksOf(squares, f),
      IF color = "black" THEN Cardinality(RanksOf(squares, f)) + 1 - i ELSE i)
WordOf(squares, color, f) ==
  <<>> \o [i \in 1 .. Cardinality(RanksOf(squares, f)) |->
             IF squares[<<f, RankAt(squares, color, f, i)>>] = color THEN STM ELSE SNTM]

\* A key is a layout of such words.
LEMMA KeyIs ==
  ASSUME NEW squares, NEW color
  PROVE  /\ KeyOfPosition(squares, color) \in Layout
         /\ \A f \in 1 .. Files :
              LET w == KeyOfPosition(squares, color)[f]
                  n == Cardinality(RanksOf(squares, f))
              IN /\ w = WordOf(squares, color, f)
                 /\ n \in Nat /\ Within(RanksOf(squares, f), Slots)
                 /\ w = [i \in 1 .. n |->
                           IF squares[<<f, RankAt(squares, color, f, i)>>] = color
                           THEN STM ELSE SNTM]
<1>1. KeyOfPosition(squares, color) = <<>> \o [f \in 1 .. Files |-> WordOf(squares, color, f)]
  BY DEF KeyOfPosition, PerFile, Listed, WordOf, RankAt, RanksOf
<1>2. ASSUME NEW f \in 1 .. Files
      PROVE  LET n == Cardinality(RanksOf(squares, f))
             IN /\ n \in Nat /\ Within(RanksOf(squares, f), Slots)
                /\ WordOf(squares, color, f) \in Words
                /\ WordOf(squares, color, f)
                     = [i \in 1 .. n |-> IF squares[<<f, RankAt(squares, color, f, i)>>] = color
                                         THEN STM ELSE SNTM]
  <2> DEFINE n == Cardinality(RanksOf(squares, f))
             g == [i \in 1 .. n |-> IF squares[<<f, RankAt(squares, color, f, i)>>] = color
                                    THEN STM ELSE SNTM]
  <2>1. Within(RanksOf(squares, f), Slots) /\ Slots \in Nat
    BY NamesAssumption DEF Within, RanksOf
  <2>2. n \in Nat /\ n <= Slots
    <3>1. n \in Nat /\ UpTo(RanksOf(squares, f), Slots) = n
      BY <2>1, UpToStep
    <3>2. n <= Slots
      <4>1. IsFiniteSet(1 .. Slots) /\ Cardinality(1 .. Slots) = Slots
        <5>1. 1 \in Int /\ Slots \in Int
          BY NamesAssumption
        <5>2. IsFiniteSet(1 .. Slots)
              /\ Cardinality(1 .. Slots) = IF 1 > Slots THEN 0 ELSE Slots - 1 + 1
          BY <5>1, FS_Interval
        <5> QED
          BY <5>2, <2>1
      <4>2. RanksOf(squares, f) \subseteq 1 .. Slots
        BY DEF RanksOf
      <4> QED
        BY <4>1, <4>2, FS_Subset
    <3> QED
      BY <3>1, <3>2
  <2>3. g \in [1 .. n -> Sides]
    BY SidesAre
  <2>4. <<>> \o g = g /\ g \in Seq(Sides) /\ Len(g) = n
    <3> HIDE DEF g, n
    <3> QED
      BY <2>2, <2>3, ListedIs
  <2>5. WordOf(squares, color, f) = <<>> \o g
    BY DEF WordOf
  <2>6. g \in Words
    <3> HIDE DEF g, n
    <3> QED
      BY <2>2, <2>4, WordIs
  <2> HIDE DEF g
  <2> QED
    BY <2>1, <2>2, <2>4, <2>5, <2>6 DEF g
<1> DEFINE h == [f \in 1 .. Files |-> WordOf(squares, color, f)]
<1>3. h \in [1 .. Files -> Words] /\ \A f \in 1 .. Files : h[f] = WordOf(squares, color, f)
  BY <1>2
<1>4. <<>> \o h = h
  <2> HIDE DEF h
  <2> QED
    BY <1>3, LayoutWords, NamesAssumption, ListedIs
<1> HIDE DEF h
<1>5. KeyOfPosition(squares, color) = h
  BY <1>1, <1>4 DEF h
<1> QED
  BY <1>2, <1>3, <1>5 DEF Layout

\* Pawns on the board; their mirror image; and with colours exchanged.
OnBoard(squares) == DOMAIN squares \subseteq (1 .. Files) \X (1 .. Slots)
MirrorOf(squares) ==
  [s \in {<<Files + 1 - t[1], t[2]>> : t \in DOMAIN squares} |->
     squares[<<Files + 1 - s[1], s[2]>>]]
SwappedOf(squares) ==
  [s \in {<<t[1], Slots + 1 - t[2]>> : t \in DOMAIN squares} |->
     ColorOf(SNTM, squares[<<s[1], Slots + 1 - s[2]>>])]

\* The mirror image has the reflected key.
LEMMA MirrorKey ==
  ASSUME NEW squares, OnBoard(squares), NEW color
  PROVE  KeyOfPosition(MirrorOf(squares), color) = Reverse(KeyOfPosition(squares, color))
<1> DEFINE image == MirrorOf(squares)
           key == KeyOfPosition(squares, color)
<1>1. key \in Layout /\ KeyOfPosition(image, color) \in Layout
  BY KeyIs
<1>2. ASSUME NEW f \in 1 .. Files PROVE KeyOfPosition(image, color)[f] = Reverse(key)[f]
  <2> DEFINE g == Files + 1 - f
  <2>1. g \in 1 .. Files /\ Files + 1 - g = f
    BY NamesAssumption
  <2>2. ASSUME NEW r \in 1 .. Slots
        PROVE  /\ <<f, r>> \in DOMAIN image <=> <<g, r>> \in DOMAIN squares
               /\ <<g, r>> \in DOMAIN squares => image[<<f, r>>] = squares[<<g, r>>]
    <3>1. DOMAIN image = {<<Files + 1 - t[1], t[2]>> : t \in DOMAIN squares}
      BY DEF MirrorOf
    <3>2. <<g, r>> \in DOMAIN squares => <<f, r>> \in DOMAIN image
      <4>1. <<g, r>>[1] = g /\ <<g, r>>[2] = r
        OBVIOUS
      <4> HIDE DEF g
      <4> QED
        BY <4>1, <3>1, <2>1
    <3>3. ASSUME <<f, r>> \in DOMAIN image PROVE <<g, r>> \in DOMAIN squares
      <4>1. PICK t \in DOMAIN squares : <<f, r>> = <<Files + 1 - t[1], t[2]>>
        BY <3>1, <3>3
      <4>2. t = <<t[1], t[2]>> /\ t[1] \in 1 .. Files
        BY DEF OnBoard
      <4>3. f = Files + 1 - t[1] /\ r = t[2]
        BY <4>1
      <4>4. t[1] = g
        BY <4>2, <4>3, NamesAssumption
      <4> QED
        BY <4>2, <4>3, <4>4
    <3>4. <<g, r>> \in DOMAIN squares => image[<<f, r>>] = squares[<<g, r>>]
      BY <3>1, <3>2 DEF MirrorOf
    <3> QED
      BY <3>2, <3>3, <3>4
  <2> HIDE DEF g, image
  <2>3. RanksOf(image, f) = RanksOf(squares, g)
    BY <2>2 DEF RanksOf
  <2> DEFINE n == Cardinality(RanksOf(squares, g))
  <2>4. ASSUME NEW i \in 1 .. n
        PROVE  /\ RankAt(image, color, f, i) = RankAt(squares, color, g, i)
               /\ image[<<f, RankAt(image, color, f, i)>>]
                    = squares[<<g, RankAt(squares, color, g, i)>>]
    <3>1. RankAt(image, color, f, i) = RankAt(squares, color, g, i)
      BY <2>3 DEF RankAt
    <3>2. Within(RanksOf(squares, g), Slots) /\ n \in Nat
      BY <2>1, KeyIs
    <3>3. n + 1 - i \in 1 .. n
      <4> HIDE DEF n
      <4> QED
        BY <3>2
    <3>4. RankAt(squares, color, g, i) \in RanksOf(squares, g)
      BY <3>2, <3>3, NthMember DEF RankAt
    <3> QED
      BY <3>1, <3>4, <2>2 DEF RanksOf
  <2>5. KeyOfPosition(image, color)[f]
          = [i \in 1 .. n |-> IF image[<<f, RankAt(image, color, f, i)>>] = color
                              THEN STM ELSE SNTM]
    BY <2>3, KeyIs
  <2>6. key[g] = [i \in 1 .. n |-> IF squares[<<g, RankAt(squares, color, g, i)>>] = color
                                   THEN STM ELSE SNTM]
    BY <2>1, KeyIs
  <2> HIDE DEF key, n
  <2>7. Reverse(key)[f] = key[g]
    BY <1>1, ReflectedLayout DEF g
  <2> QED
    BY <2>4, <2>5, <2>6, <2>7
<1>3. Reverse(key) \in Layout
  <2> HIDE DEF key
  <2> QED
    BY <1>1, ReflectedLayout
<1> HIDE DEF image, key
<1>4. KeyOfPosition(image, color) = Reverse(key)
  BY <1>1, <1>2, <1>3, KeysAlike
<1> QED
  BY <1>4 DEF image, key

\* The colours.
LEMMA ColorsAre ==
  /\ ColorOf(SNTM, "white") = "black" /\ ColorOf(SNTM, "black") = "white"
  /\ \A c : ColorOf(STM, c) = c
  /\ \A c, d \in Colors : ColorOf(SNTM, c) \in Colors /\ ColorOf(SNTM, ColorOf(SNTM, c)) = c
                          /\ (ColorOf(SNTM, c) = ColorOf(SNTM, d) <=> c = d)
BY SidesAre DEF ColorOf, Colors

\* With colours exchanged and the other side to move the key is the same.
LEMMA SwappedKey ==
  ASSUME NEW squares, OnBoard(squares), \A s \in DOMAIN squares : squares[s] \in Colors,
         NEW color \in Colors
  PROVE  KeyOfPosition(SwappedOf(squares), ColorOf(SNTM, color)) = KeyOfPosition(squares, color)
<1> DEFINE image == SwappedOf(squares)
           other == ColorOf(SNTM, color)
           key == KeyOfPosition(squares, color)
<1>1. key \in Layout /\ KeyOfPosition(image, other) \in Layout
  BY KeyIs
<1>2. ASSUME NEW f \in 1 .. Files PROVE KeyOfPosition(image, other)[f] = key[f]
  <2> DEFINE flip(r) == Slots + 1 - r
  <2>1. Slots \in Nat /\ \A r \in 1 .. Slots : flip(r) \in 1 .. Slots /\ flip(flip(r)) = r
    BY NamesAssumption
  <2>2. ASSUME NEW r \in 1 .. Slots
        PROVE  /\ <<f, flip(r)>> \in DOMAIN image <=> <<f, r>> \in DOMAIN squares
               /\ <<f, r>> \in DOMAIN squares =>
                    image[<<f, flip(r)>>] = ColorOf(SNTM, squares[<<f, r>>])
    <3>1. DOMAIN image = {<<t[1], Slots + 1 - t[2]>> : t \in DOMAIN squares}
      BY DEF SwappedOf
    <3>2. <<f, r>> \in DOMAIN squares => <<f, flip(r)>> \in DOMAIN image
      <4>1. <<f, r>>[1] = f /\ <<f, r>>[2] = r
        OBVIOUS
      <4> QED
        BY <4>1, <3>1
    <3>3. ASSUME <<f, flip(r)>> \in DOMAIN image PROVE <<f, r>> \in DOMAIN squares
      <4>1. PICK t \in DOMAIN squares : <<f, flip(r)>> = <<t[1], Slots + 1 - t[2]>>
        BY <3>1, <3>3
      <4>2. t = <<t[1], t[2]>> /\ t[2] \in 1 .. Slots
        BY DEF OnBoard
      <4>3. f = t[1] /\ flip(r) = Slots + 1 - t[2]
        BY <4>1
      <4>4. t[2] = r
        BY <4>2, <4>3, <2>1
      <4> QED
        BY <4>2, <4>3, <4>4
    <3>4. <<f, r>> \in DOMAIN squares =>
            image[<<f, flip(r)>>] = ColorOf(SNTM, squares[<<f, Slots + 1 - flip(r)>>])
      BY <3>1, <3>2 DEF SwappedOf
    <3>5. Slots + 1 - flip(r) = r
      BY <2>1
    <3> HIDE DEF flip
    <3> QED
      BY <3>2, <3>3, <3>4, <3>5
  <2> HIDE DEF image
  <2> DEFINE S == RanksOf(squares, f)
             T == RanksOf(image, f)
             n == Cardinality(S)
  <2>3. T = Flipped(S, Slots)
    <3>1. ASSUME NEW r \in T PROVE r \in Flipped(S, Slots)
      <4>1. r \in 1 .. Slots /\ <<f, flip(flip(r))>> \in DOMAIN image /\ flip(r) \in 1 .. Slots
        BY <2>1 DEF RanksOf
      <4>2. <<f, flip(r)>> \in DOMAIN squares
        BY <4>1, <2>2
      <4>3. flip(r) \in S /\ r = flip(flip(r))
        BY <4>1, <4>2, <2>1 DEF RanksOf
      <4> QED
        BY <4>3 DEF Flipped
    <3>2. ASSUME NEW r \in Flipped(S, Slots) PROVE r \in T
      <4>1. PICK q \in S : r = flip(q)
        BY DEF Flipped
      <4>2. q \in 1 .. Slots /\ <<f, q>> \in DOMAIN squares
        BY DEF RanksOf
      <4>3. <<f, flip(q)>> \in DOMAIN image /\ flip(q) \in 1 .. Slots
        BY <4>2, <2>1, <2>2
      <4> QED
        BY <4>1, <4>3 DEF RanksOf
    <3> QED
      BY <3>1, <3>2
  <2>4. Within(S, Slots) /\ n \in Nat
    BY KeyIs
  <2>5. Cardinality(T) = n
    <3> HIDE DEF S, T
    <3> QED
      BY <2>3, <2>4, FlippedIs
  <2>6. ASSUME NEW i \in 1 .. n
        PROVE  /\ RankAt(squares, color, f, i) \in S
               /\ RankAt(image, other, f, i) = flip(RankAt(squares, color, f, i))
    <3>1. n + 1 - i \in 1 .. n /\ n + 1 - (n + 1 - i) = i
      <4> HIDE DEF n
      <4> QED
        BY <2>4
    <3>2. \A k \in 1 .. n : Nth(T, k) = flip(Nth(S, n + 1 - k)) /\ Nth(S, k) \in S
      <4> HIDE DEF S, T
      <4> QED
        BY <2>3, <2>4, NthFlipped, NthMember
    <3>3. CASE color = "white"
      <4>1. other = "black" /\ color # "black"
        BY <3>3, ColorsAre
      <4>2. RankAt(squares, color, f, i) = Nth(S, i)
        BY <4>1 DEF RankAt
      <4>3. RankAt(image, other, f, i) = Nth(T, n + 1 - i)
        BY <4>1, <2>5 DEF RankAt
      <4> HIDE DEF n, S, T, flip
      <4> QED
        BY <4>2, <4>3, <3>1, <3>2
    <3>4. CASE color = "black"
      <4>1. other = "white" /\ other # "black"
        BY <3>4, ColorsAre
      <4>2. RankAt(squares, color, f, i) = Nth(S, n + 1 - i)
        BY <3>4 DEF RankAt
      <4>3. RankAt(image, other, f, i) = Nth(T, i)
        BY <4>1 DEF RankAt
      <4> HIDE DEF n, S, T, flip
      <4> QED
        BY <4>2, <4>3, <3>1, <3>2
    <3> QED
      BY <3>3, <3>4 DEF Colors
  <2>7. ASSUME NEW i \in 1 .. n
        PROVE  image[<<f, RankAt(image, other, f, i)>>] = other
               <=> squares[<<f, RankAt(squares, color, f, i)>>] = color
    <3> DEFINE r == RankAt(squares, color, f, i)
    <3>1. r \in 1 .. Slots /\ <<f, r>> \in DOMAIN squares
      BY <2>6 DEF RanksOf
    <3>2. image[<<f, flip(r)>>] = ColorOf(SNTM, squares[<<f, r>>])
      <4> HIDE DEF r, flip
      <4> QED
        BY <3>1, <2>2
    <3>3. squares[<<f, r>>] \in Colors
      BY <3>1
    <3>4. RankAt(image, other, f, i) = flip(r)
      BY <2>6
    <3> HIDE DEF r, flip
    <3>5. image[<<f, RankAt(image, other, f, i)>>] = other <=> squares[<<f, r>>] = color
      BY <3>2, <3>3, <3>4, ColorsAre
    <3> QED
      BY <3>5 DEF r
  <2>8. KeyOfPosition(image, other)[f]
          = [i \in 1 .. n |-> IF image[<<f, RankAt(image, other, f, i)>>] = other
                              THEN STM ELSE SNTM]
    BY <2>5, KeyIs
  <2>9. key[f] = [i \in 1 .. n |-> IF squares[<<f, RankAt(squares, color, f, i)>>] = color
                                   THEN STM ELSE SNTM]
    BY KeyIs
  <2> HIDE DEF key, n, other, image
  <2> QED
    BY <2>7, <2>8, <2>9
<1> HIDE DEF image, key, other
<1>3. KeyOfPosition(image, other) = key
  BY <1>1, <1>2, KeysAlike
<1> QED
  BY <1>3 DEF image, key, other

\* A key has as many pawns as the board.
LEMMA KeyCounts ==
  ASSUME NEW squares, OnBoard(squares), NEW color
  PROVE  /\ IsFiniteSet(DOMAIN squares)
         /\ PawnsOf(KeyOfPosition(squares, color), STM)
              + PawnsOf(KeyOfPosition(squares, color), SNTM) = Cardinality(DOMAIN squares)
<1> DEFINE key == KeyOfPosition(squares, color)
           upto(k) == {s \in DOMAIN squares : s[1] <= k}
           both(k) == Ahead(key, STM, k) + Ahead(key, SNTM, k)
           D == {k \in Nat : both(k) = Cardinality(upto(k))}
<1>1. key \in Layout /\ Files \in Nat
  BY KeyIs, NamesAssumption
<1>2. \A s \in DOMAIN squares : s = <<s[1], s[2]>> /\ s[1] \in 1 .. Files /\ s[2] \in 1 .. Slots
  BY DEF OnBoard
<1>3. IsFiniteSet(DOMAIN squares)
  <2>1. 1 \in Int /\ Files \in Int /\ Slots \in Int
    BY NamesAssumption
  <2>2. IsFiniteSet(1 .. Files) /\ IsFiniteSet(1 .. Slots)
    BY <2>1, FS_Interval
  <2> QED
    BY <2>2, FS_Product, FS_Subset DEF OnBoard
<1>4. ASSUME NEW f \in 1 .. Files
      PROVE  CountOf(key[f], STM) + CountOf(key[f], SNTM) = Cardinality(RanksOf(squares, f))
             /\ CountOf(key[f], STM) \in Nat /\ CountOf(key[f], SNTM) \in Nat
  <2> DEFINE w == key[f]
             n == Cardinality(RanksOf(squares, f))
  <2>1. w \in Seq(Sides) /\ CountOf(w, STM) \in Nat /\ CountOf(w, SNTM) \in Nat
    <3> HIDE DEF key
    <3> QED
      BY <1>1, LayoutWords
  <2>2. CountOf(w, STM) + CountOf(w, SNTM) = Len(w)
    <3> HIDE DEF w
    <3> QED
      BY <2>1, SlotsDivide
  <2>3. n \in Nat /\ DOMAIN w = 1 .. n
    <3>1. n \in Nat /\ w = [i \in 1 .. n |->
                            IF squares[<<f, RankAt(squares, color, f, i)>>] = color
                            THEN STM ELSE SNTM]
      BY KeyIs
    <3> HIDE DEF w, n
    <3> QED
      BY <3>1
  <2>4. Len(w) = n
    <3> HIDE DEF w, n
    <3> QED
      BY <2>1, <2>3
  <2> QED
    BY <2>1, <2>2, <2>4
<1>5. /\ \A side : Ahead(key, side, 0) = 0
      /\ \A side : \A f \in 0 .. Files : Ahead(key, side, f) \in Nat
      /\ \A side : \A f \in 1 .. Files :
           Ahead(key, side, f) = Ahead(key, side, f - 1) + CountOf(key[f], side)
      /\ \A side : PawnsOf(key, side) = Ahead(key, side, Files)
  <2> HIDE DEF key
  <2> QED
    BY <1>1, AheadStep
<1> HIDE DEF key
<1>6. 0 \in D
  <2>1. upto(0) = {}
    BY <1>2
  <2>2. Cardinality(upto(0)) = 0
    BY <2>1, FS_EmptySet
  <2> QED
    BY <2>2, <1>5
<1>7. ASSUME NEW k \in 1 .. Files, k - 1 \in D PROVE k \in D
  <2> DEFINE on == {s \in DOMAIN squares : s[1] = k}
             h == [r \in RanksOf(squares, k) |-> <<k, r>>]
  <2>1. k \in Nat /\ k - 1 \in Nat /\ k - 1 \in 0 .. Files /\ k \in 0 .. Files
    BY <1>1
  <2>2. Cardinality(on) = Cardinality(RanksOf(squares, k)) /\ IsFiniteSet(on)
    <3>1. h \in [RanksOf(squares, k) -> on]
      BY DEF RanksOf
    <3>2. \A a, b \in RanksOf(squares, k) : h[a] = h[b] => a = b
      OBVIOUS
    <3>3. ASSUME NEW s \in on PROVE \E r \in RanksOf(squares, k) : h[r] = s
      <4>1. s = <<k, s[2]>> /\ s[2] \in RanksOf(squares, k)
        BY <1>2 DEF RanksOf
      <4>2. h[s[2]] = s
        BY <4>1
      <4> QED
        BY <4>1, <4>2
    <3>4. IsFiniteSet(RanksOf(squares, k))
      <4>1. Within(RanksOf(squares, k), Slots)
        BY KeyIs
      <4> QED
        BY <4>1, UpToStep
    <3> HIDE DEF h, on
    <3> QED
      BY <3>1, <3>2, <3>3, <3>4, PairedOff
  <2>3. upto(k) = upto(k - 1) \cup on /\ upto(k - 1) \cap on = {}
    BY <1>2, <2>1
  <2>4. IsFiniteSet(upto(k - 1))
    BY <1>3, FS_Subset
  <2> DEFINE A == upto(k - 1)
  <2> HIDE DEF on
  <2>5. Cardinality(upto(k)) = Cardinality(A) + Cardinality(on)
    <3>1. Cardinality(A \cup on) = Cardinality(A) + Cardinality(on) - Cardinality(A \cap on)
      <4> HIDE DEF A
      <4> QED
        BY <2>2, <2>4, FS_Union DEF A
    <3>2. Cardinality(A \cap on) = 0 /\ Cardinality(A) \in Nat /\ Cardinality(on) \in Nat
      BY <2>2, <2>3, <2>4, FS_EmptySet, FS_CardinalityType
    <3>3. Cardinality(upto(k)) = Cardinality(A \cup on)
      BY <2>3
    <3> HIDE DEF A, upto
    <3> QED
      BY <3>1, <3>2, <3>3
  <2>6. both(k - 1) = Cardinality(A)
    BY <1>7
  <2>7. Ahead(key, STM, k) = Ahead(key, STM, k - 1) + CountOf(key[k], STM)
    BY <1>5
  <2>8. Ahead(key, SNTM, k) = Ahead(key, SNTM, k - 1) + CountOf(key[k], SNTM)
    BY <1>5
  <2>9. Ahead(key, STM, k - 1) \in Nat /\ Ahead(key, SNTM, k - 1) \in Nat
    BY <2>1, <1>5
  <2>10. CountOf(key[k], STM) + CountOf(key[k], SNTM) = Cardinality(on)
         /\ CountOf(key[k], STM) \in Nat /\ CountOf(key[k], SNTM) \in Nat
    BY <2>2, <1>4
  <2>11. both(k) = Cardinality(upto(k))
    <3> HIDE DEF A, upto
    <3> QED
      BY <2>5, <2>6, <2>7, <2>8, <2>9, <2>10
  <2> QED
    BY <2>1, <2>11
<1>8. \A k \in 0 .. Files : k \in D
  <2> HIDE DEF D
  <2> QED
    BY <1>1, <1>6, <1>7, Climb
<1>9. Files \in 0 .. Files /\ upto(Files) = DOMAIN squares
  BY <1>1, <1>2
<1>10. both(Files) = Cardinality(DOMAIN squares)
  BY <1>8, <1>9
<1>11. PawnsOf(key, STM) + PawnsOf(key, SNTM) = Cardinality(DOMAIN squares)
  BY <1>5, <1>10
<1> QED
  BY <1>3, <1>11 DEF key

-------------------------------------------------------------------------------
(* Positions.                                                               *)

\* Pawns of either colour on the board, and the men of both colours together.
Placed(squares) == OnBoard(squares) /\ \A s \in DOMAIN squares : squares[s] \in Colors
Total(any) == MenOf(any["white"]) + MenOf(any["black"])

\* A position of at most MaxPieces men, with the table it was looked up in.
PositionInv ==
  /\ Placed(pawns) /\ men \in [Colors -> Army] /\ turn \in Colors
  /\ Count <= MaxPieces
  /\ table = position_table_name(pawns, men, turn)

\* The men of a position are counted.
LEMMA PiecesCounted ==
  ASSUME NEW squares, Placed(squares), NEW any \in [Colors -> Army]
  PROVE  /\ IsFiniteSet(DOMAIN squares) /\ Cardinality(DOMAIN squares) \in Nat
         /\ MenOf(any["white"]) \in Nat /\ MenOf(any["black"]) \in Nat /\ Total(any) \in Nat
<1>1. IsFiniteSet(DOMAIN squares)
  BY KeyCounts DEF Placed
<1>2. any["white"] \in Army /\ any["black"] \in Army
  BY DEF Colors
<1>3. MenOf(any["white"]) \in Nat /\ MenOf(any["black"]) \in Nat
  BY <1>2, MenCounted
<1> QED
  BY <1>1, <1>3, FS_CardinalityType DEF Total

\* One man more, or less.
LEMMA MenChange ==
  ASSUME NEW any \in [Colors -> Army], NEW color \in Colors, NEW role \in ToSet(Roles)
  PROVE  /\ Gain(any, color, role) \in [Colors -> Army]
         /\ Total(Gain(any, color, role)) = Total(any) + 1
         /\ any[color][role] > 0 => /\ Lose(any, color, role) \in [Colors -> Army]
                                    /\ Total(Lose(any, color, role)) = Total(any) - 1
<1> DEFINE army == any[color]
           more == [army EXCEPT ![role] = @ + 1]
           less == [army EXCEPT ![role] = @ - 1]
<1>1. army \in Army /\ any["white"] \in Army /\ any["black"] \in Army
      /\ (color = "white" \/ color = "black")
  BY DEF Colors
<1>2. /\ more \in Army /\ MenOf(more) = MenOf(army) + 1
      /\ army[role] > 0 => less \in Army /\ MenOf(less) = MenOf(army) - 1
  <2> HIDE DEF army
  <2> QED
    BY <1>1, MenCounted
<1>3. Gain(any, color, role) = [any EXCEPT ![color] = more]
      /\ Lose(any, color, role) = [any EXCEPT ![color] = less]
  BY DEF Gain, Lose
<1>4. MenOf(any["white"]) \in Nat /\ MenOf(any["black"]) \in Nat
  BY <1>1, MenCounted
<1> HIDE DEF more, less
<1>5. ASSUME NEW other \in Army
      PROVE  /\ [any EXCEPT ![color] = other] \in [Colors -> Army]
             /\ MenOf(other) \in Nat
             /\ Total([any EXCEPT ![color] = other]) = Total(any) - MenOf(army) + MenOf(other)
  <2> DEFINE new == [any EXCEPT ![color] = other]
  <2>1. new \in [Colors -> Army]
    OBVIOUS
  <2>2. /\ color = "white" => new["white"] = other /\ new["black"] = any["black"]
        /\ color = "black" => new["black"] = other /\ new["white"] = any["white"]
    BY DEF Colors
  <2>3. MenOf(other) \in Nat
    BY MenCounted
  <2> HIDE DEF new
  <2>4. Total(new) = Total(any) - MenOf(army) + MenOf(other)
    BY <2>2, <2>3, <1>1, <1>4 DEF Total
  <2> QED
    BY <2>1, <2>3, <2>4 DEF new
<1>6. MenOf(army) \in Nat /\ Total(any) \in Nat
  BY <1>1, <1>4 DEF Total
<1> HIDE DEF army
<1>7. Gain(any, color, role) \in [Colors -> Army]
      /\ Total(Gain(any, color, role)) = Total(any) - MenOf(army) + MenOf(more)
  BY <1>2, <1>3, <1>5
<1>8. army[role] > 0 => /\ Lose(any, color, role) \in [Colors -> Army]
                        /\ Total(Lose(any, color, role)) = Total(any) - MenOf(army) + MenOf(less)
  BY <1>2, <1>3, <1>5
<1> QED
  BY <1>2, <1>6, <1>7, <1>8 DEF army

\* A pawn that moves, taking others or not, leaves no more pawns.
LEMMA MovedIs ==
  ASSUME Placed(pawns), turn \in Colors, NEW from \in DOMAIN pawns, NEW taken,
         NEW to, to \in (1 .. Files) \X (1 .. Slots)
  PROVE  /\ Placed(Moved(from, taken, to))
         /\ Cardinality(DOMAIN Moved(from, taken, to)) <= Cardinality(DOMAIN pawns)
<1> DEFINE D == DOMAIN pawns
           left == D \ ({from} \cup taken)
           some == D \ {from}
<1>1. IsFiniteSet(D)
  BY KeyCounts DEF Placed
<1>2. DOMAIN Moved(from, taken, to) = left \cup {to}
  BY DEF Moved
<1>3. \A s \in left \cup {to} : Moved(from, taken, to)[s] = IF s = to THEN turn ELSE pawns[s]
  BY DEF Moved
<1>4. Placed(Moved(from, taken, to))
  <2>1. D \subseteq (1 .. Files) \X (1 .. Slots) /\ \A s \in D : pawns[s] \in Colors
    BY DEF Placed, OnBoard
  <2>2. \A s \in left \cup {to} : s \in (1 .. Files) \X (1 .. Slots)
    BY <2>1
  <2>3. \A s \in left \cup {to} : Moved(from, taken, to)[s] \in Colors
    BY <2>1, <1>3
  <2> HIDE DEF left
  <2> QED
    BY <1>2, <2>2, <2>3 DEF Placed, OnBoard
<1>5. Cardinality(left \cup {to}) <= Cardinality(D)
  <2>1. IsFiniteSet(some) /\ Cardinality(some) = Cardinality(D) - 1 /\ Cardinality(D) \in Nat
    BY <1>1, FS_RemoveElement, FS_CardinalityType
  <2>2. IsFiniteSet(left) /\ Cardinality(left) <= Cardinality(some)
    <3>1. left \subseteq some
      OBVIOUS
    <3> HIDE DEF left, some
    <3> QED
      BY <3>1, <2>1, FS_Subset
  <2>3. Cardinality(left) \in Nat
    BY <2>2, FS_CardinalityType
  <2> HIDE DEF left, some, D
  <2>4. Cardinality(left \cup {to}) <= Cardinality(left) + 1
    <3>1. CASE to \in left
      <4>1. left \cup {to} = left
        BY <3>1
      <4> QED
        BY <4>1, <2>3
    <3>2. CASE to \notin left
      <4>1. Cardinality(left \cup {to}) = Cardinality(left) + 1
        BY <3>2, <2>2, FS_AddElement
      <4> QED
        BY <4>1, <2>3
    <3> QED
      BY <3>1, <3>2
  <2>5. Cardinality(left \cup {to}) \in Nat
    <3>1. IsFiniteSet(left \cup {to})
      BY <2>2, FS_AddElement
    <3> QED
      BY <3>1, FS_CardinalityType
  <2>6. Cardinality(some) \in Int
    BY <2>1
  <2> QED
    BY <2>1, <2>2, <2>3, <2>4, <2>5, <2>6
<1> QED
  BY <1>2, <1>4, <1>5

\* A pawn that leaves the board leaves one pawn less.
LEMMA WithoutIs ==
  ASSUME Placed(pawns), NEW s \in DOMAIN pawns
  PROVE  /\ Placed(Without({s}))
         /\ Cardinality(DOMAIN Without({s})) = Cardinality(DOMAIN pawns) - 1
<1>1. Without({s}) = [t \in DOMAIN pawns \ {s} |-> pawns[t]]
  BY DEF Without, Restrict
<1>2. IsFiniteSet(DOMAIN pawns)
  BY KeyCounts DEF Placed
<1>3. DOMAIN Without({s}) = DOMAIN pawns \ {s}
  BY <1>1
<1>4. Placed(Without({s}))
  BY <1>1, <1>3 DEF Placed, OnBoard
<1> QED
  BY <1>2, <1>3, <1>4, FS_RemoveElement

\* A move to a position with no more men keeps the invariant.
LEMMA MoveKeeps ==
  ASSUME PositionInv, Played, Placed(pawns'), men' \in [Colors -> Army],
         Cardinality(DOMAIN pawns') + Total(men') <= Cardinality(DOMAIN pawns) + Total(men)
  PROVE  PositionInv'
<1>1. /\ Cardinality(DOMAIN pawns) \in Nat
      /\ MenOf(men["white"]) \in Nat /\ MenOf(men["black"]) \in Nat
  BY PiecesCounted DEF PositionInv
<1>2. /\ Cardinality(DOMAIN pawns') \in Nat
      /\ MenOf(men'["white"]) \in Nat /\ MenOf(men'["black"]) \in Nat
  BY PiecesCounted
<1>3. Count <= MaxPieces /\ turn \in Colors /\ MaxPieces \in Nat
  BY NamesAssumption DEF PositionInv
<1>4. Count' <= MaxPieces
  BY <1>1, <1>2, <1>3 DEF Count, Total
<1>5. turn' \in Colors
  BY <1>3, ColorsAre DEF Played, Enemy
<1>6. table' = position_table_name(pawns', men', turn')
  BY DEF Played
<1> QED
  BY <1>4, <1>5, <1>6 DEF PositionInv

\* The games begin with a position.
LEMMA InitPlaced == GameInit => PositionInv
<1> SUFFICES ASSUME GameInit PROVE PositionInv
  OBVIOUS
<1>1. PICK n \in 0 .. MaxPieces - 2 : \E S \in kSubset(n, (1 .. Files) \X (1 .. Slots)) :
        pawns \in [S -> Colors]
  BY DEF GameInit
<1>2. PICK S \in SUBSET ((1 .. Files) \X (1 .. Slots)) : pawns \in [S -> Colors]
  BY <1>1 DEF kSubset
<1>3. Placed(pawns)
  BY <1>2 DEF Placed, OnBoard
<1>4. men \in [Colors -> Army]
  <2>1. men \in [Colors -> [ToSet(Roles) -> 0 .. MaxPieces - 2]]
    BY DEF GameInit
  <2>2. 0 .. MaxPieces - 2 \subseteq Nat
    OBVIOUS
  <2> QED
    BY <2>1, <2>2 DEF Army
<1> QED
  BY <1>3, <1>4 DEF PositionInv, GameInit

\* And stay among them.
LEMMA NextPlaced == PositionInv /\ [GameNext]_gamevars => PositionInv'
<1> SUFFICES ASSUME PositionInv, [GameNext]_gamevars PROVE PositionInv'
  OBVIOUS
<1>1. /\ Placed(pawns) /\ men \in [Colors -> Army] /\ turn \in Colors /\ Enemy \in Colors
      /\ Cardinality(DOMAIN pawns) \in Nat /\ Total(men) \in Nat
  <2>1. Placed(pawns) /\ men \in [Colors -> Army] /\ turn \in Colors
    BY DEF PositionInv
  <2> QED
    BY <2>1, PiecesCounted, ColorsAre DEF Enemy
<1>2. \A s \in DOMAIN pawns : s \in (1 .. Files) \X (1 .. Slots) /\ s = <<s[1], s[2]>>
                              /\ s[1] \in 1 .. Files /\ s[2] \in 1 .. Slots
  BY <1>1 DEF Placed, OnBoard
<1>3. Slots \in Nat /\ Files \in Nat
  BY NamesAssumption
<1>4. \A from \in DOMAIN pawns : \A taken : \A to \in (1 .. Files) \X (1 .. Slots) :
        /\ Placed(Moved(from, taken, to))
        /\ Cardinality(DOMAIN Moved(from, taken, to)) <= Cardinality(DOMAIN pawns)
        /\ Cardinality(DOMAIN Moved(from, taken, to)) \in Nat
  <2>1. SUFFICES ASSUME NEW from \in DOMAIN pawns, NEW taken,
                        NEW to \in (1 .. Files) \X (1 .. Slots)
                 PROVE  /\ Placed(Moved(from, taken, to))
                        /\ Cardinality(DOMAIN Moved(from, taken, to)) <= Cardinality(DOMAIN pawns)
                        /\ Cardinality(DOMAIN Moved(from, taken, to)) \in Nat
    OBVIOUS
  <2>2. /\ Placed(Moved(from, taken, to))
        /\ Cardinality(DOMAIN Moved(from, taken, to)) <= Cardinality(DOMAIN pawns)
    BY <1>1, MovedIs
  <2>3. Cardinality(DOMAIN Moved(from, taken, to)) \in Nat
    BY <2>2, <1>1, PiecesCounted
  <2> QED
    BY <2>2, <2>3
<1>5. ASSUME Played, UNCHANGED men, NEW from \in DOMAIN pawns, NEW taken,
             NEW to \in (1 .. Files) \X (1 .. Slots), pawns' = Moved(from, taken, to)
      PROVE  PositionInv'
  <2>1. Placed(pawns') /\ Cardinality(DOMAIN pawns') <= Cardinality(DOMAIN pawns)
        /\ Cardinality(DOMAIN pawns') \in Nat
    BY <1>4, <1>5
  <2>2. men' \in [Colors -> Army] /\ Total(men') = Total(men)
    BY <1>1, <1>5
  <2>3. Cardinality(DOMAIN pawns') + Total(men') <= Cardinality(DOMAIN pawns) + Total(men)
    BY <2>1, <2>2, <1>1
  <2> QED
    BY <2>1, <2>2, <2>3, <1>5, MoveKeeps
<1>6. CASE QuietMan
  <2>1. Placed(pawns') /\ men' \in [Colors -> Army] /\ Played
        /\ pawns' = pawns /\ men' = men
    BY <1>1, <1>6 DEF QuietMan
  <2>2. Cardinality(DOMAIN pawns') + Total(men') <= Cardinality(DOMAIN pawns) + Total(men)
    BY <2>1, <1>1
  <2> QED
    BY <2>1, <2>2, MoveKeeps
<1>7. CASE Push
  <2>1. PICK s \in Own, n \in 1 .. 2 :
          /\ s[2] + n * Forward \in 1 .. Slots
          /\ pawns' = Moved(s, {}, <<s[1], s[2] + n * Forward>>)
    BY <1>7 DEF Push
  <2>2. s \in DOMAIN pawns /\ <<s[1], s[2] + n * Forward>> \in (1 .. Files) \X (1 .. Slots)
    BY <2>1, <1>2 DEF Own
  <2>3. Played /\ UNCHANGED men
    BY <1>7 DEF Push
  <2> QED
    BY <2>1, <2>2, <2>3, <1>5
<1>8. CASE ManTakesMan
  <2>1. PICK role \in ToSet(Roles) : men[Enemy][role] > 0 /\ men' = Lose(men, Enemy, role)
    BY <1>8 DEF ManTakesMan
  <2>2. men' \in [Colors -> Army] /\ Total(men') = Total(men) - 1
    BY <2>1, <1>1, MenChange
  <2>3. Played /\ pawns' = pawns /\ Placed(pawns')
    BY <1>1, <1>8 DEF ManTakesMan
  <2>4. Cardinality(DOMAIN pawns') + Total(men') <= Cardinality(DOMAIN pawns) + Total(men)
    BY <2>2, <2>3, <1>1
  <2> QED
    BY <2>2, <2>3, <2>4, MoveKeeps
<1>9. CASE ManTakesPawn
  <2>1. PICK s \in Foes : pawns' = Without({s}) /\ UNCHANGED men /\ Played
    BY <1>9 DEF ManTakesPawn
  <2>2. Placed(pawns') /\ Cardinality(DOMAIN pawns') = Cardinality(DOMAIN pawns) - 1
    BY <2>1, <1>1, WithoutIs DEF Foes
  <2>3. men' \in [Colors -> Army] /\ men' = men
    BY <2>1, <1>1
  <2>4. Cardinality(DOMAIN pawns') + Total(men') <= Cardinality(DOMAIN pawns) + Total(men)
    BY <2>2, <2>3, <1>1
  <2> QED
    BY <2>1, <2>2, <2>3, <2>4, MoveKeeps
<1>10. CASE PawnTakesPawn
  <2>1. PICK s \in Own, t \in Foes : pawns' = Moved(s, {t}, t)
    BY <1>10 DEF PawnTakesPawn
  <2>2. s \in DOMAIN pawns /\ t \in (1 .. Files) \X (1 .. Slots)
    BY <1>2 DEF Own, Foes
  <2>3. Played /\ UNCHANGED men
    BY <1>10 DEF PawnTakesPawn
  <2> QED
    BY <2>1, <2>2, <2>3, <1>5
<1>11. CASE EnPassant
  <2>1. PICK s \in Own, t \in Foes :
          /\ t[2] + 2 * Forward = LastRank
          /\ pawns' = Moved(s, {t}, <<t[1], t[2] + Forward>>)
    BY <1>11 DEF EnPassant
  <2>2. s \in DOMAIN pawns /\ t[1] \in 1 .. Files /\ t[2] \in 1 .. Slots
    BY <1>2 DEF Own, Foes
  <2>3. t[2] + Forward \in 1 .. Slots
    <3>1. CASE turn = "white"
      <4>1. Forward = 1 /\ LastRank = Slots
        BY <3>1 DEF Forward, LastRank
      <4> QED
        BY <4>1, <2>1, <2>2, <1>3
    <3>2. CASE turn # "white"
      <4>1. Forward = -1 /\ LastRank = 1
        BY <3>2 DEF Forward, LastRank
      <4> QED
        BY <4>1, <2>1, <2>2, <1>3
    <3> QED
      BY <3>1, <3>2
  <2>4. Played /\ UNCHANGED men
    BY <1>11 DEF EnPassant
  <2>5. <<t[1], t[2] + Forward>> \in (1 .. Files) \X (1 .. Slots)
    BY <2>2, <2>3
  <2> QED
    BY <2>1, <2>2, <2>4, <2>5, <1>5
<1>12. CASE PawnTakesMan
  <2>1. PICK s \in Own, role \in ToSet(Roles), f \in 1 .. Files :
          /\ s[2] + Forward \in 1 .. Slots /\ men[Enemy][role] > 0
          /\ men' = Lose(men, Enemy, role) /\ pawns' = Moved(s, {}, <<f, s[2] + Forward>>)
    BY <1>12 DEF PawnTakesMan
  <2>2. s \in DOMAIN pawns /\ <<f, s[2] + Forward>> \in (1 .. Files) \X (1 .. Slots)
    BY <2>1 DEF Own
  <2>3. Placed(pawns') /\ Cardinality(DOMAIN pawns') <= Cardinality(DOMAIN pawns)
        /\ Cardinality(DOMAIN pawns') \in Nat
    BY <2>1, <2>2, <1>4
  <2>4. men' \in [Colors -> Army] /\ Total(men') = Total(men) - 1
    BY <2>1, <1>1, MenChange
  <2>5. Cardinality(DOMAIN pawns') + Total(men') <= Cardinality(DOMAIN pawns) + Total(men)
    BY <2>3, <2>4, <1>1
  <2>6. Played
    BY <1>12 DEF PawnTakesMan
  <2> QED
    BY <2>3, <2>4, <2>5, <2>6, MoveKeeps
<1>13. CASE Promote
  <2>1. PICK s \in Own, new \in ToSet(Roles) :
          /\ pawns' = Without({s})
          /\ \/ men' = Gain(men, turn, new)
             \/ \E role \in ToSet(Roles) : /\ men[Enemy][role] > 0
                                           /\ men' = Gain(Lose(men, Enemy, role), turn, new)
    BY <1>13 DEF Promote
  <2>2. Placed(pawns') /\ Cardinality(DOMAIN pawns') = Cardinality(DOMAIN pawns) - 1
    BY <2>1, <1>1, WithoutIs DEF Own
  <2>3. men' \in [Colors -> Army] /\ Total(men') <= Total(men) + 1 /\ Total(men') \in Int
    <3>1. CASE men' = Gain(men, turn, new)
      BY <3>1, <1>1, MenChange
    <3>2. ASSUME NEW role \in ToSet(Roles), men[Enemy][role] > 0,
                 men' = Gain(Lose(men, Enemy, role), turn, new)
          PROVE  men' \in [Colors -> Army] /\ Total(men') <= Total(men) + 1 /\ Total(men') \in Int
      <4> DEFINE fewer == Lose(men, Enemy, role)
      <4>1. fewer \in [Colors -> Army] /\ Total(fewer) = Total(men) - 1
        BY <3>2, <1>1, MenChange
      <4> HIDE DEF fewer
      <4>2. Gain(fewer, turn, new) \in [Colors -> Army]
            /\ Total(Gain(fewer, turn, new)) = Total(fewer) + 1
        BY <4>1, <1>1, MenChange
      <4>3. men' = Gain(fewer, turn, new)
        BY <3>2 DEF fewer
      <4> QED
        BY <4>1, <4>2, <4>3, <1>1
    <3> QED
      BY <3>1, <3>2, <2>1
  <2>4. Cardinality(DOMAIN pawns') + Total(men') <= Cardinality(DOMAIN pawns) + Total(men)
    BY <2>2, <2>3, <1>1
  <2>5. Played
    BY <1>13 DEF Promote
  <2> QED
    BY <2>2, <2>3, <2>4, <2>5, MoveKeeps
<1>14. CASE UNCHANGED gamevars
  BY <1>14 DEF gamevars, PositionInv, Placed, OnBoard, Count
<1> QED
  BY <1>6, <1>7, <1>8, <1>9, <1>10, <1>11, <1>12, <1>13, <1>14
     DEF GameNext, Quiet, Conversion

\* In every game the pawns are on the board, no more than MaxPieces pieces are on it,
\* and the table is the one from_position finds, however pawns and men are moved,
\* taken and promoted.
THEOREM PositionInvariant == GameSpec => []PositionInv
BY InitPlaced, NextPlaced, PTL DEF GameSpec

\* The men of the side to move and of the other side.
Sided == [side \in Sides |-> men[ColorOf(side, turn)]]

\* A position's table: its key in canonical orientation is a layout, and it is not
\* too large.
LEMMA TableElements ==
  ASSUME PositionInv
  PROVE  LET key == canonicalized(KeyOfPosition(pawns, turn)).files
         IN /\ key \in Layout /\ Sided \in [Sides -> Army]
            /\ canonicalized(key).reflected = FALSE
            /\ table.id = compute_tablename(Elements(key, Sided))
            /\ table.id = format_name(key, Sided)
            /\ validate_elements(Elements(key, Sided))
<1> DEFINE full == KeyOfPosition(pawns, turn)
           key == canonicalized(full).files
<1>1. /\ Placed(pawns) /\ men \in [Colors -> Army] /\ turn \in Colors
      /\ Count <= MaxPieces /\ table = position_table_name(pawns, men, turn)
  BY DEF PositionInv
<1>2. full \in Layout
  BY KeyIs
<1> HIDE DEF full
<1>3. /\ key \in Layout /\ key \in {full, Reverse(full)}
      /\ canonicalized(key) = [files |-> key, reflected |-> FALSE]
  BY <1>2, CanonicalOrientation
<1>4. canonicalized(key).reflected = FALSE
  BY <1>3
<1>5. table.id = format_name(key, Sided)
  BY <1>1 DEF position_table_name, Sided, full
<1>6. compute_tablename(Elements(key, Sided)) = format_name(key, Sided)
  BY DEF compute_tablename, Elements
<1>7. /\ Sided \in [Sides -> Army]
      /\ Sided[STM] = men[turn] /\ Sided[SNTM] = men[ColorOf(SNTM, turn)]
  <2>1. \A side \in Sides : ColorOf(side, turn) \in Colors
    BY <1>1, SidesAre, ColorsAre
  <2> QED
    BY <2>1, <1>1, SidesAre, ColorsAre DEF Sided
<1>8. PawnsOf(key, STM) + PawnsOf(key, SNTM) = Cardinality(DOMAIN pawns)
  <2>1. PawnsOf(full, STM) + PawnsOf(full, SNTM) = Cardinality(DOMAIN pawns)
    BY <1>1, KeyCounts DEF Placed, full
  <2>2. \A side : PawnsOf(Reverse(full), side) = PawnsOf(full, side)
    BY <1>2, ReflectionCounts
  <2> HIDE DEF key
  <2> QED
    BY <2>1, <2>2, <1>3
<1>9. MenOf(Sided[STM]) + MenOf(Sided[SNTM]) = Total(men)
      /\ MenOf(Sided[STM]) \in Nat /\ MenOf(Sided[SNTM]) \in Nat
  <2>1. MenOf(men["white"]) \in Nat /\ MenOf(men["black"]) \in Nat
    BY <1>1, PiecesCounted
  <2>2. CASE turn = "white"
    BY <2>1, <2>2, <1>7, ColorsAre DEF Total
  <2>3. CASE turn = "black"
    BY <2>1, <2>3, <1>7, ColorsAre DEF Total
  <2> QED
    BY <2>2, <2>3, <1>1 DEF Colors
<1>10. Cardinality(DOMAIN pawns) + 2 + Total(men) <= MaxPieces
  <2>1. /\ Cardinality(DOMAIN pawns) \in Nat
        /\ MenOf(men["white"]) \in Nat /\ MenOf(men["black"]) \in Nat
    BY <1>1, PiecesCounted
  <2> QED
    BY <2>1, <1>1 DEF Count, Total
<1> HIDE DEF key
<1>11. validate_elements(Elements(key, Sided))
  <2> DEFINE a == MenOf(Sided[STM])
             b == MenOf(Sided[SNTM])
             p == PawnsOf(key, STM)
             q == PawnsOf(key, SNTM)
             c == Cardinality(DOMAIN pawns)
             t == Total(men)
  <2>1. a \in Nat /\ b \in Nat /\ c \in Nat /\ a + b = t /\ p + q = c /\ c + 2 + t <= MaxPieces
    BY <1>1, <1>8, <1>9, <1>10, PiecesCounted
  <2>2. p \in Nat /\ q \in Nat
    <3>1. Files \in 0 .. Files
      BY NamesAssumption
    <3> QED
      BY <3>1, <1>3, AheadStep
  <2>3. PiecesOf(Elements(key, Sided), STM) = 1 + a + p
        /\ PiecesOf(Elements(key, Sided), SNTM) = 1 + b + q
    BY DEF PiecesOf, Elements
  <2> HIDE DEF a, b, p, q, c, t
  <2>4. (1 + a + p) + (1 + b + q) <= MaxPieces
    BY <2>1, <2>2, NamesAssumption
  <2> QED
    BY <2>3, <2>4 DEF validate_elements
<1>12. key = canonicalized(KeyOfPosition(pawns, turn)).files
  BY DEF key, full
<1> QED
  BY <1>3, <1>4, <1>5, <1>6, <1>7, <1>11, <1>12

\* So its name identifies it.
LEMMA TablesIdentified == PositionInv => NamesIdentifyTables
<1> SUFFICES ASSUME PositionInv PROVE NamesIdentifyTables
  OBVIOUS
<1> DEFINE key == canonicalized(KeyOfPosition(pawns, turn)).files
           name == table.id
           elements == Elements(key, Sided)
<1>1. /\ key \in Layout /\ Sided \in [Sides -> Army]
      /\ canonicalized(key).reflected = FALSE
      /\ name = compute_tablename(elements) /\ name = format_name(key, Sided)
      /\ validate_elements(elements)
  BY TableElements
<1>2. parse_elements(name) = elements
  <2>1. parse_elements(compute_tablename(elements)) = elements
    <3> HIDE DEF key
    <3> QED
      BY <1>1, NamesIdentify
  <2> QED
    BY <2>1, <1>1
<1>3. parse(name) = name
  <2>1. elements.files = key /\ elements # Invalid
    <3>1. DOMAIN elements = {"files", "men"} /\ DOMAIN Invalid = {"invalid"}
      BY DEF Elements, Invalid
    <3>2. elements.files = key
      BY DEF Elements
    <3>3. {"files", "men"} # {"invalid"}
      OBVIOUS
    <3> QED
      BY <3>1, <3>2, <3>3
  <2> HIDE DEF key, elements
  <2> QED
    BY <2>1, <1>1, <1>2 DEF parse
<1>4. Opposed(name[STM]) = Opposed(name[SNTM])
  <2> HIDE DEF key
  <2> QED
    BY <1>1, OpposedAlike
<1> QED
  BY <1>2, <1>3, <1>4 DEF NamesIdentifyTables, Sided

\* In every game the name of a position's table is parsed to the elements it was made
\* from, is canonical, and marks equally many pawns of both sides: two tables never
\* share a name (TableId::parse and from_elements, position_table_id).
THEOREM RoutingIdentifies == GameSpec => []NamesIdentifyTables
BY PositionInvariant, TablesIdentified, PTL

\* A position and its mirror image, and with colours exchanged.
LEMMA SymmetryRespected == PositionInv => RoutingRespectsSymmetry
<1> SUFFICES ASSUME PositionInv PROVE RoutingRespectsSymmetry
  OBVIOUS
<1> DEFINE key == KeyOfPosition(pawns, turn)
           image == position_table_name(MirrorOf(pawns), men, turn)
           swappedmen == [c \in Colors |-> men[ColorOf(SNTM, c)]]
           alike == KeyOfPosition(MirrorOf(pawns), turn) = key
<1>1. /\ Placed(pawns) /\ OnBoard(pawns) /\ turn \in Colors
      /\ table = position_table_name(pawns, men, turn)
  BY DEF PositionInv, Placed
<1>2. KeyOfPosition(MirrorOf(pawns), turn) = Reverse(key) /\ key \in Layout
  BY <1>1, MirrorKey, KeyIs
<1>3. /\ canonicalized(key).files = canonicalized(Reverse(key)).files
      /\ canonicalized(Reverse(key)).reflected
           = (IF Reverse(key) = key THEN FALSE ELSE ~ canonicalized(key).reflected)
  <2> HIDE DEF key
  <2> QED
    BY <1>2, CanonicalOrientation
<1>4. /\ table.id = format_name(canonicalized(key).files, Sided)
      /\ table.reflected = canonicalized(key).reflected
  BY <1>1 DEF position_table_name, Sided
<1>5. /\ image.id = format_name(canonicalized(Reverse(key)).files, Sided)
      /\ image.reflected = canonicalized(Reverse(key)).reflected
  BY <1>2 DEF position_table_name, Sided
<1>6. /\ image.id = table.id
      /\ image.reflected = (IF alike THEN FALSE ELSE ~ table.reflected)
  <2> HIDE DEF key, image
  <2> QED
    BY <1>2, <1>3, <1>4, <1>5
<1>7. table = position_table_name(SwappedOf(pawns), swappedmen, Enemy)
  <2>1. KeyOfPosition(SwappedOf(pawns), Enemy) = key
    <3>1. \A s \in DOMAIN pawns : pawns[s] \in Colors
      BY <1>1 DEF Placed
    <3> QED
      BY <3>1, <1>1, SwappedKey DEF Enemy
  <2>2. ASSUME NEW side \in Sides
        PROVE  swappedmen[ColorOf(side, Enemy)] = men[ColorOf(side, turn)]
    <3>1. /\ ColorOf(side, Enemy) \in Colors
          /\ ColorOf(SNTM, ColorOf(side, Enemy)) = ColorOf(side, turn)
      BY <1>1, SidesAre, ColorsAre DEF Enemy
    <3> QED
      BY <3>1
  <2> HIDE DEF swappedmen
  <2>3. [side \in Sides |-> swappedmen[ColorOf(side, Enemy)]] = Sided
    BY <2>2 DEF Sided
  <2>4. table = [id |-> format_name(canonicalized(key).files, Sided),
                 reflected |-> canonicalized(key).reflected]
    BY <1>1 DEF position_table_name, Sided
  <2>5. position_table_name(SwappedOf(pawns), swappedmen, Enemy)
          = [id |-> format_name(canonicalized(key).files, Sided),
             reflected |-> canonicalized(key).reflected]
    BY <2>1, <2>3 DEF position_table_name
  <2> QED
    BY <2>4, <2>5
<1> QED
  BY <1>6, <1>7 DEF RoutingRespectsSymmetry, MirrorOf, SwappedOf

\* In every game a position, its mirror image and the position with colours exchanged
\* are looked up in one table, and of the first two exactly one is reflected unless
\* the table cannot tell them apart (PawnKey::from_position, canonicalized).
THEOREM RoutingSymmetric == GameSpec => []RoutingRespectsSymmetry
BY PositionInvariant, SymmetryRespected, PTL

-------------------------------------------------------------------------------
(* Files as a colour sees them.                                             *)

\* How far a rank is on a colour's way, and which rank is that far.
OnWay(color, r) == IF color = "black" THEN Slots + 1 - r ELSE r

\* The places of a file's pawns on the way, and whose they are.
WayOf(squares, color, f) == {h \in 1 .. Slots : <<f, OnWay(color, h)>> \in DOMAIN squares}
SightOf(squares, color, f) ==
  [h \in WayOf(squares, color, f) |->
     IF squares[<<f, OnWay(color, h)>>] = color THEN STM ELSE SNTM]

\* The way is as long as the ranks.
LEMMA OnWayIs ==
  ASSUME NEW color, NEW r \in 1 .. Slots
  PROVE  /\ OnWay(color, r) \in 1 .. Slots /\ OnWay(color, OnWay(color, r)) = r
         /\ r \in Nat /\ OnWay(color, r) \in Nat /\ Slots \in Nat
<1>1. Slots \in Nat
  BY NamesAssumption
<1> QED
  BY <1>1 DEF OnWay

\* The word of a file is what is seen on the way.
LEMMA WordSpelled ==
  ASSUME NEW squares, NEW color, NEW f \in 1 .. Files
  PROVE  /\ Within(WayOf(squares, color, f), Slots)
         /\ SightOf(squares, color, f) \in [WayOf(squares, color, f) -> Sides]
         /\ KeyOfPosition(squares, color)[f] = Spelled(SightOf(squares, color, f))
<1> DEFINE R == RanksOf(squares, f)
           W == WayOf(squares, color, f)
           g == SightOf(squares, color, f)
           n == Cardinality(R)
<1>1. Within(W, Slots) /\ g \in [W -> Sides] /\ DOMAIN g = W
  BY NamesAssumption, SidesAre DEF Within, WayOf, SightOf
<1>2. /\ n \in Nat /\ Within(R, Slots)
      /\ KeyOfPosition(squares, color)[f]
           = [i \in 1 .. n |-> IF squares[<<f, RankAt(squares, color, f, i)>>] = color
                               THEN STM ELSE SNTM]
  BY KeyIs
<1>3. ASSUME NEW i \in 1 .. n
      PROVE  /\ Cardinality(W) = n /\ Nth(W, i) \in W
             /\ OnWay(color, Nth(W, i)) = RankAt(squares, color, f, i)
  <2>1. CASE color = "black"
    <3>1. W = Flipped(R, Slots)
      <4>1. \A h \in 1 .. Slots : /\ OnWay(color, h) = Slots + 1 - h
                                  /\ Slots + 1 - h \in 1 .. Slots
                                  /\ Slots + 1 - (Slots + 1 - h) = h
        BY <2>1, OnWayIs DEF OnWay
      <4>2. W \subseteq Flipped(R, Slots)
        BY <4>1 DEF WayOf, Flipped, RanksOf
      <4>3. Flipped(R, Slots) \subseteq W
        BY <4>1 DEF WayOf, Flipped, RanksOf
      <4> QED
        BY <4>2, <4>3
    <3>2. Cardinality(W) = n
      BY <1>2, <3>1, FlippedIs
    <3>3. /\ n + 1 - i \in 1 .. n /\ Nth(W, i) = Slots + 1 - Nth(R, n + 1 - i)
      BY <1>2, <3>1, NthFlipped
    <3>4. Nth(W, i) \in W
      BY <1>1, <3>2, NthMember
    <3>5. Nth(R, n + 1 - i) \in 1 .. Slots
      <4>1. Nth(R, n + 1 - i) \in R
        BY <1>2, <3>3, NthMember
      <4> QED
        BY <4>1 DEF RanksOf
    <3>6. OnWay(color, Nth(W, i)) = Nth(R, n + 1 - i)
      BY <2>1, <3>3, <3>5, NamesAssumption DEF OnWay
    <3>7. RankAt(squares, color, f, i) = Nth(R, n + 1 - i)
      BY <2>1 DEF RankAt
    <3> QED
      BY <3>2, <3>4, <3>6, <3>7
  <2>2. CASE color # "black"
    <3>1. W = R
      BY <2>2 DEF WayOf, RanksOf, OnWay
    <3>2. Nth(R, i) \in R
      BY <1>2, NthMember
    <3> QED
      BY <2>2, <3>1, <3>2 DEF RankAt, OnWay
  <2> QED
    BY <2>1, <2>2
<1>4. Cardinality(W) = n
  <2>1. CASE n = 0
    <3>1. R = {}
      BY <1>2, <2>1, FS_EmptySet, UpToStep
    <3>2. W = {}
      BY <3>1, OnWayIs DEF WayOf, RanksOf
    <3> QED
      BY <3>1, <3>2
  <2>2. CASE n # 0
    <3>1. 1 \in 1 .. n
      BY <1>2, <2>2
    <3> QED
      BY <1>3, <3>1
  <2> QED
    BY <2>1, <2>2
<1>5. ASSUME NEW i \in 1 .. n
      PROVE  g[Nth(W, i)] = IF squares[<<f, RankAt(squares, color, f, i)>>] = color
                            THEN STM ELSE SNTM
  BY <1>3 DEF SightOf
<1>6. Spelled(g) = [i \in 1 .. n |-> g[Nth(W, i)]]
  BY <1>1, <1>4 DEF Spelled
<1> HIDE DEF R, W, g, n
<1>7. Spelled(g) = KeyOfPosition(squares, color)[f]
  BY <1>2, <1>5, <1>6
<1> QED
  BY <1>1, <1>7 DEF R, W, g, n

\* Seen by the other colour a key is turned.
LEMMA KeyTurned ==
  ASSUME NEW squares, Placed(squares), NEW color \in Colors
  PROVE  KeyOfPosition(squares, ColorOf(SNTM, color)) = TwinKey(KeyOfPosition(squares, color))
<1> DEFINE other == ColorOf(SNTM, color)
           key == KeyOfPosition(squares, color)
           back == KeyOfPosition(squares, other)
<1>1. /\ other \in Colors /\ other # color /\ (color = "black" <=> other # "black")
      /\ \A c \in Colors : c # color <=> c = other
  BY DEF ColorOf, Colors, SNTM, STM
<1>2. key \in Layout /\ back \in Layout
  BY KeyIs
<1>3. TwinKey(key) \in Layout /\ \A f \in 1 .. Files : TwinKey(key)[f] = Turned(key[f])
  BY <1>2, TwinKeyIs
<1>4. ASSUME NEW f \in 1 .. Files PROVE back[f] = Turned(key[f])
  <2> DEFINE n == Cardinality(RanksOf(squares, f))
  <2>1. /\ n \in Nat /\ Within(RanksOf(squares, f), Slots)
        /\ key[f] = [i \in 1 .. n |-> IF squares[<<f, RankAt(squares, color, f, i)>>] = color
                                      THEN STM ELSE SNTM]
        /\ back[f] = [i \in 1 .. n |-> IF squares[<<f, RankAt(squares, other, f, i)>>] = other
                                       THEN STM ELSE SNTM]
    BY KeyIs
  <2>2. ASSUME NEW i \in 1 .. n
        PROVE  /\ n + 1 - i \in 1 .. n
               /\ RankAt(squares, other, f, i) = RankAt(squares, color, f, n + 1 - i)
               /\ squares[<<f, RankAt(squares, other, f, i)>>] \in Colors
    <3>1. n + 1 - i \in 1 .. n /\ n + 1 - (n + 1 - i) = i
      BY <2>1
    <3>2. RankAt(squares, other, f, i) = RankAt(squares, color, f, n + 1 - i)
      BY <1>1, <3>1 DEF RankAt
    <3>3. RankAt(squares, other, f, i) \in RanksOf(squares, f)
      BY <2>1, <3>1, NthMember DEF RankAt
    <3>4. <<f, RankAt(squares, other, f, i)>> \in DOMAIN squares
      BY <3>3 DEF RanksOf
    <3> QED
      BY <3>1, <3>2, <3>4 DEF Placed
  <2> HIDE DEF n, other, key, back
  <2>3. ASSUME NEW i \in 1 .. n PROVE back[f][i] = OtherSide(key[f][n + 1 - i])
    <3>1. n + 1 - i \in 1 .. n
      BY <2>2
    <3>2. key[f][n + 1 - i] = IF squares[<<f, RankAt(squares, color, f, n + 1 - i)>>] = color
                              THEN STM ELSE SNTM
      BY <2>1, <3>1
    <3>3. back[f][i] = IF squares[<<f, RankAt(squares, other, f, i)>>] = other
                       THEN STM ELSE SNTM
      BY <2>1
    <3> QED
      BY <1>1, <2>2, <3>2, <3>3, SidesAre
  <2>4. Len(key[f]) = n
    BY <2>1
  <2>5. back[f] = [i \in 1 .. n |-> back[f][i]]
    BY <2>1
  <2> QED
    BY <2>3, <2>4, <2>5 DEF Turned
<1> HIDE DEF key, back
<1>5. \A f \in 1 .. Files : back[f] = TwinKey(key)[f]
  BY <1>3, <1>4
<1> QED
  BY <1>2, <1>3, <1>5, KeysAlike DEF key, back

\* The place of a pawn in the word of its file.
PlaceIn(squares, color, s) == UpTo(WayOf(squares, color, s[1]), OnWay(color, s[2]))

\* A square that a move leaves as it was.
Kept(squares, after, s) ==
  (s \in DOMAIN after <=> s \in DOMAIN squares) /\ (s \in DOMAIN squares => after[s] = squares[s])

\* What is seen at a place on the way.
LEMMA SeenAt ==
  ASSUME NEW squares, NEW color, NEW f, NEW r \in 1 .. Slots
  PROVE  /\ OnWay(color, r) \in WayOf(squares, color, f) <=> <<f, r>> \in DOMAIN squares
         /\ <<f, r>> \in DOMAIN squares =>
              SightOf(squares, color, f)[OnWay(color, r)]
                = IF squares[<<f, r>>] = color THEN STM ELSE SNTM
<1>1. OnWay(color, r) \in 1 .. Slots /\ OnWay(color, OnWay(color, r)) = r
  BY OnWayIs
<1>2. OnWay(color, r) \in WayOf(squares, color, f) <=> <<f, r>> \in DOMAIN squares
  BY <1>1 DEF WayOf
<1>3. ASSUME <<f, r>> \in DOMAIN squares
      PROVE  SightOf(squares, color, f)[OnWay(color, r)]
               = IF squares[<<f, r>>] = color THEN STM ELSE SNTM
  BY <1>1, <1>2, <1>3 DEF SightOf
<1> QED
  BY <1>2, <1>3

\* A file that a move leaves as it was has the same word.
LEMMA FileKept ==
  ASSUME NEW squares, NEW after, NEW color, NEW f \in 1 .. Files,
         \A r \in 1 .. Slots : Kept(squares, after, <<f, r>>)
  PROVE  KeyOfPosition(after, color)[f] = KeyOfPosition(squares, color)[f]
<1>1. \A h \in 1 .. Slots : Kept(squares, after, <<f, OnWay(color, h)>>)
  BY OnWayIs
<1>2. WayOf(after, color, f) = WayOf(squares, color, f)
  BY <1>1 DEF WayOf, Kept
<1>3. \A h \in WayOf(squares, color, f) :
        after[<<f, OnWay(color, h)>>] = squares[<<f, OnWay(color, h)>>]
  BY <1>1 DEF WayOf, Kept
<1>4. SightOf(after, color, f) = SightOf(squares, color, f)
  BY <1>2, <1>3 DEF SightOf
<1> QED
  BY <1>4, WordSpelled

\* A pawn has its letter; the last on the way has the last letter.
LEMMA LetterAt ==
  ASSUME NEW squares, NEW color, NEW f \in 1 .. Files, NEW r \in 1 .. Slots,
         <<f, r>> \in DOMAIN squares
  PROVE  LET w == KeyOfPosition(squares, color)[f]
             i == PlaceIn(squares, color, <<f, r>>)
         IN /\ i \in DOMAIN w
            /\ w[i] = IF squares[<<f, r>>] = color THEN STM ELSE SNTM
            /\ OnWay(color, r) = Slots => i = Len(w)
<1> DEFINE W == WayOf(squares, color, f)
           g == SightOf(squares, color, f)
           h == OnWay(color, r)
<1>1. Within(W, Slots) /\ g \in [W -> Sides] /\ KeyOfPosition(squares, color)[f] = Spelled(g)
  BY WordSpelled
<1>2. h \in W /\ g[h] = IF squares[<<f, r>>] = color THEN STM ELSE SNTM
  BY SeenAt
<1> HIDE DEF W, g, h
<1>3. /\ Spelled(g) \in Seq(Sides) /\ Len(Spelled(g)) = Cardinality(W)
      /\ UpTo(W, h) \in 1 .. Cardinality(W) /\ Spelled(g)[UpTo(W, h)] = g[h]
  BY <1>1, <1>2, SpelledIs
<1>4. UpTo(W, Slots) = Cardinality(W)
  BY <1>1, UpToStep
<1>5. PlaceIn(squares, color, <<f, r>>) = UpTo(W, h)
  BY DEF PlaceIn, W, h
<1>6. DOMAIN Spelled(g) = 1 .. Cardinality(W)
  BY <1>3
<1> QED
  BY <1>1, <1>2, <1>3, <1>4, <1>5, <1>6 DEF h

\* A pawn that leaves its file.
Departed(squares, after, f, r) ==
  /\ <<f, r>> \in DOMAIN squares /\ <<f, r>> \notin DOMAIN after
  /\ \A q \in 1 .. Slots : q # r => Kept(squares, after, <<f, q>>)

\* It takes its letter along.
LEMMA FileLoses ==
  ASSUME NEW squares, NEW after, NEW color, NEW f \in 1 .. Files, NEW r \in 1 .. Slots,
         Departed(squares, after, f, r)
  PROVE  KeyOfPosition(after, color)[f]
           = RemoveAt(KeyOfPosition(squares, color)[f], PlaceIn(squares, color, <<f, r>>))
<1>0. /\ <<f, r>> \in DOMAIN squares /\ <<f, r>> \notin DOMAIN after
      /\ \A q \in 1 .. Slots : q # r => Kept(squares, after, <<f, q>>)
  BY DEF Departed
<1> DEFINE W == WayOf(squares, color, f)
           V == WayOf(after, color, f)
           g == SightOf(squares, color, f)
           s == SightOf(after, color, f)
           a == OnWay(color, r)
<1>1. /\ Within(W, Slots) /\ g \in [W -> Sides] /\ s \in [V -> Sides]
      /\ KeyOfPosition(squares, color)[f] = Spelled(g)
      /\ KeyOfPosition(after, color)[f] = Spelled(s)
  BY WordSpelled
<1>2. a \in W /\ a \notin V
  BY <1>0, SeenAt
<1>3. ASSUME NEW h \in 1 .. Slots, h # a
      PROVE  (h \in V <=> h \in W) /\ (h \in W => s[h] = g[h])
  <2> DEFINE q == OnWay(color, h)
  <2>1. q \in 1 .. Slots /\ OnWay(color, q) = h /\ q # r
    BY <1>3, OnWayIs
  <2>2. Kept(squares, after, <<f, q>>)
    BY <1>0, <2>1
  <2> HIDE DEF q
  <2> QED
    BY <2>1, <2>2, SeenAt DEF Kept
<1>4. V \subseteq 1 .. Slots /\ W \subseteq 1 .. Slots
  BY DEF WayOf
<1>5. PlaceIn(squares, color, <<f, r>>) = UpTo(W, a)
  BY DEF PlaceIn
<1> HIDE DEF W, V, g, s, a
<1>6. V = W \ {a} /\ \A h \in W \ {a} : s[h] = g[h]
  BY <1>2, <1>3, <1>4
<1>7. Spelled(s) = RemoveAt(Spelled(g), UpTo(W, a))
  BY <1>1, <1>2, <1>6, SpelledShorter
<1> QED
  BY <1>1, <1>5, <1>7

\* A word with one letter more, or with the mover's letter at a place.
Longer(w, v) == Len(w) < Slots /\ \E j \in 1 .. Len(w) + 1 : v = InsertAt(w, j, STM)
Marked(w, i, v) == v = [w EXCEPT ![i] = STM]

\* A pawn that moves on its file over free squares, or takes another's square, or
\* comes to stand before a pawn it has taken.
Stepped(squares, after, color, f, r, q) ==
  /\ OnWay(color, r) <= OnWay(color, q)
  /\ <<f, r>> \in DOMAIN squares /\ (q # r => <<f, r>> \notin DOMAIN after)
  /\ <<f, q>> \in DOMAIN after /\ after[<<f, q>>] = color
  /\ \A p \in 1 .. Slots : p # r /\ p # q => Kept(squares, after, <<f, p>>)
  /\ \A p \in 1 .. Slots : OnWay(color, r) < OnWay(color, p) /\ OnWay(color, p) <= OnWay(color, q)
                            => <<f, p>> \notin DOMAIN squares

\* It has the letter of that place.
LEMMA FileSteps ==
  ASSUME NEW squares, NEW after, NEW color, NEW f \in 1 .. Files,
         NEW r \in 1 .. Slots, NEW q \in 1 .. Slots, Stepped(squares, after, color, f, r, q)
  PROVE  Marked(KeyOfPosition(squares, color)[f], PlaceIn(squares, color, <<f, r>>),
                KeyOfPosition(after, color)[f])
<1>0. /\ OnWay(color, r) <= OnWay(color, q)
      /\ <<f, r>> \in DOMAIN squares /\ (q # r => <<f, r>> \notin DOMAIN after)
      /\ <<f, q>> \in DOMAIN after /\ after[<<f, q>>] = color
      /\ \A p \in 1 .. Slots : p # r /\ p # q => Kept(squares, after, <<f, p>>)
      /\ \A p \in 1 .. Slots :
           OnWay(color, r) < OnWay(color, p) /\ OnWay(color, p) <= OnWay(color, q)
             => <<f, p>> \notin DOMAIN squares
  BY DEF Stepped
<1> DEFINE W == WayOf(squares, color, f)
           V == WayOf(after, color, f)
           g == SightOf(squares, color, f)
           s == SightOf(after, color, f)
           a == OnWay(color, r)
           b == OnWay(color, q)
<1>1. /\ Within(W, Slots) /\ g \in [W -> Sides] /\ s \in [V -> Sides]
      /\ KeyOfPosition(squares, color)[f] = Spelled(g)
      /\ KeyOfPosition(after, color)[f] = Spelled(s)
  BY WordSpelled
<1>2. a \in W /\ b \in V /\ s[b] = STM /\ (b # a => a \notin V)
  BY <1>0, SeenAt
<1>3. ASSUME NEW h \in 1 .. Slots, h # a, h # b
      PROVE  (h \in V <=> h \in W) /\ (h \in W => s[h] = g[h])
  <2> DEFINE p == OnWay(color, h)
  <2>1. p \in 1 .. Slots /\ OnWay(color, p) = h /\ p # r /\ p # q
    BY <1>3, OnWayIs
  <2>2. Kept(squares, after, <<f, p>>)
    BY <1>0, <2>1
  <2> HIDE DEF p
  <2> QED
    BY <2>1, <2>2, SeenAt DEF Kept
<1>4. ASSUME NEW h \in W PROVE h <= a \/ h > b
  <2> DEFINE p == OnWay(color, h)
  <2>1. h \in 1 .. Slots
    BY DEF WayOf
  <2>2. p \in 1 .. Slots /\ OnWay(color, p) = h /\ h \in Nat
    BY <2>1, OnWayIs
  <2>3. a \in Nat /\ b \in Nat
    BY OnWayIs
  <2>4. <<f, p>> \in DOMAIN squares
    BY DEF WayOf
  <2>5. ~ (a < h /\ h <= b)
    BY <1>0, <2>2, <2>4
  <2> HIDE DEF W, a, b, p
  <2> QED
    BY <2>2, <2>3, <2>5
<1>5. /\ V \subseteq 1 .. Slots /\ W \subseteq 1 .. Slots /\ b \in 1 .. Slots
      /\ a \in Nat /\ b \in Nat /\ a <= b
  BY <1>0, OnWayIs DEF WayOf
<1>6. PlaceIn(squares, color, <<f, r>>) = UpTo(W, a)
  BY DEF PlaceIn
<1> HIDE DEF W, V, g, s, a, b
<1>7. V = (W \ {a}) \cup {b} /\ \A h \in W \ {a} : s[h] = g[h]
  <2>1. ASSUME NEW h \in W \ {a} PROVE h \in V /\ s[h] = g[h]
    <3>1. h # b
      BY <1>4, <1>5
    <3> QED
      BY <3>1, <1>3, <1>5
  <2>2. ASSUME NEW h \in V, h # b PROVE h \in W \ {a}
    BY <1>2, <1>3, <1>5, <2>2
  <2> QED
    BY <1>2, <2>1, <2>2
<1>8. Spelled(s) = [Spelled(g) EXCEPT ![UpTo(W, a)] = STM]
  <2>1. s \in [(W \ {a}) \cup {b} -> Sides] /\ s[b] = STM /\ \A h \in W \ {a} : s[h] = g[h]
    BY <1>1, <1>2, <1>7
  <2>2. Within(W, Slots) /\ g \in [W -> Sides] /\ a \in W /\ b \in 1 .. Slots /\ a <= b
    BY <1>1, <1>2, <1>5
  <2>3. \A h \in W : h <= a \/ h > b
    BY <1>4
  <2> QED
    BY <2>1, <2>2, <2>3, SpelledShifted
<1> QED
  BY <1>1, <1>6, <1>8 DEF Marked

\* A pawn that comes to another file.
Arrived(squares, after, color, f, q) ==
  /\ <<f, q>> \notin DOMAIN squares /\ <<f, q>> \in DOMAIN after /\ after[<<f, q>>] = color
  /\ \A p \in 1 .. Slots : p # q => Kept(squares, after, <<f, p>>)

\* It puts its letter in.
LEMMA FileGains ==
  ASSUME NEW squares, NEW after, NEW color, NEW f \in 1 .. Files, NEW q \in 1 .. Slots,
         Arrived(squares, after, color, f, q)
  PROVE  Longer(KeyOfPosition(squares, color)[f], KeyOfPosition(after, color)[f])
<1>0. /\ <<f, q>> \notin DOMAIN squares /\ <<f, q>> \in DOMAIN after /\ after[<<f, q>>] = color
      /\ \A p \in 1 .. Slots : p # q => Kept(squares, after, <<f, p>>)
  BY DEF Arrived
<1> DEFINE W == WayOf(squares, color, f)
           V == WayOf(after, color, f)
           g == SightOf(squares, color, f)
           s == SightOf(after, color, f)
           a == OnWay(color, q)
<1>1. /\ Within(W, Slots) /\ g \in [W -> Sides] /\ s \in [V -> Sides]
      /\ KeyOfPosition(squares, color)[f] = Spelled(g)
      /\ KeyOfPosition(after, color)[f] = Spelled(s)
  BY WordSpelled
<1>2. a \notin W /\ a \in V /\ s[a] = STM
  BY <1>0, SeenAt
<1>3. ASSUME NEW h \in 1 .. Slots, h # a
      PROVE  (h \in V <=> h \in W) /\ (h \in W => s[h] = g[h])
  <2> DEFINE p == OnWay(color, h)
  <2>1. p \in 1 .. Slots /\ OnWay(color, p) = h /\ p # q
    BY <1>3, OnWayIs
  <2>2. Kept(squares, after, <<f, p>>)
    BY <1>0, <2>1
  <2> HIDE DEF p
  <2> QED
    BY <2>1, <2>2, SeenAt DEF Kept
<1>4. V \subseteq 1 .. Slots /\ W \subseteq 1 .. Slots /\ a \in 1 .. Slots
  BY OnWayIs DEF WayOf
<1> HIDE DEF W, V, g, s, a
<1>5. V = W \cup {a} /\ \A h \in W : s[h] = g[h]
  BY <1>2, <1>3, <1>4
<1>6. Len(Spelled(g)) = Cardinality(W)
  BY <1>1, SpelledIs
<1>7. /\ Cardinality(W) < Slots /\ UpTo(W, a) + 1 \in 1 .. Cardinality(W) + 1
      /\ Spelled(s) = InsertAt(Spelled(g), UpTo(W, a) + 1, STM)
  <2>1. s \in [W \cup {a} -> Sides] /\ s[a] = STM /\ \A h \in W : s[h] = g[h]
    BY <1>1, <1>2, <1>5
  <2>2. Within(W, Slots) /\ g \in [W -> Sides] /\ a \in 1 .. Slots /\ a \notin W
    BY <1>1, <1>2, <1>4
  <2> QED
    BY <2>1, <2>2, SpelledLonger
<1> QED
  BY <1>1, <1>6, <1>7 DEF Longer

-------------------------------------------------------------------------------
(* Moves change words as conversions do.                                    *)

\* The men as the side of a colour counts them.
MenFor(any, color) == [side \in Sides |-> any[ColorOf(side, color)]]

\* The words are those of one file, or of two.
LEMMA WordsKept ==
  ASSUME NEW squares, NEW after, NEW color, NEW f \in 1 .. Files,
         \A x \in (1 .. Files) \X (1 .. Slots) : x[1] = f => Kept(squares, after, x)
  PROVE  KeyOfPosition(after, color)[f] = KeyOfPosition(squares, color)[f]
<1>1. ASSUME NEW r \in 1 .. Slots PROVE Kept(squares, after, <<f, r>>)
  <2>1. <<f, r>> \in (1 .. Files) \X (1 .. Slots) /\ <<f, r>>[1] = f
    OBVIOUS
  <2> QED
    BY <2>1
<1> QED
  BY <1>1, FileKept

\* A pawn leaves its square, and nothing else changes on its file.
LEMMA WordShorter ==
  ASSUME NEW squares, OnBoard(squares), NEW after, NEW color, NEW s \in DOMAIN squares,
         s \notin DOMAIN after,
         \A x \in (1 .. Files) \X (1 .. Slots) : x[1] = s[1] /\ x # s => Kept(squares, after, x)
  PROVE  LET w == KeyOfPosition(squares, color)[s[1]]
             i == PlaceIn(squares, color, s)
         IN /\ s[1] \in 1 .. Files /\ s[2] \in 1 .. Slots
            /\ i \in DOMAIN w /\ w[i] = (IF squares[s] = color THEN STM ELSE SNTM)
            /\ OnWay(color, s[2]) = Slots => i = Len(w)
            /\ KeyOfPosition(after, color)[s[1]] = RemoveAt(w, i)
<1> DEFINE f == s[1]
           r == s[2]
<1>1. f \in 1 .. Files /\ r \in 1 .. Slots /\ s = <<f, r>>
  BY DEF OnBoard
<1>2. ASSUME NEW q \in 1 .. Slots, q # r PROVE Kept(squares, after, <<f, q>>)
  <2> DEFINE x == <<f, q>>
  <2>1. x \in (1 .. Files) \X (1 .. Slots) /\ x[1] = f /\ x # s
    BY <1>1, <1>2
  <2> HIDE DEF x
  <2>2. Kept(squares, after, x)
    BY <2>1
  <2> QED
    BY <2>2 DEF x
<1> HIDE DEF f, r
<1>3. /\ <<f, r>> \in DOMAIN squares /\ <<f, r>> \notin DOMAIN after
      /\ squares[<<f, r>>] = squares[s] /\ PlaceIn(squares, color, <<f, r>>) = PlaceIn(squares, color, s)
  BY <1>1
<1>4. KeyOfPosition(after, color)[f]
        = RemoveAt(KeyOfPosition(squares, color)[f], PlaceIn(squares, color, <<f, r>>))
  <2>1. f \in 1 .. Files /\ r \in 1 .. Slots
    BY <1>1
  <2>2. Departed(squares, after, f, r)
    BY <1>2, <1>3 DEF Departed
  <2> QED
    BY <2>1, <2>2, FileLoses
<1>5. LET w == KeyOfPosition(squares, color)[f]
          i == PlaceIn(squares, color, <<f, r>>)
      IN /\ i \in DOMAIN w
         /\ w[i] = IF squares[<<f, r>>] = color THEN STM ELSE SNTM
         /\ OnWay(color, r) = Slots => i = Len(w)
  BY <1>1, <1>3, LetterAt
<1> QED
  BY <1>1, <1>3, <1>4, <1>5 DEF f, r

\* A pawn that leaves the board alters the word of its file.
LEMMA PawnGone ==
  ASSUME NEW squares, OnBoard(squares), NEW after, NEW color, NEW s \in DOMAIN squares,
         s \notin DOMAIN after,
         \A x \in (1 .. Files) \X (1 .. Slots) : x # s => Kept(squares, after, x)
  PROVE  LET key == KeyOfPosition(squares, color)
             i == PlaceIn(squares, color, s)
         IN Alters(key, KeyOfPosition(after, color), s[1], RemoveAt(key[s[1]], i))
<1>1. \A h \in 1 .. Files : h # s[1] =>
        KeyOfPosition(after, color)[h] = KeyOfPosition(squares, color)[h]
  BY WordsKept
<1>2. KeyOfPosition(after, color)[s[1]]
        = RemoveAt(KeyOfPosition(squares, color)[s[1]], PlaceIn(squares, color, s))
  BY WordShorter
<1> QED
  BY <1>1, <1>2 DEF Alters

\* One that goes to another file.
Crossed(squares, after, s, g) ==
  /\ s \notin DOMAIN after /\ g \in 1 .. Files /\ g # s[1]
  /\ \A x \in (1 .. Files) \X (1 .. Slots) : x # s /\ x[1] # g => Kept(squares, after, x)

\* It alters two.
LEMMA PawnCrosses ==
  ASSUME NEW squares, OnBoard(squares), NEW after, NEW color, NEW s \in DOMAIN squares,
         NEW g, Crossed(squares, after, s, g)
  PROVE  LET key == KeyOfPosition(squares, color)
             left == KeyOfPosition(after, color)
             i == PlaceIn(squares, color, s)
         IN /\ s[1] \in 1 .. Files
            /\ i \in DOMAIN key[s[1]]
            /\ key[s[1]][i] = (IF squares[s] = color THEN STM ELSE SNTM)
            /\ AltersTwo(key, left, s[1], RemoveAt(key[s[1]], i), g, left[g])
<1>0. /\ s \notin DOMAIN after /\ g \in 1 .. Files /\ g # s[1]
      /\ \A x \in (1 .. Files) \X (1 .. Slots) : x # s /\ x[1] # g => Kept(squares, after, x)
  BY DEF Crossed
<1>1. \A h \in 1 .. Files : h # s[1] /\ h # g =>
        KeyOfPosition(after, color)[h] = KeyOfPosition(squares, color)[h]
  BY <1>0, WordsKept
<1>2. LET v == KeyOfPosition(squares, color)[s[1]]
          i == PlaceIn(squares, color, s)
      IN /\ s[1] \in 1 .. Files /\ s[2] \in 1 .. Slots
         /\ i \in DOMAIN v /\ v[i] = (IF squares[s] = color THEN STM ELSE SNTM)
         /\ OnWay(color, s[2]) = Slots => i = Len(v)
         /\ KeyOfPosition(after, color)[s[1]] = RemoveAt(v, i)
  BY <1>0, WordShorter
<1> QED
  BY <1>0, <1>1, <1>2 DEF AltersTwo

\* The squares after a move.
MovesTo(squares, after, color, from, taken, to) ==
  after = [s \in (DOMAIN squares \ ({from} \cup taken)) \cup {to} |->
             IF s = to THEN color ELSE squares[s]]

HasMoved(squares, after, color, from, taken, to) ==
  /\ to \in DOMAIN after /\ after[to] = color
  /\ \A x : x \in {from} \cup taken /\ x # to => x \notin DOMAIN after
  /\ \A x : x # from /\ x \notin taken /\ x # to => Kept(squares, after, x)

\* The pawn is on its new square, and what was taken is gone.
LEMMA MovedSquares ==
  ASSUME NEW squares, NEW color, NEW from \in DOMAIN squares, NEW taken, NEW to, NEW after,
         MovesTo(squares, after, color, from, taken, to)
  PROVE  HasMoved(squares, after, color, from, taken, to)
<1>1. DOMAIN after = (DOMAIN squares \ ({from} \cup taken)) \cup {to}
  BY DEF MovesTo
<1>2. \A x \in DOMAIN after : after[x] = IF x = to THEN color ELSE squares[x]
  BY DEF MovesTo
<1> QED
  BY <1>1, <1>2 DEF Kept, HasMoved

\* The men a side has, as both colours count them.
LEMMA MenForIs ==
  ASSUME NEW any \in [Colors -> Army], NEW color \in Colors
  PROVE  /\ MenFor(any, color) \in Armies
         /\ MenFor(any, ColorOf(SNTM, color)) = Exchanged(MenFor(any, color))
         /\ MenFor(any, color)[STM] = any[color]
         /\ MenFor(any, color)[SNTM] = any[ColorOf(SNTM, color)]
         /\ \A role \in ToSet(Roles) :
              /\ any[ColorOf(SNTM, color)][role] > 0 => role \in Held(MenFor(any, color), SNTM)
              /\ MenFor(Lose(any, ColorOf(SNTM, color), role), color)
                   = Lose(MenFor(any, color), SNTM, role)
              /\ MenFor(Gain(any, color, role), color) = Gain(MenFor(any, color), STM, role)
<1> DEFINE enemy == ColorOf(SNTM, color)
           m == MenFor(any, color)
<1>1. /\ enemy \in Colors /\ enemy # color /\ ColorOf(STM, color) = color
      /\ ColorOf(STM, enemy) = enemy /\ ColorOf(SNTM, enemy) = color
  BY ColorsAre DEF ColorOf, Colors, SNTM, STM
<1>2. /\ STM \in Sides /\ SNTM \in Sides /\ STM # SNTM
      /\ OtherSide(STM) = SNTM /\ OtherSide(SNTM) = STM
      /\ \A side \in Sides : side = STM \/ side = SNTM
  BY SidesAre
<1>3. /\ m[STM] = any[color] /\ m[SNTM] = any[enemy] /\ m \in [Sides -> Army]
      /\ MenFor(any, enemy)[STM] = any[enemy] /\ MenFor(any, enemy)[SNTM] = any[color]
      /\ DOMAIN MenFor(any, enemy) = Sides
  <2>1. ColorOf(SNTM, color) = enemy
    OBVIOUS
  <2> HIDE DEF enemy
  <2>2. \A side \in Sides : ColorOf(side, color) \in Colors
    BY <1>1, <1>2, <2>1
  <2>3. m \in [Sides -> Army] /\ DOMAIN MenFor(any, enemy) = Sides
    BY <2>2 DEF MenFor
  <2>4. \A c : \A side \in Sides : MenFor(any, c)[side] = any[ColorOf(side, c)]
    BY DEF MenFor
  <2> HIDE DEF m
  <2>5. m[STM] = any[color] /\ m[SNTM] = any[enemy]
    BY <1>1, <1>2, <2>1, <2>4 DEF m
  <2>6. MenFor(any, enemy)[STM] = any[enemy] /\ MenFor(any, enemy)[SNTM] = any[color]
    BY <1>1, <1>2, <2>4
  <2> QED
    BY <2>3, <2>5, <2>6
<1>4. m \in Armies
  BY <1>3 DEF Armies, Army
<1>5. MenFor(any, enemy) = Exchanged(m)
  <2>1. DOMAIN Exchanged(m) = Sides /\ Exchanged(m)[STM] = m[SNTM] /\ Exchanged(m)[SNTM] = m[STM]
    BY <1>2 DEF Exchanged
  <2>2. MenFor(any, enemy) = [side \in Sides |-> MenFor(any, enemy)[side]]
    BY DEF MenFor
  <2>3. Exchanged(m) = [side \in Sides |-> Exchanged(m)[side]]
    BY DEF Exchanged
  <2>4. \A side \in Sides : MenFor(any, enemy)[side] = Exchanged(m)[side]
    BY <1>2, <1>3, <2>1
  <2> HIDE DEF m, enemy
  <2> QED
    BY <2>2, <2>3, <2>4
<1>6. ASSUME NEW role \in ToSet(Roles)
      PROVE  /\ any[enemy][role] > 0 => role \in Held(m, SNTM)
             /\ MenFor(Lose(any, enemy, role), color) = Lose(m, SNTM, role)
             /\ MenFor(Gain(any, color, role), color) = Gain(m, STM, role)
  <2>1. any[enemy][role] > 0 => role \in Held(m, SNTM)
    BY <1>3 DEF Held
  <2>2. ASSUME NEW change, NEW other, other = [side \in Sides |-> other[side]],
               change[color] = other[STM], change[enemy] = other[SNTM]
        PROVE  MenFor(change, color) = other
    <3>1. ColorOf(SNTM, color) = enemy
      OBVIOUS
    <3>2. \A side \in Sides : change[ColorOf(side, color)] = other[side]
      <4> HIDE DEF enemy
      <4> QED
        BY <1>1, <1>2, <2>2, <3>1
    <3>3. MenFor(change, color) = [side \in Sides |-> other[side]]
      BY <3>2 DEF MenFor
    <3> QED
      BY <2>2, <3>3
  <2> HIDE DEF enemy, m
  <2>3. MenFor(Lose(any, enemy, role), color) = Lose(m, SNTM, role)
    <3> DEFINE change == Lose(any, enemy, role)
               other == Lose(m, SNTM, role)
    <3>1. change[color] = any[color] /\ change[enemy] = [any[enemy] EXCEPT ![role] = @ - 1]
      BY <1>1 DEF Lose
    <3>2. /\ other[STM] = m[STM] /\ other[SNTM] = [m[SNTM] EXCEPT ![role] = @ - 1]
          /\ other = [side \in Sides |-> other[side]]
      BY <1>2, <1>3 DEF Lose
    <3> HIDE DEF change, other
    <3>3. MenFor(change, color) = other
      BY <1>3, <2>2, <3>1, <3>2
    <3> QED
      BY <3>3 DEF change, other
  <2>4. MenFor(Gain(any, color, role), color) = Gain(m, STM, role)
    <3> DEFINE change == Gain(any, color, role)
               other == Gain(m, STM, role)
    <3>1. change[color] = [any[color] EXCEPT ![role] = @ + 1] /\ change[enemy] = any[enemy]
      BY <1>1 DEF Gain
    <3>2. /\ other[STM] = [m[STM] EXCEPT ![role] = @ + 1] /\ other[SNTM] = m[SNTM]
          /\ other = [side \in Sides |-> other[side]]
      BY <1>2, <1>3 DEF Gain
    <3> HIDE DEF change, other
    <3>3. MenFor(change, color) = other
      BY <1>3, <2>2, <3>1, <3>2
    <3> QED
      BY <3>3 DEF change, other
  <2> QED
    BY <2>1, <2>3, <2>4
<1> QED
  BY <1>3, <1>4, <1>5, <1>6

\* The positions before and after a move, as the side that moves sees them.
KeyBefore == KeyOfPosition(pawns, turn)
KeyAfter == KeyOfPosition(pawns', turn)
MoveConverts == Converts(KeyBefore, MenFor(men, turn), KeyAfter, MenFor(men', turn))

\* A pawn goes forwards on its way, to the last rank at the end.
LEMMA ForwardIs ==
  ASSUME turn \in Colors, NEW r \in 1 .. Slots
  PROVE  /\ \A n \in 1 .. 2 : r + n * Forward \in 1 .. Slots
              => OnWay(turn, r + n * Forward) = OnWay(turn, r) + n
         /\ r + Forward = r + 1 * Forward
         /\ r + 2 * Forward = LastRank => r + Forward \in 1 .. Slots
         /\ r + Forward # r
         /\ r = LastRank => OnWay(turn, r) = Slots
<1>1. Slots \in Nat /\ r \in Nat /\ r >= 1 /\ r <= Slots
  BY NamesAssumption
<1>2. CASE turn = "white"
  <2>1. Forward = 1 /\ LastRank = Slots /\ \A q : OnWay(turn, q) = q
    BY <1>2 DEF Forward, LastRank, OnWay
  <2> QED
    BY <1>1, <2>1
<1>3. CASE turn = "black"
  <2>1. Forward = -1 /\ LastRank = 1 /\ \A q : OnWay(turn, q) = Slots + 1 - q
    BY <1>3 DEF Forward, LastRank, OnWay
  <2> QED
    BY <1>1, <2>1
<1> QED
  BY <1>2, <1>3 DEF Colors

\* What the side to move has on the board, and the other side.
LEMMA OwnIs ==
  ASSUME PositionInv
  PROVE  /\ turn \in Colors /\ OnBoard(pawns) /\ men \in [Colors -> Army]
         /\ Enemy = ColorOf(SNTM, turn) /\ Enemy \in Colors
         /\ \A s \in DOMAIN pawns : /\ s \in (1 .. Files) \X (1 .. Slots)
                                    /\ s = <<s[1], s[2]>>
                                    /\ s[1] \in 1 .. Files /\ s[2] \in 1 .. Slots
         /\ \A s \in Own : s \in DOMAIN pawns /\ pawns[s] = turn
         /\ \A s \in Foes : s \in DOMAIN pawns /\ pawns[s] # turn
<1>1. turn \in Colors /\ Placed(pawns) /\ men \in [Colors -> Army]
  BY DEF PositionInv
<1>2. Enemy = ColorOf(SNTM, turn) /\ Enemy \in Colors
  BY <1>1, ColorsAre DEF Enemy
<1>3. OnBoard(pawns) /\ \A s \in DOMAIN pawns : s \in (1 .. Files) \X (1 .. Slots)
  BY <1>1 DEF Placed, OnBoard
<1> QED
  BY <1>1, <1>2, <1>3 DEF Own, Foes

\* The squares after pawns have left the board.
LEMMA WithoutSquares ==
  ASSUME NEW s
  PROVE  s \notin DOMAIN Without({s}) /\ \A x : x # s => Kept(pawns, Without({s}), x)
<1>1. Without({s}) = [x \in DOMAIN pawns \ {s} |-> pawns[x]]
  BY DEF Without, Restrict
<1>2. DOMAIN Without({s}) = DOMAIN pawns \ {s}
  BY <1>1
<1>3. \A x \in DOMAIN pawns \ {s} : Without({s})[x] = pawns[x]
  BY <1>1
<1> QED
  BY <1>2, <1>3 DEF Kept

\* A man takes a man.
LEMMA ManTakesManConverts ==
  ASSUME PositionInv, ManTakesMan PROVE MoveConverts
<1>1. PICK role \in ToSet(Roles) : men[Enemy][role] > 0 /\ men' = Lose(men, Enemy, role)
  BY DEF ManTakesMan
<1>2. pawns' = pawns
  BY DEF ManTakesMan
<1>3. role \in Held(MenFor(men, turn), SNTM)
      /\ MenFor(men', turn) = Lose(MenFor(men, turn), SNTM, role)
  <2>1. turn \in Colors /\ men \in [Colors -> Army] /\ Enemy = ColorOf(SNTM, turn)
    BY OwnIs
  <2> QED
    BY <1>1, <2>1, MenForIs
<1>4. KeyAfter = KeyBefore
  BY <1>2 DEF KeyAfter, KeyBefore
<1> QED
  BY <1>3, <1>4 DEF MoveConverts, Converts, LosesMan

\* A man takes a pawn.
LEMMA ManTakesPawnConverts ==
  ASSUME PositionInv, ManTakesPawn PROVE MoveConverts
<1>1. PICK s \in Foes : pawns' = Without({s})
  BY DEF ManTakesPawn
<1>2. men' = men
  BY DEF ManTakesPawn
<1>3. s \in DOMAIN pawns /\ pawns[s] # turn /\ OnBoard(pawns)
  BY OwnIs
<1>4. s \notin DOMAIN pawns' /\ \A x : x # s => Kept(pawns, pawns', x)
  BY <1>1, WithoutSquares
<1> DEFINE f == s[1]
           i == PlaceIn(pawns, turn, s)
<1>5. /\ f \in 1 .. Files /\ i \in DOMAIN KeyBefore[f] /\ KeyBefore[f][i] = SNTM
  <2>1. LET w == KeyOfPosition(pawns, turn)[s[1]]
        IN /\ s[1] \in 1 .. Files /\ s[2] \in 1 .. Slots /\ i \in DOMAIN w
           /\ w[i] = (IF pawns[s] = turn THEN STM ELSE SNTM)
           /\ OnWay(turn, s[2]) = Slots => i = Len(w)
           /\ KeyOfPosition(pawns', turn)[s[1]] = RemoveAt(w, i)
    BY <1>3, <1>4, WordShorter
  <2> QED
    BY <1>3, <2>1 DEF KeyBefore
<1>6. Alters(KeyBefore, KeyAfter, f, RemoveAt(KeyBefore[f], i))
  BY <1>3, <1>4, PawnGone DEF KeyBefore, KeyAfter
<1> HIDE DEF f, i
<1>7. MenFor(men', turn) = MenFor(men, turn)
  BY <1>2
<1> QED
  BY <1>5, <1>6, <1>7 DEF MoveConverts, Converts, LosesPawn

\* A pawn promotes, taking or not.
LEMMA PromoteConverts ==
  ASSUME PositionInv, Promote PROVE MoveConverts
<1>1. PICK s \in Own, new \in ToSet(Roles) :
        /\ s[2] = LastRank
        /\ pawns' = Without({s})
        /\ \/ men' = Gain(men, turn, new)
           \/ \E role \in ToSet(Roles) : /\ Beside(s[1]) # {} /\ men[Enemy][role] > 0
                                         /\ men' = Gain(Lose(men, Enemy, role), turn, new)
  BY DEF Promote
<1>2. /\ s \in DOMAIN pawns /\ pawns[s] = turn /\ OnBoard(pawns) /\ s[2] \in 1 .. Slots
      /\ turn \in Colors
  BY OwnIs
<1>3. s \notin DOMAIN pawns' /\ \A x : x # s => Kept(pawns, pawns', x)
  BY <1>1, WithoutSquares
<1> DEFINE f == s[1]
           i == PlaceIn(pawns, turn, s)
<1>4. OnWay(turn, s[2]) = Slots
  BY <1>1, <1>2, ForwardIs
<1>5. /\ f \in 1 .. Files /\ i \in DOMAIN KeyBefore[f] /\ KeyBefore[f][i] = STM
      /\ i = Len(KeyBefore[f])
  BY <1>2, <1>3, <1>4, WordShorter DEF KeyBefore
<1>6. Alters(KeyBefore, KeyAfter, f, RemoveAt(KeyBefore[f], i))
  BY <1>2, <1>3, PawnGone DEF KeyBefore, KeyAfter
<1>7. Promoted(MenFor(men, turn), MenFor(men', turn), f)
  <2>1. men \in [Colors -> Army] /\ Enemy = ColorOf(SNTM, turn)
    BY OwnIs
  <2>2. CASE men' = Gain(men, turn, new)
    <3>1. MenFor(men', turn) = Gain(MenFor(men, turn), STM, new)
      BY <1>2, <2>1, <2>2, MenForIs
    <3> QED
      BY <3>1 DEF Promoted
  <2>3. CASE \E role \in ToSet(Roles) : /\ Beside(s[1]) # {} /\ men[Enemy][role] > 0
                                        /\ men' = Gain(Lose(men, Enemy, role), turn, new)
    <3>1. PICK role \in ToSet(Roles) : /\ Beside(s[1]) # {} /\ men[Enemy][role] > 0
                                       /\ men' = Gain(Lose(men, Enemy, role), turn, new)
      BY <2>3
    <3> DEFINE rest == Lose(men, Enemy, role)
    <3>2. rest \in [Colors -> Army]
      BY <2>1, <3>1, OwnIs, MenChange
    <3>3. /\ role \in Held(MenFor(men, turn), SNTM)
          /\ MenFor(rest, turn) = Lose(MenFor(men, turn), SNTM, role)
      BY <1>2, <2>1, <3>1, MenForIs
    <3> HIDE DEF rest
    <3>4. MenFor(Gain(rest, turn, new), turn) = Gain(MenFor(rest, turn), STM, new)
      BY <1>2, <3>2, MenForIs
    <3>5. men' = Gain(rest, turn, new)
      BY <3>1 DEF rest
    <3>6. MenFor(men', turn) = Gain(Lose(MenFor(men, turn), SNTM, role), STM, new)
      BY <3>3, <3>4, <3>5
    <3> QED
      BY <3>1, <3>3, <3>6 DEF Promoted
  <2> QED
    BY <1>1, <2>2, <2>3
<1> HIDE DEF f, i
<1> QED
  BY <1>5, <1>6, <1>7 DEF MoveConverts, Converts, LeavesAsMan

\* A pawn takes a pawn on its square, or passing it.
LEMMA PawnTaken ==
  ASSUME PositionInv, NEW s \in Own, NEW t \in Foes, t[1] \in Beside(s[1]),
         NEW q \in 1 .. Slots,
         \/ q = t[2]
         \/ q # t[2] /\ OnWay(turn, q) = OnWay(turn, t[2]) + 1 /\ <<t[1], q>> \notin DOMAIN pawns,
         pawns' = Moved(s, {t}, <<t[1], q>>), men' = men
  PROVE  MoveConverts
<1> DEFINE f == s[1]
           i == PlaceIn(pawns, turn, s)
           g == t[1]
           r == t[2]
           j == PlaceIn(pawns, turn, t)
           to == <<g, q>>
           w == [KeyOfPosition(pawns, turn)[g] EXCEPT ![j] = STM]
<1>1. /\ turn \in Colors /\ OnBoard(pawns)
      /\ s \in DOMAIN pawns /\ pawns[s] = turn /\ s = <<f, s[2]>>
      /\ t \in DOMAIN pawns /\ pawns[t] # turn /\ t = <<g, r>>
      /\ g \in 1 .. Files /\ r \in 1 .. Slots /\ f \in 1 .. Files
  BY OwnIs
<1>2. g # f
  BY <1>1 DEF Beside
<1>3. /\ to \in DOMAIN pawns' /\ pawns'[to] = turn
      /\ \A x : x \in {s} \cup {t} /\ x # to => x \notin DOMAIN pawns'
      /\ \A x : x # s /\ x \notin {t} /\ x # to => Kept(pawns, pawns', x)
  <2> DEFINE taken == {t}
  <2>1. MovesTo(pawns, pawns', turn, s, taken, to)
    BY DEF Moved, MovesTo
  <2>2. s \in DOMAIN pawns
    BY <1>1
  <2> HIDE DEF to, taken
  <2>3. HasMoved(pawns, pawns', turn, s, taken, to)
    BY <2>1, <2>2, MovedSquares
  <2> QED
    BY <2>3 DEF taken, HasMoved
<1>4. /\ to[1] = g /\ t[1] = g /\ s # to /\ \A p : <<g, p>> # s
      /\ \A p : p # r => <<g, p>> # t
      /\ \A p : p # q => <<g, p>> # to
  BY <1>1, <1>2
<1>5. KeyOfPosition(pawns', turn)[g] = w
  <2>1. OnWay(turn, r) \in Nat /\ OnWay(turn, q) \in Nat
        /\ \A p \in 1 .. Slots : OnWay(turn, p) \in Nat
                                 /\ (OnWay(turn, p) = OnWay(turn, q) => p = q)
    <3>1. \A p \in 1 .. Slots : OnWay(turn, p) \in Nat /\ OnWay(turn, OnWay(turn, p)) = p
      BY OnWayIs
    <3> QED
      BY <1>1, <3>1
  <2>2. OnWay(turn, r) <= OnWay(turn, q)
    BY <2>1
  <2>3. <<g, r>> \in DOMAIN pawns /\ (q # r => <<g, r>> \notin DOMAIN pawns')
    <3>1. q # r => t # to
      BY <1>4, <1>1
    <3> QED
      BY <1>1, <1>3, <3>1
  <2>4. \A p \in 1 .. Slots : p # r /\ p # q => Kept(pawns, pawns', <<g, p>>)
    BY <1>3, <1>4
  <2>5. \A p \in 1 .. Slots : OnWay(turn, r) < OnWay(turn, p)
                              /\ OnWay(turn, p) <= OnWay(turn, q)
                                => <<g, p>> \notin DOMAIN pawns
    <3> SUFFICES ASSUME NEW p \in 1 .. Slots, OnWay(turn, r) < OnWay(turn, p),
                        OnWay(turn, p) <= OnWay(turn, q)
                 PROVE  <<g, p>> \notin DOMAIN pawns
      OBVIOUS
    <3>1. q # t[2]
      BY <2>1
    <3>2. OnWay(turn, q) = OnWay(turn, r) + 1 /\ <<g, q>> \notin DOMAIN pawns
      BY <3>1
    <3>3. OnWay(turn, p) = OnWay(turn, q)
      BY <2>1, <3>2
    <3> QED
      BY <2>1, <3>2, <3>3
  <2>6. <<g, q>> \in DOMAIN pawns' /\ pawns'[<<g, q>>] = turn
    BY <1>3
  <2>7. PlaceIn(pawns, turn, <<g, r>>) = j
    BY <1>1
  <2>a. g \in 1 .. Files /\ r \in 1 .. Slots /\ Stepped(pawns, pawns', turn, g, r, q)
    BY <1>1, <2>2, <2>3, <2>4, <2>5, <2>6 DEF Stepped
  <2> HIDE DEF g, r, j, to
  <2>8. Marked(KeyOfPosition(pawns, turn)[g], PlaceIn(pawns, turn, <<g, r>>),
               KeyOfPosition(pawns', turn)[g])
    BY <2>a, FileSteps
  <2> QED
    BY <2>7, <2>8 DEF Marked
<1>6. /\ j \in DOMAIN KeyOfPosition(pawns, turn)[g]
      /\ KeyOfPosition(pawns, turn)[g][j] = SNTM
  <2>1. <<g, r>> \in DOMAIN pawns /\ pawns[<<g, r>>] # turn
    BY <1>1
  <2>2. PlaceIn(pawns, turn, <<g, r>>) = j
    BY <1>1
  <2> HIDE DEF g, r, j
  <2>3. LET v == KeyOfPosition(pawns, turn)[g]
            k == PlaceIn(pawns, turn, <<g, r>>)
        IN /\ k \in DOMAIN v
           /\ v[k] = (IF pawns[<<g, r>>] = turn THEN STM ELSE SNTM)
           /\ OnWay(turn, r) = Slots => k = Len(v)
    BY <1>1, <2>1, LetterAt
  <2> QED
    BY <2>1, <2>2, <2>3
<1>7. LET key == KeyOfPosition(pawns, turn)
      IN /\ s[1] \in 1 .. Files
         /\ i \in DOMAIN key[s[1]]
         /\ key[s[1]][i] = (IF pawns[s] = turn THEN STM ELSE SNTM)
         /\ AltersTwo(key, KeyOfPosition(pawns', turn), s[1], RemoveAt(key[s[1]], i), g, w)
  <2>1. s \notin DOMAIN pawns'
    BY <1>3, <1>4
  <2>2. \A x \in (1 .. Files) \X (1 .. Slots) : x # s /\ x[1] # g => Kept(pawns, pawns', x)
    BY <1>3, <1>4
  <2>3. g \in 1 .. Files /\ g # s[1] /\ s \in DOMAIN pawns /\ OnBoard(pawns)
    BY <1>1, <1>2
  <2> HIDE DEF f, i, g, w
  <2>4. Crossed(pawns, pawns', s, g)
    BY <2>1, <2>2, <2>3 DEF Crossed
  <2> QED
    BY <1>5, <2>3, <2>4, PawnCrosses DEF i
<1>8. MenFor(men', turn) = MenFor(men, turn)
  OBVIOUS
<1> HIDE DEF i, j
<1> QED
  BY <1>1, <1>6, <1>7, <1>8 DEF MoveConverts, Converts, TakesPawn, KeyBefore, KeyAfter

\* It does so in both captures of a pawn by a pawn.
LEMMA PawnTakesPawnConverts ==
  ASSUME PositionInv, PawnTakesPawn \/ EnPassant PROVE MoveConverts
<1>1. CASE PawnTakesPawn
  <2>1. PICK s \in Own, t \in Foes :
          /\ t[1] \in Beside(s[1]) /\ t[2] = s[2] + Forward
          /\ pawns' = Moved(s, {t}, t) /\ men' = men
    BY <1>1 DEF PawnTakesPawn
  <2>2. t = <<t[1], t[2]>> /\ t[2] \in 1 .. Slots
    BY OwnIs
  <2>3. pawns' = Moved(s, {t}, <<t[1], t[2]>>)
    BY <2>1, <2>2
  <2> QED
    BY <2>1, <2>2, <2>3, PawnTaken
<1>2. CASE EnPassant
  <2>1. PICK s \in Own, t \in Foes :
          LET to == <<t[1], t[2] + Forward>>
          IN /\ t[1] \in Beside(s[1]) /\ t[2] = s[2] /\ t[2] + 2 * Forward = LastRank
             /\ {to, <<t[1], LastRank>>} \cap DOMAIN pawns = {}
             /\ pawns' = Moved(s, {t}, to) /\ men' = men
    BY <1>2 DEF EnPassant
  <2> DEFINE q == t[2] + Forward
  <2>2. t[2] \in 1 .. Slots /\ turn \in Colors
    BY OwnIs
  <2>3. q \in 1 .. Slots /\ q # t[2] /\ OnWay(turn, q) = OnWay(turn, t[2]) + 1
    <3>1. 1 \in 1 .. 2
      OBVIOUS
    <3> QED
      BY <2>1, <2>2, <3>1, ForwardIs
  <2>4. <<t[1], q>> \notin DOMAIN pawns
    BY <2>1
  <2>5. t[1] \in Beside(s[1]) /\ pawns' = Moved(s, {t}, <<t[1], q>>) /\ men' = men
    BY <2>1
  <2> HIDE DEF q
  <2> QED
    BY <2>3, <2>4, <2>5, PawnTaken
<1> QED
  BY <1>1, <1>2

\* A pawn takes a man.
LEMMA PawnTakesManConverts ==
  ASSUME PositionInv, PawnTakesMan PROVE MoveConverts
<1>1. PICK s \in Own, role \in ToSet(Roles), g \in 1 .. Files :
        LET to == <<g, s[2] + Forward>>
        IN /\ g \in Beside(s[1]) /\ to[2] \in 1 .. Slots /\ to \notin DOMAIN pawns
           /\ men[Enemy][role] > 0
           /\ men' = Lose(men, Enemy, role) /\ pawns' = Moved(s, {}, to)
  BY DEF PawnTakesMan
<1> DEFINE f == s[1]
           i == PlaceIn(pawns, turn, s)
           q == s[2] + Forward
           to == <<g, q>>
<1>2. /\ turn \in Colors /\ OnBoard(pawns)
      /\ s \in DOMAIN pawns /\ pawns[s] = turn /\ s = <<f, s[2]>>
      /\ q \in 1 .. Slots /\ to \notin DOMAIN pawns
      /\ men \in [Colors -> Army] /\ Enemy = ColorOf(SNTM, turn)
  BY <1>1, OwnIs
<1>3. g # f /\ \A p : <<g, p>> # s
  <2>1. g # f
    BY <1>1, OwnIs DEF Beside
  <2> QED
    BY <1>2, <2>1
<1>4. /\ to \in DOMAIN pawns' /\ pawns'[to] = turn
      /\ \A x : x \in {s} \cup {} /\ x # to => x \notin DOMAIN pawns'
      /\ \A x : x # s /\ x \notin {} /\ x # to => Kept(pawns, pawns', x)
  <2> DEFINE taken == {}
  <2>1. MovesTo(pawns, pawns', turn, s, taken, to)
    BY <1>1 DEF Moved, MovesTo
  <2>2. s \in DOMAIN pawns
    BY <1>2
  <2> HIDE DEF to, taken
  <2>3. HasMoved(pawns, pawns', turn, s, taken, to)
    BY <2>1, <2>2, MovedSquares
  <2> QED
    BY <2>3 DEF taken, HasMoved
<1>5. LET v == KeyOfPosition(pawns, turn)[g]
      IN /\ Len(v) < Slots
         /\ \E j \in 1 .. Len(v) + 1 : KeyOfPosition(pawns', turn)[g] = InsertAt(v, j, STM)
  <2>1. \A p \in 1 .. Slots : p # q => Kept(pawns, pawns', <<g, p>>)
    BY <1>3, <1>4
  <2>2. <<g, q>> \notin DOMAIN pawns /\ <<g, q>> \in DOMAIN pawns' /\ pawns'[<<g, q>>] = turn
    BY <1>2, <1>4
  <2>3. q \in 1 .. Slots
    BY <1>2
  <2> HIDE DEF to, q
  <2>4. Arrived(pawns, pawns', turn, g, q)
    BY <2>1, <2>2 DEF Arrived
  <2>5. Longer(KeyOfPosition(pawns, turn)[g], KeyOfPosition(pawns', turn)[g])
    BY <2>3, <2>4, FileGains
  <2> QED
    BY <2>5 DEF Longer
<1> DEFINE v == KeyOfPosition(pawns, turn)[g]
<1>6. PICK j \in 1 .. Len(v) + 1 : KeyOfPosition(pawns', turn)[g] = InsertAt(v, j, STM)
  BY <1>5
<1> DEFINE w == InsertAt(v, j, STM)
<1>7. LET key == KeyOfPosition(pawns, turn)
      IN /\ s[1] \in 1 .. Files
         /\ i \in DOMAIN key[s[1]]
         /\ key[s[1]][i] = (IF pawns[s] = turn THEN STM ELSE SNTM)
         /\ AltersTwo(key, KeyOfPosition(pawns', turn), s[1], RemoveAt(key[s[1]], i), g, w)
  <2>1. s \notin DOMAIN pawns'
    BY <1>3, <1>4
  <2>2. \A x \in (1 .. Files) \X (1 .. Slots) : x # s /\ x[1] # g => Kept(pawns, pawns', x)
    <3>1. to[1] = g
      OBVIOUS
    <3> QED
      BY <1>4, <3>1
  <2>3. g # s[1] /\ s \in DOMAIN pawns /\ OnBoard(pawns)
    BY <1>2, <1>3
  <2> HIDE DEF f, i, w
  <2>4. KeyOfPosition(pawns', turn)[g] = w
    BY <1>6 DEF w
  <2>5. Crossed(pawns, pawns', s, g)
    BY <2>1, <2>2, <2>3 DEF Crossed
  <2> QED
    BY <2>3, <2>4, <2>5, PawnCrosses DEF i
<1>8. role \in Held(MenFor(men, turn), SNTM)
      /\ MenFor(men', turn) = Lose(MenFor(men, turn), SNTM, role)
  BY <1>1, <1>2, MenForIs
<1> HIDE DEF i, q, to
<1>9. g \in Beside(f)
  BY <1>1
<1> QED
  BY <1>2, <1>5, <1>6, <1>7, <1>8, <1>9 DEF MoveConverts, Converts, TakesMan, KeyBefore, KeyAfter

\* The ranks before a pawn are those it goes to.
LEMMA AheadIs ==
  ASSUME turn \in Colors, NEW r \in 1 .. Slots, NEW p \in 1 .. Slots, NEW k \in 1 .. 2,
         OnWay(turn, p) = OnWay(turn, r) + k
  PROVE  p = r + k * Forward
<1>1. Slots \in Nat /\ r \in Nat /\ p \in Nat /\ (k = 1 \/ k = 2)
  BY NamesAssumption
<1>2. CASE turn = "white"
  <2>1. Forward = 1 /\ \A q : OnWay(turn, q) = q
    BY <1>2 DEF Forward, OnWay
  <2> QED
    BY <1>1, <2>1
<1>3. CASE turn = "black"
  <2>1. Forward = -1 /\ \A q : OnWay(turn, q) = Slots + 1 - q
    BY <1>3 DEF Forward, OnWay
  <2> QED
    BY <1>1, <2>1
<1> QED
  BY <1>2, <1>3 DEF Colors

\* A pawn that goes forwards leaves the key as it was.
LEMMA PushKeeps ==
  ASSUME PositionInv, Push PROVE KeyAfter = KeyBefore
<1>1. PICK s \in Own, n \in 1 .. 2 :
        LET path == {<<s[1], s[2] + k * Forward>> : k \in 1 .. n}
            to == <<s[1], s[2] + n * Forward>>
        IN /\ path \cap DOMAIN pawns = {} /\ to[2] \in 1 .. Slots
           /\ pawns' = Moved(s, {}, to)
  BY DEF Push
<1> DEFINE g == s[1]
           r == s[2]
           q == r + n * Forward
           to == <<g, q>>
           j == PlaceIn(pawns, turn, s)
<1>2. /\ turn \in Colors /\ s \in DOMAIN pawns /\ pawns[s] = turn /\ s = <<g, r>>
      /\ g \in 1 .. Files /\ r \in 1 .. Slots
  BY OwnIs
<1>3. q \in 1 .. Slots /\ \A k \in 1 .. n : <<g, r + k * Forward>> \notin DOMAIN pawns
  BY <1>1
<1>4. HasMoved(pawns, pawns', turn, s, {}, to)
  <2> DEFINE taken == {}
  <2>1. MovesTo(pawns, pawns', turn, s, taken, to)
    BY <1>1 DEF Moved, MovesTo
  <2> HIDE DEF to, taken
  <2>2. HasMoved(pawns, pawns', turn, s, taken, to)
    BY <1>2, <2>1, MovedSquares
  <2> QED
    BY <2>2 DEF taken
<1>5. /\ to \in DOMAIN pawns' /\ pawns'[to] = turn
      /\ (s # to => s \notin DOMAIN pawns')
      /\ \A x : x # s /\ x # to => Kept(pawns, pawns', x)
  <2> HIDE DEF to
  <2> QED
    BY <1>4 DEF HasMoved
<1>6. OnWay(turn, q) = OnWay(turn, r) + n
  <2> HIDE DEF g, r
  <2> QED
    BY <1>2, <1>3, ForwardIs
<1>7. Stepped(pawns, pawns', turn, g, r, q)
  <2>1. OnWay(turn, r) \in Nat /\ OnWay(turn, q) \in Nat /\ n \in Nat
        /\ \A p \in 1 .. Slots : OnWay(turn, p) \in Nat
    <3>1. \A p \in 1 .. Slots : OnWay(turn, p) \in Nat
      BY OnWayIs
    <3>2. n \in Nat
      OBVIOUS
    <3> QED
      BY <1>2, <1>3, <3>1, <3>2
  <2>2. OnWay(turn, r) <= OnWay(turn, q)
    BY <1>6, <2>1
  <2>3. <<g, r>> \in DOMAIN pawns /\ (q # r => <<g, r>> \notin DOMAIN pawns')
    <3>1. q # r => s # to
      BY <1>2
    <3> QED
      BY <1>2, <1>5, <3>1
  <2>4. \A p \in 1 .. Slots : p # r /\ p # q => Kept(pawns, pawns', <<g, p>>)
    <3>1. \A p : p # r => <<g, p>> # s
      BY <1>2
    <3>2. \A p : p # q => <<g, p>> # to
      OBVIOUS
    <3> QED
      BY <1>5, <3>1, <3>2
  <2>5. ASSUME NEW p \in 1 .. Slots, OnWay(turn, r) < OnWay(turn, p),
               OnWay(turn, p) <= OnWay(turn, q)
        PROVE  <<g, p>> \notin DOMAIN pawns
    <3> DEFINE k == OnWay(turn, p) - OnWay(turn, r)
    <3>1. OnWay(turn, p) \in Nat
      BY <2>1
    <3>2. k \in 1 .. n /\ k \in 1 .. 2 /\ OnWay(turn, p) = OnWay(turn, r) + k
      <4> HIDE DEF q, r
      <4> QED
        BY <1>6, <2>1, <2>5, <3>1
    <3>3. p = r + k * Forward
      <4> HIDE DEF k, r
      <4> QED
        BY <1>2, <3>2, AheadIs
    <3> HIDE DEF k
    <3> QED
      BY <1>3, <3>2, <3>3
  <2>6. <<g, q>> \in DOMAIN pawns' /\ pawns'[<<g, q>>] = turn
    BY <1>5
  <2> HIDE DEF g, r, q, to
  <2> QED
    BY <2>2, <2>3, <2>4, <2>5, <2>6 DEF Stepped
<1>8. PlaceIn(pawns, turn, <<g, r>>) = j /\ <<g, r>> \in DOMAIN pawns /\ pawns[<<g, r>>] = turn
  BY <1>2
<1>9. Marked(KeyBefore[g], j, KeyAfter[g])
  <2> HIDE DEF g, r, q, j
  <2>1. Marked(KeyOfPosition(pawns, turn)[g], PlaceIn(pawns, turn, <<g, r>>),
               KeyOfPosition(pawns', turn)[g])
    BY <1>2, <1>3, <1>7, FileSteps
  <2> QED
    BY <1>8, <2>1 DEF KeyBefore, KeyAfter
<1>10. j \in DOMAIN KeyBefore[g] /\ KeyBefore[g][j] = STM
  <2> HIDE DEF g, r, j
  <2>1. LET v == KeyOfPosition(pawns, turn)[g]
            k == PlaceIn(pawns, turn, <<g, r>>)
        IN /\ k \in DOMAIN v
           /\ v[k] = (IF pawns[<<g, r>>] = turn THEN STM ELSE SNTM)
           /\ OnWay(turn, r) = Slots => k = Len(v)
    BY <1>2, <1>8, LetterAt
  <2> QED
    BY <1>8, <2>1 DEF KeyBefore
<1>11. KeyBefore \in Layout /\ KeyAfter \in Layout
  BY KeyIs DEF KeyBefore, KeyAfter
<1>12. KeyAfter[g] = KeyBefore[g]
  <2> DEFINE w == KeyBefore[g]
  <2>1. w \in Seq(Sides)
    BY <1>2, <1>11, LayoutWords
  <2>2. w = [k \in 1 .. Len(w) |-> w[k]]
    BY <2>1
  <2>3. KeyAfter[g] = [w EXCEPT ![j] = STM]
    BY <1>9 DEF Marked
  <2> HIDE DEF w, j
  <2>4. [w EXCEPT ![j] = STM] = w
    BY <1>10, <2>1, <2>2 DEF w
  <2> QED
    BY <2>3, <2>4 DEF w
<1>13. ASSUME NEW f \in 1 .. Files, f # g PROVE KeyAfter[f] = KeyBefore[f]
  <2>1. ASSUME NEW x \in (1 .. Files) \X (1 .. Slots), x[1] = f PROVE Kept(pawns, pawns', x)
    <3>1. x # s /\ x # to
      BY <1>13, <2>1
    <3> QED
      BY <1>5, <3>1
  <2> QED
    BY <2>1, WordsKept DEF KeyAfter, KeyBefore
<1> QED
  BY <1>11, <1>12, <1>13, KeysAlike

-------------------------------------------------------------------------------
(* Moves follow the tables.                                                 *)

\* The table of a position has as many pawns and pieces.
LEMMA PositionTable ==
  ASSUME NEW squares, Placed(squares), NEW any \in [Colors -> Army], NEW color \in Colors,
         Cardinality(DOMAIN squares) + 2 + Total(any) <= MaxPieces,
         NEW files, files = canonicalized(KeyOfPosition(squares, color)).files,
         NEW name, name = format_name(files, MenFor(any, color))
  PROVE  /\ TableOf(name, files, MenFor(any, color)) /\ IsTable(name)
         /\ PieceTotal(files, MenFor(any, color)) <= MaxPieces
         /\ n_pawns(name) = Cardinality(DOMAIN squares)
         /\ n_pieces(name) = Cardinality(DOMAIN squares) + 2 + Total(any)
<1> DEFINE key == KeyOfPosition(squares, color)
           m == MenFor(any, color)
<1>1. OnBoard(squares) /\ key \in Layout /\ m \in Armies
  BY KeyIs, MenForIs DEF Placed
<1>2. /\ m[STM] = any[color] /\ m[SNTM] = any[ColorOf(SNTM, color)]
      /\ MenOf(any["white"]) \in Nat /\ MenOf(any["black"]) \in Nat
      /\ Cardinality(DOMAIN squares) \in Nat
  BY MenForIs, PiecesCounted
<1>3. MenOf(m[STM]) + MenOf(m[SNTM]) = Total(any) /\ Total(any) \in Nat
  <2> HIDE DEF m
  <2>1. CASE color = "white"
    BY <2>1, <1>2, ColorsAre DEF Total
  <2>2. CASE color = "black"
    BY <2>2, <1>2, ColorsAre DEF Total
  <2> QED
    BY <2>1, <2>2 DEF Colors
<1>4. PawnTotal(key) = Cardinality(DOMAIN squares)
  BY <1>1, KeyCounts DEF PawnTotal
<1> HIDE DEF key, m
<1>5. /\ files \in Layout /\ files \in {key, Reverse(key)}
      /\ canonicalized(files) = [files |-> files, reflected |-> FALSE]
  BY <1>1, CanonicalOrientation DEF key
<1>6. PawnTotal(files) = Cardinality(DOMAIN squares)
  BY <1>1, <1>4, <1>5, TwinKeyTwice
<1>7. MenOf(m[STM]) \in Nat /\ MenOf(m[SNTM]) \in Nat
  <2>1. m[STM] \in Army /\ m[SNTM] \in Army
    BY <1>1, SidesAre DEF Armies, Army
  <2> QED
    BY <2>1, MenCounted
<1>8. PieceTotal(files, m) = Cardinality(DOMAIN squares) + 2 + Total(any)
  <2> DEFINE a == MenOf(m[STM])
             b == MenOf(m[SNTM])
             c == Cardinality(DOMAIN squares)
  <2>1. PieceTotal(files, m) = 2 + a + b + c
    BY <1>6 DEF PieceTotal
  <2>2. a \in Nat /\ b \in Nat /\ c \in Nat /\ a + b = Total(any)
    BY <1>2, <1>3, <1>7
  <2> HIDE DEF a, b, c
  <2>3. PieceTotal(files, m) = c + 2 + Total(any)
    BY <2>1, <2>2
  <2> QED
    BY <2>3 DEF c
<1>9. name = format_name(files, m)
  BY DEF m
<1>10. n_pawns(name) = PawnTotal(files) /\ n_pieces(name) = PieceTotal(files, m)
       /\ (validate_elements(Elements(files, m)) <=> PieceTotal(files, m) <= MaxPieces)
  BY <1>1, <1>5, <1>9, NameCounts
<1>11. PieceTotal(files, m) <= MaxPieces
  BY <1>8
<1>12. TableOf(name, files, m)
  <2>1. canonicalized(files).reflected = FALSE
    BY <1>5
  <2> QED
    BY <2>1, <1>1, <1>5, <1>9, <1>10, <1>11 DEF TableOf
<1>13. IsTable(name)
  BY <1>1, <1>5, <1>12 DEF IsTable
<1> QED
  BY <1>6, <1>8, <1>10, <1>11, <1>12, <1>13 DEF m

\* A move that keeps pawns and men, or changes them.
LEMMA MoveChanges ==
  ASSUME PositionInv, GameNext
  PROVE  /\ Played
         /\ \/ Quiet /\ KeyAfter = KeyBefore /\ men' = men
            \/ Conversion /\ MoveConverts
<1>1. Played
  BY DEF GameNext, Quiet, Conversion, QuietMan, Push, ManTakesMan, ManTakesPawn, PawnTakesPawn,
         EnPassant, PawnTakesMan, Promote
<1>2. CASE QuietMan
  <2>1. pawns' = pawns /\ men' = men
    BY <1>2 DEF QuietMan
  <2>2. KeyAfter = KeyBefore
    BY <2>1 DEF KeyAfter, KeyBefore
  <2> QED
    BY <1>1, <1>2, <2>1, <2>2 DEF Quiet
<1>3. CASE Push
  <2>1. men' = men
    BY <1>3 DEF Push
  <2> QED
    BY <1>1, <1>3, <2>1, PushKeeps DEF Quiet
<1>4. CASE Conversion
  <2>1. MoveConverts
    BY <1>4, ManTakesManConverts, ManTakesPawnConverts, PawnTakesPawnConverts,
       PawnTakesManConverts, PromoteConverts DEF Conversion
  <2> QED
    BY <1>1, <1>4, <2>1
<1> QED
  BY <1>2, <1>3, <1>4 DEF GameNext, Quiet

\* The table after a move, by what the side that moved sees.
LEMMA TableAfter ==
  ASSUME PositionInv, GameNext
  PROVE  /\ Placed(pawns') /\ men' \in [Colors -> Army] /\ turn' \in Colors
         /\ Count' <= MaxPieces
         /\ KeyAfter \in Layout /\ MenFor(men', turn) \in Armies
         /\ table'.id = Seen(KeyAfter, MenFor(men', turn))
         /\ table'.reflected = canonicalized(TwinKey(KeyAfter)).reflected
         /\ table'.id = format_name(canonicalized(KeyOfPosition(pawns', turn')).files,
                                    MenFor(men', turn'))
<1>1. /\ Placed(pawns') /\ men' \in [Colors -> Army] /\ turn' \in Colors
      /\ Count' <= MaxPieces
  <2>1. PositionInv'
    BY NextPlaced
  <2> QED
    BY <2>1 DEF PositionInv, Placed, OnBoard
<1>2. turn \in Colors /\ Enemy = ColorOf(SNTM, turn)
  BY OwnIs
<1>3. turn' = Enemy /\ table' = position_table_name(pawns', men', turn')
  BY MoveChanges DEF Played
<1>4. KeyOfPosition(pawns', turn') = TwinKey(KeyAfter)
  BY <1>1, <1>2, <1>3, KeyTurned DEF KeyAfter
<1>5. MenFor(men', turn') = Exchanged(MenFor(men', turn)) /\ MenFor(men', turn) \in Armies
  BY <1>1, <1>2, <1>3, MenForIs
<1>6. KeyAfter \in Layout
  BY KeyIs DEF KeyAfter
<1>7. /\ table'.id = format_name(canonicalized(KeyOfPosition(pawns', turn')).files,
                                 MenFor(men', turn'))
      /\ table'.reflected = canonicalized(KeyOfPosition(pawns', turn')).reflected
  BY <1>3 DEF position_table_name, MenFor
<1>8. Seen(KeyAfter, MenFor(men', turn))
        = format_name(canonicalized(TwinKey(KeyAfter)).files, Exchanged(MenFor(men', turn)))
  BY <1>5, <1>6, SeenIs
<1> QED
  BY <1>1, <1>4, <1>5, <1>6, <1>7, <1>8

\* The tables before and after a move are tables, as large as the positions.
LEMMA TablesOfMove ==
  ASSUME PositionInv, GameNext
  PROVE  /\ KeyBefore \in Layout /\ MenFor(men, turn) \in Armies
         /\ table.id = format_name(canonicalized(KeyBefore).files, MenFor(men, turn))
         /\ table.reflected = canonicalized(KeyBefore).reflected
         /\ TableOf(table.id, canonicalized(KeyBefore).files, MenFor(men, turn))
         /\ PieceTotal(canonicalized(KeyBefore).files, MenFor(men, turn)) <= MaxPieces
         /\ IsTable(table.id) /\ IsTable(table'.id)
         /\ n_pieces(table.id) = Count /\ n_pieces(table'.id) = Count'
         /\ n_pawns(table.id) = Cardinality(DOMAIN pawns)
         /\ n_pawns(table'.id) = Cardinality(DOMAIN pawns')
<1>1. /\ Placed(pawns) /\ men \in [Colors -> Army] /\ turn \in Colors /\ Count <= MaxPieces
      /\ table = position_table_name(pawns, men, turn)
  BY DEF PositionInv
<1>2. /\ Placed(pawns') /\ men' \in [Colors -> Army] /\ turn' \in Colors /\ Count' <= MaxPieces
      /\ table'.id = format_name(canonicalized(KeyOfPosition(pawns', turn')).files,
                                 MenFor(men', turn'))
  BY TableAfter
<1>3. /\ table.id = format_name(canonicalized(KeyBefore).files, MenFor(men, turn))
      /\ table.reflected = canonicalized(KeyBefore).reflected
  BY <1>1 DEF position_table_name, MenFor, KeyBefore
<1>4. KeyBefore \in Layout /\ MenFor(men, turn) \in Armies
  BY <1>1, KeyIs, MenForIs DEF KeyBefore
<1>5. Count = Cardinality(DOMAIN pawns) + 2 + Total(men)
  <2>1. /\ Cardinality(DOMAIN pawns) \in Nat
        /\ MenOf(men["white"]) \in Nat /\ MenOf(men["black"]) \in Nat
    BY <1>1, PiecesCounted
  <2> QED
    BY <2>1 DEF Count, Total
<1>6. Count' = Cardinality(DOMAIN pawns') + 2 + Total(men')
  <2>1. /\ Cardinality(DOMAIN pawns') \in Nat
        /\ MenOf(men'["white"]) \in Nat /\ MenOf(men'["black"]) \in Nat
    BY <1>2, PiecesCounted
  <2> QED
    BY <2>1 DEF Count, Total
<1> DEFINE files == canonicalized(KeyBefore).files
           name == table.id
           later == canonicalized(KeyOfPosition(pawns', turn')).files
           next == table'.id
<1>7. /\ files = canonicalized(KeyOfPosition(pawns, turn)).files
      /\ later = canonicalized(KeyOfPosition(pawns', turn')).files
      /\ name = format_name(files, MenFor(men, turn))
      /\ next = format_name(later, MenFor(men', turn'))
  BY <1>2, <1>3 DEF KeyBefore
<1>8. Cardinality(DOMAIN pawns) + 2 + Total(men) <= MaxPieces
      /\ Cardinality(DOMAIN pawns') + 2 + Total(men') <= MaxPieces
  BY <1>1, <1>2, <1>5, <1>6
<1> HIDE DEF files, name, later, next
<1>9. /\ TableOf(name, files, MenFor(men, turn)) /\ IsTable(name)
      /\ PieceTotal(files, MenFor(men, turn)) <= MaxPieces
      /\ n_pawns(name) = Cardinality(DOMAIN pawns)
      /\ n_pieces(name) = Cardinality(DOMAIN pawns) + 2 + Total(men)
  BY <1>1, <1>7, <1>8, PositionTable
<1>10. /\ IsTable(next)
       /\ n_pawns(next) = Cardinality(DOMAIN pawns')
       /\ n_pieces(next) = Cardinality(DOMAIN pawns') + 2 + Total(men')
  BY <1>2, <1>7, <1>8, PositionTable
<1> QED
  BY <1>3, <1>4, <1>5, <1>6, <1>9, <1>10 DEF files, name, next

\* A quiet move leads to the twin, reflected as the twin says.
LEMMA QuietFollows ==
  ASSUME PositionInv, GameNext, KeyAfter = KeyBefore, men' = men
  PROVE  /\ Count' = Count /\ Cardinality(DOMAIN pawns') = Cardinality(DOMAIN pawns)
         /\ table'.id = twin(table.id).id /\ twin(twin(table.id).id).id = table.id
         /\ table'.reflected = (table.reflected # twin(table.id).reflected)
<1> DEFINE key == KeyBefore
           m == MenFor(men, turn)
           name == table.id
<1>1. /\ key \in Layout /\ m \in Armies
      /\ name = format_name(canonicalized(key).files, m)
      /\ PieceTotal(canonicalized(key).files, m) <= MaxPieces
      /\ table.reflected = canonicalized(key).reflected
  BY TablesOfMove
<1>2. table'.id = Seen(key, m) /\ table'.reflected = canonicalized(TwinKey(key)).reflected
  BY TableAfter
<1> HIDE DEF key, m, name
<1>3. /\ IsTable(name)
      /\ Seen(key, m) = twin(name).id
      /\ canonicalized(TwinKey(key)).reflected
           = (canonicalized(key).reflected # twin(name).reflected)
  BY <1>1, SeenByTwin
<1>4. twin(twin(name).id).id = name
  BY <1>3, TwinTwice
<1>5. Cardinality(DOMAIN pawns') = Cardinality(DOMAIN pawns)
  <2>1. OnBoard(pawns) /\ OnBoard(pawns')
    <3>1. Placed(pawns')
      BY TableAfter
    <3> QED
      BY <3>1, OwnIs DEF Placed
  <2>2. /\ PawnsOf(KeyBefore, STM) + PawnsOf(KeyBefore, SNTM) = Cardinality(DOMAIN pawns)
        /\ PawnsOf(KeyAfter, STM) + PawnsOf(KeyAfter, SNTM) = Cardinality(DOMAIN pawns')
    BY <2>1, KeyCounts DEF KeyBefore, KeyAfter
  <2> QED
    BY <2>2
<1>6. Count' = Count
  BY <1>5 DEF Count
<1> QED
  BY <1>1, <1>2, <1>3, <1>4, <1>5, <1>6 DEF name

\* A smaller table is before the other.
LEMMA SmallerBefore ==
  ASSUME NEW name, IsTable(name), NEW other, IsTable(other), Smaller(other, name)
  PROVE  Before(other, name)
<1>1. Precedes(TableKey(other), TableKey(name))
  BY SmallerPrecedes
<1> QED
  BY <1>1 DEF Before

\* A table and its twin are before another pair.
PairBefore(other, name) ==
  \A t \in {name, twin(name).id}, u \in {other, twin(other).id} : Before(u, t)

\* Pairs are in the order of their sizes.
LEMMA SizesInOrder ==
  ASSUME NEW name, IsTable(name), NEW other, IsTable(other), Smaller(other, name)
  PROVE  PairBefore(other, name)
<1>1. /\ IsTable(twin(name).id) /\ IsTable(twin(other).id)
      /\ n_pieces(twin(name).id) = n_pieces(name) /\ n_pawns(twin(name).id) = n_pawns(name)
      /\ n_pieces(twin(other).id) = n_pieces(other) /\ n_pawns(twin(other).id) = n_pawns(other)
  BY TwinTwice, TwinCounts
<1>2. ASSUME NEW t \in {name, twin(name).id}, NEW u \in {other, twin(other).id}
      PROVE  Before(u, t)
  <2>1. /\ IsTable(t) /\ n_pieces(t) = n_pieces(name) /\ n_pawns(t) = n_pawns(name)
        /\ IsTable(u) /\ n_pieces(u) = n_pieces(other) /\ n_pawns(u) = n_pawns(other)
    BY <1>1
  <2>2. Smaller(u, t)
    BY <2>1 DEF Smaller
  <2> QED
    BY <2>1, <2>2, SmallerBefore
<1> QED
  BY <1>2 DEF PairBefore

\* A capture or a promotion leads to a conversion, which is before both tables.
LEMMA ConversionFollows ==
  ASSUME PositionInv, GameNext, MoveConverts
  PROVE  /\ ~ (Count' = Count /\ Cardinality(DOMAIN pawns') = Cardinality(DOMAIN pawns))
         /\ table'.id \in ConversionsOf(table.id)
         /\ \A t \in {table.id, twin(table.id).id}, u \in {table'.id, twin(table'.id).id} :
              Before(u, t)
<1> DEFINE key == KeyBefore
           left == KeyAfter
           m == MenFor(men, turn)
           kept == MenFor(men', turn)
           files == canonicalized(key).files
           name == table.id
           next == table'.id
<1>1. /\ key \in Layout /\ TableOf(name, files, m)
      /\ IsTable(name) /\ IsTable(next)
      /\ n_pieces(name) = Count /\ n_pieces(next) = Count'
      /\ n_pawns(name) = Cardinality(DOMAIN pawns) /\ n_pawns(next) = Cardinality(DOMAIN pawns')
  BY TablesOfMove
<1>2. left \in Layout /\ next = Seen(left, kept)
  BY TableAfter
<1>3. Converts(key, m, left, kept)
  BY DEF MoveConverts
<1> HIDE DEF key, left, m, kept, name, next
<1>4. files \in {key, Reverse(key)}
  BY <1>1, CanonicalOrientation
<1>5. parse_elements(name).files = files /\ parse_elements(name).men = m
  BY <1>1, TableParsed
<1> HIDE DEF files
<1>6. next \in ConvertedFrom(files, m)
  BY <1>1, <1>2, <1>3, <1>4, ConvertsEither
<1>7. next \in ConversionsOf(name)
  BY <1>5, <1>6 DEF ConversionsOf, ConvertedFrom
<1>8. Smaller(next, name)
  BY <1>1, <1>7, ConversionsSmaller
<1>9. ~ (Count' = Count /\ Cardinality(DOMAIN pawns') = Cardinality(DOMAIN pawns))
  <2>1. ~ (n_pieces(next) = n_pieces(name) /\ n_pawns(next) = n_pawns(name))
    BY <1>8 DEF Smaller
  <2> QED
    BY <1>1, <2>1
<1>10. PairBefore(next, name)
  <2>1. IsTable(name) /\ IsTable(next)
    BY <1>1
  <2> QED
    BY <1>8, <2>1, SizesInOrder
<1> QED
  BY <1>7, <1>9, <1>10 DEF name, next, PairBefore

\* What MovesFollowTables says of a move.
MoveFollows ==
  LET own == twin(table.id)
      same == Count' = Count /\ Cardinality(DOMAIN pawns') = Cardinality(DOMAIN pawns)
  IN IF same
     THEN /\ table'.id = own.id /\ twin(own.id).id = table.id
          /\ table'.reflected = (table.reflected # own.reflected)
     ELSE /\ table'.id \in ConversionsOf(table.id)
          /\ \A t \in {table.id, own.id}, u \in {table'.id, twin(table'.id).id} : Before(u, t)

\* In every game a quiet move leads from a table to its twin, reflected as the twin says,
\* and a capture or a promotion to one of its conversions, which is before both tables in
\* the order of generation (TableId::twin, RetrogradeSolver, TableId's Ord).
THEOREM MovesFollow == GameSpec => MovesFollowTables
<1>1. PositionInv /\ [GameNext]_gamevars => [MoveFollows]_gamevars
  <2> SUFFICES ASSUME PositionInv, GameNext PROVE MoveFollows
    OBVIOUS
  <2>1. CASE KeyAfter = KeyBefore /\ men' = men
    BY <2>1, QuietFollows DEF MoveFollows
  <2>2. CASE MoveConverts
    BY <2>2, ConversionFollows DEF MoveFollows
  <2> QED
    BY <2>1, <2>2, MoveChanges
<1>2. MovesFollowTables <=> [][MoveFollows]_gamevars
  BY PTL DEF MovesFollowTables, MoveFollows
<1> QED
  BY <1>1, <1>2, PositionInvariant, PTL DEF GameSpec

-------------------------------------------------------------------------------
(* The order of names.                                                      *)

\* So are the pairs of a plan in order.
LEMMA PairsOrdered ==
  ASSUME NEW plan, PlanInOrder(plan), NEW p \in plan, NEW q \in plan, NEW r \in plan
  PROVE  /\ ~ Before(p[1], p[1])
         /\ Before(p[1], q[1]) /\ Before(q[1], r[1]) => Before(p[1], r[1])
         /\ p = q \/ Before(p[1], q[1]) \/ Before(q[1], p[1])
<1> DEFINE k(x) == TableKey(x[1])
           e(x) == ElementsKey(x[1])
           before(x, y) == Precedes(k(x), k(y)) \/ (k(x) = k(y) /\ Precedes(e(x), e(y)))
<1>1. /\ k(p) \in Seq(Nat) /\ k(q) \in Seq(Nat) /\ k(r) \in Seq(Nat)
      /\ e(p) \in Seq(Nat) /\ e(q) \in Seq(Nat) /\ e(r) \in Seq(Nat)
      /\ p # q => k(p) # k(q) \/ e(p) # e(q)
  BY DEF PlanInOrder
<1>2. \A x, y : Before(x[1], y[1]) <=> before(x, y)
  BY DEF Before
<1> HIDE DEF k, e
<1>3. ~ before(p, p)
  BY <1>1, PrecedesOrders
<1>4. ASSUME before(p, q), before(q, r) PROVE before(p, r)
  <2>1. CASE Precedes(k(p), k(q)) /\ Precedes(k(q), k(r))
    BY <2>1, <1>1, PrecedesOrders
  <2>2. CASE Precedes(k(p), k(q)) /\ k(q) = k(r)
    BY <2>2
  <2>3. CASE k(p) = k(q) /\ Precedes(k(q), k(r))
    BY <2>3
  <2>4. CASE k(p) = k(q) /\ k(q) = k(r) /\ Precedes(e(p), e(q)) /\ Precedes(e(q), e(r))
    <3>1. Precedes(e(p), e(r))
      BY <2>4, <1>1, PrecedesOrders
    <3> QED
      BY <3>1, <2>4
  <2> QED
    BY <2>1, <2>2, <2>3, <2>4, <1>4
<1>5. p = q \/ before(p, q) \/ before(q, p)
  <2>1. k(p) = k(q) \/ Precedes(k(p), k(q)) \/ Precedes(k(q), k(p))
    BY <1>1, PrecedesOrders
  <2>2. e(p) = e(q) \/ Precedes(e(p), e(q)) \/ Precedes(e(q), e(p))
    BY <1>1, PrecedesOrders
  <2> QED
    BY <2>1, <2>2, <1>1
<1> HIDE DEF before
<1> QED
  BY <1>2, <1>3, <1>4, <1>5

\* Among the pairs left one comes first.
LEMMA FirstPair ==
  ASSUME NEW plan, PlanInOrder(plan), NEW left, left \subseteq plan, left # {}
  PROVE  \E p \in left : \A q \in left \ {p} : Before(p[1], q[1])
<1> DEFINE Earlier(p) == {q \in left : Before(q[1], p[1])}
           C == {Earlier(p) : p \in left}
<1>1. IsFiniteSet(left)
  BY FS_Subset DEF PlanInOrder
<1>2. C \subseteq SUBSET left /\ C # {}
  OBVIOUS
<1>3. PICK T \in C : \A U \in C : ~ (U \subseteq T /\ U # T)
  <2> HIDE DEF C
  <2> QED
    BY <1>1, <1>2, MinimalSet
<1>4. PICK p \in left : T = Earlier(p)
  BY <1>3
<1>5. ASSUME NEW q \in Earlier(p) PROVE FALSE
  <2>1. q \in left /\ q \in plan /\ p \in plan /\ Before(q[1], p[1])
    BY <1>5
  <2>2. Earlier(q) \subseteq Earlier(p)
    <3>1. \A r \in left : Before(r[1], q[1]) => Before(r[1], p[1])
      BY <2>1, PairsOrdered
    <3> QED
      BY <3>1
  <2>3. q \notin Earlier(q)
    BY <2>1, PairsOrdered
  <2>4. Earlier(q) \in C
    BY <2>1
  <2>5. Earlier(q) # Earlier(p)
    BY <1>5, <2>3
  <2> HIDE DEF C, Earlier
  <2> QED
    BY <1>3, <1>4, <2>2, <2>4, <2>5
<1>6. \A q \in left \ {p} : Before(p[1], q[1])
  <2>1. ASSUME NEW q \in left \ {p} PROVE Before(p[1], q[1])
    <3>1. p \in plan /\ q \in plan /\ ~ Before(q[1], p[1])
      BY <1>5
    <3> QED
      BY <3>1, PairsOrdered
  <2> QED
    BY <2>1
<1> QED
  BY <1>6

-------------------------------------------------------------------------------
(* Verification.                                                            *)

\* An opened reader is the cached one of its name, or what a lookup finds.
LEMMA OpenedIs ==
  ASSUME NEW names, NEW r \in Opened(names)
  PROVE  \E name \in names :
           /\ r.name = name
           /\ \/ r \in cached
              \/ Named(name) = {} /\ r = [name |-> name, source |-> Lookup(name)]
<1>1. PICK name \in names :
        r = IF Named(name) # {} THEN CHOOSE x \in Named(name) : TRUE
            ELSE [name |-> name, source |-> Lookup(name)]
  BY DEF Opened
<1>2. CASE Named(name) = {}
  BY <1>1, <1>2
<1>3. CASE Named(name) # {}
  <2>1. r \in Named(name)
    BY <1>1, <1>3
  <2> QED
    BY <2>1 DEF Named
<1> QED
  BY <1>2, <1>3

\* While a pair is verified its tables are pinned, and no other reader has their names;
\* what its verification has read of them are those.
PinInv ==
  /\ stage = "verify" =>
       /\ Pinned \subseteq cached
       /\ \A r \in cached : r.name \in Range(pair) => r.source = "new"
  /\ \A r \in readings : r.by = "verifier" /\ r.name \in Range(pair) => r.source = "new"

\* A reader opened for the verification of a pinned table is its pin.
LEMMA OpenedIsPin ==
  ASSUME PinInv, stage = "verify", NEW names, NEW r \in Opened(names), r.name \in Range(pair)
  PROVE  r.source = "new"
<1>1. PICK name \in names :
        /\ r.name = name
        /\ r \in cached \/ (Named(name) = {} /\ r = [name |-> name, source |-> Lookup(name)])
  BY OpenedIs
<1>2. [name |-> name, source |-> "new"] \in Pinned
  BY <1>1 DEF Pinned
<1>3. Named(name) # {}
  BY <1>2 DEF PinInv, Named
<1> QED
  BY <1>1, <1>3 DEF PinInv

\* Every step keeps that.
LEMMA PinInvStep ==
  ASSUME PinInv, [Next \/ Ended]_vars PROVE PinInv'
<1>1. CASE Start
  BY <1>1 DEF Start, PinInv
<1>2. CASE TakePair
  BY <1>2 DEF TakePair, PinInv
<1>3. CASE Solve
  <2>1. stage' # "verify" /\ pair' = pair
    BY <1>3 DEF Solve
  <2>2. ASSUME NEW r \in readings'
        PROVE  r \in readings \/ r.by = "solver"
    BY <1>3 DEF Solve, Read
  <2> QED
    BY <2>1, <2>2 DEF PinInv
<1>4. CASE Publish
  BY <1>4 DEF Publish, PinInv
<1>5. CASE Pin
  <2>1. pair' = pair /\ readings' = readings
    BY <1>5 DEF Pin
  <2>2. stage' = "verify" =>
          cached' = {r \in cached : r.name \notin Range(pair)} \cup Pinned
    BY <1>5 DEF Pin
  <2>3. Pinned' = Pinned /\ \A r \in Pinned : r.source = "new"
    BY <2>1 DEF Pinned
  <2>4. \A r \in {x \in cached : x.name \notin Range(pair)} \cup Pinned :
          r.name \in Range(pair) => r.source = "new"
    BY <2>3
  <2> QED
    BY <2>1, <2>2, <2>3, <2>4 DEF PinInv
<1>6. CASE Verify
  <2>1. stage = "verify" /\ pair' = pair /\ Pinned' = Pinned
    BY <1>6 DEF Verify, Pinned
  <2>2. \/ cached' = cached /\ readings' = readings
        \/ \E names, tab : /\ cached' = cached \cup Opened(names)
                             /\ readings' = readings \cup Read(names, tab, "verifier")
    BY <1>6 DEF Verify
  <2>3. ASSUME NEW names, NEW tab,
               cached' = cached \cup Opened(names),
               readings' = readings \cup Read(names, tab, "verifier")
        PROVE  PinInv'
    <3>1. \A r \in Opened(names) : r.name \in Range(pair) => r.source = "new"
      BY <2>1, OpenedIsPin
    <3>2. \A r \in Read(names, tab, "verifier") : r.name \in Range(pair) => r.source = "new"
      BY <3>1 DEF Read
    <3> QED
      BY <2>1, <2>3, <3>1, <3>2 DEF PinInv
  <2>4. CASE cached' = cached /\ readings' = readings
    BY <2>1, <2>4 DEF PinInv
  <2> QED
    BY <2>2, <2>3, <2>4
<1>7. CASE Release
  BY <1>7 DEF Release, PinInv
<1>8. CASE Record
  BY <1>8 DEF Record, PinInv
<1>9. CASE Finish
  BY <1>9 DEF Finish, PinInv
<1>10. CASE Fail
  BY <1>10 DEF Fail, PinInv
<1>11. CASE Ended \/ UNCHANGED vars
  BY <1>11 DEF Ended, vars, PinInv, Pinned
<1> QED
  BY <1>1, <1>2, <1>3, <1>4, <1>5, <1>6, <1>7, <1>8, <1>9, <1>10, <1>11 DEF Next

\* Verification reads the tables just made, whatever artifacts bear their names and
\* whatever was opened before (the pins of generate_selected).
THEOREM VerificationPinned == Spec => []PinInv
<1>1. Init => PinInv
  BY DEF Init, PinInv
<1> QED
  BY <1>1, PinInvStep, PTL DEF Spec

-------------------------------------------------------------------------------
(* The plan and what has been made of it.                                   *)

\* A table of the plan.
InPlan(name) == \E q \in Plan : name \in Range(q)

Rejected == stage \in {"plan", "rejected"}

\* The pairs are taken in order: what comes before the current pair has been made.
OrderInv ==
  /\ Rejected => todo = {} /\ pair = <<>> /\ cached = {} /\ made = {} /\ readings = {}
  /\ ~ Rejected =>
       /\ PlanInOrder(Plan)
       /\ todo \subseteq Plan /\ (pair = <<>> \/ pair \in Plan)
       /\ \A q \in Plan : q \in todo \/ q = pair \/ Range(q) \subseteq made
       /\ \A name \in made : InPlan(name)
  /\ stage \in {"pin", "verify", "release", "record", "next", "done"} =>
       Range(pair) \subseteq made
  /\ stage \in {"solve", "publish", "pin", "verify"} =>
       pair \in Plan /\ \A q \in todo : Before(pair[1], q[1])

\* The plan is that of the arguments throughout.
LEMMA PlanKept ==
  ASSUME UNCHANGED given
  PROVE  /\ Plan' = Plan /\ (PlanInOrder(Plan)' <=> PlanInOrder(Plan))
         /\ \A name : InPlan(name)' <=> InPlan(name)
<1>1. selectors' = selectors
  BY DEF given
<1>2. Plan' = Plan
  BY <1>1 DEF Plan
<1> QED
  BY <1>2 DEF InPlan

\* A pair of a plan is one table or two.
LEMMA PairIs ==
  ASSUME NEW p \in Plan
  PROVE  DOMAIN p = 1 .. Len(p) /\ Len(p) \in Nat
<1>1. PICK t : p = (LET other == twin(t).id
                    IN IF t = other THEN <<t>>
                       ELSE IF Before(t, other) THEN <<t, other>> ELSE <<other, t>>)
  BY DEF Plan, GenerationPlan
<1> DEFINE other == twin(t).id
<1>2. p = <<t>> \/ p = <<t, other>> \/ p = <<other, t>>
  BY <1>1
<1> HIDE DEF other
<1> QED
  BY <1>2

\* What a table of the current pair converts into has been made, if the run makes it.
LEMMA ConversionsMade ==
  ASSUME OrderInv, stage \in {"solve", "publish", "pin", "verify"},
         NEW t \in Range(pair), NEW d \in ConversionsOf(t), InPlan(d)
  PROVE  d \in made
<1>1. PICK q \in Plan : d \in Range(q)
  BY DEF InPlan
<1>2. /\ PlanInOrder(Plan) /\ pair \in Plan /\ todo \subseteq Plan
      /\ \A r \in todo : Before(pair[1], r[1])
      /\ q \in todo \/ q = pair \/ Range(q) \subseteq made
  BY DEF OrderInv, Rejected
<1>3. Before(q[1], pair[1])
  BY <1>1, <1>2 DEF PlanInOrder
<1>4. q # pair /\ q \notin todo
  BY <1>2, <1>3, PairsOrdered
<1> QED
  BY <1>1, <1>2, <1>4

\* A run keeps the request and the locations it was given.
LEMMA GivenUnchanged ==
  ASSUME [Next \/ Ended]_vars PROVE UNCHANGED given
<1>1. CASE Start
  BY <1>1 DEF Start, given
<1>2. CASE TakePair
  BY <1>2 DEF TakePair, given
<1>3. CASE Solve
  BY <1>3 DEF Solve, given
<1>4. CASE Publish
  BY <1>4 DEF Publish, given
<1>5. CASE Pin
  BY <1>5 DEF Pin, given
<1>6. CASE Verify
  BY <1>6 DEF Verify, given
<1>7. CASE Release
  BY <1>7 DEF Release, given
<1>8. CASE Record
  BY <1>8 DEF Record, given
<1>9. CASE Finish
  BY <1>9 DEF Finish, given
<1>10. CASE Fail
  BY <1>10 DEF Fail, given
<1>11. CASE Ended \/ UNCHANGED vars
  BY <1>11 DEF Ended, vars, given
<1> QED
  BY <1>1, <1>2, <1>3, <1>4, <1>5, <1>6, <1>7, <1>8, <1>9, <1>10, <1>11 DEF Next

\* The order of the pairs is kept, given that the plan is in order when it is made.
LEMMA OrderInvStep ==
  ASSUME OrderInv, PrerequisitesPrecede, [Next \/ Ended]_vars PROVE OrderInv'
<1>0. UNCHANGED given
  BY GivenUnchanged
<1>1. Plan' = Plan /\ (PlanInOrder(Plan)' <=> PlanInOrder(Plan))
      /\ \A name : InPlan(name)' <=> InPlan(name)
  BY <1>0, PlanKept
<1>2. CASE Start
  <2>1. /\ stage = "plan" /\ pair = <<>> /\ pair' = pair /\ cached' = cached
        /\ made' = made /\ readings' = readings /\ made = {} /\ cached = {} /\ readings = {}
        /\ todo = {} /\ stage' \in {"next", "rejected"}
        /\ stage' = "next" => Resolves(selectors) /\ todo' = Plan
        /\ stage' = "rejected" => todo' = todo
    BY <1>2 DEF Start, OrderInv, Rejected
  <2>2. stage' = "next" => PlanInOrder(Plan)
    BY <2>1 DEF PrerequisitesPrecede
  <2>3. Range(<<>>) = {}
    BY DEF Range
  <2> QED
    BY <2>1, <2>2, <2>3, <1>1 DEF OrderInv, Rejected
<1>3. CASE TakePair
  <2> DEFINE p == CHOOSE p \in todo : \A q \in todo \ {p} : Before(p[1], q[1])
  <2>1. /\ stage = "next" /\ todo # {} /\ pair' = p /\ todo' = todo \ {pair'}
        /\ stage' = "solve" /\ made' = made
    BY <1>3 DEF TakePair
  <2>2. /\ PlanInOrder(Plan) /\ todo \subseteq Plan /\ Range(pair) \subseteq made
        /\ \A q \in Plan : q \in todo \/ q = pair \/ Range(q) \subseteq made
        /\ \A name \in made : InPlan(name)
    BY <2>1 DEF OrderInv, Rejected
  <2>3. p \in todo /\ \A q \in todo \ {p} : Before(p[1], q[1])
    BY <2>1, <2>2, FirstPair
  <2> HIDE DEF p
  <2>4. \A q \in Plan : q \in todo' \/ q = pair' \/ Range(q) \subseteq made
    BY <2>1, <2>2
  <2> QED
    BY <2>1, <2>2, <2>3, <2>4, <1>1 DEF OrderInv, Rejected
<1>4. CASE Solve
  <2>1. /\ stage = "solve" /\ stage' \in {"unavailable", "publish"}
        /\ todo' = todo /\ pair' = pair /\ made' = made
    BY <1>4 DEF Solve
  <2> QED
    BY <2>1, <1>1 DEF OrderInv, Rejected
<1>5. CASE Publish
  <2>1. PICK k \in DOMAIN pair :
          /\ stage = "publish" /\ todo' = todo /\ pair' = pair
          /\ \A j \in 1 .. k - 1 : pair[j] \in made
          /\ made' = made \cup {pair[k]}
          /\ stage' = IF k = Len(pair) THEN "pin" ELSE "publish"
    BY <1>5 DEF Publish
  <2>2. pair \in Plan /\ DOMAIN pair = 1 .. Len(pair) /\ Len(pair) \in Nat
    BY <2>1, PairIs DEF OrderInv
  <2>3. k = Len(pair) => Range(pair) \subseteq made'
    <3>1. SUFFICES ASSUME k = Len(pair), NEW j \in DOMAIN pair PROVE pair[j] \in made'
      BY DEF Range
    <3>2. j = k \/ j \in 1 .. k - 1
      BY <3>1, <2>2
    <3> QED
      BY <3>2, <2>1
  <2>4. InPlan(pair[k])
    BY <2>2 DEF InPlan, Range
  <2>5. stage' \in {"pin", "publish"} /\ (stage' = "pin" => Range(pair) \subseteq made')
    BY <2>1, <2>3
  <2> QED
    BY <2>1, <2>2, <2>4, <2>5, <1>1 DEF OrderInv, Rejected
<1>6. CASE Pin
  <2>1. /\ stage = "pin" /\ stage' \in {"verify", "record"}
        /\ todo' = todo /\ pair' = pair /\ made' = made
    BY <1>6 DEF Pin
  <2> QED
    BY <2>1, <1>1 DEF OrderInv, Rejected
<1>7. CASE Verify
  <2>1. /\ stage = "verify" /\ stage' \in {"unavailable", "release", "verify"}
        /\ todo' = todo /\ pair' = pair /\ made' = made
    BY <1>7 DEF Verify
  <2> QED
    BY <2>1, <1>1 DEF OrderInv, Rejected
<1>8. CASE Release \/ Record \/ Finish \/ Fail
  <2>1. /\ todo' = todo /\ pair' = pair /\ made' = made
        /\ stage \in {"release", "record", "next", "solve", "publish", "verify"}
        /\ stage' \in {"record", "next", "done", "failed"}
        /\ stage' # "failed" => stage \in {"release", "record", "next"}
    BY <1>8 DEF Release, Record, Finish, Fail
  <2> QED
    BY <2>1, <1>1 DEF OrderInv, Rejected
<1>9. CASE Ended \/ UNCHANGED vars
  BY <1>9, <1>1 DEF Ended, vars, OrderInv, Rejected
<1> QED
  BY <1>2, <1>3, <1>4, <1>5, <1>6, <1>7, <1>8, <1>9 DEF Next

-------------------------------------------------------------------------------
(* Readers and what is read.                                                *)

\* What is opened can be read, is no artifact that the run replaces, and is what a lookup
\* would find now unless it is pinned; the current pair's conversions are opened once it
\* is solved.
CachedInv ==
  /\ \A r \in cached :
       /\ r.source \notin {"missing", "damaged"}
       /\ r.source = "old" => ~ InPlan(r.name)
       /\ r.source = Lookup(r.name) \/ (stage \in {"verify", "release", "failed"} /\ r \in Pinned)
  /\ stage \in {"publish", "pin", "verify"} =>
       \A t \in Range(pair) : \A d \in ConversionsOf(t) : Named(d) # {}

\* A conversion is available, or the run does not make it.
Unavailable ==
  \E t \in Range(pair) : \E d \in ConversionsOf(t) :
    d \in disk.damaged \/ ~(d \in Planned \/ d \in disk.input \/ HeldBefore(d))

ReadInv ==
  /\ \A r \in readings : r.source = "old" => ~ InPlan(r.name)
  /\ stage = "unavailable" => Unavailable

GenInv == OrderInv /\ PinInv /\ CachedInv /\ ReadInv

\* What a lookup finds depends on the locations and on what has been made.
LEMMA LookupIs ==
  ASSUME NEW name
  PROVE  /\ Lookup(name) = "damaged" => name \in disk.damaged
         /\ Lookup(name) = "missing" =>
              name \notin made /\ name \notin disk.input /\ ~ HeldBefore(name)
         /\ Lookup(name) = "old" => name \notin made
         /\ Lookup(name) \in {"damaged", "input", "new", "old", "missing"}
BY DEF Lookup

\* While nothing is made, lookups find the same.
LEMMA LookupKept ==
  ASSUME UNCHANGED <<given, made>> PROVE \A name : Lookup(name)' = Lookup(name)
<1>1. disk' = disk /\ made' = made
  BY DEF given
<1> QED
  BY <1>1 DEF Lookup, HeldBefore

\* The run's tables are those of the plan.
LEMMA PlannedIs ==
  ASSUME OrderInv, ~ Rejected, NEW name \in Planned PROVE InPlan(name)
<1>1. /\ todo \subseteq Plan /\ (pair = <<>> \/ pair \in Plan)
      /\ \A n \in made : InPlan(n)
  BY DEF OrderInv
<1>2. Range(<<>>) = {}
  BY DEF Range
<1>3. name \in made \/ name \in Range(pair) \/ \E p \in todo : name \in Range(p)
  BY DEF Planned
<1> QED
  BY <1>1, <1>2, <1>3 DEF InPlan

\* Solving a pair opens what its tables convert into, or fails for want of it.
LEMMA GenInvSolve ==
  ASSUME GenInv, Solve, OrderInv', PinInv' PROVE GenInv'
<1> DEFINE needed == UNION {ConversionsOf(tab) : tab \in Range(pair)}
<1>1. /\ stage = "solve" /\ pair' = pair /\ made' = made /\ todo' = todo /\ UNCHANGED given
      /\ \/ /\ Unreadable(needed) # {} /\ stage' = "unavailable"
            /\ cached' = cached /\ readings' = readings
         \/ /\ Unreadable(needed) = {} /\ stage' = "publish"
            /\ cached' = cached \cup Opened(needed)
            /\ readings' = UNION {Read(ConversionsOf(tab), tab, "solver") :
                                    tab \in Range(pair)}
  BY DEF Solve
<1>2. /\ Plan' = Plan /\ \A name : InPlan(name)' <=> InPlan(name)
  BY <1>1, PlanKept
<1>3. \A name : Lookup(name)' = Lookup(name)
  BY <1>1, LookupKept
<1>4. \A d \in needed : \E t \in Range(pair) : d \in ConversionsOf(t)
  OBVIOUS
<1>5. \A d \in needed : InPlan(d) => d \in made
  BY <1>1, <1>4, ConversionsMade DEF GenInv
<1>6. \A r \in cached : /\ r.source \notin {"missing", "damaged"}
                        /\ r.source = "old" => ~ InPlan(r.name)
                        /\ r.source = Lookup(r.name)
  BY <1>1 DEF GenInv, CachedInv
<1>7. ASSUME NEW names, names \subseteq needed, NEW r \in Opened(names)
      PROVE  /\ r.source = Lookup(r.name) /\ r.name \in names
             /\ r.source = "old" => ~ InPlan(r.name)
  <2>1. PICK name \in names :
          /\ r.name = name
          /\ r \in cached \/ (Named(name) = {} /\ r = [name |-> name, source |-> Lookup(name)])
    BY OpenedIs
  <2>2. CASE r \in cached
    BY <2>1, <2>2, <1>6
  <2>3. CASE r = [name |-> name, source |-> Lookup(name)]
    <3>1. r.source = Lookup(name) /\ name \in needed
      BY <2>1, <2>3, <1>7
    <3> QED
      BY <3>1, <2>1, <1>5, LookupIs
  <2> QED
    BY <2>1, <2>2, <2>3
<1> HIDE DEF needed
<1>8. CASE Unreadable(needed) # {}
  <2>1. /\ stage' = "unavailable" /\ cached' = cached /\ readings' = readings
    BY <1>1, <1>8
  <2>2. PICK r \in Opened(needed) : r.source \in {"missing", "damaged"}
    BY <1>8 DEF Unreadable
  <2>3. r.name \in needed /\ Lookup(r.name) \in {"missing", "damaged"}
    BY <2>2, <1>7
  <2>4. Unavailable
    <3>1. PICK t \in Range(pair) : r.name \in ConversionsOf(t)
      BY <2>3, <1>4
    <3>2. r.name \in disk.damaged
          \/ (r.name \notin made /\ r.name \notin disk.input /\ ~ HeldBefore(r.name))
      BY <2>3, LookupIs
    <3>3. r.name \notin made => r.name \notin Planned
      BY <2>3, <1>1, <1>5, PlannedIs DEF GenInv, Rejected
    <3> QED
      BY <3>1, <3>2, <3>3 DEF Unavailable
  <2>5. Unavailable'
    <3>1. disk' = disk
      BY <1>1 DEF given
    <3> QED
      BY <2>4, <3>1, <1>1 DEF Unavailable, Planned, HeldBefore
  <2> QED
    BY <2>1, <2>5, <1>2, <1>3, <1>6 DEF GenInv, CachedInv, ReadInv
<1>9. CASE Unreadable(needed) = {}
  <2>1. /\ stage' = "publish" /\ cached' = cached \cup Opened(needed)
        /\ readings' = UNION {Read(ConversionsOf(tab), tab, "solver") :
                                tab \in Range(pair)}
    BY <1>1, <1>9
  <2>2. \A r \in Opened(needed) : r.source \notin {"missing", "damaged"}
    BY <1>9 DEF Unreadable
  <2>3. CachedInv'
    <3>1. \A r \in cached' : /\ r.source \notin {"missing", "damaged"}
                             /\ r.source = "old" => ~ InPlan(r.name)
                             /\ r.source = Lookup(r.name)
      BY <2>1, <2>2, <1>6, <1>7
    <3>2. \A d \in needed : Named(d)' # {}
      <4>1. ASSUME NEW d \in needed PROVE \E r \in cached' : r.name = d
        <5>1. CASE Named(d) # {}
          BY <5>1, <2>1 DEF Named
        <5>2. CASE Named(d) = {}
          <6>1. [name |-> d, source |-> Lookup(d)] \in Opened(needed)
            BY <5>2 DEF Opened
          <6> QED
            BY <6>1, <2>1
        <5> QED
          BY <5>1, <5>2
      <4> QED
        BY <4>1 DEF Named
    <3>3. \A t \in Range(pair) : \A d \in ConversionsOf(t) : d \in needed
      BY DEF needed
    <3> QED
      BY <3>1, <3>2, <3>3, <2>1, <1>1, <1>2, <1>3 DEF CachedInv
  <2>4. ReadInv'
    <3>1. ASSUME NEW r \in readings', r.source = "old" PROVE ~ InPlan(r.name)
      <4>1. PICK tab \in Range(pair) : r \in Read(ConversionsOf(tab), tab, "solver")
        BY <2>1
      <4>2. PICK o \in Opened(ConversionsOf(tab)) : r.name = o.name /\ r.source = o.source
        BY <4>1 DEF Read
      <4>3. ConversionsOf(tab) \subseteq needed
        BY DEF needed
      <4> QED
        BY <4>2, <4>3, <3>1, <1>7
    <3> QED
      BY <3>1, <2>1, <1>2 DEF ReadInv
  <2> QED
    BY <2>3, <2>4 DEF GenInv
<1> QED
  BY <1>8, <1>9

\* Publishing a table makes no opened reader stale.
LEMMA GenInvPublish ==
  ASSUME GenInv, Publish, OrderInv', PinInv' PROVE GenInv'
<1>1. PICK k \in DOMAIN pair :
        /\ stage = "publish" /\ pair' = pair /\ UNCHANGED given /\ pair[k] \notin made
        /\ made' = made \cup {pair[k]} /\ cached' = cached /\ readings' = readings
        /\ stage' = IF k = Len(pair) THEN "pin" ELSE "publish"
  BY DEF Publish
<1>2. /\ Plan' = Plan /\ \A name : InPlan(name)' <=> InPlan(name)
  BY <1>1, PlanKept
<1>3. InPlan(pair[k])
  BY <1>1 DEF GenInv, OrderInv, InPlan, Range
<1>4. disk' = disk
  BY <1>1 DEF given
<1>5. ASSUME NEW r \in cached PROVE r.source = Lookup(r.name)'
  <2>1. /\ r.source \notin {"missing", "damaged"} /\ r.source = Lookup(r.name)
        /\ r.source = "old" => ~ InPlan(r.name)
    BY <1>1 DEF GenInv, CachedInv
  <2>2. CASE r.name # pair[k]
    BY <2>1, <2>2, <1>1, <1>4 DEF Lookup, HeldBefore
  <2>3. CASE r.name = pair[k]
    <3>1. Lookup(r.name) = "input"
      <4>1. Lookup(r.name) \notin {"missing", "damaged", "old"}
        BY <2>1, <2>3, <1>3
      <4>2. Lookup(r.name) # "new"
        BY <2>3, <1>1 DEF Lookup
      <4> QED
        BY <4>1, <4>2, LookupIs
    <3>2. r.name \notin disk.damaged /\ r.name \in disk.input
      BY <3>1 DEF Lookup
    <3> QED
      BY <3>1, <3>2, <2>1, <1>4 DEF Lookup
  <2> QED
    BY <2>2, <2>3
<1>6. stage' \in {"pin", "publish"} /\ \A d : Named(d)' = Named(d)
  BY <1>1 DEF Named
<1>7. CachedInv'
  <2>1. \A r \in cached : /\ r.source \notin {"missing", "damaged"}
                          /\ r.source = "old" => ~ InPlan(r.name)
    BY DEF GenInv, CachedInv
  <2>2. \A t \in Range(pair) : \A d \in ConversionsOf(t) : Named(d) # {}
    BY <1>1 DEF GenInv, CachedInv
  <2> QED
    BY <2>1, <2>2, <1>1, <1>2, <1>5, <1>6 DEF CachedInv
<1>8. ReadInv'
  BY <1>1, <1>2, <1>6 DEF GenInv, ReadInv
<1> QED
  BY <1>7, <1>8 DEF GenInv

\* Verification opens nothing: it reads the pins and what the pair was solved from.
LEMMA GenInvVerify ==
  ASSUME GenInv, Verify, OrderInv', PinInv' PROVE GenInv'
<1> DEFINE reads(tab) == {tab, twin(tab).id} \cup ConversionsOf(tab)
<1>1. /\ stage = "verify" /\ pair' = pair /\ made' = made /\ UNCHANGED given
      /\ \E k \in DOMAIN pair :
           IF Unreadable(reads(pair[k])) # {}
           THEN stage' = "unavailable" /\ UNCHANGED <<cached, readings>>
           ELSE /\ stage' = IF k = Len(pair) THEN "release" ELSE "verify"
                /\ cached' = cached \cup Opened(reads(pair[k]))
                /\ readings' = readings \cup Read(reads(pair[k]), pair[k], "verifier")
  BY DEF Verify
<1>2. PICK k \in DOMAIN pair :
        IF Unreadable(reads(pair[k])) # {}
        THEN stage' = "unavailable" /\ UNCHANGED <<cached, readings>>
        ELSE /\ stage' = IF k = Len(pair) THEN "release" ELSE "verify"
             /\ cached' = cached \cup Opened(reads(pair[k]))
             /\ readings' = readings \cup Read(reads(pair[k]), pair[k], "verifier")
  BY <1>1
<1> DEFINE tab == pair[k]
<1>3. /\ Plan' = Plan /\ \A name : InPlan(name)' <=> InPlan(name)
  BY <1>1, PlanKept
<1>4. \A name : Lookup(name)' = Lookup(name)
  BY <1>1, LookupKept
<1>5. tab \in Range(pair) /\ twin(tab).id \in Range(pair)
  BY <1>1 DEF Range, GenInv, OrderInv, Rejected, PlanInOrder
<1>6. ASSUME NEW name \in reads(tab) PROVE Named(name) # {}
  <2>1. CASE name \in Range(pair)
    <3>1. [name |-> name, source |-> "new"] \in cached
      BY <2>1, <1>1 DEF GenInv, PinInv, Pinned
    <3> QED
      BY <3>1 DEF Named
  <2>2. CASE name \in ConversionsOf(tab)
    BY <2>2, <1>1, <1>5 DEF GenInv, CachedInv
  <2> QED
    BY <2>1, <2>2, <1>5, <1>6
<1>7. Opened(reads(tab)) \subseteq cached
  <2>1. ASSUME NEW r \in Opened(reads(tab)) PROVE r \in cached
    <3>1. PICK name \in reads(tab) : r \in cached \/ Named(name) = {}
      BY OpenedIs
    <3> QED
      BY <3>1, <1>6
  <2> QED
    BY <2>1
<1>8. \A r \in cached : /\ r.source \notin {"missing", "damaged"}
                        /\ r.source = "old" => ~ InPlan(r.name)
  BY DEF GenInv, CachedInv
<1>9. Unreadable(reads(tab)) = {}
  BY <1>7, <1>8 DEF Unreadable
<1> HIDE DEF reads
<1>10. /\ stage' \in {"verify", "release"} /\ cached' = cached
       /\ readings' = readings \cup Read(reads(tab), tab, "verifier")
  <2>1. /\ stage' = IF k = Len(pair) THEN "release" ELSE "verify"
        /\ cached' = cached \cup Opened(reads(tab))
        /\ readings' = readings \cup Read(reads(tab), tab, "verifier")
    BY <1>2, <1>9
  <2> QED
    BY <2>1, <1>7
<1>11. CachedInv'
  <2>1. Pinned' = Pinned /\ \A d : Named(d)' = Named(d)
    BY <1>1, <1>10 DEF Pinned, Named
  <2> QED
    BY <2>1, <1>1, <1>3, <1>4, <1>10 DEF GenInv, CachedInv
<1>12. ReadInv'
  <2>1. \A r \in Read(reads(tab), tab, "verifier") : r.source = "old" => ~ InPlan(r.name)
    <3>1. ASSUME NEW r \in Read(reads(tab), tab, "verifier"), r.source = "old"
          PROVE  ~ InPlan(r.name)
      <4>1. PICK o \in Opened(reads(tab)) : r.name = o.name /\ r.source = o.source
        BY DEF Read
      <4> QED
        BY <4>1, <3>1, <1>7, <1>8
    <3> QED
      BY <3>1
  <2> QED
    BY <2>1, <1>3, <1>10 DEF GenInv, ReadInv
<1> QED
  BY <1>11, <1>12 DEF GenInv

\* Every step keeps all of it.
LEMMA GenInvStep ==
  ASSUME GenInv, PrerequisitesPrecede, [Next \/ Ended]_vars PROVE GenInv'
<1>0. OrderInv' /\ PinInv'
  BY OrderInvStep, PinInvStep DEF GenInv
<1>1. UNCHANGED given
  BY GivenUnchanged
<1>2. /\ Plan' = Plan /\ \A name : InPlan(name)' <=> InPlan(name)
  BY <1>1, PlanKept
<1>3. CASE Start
  <2>1. cached' = {} /\ readings' = {} /\ stage' \in {"next", "rejected"}
    BY <1>3 DEF Start, GenInv, OrderInv, Rejected
  <2> QED
    BY <2>1, <1>0 DEF GenInv, CachedInv, ReadInv
<1>4. CASE TakePair
  <2>1. /\ stage = "next" /\ stage' = "solve" /\ made' = made /\ readings' = {}
        /\ cached' \in {cached, {}}
    BY <1>4 DEF TakePair
  <2>2. \A name : Lookup(name)' = Lookup(name)
    BY <2>1, <1>1, LookupKept
  <2>3. \A r \in cached : /\ r.source \notin {"missing", "damaged"}
                          /\ r.source = "old" => ~ InPlan(r.name)
                          /\ r.source = Lookup(r.name)
    BY <2>1 DEF GenInv, CachedInv
  <2> QED
    BY <2>1, <2>2, <2>3, <1>0, <1>2 DEF GenInv, CachedInv, ReadInv
<1>5. CASE Solve
  BY <1>5, <1>0, GenInvSolve
<1>6. CASE Publish
  BY <1>6, <1>0, GenInvPublish
<1>7. CASE Pin
  <2>1. /\ stage = "pin" /\ made' = made /\ readings' = readings /\ pair' = pair
        /\ \/ stage' = "record" /\ cached' = cached
           \/ /\ stage' = "verify"
              /\ cached' = {r \in cached : r.name \notin Range(pair)} \cup Pinned
    BY <1>7 DEF Pin
  <2>2. \A name : Lookup(name)' = Lookup(name)
    BY <2>1, <1>1, LookupKept
  <2>3. \A r \in cached : /\ r.source \notin {"missing", "damaged"}
                          /\ r.source = "old" => ~ InPlan(r.name)
                          /\ r.source = Lookup(r.name)
    BY <2>1 DEF GenInv, CachedInv
  <2>4. Pinned' = Pinned /\ \A r \in Pinned : r.source = "new"
    BY <2>1 DEF Pinned
  <2>5. CASE stage' = "record" /\ cached' = cached
    BY <2>1, <2>2, <2>3, <2>5, <1>0, <1>2 DEF GenInv, CachedInv, ReadInv
  <2>6. CASE /\ stage' = "verify"
             /\ cached' = {r \in cached : r.name \notin Range(pair)} \cup Pinned
    <3>1. \A r \in cached' : r \in cached \/ r \in Pinned
      BY <2>6
    <3>2. ASSUME NEW t \in Range(pair), NEW d \in ConversionsOf(t) PROVE Named(d)' # {}
      <4>1. \E r \in cached' : r.name = d
        <5>1. CASE d \in Range(pair)
          <6>1. [name |-> d, source |-> "new"] \in Pinned
            BY <5>1 DEF Pinned
          <6> QED
            BY <6>1, <2>6
        <5>2. CASE d \notin Range(pair)
          <6>1. Named(d) # {}
            BY <2>1 DEF GenInv, CachedInv
          <6>2. PICK r \in cached : r.name = d
            BY <6>1 DEF Named
          <6> QED
            BY <6>2, <5>2, <2>6
        <5> QED
          BY <5>1, <5>2
      <4> QED
        BY <4>1 DEF Named
    <3>3. CachedInv'
      BY <3>1, <3>2, <2>1, <2>2, <2>3, <2>4, <2>6, <1>2 DEF CachedInv
    <3> QED
      BY <3>3, <2>1, <2>6, <1>0, <1>2 DEF GenInv, ReadInv
  <2> QED
    BY <2>1, <2>5, <2>6
<1>8. CASE Verify
  BY <1>8, <1>0, GenInvVerify
<1>9. CASE Release
  <2>1. /\ stage = "release" /\ stage' = "record" /\ made' = made /\ readings' = readings
        /\ pair' = pair /\ cached' = {r \in cached : r.name \notin Range(pair)}
    BY <1>9 DEF Release
  <2>2. \A name : Lookup(name)' = Lookup(name)
    BY <2>1, <1>1, LookupKept
  <2>3. \A r \in Pinned : r.name \in Range(pair)
    BY DEF Pinned
  <2>4. \A r \in cached' : /\ r.source \notin {"missing", "damaged"}
                           /\ r.source = "old" => ~ InPlan(r.name)
                           /\ r.source = Lookup(r.name)
    BY <2>1, <2>3 DEF GenInv, CachedInv
  <2> QED
    BY <2>1, <2>2, <2>4, <1>0, <1>2 DEF GenInv, CachedInv, ReadInv
<1>10. CASE Record \/ Finish \/ Fail
  <2>1. /\ made' = made /\ readings' = readings /\ pair' = pair /\ cached' = cached
        /\ \/ stage \in {"record", "next"} /\ stage' \in {"next", "done"}
           \/ stage \in {"solve", "publish", "verify"} /\ stage' = "failed"
    BY <1>10 DEF Record, Finish, Fail
  <2>2. \A name : Lookup(name)' = Lookup(name)
    BY <2>1, <1>1, LookupKept
  <2>3. Pinned' = Pinned
    BY <2>1 DEF Pinned
  <2> QED
    BY <2>1, <2>2, <2>3, <1>0, <1>2 DEF GenInv, CachedInv, ReadInv
<1>11. CASE Ended \/ UNCHANGED vars
  <2>1. UNCHANGED vars
    BY <1>11 DEF Ended
  <2>2. \A name : Lookup(name)' = Lookup(name)
    BY <2>1, <1>1, LookupKept DEF vars
  <2>3. /\ Pinned' = Pinned /\ (Unavailable' <=> Unavailable) /\ \A d : Named(d)' = Named(d)
    BY <2>1 DEF vars, given, Pinned, Unavailable, Planned, HeldBefore, Named
  <2> QED
    BY <2>1, <2>2, <2>3, <1>0, <1>2 DEF GenInv, CachedInv, ReadInv, vars
<1> QED
  BY <1>3, <1>4, <1>5, <1>6, <1>7, <1>8, <1>9, <1>10, <1>11 DEF Next

-------------------------------------------------------------------------------
(* Every plan is in order.                                                  *)

\* What the selectors of a run resolve to are tables.
LEMMA ResolvedAreTables ==
  ASSUME selectors \in Requests, Resolves(selectors), NEW t \in resolve_selectors(selectors)
  PROVE  IsTable(t)
<1>1. PICK i \in DOMAIN selectors : t \in resolve(selectors[i])
  BY DEF resolve_selectors
<1>2. IsSelector(selectors[i])
  BY RequestsAssumption
<1>3. ParsesSelector(selectors[i])
  BY DEF Resolves, parse_selectors
<1> QED
  BY <1>1, <1>2, <1>3, ResolvesToTables

\* The plan of any set of tables is in order.
LEMMA PlansInOrder ==
  ASSUME NEW S, \A t \in S : IsTable(t)
  PROVE  PlanInOrder(GenerationPlan(S))
<1> DEFINE plan == GenerationPlan(S)
<1>1. IsFiniteSet(plan)
  BY PlanFinite
<1>2. \A p \in plan : IsTable(p[1]) /\ p = PairOf(p[1])
  BY PlanPairs
<1> HIDE DEF plan
<1>3. ASSUME NEW p \in plan
      PROVE  TableKey(p[1]) \in Seq(Nat) /\ ElementsKey(p[1]) \in Seq(Nat)
  <2>1. PICK files \in Layout : \E force \in Armies : TableOf(p[1], files, force)
    BY <1>2 DEF IsTable
  <2>2. PICK force \in Armies : TableOf(p[1], files, force)
    BY <2>1
  <2> QED
    BY <2>2, TableKeyIs, ElementsKeyIs
<1>4. ASSUME NEW p \in plan, NEW q \in plan \ {p}, TableKey(p[1]) = TableKey(q[1])
      PROVE  ElementsKey(p[1]) # ElementsKey(q[1])
  <2>1. p = PairOf(p[1]) /\ q = PairOf(q[1]) /\ IsTable(p[1]) /\ IsTable(q[1])
    BY <1>2
  <2> QED
    BY <1>4, <2>1, PairsInOrder
<1>5. ASSUME NEW p \in plan, NEW t \in Range(p)
      PROVE  twin(t).id \in Range(p)
  <2>1. p = PairOf(p[1]) /\ IsTable(p[1])
    BY <1>2
  <2> QED
    BY <2>1, PairMembers
<1>6. ASSUME NEW p \in plan, NEW t \in Range(p), NEW d \in ConversionsOf(t), NEW q \in plan,
             d \in Range(q)
      PROVE  Before(q[1], p[1])
  <2>1. p = PairOf(p[1]) /\ q = PairOf(q[1]) /\ IsTable(p[1]) /\ IsTable(q[1])
    BY <1>2
  <2>2. t \in Range(PairOf(p[1])) /\ d \in Range(PairOf(q[1]))
    BY <1>6, <2>1
  <2> QED
    BY <2>1, <2>2, PairsInOrder
<1>7. PlanInOrder(plan)
  BY <1>1, <1>3, <1>4, <1>5, <1>6 DEF PlanInOrder
<1> QED
  BY <1>7 DEF plan

\* What a run is asked for does not change.
Requested == selectors \in Requests

\* Whatever is requested, the pairs a table converts into come before its own ("explicitly
\* selected capture/promotion prerequisites precede their consumers", src/selection.rs).
THEOREM PrerequisitesFirst == Spec => []PrerequisitesPrecede
<1>1. Init => Requested
  BY DEF Init, Requested
<1>2. Requested /\ [Next \/ Ended]_vars => Requested'
  BY GivenUnchanged DEF given, Requested
<1>3. Requested => PrerequisitesPrecede
  <2> SUFFICES ASSUME selectors \in Requests, Resolves(selectors) PROVE PlanInOrder(Plan)
    BY DEF PrerequisitesPrecede, Requested
  <2>1. \A t \in resolve_selectors(selectors) : IsTable(t)
    BY ResolvedAreTables
  <2> QED
    BY <2>1, PlansInOrder DEF Plan
<1> QED
  BY <1>1, <1>2, <1>3, PTL DEF Spec

\* A run reads what it made and is never in doubt of it.
THEOREM RunInvariant == Spec => []GenInv
<1>1. Init => GenInv
  <2> SUFFICES ASSUME Init PROVE GenInv
    OBVIOUS
  <2>1. /\ stage = "plan" /\ todo = {} /\ pair = <<>> /\ cached = {} /\ made = {}
        /\ readings = {}
    BY DEF Init
  <2> QED
    BY <2>1 DEF GenInv, OrderInv, PinInv, CachedInv, ReadInv, Rejected
<1>2. GenInv /\ PrerequisitesPrecede /\ [Next \/ Ended]_vars => GenInv'
  BY GenInvStep
<1> QED
  BY <1>1, <1>2, PrerequisitesFirst, PTL DEF Spec

\* No table is computed from an artifact that the run replaces, and none fails for want of
\* a dependency that the run makes (GenerationPlan, generate_selected).
THEOREM RunBuildsOnItself == Spec => []BuiltFromThisRun
<1>1. GenInv => BuiltFromThisRun
  <2> SUFFICES ASSUME GenInv PROVE BuiltFromThisRun
    OBVIOUS
  <2>1. ASSUME NEW r \in readings, r.source = "old" PROVE r.name \notin Planned
    <3>1. ~ Rejected /\ ~ InPlan(r.name)
      BY <2>1 DEF GenInv, OrderInv, ReadInv
    <3> QED
      BY <3>1, PlannedIs DEF GenInv
  <2>2. stage = "unavailable" =>
          \E t \in Range(pair) : \E d \in ConversionsOf(t) :
            d \in disk.damaged \/ ~(d \in Planned \/ d \in disk.input \/ HeldBefore(d))
    BY DEF GenInv, ReadInv, Unavailable
  <2> QED
    BY <2>1, <2>2 DEF BuiltFromThisRun
<1> QED
  BY <1>1, RunInvariant, PTL

\* No reader is kept that a lookup would not find now, the pins excepted
\* (remove and clear in generate_selected).
THEOREM RunVerifiesItself == Spec => []VerifiesWhatItMade
<1>1. GenInv => VerifiesWhatItMade
  BY DEF GenInv, PinInv, CachedInv, VerifiesWhatItMade
<1> QED
  BY <1>1, RunInvariant, PTL
===============================================================================
