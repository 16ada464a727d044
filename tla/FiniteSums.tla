------------------------------ MODULE FiniteSums ------------------------------
(***************************************************************************)
(* What the library's recursive operators compute, for all arguments. The   *)
(* sum MapThenSumSet adds the weight of an element added and splits over    *)
(* disjoint sets, whichever order it picks the elements in; FoldLeft        *)
(* accumulates element by element; FlattenSeq joins sequences (Joined).     *)
(* And the order of sequences of numbers.                                   *)
(*                                                                          *)
(* Each is chosen by an equation.  That some function satisfies it is shown *)
(* first; what it computes follows from the equation.  Induction is stated  *)
(* as the existence of a minimal counterexample, among finite sets          *)
(* (MinimalSet) or numbers (LeastNatural, Climb).                           *)
(***************************************************************************)
EXTENDS Integers, FiniteSets, FiniteSetsExt, FiniteSetTheorems,
        SequenceTheorems, WellFoundedInduction, TLAPS

\* The sum of the weights of the elements of a set.
SumOf(w, S) == MapThenSumSet(LAMBDA k : w[k], S)

Pick(s) == CHOOSE x \in s : TRUE

\* g is the recursive function the sum is defined with.
SumsAllSubsets(g, w, S) ==
  g = [s \in SUBSET S |-> IF s = {} THEN 0 ELSE w[Pick(s)] + g[s \ {Pick(s)}]]

-------------------------------------------------------------------------------

\* Among the subsets of a finite set that have some property one is minimal.
LEMMA MinimalSet ==
  ASSUME NEW S, IsFiniteSet(S), NEW C, C \subseteq SUBSET S, C # {}
  PROVE  \E T \in C : \A U \in C : ~ (U \subseteq T /\ U # T)
<1>1. C \subseteq FiniteSubsetsOf(S)
  BY FS_Subset DEF FiniteSubsetsOf
<1>2. PICK T \in C : \A U \in C : ~ (<<U, T>> \in StrictSubsetOrdering(S))
  BY <1>1, WFMin, FS_StrictSubsetOrderingWellFounded
<1> QED
  BY <1>2 DEF StrictSubsetOrdering

\* A set of naturals that is not empty has a least element.
LEMMA LeastNatural ==
  ASSUME NEW C, C \subseteq Nat, C # {} PROVE \E n \in C : \A m \in C : n <= m
<1>1. PICK k \in C : TRUE
  OBVIOUS
<1> DEFINE N == 0 .. k
           D == {T \in SUBSET N : \E n \in C : T = 0 .. n}
<1>2. PICK T \in D : \A U \in D : ~ (U \subseteq T /\ U # T)
  <2>1. D \subseteq SUBSET N /\ N \in D
    BY <1>1
  <2>2. IsFiniteSet(N)
    BY FS_Interval
  <2> HIDE DEF D, N
  <2> QED
    BY <2>1, <2>2, MinimalSet
<1>3. PICK n \in C : T = 0 .. n /\ T \subseteq 0 .. k
  BY <1>2
<1>4. ASSUME NEW m \in C, m < n PROVE FALSE
  <2>1. m \in Nat /\ n \in Nat /\ k \in Nat
    OBVIOUS
  <2>2. 0 .. m \subseteq 0 .. n /\ 0 .. m # 0 .. n
    BY <1>4, <2>1
  <2>3. 0 .. m \in D
    BY <2>2, <1>3
  <2> QED
    BY <2>2, <2>3, <1>2, <1>3
<1> QED
  BY <1>4

\* Pick chooses a member.
LEMMA PickInSet ==
  ASSUME NEW s, s # {} PROVE Pick(s) \in s
BY DEF Pick

\* The fold the sum is defined by, as a recursive function on subsets.
LEMMA SumOfUnfolded ==
  ASSUME NEW w, NEW S
  PROVE  SumOf(w, S) = (CHOOSE g : SumsAllSubsets(g, w, S))[S]
BY DEF SumOf, MapThenSumSet, MapThenFoldSet, Pick, SumsAllSubsets

\* Two such functions agree where both are defined.
LEMMA SumsAgree ==
  ASSUME NEW w, NEW S, IsFiniteSet(S), NEW T, T \subseteq S,
         NEW g, SumsAllSubsets(g, w, S), NEW h, SumsAllSubsets(h, w, T)
  PROVE  \A s \in SUBSET T : g[s] = h[s]
<1> DEFINE C == {s \in SUBSET T : g[s] # h[s]}
<1> SUFFICES ASSUME C # {} PROVE FALSE
  OBVIOUS
<1>1. IsFiniteSet(T)
  BY FS_Subset
<1>2. PICK s \in C : \A u \in C : ~ (u \subseteq s /\ u # s)
  <2>1. C \subseteq SUBSET T
    OBVIOUS
  <2> HIDE DEF C
  <2> QED
    BY <1>1, <2>1, MinimalSet
<1>3. CASE s = {}
  BY <1>3, <1>2 DEF SumsAllSubsets
<1>4. CASE s # {}
  <2> DEFINE u == s \ {Pick(s)}
  <2>1. Pick(s) \in s
    BY <1>4, PickInSet
  <2>2. u \in SUBSET T /\ u \subseteq s /\ u # s
    BY <2>1, <1>2
  <2>3. g[u] = h[u]
    BY <2>2, <1>2
  <2>4. g[s] = w[Pick(s)] + g[u] /\ h[s] = w[Pick(s)] + h[u]
    BY <1>4, <1>2 DEF SumsAllSubsets
  <2> QED
    BY <2>3, <2>4, <1>2
<1> QED
  BY <1>3, <1>4

\* Such a function exists: were there a subset without one, a minimal one would have
\* one put together from those of its proper subsets.
LEMMA SumsExist ==
  ASSUME NEW w, NEW S, IsFiniteSet(S)
  PROVE  \E g : SumsAllSubsets(g, w, S)
<1> DEFINE Has(T) == \E g : SumsAllSubsets(g, w, T)
           C == {T \in SUBSET S : ~ Has(T)}
           The(T) == CHOOSE g : SumsAllSubsets(g, w, T)
<1> SUFFICES ASSUME C # {} PROVE FALSE
  OBVIOUS
<1>1. PICK T \in C : \A U \in C : ~ (U \subseteq T /\ U # T)
  <2>1. C \subseteq SUBSET S
    OBVIOUS
  <2> HIDE DEF C
  <2> QED
    BY <2>1, MinimalSet
<1>2. ASSUME NEW U \in SUBSET T, U # T PROVE SumsAllSubsets(The(U), w, U)
  BY <1>1, <1>2
<1> DEFINE G(s) == The(s)[s]
           g == [s \in SUBSET T |-> IF s = {} THEN 0
                                    ELSE w[Pick(s)] + G(s \ {Pick(s)})]
<1>3. ASSUME NEW s \in SUBSET T, s # T PROVE G(s) = g[s]
  <2>1. SumsAllSubsets(The(s), w, s)
    BY <1>2, <1>3
  <2>2. CASE s = {}
    BY <2>1, <2>2 DEF SumsAllSubsets
  <2>3. CASE s # {}
    <3> DEFINE u == s \ {Pick(s)}
    <3>1. u \in SUBSET s /\ u \in SUBSET T /\ u # T
      BY <2>3, PickInSet
    <3>2. SumsAllSubsets(The(u), w, u) /\ IsFiniteSet(s)
      BY <1>2, <3>1, FS_Subset
    <3>3. The(s)[u] = The(u)[u]
      BY <2>1, <3>1, <3>2, SumsAgree
    <3>4. The(s)[s] = w[Pick(s)] + The(s)[u]
      BY <2>1, <2>3 DEF SumsAllSubsets
    <3> HIDE DEF The
    <3> QED
      BY <2>3, <3>3, <3>4
  <2> QED
    BY <2>2, <2>3
<1>4. SumsAllSubsets(g, w, T)
  <2>1. ASSUME NEW s \in SUBSET T, s # {} PROVE G(s \ {Pick(s)}) = g[s \ {Pick(s)}]
    <3>1. s \ {Pick(s)} \in SUBSET T /\ s \ {Pick(s)} # T
      BY <2>1, PickInSet
    <3> QED
      BY <3>1, <1>3
  <2> HIDE DEF G
  <2> QED
    BY <2>1 DEF SumsAllSubsets
<1> QED
  BY <1>1, <1>4

\* On a finite set that function exists, and gives the sum of each subset.
LEMMA SumOfProperty ==
  ASSUME NEW w, NEW S, IsFiniteSet(S)
  PROVE  \E g : /\ SumsAllSubsets(g, w, S)
                /\ \A T \in SUBSET S : SumOf(w, T) = g[T]
<1> DEFINE The(T) == CHOOSE g : SumsAllSubsets(g, w, T)
<1>1. ASSUME NEW T \in SUBSET S PROVE SumsAllSubsets(The(T), w, T)
  <2>1. \E g : SumsAllSubsets(g, w, T)
    BY SumsExist, FS_Subset
  <2> QED
    BY <2>1
<1>2. SumsAllSubsets(The(S), w, S)
  BY <1>1
<1>3. ASSUME NEW T \in SUBSET S PROVE SumOf(w, T) = The(S)[T]
  <2>1. The(S)[T] = The(T)[T]
    BY <1>1, <1>2, SumsAgree
  <2> QED
    BY <2>1, SumOfUnfolded
<1> QED
  BY <1>2, <1>3

-------------------------------------------------------------------------------

\* The sum over no elements is zero.
LEMMA SumOfEmpty ==
  ASSUME NEW w PROVE SumOf(w, {}) = 0
<1>1. PICK g : SumsAllSubsets(g, w, {}) /\ SumOf(w, {}) = g[{}]
  BY SumOfProperty, FS_EmptySet
<1> QED
  BY <1>1 DEF SumsAllSubsets

\* The sum of natural numbers is one.
LEMMA SumOfNat ==
  ASSUME NEW D, NEW w \in [D -> Nat], NEW S, S \subseteq D, IsFiniteSet(S)
  PROVE  SumOf(w, S) \in Nat
<1>1. PICK g : SumsAllSubsets(g, w, S) /\ \A T \in SUBSET S : SumOf(w, T) = g[T]
  BY SumOfProperty
<1> DEFINE C == {s \in SUBSET S : g[s] \notin Nat}
<1> SUFFICES ASSUME C # {} PROVE FALSE
  BY <1>1
<1>2. PICK s \in C : \A u \in C : ~ (u \subseteq s /\ u # s)
  <2>1. C \subseteq SUBSET S
    OBVIOUS
  <2> HIDE DEF C
  <2> QED
    BY <2>1, MinimalSet
<1>3. s # {}
  BY <1>1, <1>2 DEF SumsAllSubsets
<1>4. Pick(s) \in s
  BY <1>3, PickInSet
<1>5. g[s] = w[Pick(s)] + g[s \ {Pick(s)}] /\ w[Pick(s)] \in Nat
  BY <1>1, <1>2, <1>3, <1>4 DEF SumsAllSubsets
<1>6. g[s \ {Pick(s)}] \in Nat
  BY <1>2, <1>4
<1> QED
  BY <1>2, <1>5, <1>6

\* Whichever element is taken first.
LEMMA SumOfRemove ==
  ASSUME NEW D, NEW w \in [D -> Nat], NEW S, S \subseteq D, IsFiniteSet(S), NEW a \in S
  PROVE  SumOf(w, S) = w[a] + SumOf(w, S \ {a})
<1>1. PICK g : SumsAllSubsets(g, w, S) /\ \A T \in SUBSET S : SumOf(w, T) = g[T]
  BY SumOfProperty
<1>2. \A T \in SUBSET S : g[T] \in Nat
  BY <1>1, SumOfNat, FS_Subset
<1> DEFINE C == {s \in SUBSET S : \E e \in s : g[s] # w[e] + g[s \ {e}]}
<1> SUFFICES ASSUME C # {} PROVE FALSE
  <2>1. S \in SUBSET S /\ S \ {a} \in SUBSET S
    OBVIOUS
  <2>2. SumOf(w, S) = g[S] /\ SumOf(w, S \ {a}) = g[S \ {a}]
    BY <1>1, <2>1
  <2>3. C = {} => g[S] = w[a] + g[S \ {a}]
    BY <2>1
  <2> QED
    BY <2>2, <2>3
<1>3. PICK s \in C : \A u \in C : ~ (u \subseteq s /\ u # s)
  <2>1. C \subseteq SUBSET S
    OBVIOUS
  <2> HIDE DEF C
  <2> QED
    BY <2>1, MinimalSet
<1>4. PICK e \in s : g[s] # w[e] + g[s \ {e}]
  BY <1>3
<1> DEFINE p == Pick(s)
<1>5. p \in s
  BY <1>4, PickInSet
<1>6. g[s] = w[p] + g[s \ {p}]
  BY <1>1, <1>3, <1>4 DEF SumsAllSubsets
<1>7. p # e
  BY <1>4, <1>6
<1> HIDE DEF p
<1>8. g[s \ {p}] = w[e] + g[(s \ {p}) \ {e}]
  <2>1. s \ {p} \notin C /\ s \ {p} \in SUBSET S /\ e \in s \ {p}
    BY <1>3, <1>4, <1>5, <1>7
  <2> QED
    BY <2>1
<1>9. g[s \ {e}] = w[p] + g[(s \ {e}) \ {p}]
  <2>1. s \ {e} \notin C /\ s \ {e} \in SUBSET S /\ p \in s \ {e}
    BY <1>3, <1>4, <1>5, <1>7
  <2> QED
    BY <2>1
<1>10. (s \ {p}) \ {e} = (s \ {e}) \ {p}
  OBVIOUS
<1>11. w[e] \in Nat /\ w[p] \in Nat /\ g[(s \ {e}) \ {p}] \in Nat
  <2>1. e \in D /\ p \in D /\ (s \ {e}) \ {p} \in SUBSET S
    BY <1>3, <1>4, <1>5
  <2> QED
    BY <2>1, <1>2
<1>12. g[s] = w[p] + (w[e] + g[(s \ {e}) \ {p}])
  BY <1>6, <1>8, <1>10
<1> HIDE DEF C
<1> QED
  BY <1>4, <1>9, <1>11, <1>12

\* A new element adds its weight.
LEMMA SumOfAdd ==
  ASSUME NEW D, NEW w \in [D -> Nat], NEW S, S \subseteq D, IsFiniteSet(S),
         NEW a \in D, a \notin S
  PROVE  SumOf(w, S \cup {a}) = SumOf(w, S) + w[a]
<1>1. IsFiniteSet(S \cup {a}) /\ (S \cup {a}) \ {a} = S
  BY FS_AddElement
<1>2. SumOf(w, S \cup {a}) = w[a] + SumOf(w, S)
  BY <1>1, SumOfRemove
<1> QED
  BY <1>2, SumOfNat

\* The sum over two disjoint sets is the sum of the sums.
LEMMA SumOfDisjoint ==
  ASSUME NEW D, NEW w \in [D -> Nat], NEW S, S \subseteq D, IsFiniteSet(S),
         NEW T, T \subseteq D, IsFiniteSet(T), S \cap T = {}
  PROVE  SumOf(w, S \cup T) = SumOf(w, S) + SumOf(w, T)
<1> DEFINE C == {u \in SUBSET T : SumOf(w, S \cup u) # SumOf(w, S) + SumOf(w, u)}
<1> SUFFICES ASSUME C # {} PROVE FALSE
  OBVIOUS
<1>1. PICK u \in C : \A v \in C : ~ (v \subseteq u /\ v # u)
  <2>1. C \subseteq SUBSET T
    OBVIOUS
  <2> HIDE DEF C
  <2> QED
    BY <2>1, MinimalSet
<1>2. ASSUME NEW v, v \subseteq S \cup T
      PROVE  v \subseteq D /\ IsFiniteSet(v) /\ SumOf(w, v) \in Nat
  <2>1. IsFiniteSet(S \cup T)
    BY FS_Union
  <2>2. v \subseteq D /\ IsFiniteSet(v)
    BY <1>2, <2>1, FS_Subset
  <2> QED
    BY <2>2, SumOfNat
<1>3. u # {}
  <2>1. ASSUME u = {} PROVE FALSE
    <3>1. SumOf(w, u) = 0 /\ S \cup u = S
      BY <2>1, SumOfEmpty
    <3>2. SumOf(w, S) \in Nat
      BY <1>2
    <3>3. SumOf(w, S \cup u) # SumOf(w, S) + SumOf(w, u)
      BY <1>1
    <3> QED
      BY <3>1, <3>2, <3>3
  <2> QED
    BY <2>1
<1>4. PICK a \in u : TRUE
  BY <1>3
<1> DEFINE v == u \ {a}
<1>5. SumOf(w, S \cup v) = SumOf(w, S) + SumOf(w, v)
  BY <1>1, <1>4
<1>6. SumOf(w, u) = w[a] + SumOf(w, v)
  <2>1. u \subseteq D /\ IsFiniteSet(u)
    BY <1>1, <1>2
  <2> QED
    BY <2>1, <1>4, SumOfRemove
<1>7. SumOf(w, S \cup u) = w[a] + SumOf(w, S \cup v)
  <2>1. S \cup u \subseteq D /\ IsFiniteSet(S \cup u) /\ a \in S \cup u
    BY <1>1, <1>2, <1>4
  <2>2. (S \cup u) \ {a} = S \cup v
    BY <1>1, <1>4
  <2> QED
    BY <2>1, <2>2, SumOfRemove
<1>8. w[a] \in Nat /\ SumOf(w, S) \in Nat /\ SumOf(w, v) \in Nat
  BY <1>1, <1>2, <1>4
<1>9. SumOf(w, S \cup u) # SumOf(w, S) + SumOf(w, u)
  BY <1>1
<1> HIDE DEF v, C
<1> QED
  BY <1>5, <1>6, <1>7, <1>8, <1>9

\* Functions that agree on a set have the same sum over it.
LEMMA SumOfAlike ==
  ASSUME NEW D, NEW w \in [D -> Nat], NEW E, NEW v \in [E -> Nat],
         NEW S, S \subseteq D, S \subseteq E, IsFiniteSet(S), \A x \in S : w[x] = v[x]
  PROVE  SumOf(w, S) = SumOf(v, S)
<1> DEFINE C == {s \in SUBSET S : SumOf(w, s) # SumOf(v, s)}
<1> SUFFICES ASSUME C # {} PROVE FALSE
  OBVIOUS
<1>1. PICK s \in C : \A u \in C : ~ (u \subseteq s /\ u # s)
  <2>1. C \subseteq SUBSET S
    OBVIOUS
  <2> HIDE DEF C
  <2> QED
    BY <2>1, MinimalSet
<1>2. s \subseteq D /\ s \subseteq E /\ IsFiniteSet(s) /\ s \subseteq S
  BY <1>1, FS_Subset
<1>3. PICK a \in s : TRUE
  <2>1. s # {}
    BY <1>1, SumOfEmpty
  <2> QED
    BY <2>1
<1>4. SumOf(w, s \ {a}) = SumOf(v, s \ {a})
  BY <1>1, <1>3
<1>5. w[a] = v[a]
  BY <1>2, <1>3
<1> HIDE DEF C
<1>6. SumOf(w, s) = w[a] + SumOf(w, s \ {a})
  BY <1>2, <1>3, SumOfRemove
<1>7. SumOf(v, s) = v[a] + SumOf(v, s \ {a})
  BY <1>2, <1>3, SumOfRemove
<1>8. SumOf(w, s) # SumOf(v, s)
  BY <1>1 DEF C
<1> QED
  BY <1>4, <1>5, <1>6, <1>7, <1>8

\* The sum of the first k numbers, one after the other.
LEMMA SumOfFirst ==
  ASSUME NEW n \in Nat, NEW w \in [1 .. n -> Nat]
  PROVE  /\ SumOf(w, 1 .. 0) = 0
         /\ \A k \in 0 .. n : SumOf(w, 1 .. k) \in Nat
         /\ \A k \in 1 .. n : SumOf(w, 1 .. k) = SumOf(w, 1 .. (k - 1)) + w[k]
<1>1. SumOf(w, 1 .. 0) = 0
  <2>1. 1 .. 0 = {}
    OBVIOUS
  <2> QED
    BY <2>1, SumOfEmpty
<1>2. ASSUME NEW k \in 0 .. n
      PROVE  IsFiniteSet(1 .. k) /\ 1 .. k \subseteq 1 .. n /\ SumOf(w, 1 .. k) \in Nat
  <2>1. IsFiniteSet(1 .. k) /\ 1 .. k \subseteq 1 .. n
    BY FS_Interval
  <2> QED
    BY <2>1, SumOfNat
<1>3. ASSUME NEW k \in 1 .. n
      PROVE  SumOf(w, 1 .. k) = SumOf(w, 1 .. (k - 1)) + w[k]
  <2>1. k - 1 \in 0 .. n /\ k \in 0 .. n /\ k \in 1 .. k /\ (1 .. k) \ {k} = 1 .. (k - 1)
    OBVIOUS
  <2>2. SumOf(w, 1 .. k) = w[k] + SumOf(w, (1 .. k) \ {k})
    <3>1. IsFiniteSet(1 .. k) /\ 1 .. k \subseteq 1 .. n
      BY <2>1, <1>2
    <3> QED
      BY <2>1, <3>1, SumOfRemove
  <2>3. w[k] \in Nat /\ SumOf(w, 1 .. (k - 1)) \in Nat
    BY <2>1, <1>2
  <2>4. SumOf(w, (1 .. k) \ {k}) = SumOf(w, 1 .. (k - 1))
    BY <2>1
  <2> QED
    BY <2>2, <2>3, <2>4
<1> QED
  BY <1>1, <1>2, <1>3

-------------------------------------------------------------------------------
(* Folds and sequences: what the recursive functions behind them compute.    *)

\* The greatest of the first k numbers, and what is left without it.
LEMMA RangeLast ==
  ASSUME NEW k \in Nat \ {0} PROVE Max(1 .. k) = k /\ (1 .. k) \ {k} = 1 .. (k - 1)
BY DEF Max

\* Of a set of numbers up to k that is not empty, Max chooses a member, and k if it is one.
LEMMA MaxUpTo ==
  ASSUME NEW k \in Nat, NEW s \in SUBSET (1 .. k), s # {}
  PROVE  Max(s) \in s /\ (k \in s => Max(s) = k)
<1>1. \E x \in s : \A y \in s : x >= y
  <2> DEFINE C == {n \in 0 .. k : \A y \in s : y <= n}
  <2>1. C \subseteq Nat /\ k \in C
    OBVIOUS
  <2>2. PICK n \in C : \A m \in C : n <= m
    <3> HIDE DEF C
    <3> QED
      BY <2>1, LeastNatural
  <2>3. CASE n \in s
    BY <2>2, <2>3
  <2>4. CASE n \notin s
    <3>1. n # 0
      <4>1. PICK y \in s : TRUE
        OBVIOUS
      <4> QED
        BY <4>1, <2>2
    <3>2. n - 1 \in 0 .. k /\ \A y \in s : y <= n - 1
      BY <3>1, <2>2, <2>4
    <3> QED
      BY <3>2, <2>2
  <2> QED
    BY <2>3, <2>4
<1>2. Max(s) \in s /\ \A y \in s : Max(s) >= y
  BY <1>1 DEF Max
<1>3. ASSUME NEW m \in s, \A y \in s : m >= y, k \in s PROVE m = k
  <2>1. m \in 1 .. k /\ m >= k
    BY <1>3
  <2> QED
    BY <2>1
<1> QED
  BY <1>2, <1>3

\* g folds step over the elements of seq at each set of positions, the greatest last:
\* the function FoldLeft is defined by, for an operator given as a function.
FoldsAll(g, step, base, seq, n) ==
  g = [s \in SUBSET (1 .. n) |->
         IF s = {} THEN base ELSE step[g[s \ {Max(s)}]][seq[Max(s)]]]

\* Such a function exists, and stays among the accumulators.
LEMMA FoldExists ==
  ASSUME NEW A, NEW X, NEW base \in A, NEW step \in [A -> [X -> A]], NEW seq \in Seq(X)
  PROVE  \E g \in [SUBSET (1 .. Len(seq)) -> A] : FoldsAll(g, step, base, seq, Len(seq))
<1> DEFINE Has(n) == \E g \in [SUBSET (1 .. n) -> A] : FoldsAll(g, step, base, seq, n)
           C == {n \in 0 .. Len(seq) : ~ Has(n)}
<1> SUFFICES ASSUME C # {} PROVE FALSE
  <2>1. Len(seq) \in 0 .. Len(seq)
    BY LenProperties
  <2> QED
    BY <2>1
<1>0. Len(seq) \in Nat
  BY LenProperties
<1>1. PICK n \in C : \A m \in C : n <= m
  <2>1. C \subseteq Nat
    OBVIOUS
  <2> HIDE DEF C
  <2> QED
    BY <2>1, LeastNatural
<1>2. n # 0
  <2>1. [s \in SUBSET (1 .. 0) |-> base] \in [SUBSET (1 .. 0) -> A]
        /\ FoldsAll([s \in SUBSET (1 .. 0) |-> base], step, base, seq, 0)
    BY DEF FoldsAll
  <2>2. Has(0)
    BY <2>1
  <2> QED
    BY <2>2
<1>3. n \in 1 .. Len(seq) /\ n - 1 \in 0 .. Len(seq) /\ n - 1 \notin C
  <2>1. n \in 0 .. Len(seq) /\ \A m \in C : n <= m
    BY <1>1
  <2> HIDE DEF C
  <2> QED
    BY <2>1, <1>0, <1>2
<1>4. PICK h \in [SUBSET (1 .. (n - 1)) -> A] : FoldsAll(h, step, base, seq, n - 1)
  BY <1>3
<1> DEFINE g == [s \in SUBSET (1 .. n) |->
                   IF n \in s THEN step[h[s \ {n}]][seq[n]] ELSE h[s]]
<1>5. \A s \in SUBSET (1 .. n) : s \ {n} \in SUBSET (1 .. (n - 1))
  BY <1>3
<1>6. g \in [SUBSET (1 .. n) -> A]
  <2>1. seq[n] \in X
    BY <1>3
  <2>2. \A s \in SUBSET (1 .. n) : h[s \ {n}] \in A /\ (n \notin s => s = s \ {n})
    BY <1>5
  <2>a. \A a \in A : step[a] \in [X -> A]
    OBVIOUS
  <2>b. \A a \in A : step[a][seq[n]] \in A
    BY <2>1, <2>a
  <2>3. \A s \in SUBSET (1 .. n) : step[h[s \ {n}]][seq[n]] \in A
    BY <2>2, <2>b
  <2> QED
    BY <2>2, <2>3
<1>7. \A s \in SUBSET (1 .. (n - 1)) : s \in SUBSET (1 .. n) /\ n \notin s /\ g[s] = h[s]
  BY <1>3
<1>8. ASSUME NEW s \in SUBSET (1 .. n)
      PROVE  g[s] = IF s = {} THEN base ELSE step[g[s \ {Max(s)}]][seq[Max(s)]]
  <2>1. CASE n \in s
    <3>1. Max(s) = n
      <4>1. n \in Nat /\ s # {}
        BY <2>1, <1>3, <1>0
      <4> QED
        BY <4>1, <2>1, MaxUpTo
    <3>2. g[s \ {n}] = h[s \ {n}]
      BY <1>5, <1>7
    <3>3. g[s] = step[h[s \ {n}]][seq[n]]
      BY <2>1
    <3> HIDE DEF g
    <3> QED
      BY <3>1, <3>2, <3>3, <2>1
  <2>2. CASE n \notin s
    <3>1. s \in SUBSET (1 .. (n - 1))
      BY <2>2, <1>5
    <3>2. h[s] = IF s = {} THEN base ELSE step[h[s \ {Max(s)}]][seq[Max(s)]]
      BY <3>1, <1>4 DEF FoldsAll
    <3>3. s # {} => s \ {Max(s)} \in SUBSET (1 .. (n - 1))
      BY <3>1
    <3> HIDE DEF g
    <3> QED
      BY <3>1, <3>2, <3>3, <1>7
  <2> QED
    BY <2>1, <2>2
<1>9. FoldsAll(g, step, base, seq, n)
  <2>1. g = [s \in SUBSET (1 .. n) |-> g[s]]
    OBVIOUS
  <2> HIDE DEF g
  <2> QED
    BY <2>1, <1>8 DEF FoldsAll
<1> QED
  BY <1>1, <1>6, <1>9

\* f[k] is the accumulator after k elements.
Accumulates(f, A, step, base, seq) ==
  /\ f \in [0 .. Len(seq) -> A]
  /\ f[0] = base
  /\ \A k \in 1 .. Len(seq) : f[k] = step[f[k - 1]][seq[k]]

\* What FoldExists says of the positions up to each k.
LEMMA FoldChain ==
  ASSUME NEW A, NEW X, NEW base \in A, NEW step \in [A -> [X -> A]], NEW seq \in Seq(X)
  PROVE  \E f : Accumulates(f, A, step, base, seq)
<1>1. PICK g \in [SUBSET (1 .. Len(seq)) -> A] : FoldsAll(g, step, base, seq, Len(seq))
  BY FoldExists
<1>2. Len(seq) \in Nat
  BY LenProperties
<1> DEFINE f == [k \in 0 .. Len(seq) |-> g[1 .. k]]
<1>3. \A k \in 0 .. Len(seq) : 1 .. k \in SUBSET (1 .. Len(seq))
  BY <1>2
<1>4. f \in [0 .. Len(seq) -> A]
  BY <1>3
<1>5. f[0] = base
  <2>1. {} \in SUBSET (1 .. Len(seq)) /\ g[{}] = base
    BY <1>1 DEF FoldsAll
  <2>2. f[0] = g[1 .. 0] /\ 1 .. 0 = {}
    BY <1>2
  <2> HIDE DEF f
  <2> QED
    BY <2>1, <2>2
<1>6. ASSUME NEW k \in 1 .. Len(seq) PROVE f[k] = step[f[k - 1]][seq[k]]
  <2>1. 1 .. k # {} /\ 1 .. k \in SUBSET (1 .. Len(seq)) /\ k \in Nat \ {0}
    <3>1. k \in Nat \ {0} /\ k <= Len(seq) /\ k \in 1 .. k
      BY <1>2
    <3>2. \A i \in 1 .. k : i \in 1 .. Len(seq)
      BY <3>1, <1>2
    <3> QED
      BY <3>1, <3>2
  <2>2. g[1 .. k] = step[g[(1 .. k) \ {Max(1 .. k)}]][seq[Max(1 .. k)]]
    BY <2>1, <1>1 DEF FoldsAll
  <2>3. Max(1 .. k) = k /\ (1 .. k) \ {k} = 1 .. (k - 1)
    BY <2>1, RangeLast
  <2>4. f[k] = g[1 .. k] /\ f[k - 1] = g[1 .. (k - 1)]
    BY <1>2, <2>1
  <2> HIDE DEF f
  <2> QED
    BY <2>2, <2>3, <2>4
<1> QED
  BY <1>4, <1>5, <1>6 DEF Accumulates

-------------------------------------------------------------------------------

\* The concatenation of sequences, as FlattenSeq defines it.
Joined(seqs) ==
  IF Len(seqs) = 0 THEN seqs
  ELSE LET joined[i \in 1 .. Len(seqs)] ==
             IF i = 1 THEN seqs[i] ELSE joined[i - 1] \o seqs[i]
       IN joined[Len(seqs)]

\* pre[k] is the length of the first k of the sequences together.
StartsOf(pre, seqs) ==
  /\ pre \in [0 .. Len(seqs) -> Nat] /\ pre[0] = 0
  /\ \A k \in 1 .. Len(seqs) : pre[k] = pre[k - 1] + Len(seqs[k])

\* all is the sequences one after the other, the k-th after pre[k - 1] elements.
InPieces(all, seqs, pre, S) ==
  /\ all \in Seq(S) /\ Len(all) = pre[Len(seqs)]
  /\ \A k \in 1 .. Len(seqs) : \A j \in 1 .. Len(seqs[k]) :
       all[pre[k - 1] + j] = seqs[k][j]

\* Piece by piece: piece k starts after the
\* pieces before it, whose lengths add up to pre[k - 1].
LEMMA Flattened ==
  ASSUME NEW S, NEW seqs \in Seq(Seq(S)), NEW pre, StartsOf(pre, seqs)
  PROVE  InPieces(Joined(seqs), seqs, pre, S)
<1> SUFFICES ASSUME pre \in [0 .. Len(seqs) -> Nat], pre[0] = 0,
                    \A k \in 1 .. Len(seqs) : pre[k] = pre[k - 1] + Len(seqs[k])
             PROVE  /\ Joined(seqs) \in Seq(S) /\ Len(Joined(seqs)) = pre[Len(seqs)]
                    /\ \A k \in 1 .. Len(seqs) : \A j \in 1 .. Len(seqs[k]) :
                         Joined(seqs)[pre[k - 1] + j] = seqs[k][j]
  BY DEF StartsOf, InPieces
<1> DEFINE n == Len(seqs)
           Flattens(g) == g = [i \in 1 .. n |->
                                 IF i = 1 THEN seqs[i] ELSE g[i - 1] \o seqs[i]]
           flat == CHOOSE g : Flattens(g)
<1>1. n \in Nat /\ DOMAIN seqs = 1 .. n /\ \A i \in 1 .. n : seqs[i] \in Seq(S)
  BY LenProperties, ElementOfSeq
<1>2. CASE n = 0
  <2>1. seqs = <<>> /\ Joined(seqs) = seqs
    BY <1>2, EmptySeq DEF Joined
  <2> QED
    BY <2>1, <1>2, EmptySeq
<1>3. CASE n # 0
  <2>1. Flattens(flat)
    <3> DEFINE A == Seq(S)
               X == Seq(S)
               J(s) == [t \in X |-> s \o t]
               join == [s \in A |-> J(s)]
               none == <<>>
    <3>1. join \in [A -> [X -> A]] /\ none \in A /\ seqs \in Seq(X)
      BY ConcatProperties, EmptySeq
    <3>a. \A s, t \in A : join[s][t] = s \o t
      <4>1. \A s \in A : \A t \in X : J(s)[t] = s \o t
        OBVIOUS
      <4>2. \A s \in A : join[s] = J(s)
        <5> HIDE DEF J
        <5> QED
          OBVIOUS
      <4> HIDE DEF join, J
      <4> QED
        BY <4>1, <4>2
    <3>2. PICK f \in [0 .. n -> A] :
            /\ f[0] = none
            /\ \A k \in 1 .. n : f[k] = join[f[k - 1]][seqs[k]]
      <4>1. \E f : Accumulates(f, A, join, none, seqs)
        <5> HIDE DEF join, J, A, X, none
        <5> QED
          BY <3>1, FoldChain
      <4> QED
        BY <4>1 DEF Accumulates
    <3>3. \A k \in 1 .. n : k - 1 \in 0 .. n /\ f[k] = f[k - 1] \o seqs[k]
      <4>1. \A k \in 1 .. n : k - 1 \in 0 .. n
        BY <1>1
      <4>2. \A k \in 1 .. n : f[k - 1] \in A /\ seqs[k] \in A
        BY <4>1, <3>2, <1>1
      <4> HIDE DEF join
      <4> QED
        BY <4>1, <4>2, <3>2, <3>a
    <3> DEFINE g == [i \in 1 .. n |-> f[i]]
    <3>4. ASSUME NEW i \in 1 .. n
          PROVE  g[i] = IF i = 1 THEN seqs[i] ELSE g[i - 1] \o seqs[i]
      <4>1. CASE i = 1
        <5>1. f[i] = f[i - 1] \o seqs[i] /\ i - 1 = 0
          BY <4>1, <3>3, <1>1
        <5>2. g[i] = f[0] \o seqs[i]
          BY <5>1
        <5> QED
          BY <5>2, <4>1, <3>2, <1>1, ConcatEmptySeq
      <4>2. CASE i # 1
        BY <4>2, <3>3, <1>1
      <4> QED
        BY <4>1, <4>2
    <3>5. Flattens(g)
      <4>1. g = [i \in 1 .. n |-> g[i]]
        OBVIOUS
      <4> HIDE DEF g
      <4> QED
        BY <4>1, <3>4
    <3> HIDE DEF Flattens
    <3> QED
      BY <3>5
  <2>2. Joined(seqs) = flat[n]
    <3>1. Joined(seqs) = IF n = 0 THEN seqs ELSE flat[n]
      BY Zenon DEF Joined
    <3> HIDE DEF flat
    <3> QED
      BY <3>1, <1>3
  <2>3. \A i \in 1 .. n : flat[i] = IF i = 1 THEN seqs[i] ELSE flat[i - 1] \o seqs[i]
    <3> HIDE DEF flat
    <3> QED
      BY <2>1, Zenon
  <2> DEFINE Is(i) == /\ flat[i] \in Seq(S)
                      /\ Len(flat[i]) = pre[i]
                      /\ \A k \in 1 .. i : \A j \in 1 .. Len(seqs[k]) :
                           pre[k - 1] + j \in 1 .. pre[i] /\ flat[i][pre[k - 1] + j] = seqs[k][j]
             C == {i \in 1 .. n : ~ Is(i)}
  <2> HIDE DEF flat
  <2>4. ASSUME C # {} PROVE FALSE
    <3>1. PICK i \in C : \A m \in C : i <= m
      <4>1. C \subseteq Nat
        BY <1>1
      <4> HIDE DEF C
      <4> QED
        BY <2>4, <4>1, LeastNatural
    <3>2. i \in 1 .. n /\ ~ Is(i) /\ (i # 1 => i - 1 \in 1 .. n /\ Is(i - 1))
      <4>1. i \in 1 .. n /\ ~ Is(i)
        BY <3>1
      <4>2. i # 1 => i - 1 \in 1 .. n /\ i - 1 \notin C
        <5> HIDE DEF C
        <5> QED
          BY <4>1, <3>1, <1>1
      <4>3. i # 1 => Is(i - 1)
        BY <4>2
      <4> HIDE DEF Is
      <4> QED
        BY <4>1, <4>2, <4>3
    <3>3. seqs[i] \in Seq(S) /\ Len(seqs[i]) \in Nat /\ pre[i] = pre[i - 1] + Len(seqs[i])
          /\ pre[i] \in Nat /\ pre[i - 1] \in Nat /\ i \in Nat
      BY <3>2, <1>1, LenProperties
    <3>4. CASE i = 1
      <4>1. flat[i] = seqs[1] /\ pre[i] = Len(seqs[1])
        BY <3>2, <3>3, <3>4, <2>3
      <4>2. \A k \in 1 .. i : k = 1 /\ pre[k - 1] = 0
        BY <3>4
      <4>3. Is(i)
        BY <4>1, <4>2, <3>3, <3>4
      <4> QED
        BY <4>3, <3>2
    <3>5. CASE i # 1
      <4> DEFINE before == flat[i - 1]
      <4>1. /\ flat[i] = before \o seqs[i] /\ before \in Seq(S) /\ Len(before) = pre[i - 1]
            /\ \A k \in 1 .. (i - 1) : \A j \in 1 .. Len(seqs[k]) :
                 pre[k - 1] + j \in 1 .. pre[i - 1] /\ before[pre[k - 1] + j] = seqs[k][j]
        BY <3>2, <3>5, <2>3
      <4> HIDE DEF before
      <4>2. /\ flat[i] \in Seq(S) /\ Len(flat[i]) = pre[i]
            /\ \A j \in 1 .. pre[i] : flat[i][j] = IF j <= pre[i - 1] THEN before[j]
                                                   ELSE seqs[i][j - pre[i - 1]]
        <5> DEFINE piece == seqs[i]
        <5>1. /\ before \o piece \in Seq(S) /\ Len(before \o piece) = Len(before) + Len(piece)
              /\ \A j \in 1 .. Len(before) + Len(piece) : (before \o piece)[j] =
                   IF j <= Len(before) THEN before[j] ELSE piece[j - Len(before)]
          <6>1. before \in Seq(S) /\ piece \in Seq(S)
            BY <4>1, <3>3
          <6> HIDE DEF piece
          <6> QED
            BY <6>1, ConcatProperties
        <5> QED
          BY <5>1, <4>1, <3>3
      <4>3. ASSUME NEW k \in 1 .. i, NEW j \in 1 .. Len(seqs[k])
            PROVE  pre[k - 1] + j \in 1 .. pre[i] /\ flat[i][pre[k - 1] + j] = seqs[k][j]
        <5>1. CASE k = i
          <6>1. pre[i - 1] + j \in 1 .. pre[i] /\ ~ (pre[i - 1] + j <= pre[i - 1])
                /\ (pre[i - 1] + j) - pre[i - 1] = j
            <7> DEFINE p == pre[i - 1]
                       q == pre[i]
                       len == Len(seqs[i])
            <7>1. /\ p \in Nat /\ q \in Nat /\ len \in Nat /\ q = p + len
              BY <3>3
            <7>a. j \in 1 .. len
              BY <5>1
            <7> HIDE DEF p, q, len
            <7>2. p + j \in 1 .. q /\ ~ (p + j <= p) /\ (p + j) - p = j
              BY <7>1, <7>a
            <7> QED
              BY <7>2 DEF p, q
          <6> QED
            BY <6>1, <5>1, <4>2
        <5>2. CASE k # i
          <6>1. k \in 1 .. (i - 1)
            BY <5>2, <3>3
          <6>2. pre[k - 1] + j \in 1 .. pre[i - 1] /\ before[pre[k - 1] + j] = seqs[k][j]
            BY <6>1, <4>1
          <6>3. pre[k - 1] + j \in 1 .. pre[i] /\ pre[k - 1] + j <= pre[i - 1]
            <7> DEFINE p == pre[i - 1]
                       q == pre[i]
                       len == Len(seqs[i])
                       x == pre[k - 1] + j
            <7>1. p \in Nat /\ q \in Nat /\ len \in Nat /\ q = p + len /\ x \in 1 .. p
              BY <6>2, <3>3
            <7> HIDE DEF p, q, len, x
            <7>2. x \in 1 .. q /\ x <= p
              BY <7>1
            <7> QED
              BY <7>2 DEF p, q, x
          <6> QED
            BY <6>2, <6>3, <4>2
        <5> QED
          BY <5>1, <5>2
      <4>4. Is(i)
        BY <4>2, <4>3
      <4> QED
        BY <4>4, <3>2
    <3> QED
      BY <3>4, <3>5
  <2>5. n \in 1 .. n /\ n \notin C
    <3> HIDE DEF C
    <3> QED
      BY <2>4, <1>1, <1>3
  <2> QED
    BY <2>5, <2>2
<1> QED
  BY <1>2, <1>3

\* What holds of 0, and of k whenever it holds of k - 1, holds up to n.
LEMMA Climb ==
  ASSUME NEW n \in Nat, NEW D, 0 \in D, \A k \in 1 .. n : k - 1 \in D => k \in D
  PROVE  \A k \in 0 .. n : k \in D
<1> DEFINE C == {k \in 0 .. n : k \notin D}
<1> SUFFICES ASSUME C # {} PROVE FALSE
  OBVIOUS
<1>1. PICK k \in C : \A m \in C : k <= m
  <2>1. C \subseteq Nat
    OBVIOUS
  <2> HIDE DEF C
  <2> QED
    BY <2>1, LeastNatural
<1>2. k \in 1 .. n /\ k - 1 \in 0 .. n
  BY <1>1
<1>3. k - 1 \notin C
  BY <1>1, <1>2
<1> QED
  BY <1>1, <1>2, <1>3

-------------------------------------------------------------------------------
(* The order of sequences.                                                  *)

\* The order of sequences of numbers: by the first entry that differs, a beginning first.
Lex(s, t) ==
  LET common == 1 .. (IF Len(s) < Len(t) THEN Len(s) ELSE Len(t))
      different == {i \in common : s[i] # t[i]}
  IN IF different = {} THEN Len(s) < Len(t)
     ELSE LET i == CHOOSE i \in different : \A j \in different : i <= j IN s[i] < t[i]

\* s and t agree up to n, and then s ends or has the lesser entry.
LessAfter(s, t, n) ==
  /\ n <= Len(s) /\ n < Len(t) /\ \A j \in 1 .. n : s[j] = t[j]
  /\ n < Len(s) => s[n + 1] < t[n + 1]

\* Lex compares at the first entry that differs.
LEMMA LexIs ==
  ASSUME NEW s \in Seq(Nat), NEW t \in Seq(Nat)
  PROVE  Lex(s, t) <=> \E n \in Nat : LessAfter(s, t, n)
<1> DEFINE common == 1 .. (IF Len(s) < Len(t) THEN Len(s) ELSE Len(t))
           different == {i \in common : s[i] # t[i]}
           least == CHOOSE i \in different : \A j \in different : i <= j
<1>1. /\ Len(s) \in Nat /\ Len(t) \in Nat
      /\ \A i \in 1 .. Len(s) : s[i] \in Nat
      /\ \A i \in 1 .. Len(t) : t[i] \in Nat
  OBVIOUS
<1>2. Lex(s, t) <=> IF different = {} THEN Len(s) < Len(t) ELSE s[least] < t[least]
  BY DEF Lex
<1>3. common \subseteq Nat /\ \A i : i \in common <=> i \in 1 .. Len(s) /\ i \in 1 .. Len(t)
  BY <1>1
<1>4. different # {} => least \in different /\ \A j \in different : least <= j
  <2>1. different \subseteq Nat
    BY <1>3
  <2> HIDE DEF different
  <2> QED
    BY <2>1, LeastNatural
<1> HIDE DEF least, common
<1>5. CASE different = {}
  <2>1. \A j \in common : s[j] = t[j]
    BY <1>5
  <2>2. ASSUME Len(s) < Len(t) PROVE LessAfter(s, t, Len(s))
    <3>1. \A j \in 1 .. Len(s) : j \in common
      <4>1. \A j \in 1 .. Len(s) : j \in 1 .. Len(t)
        BY <2>2, <1>1
      <4> QED
        BY <4>1, <1>3
    <3>2. \A j \in 1 .. Len(s) : s[j] = t[j]
      BY <2>1, <3>1
    <3>3. Len(s) <= Len(s) /\ ~ (Len(s) < Len(s))
      BY <1>1
    <3> QED
      BY <2>2, <3>2, <3>3 DEF LessAfter
  <2>3. ASSUME NEW n \in Nat, LessAfter(s, t, n) PROVE Len(s) < Len(t)
    <3>1. CASE n < Len(s)
      <4>1. n + 1 \in common /\ s[n + 1] < t[n + 1]
        <5>1. n < Len(s) /\ n < Len(t) /\ s[n + 1] < t[n + 1]
          BY <3>1, <2>3 DEF LessAfter
        <5>2. n + 1 \in 1 .. Len(s) /\ n + 1 \in 1 .. Len(t)
          BY <5>1, <1>1
        <5> QED
          BY <5>1, <5>2, <1>3
      <4>2. s[n + 1] = t[n + 1] /\ s[n + 1] \in Nat
        BY <4>1, <2>1, <1>1, <1>3
      <4> QED
        BY <4>1, <4>2
    <3>2. CASE ~ (n < Len(s))
      BY <3>2, <2>3, <1>1 DEF LessAfter
    <3> QED
      BY <3>1, <3>2
  <2> QED
    BY <2>2, <2>3, <1>1, <1>2, <1>5
<1>6. CASE different # {}
  <2>1. least \in common /\ s[least] # t[least] /\ \A j \in common : j < least => s[j] = t[j]
    <3>1. least \in common /\ s[least] # t[least] /\ least \in Nat
      BY <1>3, <1>4, <1>6
    <3>2. ASSUME NEW j \in common, j < least PROVE s[j] = t[j]
      <4>1. j \in Nat /\ ~ (least <= j)
        BY <3>1, <3>2, <1>3
      <4> QED
        BY <4>1, <1>4, <1>6
    <3> QED
      BY <3>1, <3>2
  <2>2. least \in Nat \ {0} /\ least <= Len(s) /\ least <= Len(t)
    BY <2>1, <1>1, <1>3
  <2>3. s[least] < t[least] => LessAfter(s, t, least - 1)
    <3>1. ASSUME NEW j \in 1 .. (least - 1) PROVE j \in common /\ j < least
      <4>1. j \in Nat \ {0} /\ j < least /\ j \in 1 .. Len(s) /\ j \in 1 .. Len(t)
        BY <2>2, <1>1
      <4> QED
        BY <4>1, <1>3
    <3>2. \A j \in 1 .. (least - 1) : s[j] = t[j]
      BY <3>1, <2>1
    <3>3. least - 1 + 1 = least /\ least - 1 \in Nat
      BY <2>2
    <3> QED
      BY <3>2, <3>3, <2>2, <1>1 DEF LessAfter
  <2>4. ASSUME NEW n \in Nat, LessAfter(s, t, n) PROVE s[least] < t[least]
    <3>1. n < least
      <4>1. CASE least <= n
        <5>1. least \in 1 .. n
          BY <4>1, <2>2
        <5> QED
          BY <5>1, <2>1, <2>4 DEF LessAfter
      <4> QED
        BY <4>1, <2>2
    <3>2. n < Len(s) /\ n + 1 \in common /\ s[n + 1] < t[n + 1]
      <4>1. n < Len(s) /\ n < Len(t)
        BY <3>1, <2>2, <1>1
      <4>2. n + 1 \in 1 .. Len(s) /\ n + 1 \in 1 .. Len(t)
        BY <4>1, <1>1
      <4> QED
        BY <4>1, <4>2, <2>4, <1>3 DEF LessAfter
    <3>3. s[n + 1] # t[n + 1]
      BY <3>2, <1>1, <1>3
    <3>4. ~ (n + 1 < least)
      BY <3>2, <3>3, <2>1
    <3>5. n + 1 = least
      BY <3>1, <3>4, <2>2
    <3> QED
      BY <3>2, <3>5
  <2>5. (\E n \in Nat : LessAfter(s, t, n)) <=> s[least] < t[least]
    BY <2>2, <2>3, <2>4
  <2> QED
    BY <2>5, <1>2, <1>6
<1> QED
  BY <1>5, <1>6

\* Sequences of numbers are in a strict total order.
LEMMA LexOrders ==
  ASSUME NEW s \in Seq(Nat), NEW t \in Seq(Nat), NEW u \in Seq(Nat)
  PROVE  /\ ~ Lex(s, s)
         /\ Lex(s, t) /\ Lex(t, u) => Lex(s, u)
         /\ s = t \/ Lex(s, t) \/ Lex(t, s)
<1>1. /\ Len(s) \in Nat /\ Len(t) \in Nat /\ Len(u) \in Nat
      /\ \A i \in 1 .. Len(s) : s[i] \in Nat
      /\ \A i \in 1 .. Len(t) : t[i] \in Nat
      /\ \A i \in 1 .. Len(u) : u[i] \in Nat
  OBVIOUS
<1>2. ~ Lex(s, s)
  <2>1. ASSUME NEW n \in Nat, LessAfter(s, s, n) PROVE FALSE
    <3>1. n < Len(s) /\ s[n + 1] < s[n + 1] /\ n + 1 \in 1 .. Len(s)
      BY <2>1, <1>1 DEF LessAfter
    <3> QED
      BY <3>1, <1>1
  <2> QED
    BY <2>1, LexIs
<1>3. ASSUME Lex(s, t), Lex(t, u) PROVE Lex(s, u)
  <2>1. PICK n \in Nat : LessAfter(s, t, n)
    BY <1>3, LexIs
  <2>2. PICK m \in Nat : LessAfter(t, u, m)
    BY <1>3, LexIs
  <2>3. /\ n <= Len(s) /\ n < Len(t) /\ (n < Len(s) => s[n + 1] < t[n + 1])
        /\ \A j \in 1 .. n : s[j] = t[j]
    BY <2>1 DEF LessAfter
  <2>4. /\ m <= Len(t) /\ m < Len(u) /\ (m < Len(t) => t[m + 1] < u[m + 1])
        /\ \A j \in 1 .. m : t[j] = u[j]
    BY <2>2 DEF LessAfter
  <2>5. CASE n < m
    <3>1. \A j \in 1 .. n : j \in 1 .. m /\ s[j] = t[j]
      BY <2>3, <2>5
    <3>2. \A j \in 1 .. n : s[j] = u[j]
      BY <3>1, <2>4
    <3>3. n + 1 \in 1 .. m /\ n < Len(u)
      BY <2>4, <2>5, <1>1
    <3>4. t[n + 1] = u[n + 1]
      BY <3>3, <2>4
    <3> QED
      BY <3>2, <3>3, <3>4, <2>3, LexIs DEF LessAfter
  <2>6. CASE n = m
    <3>1. \A j \in 1 .. n : s[j] = u[j]
      BY <2>3, <2>4, <2>6
    <3>2. n < Len(s) => s[n + 1] < u[n + 1]
      <4>1. SUFFICES ASSUME n < Len(s) PROVE s[n + 1] < u[n + 1]
        OBVIOUS
      <4>2. n + 1 \in 1 .. Len(s) /\ n + 1 \in 1 .. Len(t) /\ n + 1 \in 1 .. Len(u)
        <5>1. n < Len(t) /\ n < Len(u)
          BY <2>3, <2>4, <2>6
        <5>2. Len(s) \in Nat /\ Len(t) \in Nat /\ Len(u) \in Nat
          BY <1>1
        <5> QED
          BY <4>1, <5>1, <5>2
      <4>3. s[n + 1] \in Nat /\ t[n + 1] \in Nat /\ u[n + 1] \in Nat
        BY <4>2, <1>1
      <4>4. s[n + 1] < t[n + 1] /\ t[n + 1] < u[n + 1]
        BY <4>1, <2>3, <2>4, <2>6
      <4> QED
        BY <4>3, <4>4
    <3> QED
      BY <3>1, <3>2, <2>3, <2>4, <2>6, LexIs DEF LessAfter
  <2>7. CASE m < n
    <3>1. \A j \in 1 .. m : j \in 1 .. n /\ t[j] = u[j]
      BY <2>4, <2>7
    <3>2. \A j \in 1 .. m : s[j] = u[j]
      BY <3>1, <2>3
    <3>3. m + 1 \in 1 .. n /\ m < Len(s) /\ m < Len(t)
      BY <2>3, <2>7, <1>1
    <3>4. s[m + 1] = t[m + 1]
      BY <3>3, <2>3
    <3>5. m <= Len(s) /\ m < Len(u) /\ (m < Len(s) => s[m + 1] < u[m + 1])
      BY <3>3, <3>4, <2>4, <1>1
    <3>6. LessAfter(s, u, m)
      BY <3>2, <3>5 DEF LessAfter
    <3> QED
      BY <3>6, LexIs
  <2> QED
    BY <2>5, <2>6, <2>7
<1>4. ASSUME s # t, ~ Lex(s, t), ~ Lex(t, s) PROVE FALSE
  <2> DEFINE common == 1 .. (IF Len(s) < Len(t) THEN Len(s) ELSE Len(t))
             D == {i \in common : s[i] # t[i]}
             k == IF Len(s) < Len(t) THEN Len(s) ELSE Len(t)
  <2>1. CASE D = {}
    <3>1. \A i \in 1 .. k : s[i] = t[i]
      BY <2>1
    <3>2. Len(s) # Len(t)
      <4>1. CASE Len(s) = Len(t)
        <5>1. \A i \in 1 .. Len(s) : s[i] = t[i]
          BY <3>1, <4>1, <1>1
        <5>2. s = [i \in 1 .. Len(s) |-> s[i]] /\ t = [i \in 1 .. Len(t) |-> t[i]]
          OBVIOUS
        <5> QED
          BY <5>1, <5>2, <4>1, <1>4
      <4> QED
        BY <4>1
    <3>3. LessAfter(s, t, Len(s)) \/ LessAfter(t, s, Len(t))
      BY <3>1, <3>2, <1>1 DEF LessAfter
    <3> QED
      BY <3>3, <1>1, <1>4, LexIs
  <2>2. CASE D # {}
    <3>1. D \subseteq Nat
      BY <1>1
    <3>2. PICK i \in D : \A j \in D : i <= j
      <4> HIDE DEF D
      <4> QED
        BY <3>1, <2>2, LeastNatural
    <3>3. /\ i \in Nat \ {0} /\ i <= Len(s) /\ i <= Len(t) /\ s[i] # t[i]
          /\ s[i] \in Nat /\ t[i] \in Nat
      BY <1>1
    <3>4. ASSUME NEW j \in 1 .. (i - 1) PROVE s[j] = t[j]
      <4>1. j \in common /\ ~ (i <= j)
        <5>1. Len(s) \in Nat /\ Len(t) \in Nat
          BY <1>1
        <5> QED
          BY <3>3, <5>1
      <4> QED
        BY <4>1, <3>2
    <3>5. i - 1 + 1 = i /\ i - 1 \in Nat
      BY <3>3
    <3>6. LessAfter(s, t, i - 1) \/ LessAfter(t, s, i - 1)
      BY <3>3, <3>4, <3>5, <1>1 DEF LessAfter
    <3> QED
      BY <3>5, <3>6, <1>4, LexIs
  <2> QED
    BY <2>1, <2>2
<1> QED
  BY <1>2, <1>3, <1>4
===============================================================================
