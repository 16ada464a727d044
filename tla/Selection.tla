------------------------------- MODULE Selection -------------------------------
(***************************************************************************)
(* Selectors and plans: src/selection.rs.  A selector is a hierarchy prefix *)
(* of up to four components, a material or an exact name; its text is left  *)
(* out.  A component of a prefix is a set of at most one value.             *)
(***************************************************************************)
EXTENDS Conversions

Prefix(n, split, opposing, pawns) ==
  [n |-> n, split |-> split, opposing |-> opposing, pawns |-> pawns]
Anything == Prefix({}, {}, {}, {})
Hierarchy(prefix) == [kind |-> "hierarchy", prefix |-> prefix]
MaterialNamed(m) == [kind |-> "material", material |-> m]
Exact(name) == [kind |-> "exact", name |-> name]

\* What the text of a selector can say.
Materials == [Sides -> [men : [ToSet(Roles) -> Nat], pawns : Nat]]
Texts == [Sides -> [men : [ToSet(Roles) -> Nat],
                    pawns : Seq([file : 0 .. Files - 1, opposed : BOOLEAN])]]
IsSelector(selector) ==
  /\ selector.kind \in {"hierarchy", "material", "exact"}
  /\ selector.kind = "material" => selector.material \in Materials
  /\ selector.kind = "exact" => selector.name \in Texts

\* Prefix::matches_material: may a table of this material match?
MaterialCounts(m) == [side \in Sides |-> 1 + MenOf(m[side].men) + m[side].pawns]
SplitOf(counts) ==
  IF counts[STM] > counts[SNTM] THEN <<counts[STM], counts[SNTM]>>
  ELSE <<counts[SNTM], counts[STM]>>

MatchesMaterialFaulty(prefix, m) ==
  LET counts == MaterialCounts(m)
  IN /\ \A n \in prefix.n : n = counts[STM] + counts[SNTM]
     /\ \A split \in prefix.split : split = SplitOf(counts)
     /\ \A n \in prefix.pawns : n = m[STM].pawns + m[SNTM].pawns
     /\ \A n \in prefix.opposing : n < m[STM].pawns /\ n < m[SNTM].pawns

matches_material(prefix, m) ==
  LET counts == MaterialCounts(m)
  IN /\ \A n \in prefix.n : n = counts[STM] + counts[SNTM]
     /\ \A split \in prefix.split : split = SplitOf(counts)
     /\ \A n \in prefix.pawns : n = m[STM].pawns + m[SNTM].pawns
     /\ \A n \in prefix.opposing : n <= m[STM].pawns /\ n <= m[SNTM].pawns

\* Prefix::matches.
matches(prefix, name) ==
  LET directory == Directory(name)
  IN /\ \A n \in prefix.n : n = directory.n
     /\ \A split \in prefix.split : split = directory.split
     /\ \A n \in prefix.opposing : n = directory.opposing
     /\ \A n \in prefix.pawns : n = directory.pawns

-------------------------------------------------------------------------------
(* The tables of a material: the files of the mover's pawns, of the other    *)
(* side's, then every order of the pawns of a file.                         *)

get_file_combinations(k) ==
  {list \in [1 .. k -> 0 .. Files - 1] : \A i, j \in 1 .. k : i < j => list[i] <= list[j]}

pawn_order_combinations(stm, sntm) ==
  LET times(list, f) == Cardinality({i \in DOMAIN list : list[i] = f - 1})
      orders(f) == {w \in Words : /\ CountOf(w, STM) = times(stm, f)
                                  /\ CountOf(w, SNTM) = times(sntm, f)}
  IN FoldLeft(LAMBDA layouts, f : {Append(l, w) : l \in layouts, w \in orders(f)},
              {<<>>}, [f \in 1 .. Files |-> f])

\* Material::tables.
Tables(m, prefix) ==
  LET lists == {l \in get_file_combinations(m[STM].pawns)
                      \X get_file_combinations(m[SNTM].pawns) : is_canonical(l[1], l[2])}
      layouts == {files \in UNION {pawn_order_combinations(l[1], l[2]) : l \in lists} :
                    ~canonicalized(files).reflected}
      men == [side \in Sides |-> m[side].men]
  IN IF ~matches_material(prefix, m) THEN {}
     ELSE {name \in {from_elements(Elements(files, men)) : files \in layouts} :
             matches(prefix, name)}

Halves(n) ==
  {h \in [men : [ToSet(Roles) -> 0 .. n], pawns : 0 .. n] : MenOf(h.men) + h.pawns = n}

\* All materials of n pieces, either side with any share of them.
material_names(n) ==
  UNION {{[side \in Sides |-> h[IF side = STM THEN 1 ELSE 2]] :
            h \in Halves(k) \X Halves(n - 2 - k)} : k \in 0 .. n - 2}

-------------------------------------------------------------------------------
(* TableSelector.                                                           *)

ValidPrefix(prefix) ==
  /\ \A n \in prefix.n : n \in 2 .. MaxPieces
  /\ \A s \in prefix.split : s[2] # 0 /\ s[1] >= s[2] /\ s[1] + s[2] \in prefix.n
  /\ \A k \in prefix.opposing, s \in prefix.split : k <= s[2] - 1
  /\ \A p \in prefix.pawns, n \in prefix.n, k \in prefix.opposing : p <= n - 2 /\ p >= 2 * k

ParsesSelector(selector) ==
  CASE selector.kind = "hierarchy" -> ValidPrefix(selector.prefix)
    [] selector.kind = "material" ->
         LET counts == MaterialCounts(selector.material)
         IN counts[STM] + counts[SNTM] \in 2 .. MaxPieces
    [] selector.kind = "exact" -> parse(selector.name) # Invalid

\* TableSelector::resolve; an empty result is an error.
resolve(selector) ==
  CASE selector.kind = "hierarchy" ->
         UNION {UNION {Tables(m, selector.prefix) : m \in material_names(n)} :
                  n \in selector.prefix.n}
    [] selector.kind = "material" -> Tables(selector.material, Anything)
    [] selector.kind = "exact" -> {selector.name}

\* parse_selectors: all valid and of one kind.
parse_selectors(selectors) ==
  /\ \A i \in DOMAIN selectors : ParsesSelector(selectors[i])
  /\ \A i, j \in DOMAIN selectors : selectors[i].kind = selectors[j].kind

Resolves(selectors) ==
  parse_selectors(selectors) /\ \A i \in DOMAIN selectors : resolve(selectors[i]) # {}

resolve_selectors(selectors) == UNION {resolve(selectors[i]) : i \in DOMAIN selectors}

-------------------------------------------------------------------------------
(* GenerationPlan: each table with its twin, under the first of the two.     *)

GenerationPlan(tables) ==
  {LET other == twin(t).id
   IN IF t = other THEN <<t>> ELSE IF Before(t, other) THEN <<t, other>> ELSE <<other, t>> :
     t \in tables}

\* material_family: the two orientations of a table's material.
material_family(name) == {material(name), material(twin(name).id)}
===============================================================================
