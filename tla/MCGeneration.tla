----------------------------- MODULE MCGeneration -----------------------------
(***************************************************************************)
(* Runs of the generator on names of four files.                            *)
(***************************************************************************)
EXTENDS Generation

MCRoles == <<"Queen">>

Half(queens, pawns) == [men |-> ("Queen" :> queens), pawns |-> pawns]
Material(a, b, c, d) == (STM :> Half(a, b)) @@ (SNTM :> Half(c, d))
KQ_K == Material(1, 0, 0, 0)
KP_K == Material(0, 1, 0, 0)
KP_KP == Material(0, 1, 0, 1)
NameOf(m, files) ==
  compute_tablename(Elements(files, [side \in Sides |-> m[side].men]))
Pieces(m) == NameOf(m, <<<<>>, <<>>, <<>>, <<>>>>)
K_K == Pieces(Material(0, 0, 0, 0))
KPa_K == NameOf(KP_K, <<<<STM>>, <<>>, <<>>, <<>>>>)
KPd_K == NameOf(KP_K, <<<<>>, <<>>, <<>>, <<STM>>>>)
KPbo_KPbo == NameOf(KP_KP, <<<<>>, <<STM, SNTM>>, <<>>, <<>>>>)

Below(n) == Hierarchy(Prefix({n}, {}, {}, {}))
Split(n, a, b) == Hierarchy(Prefix({n}, {<<a, b>>}, {}, {}))
Opposing(n, a, b, k) == Hierarchy(Prefix({n}, {<<a, b>>}, {k}, {}))
Bottom(n, a, b, k, p) == Hierarchy(Prefix({n}, {<<a, b>>}, {k}, {p}))

\* From nothing to everything; overlaps; both orientations of a material; the
\* bottom directories of four opposed or unopposed pawns; and mistakes.
MCRequests ==
  {<<Below(2), Below(3)>>, <<Below(4), Below(3), Below(2), Split(4, 2, 2)>>,
   <<Opposing(4, 2, 2, 1)>>, <<Bottom(6, 3, 3, 2, 4)>>, <<Bottom(6, 3, 3, 0, 4)>>,
   <<MaterialNamed(KP_KP)>>, <<MaterialNamed(KP_K), MaterialNamed(KQ_K)>>,
   <<Exact(KPa_K), Exact(Pieces(KQ_K)), Exact(KPa_K)>>, <<Exact(KPbo_KPbo)>>,
   <<Exact(KPd_K)>>, <<Below(2), MaterialNamed(KP_K)>>, <<Opposing(4, 3, 1, 1)>>}

Holding(all, but, input, damaged) ==
  [all |-> all, but |-> but, input |-> input, damaged |-> damaged]
MCHoldings ==
  {Holding(FALSE, {}, {}, {}), Holding(TRUE, {}, {}, {}),
   Holding(TRUE, {Pieces(KQ_K)}, {}, {}),
   Holding(TRUE, {}, {Pieces(KQ_K), KPa_K, KPbo_KPbo}, {}),
   Holding(TRUE, {}, {Pieces(KQ_K)}, {K_K})}
===============================================================================
