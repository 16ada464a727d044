---------------------------- MODULE MCPublication ----------------------------
(***************************************************************************)
(* Instances of Publication: a directory over two others, one with a table *)
(* that is its own twin, the other with a pair.  The directories above the *)
(* three are alike and left out.                                           *)
(***************************************************************************)
EXTENDS Publication, TLC

CONSTANTS p1, p2, p3

MCTables == {"KQ_KQ", "KPa_KQ", "KQ_KPa"}
MCPrefixes == {"op0/", "op0/0pawns/", "op0/1pawns/"}

MCUnder ==
  ("op0/" :> MCTables)
  @@ ("op0/0pawns/" :> {"KQ_KQ"})
  @@ ("op0/1pawns/" :> {"KPa_KQ", "KQ_KPa"})
MCOuter ==
  ("op0/" :> {}) @@ ("op0/0pawns/" :> {"op0/"}) @@ ("op0/1pawns/" :> {"op0/"})

MCPairs == {<<"KQ_KQ">>, <<"KPa_KQ", "KQ_KPa">>}
MCSelfTwin == {<<"KQ_KQ">>}

Directories(D) ==
  [hierarchy |-> TRUE, prefixes |-> D, tables |-> UNION {MCUnder[x] : x \in D}]
Names(T) == [hierarchy |-> FALSE, prefixes |-> {}, tables |-> T]

\* A directory with one it covers, one of its directories, tables by name.
MCSelections ==
  {Directories({"op0/", "op0/1pawns/"}), Directories({"op0/0pawns/"}),
   Names({"KQ_KPa"})}
MCRaced == {Directories({"op0/0pawns/"}), Names({"KQ_KQ", "KQ_KPa"})}

Symmetric == Permutations(Procs)
===============================================================================
