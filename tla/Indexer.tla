------------------------------- MODULE Indexer -------------------------------
(***************************************************************************)
(* The numbering of the positions of a table: symmetry reduction,          *)
(* compaction of squares and combinatorial encoding, and its inverse.      *)
(*                                                                         *)
(* A table is the pawns of each file, bottom up as the side to move sees   *)
(* them, and the other men by role and side, in the order KQRBN with the   *)
(* side to move first.  Each man has a slot; a coordinate is a square as   *)
(* the side to move sees it, if the table has pawns.                       *)
(***************************************************************************)
EXTENDS Board, Sequences, SequencesExt

STM == "stm"
SNTM == "sntm"

N_SQUARES == Files * Ranks

\* N_CHOOSE_K, tabulated by Pascal's rule in the code.
N_CHOOSE_K[k \in Nat, n \in Nat] ==
  IF k = 0 THEN 1 ELSE IF n = 0 THEN 0
  ELSE (n * N_CHOOSE_K[k - 1, n - 1]) \div k

Product(s) == FoldLeft(LAMBDA a, b : a * b, 1, s)
Sum(s) == FoldLeft(LAMBDA a, b : a + b, 0, s)

Mapped(F(_), s) == FoldLeft(LAMBDA r, x : Append(r, F(x)), <<>>, s)
Upwards(a, b) == [k \in 1 .. b - a + 1 |-> a + k - 1]
Downwards(a, b) == [k \in 1 .. a - b + 1 |-> a - k + 1]

\* A set in the order of its members' distinct keys.
InOrder(S, Key(_)) ==
  MapThenFoldSet(LAMBDA x, s : Append(s, x), <<>>, LAMBDA x : x,
                 LAMBDA T : CHOOSE x \in T : \A y \in T : Key(y) <= Key(x), S)

-------------------------------------------------------------------------------
(* King pairs of pawnless tables.                                           *)

Square(i) == <<i \div Files, i % Files>>
Distance(a, b) == IF a > b THEN a - b ELSE b - a
kings_adjacent_or_same(a, b) ==
  Distance(a[1], b[1]) <= 1 /\ Distance(a[2], b[2]) <= 1

\* The canonical image of a pair; if both are on the diagonal so is its image.
reduce_king_pair(wk, bk) ==
  LET down(s) == IF wk[1] > Ranks \div 2 - 1 THEN FlipVertical(s) ELSE s
      left(s) == IF wk[2] > Files \div 2 - 1 THEN FlipHorizontal(s) ELSE s
      w == left(down(wk))
      b == left(down(bk))
  IN IF w[1] > w[2] \/ (w[1] = w[2] /\ b[1] > b[2])
     THEN <<FlipDiagonal(w), FlipDiagonal(b)>> ELSE <<w, b>>

RowMajor(s) == s[1] * Files + s[2]

\* KINGS_MAP: the canonical pairs in order, the second king compacted, and
\* whether both are on the diagonal.
KINGS_MAP ==
  LET pairs == {reduce_king_pair(p[1], p[2]) :
                  p \in {q \in Squares \X Squares : ~ kings_adjacent_or_same(q[1], q[2])}}
      entry(p) == LET wk == RowMajor(p[1])
                      bk == RowMajor(p[2])
                  IN [wk |-> wk, bk |-> IF wk <= bk THEN bk - 1 ELSE bk,
                      on_diagonal |-> p[1][1] = p[1][2] /\ p[2][1] = p[2][2]]
  IN InOrder({entry(p) : p \in pairs}, LAMBDA e : e.wk * N_SQUARES + e.bk)

N_KING_PAIRS == Len(KINGS_MAP)

-------------------------------------------------------------------------------
(* The plan of a table.                                                     *)

\* The ranks of the pawns, those of a file downwards, and the file of a possible
\* en passant victim: its file's highest pawn, with an attacker beside it.
Configurations(pawns, span) ==
  LET slots == 1 .. Sum([g \in 1 .. Len(pawns) |-> Len(pawns[g].order)])
      descending(r) == \A g \in 1 .. Len(pawns) : \A i, j \in span[g] : i < j => r[i] > r[j]
      ranks == {r \in [slots -> 1 .. Ranks - 2] : descending(r)}
      attacker(r, g, v) ==
        /\ Distance(pawns[g].file, pawns[v].file) = 1
        /\ \E i \in span[g] : /\ r[i] = Ranks - 4
                              /\ Reverse(pawns[g].order)[i - Min(span[g]) + 1] = STM
      victims(r) ==
        {v \in 1 .. Len(pawns) : /\ r[Min(span[v])] = Ranks - 4
                                 /\ Last(pawns[v].order) = SNTM
                                 /\ \E g \in 1 .. Len(pawns) : attacker(r, g, v)}
  IN UNION {{[ranks |-> r, ep |-> {}]}
            \cup {[ranks |-> r, ep |-> {pawns[v].file}] : v \in victims(r)} : r \in ranks}

\* Their order: rank by rank, without a victim first, then by file.
PawnKeyOf(c) ==
  LET digits == FoldLeft(LAMBDA key, r : key * (Ranks - 2) + r - 1, 0, c.ranks)
  IN digits * (Files + 1) + Sum([f \in 1 .. Files |-> IF f - 1 \in c.ep THEN f ELSE 0])

is_symmetric(pawns) ==
  LET words == {<<pawns[g].file, pawns[g].order>> : g \in 1 .. Len(pawns)}
  IN words = {<<Files - 1 - w[1], w[2]>> : w \in words}

\* compute_piece_squares: what is left of the board for the men of a group, and
\* in how many ways they can stand there.
compute_piece_squares(n_pawns, span, pair) ==
  LET n == N_SQUARES - (Min(span) - 1)
  IN IF pair /\ n_pawns = 0
     THEN LET pairs == N_KING_PAIRS
          IN [span |-> span, n_squares |-> pairs, combinations |-> pairs, pair |-> pair]
     ELSE [span |-> span, n_squares |-> n, pair |-> pair,
           combinations |-> N_CHOOSE_K[Cardinality(span), n]]

\* The two kings are one group of a pawnless or of a symmetric pawn table; a
\* pawnless table carries the KINGS_MAP of its board.
from_elements(table) ==
  LET pawnSlots == [g \in 1 .. Len(table.pawns) |-> Len(table.pawns[g].order)]
      sizes == pawnSlots \o [g \in 1 .. Len(table.pieces) |-> table.pieces[g].count]
      before(g) == Sum(SubSeq(sizes, 1, g - 1))
      span(g) == before(g) + 1 .. before(g) + sizes[g]
      files == Len(table.pawns)
      n_pawns == Sum(pawnSlots)
      symmetric == n_pawns > 0 /\ is_symmetric(table.pawns)
      paired == n_pawns = 0 \/ symmetric
      spans == [g \in 1 .. Len(table.pieces) |-> span(files + g)]
      groups == IF paired THEN <<spans[1] \cup spans[2]>> \o SubSeq(spans, 3, Len(spans))
                ELSE spans
      nonpawns == [g \in 1 .. Len(groups) |->
                     compute_piece_squares(n_pawns, groups[g], paired /\ g = 1)]
      combinations == [g \in 1 .. Len(groups) |-> nonpawns[g].combinations]
      pawn_span == [g \in 1 .. files |-> span(g)]
      pawn_map == IF n_pawns = 0 THEN <<[ranks |-> <<>>, ep |-> {}]>>
                  ELSE InOrder(Configurations(table.pawns, pawn_span), PawnKeyOf)
  IN [n_pieces |-> Sum(sizes), n_pawns |-> n_pawns, symmetric |-> symmetric,
      men |-> FlattenSeq([g \in 1 .. files |->
                 [i \in 1 .. pawnSlots[g] |->
                    [role |-> "Pawn", side |-> Reverse(table.pawns[g].order)[i]]]]
               \o [g \in 1 .. Len(table.pieces) |->
                 [i \in 1 .. table.pieces[g].count |->
                    [role |-> table.pieces[g].role, side |-> table.pieces[g].side]]]),
      files |-> [g \in 1 .. files |-> table.pawns[g].file], pawns |-> pawn_span,
      kings |-> IF n_pawns = 0 THEN KINGS_MAP ELSE <<>>,
      nonpawns |-> nonpawns, pawn_map |-> pawn_map,
      nonpawn_combinations |-> Product(combinations),
      nonking_combinations |-> Product(Tail(combinations)),
      index_range |-> Len(pawn_map) * Product(combinations)]

-------------------------------------------------------------------------------
(* Squares as numbers; reflection of a symmetric pawn table sends i to       *)
(* N_SQUARES - 1 - i, so that the order of the kings tells a position from   *)
(* its reflection.                                                           *)

square_index(ix, c) ==
  IF ix.symmetric
  THEN c[2] * Ranks + (IF c[2] < Files \div 2 THEN c[1] ELSE Ranks - 1 - c[1])
  ELSE RowMajor(c)

square_coord(ix, i) ==
  IF ix.symmetric
  THEN LET file == i \div Ranks
       IN <<IF file < Files \div 2 THEN i % Ranks ELSE Ranks - 1 - (i % Ranks), file>>
  ELSE Square(i)

\* Each value becomes the number of free squares below it, and back.
compact_pidx(v) ==
  [j \in DOMAIN v |-> v[j] - Cardinality({i \in 1 .. j - 1 : v[i] < v[j]})]

uncompact_cpidx(v) ==
  FoldLeft(LAMBDA u, i : FoldLeft(LAMBDA w, j : IF w[i] <= w[j] THEN [w EXCEPT ![j] = @ + 1]
                                                ELSE w,
                                  u, Upwards(i + 1, Len(v))),
           v, Downwards(Len(v) - 1, 1))

map_kings(ix, pidx) ==
  LET i == CHOOSE i \in 1 .. Len(ix.kings) :
             ix.kings[i].wk = pidx[1] /\ ix.kings[i].bk = pidx[2]
  IN [pidx EXCEPT ![1] = i - 1, ![2] = 0]

unmap_kings(ix, pidx) ==
  LET pair == ix.kings[pidx[1] + 1] IN [pidx EXCEPT ![1] = pair.wk, ![2] = pair.bk]

\* The groups that are numbered by combinations; a pawnless table numbers its
\* kings by KINGS_MAP.
Numbered(ix) == IF ix.n_pawns = 0 THEN Tail(ix.nonpawns) ELSE ix.nonpawns

cpidx_to_index(ix, pidx) ==
  LET number(group) ==
        Sum([k \in 1 .. Cardinality(group.span) |->
               N_CHOOSE_K[k, pidx[Max(group.span) - k + 1]]])
  IN FoldLeft(LAMBDA index, group : index * group.combinations + number(group),
              IF ix.n_pawns = 0 THEN pidx[1] ELSE 0, Numbered(ix))

\* The k squares, below n and downwards, whose combination has number x.
Combination[x \in Nat, k \in Nat, n \in Nat] ==
  IF k = 1 THEN <<x>>
  ELSE LET m == Max({i \in 0 .. n - 1 : N_CHOOSE_K[k, i] <= x})
       IN <<m>> \o Combination[x - N_CHOOSE_K[k, m], k - 1, m]

index_to_cpidx(ix, index) ==
  LET decode(group, rest) ==
        [v |-> rest.v \div group.combinations,
         cpidx |-> Combination[rest.v % group.combinations, Cardinality(group.span),
                               group.n_squares] \o rest.cpidx]
      slots(rest) == (IF ix.n_pawns = 0 THEN <<rest.v, 0>> ELSE [i \in 1 .. ix.n_pawns |-> 0])
                     \o rest.cpidx
  IN slots(FoldRight(decode, Numbered(ix), [v |-> index, cpidx |-> <<>>]))

-------------------------------------------------------------------------------
(* Encoding.                                                                *)

\* The file of a pawn group is that of the table, on the reflected board if
\* reflected; repeated men come in any order.
position_to_coord(ix, p, reflected) ==
  LET color(side) == IF side = STM THEN p.turn ELSE Opponent(p.turn)
      seen(s) == <<IF ix.n_pawns > 0 THEN RelativeRank(p.turn, s[1]) ELSE s[1],
                   IF reflected THEN Files - 1 - s[2] ELSE s[2]>>
      coords(P(_)) == {seen(s) : s \in {q \in DOMAIN p.men : P(q)}}
      pawnGroup(g) ==
        InOrder({c \in coords(LAMBDA s : p.men[s].role = "Pawn") : c[2] = ix.files[g]},
                LAMBDA c : -c[1])
      run(i) == {j \in ix.n_pawns + 1 .. ix.n_pieces : ix.men[j] = ix.men[i]}
      same(i) == InOrder(coords(LAMBDA s : p.men[s] = Man(ix.men[i].role, color(ix.men[i].side))),
                         RowMajor)
      nonpawn(i) == same(i)[i - Min(run(i)) + 1]
  IN FlattenSeq([g \in 1 .. Len(ix.pawns) |-> pawnGroup(g)])
     \o [k \in 1 .. ix.n_pieces - ix.n_pawns |-> nonpawn(ix.n_pawns + k)]

reduce_symmetries(coord) ==
  LET down(c) == IF c[1][1] > Ranks \div 2 - 1 THEN Mapped(FlipVertical, c) ELSE c
      left(c) == IF c[1][2] > Files \div 2 - 1 THEN Mapped(FlipHorizontal, c) ELSE c
      below(c) == IF c[1][1] > c[1][2] \/ (c[1][1] = c[1][2] /\ c[2][1] > c[2][2])
                  THEN Mapped(FlipDiagonal, c) ELSE c
  IN below(left(down(coord)))

\* Repeated men downwards; the kings of a pair and the pawns keep their slots.
sort_coord_repeated_pieces(ix, coord) ==
  LET repeated == {g \in 1 .. Len(ix.nonpawns) :
                     Cardinality(ix.nonpawns[g].span) > 1 /\ ~ ix.nonpawns[g].pair}
      sorted(span) == InOrder({coord[j] : j \in span}, LAMBDA c : -square_index(ix, c))
      slot(i) ==
        IF \E g \in repeated : i \in ix.nonpawns[g].span
        THEN LET span == ix.nonpawns[CHOOSE g \in repeated : i \in ix.nonpawns[g].span].span
             IN sorted(span)[i - Min(span) + 1]
        ELSE coord[i]
  IN Mapped(slot, Upwards(1, ix.n_pieces))

coord_to_pidx(ix, coord) == Mapped(LAMBDA c : square_index(ix, c), coord)

PawnIndex(ix, ranks, ep) ==
  (CHOOSE i \in 1 .. Len(ix.pawn_map) :
     ix.pawn_map[i].ranks = ranks /\ ix.pawn_map[i].ep = ep) - 1

encode_position(ix, p, reflected) ==
  LET coord == position_to_coord(ix, p, reflected)
      ep == {IF reflected THEN Files - 1 - e[2] ELSE e[2] : e \in LegalEpSquare(p)}
      pawn_index == PawnIndex(ix, [i \in 1 .. ix.n_pawns |-> coord[i][1]], ep)
      reduced == IF ix.n_pawns = 0 THEN reduce_symmetries(coord) ELSE coord
      cpidx == compact_pidx(coord_to_pidx(ix, sort_coord_repeated_pieces(ix, reduced)))
  IN pawn_index * ix.nonpawn_combinations
     + cpidx_to_index(ix, IF ix.n_pawns = 0 THEN map_kings(ix, cpidx) ELSE cpidx)

ReflectionFaulty(ix, p, REFLECTED) == encode_position(ix, p, REFLECTED)

position_to_index_impl(ix, p, REFLECTED) ==
  LET number(color) == LET k == KingOf(p.men, color)
                       IN square_index(ix, <<RelativeRank(p.turn, k[1]), k[2]>>)
  IN encode_position(ix, p, IF ix.symmetric
                            THEN number(p.turn) < number(Opponent(p.turn)) ELSE REFLECTED)

position_to_index(ix, p) == position_to_index_impl(ix, p, FALSE)

-------------------------------------------------------------------------------
(* Decoding.                                                                *)

coord_to_setup(ix, ep, coord, side_to_move) ==
  LET square(i) == <<IF ix.n_pawns > 0 THEN RelativeRank(side_to_move, coord[i][1])
                     ELSE coord[i][1], coord[i][2]>>
      color(i) == IF ix.men[i].side = STM THEN side_to_move ELSE Opponent(side_to_move)
      slot(s) == CHOOSE i \in DOMAIN coord : square(i) = s
  IN Setup(side_to_move,
           [s \in {square(i) : i \in DOMAIN coord} |->
              Man(ix.men[slot(s)].role, color(slot(s)))],
           {<<RelativeRank(side_to_move, Ranks - 3), f>> : f \in ep})

nonpawn_pidx_to_coord(ix, pidx) == Mapped(LAMBDA i : square_coord(ix, i), pidx)

setup_from_index(ix, index, side_to_move) ==
  LET c == ix.pawn_map[index \div ix.nonpawn_combinations + 1]
      file(i) == ix.files[CHOOSE g \in 1 .. Len(ix.files) : i \in ix.pawns[g]]
      pawns == Mapped(LAMBDA i : <<c.ranks[i], file(i)>>, Upwards(1, ix.n_pawns))
      cpawns == compact_pidx(coord_to_pidx(ix, pawns))
      rest == index_to_cpidx(ix, index % ix.nonpawn_combinations)
      cpidx == IF ix.n_pawns = 0 THEN unmap_kings(ix, rest)
               ELSE cpawns \o SubSeq(rest, ix.n_pawns + 1, ix.n_pieces)
      coord == nonpawn_pidx_to_coord(ix, uncompact_cpidx(cpidx))
  IN coord_to_setup(ix, c.ep, pawns \o SubSeq(coord, ix.n_pawns + 1, ix.n_pieces), side_to_move)

\* The index of the reflection in the diagonal, if both kings are on it.
diagonal_symmetric(ix, index) ==
  IF ix.n_pawns # 0 THEN {}
  ELSE IF ~ ix.kings[index \div ix.nonking_combinations + 1].on_diagonal THEN {}
  ELSE LET pidx == uncompact_cpidx(unmap_kings(ix, index_to_cpidx(ix, index)))
           coord == nonpawn_pidx_to_coord(ix, pidx)
           sorted == sort_coord_repeated_pieces(ix, Mapped(FlipDiagonal, coord))
       IN {cpidx_to_index(ix, map_kings(ix, compact_pidx(coord_to_pidx(ix, sorted))))}
===============================================================================
