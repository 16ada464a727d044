------------------------------ MODULE TableScan ------------------------------
(***************************************************************************)
(* The first pass of the solver over the indices of a table and its twin:  *)
(* every index is decoded, rejected with a reason or given its move        *)
(* counter; and the predecessors through which propagation will reach it.  *)
(*                                                                         *)
(* The solver sees every table with White to move.  Blocks are scanned in  *)
(* parallel and their counts added; the order of indices does not matter,  *)
(* and here they are scanned upwards.                                      *)
(***************************************************************************)
EXTENDS Indexer

\* Pairs of a table and its twin, the same table if a self-pair, with a board.
CONSTANT Pairs

ASSUME ScanAssumption ==
  \A p \in Pairs : /\ IsBoard(p.board)
                   /\ p.tables[1].pawns = <<>> => p.board[1] = p.board[2]

VARIABLES
  tables, slot,  \* a table and its twin; the one being initialized
  index,         \* the next index
  tally          \* how many indices so far have each verdict

vars == <<board, tables, slot, index, tally>>

Egt(elements) == [elements |-> elements, indexer |-> from_elements(elements)]
Solver(p) == <<Egt(p[1]), Egt(p[2])>>

-------------------------------------------------------------------------------
(* Moves of the solver.                                                     *)

\* The pawns of the twin: sides exchanged, seen from the other side.
TwinPawns(pawns) ==
  {<<pawns[g].file,
     [i \in 1 .. Len(pawns[g].order) |->
        IF Reverse(pawns[g].order)[i] = STM THEN SNTM ELSE STM]>> : g \in 1 .. Len(pawns)}

\* Whether the twin's files are those of the table reflected.
is_mirrored(table, twin) ==
  LET pawns == twin.elements.pawns
  IN TwinPawns(table.elements.pawns)
       # {<<pawns[g].file, pawns[g].order>> : g \in 1 .. Len(pawns)}

kings_on_long_diagonal(kings) ==
  \/ \A k \in kings : k[1] = k[2]
  \/ \A k \in kings : k[1] = Files - 1 - k[2]

Kings(men) == {KingOf(men, White), KingOf(men, Black)}

MoveCounterFaulty(p) == Cardinality(LegalMoves(p))

\* Quiet king moves onto a long diagonal count twice.
symmetry_adjusted_move_counter(p) ==
  IF kings_on_long_diagonal(Kings(p.men)) THEN Cardinality(LegalMoves(p))
  ELSE Cardinality(LegalMoves(p))
       + Cardinality({m \in QuietMoves(p) : /\ m.man.role = "King"
                                            /\ kings_on_long_diagonal(Kings(Played(p.men, m)))})

MoveCounter(ix, p) ==
  IF ix.n_pawns = 0 THEN symmetry_adjusted_move_counter(p) ELSE Cardinality(LegalMoves(p))

-------------------------------------------------------------------------------
(* Unmoves.                                                                 *)

Relocated(men, to, from) ==
  [s \in (DOMAIN men \ {to}) \cup {from} |-> IF s = from THEN men[to] ELSE men[s]]

pawnless_quiet_unmoves(p) ==
  LET us == Opponent(p.turn)
  IN UNION {{Setup(us, Relocated(p.men, to, from), {}) :
               from \in {f \in Attacks(to, p.men[to], DOMAIN p.men) \ DOMAIN p.men :
                           ~ opposite_check(Relocated(p.men, to, f), us)}} :
            to \in MenOf(p.men, us)}

\* A predecessor without en passant, and with each that is legal in it.
emit_pawnful_predecessors(men, us) ==
  LET pushed == {s \in Pawns(men) : /\ men[s].color = Opponent(us)
                                    /\ RelativeRank(us, s[1]) = Ranks - 4}
      target(s) == Step(s, Forward(us), 0)
      open == {s \in pushed :
                 /\ {target(s), Step(s, 2 * Forward(us), 0)} \cap DOMAIN men = {}
                 /\ AttacksTo(target(s), men, us) \cap Pawns(men) # {}}
      passing == {Setup(us, men, {target(s)}) : s \in open}
  IN IF \/ \E s \in Pawns(men) : s[1] \in {0, Ranks - 1}
        \/ opposite_check(men, us)
     THEN {}
     ELSE {Setup(us, men, {})} \cup {p \in passing : LegalEpSquare(p) = p.ep}

PushOriginsFaulty(p, to) ==
  LET us == Opponent(p.turn)
      one == Step(to, -Forward(us), 0)
      two == Step(to, -2 * Forward(us), 0)
      double == RelativeRank(us, to[1]) = 3 /\ two \notin DOMAIN p.men
  IN IF one \notin Squares \/ one \in DOMAIN p.men THEN {}
     ELSE {one} \cup (IF double THEN {two} ELSE {})

\* The squares a pawn can have come from by a push: two back only if no capture
\* of it en passant would be legal now.
PushOrigins(p, to) ==
  LET us == Opponent(p.turn)
      one == Step(to, -Forward(us), 0)
      two == Step(to, -2 * Forward(us), 0)
      double == /\ RelativeRank(us, to[1]) = 3
                /\ two \notin DOMAIN p.men
                /\ LegalEpSquare(Setup(p.turn, p.men, {one})) = {}
  IN IF one \notin Squares \/ one \in DOMAIN p.men THEN {}
     ELSE {one} \cup (IF double THEN {two} ELSE {})

pawnful_quiet_unmoves(p) ==
  LET us == Opponent(p.turn)
      origins(to) == IF p.men[to].role = "Pawn" THEN PushOrigins(p, to)
                     ELSE Attacks(to, p.men[to], DOMAIN p.men) \ DOMAIN p.men
      emit(from, to) == emit_pawnful_predecessors(Relocated(p.men, to, from), us)
      ep == CHOOSE e \in p.ep : TRUE
  IN IF LegalEpSquare(p) # {}
     THEN emit(Step(ep, -Forward(us), 0), Step(ep, Forward(us), 0))
     ELSE UNION {UNION {emit(from, to) : from \in origins(to)} : to \in MenOf(p.men, us)}

\* How often propagation from index i of a table reaches each index of its twin.
\* The emitted positions are distinct; their indices need not be.
quiet_unmoves(table, twin, i) ==
  LET tx == twin.indexer
      preds(p) == IF table.indexer.n_pawns = 0 THEN pawnless_quiet_unmoves(p)
                  ELSE pawnful_quiet_unmoves(p)
      emitted(p) == {<<q, 1, position_to_index_impl(tx, q, is_mirrored(table, twin))>> :
                       q \in preds(p)}
      reflected(e) == {<<e[1], 2, d>> : d \in diagonal_symmetric(tx, e[3])}
      use_diagonal_symmetry(p) == tx.n_pawns = 0 /\ ~ kings_on_long_diagonal(Kings(p.men))
      all(p, E) == IF use_diagonal_symmetry(p) THEN E \cup UNION {reflected(e) : e \in E} ELSE E
      from(p) == all(p, emitted(p))
  IN from(setup_from_index(table.indexer, i, White))

-------------------------------------------------------------------------------
(* The pass.                                                                *)

Table == tables[slot]
Twin == tables[3 - slot]
Ix == Table.indexer

Verdicts == {"valid", "opposite_check", "ep_squares_occupied", "illegal_ep_capture",
             "redundant", "internal"}

RedundantFaulty(ix, i) == FALSE

\* Of two reflections in the diagonal the smaller index is the one counted.
Redundant(ix, i) == \E other \in diagonal_symmetric(ix, i) : i > other

Init ==
  /\ \E p \in Pairs : board = p.board /\ tables = Solver(p.tables)
  /\ slot \in {1, 2} /\ (tables[1] = tables[2] => slot = 1)
  /\ index = 0
  /\ tally = [v \in Verdicts |-> 0]

initialize_table ==
  /\ index < Ix.index_range
  /\ LET verdict == IF Redundant(Ix, index) THEN "redundant"
                    ELSE Verdict(setup_from_index(Ix, index, White))
     IN tally' = [tally EXCEPT ![verdict] = @ + 1]
  /\ index' = index + 1
  /\ UNCHANGED <<board, tables, slot>>

Initialized == index = Ix.index_range /\ UNCHANGED vars

Next == initialize_table \/ Initialized

Spec == Init /\ [][Next]_vars
-------------------------------------------------------------------------------
(* Properties.                                                              *)

Flipped(p, F(_)) ==
  Setup(p.turn, [s \in {F(q) : q \in DOMAIN p.men} |-> p.men[F(s)]], {F(e) : e \in p.ep})

\* The setups a table does not tell apart.
Images(ix, p) ==
  LET v == {p, Flipped(p, FlipVertical)}
      vh == v \cup {Flipped(q, FlipHorizontal) : q \in v}
  IN IF ix.n_pawns = 0 THEN vh \cup {Flipped(q, FlipDiagonal) : q \in vh}
     ELSE IF ix.symmetric THEN {p, Flipped(p, FlipHorizontal)} ELSE {p}

\* The same position with the colors exchanged.
Exchanged(p) ==
  LET f == Flipped(p, FlipVertical)
  IN Setup(Opponent(p.turn), [s \in DOMAIN f.men |-> Man(f.men[s].role, Opponent(f.men[s].color))],
           f.ep)

\* The position with this index, unless it has none.
Positions ==
  IF index = Ix.index_range THEN {}
  ELSE {p \in {setup_from_index(Ix, index, White)} : Verdict(p) = "valid"}

\* Encoding inverts decoding, whatever symmetric image of the position, or of
\* its exchange of colors, is encoded: all have this index or, with both kings
\* on the diagonal, that of its reflection (position_to_index,
\* setup_from_index, diagonal_symmetric).
IndexRespectsSymmetry ==
  \A p \in Positions :
    /\ position_to_index(Ix, p) = index
    /\ \A q \in Images(Ix, p) : \A r \in {q, Exchanged(q)} :
         position_to_index(Ix, r) \in {index} \cup diagonal_symmetric(Ix, index)
    /\ \A d \in diagonal_symmetric(Ix, index) :
         /\ diagonal_symmetric(Ix, d) = {index}
         /\ setup_from_index(Ix, d, White) = Flipped(p, FlipDiagonal)

\* All placements of the men of a table, with each en passant target behind the
\* highest pawn of a file that has just come from the free squares behind it.
Placements(ix) ==
  LET file(i) == ix.files[CHOOSE g \in 1 .. Len(ix.pawns) : i \in ix.pawns[g]]
      slots == {f \in {[i \in 1 .. ix.n_pieces |->
                         IF i <= ix.n_pawns THEN <<r[i], file(i)>> ELSE s[i]] :
                        r \in [1 .. ix.n_pawns -> 1 .. Ranks - 2],
                        s \in [ix.n_pawns + 1 .. ix.n_pieces -> Squares]} :
                  /\ \A i, j \in 1 .. ix.n_pieces : i # j => f[i] # f[j]
                  /\ \A g \in 1 .. Len(ix.pawns) : \A i, j \in ix.pawns[g] :
                       i < j => f[i][1] > f[j][1]
                  /\ ix.n_pawns = 0 =>
                       ~ kings_adjacent_or_same(f[1], f[2])}
      men(f) == [s \in {f[i] : i \in 1 .. ix.n_pieces} |->
                   LET m == ix.men[CHOOSE i \in 1 .. ix.n_pieces : f[i] = s]
                   IN Man(m.role, IF m.side = STM THEN White ELSE Black)]
      passed(m) == {e \in {<<Ranks - 3, x>> : x \in 0 .. Files - 1} :
                      /\ Step(e, -1, 0) \in DOMAIN m /\ m[Step(e, -1, 0)] = Man("Pawn", Black)
                      /\ {e, Step(e, 1, 0)} \cap Pawns(m) = {}
                      /\ AttacksTo(e, m, White) \cap Pawns(m) # {}}
  IN UNION {{Setup(White, men(f), e) : e \in {{}} \cup {{x} : x \in passed(men(f))}} :
            f \in slots}

\* Every placement of the men has its index and no two classes share one: at the
\* end of the pass the indices of each verdict, redundant ones aside, are as
\* many as the classes of symmetric setups with it (InvalidCounts; the number
\* of the positions of a table).
TalliesExact ==
  index = Ix.index_range =>
    LET classes == {Images(Ix, p) : p \in Placements(Ix)}
        verdict(c) == Verdict(CHOOSE p \in c : TRUE)
    IN \A v \in Verdicts \ {"redundant"} :
         tally[v] = Cardinality({c \in classes : verdict(c) = v})

\* What propagation from index i of the twin delivers to this one.
Deliveries(i) == {<<i, e>> : e \in {u \in quiet_unmoves(Twin, Table, i) : u[3] = index}}

SuccessorIndices(p) ==
  LET tx == Twin.indexer
      direct == {position_to_index_impl(tx, Successor(p, m), is_mirrored(Table, Twin)) :
                   m \in QuietMoves(p)}
  IN direct \cup UNION {diagonal_symmetric(tx, j) : j \in direct}

\* A move counter is what will be subtracted from it: a conversion each, and as
\* many arrivals as the positions after its quiet moves have unmoves to this
\* index, en passant and diagonal reflections included
\* (symmetry_adjusted_move_counter and quiet_unmoves).
CountersMatchUnmoves ==
  \A p \in Positions :
    MoveCounter(Ix, p) = Cardinality(LegalMoves(p) \ QuietMoves(p))
                         + Cardinality(UNION {Deliveries(i) : i \in SuccessorIndices(p)})

\* Propagation reaches positions only, by a quiet move of theirs: no index is
\* decremented for a move it has not (quiet_unmoves).
UnmovesAreMoves ==
  \A p \in Positions : \A e \in quiet_unmoves(Table, Twin, index) :
    \A pred \in {setup_from_index(Twin.indexer, e[3], White)} :
      /\ Verdict(pred) = "valid"
      /\ \E m \in QuietMoves(pred) :
           position_to_index_impl(Ix, Successor(pred, m), is_mirrored(Twin, Table))
             \in {index} \cup diagonal_symmetric(Ix, index)
===============================================================================
