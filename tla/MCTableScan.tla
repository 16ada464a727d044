----------------------------- MODULE MCTableScan -----------------------------
(***************************************************************************)
(* Small tables on small boards.                                           *)
(***************************************************************************)
EXTENDS TableScan

Men(role, side, n) == <<[role |-> role, side |-> side, count |-> n]>>
BothKings == Men("King", STM, 1) \o Men("King", SNTM, 1)
File(file, order) == <<[file |-> file, order |-> order]>>

On(files, ranks, pairs) == {[board |-> <<files, ranks>>, tables |-> p] : p \in pairs}

\* A rook, and two knights.
PieceTable(pieces) == [pawns |-> <<>>, pieces |-> BothKings \o pieces]
PiecePairs ==
  {<<PieceTable(Men("Rook", STM, 1)), PieceTable(Men("Rook", SNTM, 1))>>,
   <<PieceTable(Men("Knight", STM, 2)), PieceTable(Men("Knight", SNTM, 2))>>}

\* A pawn; pawns that may take each other en passant, in a table that is its own
\* twin reflected, and with a rook that may pin them; a table that is its own
\* reflection; and four pawns.
PawnTable(pawns) == [pawns |-> pawns, pieces |-> BothKings]
Passing(file) == File(file, <<STM>>) \o File(file + 1, <<SNTM>>)
Facing == File(0, <<STM, SNTM>>) \o File(1, <<STM, SNTM>>)
Beside(other, side) == PawnTable(File(0, <<side>>) \o File(other, <<side>>))
WithRook(table, side) == [table EXCEPT !.pieces = @ \o Men("Rook", side, 1)]

NarrowPairs ==
  {<<PawnTable(File(0, <<STM>>)), PawnTable(File(0, <<SNTM>>))>>,
   <<PawnTable(Passing(0)), PawnTable(Passing(0))>>,
   <<WithRook(PawnTable(Passing(0)), STM), WithRook(PawnTable(Passing(0)), SNTM)>>,
   <<Beside(1, STM), Beside(1, SNTM)>>,
   <<PawnTable(Facing), PawnTable(Facing)>>}

WidePairs ==
  {<<PawnTable(Passing(1)), PawnTable(Passing(1))>>, <<Beside(3, STM), Beside(3, SNTM)>>}

MCPairs == On(4, 4, PiecePairs) \cup On(2, 5, NarrowPairs) \cup On(4, 5, WidePairs)
===============================================================================
