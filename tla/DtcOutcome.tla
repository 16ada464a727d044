------------------------------ MODULE DtcOutcome ------------------------------
(***************************************************************************)
(* The values a tablebase cell can hold and the order in which outcomes are *)
(* preferred: MaybeDtcOutcome (egt_file.rs), DtcOutcome and its Ord, and    *)
(* move_value (lib.rs).  A cell is a record; its 16-bit encoding is the     *)
(* subject of a module of its own.                                          *)
(***************************************************************************)
EXTENDS Integers

ConversionType == {"Promotion", "Capture", "Checkmate"}

\* The derived Ord of ConversionType: Promotion < Capture < Checkmate.
WinRank == [Promotion |-> 0, Capture |-> 1, Checkmate |-> 2]

\* loss_rank of retrograde.rs: the reverse preference, for the losing side.
LossRank == [Checkmate |-> 0, Capture |-> 1, Promotion |-> 2]

\* "n" is the distance of a win or a loss, and the move counter of an unknown.
Invalid == [kind |-> "invalid", ct |-> "none", n |-> 0]
Draw == [kind |-> "draw", ct |-> "none", n |-> 0]
Unknown(counter) == [kind |-> "unknown", ct |-> "none", n |-> counter]
Win(ct, plies) == [kind |-> "win", ct |-> ct, n |-> plies]
Loss(ct, plies) == [kind |-> "loss", ct |-> ct, n |-> plies]

Value == [kind : {"invalid", "unknown", "draw", "win", "loss"},
          ct : ConversionType \cup {"none"},
          n : Nat]

IsUnknown(v) == v.kind = "unknown"
IsWin(v) == v.kind = "win"
IsLoss(v) == v.kind = "loss"
IsResolved(v) == IsWin(v) \/ IsLoss(v)

\* DtcOutcome::cmp says "a is greater than b", for the side to move.
Better(a, b) ==
  \/ IsWin(a) /\ ~ IsWin(b)
  \/ ~ IsLoss(a) /\ IsLoss(b)
  \/ /\ IsWin(a) /\ IsWin(b)
     /\ \/ a.n < b.n
        \/ a.n = b.n /\ WinRank[a.ct] > WinRank[b.ct]
  \/ /\ IsLoss(a) /\ IsLoss(b)
     /\ \/ a.n > b.n
        \/ a.n = b.n /\ WinRank[a.ct] < WinRank[b.ct]

\* The greatest outcome of a non-empty finite set of outcomes.
Best(outcomes) == CHOOSE v \in outcomes : \A w \in outcomes : ~ Better(w, v)

\* move_value of a quiet move whose successor has outcome v.
QuietMoveValue(v) ==
  CASE IsLoss(v) -> Win(v.ct, v.n + 1)
    [] IsWin(v) -> Loss(v.ct, v.n + 1)
    [] OTHER -> Draw

\* move_value of a capture or promotion whose successor, in another table, is
\* a "Loss", "Win" or "Draw" for the opponent: the distance restarts at 1.
ConversionMoveValue(ct, dep) ==
  CASE dep = "Loss" -> Win(ct, 1)
    [] dep = "Win" -> Loss(ct, 1)
    [] OTHER -> Draw
================================================================================
