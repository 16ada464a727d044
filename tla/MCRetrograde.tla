----------------------------- MODULE MCRetrograde -----------------------------
(***************************************************************************)
(* Small instances of Retrograde: chosen games that make workers race on a  *)
(* pair of tables, and every game of a small self-pair.                     *)
(***************************************************************************)
EXTENDS Retrograde

Quiet(p, q) == [from |-> p, to |-> q, copy |-> 1]
Twice(p, q) == {[from |-> p, to |-> q, copy |-> i] : i \in {1, 2}}
Convert(p, ct, dep) == [from |-> p, ct |-> ct, dep |-> dep, copy |-> 1]

\* Positions 1-4 belong to the first table and 5-8 to its twin; each table has
\* three blocks, so that three scans can run side by side.
PairPos == 1 .. 8
PairSlotOf == [p \in PairPos |-> IF p <= 4 THEN 0 ELSE 1]
PairChunkOf == [p \in PairPos |-> (p % 4) % 3]

\* 1, 2 and 3 lose by conversion at ply 1 with different types, so that 5, 6
\* and 7 are marked and upgraded by racing workers; 4 then loses at ply 3 to
\* wins of different types, and 8 wins at ply 4 although it could draw.
WinRace ==
  [valid |-> PairPos, check |-> {},
   quiet |-> {Quiet(5, 1), Quiet(5, 2), Quiet(5, 3), Quiet(6, 2), Quiet(7, 1),
              Quiet(7, 3), Quiet(4, 5), Quiet(4, 6), Quiet(4, 7), Quiet(8, 4)},
   conv |-> {Convert(1, "Promotion", "Win"), Convert(2, "Capture", "Win"),
             Convert(3, "Promotion", "Win"), Convert(3, "Capture", "Win"),
             Convert(8, "Promotion", "Draw")}]

\* Mates in 1 and 2 make 5, 6 and 7 win; their blocks race to decrement 3 and
\* 4, whose counters also hold a doubled move and a losing capture.  8 is
\* invalid.
DecrementRace ==
  [valid |-> 1 .. 7, check |-> {1, 2},
   quiet |-> {Quiet(5, 1), Quiet(6, 2), Quiet(7, 1), Quiet(7, 3), Quiet(3, 5),
              Quiet(3, 6), Quiet(3, 7), Quiet(4, 6)} \cup Twice(4, 5),
   conv |-> {Convert(4, "Capture", "Win")}]

\* Conversion wins of 5, 6 and 7 at ply 1 are upgraded, or not, by mates; 4
\* keeps a drawn reply, and 8 repeats with it.
UpgradeGame ==
  [valid |-> PairPos, check |-> {1, 2, 3},
   quiet |-> {Quiet(5, 1), Quiet(5, 2), Quiet(6, 2), Quiet(4, 5), Quiet(4, 8),
              Quiet(8, 4)},
   conv |-> {Convert(5, "Promotion", "Loss"), Convert(6, "Capture", "Loss"),
             Convert(6, "Promotion", "Loss"), Convert(7, "Capture", "Loss"),
             Convert(7, "Promotion", "Win")}]

\* One dependency table is missing.
MissingGame ==
  [UpgradeGame EXCEPT !.conv = @ \cup {Convert(4, "Capture", "Missing")}]

PairGames == {WinRace, DecrementRace, UpgradeGame, MissingGame}

-------------------------------------------------------------------------------
\* Every game of three positions of a self-pair, in two blocks.
SelfPos == 1 .. 3
SelfSlotOf == [p \in SelfPos |-> 0]
SelfChunkOf == [p \in SelfPos |-> p % 2]

SelfConversions(p) ==
  {{}, {Convert(p, "Capture", "Win")}, {Convert(p, "Promotion", "Win")},
   {Convert(p, "Promotion", "Loss")}}

SelfGames ==
  [valid : {SelfPos}, check : {{1, 2}},
   quiet : SUBSET {Quiet(p, q) : p, q \in SelfPos},
   conv : {a \cup b \cup c : a \in SelfConversions(1), b \in SelfConversions(2),
                             c \in SelfConversions(3)}]
================================================================================
