------------------------------ MODULE DtcLevels ------------------------------
(***************************************************************************)
(* What the solver of a twin pair promises: the positions are labelled      *)
(* level by level, level n at once, with the outcomes whose distance to     *)
(* conversion is n.  There are no workers, counters, blocks or phases here; *)
(* a label only depends on the labels of lower levels.  This is the         *)
(* sequential reading of the loop in solve_pair (retrograde.rs), and the    *)
(* conversion types are the ones its preference order asks for.             *)
(***************************************************************************)
EXTENDS DtcOutcome

CONSTANTS Pos, Games

VARIABLES
  game,    \* as in Retrograde
  label,   \* Invalid, Draw (stalemate), a win, a loss, or Open
  level,   \* the labels below this distance are known
  status   \* "preparing", "labelling", "complete" or "failed"

levelVars == <<game, label, level, status>>

Open == Unknown(0)

Quiet(p) == {m \in game.quiet : m.from = p}
Conv(p) == {c \in game.conv : c.from = p}

\* Invalid indices, mates and stalemates are known before the first level.
Terminal(p) ==
  IF p \notin game.valid THEN Invalid
  ELSE IF Quiet(p) \cup Conv(p) # {} THEN Open
  ELSE IF p \in game.check THEN Loss("Checkmate", 0) ELSE Draw

\* The conversion types with which a move of p wins, or loses, at distance n.
WinningTypes(p, n) ==
  {label[m.to].ct : m \in {q \in Quiet(p) : IsLoss(label[q.to])
                                             /\ label[q.to].n = n - 1}}
  \cup {c.ct : c \in {d \in Conv(p) : d.dep = "Loss" /\ n = 1}}

LosingTypes(p, n) ==
  {label[m.to].ct : m \in {q \in Quiet(p) : IsWin(label[q.to])
                                             /\ label[q.to].n = n - 1}}
  \cup {c.ct : c \in {d \in Conv(p) : d.dep = "Win" /\ n = 1}}

AllMovesLose(p) ==
  /\ \A m \in Quiet(p) : IsWin(label[m.to])
  /\ \A c \in Conv(p) : c.dep = "Win"

MostPreferred(cts, rank) == CHOOSE c \in cts : \A d \in cts : rank[d] <= rank[c]

\* The label of p once level n is complete.
LabelAt(p, n) ==
  IF label[p] # Open THEN label[p]
  ELSE IF WinningTypes(p, n) # {}
    THEN Win(MostPreferred(WinningTypes(p, n), WinRank), n)
  ELSE IF AllMovesLose(p)
    THEN Loss(MostPreferred(LosingTypes(p, n), LossRank), n)
  ELSE Open

LevelsInit ==
  /\ game \in Games
  /\ label = [p \in Pos |-> Invalid]
  /\ level = 1 /\ status = "preparing"

Prepare ==
  /\ status = "preparing"
  /\ \A c \in game.conv : c.dep # "Missing"
  /\ label' = [p \in Pos |-> Terminal(p)]
  /\ status' = "labelling"
  /\ UNCHANGED <<game, level>>

\* A position cannot be initialised without the table a conversion leads to.
Fail ==
  /\ status = "preparing"
  /\ \E c \in game.conv : c.dep = "Missing"
  /\ status' = "failed"
  /\ UNCHANGED <<game, label, level>>

\* Label one level; a level that labels nothing is the last.
LabelLevel ==
  /\ status = "labelling"
  /\ label' = [p \in Pos |-> LabelAt(p, level)]
  /\ IF label' = label
       THEN status' = "complete" /\ level' = level
       ELSE status' = status /\ level' = level + 1
  /\ UNCHANGED game

LevelsNext == Prepare \/ Fail \/ LabelLevel

LevelsSpec == LevelsInit /\ [][LevelsNext]_levelVars
================================================================================
