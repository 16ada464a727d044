-------------------------------- MODULE Board --------------------------------
(***************************************************************************)
(* A chess board of Files by Ranks squares, the moves on it, and the       *)
(* validation of decoded setups.  The moves are those of the chess library *)
(* the program uses, without castling, which no table has.                 *)
(*                                                                         *)
(* The program's board is 8 by 8.  Whatever the program says of particular *)
(* ranks is said here relative to either edge, so that a board of 5 ranks  *)
(* still has double pushes, en passant and promotion.                      *)
(***************************************************************************)
EXTENDS Integers, FiniteSets

VARIABLE board   \* how many files and ranks, for good

Files == board[1]
Ranks == board[2]

\* Files reflect in pairs; a pawn may advance twice and not yet promote.
IsBoard(b) == b[1] \in Nat \ {0} /\ b[1] % 2 = 0 /\ b[2] \in Nat /\ b[2] >= 4

\* A square is <<rank, file>>, both from 0.
Squares == (0 .. Ranks - 1) \X (0 .. Files - 1)

White == "White"
Black == "Black"
Opponent(color) == IF color = White THEN Black ELSE White

Promoted == {"Queen", "Rook", "Bishop", "Knight"}

\* A setup: whose turn it is, the men on their squares, and the en passant
\* target, a set of at most one square.
Setup(turn, men, ep) == [turn |-> turn, men |-> men, ep |-> ep]

Man(role, color) == [role |-> role, color |-> color]
MenOf(men, color) == {s \in DOMAIN men : men[s].color = color}
Pawns(men) == {s \in DOMAIN men : men[s].role = "Pawn"}
KingOf(men, color) ==
  CHOOSE s \in DOMAIN men : men[s] = Man("King", color)

\* A rank counted from the side of a color.
RelativeRank(color, rank) == IF color = White THEN rank ELSE Ranks - 1 - rank
Forward(color) == IF color = White THEN 1 ELSE -1
Step(s, dr, df) == <<s[1] + dr, s[2] + df>>

FlipVertical(s) == <<Ranks - 1 - s[1], s[2]>>
FlipHorizontal(s) == <<s[1], Files - 1 - s[2]>>
FlipDiagonal(s) == <<s[2], s[1]>>

-------------------------------------------------------------------------------
(* Attacks.                                                                 *)

Orthogonal == {<<1, 0>>, <<-1, 0>>, <<0, 1>>, <<0, -1>>}
Diagonal == {<<1, 1>>, <<1, -1>>, <<-1, 1>>, <<-1, -1>>}
Leaps == {d \in (-2 .. 2) \X (-2 .. 2) : d[1] * d[1] + d[2] * d[2] = 5}

Directions(role) ==
  CASE role \in {"King", "Queen"} -> Orthogonal \cup Diagonal
    [] role = "Rook" -> Orthogonal
    [] role = "Bishop" -> Diagonal
    [] role = "Knight" -> Leaps

Reach(role) ==
  IF role \in {"King", "Knight"} THEN 1
  ELSE IF Files > Ranks THEN Files - 1 ELSE Ranks - 1

\* The squares a man attacks from s, up to the first occupied one of each line.
Attacks(s, man, occupied) ==
  IF man.role = "Pawn"
  THEN {Step(s, Forward(man.color), df) : df \in {-1, 1}} \cap Squares
  ELSE UNION {LET At(k) == Step(s, k * d[1], k * d[2])
              IN {At(k) : k \in {i \in 1 .. Reach(man.role) :
                                   /\ At(i) \in Squares
                                   /\ \A j \in 1 .. i - 1 : At(j) \notin occupied}} :
              d \in Directions(man.role)}

AttacksTo(s, men, color) ==
  {a \in MenOf(men, color) : s \in Attacks(a, men[a], DOMAIN men)}

Attacked(men, color) ==
  AttacksTo(KingOf(men, color), men, Opponent(color)) # {}

-------------------------------------------------------------------------------
(* Moves: the men that leave the board or their square, the man that        *)
(* arrives, and the en passant target a double push leaves behind.          *)

Move(from, to, takes, man, passed) ==
  [from |-> from, to |-> to, takes |-> takes, man |-> man, passed |-> passed]

PieceMoves(p, s) ==
  {Move(s, to, {to} \cap DOMAIN p.men, p.men[s], {}) :
     to \in Attacks(s, p.men[s], DOMAIN p.men) \ MenOf(p.men, p.turn)}

Arrives(p, to) ==
  IF RelativeRank(p.turn, to[1]) = Ranks - 1
  THEN {Man(role, p.turn) : role \in Promoted} ELSE {Man("Pawn", p.turn)}

PawnMoves(p, s) ==
  LET one == Step(s, Forward(p.turn), 0)
      two == Step(s, 2 * Forward(p.turn), 0)
      free == {one, two} \ DOMAIN p.men
      captures == Attacks(s, p.men[s], {}) \cap MenOf(p.men, Opponent(p.turn))
      passing == Attacks(s, p.men[s], {}) \cap p.ep
  IN {Move(s, one, {}, m, {}) : m \in IF one \in free THEN Arrives(p, one) ELSE {}}
     \cup (IF free = {one, two} /\ RelativeRank(p.turn, s[1]) = 1
           THEN {Move(s, two, {}, p.men[s], {one})} ELSE {})
     \cup UNION {{Move(s, to, {to}, m, {}) : m \in Arrives(p, to)} : to \in captures}
     \cup {Move(s, to, {Step(to, -Forward(p.turn), 0)}, p.men[s], {}) : to \in passing}

Played(men, m) ==
  [s \in (DOMAIN men \ ({m.from} \cup m.takes)) \cup {m.to} |->
     IF s = m.to THEN m.man ELSE men[s]]

LegalMoves(p) ==
  {m \in UNION {IF p.men[s].role = "Pawn" THEN PawnMoves(p, s) ELSE PieceMoves(p, s) :
                  s \in MenOf(p.men, p.turn)} :
     ~ Attacked(Played(p.men, m), p.turn)}

\* The target of a legal en passant capture.
LegalEpSquare(p) ==
  {e \in p.ep : \E m \in LegalMoves(p) :
     m.to = e /\ p.men[m.from].role = "Pawn" /\ m.from[2] # e[2]}

Successor(p, m) == Setup(Opponent(p.turn), Played(p.men, m), m.passed)

IsConversion(p, m) == m.takes # {} \/ m.man # p.men[m.from]
QuietMoves(p) == {m \in LegalMoves(p) : ~ IsConversion(p, m)}

-------------------------------------------------------------------------------
(* Validation of setups.                                                    *)

opposite_check(men, turn) == Attacked(men, Opponent(turn))

\* The victim stands behind the target and has come from in front of it.
valid_ep_square(p) ==
  \A e \in p.ep :
    LET pushed_to == Step(e, -Forward(p.turn), 0)
        pushed_from == Step(e, Forward(p.turn), 0)
    IN /\ RelativeRank(p.turn, e[1]) = Ranks - 3
       /\ pushed_to \in DOMAIN p.men
       /\ p.men[pushed_to] = Man("Pawn", Opponent(p.turn))
       /\ {e, pushed_from} \cap DOMAIN p.men = {}

\* Why a setup is not a position, or "valid"; a target that no pawn attacks is
\* an error of the indexer.
Verdict(p) ==
  IF opposite_check(p.men, p.turn) THEN "opposite_check"
  ELSE IF \E e \in p.ep : AttacksTo(e, p.men, p.turn) \cap Pawns(p.men) = {}
       THEN "internal"
  ELSE IF ~ valid_ep_square(p) THEN "ep_squares_occupied"
  ELSE IF LegalEpSquare(p) # p.ep THEN "illegal_ep_capture"
  ELSE "valid"
===============================================================================
