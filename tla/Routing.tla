-------------------------------- MODULE Routing --------------------------------
(***************************************************************************)
(* Games as the tables see them: every position has a table, found by       *)
(* TableId::from_position, and every move leads from one table to another.  *)
(* Kings, and the squares of the other men, are left out: no name depends   *)
(* on them.  The moves are those of the chess library.                      *)
(***************************************************************************)
EXTENDS Conversions

VARIABLES pawns,  \* square <<file, rank>>, ranks from White's side, to colour
          men,    \* colour and role to a number of men
          turn,
          table   \* its table's name, and whether it is reflected

gamevars == <<pawns, men, turn, table>>

Colors == {"white", "black"}
Enemy == ColorOf(SNTM, turn)
Forward == IF turn = "white" THEN 1 ELSE -1
LastRank == IF turn = "white" THEN Slots ELSE 1
FirstRank == IF turn = "white" THEN 1 ELSE Slots
Own == {s \in DOMAIN pawns : pawns[s] = turn}
Foes == DOMAIN pawns \ Own
Without(S) == Restrict(pawns, DOMAIN pawns \ S)
Moved(from, taken, to) ==
  [s \in (DOMAIN pawns \ ({from} \cup taken)) \cup {to} |-> IF s = to THEN turn ELSE pawns[s]]

Count == Cardinality(DOMAIN pawns) + 2 + MenOf(men["white"]) + MenOf(men["black"])

GameInit ==
  /\ \E n \in 0 .. MaxPieces - 2 : \E S \in kSubset(n, (1 .. Files) \X (1 .. Slots)) :
       pawns \in [S -> Colors]
  /\ men \in [Colors -> [ToSet(Roles) -> 0 .. MaxPieces - 2]]
  /\ Count <= MaxPieces
  /\ turn \in Colors
  /\ table = position_table_name(pawns, men, turn)

-------------------------------------------------------------------------------

Played == turn' = Enemy /\ table' = position_table_name(pawns', men', turn')

\* A king or another man moves.
QuietMan == UNCHANGED <<pawns, men>> /\ Played

\* A pawn moves one square, or two from its first rank.
Push ==
  /\ \E s \in Own, n \in 1 .. 2 :
       LET path == {<<s[1], s[2] + k * Forward>> : k \in 1 .. n}
           to == <<s[1], s[2] + n * Forward>>
       IN /\ n = 2 => s[2] = FirstRank
          /\ path \cap DOMAIN pawns = {} /\ to[2] \in 1 .. Slots
          /\ pawns' = Moved(s, {}, to)
  /\ UNCHANGED men /\ Played

ManTakesMan ==
  /\ \E role \in ToSet(Roles) : /\ men[Enemy][role] > 0
                                /\ men' = Lose(men, Enemy, role)
  /\ UNCHANGED pawns /\ Played

ManTakesPawn == \E s \in Foes : pawns' = Without({s}) /\ UNCHANGED men /\ Played

PawnTakesPawn ==
  /\ \E s \in Own, t \in Foes :
       /\ t[1] \in Beside(s[1]) /\ t[2] = s[2] + Forward
       /\ pawns' = Moved(s, {t}, t)
  /\ UNCHANGED men /\ Played

\* The pawn passed over had just moved two squares from its first rank.
EnPassant ==
  /\ \E s \in Own, t \in Foes :
       LET to == <<t[1], t[2] + Forward>>
       IN /\ t[1] \in Beside(s[1]) /\ t[2] = s[2] /\ t[2] + 2 * Forward = LastRank
          /\ {to, <<t[1], LastRank>>} \cap DOMAIN pawns = {}
          /\ pawns' = Moved(s, {t}, to)
  /\ UNCHANGED men /\ Played

PawnTakesMan ==
  /\ \E s \in Own, role \in ToSet(Roles), f \in 1 .. Files :
       LET to == <<f, s[2] + Forward>>
       IN /\ f \in Beside(s[1]) /\ to[2] \in 1 .. Slots /\ to \notin DOMAIN pawns
          /\ men[Enemy][role] > 0
          /\ men' = Lose(men, Enemy, role) /\ pawns' = Moved(s, {}, to)
  /\ Played

\* A pawn leaves its last rank, taking a man or not.
Promote ==
  /\ \E s \in Own, new \in ToSet(Roles) :
       /\ s[2] = LastRank
       /\ pawns' = Without({s})
       /\ \/ men' = Gain(men, turn, new)
          \/ \E role \in ToSet(Roles) : /\ Beside(s[1]) # {} /\ men[Enemy][role] > 0
                                        /\ men' = Gain(Lose(men, Enemy, role), turn, new)
  /\ Played

Quiet == QuietMan \/ Push
Conversion == \/ ManTakesMan \/ ManTakesPawn \/ PawnTakesPawn \/ EnPassant
              \/ PawnTakesMan \/ Promote

GameNext == Quiet \/ Conversion

GameSpec == GameInit /\ [][GameNext]_gamevars

-------------------------------------------------------------------------------

\* A name gives back exactly the elements it was made from, although it only says
\* which pawns are opposed; it is canonical; and both halves mark as many pawns,
\* each opposing pair once (TableId::parse, parse_elements, opposing_pairs).
NamesIdentifyTables ==
  LET key == canonicalized(KeyOfPosition(pawns, turn)).files
      name == table.id
  IN /\ parse_elements(name) = Elements(key, [side \in Sides |-> men[ColorOf(side, turn)]])
     /\ parse(name) = name
     /\ Opposed(name[STM]) = Opposed(name[SNTM])

\* A position, its mirror image and the same position with colours exchanged have
\* one table; of the first two exactly one is reflected, unless they look alike to
\* the table (PawnKey::from_position, canonicalized, from_position's flag).
RoutingRespectsSymmetry ==
  LET mirror == [s \in {<<Files + 1 - t[1], t[2]>> : t \in DOMAIN pawns} |->
                   pawns[<<Files + 1 - s[1], s[2]>>]]
      swapped == [s \in {<<t[1], Slots + 1 - t[2]>> : t \in DOMAIN pawns} |->
                    ColorOf(SNTM, pawns[<<s[1], Slots + 1 - s[2]>>])]
      alike == KeyOfPosition(mirror, turn) = KeyOfPosition(pawns, turn)
      image == position_table_name(mirror, men, turn)
  IN /\ image.id = table.id
     /\ image.reflected = (IF alike THEN FALSE ELSE ~table.reflected)
     /\ table = position_table_name(swapped, [c \in Colors |-> men[ColorOf(SNTM, c)]], Enemy)

\* A quiet move leads from a table to its twin, reflected as the twin says: the
\* solver joins just these two tables (TableId::twin, RetrogradeSolver).  A capture
\* or a promotion leads to a table before both of them in the order of generation.
MovesFollowTables ==
  [][LET own == twin(table.id)
         same == Count' = Count /\ Cardinality(DOMAIN pawns') = Cardinality(DOMAIN pawns)
     IN IF same
        THEN /\ table'.id = own.id /\ twin(own.id).id = table.id
             /\ table'.reflected = (table.reflected # own.reflected)
        ELSE /\ table'.id \in ConversionsOf(table.id)
             /\ \A t \in {table.id, own.id}, u \in {table'.id, twin(table'.id).id} :
                  Before(u, t)]_gamevars
===============================================================================
