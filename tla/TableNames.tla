------------------------------ MODULE TableNames ------------------------------
(***************************************************************************)
(* Names of tables: src/table_id.rs and src/piece_set.rs.  A table is its   *)
(* elements: per file the sides of its pawns from the mover's first rank    *)
(* up (PawnKey, PawnGroup), and the men of each side by role (PieceGroup).  *)
(* Its name says of each pawn only whether it is opposed; text is left out: *)
(* a name is a record of what its characters say, without the two kings.    *)
(***************************************************************************)
EXTENDS Integers, Sequences, FiniteSets, SequencesExt

CONSTANTS Files,      \* 8
          Slots,      \* pawns on a file at most, 6
          MaxPieces,  \* 8
          Roles       \* neither kings nor pawns, in the order of names: Q, R, B, N

ASSUME NamesAssumption ==
  /\ Files \in Nat \ {0} /\ Files % 2 = 0 /\ Slots \in Nat \ {0}
  /\ MaxPieces \in Nat \ {0, 1}
  /\ Roles \in Seq(ToSet(Roles)) /\ Len(Roles) <= 4 /\ IsInjective(Roles)

STM == "stm"
SNTM == "sntm"
Sides == {STM, SNTM}
OtherSide(side) == IF side = STM THEN SNTM ELSE STM

\* A sequence of one entry per file, or of n entries.
Listed(n, F(_)) == <<>> \o [i \in 1 .. n |-> F(i)]
PerFile(F(_)) == Listed(Files, F)

Words == UNION {[1 .. n -> Sides] : n \in 0 .. Slots}
Elements(files, men) == [files |-> files, men |-> men]

\* The slots of a side's pawns; and of a finite set of numbers the k-th.
SlotsOf(order, side) == {i \in DOMAIN order : order[i] = side}
Nth(S, k) == CHOOSE i \in S : Cardinality({j \in S : j <= i}) = k

CountOf(order, side) == Cardinality(SlotsOf(order, side))
PawnsOf(files, side) == SumFunction([f \in 1 .. Files |-> CountOf(files[f], side)])
MenOf(men) == SumFunction(men)
PiecesOf(table, side) == 1 + MenOf(table.men[side]) + PawnsOf(table.files, side)

\* Rust's comparison of iterators.
Precedes(s, t) ==
  LET common == 1 .. (IF Len(s) < Len(t) THEN Len(s) ELSE Len(t))
      different == {i \in common : s[i] # t[i]}
  IN IF different = {} THEN Len(s) < Len(t)
     ELSE LET i == CHOOSE i \in different : \A j \in different : i <= j IN s[i] < t[i]

validate_elements(table) == PiecesOf(table, STM) + PiecesOf(table, SNTM) <= MaxPieces

-------------------------------------------------------------------------------
(* Orientation.  A word is compared as a number, its highest slot first.    *)

WordNumber(order) ==
  FoldLeft(LAMBDA n, side : 2 * n + (IF side = SNTM THEN 1 ELSE 0), 1, Reverse(order))
Numbers(files) == PerFile(LAMBDA f : WordNumber(files[f]))

FileList(files, side) ==
  FlattenSeq(PerFile(LAMBDA f : Listed(CountOf(files[f], side), LAMBDA i : f - 1)))

reflected(files) == Reverse(files)

FlipFiles(list) == Listed(Len(list), LAMBDA i : Files - 1 - list[Len(list) + 1 - i])

\* is_canonical: not greater than its reflection by the files of the mover's
\* pawns, then by those of the other side's.
is_canonical(stm, sntm) == ~Precedes(FlipFiles(stm) \o FlipFiles(sntm), stm \o sntm)

CanonicalByFiles(files) ==
  IF is_canonical(FileList(files, STM), FileList(files, SNTM))
  THEN [files |-> files, reflected |-> FALSE]
  ELSE [files |-> reflected(files), reflected |-> TRUE]

\* Ties are broken by the words.
canonicalized(files) ==
  LET stm == FileList(files, STM)
      sntm == FileList(files, SNTM)
  IN IF Precedes(FlipFiles(stm) \o FlipFiles(sntm) \o Numbers(reflected(files)),
                 stm \o sntm \o Numbers(files))
     THEN [files |-> reflected(files), reflected |-> TRUE]
     ELSE [files |-> files, reflected |-> FALSE]

\* The same men seen by the other side.
TwinKey(files) ==
  PerFile(LAMBDA f : Listed(Len(files[f]), LAMBDA i : OtherSide(files[f][Len(files[f]) + 1 - i])))

-------------------------------------------------------------------------------
(* Formatting.  A pawn is opposed if the next pawn before it is an enemy.   *)

\* The slot of a side's k-th pawn on its way: upwards, or downwards for the other side.
Traversal(order, side, k) ==
  Nth(SlotsOf(order, side), IF side = STM THEN k ELSE CountOf(order, side) + 1 - k)

FormatFlagsFaulty(order, side) ==
  LET opposed(i) == i + 1 <= Len(order) /\ order[i + 1] # side
  IN Listed(CountOf(order, side), LAMBDA k : opposed(Traversal(order, side, k)))

FormatFlags(order, side) ==
  LET opposed(i) == IF side = STM THEN i + 1 <= Len(order) /\ order[i + 1] = SNTM
                    ELSE i > 1 /\ order[i - 1] = STM
  IN Listed(CountOf(order, side), LAMBDA k : opposed(Traversal(order, side, k)))

format_name(files, men) ==
  LET pawns(side) ==
        FlattenSeq(PerFile(LAMBDA f :
          LET flags == FormatFlags(files[f], side)
          IN Listed(Len(flags), LAMBDA k : [file |-> f - 1, opposed |-> flags[k]])))
  IN [side \in Sides |-> [men |-> men[side], pawns |-> pawns(side)]]

compute_tablename(table) == format_name(table.files, table.men)

-------------------------------------------------------------------------------
(* Parsing finds, file by file, the word that has these flags.              *)

pawn_flags(order, side) ==
  LET neighbor(i) == IF side = STM THEN i + 1 ELSE i - 1
      flag(i) == neighbor(i) \in DOMAIN order /\ order[neighbor(i)] # side
      flags == Listed(CountOf(order, side), LAMBDA k : flag(Nth(SlotsOf(order, side), k)))
  IN IF side = SNTM THEN Reverse(flags) ELSE flags

Invalid == [invalid |-> TRUE]

\* The parsed elements, or Invalid: too many pawns on a file, flags that no word
\* has, too many pieces, or pawns that are not listed file by file.
parse_elements(name) ==
  LET pawns(side, f) == {i \in DOMAIN name[side].pawns : name[side].pawns[i].file = f - 1}
      flags(side, f) == Listed(Cardinality(pawns(side, f)),
                               LAMBDA k : name[side].pawns[Nth(pawns(side, f), k)].opposed)
      length(f) == Len(flags(STM, f)) + Len(flags(SNTM, f))
      fits(f) == {w \in [1 .. length(f) -> Sides] :
                    \A side \in Sides : pawn_flags(w, side) = flags(side, f)}
      least(S) == CHOOSE w \in S : \A v \in S : WordNumber(w) <= WordNumber(v)
      table == Elements(PerFile(LAMBDA f : least(fits(f))),
                        [side \in Sides |-> name[side].men])
  IN IF /\ \A f \in 1 .. Files : length(f) <= Slots /\ fits(f) # {}
        /\ validate_elements(table)
        /\ compute_tablename(table) = name
     THEN table
     ELSE Invalid

-------------------------------------------------------------------------------
(* TableId.                                                                 *)

parse(name) ==
  LET table == parse_elements(name)
  IN IF table = Invalid \/ canonicalized(table.files).reflected THEN Invalid ELSE name

from_elements(table) ==
  IF ~validate_elements(table) \/ canonicalized(table.files).reflected THEN Invalid
  ELSE compute_tablename(table)

TwinFaulty(name) ==
  LET table == parse_elements(name)
      key == canonicalized([f \in 1 .. Files |->
                              [i \in DOMAIN table.files[f] |-> OtherSide(table.files[f][i])]])
  IN [id |-> from_elements(Elements(key.files,
                                    [side \in Sides |-> table.men[OtherSide(side)]])),
      reflected |-> key.reflected]

\* The table of the other side's turn, and whether it takes a reflection.
twin(name) ==
  LET table == parse_elements(name)
      key == canonicalized(TwinKey(table.files))
      men == [side \in Sides |-> table.men[OtherSide(side)]]
  IN [id |-> from_elements(Elements(key.files, men)), reflected |-> key.reflected]

n_pawns(name) == Len(name[STM].pawns) + Len(name[SNTM].pawns)
side_piece_counts(name) ==
  [side \in Sides |-> 1 + MenOf(name[side].men) + Len(name[side].pawns)]
n_pieces(name) == side_piece_counts(name)[STM] + side_piece_counts(name)[SNTM]
Opposed(half) == Cardinality({i \in DOMAIN half.pawns : half.pawns[i].opposed})
opposing_pairs(name) == Opposed(name[STM])
material(name) == [side \in Sides |-> [men |-> name[side].men, pawns |-> Len(name[side].pawns)]]

\* relative_path: the directories above a table.
Directory(name) ==
  LET counts == side_piece_counts(name)
      most == IF counts[STM] > counts[SNTM] THEN STM ELSE SNTM
  IN [n |-> n_pieces(name), split |-> <<counts[most], counts[OtherSide(most)]>>,
      opposing |-> opposing_pairs(name), pawns |-> n_pawns(name)]

\* The bytes of a name without its flags: KQRBNP first, then the separator, then
\* file letters.
name_key(name) ==
  LET men(side) == FlattenSeq([r \in 1 .. Len(Roles) |->
                                 [i \in 1 .. name[side].men[Roles[r]] |-> r]])
      pawns(side) == FlattenSeq([k \in DOMAIN name[side].pawns |->
                                   <<Len(Roles) + 1, 97 + name[side].pawns[k].file>>])
      half(side) == <<0>> \o men(side) \o pawns(side)
  IN half(STM) \o <<95>> \o half(SNTM)

\* The order of elements, when only flags tell two names apart: file by file, the
\* sides of the pawns upwards.
ElementsKey(name) ==
  FlattenSeq([f \in 1 .. Files |->
    LET order == parse_elements(name).files[f]
    IN [i \in DOMAIN order |-> IF order[i] = STM THEN 0 ELSE 1]])

BeforeFaulty(a, b) ==
  \/ Precedes(name_key(a), name_key(b))
  \/ name_key(a) = name_key(b) /\ Precedes(ElementsKey(a), ElementsKey(b))

\* TableId's Ord.
TableKey(name) == <<n_pieces(name), n_pawns(name)>> \o name_key(name)
Before(a, b) ==
  \/ Precedes(TableKey(a), TableKey(b))
  \/ TableKey(a) = TableKey(b) /\ Precedes(ElementsKey(a), ElementsKey(b))

-------------------------------------------------------------------------------
(* Routing of a position: its pawns by square <<file, rank>> with their     *)
(* colours, the other men counted, and the side to move.                    *)

ColorOf(side, turn) == IF side = STM THEN turn ELSE IF turn = "white" THEN "black" ELSE "white"

\* PawnKey::from_position: upwards for White, downwards for Black.
KeyOfPosition(pawns, turn) ==
  PerFile(LAMBDA f :
     LET ranks == {r \in 1 .. Slots : <<f, r>> \in DOMAIN pawns}
         n == Cardinality(ranks)
         rank(i) == Nth(ranks, IF turn = "black" THEN n + 1 - i ELSE i)
     IN Listed(n, LAMBDA i : IF pawns[<<f, rank(i)>>] = turn THEN STM ELSE SNTM))

position_table_name(pawns, men, turn) ==
  LET key == canonicalized(KeyOfPosition(pawns, turn))
  IN [id |-> format_name(key.files, [side \in Sides |-> men[ColorOf(side, turn)]]),
      reflected |-> key.reflected]
===============================================================================
