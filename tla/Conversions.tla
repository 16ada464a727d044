------------------------------ MODULE Conversions ------------------------------
(***************************************************************************)
(* The tables a capture or a promotion may lead to, by the words of a       *)
(* table: what the chess library's legal moves and TableId::from_position   *)
(* make of it.  Ranks of different files are not compared, so this is a     *)
(* superset; the order of files and slots is all that names depend on.      *)
(***************************************************************************)
EXTENDS TableNames

\* The table's side to move has played; the other side is now the mover.
Seen(files, men) ==
  compute_tablename(Elements(canonicalized(TwinKey(files)).files,
                             [side \in Sides |-> men[OtherSide(side)]]))

Gain(men, side, role) == [men EXCEPT ![side][role] = @ + 1]
Lose(men, side, role) == [men EXCEPT ![side][role] = @ - 1]
Removed(files, f, i) == [files EXCEPT ![f] = RemoveAt(@, i)]
Held(men, side) == {role \in ToSet(Roles) : men[side][role] > 0}
PawnSlots(files, side) == {p \in (1 .. Files) \X (1 .. Slots) :
                             p[2] \in DOMAIN files[p[1]] /\ files[p[1]][p[2]] = side}
Beside(f) == {f - 1, f + 1} \cap 1 .. Files

\* A man other than a pawn takes.
ManTakes(files, men) ==
  {Seen(files, Lose(men, SNTM, role)) : role \in Held(men, SNTM)}
  \cup {Seen(Removed(files, p[1], p[2]), men) : p \in PawnSlots(files, SNTM)}

\* The foremost pawn of a file promotes.
Promotes(files, men) ==
  {Seen(Removed(files, p[1], p[2]), Gain(men, STM, role)) :
     p \in {q \in PawnSlots(files, STM) : q[2] = Len(files[q[1]])}, role \in ToSet(Roles)}

\* A pawn takes on a file beside it: a pawn, or a man between pawns of that file,
\* where it may promote beyond them.
PawnTakes(files, men) ==
  LET takers == {t \in PawnSlots(files, STM) \X (1 .. Files) : t[2] \in Beside(t[1][1])}
      left(t) == Removed(files, t[1][1], t[1][2])
      fits(t) == Len(files[t[2]]) < Slots
  IN (UNION {{Seen([left(t) EXCEPT ![t[2]][i] = STM], men) :
                i \in {j \in DOMAIN files[t[2]] : files[t[2]][j] = SNTM}} : t \in takers})
     \cup {Seen([left(c[1]) EXCEPT ![c[1][2]] = InsertAt(@, c[2], STM)], Lose(men, SNTM, c[3])) :
             c \in {b \in takers \X (1 .. Slots) \X Held(men, SNTM) :
                      fits(b[1]) /\ b[2] <= Len(files[b[1][2]]) + 1}}
     \cup {Seen(left(t), Gain(Lose(men, SNTM, role), STM, new)) :
             t \in takers, role \in Held(men, SNTM), new \in ToSet(Roles)}

ConversionsOf(name) ==
  LET table == parse_elements(name)
  IN ManTakes(table.files, table.men) \cup Promotes(table.files, table.men)
     \cup PawnTakes(table.files, table.men)
===============================================================================
