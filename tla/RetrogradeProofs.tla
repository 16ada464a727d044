--------------------------- MODULE RetrogradeProofs ---------------------------
(***************************************************************************)
(* Theorems about Retrograde, for every pair of tables, game and pool: what *)
(* a finished cell keeps, what workers hold; that the counts of             *)
(* solve_pair's loop, the maxima it returns and the move counters of the    *)
(* cells are those of what it has written; and that the outcomes it         *)
(* publishes are those of the moves, and that it implements the             *)
(* level-by-level definition of DtcLevels.                                  *)
(***************************************************************************)
EXTENDS Retrograde, FiniteSetTheorems, TLAPS

(* Lemmas about the initial values.                                         *)

\* A non-empty set of conversion types has a preferred member, for the
\* winner and for the loser.
LEMMA PreferredInSet ==
  ASSUME NEW cts \in SUBSET ConversionType, cts # {}
  PROVE  PreferredWin(cts) \in cts /\ PreferredLoss(cts) \in cts
<1>1. /\ WinRank["Promotion"] = 0 /\ WinRank["Capture"] = 1
      /\ WinRank["Checkmate"] = 2
      /\ LossRank["Promotion"] = 2 /\ LossRank["Capture"] = 1
      /\ LossRank["Checkmate"] = 0
  BY DEF WinRank, LossRank
<1>2. \A d \in cts : d = "Promotion" \/ d = "Capture" \/ d = "Checkmate"
  BY DEF ConversionType
<1>3. \E c \in cts : \A d \in cts : WinRank[d] <= WinRank[c]
  <2>1. CASE "Checkmate" \in cts
    BY <2>1, <1>1, <1>2
  <2>2. CASE "Checkmate" \notin cts /\ "Capture" \in cts
    BY <2>2, <1>1, <1>2
  <2>3. CASE "Checkmate" \notin cts /\ "Capture" \notin cts
    BY <2>3, <1>1, <1>2
  <2>4. QED
    BY <2>1, <2>2, <2>3
<1>4. \E c \in cts : \A d \in cts : LossRank[d] <= LossRank[c]
  <2>1. CASE "Promotion" \in cts
    BY <2>1, <1>1, <1>2
  <2>2. CASE "Promotion" \notin cts /\ "Capture" \in cts
    BY <2>2, <1>1, <1>2
  <2>3. CASE "Promotion" \notin cts /\ "Capture" \notin cts
    BY <2>3, <1>1, <1>2
  <2>4. QED
    BY <2>1, <2>2, <2>3
<1>5. QED
  BY <1>3, <1>4 DEF PreferredWin, PreferredLoss

\* The move counter is a number, zero only when every move is a losing
\* conversion.
LEMMA MoveCounterType ==
  ASSUME game \in Games, NEW p \in Pos
  PROVE  /\ MoveCounter(p) \in Nat
         /\ MoveCounter(p) = 0 => /\ QuietFrom(p) = {}
                                  /\ \A c \in ConvFrom(p) : c.dep = "Win"
<1> DEFINE open == {c \in ConvFrom(p) : c.dep # "Win"}
<1>1. IsFiniteSet(game.quiet) /\ IsFiniteSet(game.conv)
  BY GamesAssumption
<1>2. QuietFrom(p) \in SUBSET game.quiet /\ open \in SUBSET game.conv
  BY DEF QuietFrom, ConvFrom
<1>3. IsFiniteSet(QuietFrom(p)) /\ IsFiniteSet(open)
  BY <1>1, <1>2, FS_Subset
<1>4. Cardinality(QuietFrom(p)) \in Nat /\ Cardinality(open) \in Nat
  BY <1>3, FS_CardinalityType
<1>5. /\ Cardinality(QuietFrom(p)) = 0 <=> QuietFrom(p) = {}
      /\ Cardinality(open) = 0 <=> open = {}
  BY <1>3, FS_EmptySet
<1>6. MoveCounter(p) = Cardinality(QuietFrom(p)) + Cardinality(open)
  BY DEF MoveCounter
<1> HIDE DEF open
<1>7. \A a, b \in Nat : a + b \in Nat /\ (a + b = 0 => a = 0 /\ b = 0)
  OBVIOUS
<1>8. QED
  <2>1. MoveCounter(p) \in Nat
    BY <1>4, <1>6, <1>7
  <2>2. MoveCounter(p) = 0 => Cardinality(QuietFrom(p)) = 0 /\ Cardinality(open) = 0
    BY <1>4, <1>6, <1>7
  <2>3. MoveCounter(p) = 0 => QuietFrom(p) = {} /\ open = {}
    BY <1>5, <2>2
  <2>4. QED
    BY <2>1, <2>3 DEF open

\* A conversion type is attached to every initial win or loss, an initial
\* counter is positive, and nothing is initially further than ply 1.
LEMMA InitialValueType ==
  ASSUME game \in Games, NEW p \in Pos
  PROVE  /\ InitialValue(p) \in Value
         /\ IsUnknown(InitialValue(p)) => InitialValue(p).n > 0
         /\ IsResolved(InitialValue(p)) =>
              /\ InitialValue(p).ct \in ConversionType
              /\ InitialValue(p).n \in {0, 1}
<1> DEFINE v == InitialValue(p)
<1>1. WinningConv(p) \in SUBSET ConversionType
      /\ LosingConv(p) \in SUBSET ConversionType
  BY GamesAssumption
  DEF WinningConv, LosingConv, ConvFrom, Game, Conversion, ConversionType
<1>2. CASE p \notin game.valid
  BY <1>2 DEF InitialValue, Invalid, Value, IsUnknown, IsResolved, IsWin, IsLoss
<1>3. CASE p \in game.valid /\ NoLegals(p)
  BY <1>3 DEF InitialValue, Draw, Loss, Value, ConversionType, IsUnknown,
              IsResolved, IsWin, IsLoss
<1>4. CASE p \in game.valid /\ ~ NoLegals(p) /\ WinningConv(p) # {}
  <2>1. PreferredWin(WinningConv(p)) \in ConversionType
    BY <1>1, <1>4, PreferredInSet
  <2>2. v = Win(PreferredWin(WinningConv(p)), 1)
    BY <1>4 DEF InitialValue
  <2>3. QED
    BY <2>1, <2>2 DEF Win, Value, IsUnknown, IsResolved
<1>5. CASE p \in game.valid /\ ~ NoLegals(p) /\ WinningConv(p) = {}
           /\ MoveCounter(p) = 0
  <2>1. QuietFrom(p) = {} /\ \A c \in ConvFrom(p) : c.dep = "Win"
    BY <1>5, MoveCounterType
  <2>2. LosingConv(p) # {}
    BY <1>5, <2>1 DEF NoLegals, LosingConv
  <2>3. PreferredLoss(LosingConv(p)) \in ConversionType
    BY <1>1, <2>2, PreferredInSet
  <2>4. v = Loss(PreferredLoss(LosingConv(p)), 1)
    BY <1>5 DEF InitialValue
  <2>5. QED
    BY <2>3, <2>4 DEF Loss, Value, IsUnknown, IsResolved, IsLoss
<1>6. CASE p \in game.valid /\ ~ NoLegals(p) /\ WinningConv(p) = {}
           /\ MoveCounter(p) # 0
  <2>1. v = Unknown(MoveCounter(p))
    BY <1>6 DEF InitialValue
  <2>2. MoveCounter(p) \in Nat \ {0}
    BY <1>6, MoveCounterType
  <2>3. QED
    BY <2>1, <2>2 DEF Unknown, Value, IsUnknown, IsResolved, IsWin, IsLoss
<1>7. QED
  BY <1>2, <1>3, <1>4, <1>5, <1>6

\* The counts initialize_table returns are numbers.
LEMMA InitiallyType ==
  ASSUME NEW s, NEW kind, NEW n
  PROVE  Initially(s, kind, n) \in Nat
<1> DEFINE S == {p \in Pos : /\ SlotOf[p] = s
                             /\ InitialValue(p).kind = kind
                             /\ InitialValue(p).n = n}
<1>1. S \in SUBSET Pos
  OBVIOUS
<1>2. IsFiniteSet(S)
  BY <1>1, PosAssumption, FS_Subset
<1>3. QED
  BY <1>2, FS_CardinalityType DEF Initially

-------------------------------------------------------------------------------
(* Type correctness.                                                        *)

\* The value an exchange writes is a cell value with a positive counter, or
\* a win or a loss at the ply in progress.
LEMMA NewValueType ==
  ASSUME TypeOK, CellsWellFormed, NEW w \in Worker,
         pc[w] = "cas", Changes(raw[w], cur[w].ct)
  PROVE  LET new == NewValue(raw[w], cur[w].ct)
         IN  /\ new \in Value
             /\ IsUnknown(new) => new.n > 0 /\ IsUnknown(raw[w]) /\ phase # "Loss"
             /\ IsResolved(new) => new.ct \in ConversionType /\ new.n = ply
             /\ IsUnknown(new) \/ IsWin(new) \/ IsLoss(new)
             /\ phase = "Loss" => new = Win(cur[w].ct, ply)
             /\ IsWin(new) => phase = "Loss"
             /\ cur[w] \in Update
<1>1. cur[w] \in Update /\ cur[w].ct \in ConversionType
  BY DEF TypeOK, Update
<1>2. raw[w] \in Value /\ ply \in Nat
  BY DEF TypeOK
<1>3. CASE phase = "Loss"
  BY <1>1, <1>2, <1>3
  DEF NewValue, Win, Value, IsUnknown, IsResolved, IsWin, IsLoss
<1>4. CASE phase # "Loss" /\ raw[w].n = 1
  BY <1>1, <1>2, <1>4
  DEF NewValue, Loss, Value, IsUnknown, IsResolved, IsWin, IsLoss
<1>5. CASE phase # "Loss" /\ raw[w].n # 1
  <2>1. IsUnknown(raw[w]) /\ raw[w].n > 0
    BY <1>5 DEF Changes, CellsWellFormed
  <2>2. raw[w].n - 1 \in Nat /\ raw[w].n - 1 > 0
    BY <1>2, <1>5, <2>1 DEF Value
  <2>3. QED
    BY <1>1, <1>5, <2>1, <2>2
    DEF NewValue, Unknown, Value, IsUnknown, IsResolved, IsWin, IsLoss
<1>6. QED
  BY <1>3, <1>4, <1>5

\* What a worker's idling leaves in its registers has their types.
LEMMA IdleType ==
  ASSUME TypeOK, NEW w \in Worker, Idle(w)
  PROVE  /\ pc' \in [Worker -> {"idle", "cas", "record"}]
         /\ cur' \in [Worker -> Update \cup {NoMove}]
         /\ raw' \in [Worker -> Value]
         /\ \A x \in Worker : pc'[x] # "idle" => cur'[x] \in Update
<1>1. NoValue \in Value
  BY DEF NoValue, Invalid, Value
<1>2. QED
  BY <1>1 DEF TypeOK, Idle

\* Taking a table, phase or ply of the loop keeps slot and phase in range.
LEMMA AdvanceType ==
  ASSUME TypeOK, Advance
  PROVE  /\ stage' \in {"next", "endply"} /\ slot' \in Slot /\ phase' \in Kind
         /\ PhaseIndex[phase'] >= PhaseIndex[phase]
<1>1. /\ NSlots \in {1, 2} /\ slot \in Slot /\ phase \in Kind
  BY SlotAssumption DEF TypeOK
<1>2. CASE slot < NSlots - 1
  BY <1>1, <1>2 DEF Advance, Slot, Kind, PhaseIndex, ConversionType
<1>3. CASE ~ (slot < NSlots - 1)
  BY <1>1, <1>3
  DEF Advance, Slot, Kind, ConversionType, NextPhase, PhaseIndex
<1>4. QED
  BY <1>2, <1>3

\* The updates of a block are well formed: a selected value has a type.
LEMMA UpdatesType ==
  ASSUME TypeOK, CellsWellFormed, NEW b \in Blocks
  PROVE  Updates(b) \subseteq Update
<1>1. game.quiet \subseteq QuietMove
  BY GamesAssumption DEF TypeOK, Game
<1>2. ASSUME NEW m \in game.quiet, Selected(val[m.to])
      PROVE  /\ m.from \in Pos /\ m.to \in Pos /\ m.copy \in Copy
             /\ val[m.to].ct \in ConversionType
  <2>1. m.from \in Pos /\ m.to \in Pos /\ m.copy \in Copy
    BY <1>1 DEF QuietMove
  <2>2. IsResolved(val[m.to])
    BY <1>2 DEF Selected, Win, IsResolved, IsWin, IsLoss
  <2>3. QED
    BY <2>1, <2>2 DEF CellsWellFormed
<1>3. QED
  BY <1>2 DEF Updates, Update

\* A record raises one ply bound of one block, and no other.
LEMMA RecordEffect ==
  ASSUME TypeOK, NEW w \in Worker, RecordCell(w)
  PROVE  /\ bound' \in [Blocks -> [Kind -> Nat]]
         /\ \A b \in Blocks, k \in Kind : bound'[b][k] >= bound[b][k]
         /\ bound'[Block(cur[w].pred)][RecordedKind(w)] >= ply + 1
<1> DEFINE b == Block(cur[w].pred)
           k == RecordedKind(w)
           n == IF bound[b][k] < ply + 1 THEN ply + 1 ELSE bound[b][k]
<1>1. cur[w] \in Update
  BY DEF TypeOK, RecordCell
<1>2. b \in Blocks /\ k \in Kind
  BY <1>1 DEF Blocks, Kind, RecordedKind, Update
<1>3. bound' = [bound EXCEPT ![b] = [bound[b] EXCEPT ![k] = n]]
  BY DEF RecordCell
<1>4. bound \in [Blocks -> [Kind -> Nat]] /\ ply \in Nat
  BY DEF TypeOK
<1>5. bound[b] \in [Kind -> Nat] /\ bound[b][k] \in Nat
  BY <1>2, <1>4
<1>6. n \in Nat /\ n >= bound[b][k] /\ n >= ply + 1
  BY <1>4, <1>5
<1> HIDE DEF b, k, n
<1>7. bound' \in [Blocks -> [Kind -> Nat]]
  BY <1>2, <1>3, <1>4, <1>5, <1>6
<1>8. \A c \in Blocks, j \in Kind : bound'[c][j] >= bound[c][j]
  BY <1>2, <1>3, <1>4, <1>5, <1>6
<1>9. bound'[b][k] >= ply + 1
  BY <1>2, <1>3, <1>4, <1>5, <1>6
<1>10. QED
  BY <1>7, <1>8, <1>9 DEF b, k

\* The variables have their types when solve_pair starts.
LEMMA TypeInit == Init => TypeOK
<1> SUFFICES ASSUME Init PROVE TypeOK
  OBVIOUS
<1>1. Invalid \in Value /\ NoValue \in Value
  BY DEF Invalid, NoValue, Value
<1>2. 0 \in Slot /\ NoneFound \in [Slot -> [wins : Nat, losses : Nat]]
  BY SlotAssumption DEF Slot, NoneFound
<1>3. BlocksOf(0) \subseteq Blocks
  BY DEF BlocksOf, Blocks
<1>4. QED
  BY <1>1, <1>2, <1>3 DEF Init, TypeOK, Kind

\* No step of solve_pair or of a worker breaks the types, given well-formed
\* cells: the conversion type of a scanned value names a kind of summary.
LEMMA TypeStep == TypeOK /\ CellsWellFormed /\ [Next]_vars => TypeOK'
<1> SUFFICES ASSUME TypeOK, CellsWellFormed, [Next]_vars
             PROVE  TypeOK'
  OBVIOUS
<1> USE DEF solverVars, workerVars
<1>1. ASSUME NEW b \in pending, InitializeBlock(b)
      PROVE  TypeOK'
  <2>1. val' \in [Pos -> Value]
    BY <1>1, InitialValueType DEF TypeOK, InitializeBlock
  <2>2. \A k \in Kind : InitialBound(b, k) \in Nat
    BY DEF InitialBound
  <2>3. bound' \in [Blocks -> [Kind -> Nat]]
    BY <1>1, <2>2 DEF TypeOK, InitializeBlock
  <2>4. QED
    BY <1>1, <2>1, <2>3 DEF TypeOK, InitializeBlock
<1>2. ASSUME NEW b \in pending, InitializeFails(b)
      PROVE  TypeOK'
  BY <1>2 DEF TypeOK, InitializeFails
<1>3. CASE FinishInitialize
  <2>1. /\ previous' \in [Slot -> [wins : Nat, losses : Nat]]
        /\ found' \in [Slot -> [wins : Nat, losses : Nat]]
    BY <1>3, InitiallyType DEF TypeOK, FinishInitialize
  <2>2. /\ stage' \in {"init", "next"} /\ slot' \in Slot
        /\ pending' \subseteq Blocks
    <3>1. stage' \in {"init", "next"}
      BY <1>3 DEF TypeOK, FinishInitialize
    <3>2. slot \in Slot /\ slot' = IF slot < NSlots - 1 THEN slot + 1 ELSE 0
      BY <1>3 DEF TypeOK, FinishInitialize
    <3>3. slot' \in Slot
      BY <3>2, SlotAssumption DEF Slot
    <3>4. pending' \subseteq Blocks
      BY <1>3 DEF TypeOK, FinishInitialize, BlocksOf, Blocks
    <3> QED
      BY <3>1, <3>3, <3>4
  <2>3. QED
    BY <1>3, <2>1, <2>2 DEF TypeOK, FinishInitialize
<1>4. CASE SkipScan
  BY <1>4, AdvanceType DEF TypeOK, SkipScan
<1>5. CASE BeginScan
  <2>1. BlocksWith(phase, ply - 1) \subseteq Blocks
    BY DEF BlocksWith, BlocksOf, Blocks
  <2>2. QED
    BY <1>5, <2>1 DEF TypeOK, BeginScan
<1>6. CASE FinishScan
  BY <1>6, AdvanceType DEF TypeOK, FinishScan
<1>7. CASE EndPly
  <2>1. maxWin' \in [Slot -> Nat] /\ maxLoss' \in [Slot -> Nat]
    BY <1>7 DEF TypeOK, EndPly
  <2>2. /\ stage' \in {"next", "solved"} /\ ply' \in Nat \ {0}
        /\ phase' \in Kind
    BY <1>7 DEF TypeOK, EndPly, Kind
  <2>3. /\ previous' \in [Slot -> [wins : Nat, losses : Nat]]
        /\ found' \in [Slot -> [wins : Nat, losses : Nat]]
    BY <1>7 DEF TypeOK, EndPly, NoneFound
  <2>4. QED
    BY <1>7, <2>1, <2>2, <2>3 DEF TypeOK, EndPly
<1>8. ASSUME NEW w \in Worker, TakeBlock(w)
      PROVE  TypeOK'
  <2>1. PICK b \in pending : /\ pending' = pending \ {b}
                             /\ todo' = [todo EXCEPT ![w] = Updates(b)]
    BY <1>8 DEF TakeBlock
  <2>2. Updates(b) \subseteq Update
    BY UpdatesType DEF TypeOK
  <2>3. todo' \in [Worker -> SUBSET Update] /\ pending' \subseteq Blocks
    BY <2>1, <2>2 DEF TypeOK
  <2>4. QED
    BY <1>8, <2>3 DEF TypeOK, TakeBlock
<1>9. ASSUME NEW w \in Worker, LoadCell(w)
      PROVE  TypeOK'
  <2>1. PICK u \in todo[w] : /\ todo' = [todo EXCEPT ![w] = @ \ {u}]
                             /\ cur' = [cur EXCEPT ![w] = u]
                             /\ raw' = [raw EXCEPT ![w] = val[u.pred]]
                             /\ pc' = [pc EXCEPT ![w] = "cas"]
    BY <1>9 DEF LoadCell
  <2>2. u \in Update /\ val[u.pred] \in Value
    BY DEF TypeOK, Update
  <2>3. /\ todo' \in [Worker -> SUBSET Update]
        /\ cur' \in [Worker -> Update \cup {NoMove}]
        /\ raw' \in [Worker -> Value]
        /\ pc' \in [Worker -> {"idle", "cas", "record"}]
        /\ \A x \in Worker : pc'[x] # "idle" => cur'[x] \in Update
    BY <2>1, <2>2 DEF TypeOK
  <2>4. QED
    BY <1>9, <2>3 DEF TypeOK, LoadCell
<1>10. ASSUME NEW w \in Worker, LeaveCell(w)
       PROVE  TypeOK'
  <2>1. Idle(w)
    BY <1>10 DEF LeaveCell
  <2>2. QED
    BY <1>10, <2>1, IdleType DEF TypeOK, LeaveCell
<1>11. ASSUME NEW w \in Worker, RetryCell(w)
       PROVE  TypeOK'
  <2>1. val[cur[w].pred] \in Value
    BY <1>11 DEF TypeOK, RetryCell, Update
  <2>2. QED
    BY <1>11, <2>1 DEF TypeOK, RetryCell
<1>12. ASSUME NEW w \in Worker, ExchangeCell(w)
       PROVE  TypeOK'
  <2> DEFINE new == NewValue(raw[w], cur[w].ct)
  <2>1. pc[w] = "cas" /\ Changes(raw[w], cur[w].ct)
    BY <1>12 DEF ExchangeCell
  <2>2. new \in Value
    BY <2>1, NewValueType
  <2>3. val' \in [Pos -> Value]
    BY <1>12, <2>2 DEF ExchangeCell, TypeOK
  <2>4. Twin(slot) \in Slot
    BY SlotAssumption DEF TypeOK, Slot, Twin
  <2>5. found' \in [Slot -> [wins : Nat, losses : Nat]]
    BY <1>12, <2>4 DEF ExchangeCell, CountFound, TypeOK
  <2>6. /\ pc' \in [Worker -> {"idle", "cas", "record"}]
        /\ cur' \in [Worker -> Update \cup {NoMove}]
        /\ raw' \in [Worker -> Value]
        /\ \A x \in Worker : pc'[x] # "idle" => cur'[x] \in Update
    <3>1. CASE Records(raw[w], new)
      BY <1>12, <2>1, <3>1 DEF ExchangeCell, TypeOK
    <3>2. CASE ~ Records(raw[w], new)
      <4>1. Idle(w)
        BY <1>12, <3>2 DEF ExchangeCell
      <4>2. QED
        BY <4>1, IdleType
    <3>3. QED
      BY <3>1, <3>2
  <2>7. QED
    BY <1>12, <2>3, <2>5, <2>6 DEF ExchangeCell, TypeOK
<1>13. ASSUME NEW w \in Worker, RecordCell(w)
       PROVE  TypeOK'
  <2>1. Idle(w)
    BY <1>13 DEF RecordCell
  <2>2. bound' \in [Blocks -> [Kind -> Nat]]
    BY <1>13, RecordEffect
  <2>3. QED
    BY <1>13, <2>1, <2>2, IdleType DEF TypeOK, RecordCell
<1>14. CASE UNCHANGED vars
  BY <1>14 DEF TypeOK, vars
<1>15. QED
  BY <1>1, <1>2, <1>3, <1>4, <1>5, <1>6, <1>7, <1>8, <1>9, <1>10, <1>11,
     <1>12, <1>13, <1>14
  DEF Next, SolverStep, WorkerStep, Returned

-------------------------------------------------------------------------------
(* The other parts of the inductive invariant.                              *)

\* The cells start invalid, and the workers' registers empty.
LEMMA CellsInit == Init => CellsWellFormed
BY DEF Init, CellsWellFormed, Invalid, NoValue, IsUnknown, IsResolved, IsWin,
       IsLoss

\* Cells and registers stay well formed: a counter that is exchanged is never
\* decremented below one, and nothing is resolved beyond the ply in progress.
LEMMA CellsStep == TypeOK /\ CellsWellFormed /\ [Next]_vars => CellsWellFormed'
<1> SUFFICES ASSUME TypeOK, CellsWellFormed, [Next]_vars
             PROVE  CellsWellFormed'
  OBVIOUS
<1> USE DEF solverVars, workerVars
<1>1. ASSUME NEW b \in pending, InitializeBlock(b)
      PROVE  CellsWellFormed'
  <2>1. \A p \in Pos : val'[p] = InitialValue(p) \/ val'[p] = val[p]
    BY <1>1 DEF InitializeBlock
  <2>2. \A p \in Pos :
          /\ IsUnknown(InitialValue(p)) => InitialValue(p).n > 0
          /\ IsResolved(InitialValue(p)) =>
               /\ InitialValue(p).ct \in ConversionType
               /\ InitialValue(p).n <= ply
    BY InitialValueType DEF TypeOK
  <2>3. ply' = ply /\ raw' = raw
    BY <1>1 DEF InitializeBlock
  <2>4. QED
    BY <2>1, <2>2, <2>3 DEF CellsWellFormed
<1>2. CASE UNCHANGED <<val, ply, raw>>
  BY <1>2 DEF CellsWellFormed
<1>3. CASE EndPly
  <2>1. val' = val /\ raw' = raw /\ ply' \in {ply, ply + 1}
    BY <1>3 DEF EndPly
  <2>2. \A p \in Pos : val[p].n \in Nat
    BY DEF TypeOK, Value
  <2>3. QED
    BY <2>1, <2>2 DEF CellsWellFormed, TypeOK
<1>4. ASSUME NEW w \in Worker, LoadCell(w)
      PROVE  CellsWellFormed'
  <2>1. PICK u \in todo[w] : raw' = [raw EXCEPT ![w] = val[u.pred]]
    BY <1>4 DEF LoadCell
  <2>2. u.pred \in Pos
    BY DEF TypeOK, Update
  <2>3. \A x \in Worker : raw'[x] = raw[x] \/ raw'[x] = val[u.pred]
    BY <2>1 DEF TypeOK
  <2>4. QED
    BY <1>4, <2>2, <2>3 DEF CellsWellFormed, LoadCell
<1>5. ASSUME NEW w \in Worker, LeaveCell(w) \/ RecordCell(w)
      PROVE  CellsWellFormed'
  <2>1. \A x \in Worker : raw'[x] = raw[x] \/ raw'[x] = NoValue
    BY <1>5 DEF LeaveCell, RecordCell, Idle, TypeOK
  <2>2. val' = val /\ ply' = ply
    BY <1>5 DEF LeaveCell, RecordCell
  <2>3. QED
    BY <2>1, <2>2
    DEF CellsWellFormed, NoValue, Invalid, IsUnknown, IsResolved, IsWin, IsLoss
<1>6. ASSUME NEW w \in Worker, RetryCell(w)
      PROVE  CellsWellFormed'
  <2>1. cur[w].pred \in Pos
    BY <1>6 DEF RetryCell, TypeOK, Update
  <2>2. \A x \in Worker : raw'[x] = raw[x] \/ raw'[x] = val[cur[w].pred]
    BY <1>6 DEF RetryCell, TypeOK
  <2>3. QED
    BY <1>6, <2>1, <2>2 DEF CellsWellFormed, RetryCell
<1>7. ASSUME NEW w \in Worker, ExchangeCell(w)
      PROVE  CellsWellFormed'
  <2> DEFINE new == NewValue(raw[w], cur[w].ct)
  <2>1. pc[w] = "cas" /\ Changes(raw[w], cur[w].ct)
    BY <1>7 DEF ExchangeCell
  <2>2. /\ IsUnknown(new) => new.n > 0
        /\ IsResolved(new) => new.ct \in ConversionType /\ new.n = ply
    BY <2>1, NewValueType
  <2>3. \A x \in Worker : raw'[x] = raw[x] \/ raw'[x] = NoValue
    BY <1>7 DEF ExchangeCell, Idle, TypeOK
  <2>4. \A p \in Pos : val'[p] = val[p] \/ val'[p] = new
    BY <1>7 DEF ExchangeCell, TypeOK
  <2>5. ply' = ply /\ ply \in Nat
    BY <1>7 DEF ExchangeCell, TypeOK
  <2> HIDE DEF new
  <2>6. \A p \in Pos : /\ IsUnknown(val'[p]) => val'[p].n > 0
                       /\ IsResolved(val'[p]) => /\ val'[p].ct \in ConversionType
                                                 /\ val'[p].n <= ply'
    BY <2>2, <2>4, <2>5 DEF CellsWellFormed
  <2>7. \A x \in Worker : /\ IsUnknown(raw'[x]) => raw'[x].n > 0
                          /\ IsResolved(raw'[x]) => raw'[x].ct \in ConversionType
    BY <2>3
    DEF CellsWellFormed, NoValue, Invalid, IsUnknown, IsResolved, IsWin, IsLoss
  <2>8. QED
    BY <2>6, <2>7 DEF CellsWellFormed
<1>8. QED
  BY <1>1, <1>2, <1>3, <1>4, <1>5, <1>6, <1>7
  DEF Next, SolverStep, WorkerStep, Returned, InitializeFails, FinishInitialize,
      SkipScan, BeginScan, FinishScan, TakeBlock, vars

\* Workers only hold work between BeginScan and FinishScan, the join.
LEMMA JoinedStep ==
  TypeOK /\ WorkersJoined /\ [Next]_vars => WorkersJoined'
<1> SUFFICES ASSUME TypeOK, WorkersJoined, [Next]_vars
             PROVE  WorkersJoined'
  OBVIOUS
<1> USE DEF solverVars, workerVars
<1>1. ASSUME NEW w \in Worker, WorkerStep(w)
      PROVE  stage = "scan" /\ stage' = "scan"
  BY <1>1
  DEF WorkersJoined, WorkerStep, TakeBlock, LoadCell, LeaveCell, RetryCell,
      ExchangeCell, RecordCell
<1>2. CASE UNCHANGED <<pc, todo>> /\ (stage = "scan" => stage' = "scan")
  BY <1>2 DEF WorkersJoined
<1>3. CASE FinishScan
  BY <1>3 DEF WorkersJoined, FinishScan
<1>4. QED
  BY <1>1, <1>2, <1>3
  DEF WorkersJoined, Next, SolverStep, Returned, InitializeBlock,
      InitializeFails, FinishInitialize, SkipScan, BeginScan, EndPly, vars

\* A block keeps its invalid cells until its chunk is initialised.
LEMMA UntouchedStep ==
  TypeOK /\ WorkersJoined /\ Untouched /\ [Next]_vars => Untouched'
<1> SUFFICES ASSUME TypeOK, WorkersJoined, Untouched, [Next]_vars, stage' = "init"
             PROVE  /\ pending' \subseteq BlocksOf(slot')
                    /\ \A p \in Pos : Block(p) \in pending' \/ SlotOf[p] > slot'
                                        => val'[p] = Invalid
  BY DEF Untouched, Block, BlocksOf
<1> USE DEF solverVars, workerVars
<1>1. stage = "init"
  BY DEF Next, SolverStep, WorkerStep, Returned, InitializeBlock,
      InitializeFails, FinishInitialize, SkipScan, BeginScan, FinishScan,
      EndPly, Advance, TakeBlock, LoadCell, LeaveCell, RetryCell, ExchangeCell,
      RecordCell, vars
<1>2. ASSUME NEW w \in Worker
      PROVE  ~ WorkerStep(w)
  BY <1>1
  DEF WorkersJoined, WorkerStep, TakeBlock, LoadCell, LeaveCell, RetryCell,
      ExchangeCell, RecordCell
<1>3. \A p \in Pos, s \in Slot : Block(p) \in BlocksOf(s) => SlotOf[p] = s
  BY DEF BlocksOf, Block
<1>4. slot \in Slot /\ \A s \in Slot : s \in Nat
  BY SlotAssumption DEF TypeOK, Slot
<1>5. ASSUME NEW b \in pending, InitializeBlock(b)
      PROVE  /\ pending' \subseteq BlocksOf(slot')
             /\ \A p \in Pos : Block(p) \in pending' \/ SlotOf[p] > slot'
                                 => val'[p] = Invalid
  <2>1. pending \subseteq BlocksOf(slot) /\ slot' = slot /\ pending' = pending \ {b}
    BY <1>1, <1>5 DEF Untouched, InitializeBlock
  <2>2. ASSUME NEW p \in Pos, Block(p) \in pending' \/ SlotOf[p] > slot'
        PROVE  Block(p) # b
    BY <1>3, <1>4, <2>1, <2>2
  <2>3. QED
    BY <1>1, <1>5, <2>1, <2>2 DEF Untouched, InitializeBlock
<1>6. ASSUME FinishInitialize
      PROVE  /\ pending' \subseteq BlocksOf(slot')
             /\ \A p \in Pos : Block(p) \in pending' \/ SlotOf[p] > slot'
                                 => val'[p] = Invalid
  <2>1. slot < NSlots - 1 /\ slot' = slot + 1 /\ pending' = BlocksOf(slot + 1)
    BY <1>6 DEF FinishInitialize
  <2>2. ASSUME NEW p \in Pos, Block(p) \in pending' \/ SlotOf[p] > slot'
        PROVE  SlotOf[p] > slot
    <3>1. SlotOf[p] \in Nat /\ slot + 1 \in Slot
      BY <1>4, <2>1, SlotAssumption DEF Slot
    <3>2. QED
      BY <1>3, <1>4, <2>1, <2>2, <3>1
  <2>3. QED
    BY <1>1, <1>6, <2>1, <2>2 DEF Untouched, FinishInitialize
<1>7. CASE UNCHANGED vars
  BY <1>1, <1>7 DEF Untouched, vars, Block
<1>8. QED
  BY <1>1, <1>2, <1>5, <1>6, <1>7
  DEF Next, SolverStep, Returned, InitializeFails, SkipScan, BeginScan,
      FinishScan, EndPly

\* Summaries: the record a worker owes makes up for the bound it will raise.
LEMMA SummaryStep ==
  TypeOK /\ CellsWellFormed /\ WorkersJoined /\ SummaryConservative
    /\ [Next]_vars => SummaryConservative'
<1> DEFINE Covered(p) ==
      \/ bound[Block(p)][KindOf(val[p])] >= val[p].n + 1
      \/ \E w \in Worker : /\ pc[w] = "record" /\ cur[w].pred = p
                           /\ RecordedKind(w) = KindOf(val[p])
<1> SUFFICES ASSUME TypeOK, CellsWellFormed, WorkersJoined,
                    SummaryConservative, [Next]_vars,
                    NEW p \in Pos, IsResolved(val'[p])
             PROVE  Covered(p)'
  BY DEF SummaryConservative, Block
<1> USE DEF solverVars, workerVars
<1>1. IsResolved(val[p]) => Covered(p)
  BY DEF SummaryConservative
<1>2. ASSUME NEW b \in pending, InitializeBlock(b)
      PROVE  Covered(p)'
  <2>1. CASE Block(p) = b
    <3> DEFINE v == InitialValue(p)
    <3>1. val'[p] = v /\ bound'[b] = [k \in Kind |-> InitialBound(b, k)]
      BY <1>2, <2>1 DEF InitializeBlock, TypeOK
    <3>2. IsResolved(v) /\ v.n \in {0, 1} /\ v.ct \in ConversionType
      BY <3>1, InitialValueType DEF TypeOK
    <3>3. KindOf(v) \in Kind
      BY <3>2 DEF KindOf, Kind
    <3>4. InitialBound(b, KindOf(v)) >= v.n + 1
      BY <2>1, <3>2 DEF InitialBound
    <3> HIDE DEF v
    <3>5. bound'[b][KindOf(v)] >= v.n + 1
      BY <3>1, <3>3, <3>4
    <3>6. QED
      BY <2>1, <3>1, <3>5 DEF Block
  <2>2. CASE Block(p) # b
    <3>1. val'[p] = val[p] /\ bound'[Block(p)] = bound[Block(p)]
      BY <1>2, <2>2 DEF InitializeBlock, TypeOK
    <3>2. bound[Block(p)][KindOf(val[p])] >= val[p].n + 1
      BY <1>1, <1>2, <3>1 DEF InitializeBlock, WorkersJoined
    <3>3. QED
      BY <3>1, <3>2 DEF Block
  <2>3. QED
    BY <2>1, <2>2
<1>3. CASE UNCHANGED <<val, bound, pc, cur, phase>>
  BY <1>1, <1>3 DEF Block, RecordedKind
<1>4. ASSUME UNCHANGED <<val, bound, pc, cur>>, stage # "scan" \/ FinishScan
      PROVE  Covered(p)'
  <2>1. \A w \in Worker : pc[w] = "idle"
    BY <1>4 DEF WorkersJoined, FinishScan
  <2>2. bound[Block(p)][KindOf(val[p])] >= val[p].n + 1
    BY <1>1, <1>4, <2>1
  <2>3. QED
    BY <1>4, <2>2 DEF Block
<1>5. ASSUME NEW w \in Worker, LoadCell(w)
      PROVE  Covered(p)'
  <2>1. \A x \in Worker : pc[x] = "record" => pc'[x] = "record" /\ cur'[x] = cur[x]
    BY <1>5 DEF LoadCell, TypeOK
  <2>2. UNCHANGED <<val, bound, phase>>
    BY <1>5 DEF LoadCell
  <2>3. QED
    BY <1>1, <2>1, <2>2 DEF Block, RecordedKind
<1>6. ASSUME NEW w \in Worker, LeaveCell(w)
      PROVE  Covered(p)'
  <2>1. \A x \in Worker : pc[x] = "record" => pc'[x] = "record" /\ cur'[x] = cur[x]
    BY <1>6 DEF LeaveCell, Idle, TypeOK
  <2>2. UNCHANGED <<val, bound, phase>>
    BY <1>6 DEF LeaveCell
  <2>3. QED
    BY <1>1, <2>1, <2>2 DEF Block, RecordedKind
<1>7. ASSUME NEW w \in Worker, ExchangeCell(w)
      PROVE  Covered(p)'
  <2> DEFINE new == NewValue(raw[w], cur[w].ct)
  <2>1. pc[w] = "cas" /\ Changes(raw[w], cur[w].ct)
    BY <1>7 DEF ExchangeCell
  <2>2. \A x \in Worker : pc[x] = "record" => pc'[x] = "record" /\ cur'[x] = cur[x]
    BY <1>7, <2>1 DEF ExchangeCell, Idle, TypeOK
  <2>3. /\ val' = [val EXCEPT ![cur[w].pred] = new]
        /\ UNCHANGED <<bound, phase>>
    BY <1>7 DEF ExchangeCell
  <2>4. CASE p # cur[w].pred
    <3>1. val'[p] = val[p]
      BY <2>3, <2>4 DEF TypeOK
    <3>2. QED
      BY <1>1, <2>2, <2>3, <3>1 DEF Block, RecordedKind
  <2>5. CASE p = cur[w].pred
    <3>1. val'[p] = new
      BY <2>3, <2>5 DEF TypeOK
    <3>2. Records(raw[w], new)
      BY <3>1 DEF Records
    <3>3. pc'[w] = "record" /\ cur'[w] = cur[w]
      BY <1>7, <3>2 DEF ExchangeCell, TypeOK
    <3>4. RecordedKind(w) = KindOf(new)
      <4>1. CASE phase = "Loss"
        <5>1. new = Win(cur[w].ct, ply)
          BY <2>1, <4>1, NewValueType
        <5>2. QED
          BY <4>1, <5>1 DEF RecordedKind, KindOf, Win, IsLoss
      <4>2. CASE phase # "Loss"
        <5>1. IsLoss(new)
          BY <2>1, <3>1, <4>2, NewValueType DEF IsResolved
        <5>2. QED
          BY <4>2, <5>1 DEF RecordedKind, KindOf
      <4>3. QED
        BY <4>1, <4>2
    <3>5. QED
      BY <2>3, <2>5, <3>1, <3>3, <3>4 DEF RecordedKind
  <2>6. QED
    BY <2>4, <2>5
<1>8. ASSUME NEW w \in Worker, RecordCell(w)
      PROVE  Covered(p)'
  <2>1. val' = val /\ phase' = phase /\ Idle(w) /\ pc[w] = "record"
    BY <1>8 DEF RecordCell
  <2>2. /\ \A b \in Blocks, k \in Kind : bound'[b][k] >= bound[b][k]
        /\ bound'[Block(cur[w].pred)][RecordedKind(w)] >= ply + 1
        /\ bound' \in [Blocks -> [Kind -> Nat]]
    BY <1>8, RecordEffect
  <2>3. IsResolved(val[p]) /\ val[p].n \in Nat /\ val[p].n <= ply
        /\ ply \in Nat /\ val[p].ct \in ConversionType
    BY <2>1 DEF CellsWellFormed, TypeOK, Value
  <2>4. Block(p) \in Blocks /\ KindOf(val[p]) \in Kind
    BY <2>3 DEF Blocks, KindOf, Kind
  <2>5. bound[Block(p)][KindOf(val[p])] \in Nat
        /\ bound'[Block(p)][KindOf(val[p])] \in Nat
    BY <2>2, <2>4 DEF TypeOK
  <2>6. CASE bound[Block(p)][KindOf(val[p])] >= val[p].n + 1
    <3>1. bound'[Block(p)][KindOf(val[p])] >= bound[Block(p)][KindOf(val[p])]
      BY <2>2, <2>4
    <3>2. bound'[Block(p)][KindOf(val[p])] >= val[p].n + 1
      BY <2>3, <2>5, <2>6, <3>1
    <3>3. QED
      BY <2>1, <3>2 DEF Block
  <2>7. CASE cur[w].pred = p /\ RecordedKind(w) = KindOf(val[p])
    <3>1. bound'[Block(p)][KindOf(val[p])] >= val[p].n + 1
      BY <2>2, <2>3, <2>5, <2>7
    <3>2. QED
      BY <2>1, <3>1 DEF Block
  <2>8. ASSUME NEW x \in Worker, x # w, pc[x] = "record", cur[x].pred = p,
               RecordedKind(x) = KindOf(val[p])
        PROVE  Covered(p)'
    <3>1. pc'[x] = "record" /\ cur'[x] = cur[x]
      BY <2>1, <2>8 DEF Idle, TypeOK
    <3>2. QED
      BY <2>1, <2>8, <3>1 DEF RecordedKind
  <2>9. QED
    BY <1>1, <2>3, <2>6, <2>7, <2>8
<1>9. QED
  BY <1>2, <1>3, <1>4, <1>5, <1>6, <1>7, <1>8
  DEF Next, SolverStep, WorkerStep, Returned, InitializeFails,
      FinishInitialize, SkipScan, BeginScan, FinishScan, EndPly, TakeBlock,
      RetryCell, vars

-------------------------------------------------------------------------------
(* The theorems.                                                            *)

\* The inductive invariant holds when solve_pair starts.
LEMMA InitInv == Init => SolverInv
<1> SUFFICES ASSUME Init PROVE SolverInv
  OBVIOUS
<1>1. TypeOK /\ CellsWellFormed
  BY TypeInit, CellsInit
<1>2. WorkersJoined /\ Untouched
  BY DEF Init, WorkersJoined, Untouched
<1>3. SummaryConservative
  BY DEF Init, SummaryConservative, Invalid, IsResolved, IsWin, IsLoss
<1>4. QED
  BY <1>1, <1>2, <1>3 DEF SolverInv

\* The inductive invariant is inductive.
LEMMA NextInv == SolverInv /\ [Next]_vars => SolverInv'
BY TypeStep, CellsStep, JoinedStep, UntouchedStep, SummaryStep DEF SolverInv

\* The inductive invariant holds in every state of the solver.
THEOREM SolverInvariant == Spec => []SolverInv
<1>1. QED
  BY InitInv, NextInv, PTL DEF Spec

\* Type correctness of the solver, for every game and any number of workers.
THEOREM TypeCorrect == Spec => []TypeOK
<1>1. SolverInv => TypeOK
  BY DEF SolverInv
<1>2. QED
  BY SolverInvariant, <1>1, PTL

\* No block a scan must visit is skipped for its ply bound (blocks_with):
\* a resolved value always has a bound above its ply, or a worker about to
\* record one.
THEOREM SummariesAreConservative == Spec => []SummaryConservative
<1>1. SolverInv => SummaryConservative
  BY DEF SolverInv
<1>2. QED
  BY SolverInvariant, <1>1, PTL

\* What a step may do to a cell that holds a win or a loss.
LEMMA ResolvedStep ==
  ASSUME SolverInv, [Next]_vars, NEW p \in Pos, IsResolved(val[p]),
         val'[p] # val[p]
  PROVE  /\ IsWin(val[p]) /\ IsWin(val'[p])
         /\ val'[p].n = val[p].n /\ val[p].n = ply /\ phase = "Loss"
         /\ WinRank[val'[p].ct] > WinRank[val[p].ct]
<1> USE DEF solverVars, workerVars
<1>1. TypeOK /\ CellsWellFormed /\ Untouched
  BY DEF SolverInv
<1>2. ASSUME NEW b \in pending, InitializeBlock(b)
      PROVE  FALSE
  <2>1. Block(p) = b /\ stage = "init"
    BY <1>1, <1>2 DEF InitializeBlock, TypeOK
  <2>2. val[p] = Invalid
    BY <1>1, <2>1 DEF Untouched
  <2>3. QED
    BY <2>2 DEF Invalid, IsResolved, IsWin, IsLoss
<1>3. ASSUME NEW w \in Worker, ExchangeCell(w)
      PROVE  /\ IsWin(val[p]) /\ IsWin(val'[p])
             /\ val'[p].n = val[p].n /\ val[p].n = ply /\ phase = "Loss"
             /\ WinRank[val'[p].ct] > WinRank[val[p].ct]
  <2> DEFINE new == NewValue(raw[w], cur[w].ct)
  <2>1. pc[w] = "cas" /\ Changes(raw[w], cur[w].ct)
    BY <1>3 DEF ExchangeCell
  <2>2. p = cur[w].pred /\ val'[p] = new /\ raw[w] = val[p]
    BY <1>1, <1>3 DEF ExchangeCell, TypeOK
  <2>3. ~ IsUnknown(val[p])
    BY DEF IsResolved, IsUnknown, IsWin, IsLoss
  <2>4. /\ phase = "Loss" /\ IsWin(val[p]) /\ val[p].n = ply
        /\ WinRank[cur[w].ct] > WinRank[val[p].ct]
    BY <2>1, <2>2, <2>3 DEF Changes
  <2>5. new = Win(cur[w].ct, ply)
    BY <1>1, <2>1, <2>4, NewValueType
  <2>6. QED
    BY <2>2, <2>4, <2>5 DEF Win, IsWin
<1>4. QED
  BY <1>2, <1>3
  DEF Next, SolverStep, WorkerStep, Returned, InitializeFails,
      FinishInitialize, SkipScan, BeginScan, FinishScan, EndPly, TakeBlock,
      LoadCell, LeaveCell, RetryCell, RecordCell, vars

\* A win or a loss, once written, is only ever replaced by a better win at
\* the same ply during phase W, under every interleaving of the workers.
THEOREM ResolvedValuesFinal == Spec => ResolvedFinal
<1>1. SolverInv /\ [Next]_vars =>
        [\A p \in Pos : IsResolved(val[p]) =>
           \/ val'[p] = val[p]
           \/ /\ IsWin(val[p]) /\ IsWin(val'[p])
              /\ val'[p].n = val[p].n /\ val[p].n = ply /\ phase = "Loss"
              /\ WinRank[val'[p].ct] > WinRank[val[p].ct]]_vars
  BY ResolvedStep
<1>2. QED
  BY SolverInvariant, <1>1, PTL DEF Spec, ResolvedFinal

\* During the scans of a ply the wins and losses of the ply before, which the
\* scans read, neither change nor appear: the phases do not see their own
\* writes, which is why the order of visits cannot matter.
THEOREM SourcesStable == Spec => ScanSourceStable
<1> USE DEF solverVars, workerVars
<1>1. ASSUME SolverInv, [Next]_vars, NEW p \in Pos,
             stage \in {"next", "scan"},
             IsSource(val[p]) \/ IsSource(val'[p])
      PROVE  val'[p] = val[p]
  <2>1. ply \in Nat /\ TypeOK /\ CellsWellFormed
    BY <1>1 DEF SolverInv, TypeOK
  <2>2. SUFFICES ASSUME NEW w \in Worker, ExchangeCell(w)
                 PROVE  val'[p] = val[p]
    BY <1>1
    DEF Next, SolverStep, WorkerStep, Returned, InitializeBlock,
        InitializeFails, FinishInitialize, SkipScan, BeginScan, FinishScan,
        EndPly, TakeBlock, LoadCell, LeaveCell, RetryCell, RecordCell, vars
  <2>3. CASE IsSource(val[p])
    BY <1>1, <2>1, <2>3, ResolvedStep DEF IsSource
  <2>4. CASE ~ IsSource(val[p])
    <3>1. IsSource(val'[p])
      BY <1>1, <2>4
    <3>2. pc[w] = "cas" /\ Changes(raw[w], cur[w].ct)
      BY <2>2 DEF ExchangeCell
    <3>3. IsResolved(NewValue(raw[w], cur[w].ct)) =>
            NewValue(raw[w], cur[w].ct).n = ply
      BY <2>1, <3>2, NewValueType
    <3>4. val'[p] = val[p] \/ val'[p] = NewValue(raw[w], cur[w].ct)
      BY <2>1, <2>2 DEF ExchangeCell, TypeOK
    <3>5. QED
      BY <2>1, <3>1, <3>3, <3>4 DEF IsSource
  <2>5. QED
    BY <2>3, <2>4
<1>2. SolverInv /\ [Next]_vars =>
        [\A p \in Pos :
           /\ stage \in {"next", "scan"}
           /\ IsSource(val[p]) \/ IsSource(val'[p])
           => val'[p] = val[p]]_vars
  BY <1>1
<1>3. QED
  BY SolverInvariant, <1>2, PTL DEF Spec, ScanSourceStable

-------------------------------------------------------------------------------
(* What the solver counts is what it has written.                           *)

(* The inductive invariant of the counts.                                   *)

\* Tables and blocks initialised so far hold their initial values, and the
\* tables returned from have their counts; nothing else has been counted.
Prepared ==
  stage = "init" =>
    /\ ply = 1 /\ phase = "Loss"
    /\ \A s \in Slot : maxWin[s] = 0 /\ maxLoss[s] = 0 /\ previous[s].wins = 0
    /\ \A p \in Pos : \/ SlotOf[p] < slot
                      \/ SlotOf[p] = slot /\ Block(p) \notin pending
                      => val[p] = InitialValue(p)
    /\ \A s \in Slot : s < slot =>
         /\ found[s].wins = Initially(s, "win", 1)
         /\ found[s].losses = Initially(s, "loss", 1)
         /\ previous[s].losses = Initially(s, "loss", 0)

\* A scan takes blocks of its table, and updates cells of the twin's.
WithinTables ==
  stage = "scan" =>
    /\ pending \subseteq BlocksOf(slot)
    /\ \A w \in Worker : /\ \A u \in todo[w] : SlotOf[u.pred] = Twin(slot)
                         /\ pc[w] # "idle" => SlotOf[cur[w].pred] = Twin(slot)

\* The wins or the losses of a table whose ply is over.
Settled(s, kind) ==
  {p \in Pos : /\ SlotOf[p] = s /\ val[p].kind = kind
               /\ stage = "solved" \/ val[p].n < ply}

\* n is the greatest distance in Settled(s, kind), or 0 above an empty set.
Longest(n, s, kind) ==
  /\ \A p \in Settled(s, kind) : val[p].n <= n
  /\ n > 0 => \E p \in Settled(s, kind) : val[p].n = n

\* The maxima are those of the plies that are over.
MaximaSoFar ==
  stage \notin {"init", "failed"} =>
    \A s \in Slot : Longest(maxWin[s], s, "win") /\ Longest(maxLoss[s], s, "loss")

\* A ply ends back at the first table.
EndsAtFirst == stage = "endply" => slot = 0

CountInv ==
  Prepared /\ WithinTables /\ EndsAtFirst /\ PlyCountsExact /\ MaximaSoFar

\* The updates a worker has not applied yet.
Hand(w) == todo[w] \cup (IF pc[w] = "cas" THEN {cur[w]} ELSE {})

\* Two updates are for the same quiet move.
SameMove(u, v) == u.pred = v.pred /\ u.src = v.src /\ u.copy = v.copy

\* An update stands for a quiet move to a position the scan selects.
HandsSelected ==
  stage = "scan" =>
    \A w \in Worker : \A u \in Hand(w) :
      /\ [from |-> u.pred, to |-> u.src, copy |-> u.copy] \in game.quiet
      /\ SlotOf[u.src] = slot /\ Selected(val[u.src]) /\ u.ct = val[u.src].ct

\* No two workers, and no worker and an untaken block, hold the same move.
HandsDisjoint ==
  stage = "scan" =>
    \A w \in Worker : \A u \in Hand(w) :
      /\ Block(u.src) \notin pending
      /\ \A x \in Worker : \A v \in Hand(x) : SameMove(u, v) => w = x /\ u = v
      /\ pc[w] = "cas" => cur[w] \notin todo[w]

\* A cell found other than unknown keeps its value, but for the wins upgraded.
LoadedStays ==
  \A w \in Worker :
    LET v == val[cur[w].pred]
    IN  pc[w] = "cas" /\ ~ IsUnknown(raw[w]) =>
          \/ v = raw[w]
          \/ /\ IsWin(v) /\ IsWin(raw[w]) /\ v.n = raw[w].n
             /\ WinRank[v.ct] >= WinRank[raw[w].ct]

\* The scan for what move m leads to is over, or no longer holds its update:
\* Delivered, for the moves to losses as well as for those to wins.
Passed(m) ==
  LET v == val[m.to]
  IN /\ IsResolved(v)
     /\ \/ v.n < ply - 1
        \/ v.n = ply - 1 /\ ScanEnded(KindOf(v), SlotOf[m.to])
        \/ /\ v.n = ply - 1 /\ stage = "scan"
           /\ KindOf(v) = phase /\ SlotOf[m.to] = slot
           /\ ~ InFlight(m)

CounterInv == HandsSelected /\ HandsDisjoint /\ LoadedStays /\ CountersExact

-------------------------------------------------------------------------------
(* Lemmas about steps.                                                      *)

\* The game never changes, so neither do the initial values and their counts.
LEMMA GameKept ==
  ASSUME [Next]_vars
  PROVE  /\ game' = game
         /\ \A p : InitialValue(p)' = InitialValue(p)
         /\ \A s, k, n : Initially(s, k, n)' = Initially(s, k, n)
<1>1. game' = game
  BY DEF Next, SolverStep, WorkerStep, Returned, InitializeBlock,
      InitializeFails, FinishInitialize, SkipScan, BeginScan, FinishScan,
      EndPly, TakeBlock, LoadCell, LeaveCell, RetryCell, ExchangeCell,
      RecordCell, vars
<1>2. ASSUME NEW p
      PROVE  InitialValue(p)' = InitialValue(p)
  BY <1>1
  DEF InitialValue, NoLegals, QuietFrom, ConvFrom, WinningConv, LosingConv,
      MoveCounter
<1>3. QED
  BY <1>1, <1>2 DEF Initially

\* The other table of the pair, and its own other table.
LEMMA TwinTwice ==
  ASSUME NEW s \in Slot
  PROVE  Twin(s) \in Slot /\ Twin(Twin(s)) = s
BY SlotAssumption DEF Slot, Twin

\* The positions of a block of a table belong to that table.
LEMMA BlockSlot ==
  ASSUME NEW p \in Pos, NEW s
  PROVE  Block(p) \in BlocksOf(s) <=> SlotOf[p] = s
BY DEF Block, BlocksOf

\* Workers only step during a scan.
LEMMA WorkersScan ==
  ASSUME WorkersJoined, NEW w \in Worker, WorkerStep(w)
  PROVE  stage = "scan" /\ UNCHANGED <<solverVars, game>>
BY DEF WorkersJoined, WorkerStep, TakeBlock, LoadCell, LeaveCell, RetryCell,
       ExchangeCell, RecordCell

\* The four outcomes of a successful exchange and what each one counts.
LEMMA ExchangeEffect ==
  ASSUME TypeOK, CellsWellFormed, WorkersJoined, WithinTables,
         NEW w \in Worker, ExchangeCell(w),
         NEW p, p = cur[w].pred, NEW new, new = NewValue(raw[w], cur[w].ct)
  PROVE  /\ p \in Pos /\ SlotOf[p] = Twin(slot) /\ stage = "scan"
         /\ Twin(slot) \in Slot
         /\ val[p] = raw[w] /\ val' = [val EXCEPT ![p] = new]
         /\ UNCHANGED <<game, bound, solverVars, pending, todo>>
         /\ \/ /\ IsUnknown(val[p]) /\ IsUnknown(new) /\ found' = found
               /\ phase # "Loss" /\ new = Unknown(val[p].n - 1) /\ val[p].n # 1
            \/ /\ IsUnknown(val[p]) /\ IsWin(new) /\ new.n = ply
               /\ phase = "Loss" /\ new = Win(cur[w].ct, ply)
               /\ found' = [found EXCEPT ![Twin(slot)].wins = @ + 1]
            \/ /\ IsUnknown(val[p]) /\ IsLoss(new) /\ new.n = ply
               /\ phase # "Loss" /\ new = Loss(cur[w].ct, ply) /\ val[p].n = 1
               /\ found' = [found EXCEPT ![Twin(slot)].losses = @ + 1]
            \/ /\ IsWin(val[p]) /\ val[p].n = ply /\ IsWin(new) /\ new.n = ply
               /\ phase = "Loss" /\ new = Win(cur[w].ct, ply)
               /\ found' = found
<1>1. pc[w] = "cas" /\ Changes(raw[w], cur[w].ct) /\ val[p] = raw[w]
  BY DEF ExchangeCell
<1>2. cur[w] \in Update /\ p \in Pos
  BY <1>1 DEF TypeOK, Update
<1>3. stage = "scan" /\ SlotOf[p] = Twin(slot) /\ Twin(slot) \in Slot
  BY <1>1, TwinTwice DEF WorkersJoined, WithinTables, TypeOK
<1>4. /\ val' = [val EXCEPT ![p] = new]
      /\ CountFound(raw[w], new)
      /\ UNCHANGED <<game, bound, solverVars, pending, todo>>
  BY DEF ExchangeCell
<1>5. CASE phase = "Loss"
  <2>1. new = Win(cur[w].ct, ply)
    BY <1>5 DEF NewValue
  <2>2. IsWin(new) /\ ~ IsUnknown(new) /\ new.n = ply
    BY <2>1 DEF Win, IsWin, IsUnknown
  <2>3. CASE IsUnknown(val[p])
    BY <1>1, <1>2, <1>3, <1>4, <1>5, <2>1, <2>2, <2>3 DEF CountFound
  <2>4. CASE ~ IsUnknown(val[p])
    BY <1>1, <1>2, <1>3, <1>4, <1>5, <2>1, <2>2, <2>4 DEF CountFound, Changes
  <2>5. QED
    BY <2>3, <2>4
<1>6. CASE phase # "Loss"
  <2>1. IsUnknown(val[p])
    BY <1>1, <1>6 DEF Changes
  <2>2. CASE val[p].n = 1
    <3>1. new = Loss(cur[w].ct, ply)
      BY <1>1, <1>6, <2>2 DEF NewValue
    <3>2. IsLoss(new) /\ ~ IsWin(new) /\ ~ IsUnknown(new) /\ new.n = ply
      BY <3>1 DEF Loss, IsLoss, IsWin, IsUnknown
    <3>3. QED
      BY <1>1, <1>2, <1>3, <1>4, <1>6, <2>1, <2>2, <3>1, <3>2 DEF CountFound
  <2>3. CASE val[p].n # 1
    <3>1. new = Unknown(val[p].n - 1)
      BY <1>1, <1>6, <2>3 DEF NewValue
    <3>2. IsUnknown(new)
      BY <3>1 DEF Unknown, IsUnknown
    <3>3. QED
      BY <1>1, <1>2, <1>3, <1>4, <1>6, <2>1, <2>3, <3>1, <3>2 DEF CountFound
  <2>4. QED
    BY <2>2, <2>3
<1>7. QED
  BY <1>5, <1>6

-------------------------------------------------------------------------------
(* Initialisation and the tables a scan works on.                           *)

\* A win found by initialize_table is a conversion: it is at ply 1.
LEMMA InitialWins ==
  ASSUME NEW p \in Pos, IsWin(InitialValue(p))
  PROVE  InitialValue(p).n = 1
BY DEF InitialValue, IsWin, Invalid, Loss, Draw, Unknown, Win

\* Each chunk stores its initial values, and each table its initial counts.
LEMMA PreparedStep ==
  SolverInv /\ Prepared /\ [Next]_vars => Prepared'
<1> SUFFICES ASSUME SolverInv, Prepared, [Next]_vars, stage' = "init"
             PROVE  Prepared'
  BY DEF Prepared
<1> USE DEF solverVars, workerVars
<1>1. TypeOK /\ WorkersJoined /\ Untouched
  BY DEF SolverInv
<1>2. stage = "init" /\ \A w \in Worker : ~ WorkerStep(w)
  <2>1. \A w \in Worker : WorkerStep(w) => stage = "scan" /\ stage' = stage
    BY <1>1, WorkersScan
  <2>2. QED
    BY <2>1
    DEF Next, SolverStep, Returned, InitializeBlock, InitializeFails,
        FinishInitialize, SkipScan, BeginScan, FinishScan, EndPly, Advance, vars
<1>3. /\ \A p : InitialValue(p)' = InitialValue(p)
      /\ \A s, k, n : Initially(s, k, n)' = Initially(s, k, n)
  BY GameKept
<1>4. slot \in Slot /\ \A s \in Slot : s \in Nat
  BY <1>1, SlotAssumption DEF TypeOK, Slot
<1>5. ASSUME NEW b \in pending, InitializeBlock(b)
      PROVE  Prepared'
  <2>1. /\ UNCHANGED <<ply, phase, slot, maxWin, maxLoss, previous, found>>
        /\ pending' = pending \ {b}
        /\ val' = [p \in Pos |-> IF Block(p) = b THEN InitialValue(p) ELSE val[p]]
    BY <1>5 DEF InitializeBlock
  <2>2. ASSUME NEW p \in Pos,
               \/ SlotOf[p] < slot
               \/ SlotOf[p] = slot /\ Block(p) \notin pending'
        PROVE  val'[p] = InitialValue(p)
    BY <1>2, <2>1, <2>2 DEF Prepared
  <2>3. QED
    BY <1>2, <1>3, <2>1, <2>2 DEF Prepared, Block
<1>6. CASE FinishInitialize
  <2>1. /\ pending = {} /\ slot' = slot + 1 /\ pending' = BlocksOf(slot + 1)
        /\ slot < NSlots - 1 /\ UNCHANGED <<ply, phase, val, maxWin, maxLoss>>
    BY <1>6 DEF FinishInitialize
  <2>2. /\ found' = [found EXCEPT ![slot] =
                       [wins |-> Initially(slot, "win", 1),
                        losses |-> Initially(slot, "loss", 1)]]
        /\ previous' = [previous EXCEPT ![slot] =
                          [previous[slot] EXCEPT !.losses = Initially(slot, "loss", 0)]]
    BY <1>6 DEF FinishInitialize
  <2>3. ASSUME NEW p \in Pos,
               \/ SlotOf[p] < slot'
               \/ SlotOf[p] = slot' /\ Block(p) \notin pending'
        PROVE  val'[p] = InitialValue(p)
    <3>1. SlotOf[p] \in Nat
      BY <1>4, SlotAssumption
    <3>2. SlotOf[p] # slot'
      BY <2>1, <2>3, <3>1, BlockSlot
    <3>3. SlotOf[p] < slot \/ SlotOf[p] = slot
      BY <1>4, <2>1, <2>3, <3>1, <3>2
    <3>4. QED
      BY <1>2, <2>1, <3>3 DEF Prepared
  <2>4. ASSUME NEW s \in Slot
        PROVE  previous'[s].wins = 0
    <3>1. previous \in [Slot -> [wins : Nat, losses : Nat]] /\ previous[s].wins = 0
      BY <1>1, <1>2 DEF TypeOK, Prepared
    <3>2. CASE s = slot
      BY <1>4, <2>2, <3>1, <3>2
    <3>3. CASE s # slot
      BY <1>4, <2>2, <3>1, <3>3
    <3>4. QED
      BY <3>2, <3>3
  <2>5. ASSUME NEW s \in Slot, s < slot'
        PROVE  /\ found'[s].wins = Initially(s, "win", 1)
               /\ found'[s].losses = Initially(s, "loss", 1)
               /\ previous'[s].losses = Initially(s, "loss", 0)
    <3>1. /\ found \in [Slot -> [wins : Nat, losses : Nat]]
          /\ previous \in [Slot -> [wins : Nat, losses : Nat]]
      BY <1>1 DEF TypeOK
    <3>2. CASE s = slot
      BY <1>4, <2>2, <3>1, <3>2
    <3>3. CASE s # slot
      <4>1. s < slot
        BY <1>4, <2>1, <2>5, <3>3
      <4>2. found'[s] = found[s] /\ previous'[s] = previous[s]
        BY <2>2, <3>1, <3>3
      <4>3. QED
        BY <1>2, <4>1, <4>2 DEF Prepared
    <3>4. QED
      BY <3>2, <3>3
  <2>6. QED
    BY <1>2, <1>3, <2>1, <2>3, <2>4, <2>5 DEF Prepared, Block
<1>7. CASE UNCHANGED vars
  BY <1>2, <1>3, <1>7 DEF Prepared, vars, Block
<1>8. QED
  BY <1>2, <1>5, <1>6, <1>7
  DEF Next, SolverStep, Returned, InitializeFails, SkipScan, BeginScan,
      FinishScan, EndPly

\* The loop over the tables starts over before a ply ends.
LEMMA EndsStep ==
  SolverInv /\ EndsAtFirst /\ [Next]_vars => EndsAtFirst'
<1> SUFFICES ASSUME SolverInv, EndsAtFirst, [Next]_vars, stage' = "endply"
             PROVE  slot' = 0
  BY DEF EndsAtFirst
<1> USE DEF solverVars
<1>1. \A w \in Worker : WorkerStep(w) => stage = "scan" /\ stage' = stage
  BY WorkersScan DEF SolverInv
<1>2. QED
  BY <1>1
  DEF EndsAtFirst, Next, SolverStep, Returned, InitializeBlock, InitializeFails,
      FinishInitialize, SkipScan, BeginScan, FinishScan, EndPly, Advance, vars

\* A block's updates are for cells of the twin's table, because quiet moves
\* lead from one table to the other.
LEMMA UpdatesTable ==
  ASSUME TypeOK, NEW b \in BlocksOf(slot), NEW u \in Updates(b)
  PROVE  SlotOf[u.src] = slot /\ SlotOf[u.pred] = Twin(slot)
<1>1. PICK m \in game.quiet : u.pred = m.from /\ u.src = m.to /\ Block(m.to) = b
  BY DEF Updates
<1>2. /\ m.from \in Pos /\ m.to \in Pos
      /\ SlotOf[m.to] = Twin(SlotOf[m.from])
  BY GamesAssumption DEF TypeOK, Game, QuietMove
<1>3. SlotOf[m.to] = slot
  BY <1>1, <1>2, BlockSlot
<1>4. SlotOf[m.from] \in Slot
  BY <1>2, SlotAssumption
<1>5. QED
  BY <1>1, <1>2, <1>3, <1>4, TwinTwice

\* Scans stay within their tables.
LEMMA WithinStep ==
  SolverInv /\ WithinTables /\ [Next]_vars => WithinTables'
<1> SUFFICES ASSUME SolverInv, WithinTables, [Next]_vars, stage' = "scan"
             PROVE  /\ pending' \subseteq BlocksOf(slot')
                    /\ \A w \in Worker :
                         /\ \A u \in todo'[w] : SlotOf[u.pred] = Twin(slot')
                         /\ pc'[w] # "idle" => SlotOf[cur'[w].pred] = Twin(slot')
  BY DEF WithinTables, BlocksOf, Block, Twin
<1> USE DEF solverVars, workerVars
<1>1. TypeOK /\ WorkersJoined
  BY DEF SolverInv
<1>2. CASE BeginScan
  <2>1. /\ pending' = BlocksWith(phase, ply - 1) /\ stage = "next"
        /\ UNCHANGED <<slot, pc, todo>>
    BY <1>2 DEF BeginScan
  <2>2. pending' \subseteq BlocksOf(slot')
    BY <2>1 DEF BlocksWith
  <2>3. QED
    BY <1>1, <2>1, <2>2 DEF WorkersJoined
<1>3. ASSUME stage = "scan", UNCHANGED <<slot, stage>>,
             NEW w \in Worker, WorkerStep(w)
      PROVE  /\ pending' \subseteq BlocksOf(slot')
             /\ \A x \in Worker :
                  /\ \A u \in todo'[x] : SlotOf[u.pred] = Twin(slot')
                  /\ pc'[x] # "idle" => SlotOf[cur'[x].pred] = Twin(slot')
  <2>1. CASE TakeBlock(w)
    <3>1. PICK b \in pending : /\ pending' = pending \ {b}
                               /\ todo' = [todo EXCEPT ![w] = Updates(b)]
      BY <2>1 DEF TakeBlock
    <3>2. \A u \in Updates(b) : SlotOf[u.pred] = Twin(slot)
      BY <1>1, <1>3, UpdatesTable DEF WithinTables
    <3>3. UNCHANGED <<pc, cur>>
      BY <2>1 DEF TakeBlock
    <3>4. \A x \in Worker : todo'[x] = todo[x] \/ todo'[x] = Updates(b)
      BY <1>1, <3>1 DEF TypeOK
    <3>5. QED
      BY <1>3, <3>1, <3>2, <3>3, <3>4 DEF WithinTables
  <2>2. CASE LoadCell(w)
    <3>1. PICK u \in todo[w] : /\ todo' = [todo EXCEPT ![w] = @ \ {u}]
                               /\ cur' = [cur EXCEPT ![w] = u]
      BY <2>2 DEF LoadCell
    <3>2. /\ \A x \in Worker : todo'[x] \subseteq todo[x]
          /\ \A x \in Worker : cur'[x] = cur[x] \/ cur'[x] = u
          /\ \A x \in Worker : x # w => pc'[x] = pc[x] /\ cur'[x] = cur[x]
          /\ cur'[w] = u /\ pending' = pending
      BY <1>1, <2>2, <3>1 DEF TypeOK, LoadCell
    <3>3. QED
      BY <1>3, <3>2 DEF WithinTables
  <2>3. CASE RetryCell(w)
    BY <1>3, <2>3 DEF WithinTables, RetryCell
  <2>4. CASE LeaveCell(w) \/ ExchangeCell(w) \/ RecordCell(w)
    <3>1. /\ pending' = pending /\ todo' = todo
          /\ \A x \in Worker : /\ pc'[x] # "idle" => pc[x] # "idle"
                               /\ pc'[x] # "idle" => cur'[x] = cur[x]
      BY <1>1, <2>4 DEF LeaveCell, ExchangeCell, RecordCell, Idle, TypeOK
    <3>2. QED
      BY <1>3, <3>1 DEF WithinTables
  <2>5. QED
    BY <1>3, <2>1, <2>2, <2>3, <2>4 DEF WorkerStep
<1>4. CASE UNCHANGED vars
  BY <1>4 DEF vars, WithinTables
<1>5. \A w \in Worker : WorkerStep(w) => stage = "scan" /\ UNCHANGED <<slot, stage>>
  BY <1>1, WorkersScan
<1>6. QED
  BY <1>2, <1>3, <1>4, <1>5
  DEF Next, SolverStep, Returned, InitializeBlock, InitializeFails,
      FinishInitialize, SkipScan, FinishScan, EndPly, Advance

-------------------------------------------------------------------------------
(* Counting cells.                                                          *)

\* The positions of a table where f has a value of a kind and distance.
At(f, s, kind, n) == {p \in Pos : SlotOf[p] = s /\ f[p].kind = kind /\ f[p].n = n}

\* Such a set is finite, and empty when its count is zero.
LEMMA AtFinite ==
  ASSUME NEW f, NEW s, NEW kind, NEW n
  PROVE  /\ IsFiniteSet(At(f, s, kind, n))
         /\ Cardinality(At(f, s, kind, n)) \in Nat
         /\ Cardinality(At(f, s, kind, n)) = 0 <=> At(f, s, kind, n) = {}
<1>1. At(f, s, kind, n) \in SUBSET Pos
  BY DEF At
<1>2. IsFiniteSet(At(f, s, kind, n))
  BY <1>1, PosAssumption, FS_Subset
<1>3. QED
  BY <1>2, FS_CardinalityType, FS_EmptySet

\* A cell that gets a value of the kind and distance counts once more.
LEMMA AtGains ==
  ASSUME NEW f, NEW g, NEW p \in Pos, NEW kind, NEW n,
         \A q \in Pos : q # p => g[q] = f[q],
         f[p].kind # kind, g[p].kind = kind, g[p].n = n
  PROVE  Cardinality(At(g, SlotOf[p], kind, n)) =
           Cardinality(At(f, SlotOf[p], kind, n)) + 1
<1> DEFINE S == At(f, SlotOf[p], kind, n)
<1>1. p \notin S
  BY DEF At
<1>2. At(g, SlotOf[p], kind, n) = S \cup {p}
  BY DEF At
<1>3. IsFiniteSet(S)
  BY AtFinite
<1> HIDE DEF S
<1>4. Cardinality(S \cup {p}) = Cardinality(S) + 1
  BY <1>1, <1>3, FS_AddElement
<1>5. QED
  BY <1>2, <1>4 DEF S

\* A cell of another table, or one that has the kind and distance neither
\* before nor after, or both before and after, leaves the set as it is.
LEMMA AtKeeps ==
  ASSUME NEW f, NEW g, NEW s, NEW kind, NEW n,
         \A q \in Pos : SlotOf[q] = s =>
           ((f[q].kind = kind /\ f[q].n = n) <=> (g[q].kind = kind /\ g[q].n = n))
  PROVE  At(g, s, kind, n) = At(f, s, kind, n)
BY DEF At

\* The counts of a ply, and of the ply before, are the counts of its cells.
CountsAgree(f, now, before, n) ==
  \A s \in Slot :
    /\ now[s].wins = Cardinality(At(f, s, "win", n))
    /\ now[s].losses = Cardinality(At(f, s, "loss", n))
    /\ before[s].wins = Cardinality(At(f, s, "win", n - 1))
    /\ before[s].losses = Cardinality(At(f, s, "loss", n - 1))

\* The counts of the loop agree with the cells.
LEMMA CountsRestated ==
  PlyCountsExact <=> (stage \in {"next", "scan", "endply"} =>
                        CountsAgree(val, found, previous, ply))
BY DEF PlyCountsExact, CountsAgree, ResolvedAt, At

\* An exchange is counted when, and as, it resolves a cell of the twin's table.
LEMMA ExchangeCounts ==
  ASSUME SolverInv, WithinTables, NEW w \in Worker, ExchangeCell(w),
         CountsAgree(val, found, previous, ply)
  PROVE  CountsAgree(val', found', previous', ply')
<1> DEFINE p == cur[w].pred
           new == NewValue(raw[w], cur[w].ct)
           t == Twin(slot)
<1> USE DEF solverVars
<1>1. TypeOK /\ CellsWellFormed /\ WorkersJoined
  BY DEF SolverInv
<1>2. pc[w] = "cas" /\ Changes(raw[w], cur[w].ct)
  BY DEF ExchangeCell
<1>3. new \in Value
  BY <1>1, <1>2, NewValueType
<1>4. val \in [Pos -> Value] /\ ply \in Nat /\ ply - 1 # ply
      /\ found \in [Slot -> [wins : Nat, losses : Nat]]
  BY <1>1 DEF TypeOK
<1> HIDE DEF new, p, t
<1>5. /\ p \in Pos /\ SlotOf[p] = t /\ t \in Slot
      /\ val' = [val EXCEPT ![p] = new]
      /\ UNCHANGED <<previous, ply>>
      /\ \/ IsUnknown(val[p]) /\ IsUnknown(new) /\ found' = found
         \/ /\ IsUnknown(val[p]) /\ IsWin(new) /\ new.n = ply
            /\ found' = [found EXCEPT ![t].wins = @ + 1]
         \/ /\ IsUnknown(val[p]) /\ IsLoss(new) /\ new.n = ply
            /\ found' = [found EXCEPT ![t].losses = @ + 1]
         \/ /\ IsWin(val[p]) /\ val[p].n = ply /\ IsWin(new) /\ new.n = ply
            /\ found' = found
  BY <1>1, ExchangeEffect DEF p, new, t
<1>a. ASSUME NEW s, NEW kind, NEW n,
             \/ t # s
             \/ (val[p].kind = kind /\ val[p].n = n) <=> (new.kind = kind /\ new.n = n)
      PROVE  At(val', s, kind, n) = At(val, s, kind, n)
  <2>1. \A q \in Pos : SlotOf[q] = s =>
          ((val[q].kind = kind /\ val[q].n = n) <=> (val'[q].kind = kind /\ val'[q].n = n))
    BY <1>4, <1>5, <1>a
  <2>2. QED
    BY <2>1, AtKeeps
<1>b. ASSUME NEW kind, NEW n, val[p].kind # kind, new.kind = kind, new.n = n
      PROVE  Cardinality(At(val', t, kind, n)) = Cardinality(At(val, t, kind, n)) + 1
  <2>1. p \in Pos /\ val'[p] = new /\ \A q \in Pos : q # p => val'[q] = val[q]
    BY <1>4, <1>5
  <2>2. Cardinality(At(val', SlotOf[p], kind, n)) =
          Cardinality(At(val, SlotOf[p], kind, n)) + 1
    BY <1>b, <2>1, AtGains
  <2>3. QED
    BY <1>5, <2>2
<1>6. \A s \in Slot : /\ At(val', s, "win", ply - 1) = At(val, s, "win", ply - 1)
                      /\ At(val', s, "loss", ply - 1) = At(val, s, "loss", ply - 1)
  <2>1. \A kind \in {"win", "loss"} :
          (val[p].kind = kind /\ val[p].n = ply - 1)
            <=> (new.kind = kind /\ new.n = ply - 1)
    BY <1>4, <1>5 DEF IsUnknown, IsWin, IsLoss
  <2>2. QED
    BY <1>a, <2>1
<1>7. ASSUME NEW s \in Slot
      PROVE  /\ found'[s].wins = Cardinality(At(val', s, "win", ply))
             /\ found'[s].losses = Cardinality(At(val', s, "loss", ply))
  <2>1. /\ found[s].wins = Cardinality(At(val, s, "win", ply))
        /\ found[s].losses = Cardinality(At(val, s, "loss", ply))
    BY DEF CountsAgree
  <2>2. CASE s # t
    <3>1. found'[s] = found[s]
      BY <1>4, <1>5, <2>2
    <3>2. /\ At(val', s, "win", ply) = At(val, s, "win", ply)
          /\ At(val', s, "loss", ply) = At(val, s, "loss", ply)
      BY <1>a, <2>2
    <3>3. QED
      BY <2>1, <3>1, <3>2
  <2>3. CASE s = t /\ found' = found
    <3>1. /\ (val[p].kind = "win" /\ val[p].n = ply) <=> (new.kind = "win" /\ new.n = ply)
          /\ (val[p].kind = "loss" /\ val[p].n = ply) <=> (new.kind = "loss" /\ new.n = ply)
      <4>1. CASE IsUnknown(val[p]) /\ IsUnknown(new)
        BY <4>1 DEF IsUnknown
      <4>2. CASE IsWin(val[p]) /\ val[p].n = ply /\ IsWin(new) /\ new.n = ply
        BY <4>2 DEF IsWin
      <4>3. ASSUME found' = [found EXCEPT ![t].wins = @ + 1]
            PROVE  FALSE
        <5>1. found[t].wins = found[t].wins + 1 /\ found[t].wins \in Nat
          BY <1>4, <1>5, <2>3, <4>3
        <5>2. QED
          BY <5>1
      <4>4. ASSUME found' = [found EXCEPT ![t].losses = @ + 1]
            PROVE  FALSE
        <5>1. found[t].losses = found[t].losses + 1 /\ found[t].losses \in Nat
          BY <1>4, <1>5, <2>3, <4>4
        <5>2. QED
          BY <5>1
      <4>5. QED
        BY <1>5, <4>1, <4>2, <4>3, <4>4
    <3>2. /\ At(val', s, "win", ply) = At(val, s, "win", ply)
          /\ At(val', s, "loss", ply) = At(val, s, "loss", ply)
      BY <1>a, <3>1
    <3>3. QED
      BY <2>1, <2>3, <3>2
  <2>4. CASE s = t /\ /\ IsUnknown(val[p]) /\ IsWin(new) /\ new.n = ply
                      /\ found' = [found EXCEPT ![t].wins = @ + 1]
    <3>1. found'[s].wins = found[s].wins + 1 /\ found'[s].losses = found[s].losses
      BY <1>4, <2>4
    <3>2. Cardinality(At(val', s, "win", ply)) = Cardinality(At(val, s, "win", ply)) + 1
      <4>1. val[p].kind # new.kind /\ new.kind = "win"
        BY <2>4 DEF IsUnknown, IsWin
      <4>2. QED
        BY <1>b, <2>4, <4>1
    <3>3. At(val', s, "loss", ply) = At(val, s, "loss", ply)
      BY <1>a, <2>4 DEF IsUnknown, IsWin
    <3>4. QED
      BY <2>1, <3>1, <3>2, <3>3
  <2>5. CASE s = t /\ /\ IsUnknown(val[p]) /\ IsLoss(new) /\ new.n = ply
                      /\ found' = [found EXCEPT ![t].losses = @ + 1]
    <3>1. found'[s].losses = found[s].losses + 1 /\ found'[s].wins = found[s].wins
      BY <1>4, <2>5
    <3>2. Cardinality(At(val', s, "loss", ply)) = Cardinality(At(val, s, "loss", ply)) + 1
      <4>1. val[p].kind # new.kind /\ new.kind = "loss"
        BY <2>5 DEF IsUnknown, IsLoss
      <4>2. QED
        BY <1>b, <2>5, <4>1
    <3>3. At(val', s, "win", ply) = At(val, s, "win", ply)
      BY <1>a, <2>5 DEF IsUnknown, IsLoss
    <3>4. QED
      BY <2>1, <3>1, <3>2, <3>3
  <2>6. QED
    BY <1>5, <2>2, <2>3, <2>4, <2>5
<1>8. QED
  BY <1>5, <1>6, <1>7 DEF CountsAgree

\* When the last table is initialised, every cell has its initial value.
LEMMA AllPrepared ==
  ASSUME SolverInv, Prepared, FinishInitialize, stage' # "init"
  PROVE  /\ stage = "init" /\ stage' = "next" /\ ply = 1
         /\ phase' = "Loss" /\ slot' = 0 /\ pending = {}
         /\ UNCHANGED <<val, ply, maxWin, maxLoss>>
         /\ \A p \in Pos : val[p] = InitialValue(p)
         /\ \A s \in Slot :
              /\ maxWin[s] = 0 /\ maxLoss[s] = 0
              /\ found'[s].wins = Initially(s, "win", 1)
              /\ found'[s].losses = Initially(s, "loss", 1)
              /\ previous'[s].wins = 0
              /\ previous'[s].losses = Initially(s, "loss", 0)
<1>1. /\ stage = "init" /\ stage' = "next" /\ pending = {} /\ ~ (slot < NSlots - 1)
      /\ phase' = phase /\ slot' = 0
      /\ UNCHANGED <<val, ply, maxWin, maxLoss>>
      /\ found' = [found EXCEPT ![slot] = [wins |-> Initially(slot, "win", 1),
                                           losses |-> Initially(slot, "loss", 1)]]
      /\ previous' = [previous EXCEPT ![slot] =
                        [previous[slot] EXCEPT !.losses = Initially(slot, "loss", 0)]]
  BY DEF FinishInitialize
<1>2. TypeOK
  BY DEF SolverInv
<1>3. slot \in Slot /\ \A s \in Slot : s = slot \/ s < slot
  <2>1. slot \in Slot /\ ~ (slot < NSlots - 1)
    BY <1>1, <1>2 DEF TypeOK
  <2> QED
    BY <2>1, SlotAssumption DEF Slot
<1>4. \A p \in Pos : val[p] = InitialValue(p)
  <2>1. \A p \in Pos : SlotOf[p] = slot \/ SlotOf[p] < slot
    BY <1>3, SlotAssumption
  <2>2. QED
    BY <1>1, <2>1 DEF Prepared
<1>5. ASSUME NEW s \in Slot
      PROVE  /\ maxWin[s] = 0 /\ maxLoss[s] = 0
             /\ found'[s].wins = Initially(s, "win", 1)
             /\ found'[s].losses = Initially(s, "loss", 1)
             /\ previous'[s].wins = 0
             /\ previous'[s].losses = Initially(s, "loss", 0)
  <2>1. maxWin[s] = 0 /\ maxLoss[s] = 0 /\ previous[s].wins = 0
    BY <1>1 DEF Prepared
  <2>2. /\ found \in [Slot -> [wins : Nat, losses : Nat]]
        /\ previous \in [Slot -> [wins : Nat, losses : Nat]]
    BY <1>2 DEF TypeOK
  <2>3. CASE s = slot
    BY <1>1, <2>1, <2>2, <2>3
  <2>4. CASE s # slot
    <3>1. found'[s] = found[s] /\ previous'[s] = previous[s]
      BY <1>1, <2>2, <2>4
    <3>2. s < slot
      BY <1>3, <2>4
    <3>3. QED
      BY <1>1, <2>1, <3>1, <3>2 DEF Prepared
  <2>5. QED
    BY <2>3, <2>4
<1>6. ply = 1 /\ phase = "Loss"
  BY <1>1 DEF Prepared
<1>7. QED
  BY <1>1, <1>4, <1>5, <1>6

\* A step outside initialisation that is neither the end of a ply nor an
\* exchange leaves the cells, their counts and the maxima alone.
LEMMA LoopStep ==
  ASSUME SolverInv, [Next]_vars, stage' \notin {"init", "failed"},
         ~ FinishInitialize, ~ EndPly, ~ \E w \in Worker : ExchangeCell(w)
  PROVE  /\ UNCHANGED <<val, found, previous, ply, maxWin, maxLoss>>
         /\ stage' = stage \/ {stage, stage'} \subseteq {"next", "scan", "endply"}
<1> USE DEF solverVars, workerVars
<1>1. Advance => stage' \in {"next", "endply"}
  BY DEF Advance
<1>2. CASE \E w \in Worker : WorkerStep(w)
  BY <1>2 DEF WorkerStep, TakeBlock, LoadCell, LeaveCell, RetryCell, RecordCell
<1>3. CASE SolverStep
  BY <1>1, <1>3
  DEF SolverStep, InitializeBlock, InitializeFails, SkipScan, BeginScan,
      FinishScan
<1>4. CASE UNCHANGED vars
  BY <1>4 DEF vars
<1>5. QED
  BY <1>2, <1>3, <1>4 DEF Next, Returned

\* Initialisation returns the counts of ply 1, the end of a ply those of the
\* ply just ended, and nothing lies beyond the ply in progress.
LEMMA PlyCountsStep ==
  SolverInv /\ Prepared /\ WithinTables /\ PlyCountsExact /\ [Next]_vars
    => PlyCountsExact'
<1> SUFFICES ASSUME SolverInv, Prepared, WithinTables, PlyCountsExact,
                    [Next]_vars, stage' \in {"next", "scan", "endply"}
             PROVE  CountsAgree(val', found', previous', ply')
  BY DEF PlyCountsExact, CountsAgree, ResolvedAt, At
<1>1. TypeOK /\ CellsWellFormed
  BY DEF SolverInv
<1>2. stage \in {"next", "scan", "endply"} => CountsAgree(val, found, previous, ply)
  BY CountsRestated
<1>3. CASE FinishInitialize
  <2>1. /\ ply = 1 /\ UNCHANGED <<val, ply>>
        /\ \A p \in Pos : val[p] = InitialValue(p)
        /\ \A s \in Slot : /\ found'[s].wins = Initially(s, "win", 1)
                           /\ found'[s].losses = Initially(s, "loss", 1)
                           /\ previous'[s].wins = 0
                           /\ previous'[s].losses = Initially(s, "loss", 0)
    BY <1>3, AllPrepared
  <2>2. \A s, kind, n : Initially(s, kind, n) = Cardinality(At(val, s, kind, n))
    <3>1. \A s, kind, n :
            At(val, s, kind, n) = {p \in Pos : /\ SlotOf[p] = s
                                               /\ InitialValue(p).kind = kind
                                               /\ InitialValue(p).n = n}
      BY <2>1 DEF At
    <3>2. QED
      BY <3>1 DEF Initially
  <2>3. \A s \in Slot : Cardinality(At(val, s, "win", 0)) = 0
    <3>1. \A s \in Slot : At(val, s, "win", 0) = {}
      BY <2>1, InitialWins DEF At, IsWin
    <3>2. QED
      BY <3>1, AtFinite
  <2>4. QED
    BY <2>1, <2>2, <2>3 DEF CountsAgree
<1>4. CASE EndPly
  <2>1. /\ stage = "endply" /\ val' = val /\ ply' = ply + 1
        /\ previous' = found /\ found' = NoneFound
    BY <1>4 DEF EndPly
  <2>2. ply \in Nat /\ ply' - 1 = ply
    BY <1>1, <2>1 DEF TypeOK
  <2>3. \A s \in Slot : /\ Cardinality(At(val, s, "win", ply + 1)) = 0
                        /\ Cardinality(At(val, s, "loss", ply + 1)) = 0
    <3>1. \A p \in Pos : IsResolved(val[p]) => val[p].n # ply + 1
      BY <1>1, <2>2 DEF CellsWellFormed, TypeOK, Value
    <3>2. \A s \in Slot : At(val, s, "win", ply + 1) = {} /\ At(val, s, "loss", ply + 1) = {}
      BY <3>1 DEF At, IsResolved, IsWin, IsLoss
    <3>3. QED
      BY <3>2, AtFinite
  <2>4. QED
    BY <1>2, <2>1, <2>2, <2>3 DEF CountsAgree, NoneFound
<1>5. ASSUME NEW w \in Worker, ExchangeCell(w)
      PROVE  CountsAgree(val', found', previous', ply')
  <2>1. stage = "scan"
    BY <1>5, WorkersScan DEF SolverInv, WorkerStep
  <2>2. QED
    BY <1>2, <1>5, <2>1, ExchangeCounts
<1>6. CASE ~ FinishInitialize /\ ~ EndPly /\ ~ \E w \in Worker : ExchangeCell(w)
  <2>1. /\ UNCHANGED <<val, found, previous, ply>>
        /\ stage \in {"next", "scan", "endply"}
    BY <1>6, LoopStep
  <2>2. QED
    BY <1>2, <2>1
<1>7. QED
  BY <1>3, <1>4, <1>5, <1>6

\* The maxima grow at the end of a ply that resolved something, to that ply.
LEMMA MaximaStep ==
  SolverInv /\ CountInv /\ [Next]_vars => MaximaSoFar'
<1> SUFFICES ASSUME SolverInv, CountInv, [Next]_vars,
                    stage' \notin {"init", "failed"}, NEW s \in Slot
             PROVE  (Longest(maxWin[s], s, "win") /\ Longest(maxLoss[s], s, "loss"))'
  BY DEF MaximaSoFar
<1>1. TypeOK /\ CellsWellFormed /\ WorkersJoined
  BY DEF SolverInv
<1>2. stage \notin {"init", "failed"} =>
        Longest(maxWin[s], s, "win") /\ Longest(maxLoss[s], s, "loss")
  BY DEF CountInv, MaximaSoFar
<1>3. CASE FinishInitialize
  <2>1. /\ stage' = "next" /\ ply = 1 /\ UNCHANGED <<val, ply, maxWin, maxLoss>>
        /\ \A p \in Pos : val[p] = InitialValue(p)
        /\ maxWin[s] = 0 /\ maxLoss[s] = 0
    BY <1>3, AllPrepared DEF CountInv
  <2>2. \A p \in Pos : /\ val[p].kind = "win" => val[p].n = 1
                       /\ val[p].n \in Nat
    BY <1>1, <2>1, InitialWins DEF IsWin, TypeOK, Value
  <2>3. /\ Settled(s, "win")' = {}
        /\ \A p \in Settled(s, "loss")' : val[p].n = 0
    BY <2>1, <2>2 DEF Settled
  <2>4. QED
    BY <2>1, <2>3 DEF Longest
<1>4. CASE EndPly
  <2>1. /\ stage = "endply" /\ val' = val /\ stage' \in {"solved", "next"}
        /\ stage' = "next" => ply' = ply + 1
        /\ maxWin'[s] = IF found[s].wins > 0 THEN ply ELSE maxWin[s]
        /\ maxLoss'[s] = IF found[s].losses > 0 THEN ply ELSE maxLoss[s]
    BY <1>4 DEF EndPly
  <2>2. ply \in Nat /\ \A p \in Pos : val[p].n \in Nat
    BY <1>1 DEF TypeOK, Value
  <2>3. ASSUME NEW kind \in {"win", "loss"}
        PROVE  /\ Settled(s, kind)' = Settled(s, kind) \cup At(val, s, kind, ply)
               /\ \A p \in Settled(s, kind) : val[p].n < ply
    <3>1. \A p \in Pos : val[p].kind = kind => val[p].n <= ply
      BY <1>1 DEF CellsWellFormed, IsResolved, IsWin, IsLoss
    <3>2. QED
      BY <2>1, <2>2, <3>1 DEF Settled, At
  <2>4. /\ found[s].wins = Cardinality(At(val, s, "win", ply))
        /\ found[s].losses = Cardinality(At(val, s, "loss", ply))
    BY <2>1, CountsRestated DEF CountInv, CountsAgree
  <2>5. ASSUME NEW kind \in {"win", "loss"}, NEW m, NEW n, NEW c,
               Longest(m, s, kind), c = Cardinality(At(val, s, kind, ply)),
               n = IF c > 0 THEN ply ELSE m
        PROVE  /\ \A p \in Settled(s, kind)' : val[p].n <= n
               /\ n > 0 => \E p \in Settled(s, kind)' : val[p].n = n
    <3>1. c \in Nat /\ (c = 0 <=> At(val, s, kind, ply) = {})
      BY <2>5, AtFinite
    <3>2. \A p \in At(val, s, kind, ply) : val[p].n = ply
      BY DEF At
    <3>3. CASE c > 0
      <4>1. n = ply /\ At(val, s, kind, ply) # {}
        BY <2>5, <3>1, <3>3
      <4>2. Settled(s, kind)' = Settled(s, kind) \cup At(val, s, kind, ply)
        BY <2>3
      <4>3. ASSUME NEW p \in Settled(s, kind)'
            PROVE  val[p].n <= ply
        <5>1. CASE p \in At(val, s, kind, ply)
          BY <2>2, <3>2, <5>1
        <5>2. CASE p \in Settled(s, kind)
          <6>1. p \in Pos /\ val[p].n < ply
            BY <2>3, <5>2 DEF Settled
          <6>2. QED
            BY <2>2, <6>1
        <5>3. QED
          BY <4>2, <4>3, <5>1, <5>2
      <4>4. \E p \in Settled(s, kind)' : val[p].n = ply
        BY <3>2, <4>1, <4>2
      <4>5. QED
        BY <4>1, <4>3, <4>4
    <3>4. CASE ~ (c > 0)
      <4>1. n = m /\ At(val, s, kind, ply) = {}
        BY <2>5, <3>1, <3>4
      <4>2. Settled(s, kind)' = Settled(s, kind)
        BY <2>3, <4>1
      <4>3. QED
        BY <2>5, <4>1, <4>2 DEF Longest
    <3>5. QED
      BY <3>3, <3>4
  <2>6. /\ \A p \in Settled(s, "win")' : val[p].n <= maxWin'[s]
        /\ maxWin'[s] > 0 => \E p \in Settled(s, "win")' : val[p].n = maxWin'[s]
    BY <1>2, <2>1, <2>4, <2>5
  <2>7. /\ \A p \in Settled(s, "loss")' : val[p].n <= maxLoss'[s]
        /\ maxLoss'[s] > 0 => \E p \in Settled(s, "loss")' : val[p].n = maxLoss'[s]
    BY <1>2, <2>1, <2>4, <2>5
  <2>8. QED
    BY <2>1, <2>6, <2>7 DEF Longest
<1>5. ASSUME NEW w \in Worker, ExchangeCell(w)
      PROVE  (Longest(maxWin[s], s, "win") /\ Longest(maxLoss[s], s, "loss"))'
  <2> DEFINE p == cur[w].pred
             new == NewValue(raw[w], cur[w].ct)
  <2>1. /\ p \in Pos /\ stage = "scan" /\ val' = [val EXCEPT ![p] = new]
        /\ UNCHANGED <<stage, ply, maxWin, maxLoss>>
        /\ \/ IsUnknown(val[p]) /\ IsUnknown(new)
           \/ IsUnknown(val[p]) /\ new.n = ply
           \/ val[p].n = ply /\ new.n = ply
    BY <1>1, <1>5, ExchangeEffect DEF CountInv, solverVars
  <2> HIDE DEF p, new
  <2>2. val \in [Pos -> Value] /\ ply \in Nat
    BY <1>1 DEF TypeOK
  <2>3. ASSUME NEW kind \in {"win", "loss"}
        PROVE  /\ Settled(s, kind)' = Settled(s, kind)
               /\ \A q \in Settled(s, kind) : val'[q] = val[q]
    <3>1. p \notin Settled(s, kind)
      BY <2>1, <2>2 DEF Settled, IsUnknown
    <3>2. p \notin Settled(s, kind)'
      BY <2>1, <2>2 DEF Settled, IsUnknown
    <3>3. \A q \in Pos : q # p => val'[q] = val[q]
      BY <2>1, <2>2
    <3>4. \A q \in Pos : q \in Settled(s, kind)' <=> q \in Settled(s, kind)
      BY <2>1, <3>1, <3>2, <3>3 DEF Settled
    <3>5. Settled(s, kind) \subseteq Pos /\ Settled(s, kind)' \subseteq Pos
      BY DEF Settled
    <3>6. QED
      BY <3>1, <3>3, <3>4, <3>5
  <2>4. Longest(maxWin[s], s, "win")'
    BY <1>2, <2>1, <2>3 DEF Longest
  <2>5. Longest(maxLoss[s], s, "loss")'
    BY <1>2, <2>1, <2>3 DEF Longest
  <2>6. QED
    BY <2>4, <2>5
<1>6. CASE ~ FinishInitialize /\ ~ EndPly /\ ~ \E w \in Worker : ExchangeCell(w)
  <2>1. /\ UNCHANGED <<val, ply, maxWin, maxLoss>>
        /\ stage' = stage \/ {stage, stage'} \subseteq {"next", "scan", "endply"}
    BY <1>6, LoopStep
  <2>2. stage \notin {"init", "failed"} /\ (stage' = "solved" <=> stage = "solved")
    BY <2>1
  <2>3. \A kind : Settled(s, kind)' = Settled(s, kind)
    BY <2>1, <2>2 DEF Settled
  <2>4. QED
    BY <1>2, <2>1, <2>2, <2>3 DEF Longest
<1>7. QED
  BY <1>3, <1>4, <1>5, <1>6

-------------------------------------------------------------------------------
(* Updates on their way.                                                    *)

\* What each step of a worker does to what the workers hold.
LEMMA HandStep ==
  ASSUME TypeOK, NEW w \in Worker
  PROVE  /\ \A b : /\ pc[w] = "idle" /\ pc' = pc /\ cur' = cur
                   /\ todo' = [todo EXCEPT ![w] = Updates(b)]
                   => /\ Hand(w)' = Updates(b)
                      /\ \A x \in Worker : x # w => Hand(x)' = Hand(x)
         /\ LoadCell(w) => \A x \in Worker : Hand(x)' = Hand(x)
         /\ RetryCell(w) => \A x \in Worker : Hand(x)' = Hand(x)
         /\ RecordCell(w) => \A x \in Worker : Hand(x)' = Hand(x)
         /\ LeaveCell(w) \/ ExchangeCell(w) =>
              /\ Hand(w)' = todo[w]
              /\ \A x \in Worker : x # w => Hand(x)' = Hand(x)
<1>1. ASSUME NEW b, pc[w] = "idle", pc' = pc, cur' = cur,
             todo' = [todo EXCEPT ![w] = Updates(b)]
      PROVE  /\ Hand(w)' = Updates(b)
             /\ \A x \in Worker : x # w => Hand(x)' = Hand(x)
  BY <1>1 DEF Hand, TypeOK
<1>2. ASSUME LoadCell(w)
      PROVE  \A x \in Worker : Hand(x)' = Hand(x)
  <2>1. PICK u \in todo[w] : /\ todo' = [todo EXCEPT ![w] = @ \ {u}]
                             /\ cur' = [cur EXCEPT ![w] = u]
                             /\ pc' = [pc EXCEPT ![w] = "cas"]
    BY <1>2 DEF LoadCell
  <2>2. pc[w] = "idle"
    BY <1>2 DEF LoadCell
  <2>3. Hand(w)' = (todo[w] \ {u}) \cup {u} /\ Hand(w) = todo[w]
    BY <2>1, <2>2 DEF Hand, TypeOK
  <2>4. \A x \in Worker : x # w => Hand(x)' = Hand(x)
    BY <2>1 DEF Hand, TypeOK
  <2>5. QED
    BY <2>1, <2>3, <2>4
<1>3. ASSUME RetryCell(w)
      PROVE  \A x \in Worker : Hand(x)' = Hand(x)
  BY <1>3 DEF RetryCell, Hand
<1>4. ASSUME RecordCell(w)
      PROVE  \A x \in Worker : Hand(x)' = Hand(x)
  BY <1>4 DEF RecordCell, Idle, Hand, TypeOK
<1>5. ASSUME LeaveCell(w) \/ ExchangeCell(w)
      PROVE  /\ Hand(w)' = todo[w]
             /\ \A x \in Worker : x # w => Hand(x)' = Hand(x)
  BY <1>5 DEF LeaveCell, ExchangeCell, Idle, Hand, TypeOK
<1>6. QED
  BY <1>1, <1>2, <1>3, <1>4, <1>5

\* A worker's step adds no update to those held, except when it takes a block.
LEMMA HandsShrink ==
  ASSUME TypeOK, NEW w \in Worker, WorkerStep(w), ~ TakeBlock(w)
  PROVE  /\ \A x \in Worker : Hand(x)' \subseteq Hand(x)
         /\ pending' = pending
<1>1. LeaveCell(w) \/ ExchangeCell(w) => todo[w] \subseteq Hand(w)
  BY DEF Hand
<1>2. pending' = pending
  BY DEF WorkerStep, LoadCell, LeaveCell, RetryCell, ExchangeCell, RecordCell
<1>3. QED
  BY <1>1, <1>2, HandStep DEF WorkerStep

\* What a scan selects does not change while it runs.
LEMMA SelectedStays ==
  ASSUME SolverInv, [Next]_vars, stage = "scan", NEW p \in Pos, Selected(val[p])
  PROVE  val'[p] = val[p]
<1>1. IsResolved(val[p]) /\ val[p].n = ply - 1
  BY DEF Selected, IsResolved, IsWin, IsLoss, Win
<1>2. ply \in Nat
  BY DEF SolverInv, TypeOK
<1>3. QED
  BY <1>1, <1>2, ResolvedStep

\* The updates of a block stand for the quiet moves to what it selects.
LEMMA UpdatesSelected ==
  ASSUME TypeOK, NEW b \in BlocksOf(slot), NEW u \in Updates(b)
  PROVE  /\ [from |-> u.pred, to |-> u.src, copy |-> u.copy] \in game.quiet
         /\ SlotOf[u.src] = slot /\ Selected(val[u.src]) /\ u.ct = val[u.src].ct
         /\ Block(u.src) = b /\ u.src \in Pos
<1>1. PICK m \in {q \in game.quiet : Block(q.to) = b /\ Selected(val[q.to])} :
        u = [pred |-> m.from, src |-> m.to, copy |-> m.copy, ct |-> val[m.to].ct]
  BY DEF Updates
<1>2. m \in [from : Pos, to : Pos, copy : Copy]
  BY GamesAssumption DEF TypeOK, Game, QuietMove
<1>3. [from |-> u.pred, to |-> u.src, copy |-> u.copy] = m
  BY <1>1, <1>2
<1>4. QED
  BY <1>1, <1>2, <1>3, UpdatesTable

\* Every update held stands for a move the scan selects.
LEMMA HandsSelectedStep ==
  SolverInv /\ WithinTables /\ HandsSelected /\ [Next]_vars => HandsSelected'
<1> DEFINE Stands(u) ==
      /\ [from |-> u.pred, to |-> u.src, copy |-> u.copy] \in game.quiet
      /\ SlotOf[u.src] = slot /\ Selected(val[u.src]) /\ u.ct = val[u.src].ct
<1> SUFFICES ASSUME SolverInv, WithinTables, HandsSelected, [Next]_vars,
                    stage' = "scan"
             PROVE  \A w \in Worker : \A u \in Hand(w)' : Stands(u)'
  BY DEF HandsSelected
<1> USE DEF solverVars, workerVars
<1>1. TypeOK /\ WorkersJoined
  BY DEF SolverInv
<1>2. game' = game /\ game.quiet \subseteq [from : Pos, to : Pos, copy : Copy]
  BY <1>1, GameKept, GamesAssumption DEF TypeOK, Game, QuietMove
<1>3. ASSUME stage = "scan", UNCHANGED <<ply, phase, slot>>,
             NEW u, Stands(u), u \in Update
      PROVE  Stands(u)'
  <2>1. u.src \in Pos
    BY <1>3 DEF Update
  <2>2. val'[u.src] = val[u.src]
    BY <1>3, <2>1, SelectedStays
  <2>3. QED
    BY <1>2, <1>3, <2>2 DEF Selected
<1>4. \A w \in Worker : \A u \in Hand(w) : u \in Update
  BY <1>1 DEF Hand, TypeOK
<1>5. ASSUME NEW w \in Worker, WorkerStep(w)
      PROVE  \A x \in Worker : \A u \in Hand(x)' : Stands(u)'
  <2>1. stage = "scan" /\ UNCHANGED <<ply, phase, slot>>
    BY <1>1, <1>5, WorkersScan
  <2>2. \A x \in Worker : \A u \in Hand(x) : Stands(u)'
    BY <1>3, <1>4, <2>1 DEF HandsSelected
  <2>3. CASE TakeBlock(w)
    <3>1. PICK b \in pending : todo' = [todo EXCEPT ![w] = Updates(b)]
      BY <2>3 DEF TakeBlock
    <3>2. pc[w] = "idle" /\ pc' = pc /\ cur' = cur
      BY <2>3 DEF TakeBlock
    <3>3. \A u \in Updates(b) : Stands(u)
      BY <1>1, <2>1, UpdatesSelected DEF WithinTables
    <3>4. Updates(b) \subseteq Update
      BY <1>1, UpdatesType DEF TypeOK, SolverInv
    <3>5. \A u \in Updates(b) : Stands(u)'
      BY <1>3, <2>1, <3>3, <3>4
    <3>6. /\ Hand(w)' = Updates(b)
          /\ \A x \in Worker : x # w => Hand(x)' = Hand(x)
      BY <1>1, <3>1, <3>2, HandStep
    <3>7. QED
      BY <2>2, <3>5, <3>6
  <2>4. CASE ~ TakeBlock(w)
    BY <1>1, <1>5, <2>2, <2>4, HandsShrink
  <2>5. QED
    BY <2>3, <2>4
<1>6. CASE BeginScan
  <2>1. \A w \in Worker : pc'[w] = "idle" /\ todo'[w] = {}
    BY <1>1, <1>6 DEF BeginScan, WorkersJoined
  <2>2. QED
    BY <2>1 DEF Hand
<1>7. CASE UNCHANGED vars
  <2>1. stage = "scan" /\ UNCHANGED <<ply, phase, slot>>
        /\ \A w \in Worker : Hand(w)' = Hand(w)
    BY <1>7 DEF vars, Hand
  <2>2. QED
    BY <1>3, <1>4, <2>1 DEF HandsSelected
<1>8. QED
  BY <1>5, <1>6, <1>7
  DEF Next, SolverStep, Returned, InitializeBlock, InitializeFails,
      FinishInitialize, SkipScan, FinishScan, EndPly, Advance

\* Blocks are taken once, and the updates of a block are for distinct moves.
LEMMA HandsDisjointStep ==
  SolverInv /\ WithinTables /\ HandsSelected /\ HandsDisjoint /\ [Next]_vars
    => HandsDisjoint'
<1> SUFFICES ASSUME SolverInv, WithinTables, HandsSelected, HandsDisjoint,
                    [Next]_vars, stage' = "scan"
             PROVE  \A w \in Worker : \A u \in Hand(w)' :
                      /\ Block(u.src) \notin pending'
                      /\ \A x \in Worker : \A v \in Hand(x)' :
                           SameMove(u, v) => w = x /\ u = v
                      /\ pc'[w] = "cas" => cur'[w] \notin todo'[w]
  BY DEF HandsDisjoint, Block, SameMove
<1> USE DEF solverVars, workerVars
<1>1. TypeOK /\ WorkersJoined
  BY DEF SolverInv
<1>2. ASSUME NEW w \in Worker, WorkerStep(w)
      PROVE  \A x \in Worker : \A u \in Hand(x)' :
               /\ Block(u.src) \notin pending'
               /\ \A y \in Worker : \A v \in Hand(y)' :
                    SameMove(u, v) => x = y /\ u = v
               /\ pc'[x] = "cas" => cur'[x] \notin todo'[x]
  <2>1. stage = "scan"
    BY <1>1, <1>2, WorkersScan
  <2>2. CASE TakeBlock(w)
    <3>1. PICK b \in pending : /\ pending' = pending \ {b}
                               /\ todo' = [todo EXCEPT ![w] = Updates(b)]
      BY <2>2 DEF TakeBlock
    <3>2. pc[w] = "idle" /\ pc' = pc /\ cur' = cur
      BY <2>2 DEF TakeBlock
    <3>3. /\ Hand(w)' = Updates(b)
          /\ \A x \in Worker : x # w => Hand(x)' = Hand(x)
      BY <1>1, <3>1, <3>2, HandStep
    <3>4. \A u \in Updates(b) : Block(u.src) = b /\ u.ct = val[u.src].ct
      BY <1>1, <2>1, UpdatesSelected DEF WithinTables
    <3>5. \A u, v \in Updates(b) : SameMove(u, v) => u = v
      <4>1. Updates(b) \subseteq Update
        BY <1>1, UpdatesType DEF SolverInv, TypeOK
      <4>2. ASSUME NEW u \in Updates(b), NEW v \in Updates(b), SameMove(u, v)
            PROVE  u = v
        <5>1. /\ u.pred = v.pred /\ u.src = v.src /\ u.copy = v.copy /\ u.ct = v.ct
              /\ u \in Update /\ v \in Update
          BY <3>4, <4>1, <4>2 DEF SameMove
        <5>2. QED
          BY <5>1 DEF Update
      <4>3. QED
        BY <4>2
    <3>6. \A x \in Worker : x # w => \A u \in Hand(x)' :
            Block(u.src) # b /\ Block(u.src) \notin pending'
      BY <2>1, <3>1, <3>3 DEF HandsDisjoint
    <3>7. \A u, v : SameMove(u, v) => Block(u.src) = Block(v.src)
      BY DEF SameMove
    <3>8. \A x \in Worker : \A u \in Hand(x)' : Block(u.src) \notin pending'
      BY <3>1, <3>3, <3>4, <3>6
    <3>9. \A x, y \in Worker : \A u \in Hand(x)', v \in Hand(y)' :
            SameMove(u, v) => x = y /\ u = v
      <4>1. ASSUME NEW x \in Worker, NEW y \in Worker,
                   NEW u \in Hand(x)', NEW v \in Hand(y)', SameMove(u, v)
            PROVE  x = y /\ u = v
        <5>1. CASE x = w /\ y = w
          BY <3>3, <3>5, <4>1, <5>1
        <5>2. CASE x # w /\ y # w
          BY <2>1, <3>3, <4>1, <5>2 DEF HandsDisjoint
        <5>3. CASE (x = w /\ y # w) \/ (x # w /\ y = w)
          BY <3>3, <3>4, <3>6, <3>7, <4>1, <5>3
        <5>4. QED
          BY <5>1, <5>2, <5>3
      <4>2. QED
        BY <4>1
    <3>10. \A x \in Worker : pc'[x] = "cas" => cur'[x] \notin todo'[x]
      <4>1. ASSUME NEW x \in Worker, pc'[x] = "cas"
            PROVE  cur'[x] \notin todo'[x]
        <5>1. x # w /\ pc[x] = "cas" /\ cur'[x] = cur[x] /\ todo'[x] = todo[x]
          BY <1>1, <3>1, <3>2, <4>1 DEF TypeOK
        <5>2. cur[x] \in Hand(x)
          BY <5>1 DEF Hand
        <5>3. QED
          BY <2>1, <5>1, <5>2 DEF HandsDisjoint
      <4>2. QED
        BY <4>1
    <3>11. QED
      BY <3>8, <3>9, <3>10
  <2>3. CASE ~ TakeBlock(w)
    <3>1. /\ \A x \in Worker : Hand(x)' \subseteq Hand(x)
          /\ pending' = pending
      BY <1>1, <1>2, <2>3, HandsShrink
    <3>2. ASSUME NEW x \in Worker, pc'[x] = "cas"
          PROVE  cur'[x] \notin todo'[x]
      <4>1. pc[x] = "cas" => cur[x] \notin todo[x]
        BY <2>1 DEF HandsDisjoint, Hand
      <4>2. CASE LoadCell(w)
        BY <1>1, <3>2, <4>1, <4>2 DEF LoadCell, TypeOK
      <4>3. CASE RetryCell(w)
        BY <3>2, <4>1, <4>3 DEF RetryCell
      <4>4. CASE LeaveCell(w) \/ ExchangeCell(w) \/ RecordCell(w)
        <5>1. todo' = todo /\ pc[x] = "cas" /\ cur'[x] = cur[x]
          BY <1>1, <3>2, <4>4 DEF LeaveCell, ExchangeCell, RecordCell, Idle, TypeOK
        <5>2. QED
          BY <4>1, <5>1
      <4>5. QED
        BY <1>2, <2>3, <4>2, <4>3, <4>4 DEF WorkerStep
    <3>3. QED
      BY <2>1, <3>1, <3>2 DEF HandsDisjoint
  <2>4. QED
    BY <2>2, <2>3
<1>3. CASE BeginScan
  <2>1. \A w \in Worker : pc'[w] = "idle" /\ todo'[w] = {}
    BY <1>1, <1>3 DEF BeginScan, WorkersJoined
  <2>2. \A w \in Worker : Hand(w)' = {}
    BY <2>1 DEF Hand
  <2>3. QED
    BY <2>2
<1>4. CASE UNCHANGED vars
  <2>1. stage = "scan" /\ UNCHANGED <<pending, pc, cur, todo>>
        /\ \A w \in Worker : Hand(w)' = Hand(w)
    BY <1>4 DEF vars, Hand
  <2>2. QED
    BY <2>1 DEF HandsDisjoint
<1>5. QED
  BY <1>2, <1>3, <1>4
  DEF Next, SolverStep, Returned, InitializeBlock, InitializeFails,
      FinishInitialize, SkipScan, FinishScan, EndPly, Advance

\* Wins are ranked by number.
LEMMA Ranks ==
  /\ \A ct \in ConversionType : WinRank[ct] \in Nat /\ LossRank[ct] \in Nat
  /\ \A c, d \in ConversionType :
       /\ WinRank[c] = WinRank[d] => c = d
       /\ LossRank[c] = LossRank[d] => c = d
       /\ LossRank[c] < LossRank[d] <=> WinRank[d] < WinRank[c]
BY DEF ConversionType, WinRank, LossRank

\* No exchange changes a cell that a worker has found other than unknown, but
\* to upgrade a win.
LEMMA LoadedStep ==
  SolverInv /\ LoadedStays /\ [Next]_vars => LoadedStays'
<1> DEFINE Keeps(v, r) ==
      \/ v = r
      \/ /\ IsWin(v) /\ IsWin(r) /\ v.n = r.n
         /\ WinRank[v.ct] >= WinRank[r.ct]
<1> SUFFICES ASSUME SolverInv, LoadedStays, [Next]_vars,
                    NEW x \in Worker, pc'[x] = "cas", ~ IsUnknown(raw'[x])
             PROVE  Keeps(val'[cur'[x].pred], raw'[x])
  BY DEF LoadedStays
<1> USE DEF solverVars, workerVars
<1>1. TypeOK /\ WorkersJoined /\ CellsWellFormed
  BY DEF SolverInv
<1>2. pc[x] = "cas" /\ ~ IsUnknown(raw[x]) => Keeps(val[cur[x].pred], raw[x])
  BY DEF LoadedStays
<1>3. CASE UNCHANGED <<pc, cur, raw, val>>
  BY <1>2, <1>3
<1>4. ASSUME NEW w \in Worker, LoadCell(w)
      PROVE  Keeps(val'[cur'[x].pred], raw'[x])
  <2>1. PICK u \in todo[w] : /\ cur' = [cur EXCEPT ![w] = u]
                             /\ raw' = [raw EXCEPT ![w] = val[u.pred]]
                             /\ pc' = [pc EXCEPT ![w] = "cas"]
                             /\ val' = val
    BY <1>4 DEF LoadCell
  <2>2. CASE x = w
    BY <1>1, <2>1, <2>2 DEF TypeOK
  <2>3. CASE x # w
    BY <1>1, <1>2, <2>1, <2>3 DEF TypeOK
  <2>4. QED
    BY <2>2, <2>3
<1>5. ASSUME NEW w \in Worker, RetryCell(w)
      PROVE  Keeps(val'[cur'[x].pred], raw'[x])
  <2>1. /\ raw' = [raw EXCEPT ![w] = val[cur[w].pred]]
        /\ UNCHANGED <<val, pc, cur>>
    BY <1>5 DEF RetryCell
  <2>2. CASE x = w
    BY <1>1, <2>1, <2>2 DEF TypeOK
  <2>3. CASE x # w
    BY <1>1, <1>2, <2>1, <2>3 DEF TypeOK
  <2>4. QED
    BY <2>2, <2>3
<1>6. ASSUME NEW w \in Worker, LeaveCell(w) \/ RecordCell(w)
      PROVE  Keeps(val'[cur'[x].pred], raw'[x])
  <2>1. Idle(w) /\ val' = val
    BY <1>6 DEF LeaveCell, RecordCell
  <2>2. pc[x] = "cas" /\ cur'[x] = cur[x] /\ raw'[x] = raw[x]
    BY <1>1, <2>1 DEF Idle, TypeOK
  <2>3. QED
    BY <1>2, <2>1, <2>2
<1>7. ASSUME NEW w \in Worker, ExchangeCell(w)
      PROVE  Keeps(val'[cur'[x].pred], raw'[x])
  <2> DEFINE p == cur[x].pred
  <2>1. pc[x] = "cas" /\ cur'[x] = cur[x] /\ raw'[x] = raw[x]
    BY <1>1, <1>7 DEF ExchangeCell, Idle, TypeOK
  <2>2. Keeps(val[p], raw[x]) /\ ~ IsUnknown(raw[x]) /\ p \in Pos
    BY <1>1, <1>2, <2>1 DEF TypeOK, Update
  <2>3. CASE val'[p] = val[p]
    BY <2>1, <2>2, <2>3
  <2>4. CASE val'[p] # val[p]
    <3>1. ~ IsUnknown(val[p])
      BY <2>2 DEF IsWin, IsUnknown
    <3>2. cur[w].pred = p /\ pc[w] = "cas" /\ raw[w] = val[p]
          /\ Changes(raw[w], cur[w].ct)
      BY <1>1, <1>7, <2>2, <2>4 DEF ExchangeCell, TypeOK
    <3>3. IsWin(val[p])
      BY <3>1, <3>2 DEF Changes
    <3>4. /\ IsWin(val'[p]) /\ val'[p].n = val[p].n
          /\ WinRank[val'[p].ct] > WinRank[val[p].ct]
      BY <2>2, <2>4, <3>3, ResolvedStep DEF IsResolved
    <3>5. IsWin(raw[x]) /\ val[p].n = raw[x].n
          /\ WinRank[val[p].ct] >= WinRank[raw[x].ct]
      <4>1. val[p].ct \in ConversionType
        BY <1>1, <2>2, <3>3 DEF CellsWellFormed, IsResolved
      <4>2. QED
        BY <2>2, <3>3, <4>1, Ranks
    <3>6. /\ val[p].ct \in ConversionType /\ raw[x].ct \in ConversionType
          /\ val'[p].ct \in ConversionType
      <4>1. CellsWellFormed'
        BY <1>1, CellsStep
      <4>2. QED
        BY <1>1, <2>2, <3>3, <3>4, <3>5, <4>1 DEF CellsWellFormed, IsResolved
    <3>7. WinRank[val'[p].ct] >= WinRank[raw[x].ct]
      BY <3>4, <3>5, <3>6, Ranks
    <3>8. QED
      BY <2>1, <3>4, <3>5, <3>7
  <2>5. QED
    BY <2>3, <2>4
<1>8. ASSUME NEW b \in pending, InitializeBlock(b)
      PROVE  FALSE
  BY <1>1, <1>8 DEF InitializeBlock, WorkersJoined
<1>9. QED
  BY <1>3, <1>4, <1>5, <1>6, <1>7, <1>8
  DEF Next, SolverStep, WorkerStep, Returned, InitializeFails,
      FinishInitialize, SkipScan, BeginScan, FinishScan, EndPly, TakeBlock, vars

-------------------------------------------------------------------------------
(* Delivered moves.                                                         *)

\* Update u is for quiet move m.
For(u, m) == u.pred = m.from /\ u.src = m.to /\ u.copy = m.copy

\* A move is in flight in an untaken block or in a worker's hand.
LEMMA InFlightHands ==
  ASSUME NEW m
  PROVE  InFlight(m) <=> \/ Block(m.to) \in pending
                         \/ \E w \in Worker : \E u \in Hand(w) : For(u, m)
BY DEF InFlight, Hand, For

\* The end of a table's scan, or skipping it, ends the scan of its phase.
LEMMA AdvanceEnds ==
  ASSUME TypeOK, Advance, stage \in {"next", "scan"},
         NEW ct \in Kind, NEW s \in Slot
  PROVE  /\ ScanEnded(ct, s)' <=> ScanEnded(ct, s) \/ (ct = phase /\ s = slot)
         /\ stage' \in {"next", "endply"}
<1>1. /\ NSlots \in {1, 2} /\ slot \in Slot /\ phase \in Kind
      /\ slot \in Nat /\ s \in Nat /\ s <= NSlots - 1 /\ slot <= NSlots - 1
  BY SlotAssumption DEF TypeOK, Slot
<1>2. /\ PhaseIndex["Loss"] = 1 /\ PhaseIndex["Checkmate"] = 2
      /\ PhaseIndex["Capture"] = 3 /\ PhaseIndex["Promotion"] = 4
      /\ NextPhase["Loss"] = "Checkmate" /\ NextPhase["Checkmate"] = "Capture"
      /\ NextPhase["Capture"] = "Promotion"
  BY DEF PhaseIndex, NextPhase
<1>3. /\ phase \in {"Loss", "Checkmate", "Capture", "Promotion"}
      /\ ct \in {"Loss", "Checkmate", "Capture", "Promotion"}
  BY <1>1 DEF Kind, ConversionType
<1>4. CASE slot < NSlots - 1
  <2>1. stage' = "next" /\ slot' = slot + 1 /\ phase' = phase
    BY <1>4 DEF Advance
  <2>2. QED
    BY <1>1, <2>1 DEF ScanEnded
<1>5. CASE ~ (slot < NSlots - 1) /\ phase # "Promotion"
  <2>1. stage' = "next" /\ slot' = 0 /\ phase' = NextPhase[phase] /\ s <= slot
    BY <1>1, <1>5 DEF Advance
  <2>2. ScanEnded(ct, s) <=> PhaseIndex[ct] < PhaseIndex[phase] \/ (ct = phase /\ s < slot)
    BY DEF ScanEnded
  <2>3. ScanEnded(ct, s)' <=> PhaseIndex[ct] < PhaseIndex[phase']
    BY <1>1, <2>1 DEF ScanEnded
  <2>4. CASE phase = "Loss"
    BY <1>1, <1>2, <1>3, <2>1, <2>2, <2>3, <2>4
  <2>5. CASE phase = "Checkmate"
    BY <1>1, <1>2, <1>3, <2>1, <2>2, <2>3, <2>5
  <2>6. CASE phase = "Capture"
    BY <1>1, <1>2, <1>3, <2>1, <2>2, <2>3, <2>6
  <2>7. QED
    BY <1>3, <1>5, <2>4, <2>5, <2>6
<1>6. CASE ~ (slot < NSlots - 1) /\ phase = "Promotion"
  <2>1. stage' = "endply" /\ slot' = 0 /\ s <= slot
    BY <1>1, <1>6 DEF Advance
  <2>2. ScanEnded(ct, s) <=> PhaseIndex[ct] < 4 \/ (ct = "Promotion" /\ s < slot)
    BY <1>2, <1>6 DEF ScanEnded
  <2>3. QED
    BY <1>1, <1>2, <1>3, <1>6, <2>1, <2>2 DEF ScanEnded
<1>7. QED
  BY <1>4, <1>5, <1>6

\* A move whose source the scan looks for.
Sought(m) ==
  /\ IsResolved(val[m.to]) /\ val[m.to].n = ply - 1
  /\ KindOf(val[m.to]) = phase /\ SlotOf[m.to] = slot

\* A sought move leads to a position the scan selects.
LEMMA SoughtSelected ==
  ASSUME TypeOK, CellsWellFormed, NEW m \in QuietMove, Sought(m)
  PROVE  /\ Selected(val[m.to]) /\ m.to \in Pos
         /\ Block(m.to) \in BlocksOf(slot)
         /\ phase = "Loss" => IsLoss(val[m.to])
         /\ phase # "Loss" => IsWin(val[m.to])
<1>1. m.to \in Pos
  BY DEF QuietMove
<1>2. val[m.to].ct \in ConversionType /\ val[m.to] \in Value
  BY <1>1 DEF CellsWellFormed, Sought, TypeOK
<1>3. CASE phase = "Loss"
  <2>1. IsLoss(val[m.to])
    BY <1>2, <1>3 DEF Sought, KindOf, IsResolved, ConversionType
  <2>2. QED
    BY <1>1, <1>3, <2>1, BlockSlot DEF Selected, Sought
<1>4. CASE phase # "Loss"
  <2>1. IsWin(val[m.to]) /\ val[m.to].ct = phase
    BY <1>4 DEF Sought, KindOf, IsResolved
  <2>2. val[m.to] = Win(phase, ply - 1)
    BY <1>2, <2>1 DEF Sought, Value, Win, IsWin
  <2>3. QED
    BY <1>1, <1>4, <2>1, <2>2, BlockSlot DEF Selected, Sought
<1>5. QED
  BY <1>3, <1>4

\* What the scan selects is what it seeks.
LEMMA SelectedSought ==
  ASSUME TypeOK, NEW m, Selected(val[m.to]), SlotOf[m.to] = slot
  PROVE  Sought(m)
BY DEF Selected, Sought, Win, KindOf, IsResolved, IsWin, IsLoss

\* The three ways of having been passed.
LEMMA PassedForm ==
  ASSUME NEW m
  PROVE  Passed(m) <=>
           \/ IsResolved(val[m.to]) /\ val[m.to].n < ply - 1
           \/ /\ IsResolved(val[m.to]) /\ val[m.to].n = ply - 1
              /\ ScanEnded(KindOf(val[m.to]), SlotOf[m.to])
           \/ Sought(m) /\ stage = "scan" /\ ~ InFlight(m)
BY DEF Passed, Sought

\* A move is delivered when it leads to a win and has been passed.
LEMMA DeliveredForm ==
  ASSUME NEW m
  PROVE  Delivered(m) <=> IsWin(val[m.to]) /\ Passed(m)
BY DEF Delivered, Passed, IsResolved, IsWin, IsLoss, KindOf

\* A scan that is skipped had nothing to visit: the counts or the ply bounds
\* that allow skipping it are right.
LEMMA NothingSought ==
  ASSUME SolverInv, PlyCountsExact, stage = "next",
         NothingToScan \/ BlocksWith(phase, ply - 1) = {},
         NEW m \in QuietMove
  PROVE  ~ Sought(m)
<1> SUFFICES ASSUME Sought(m) PROVE FALSE
  OBVIOUS
<1>1. TypeOK /\ CellsWellFormed /\ WorkersJoined /\ SummaryConservative
  BY DEF SolverInv
<1>2. /\ m.to \in Pos /\ Block(m.to) \in BlocksOf(slot)
      /\ phase = "Loss" => IsLoss(val[m.to])
      /\ phase # "Loss" => IsWin(val[m.to])
      /\ val[m.to].n = ply - 1 /\ SlotOf[m.to] = slot
      /\ IsResolved(val[m.to]) /\ KindOf(val[m.to]) = phase
  BY <1>1, SoughtSelected DEF Sought
<1>3. CASE NothingToScan
  <2> DEFINE kind == IF phase = "Loss" THEN "loss" ELSE "win"
  <2>1. slot \in Slot /\ CountsAgree(val, found, previous, ply)
    BY <1>1, CountsRestated DEF TypeOK
  <2>2. Cardinality(At(val, slot, kind, ply - 1)) = 0
    BY <1>3, <2>1 DEF NothingToScan, CountsAgree
  <2>3. At(val, slot, kind, ply - 1) = {}
    BY <2>2, AtFinite
  <2>4. QED
    BY <1>2, <2>3 DEF At, IsWin, IsLoss
<1>4. CASE BlocksWith(phase, ply - 1) = {}
  <2>1. bound[Block(m.to)][phase] >= (ply - 1) + 1
    <3>1. \A w \in Worker : pc[w] # "record"
      BY <1>1 DEF WorkersJoined
    <3>2. QED
      BY <1>1, <1>2, <3>1 DEF SummaryConservative
  <2>2. QED
    BY <1>2, <1>4, <2>1 DEF BlocksWith
<1>5. QED
  BY <1>3, <1>4

\* A scan that begins visits every block that holds something it looks for.
LEMMA SoughtVisited ==
  ASSUME SolverInv, stage = "next", NEW m \in QuietMove, Sought(m)
  PROVE  Block(m.to) \in BlocksWith(phase, ply - 1)
<1>1. TypeOK /\ CellsWellFormed /\ WorkersJoined /\ SummaryConservative
  BY DEF SolverInv
<1>2. /\ m.to \in Pos /\ Block(m.to) \in BlocksOf(slot)
      /\ IsResolved(val[m.to]) /\ val[m.to].n = ply - 1
      /\ KindOf(val[m.to]) = phase
  BY <1>1, SoughtSelected DEF Sought
<1>3. \A w \in Worker : pc[w] # "record"
  BY <1>1 DEF WorkersJoined
<1>4. bound[Block(m.to)][phase] >= (ply - 1) + 1
  BY <1>1, <1>2, <1>3 DEF SummaryConservative
<1>5. QED
  BY <1>2, <1>4 DEF BlocksWith

\* Everything but a worker finishing with an update leaves each move as
\* passed, or not, as it was.
LEMMA PassedKept ==
  ASSUME SolverInv, CountInv, CounterInv, [Next]_vars,
         stage \notin {"init", "failed"}, stage' # "failed",
         ~ \E w \in Worker : LeaveCell(w) \/ ExchangeCell(w),
         NEW m \in game.quiet
  PROVE  Passed(m)' <=> Passed(m)
<1> USE DEF solverVars, workerVars
<1>1. TypeOK /\ CellsWellFormed /\ WorkersJoined
  BY DEF SolverInv
<1>2. m \in QuietMove
  BY <1>1, GamesAssumption DEF TypeOK, Game
<1>3. /\ m.to \in Pos /\ ply \in Nat /\ val[m.to].n \in Nat
      /\ SlotOf[m.to] \in Slot
      /\ IsResolved(val[m.to]) => KindOf(val[m.to]) \in Kind
  BY <1>1, <1>2, SlotAssumption
  DEF QuietMove, TypeOK, Value, CellsWellFormed, KindOf, Kind
<1>4. ASSUME NEW w \in Worker, LoadCell(w) \/ RetryCell(w) \/ RecordCell(w)
      PROVE  Passed(m)' <=> Passed(m)
  <2>1. UNCHANGED <<val, solverVars, pending>>
    BY <1>4 DEF LoadCell, RetryCell, RecordCell
  <2>2. \A x \in Worker : Hand(x)' = Hand(x)
    BY <1>1, <1>4, HandStep
  <2>3. InFlight(m)' <=> InFlight(m)
    <3>1. InFlight(m)' <=> \/ Block(m.to) \in pending
                           \/ \E x \in Worker : \E u \in Hand(x)' : For(u, m)
      BY <2>1 DEF InFlight, Hand, For, Block
    <3>2. QED
      BY <2>2, <3>1, InFlightHands
  <2>4. QED
    BY <2>1, <2>3 DEF Passed, ScanEnded
<1>5. ASSUME NEW w \in Worker, TakeBlock(w)
      PROVE  Passed(m)' <=> Passed(m)
  <2>1. PICK b \in pending : /\ pending' = pending \ {b}
                             /\ todo' = [todo EXCEPT ![w] = Updates(b)]
    BY <1>5 DEF TakeBlock
  <2>2. /\ pc[w] = "idle" /\ todo[w] = {} /\ stage = "scan"
        /\ UNCHANGED <<val, solverVars, pc, cur>>
    BY <1>5 DEF TakeBlock
  <2>3. /\ Hand(w)' = Updates(b) /\ Hand(w) = {}
        /\ \A x \in Worker : x # w => Hand(x)' = Hand(x)
    BY <1>1, <2>1, <2>2, HandStep DEF Hand
  <2>4. InFlight(m)' <=> \/ Block(m.to) \in pending'
                         \/ \E x \in Worker : \E u \in Hand(x)' : For(u, m)
    BY DEF InFlight, Hand, For, Block
  <2>5. \A u \in Updates(b) : Block(u.src) = b
    BY <1>1, <2>2, UpdatesSelected DEF CountInv, WithinTables
  <2>6. ASSUME Sought(m)
        PROVE  InFlight(m)' <=> InFlight(m)
    <3>1. CASE Block(m.to) = b
      <4> DEFINE u == [pred |-> m.from, src |-> m.to, copy |-> m.copy,
                       ct |-> val[m.to].ct]
      <4>1. Selected(val[m.to])
        BY <1>1, <1>2, <2>6, SoughtSelected
      <4>2. u \in Updates(b) /\ For(u, m)
        BY <3>1, <4>1 DEF Updates, For
      <4>3. InFlight(m)'
        BY <2>3, <2>4, <4>2
      <4>4. InFlight(m)
        BY <3>1, InFlightHands
      <4>5. QED
        BY <4>3, <4>4
    <3>2. CASE Block(m.to) # b
      <4>1. \A u \in Updates(b) : ~ For(u, m)
        BY <2>5, <3>2 DEF For
      <4>2. (\E x \in Worker : \E u \in Hand(x)' : For(u, m))
              <=> \E x \in Worker : \E u \in Hand(x) : For(u, m)
        BY <2>3, <4>1
      <4>3. QED
        BY <2>1, <2>4, <3>2, <4>2, InFlightHands
    <3>3. QED
      BY <3>1, <3>2
  <2>7. (Sought(m)' <=> Sought(m)) /\ stage' = stage
    BY <2>2 DEF Sought
  <2>8. Passed(m)' <=>
          \/ IsResolved(val[m.to]) /\ val[m.to].n < ply - 1
          \/ /\ IsResolved(val[m.to]) /\ val[m.to].n = ply - 1
             /\ ScanEnded(KindOf(val[m.to]), SlotOf[m.to])
          \/ Sought(m) /\ stage = "scan" /\ ~ InFlight(m)'
    BY <2>2 DEF Passed, Sought, ScanEnded
  <2>9. QED
    BY <2>6, <2>8, PassedForm
<1>6. CASE BeginScan
  <2>1. /\ stage = "next" /\ stage' = "scan" /\ pending' = BlocksWith(phase, ply - 1)
        /\ UNCHANGED <<val, ply, phase, slot>>
    BY <1>6 DEF BeginScan
  <2>2. Sought(m) => InFlight(m)'
    <3>1. Sought(m) => Block(m.to) \in BlocksWith(phase, ply - 1)
      BY <1>2, <2>1, SoughtVisited
    <3>2. Block(m.to) \in pending' => InFlight(m)'
      BY DEF InFlight, Block
    <3>3. QED
      BY <2>1, <3>1, <3>2
  <2>3. Passed(m)' <=>
          \/ IsResolved(val[m.to]) /\ val[m.to].n < ply - 1
          \/ /\ IsResolved(val[m.to]) /\ val[m.to].n = ply - 1
             /\ ScanEnded(KindOf(val[m.to]), SlotOf[m.to])
          \/ Sought(m) /\ ~ InFlight(m)'
    BY <2>1 DEF Passed, Sought, ScanEnded
  <2>4. QED
    BY <2>1, <2>2, <2>3, PassedForm
<1>7. ASSUME Advance, UNCHANGED <<val, ply>>, stage \in {"next", "scan"},
             Sought(m) => stage = "scan" /\ ~ InFlight(m)
      PROVE  Passed(m)' <=> Passed(m)
  <2>1. stage' \in {"next", "endply"}
    BY <1>7 DEF Advance
  <2>2. IsResolved(val[m.to]) =>
          (ScanEnded(KindOf(val[m.to]), SlotOf[m.to])' <=>
             \/ ScanEnded(KindOf(val[m.to]), SlotOf[m.to])
             \/ KindOf(val[m.to]) = phase /\ SlotOf[m.to] = slot)
    <3>1. ASSUME NEW ct \in Kind, NEW s \in Slot, ct = KindOf(val[m.to]),
                 s = SlotOf[m.to]
          PROVE  ScanEnded(KindOf(val[m.to]), SlotOf[m.to])' <=>
                   ScanEnded(ct, s) \/ (ct = phase /\ s = slot)
      <4>1. ScanEnded(ct, s)' <=> ScanEnded(ct, s) \/ (ct = phase /\ s = slot)
        BY <1>1, <1>7, AdvanceEnds
      <4>2. ScanEnded(KindOf(val[m.to]), SlotOf[m.to])' <=> ScanEnded(ct, s)'
        BY <1>7, <3>1 DEF ScanEnded
      <4>3. QED
        BY <4>1, <4>2
    <3>2. QED
      BY <1>3, <3>1
  <2>3. Passed(m)' <=>
          \/ IsResolved(val[m.to]) /\ val[m.to].n < ply - 1
          \/ /\ IsResolved(val[m.to]) /\ val[m.to].n = ply - 1
             /\ ScanEnded(KindOf(val[m.to]), SlotOf[m.to])'
    BY <1>7, <2>1 DEF Passed
  <2>4. QED
    BY <1>7, <2>2, <2>3, PassedForm DEF Sought
<1>8. CASE SkipScan
  <2>1. ~ Sought(m)
    BY <1>2, <1>8, NothingSought DEF CountInv, SkipScan
  <2>2. QED
    BY <1>7, <1>8, <2>1 DEF SkipScan
<1>9. CASE FinishScan
  <2>1. ~ InFlight(m)
    <3>1. pending = {} /\ \A w \in Worker : pc[w] = "idle" /\ todo[w] = {}
      BY <1>9 DEF FinishScan
    <3>2. QED
      BY <3>1 DEF InFlight
  <2>2. QED
    BY <1>7, <1>9, <2>1 DEF FinishScan
<1>10. CASE EndPly
  <2>1. stage = "endply" /\ val' = val /\ slot' = 0 /\ SlotOf[m.to] \in Nat
    BY <1>3, <1>10, SlotAssumption DEF EndPly, CountInv, EndsAtFirst, Slot
  <2>2. Passed(m) <=> IsResolved(val[m.to]) /\ val[m.to].n < ply
    BY <1>3, <2>1 DEF Passed, ScanEnded
  <2>3. CASE stage' = "solved" /\ ply' = ply
    BY <1>3, <2>1, <2>2, <2>3 DEF Passed, ScanEnded
  <2>4. CASE stage' = "next" /\ ply' = ply + 1 /\ phase' = "Loss"
    <3>1. IsResolved(val[m.to]) => ~ ScanEnded(KindOf(val[m.to]), SlotOf[m.to])'
      BY <1>3, <2>1, <2>4 DEF ScanEnded, Kind, ConversionType, PhaseIndex
    <3>2. Passed(m)' <=> IsResolved(val[m.to]) /\ val[m.to].n < ply' - 1
      BY <2>1, <2>4, <3>1 DEF Passed
    <3>3. QED
      BY <1>3, <2>2, <2>4, <3>2
  <2>5. QED
    BY <1>10, <2>3, <2>4 DEF EndPly
<1>11. CASE UNCHANGED vars
  BY <1>11 DEF vars, Passed, ScanEnded, InFlight, Block
<1>12. QED
  BY <1>4, <1>5, <1>6, <1>8, <1>9, <1>10, <1>11
  DEF Next, SolverStep, WorkerStep, Returned, InitializeBlock, InitializeFails,
      FinishInitialize

\* A worker that finishes with an update passes the move it is for, and no
\* other; what the scan has passed, or seeks, keeps its value.
LEMMA PassedOnce ==
  ASSUME SolverInv, CountInv, CounterInv, [Next]_vars,
         NEW w \in Worker, LeaveCell(w) \/ ExchangeCell(w),
         NEW m \in game.quiet
  PROVE  /\ stage = "scan" /\ UNCHANGED <<stage, phase, slot, ply>>
         /\ Passed(m)' <=> Passed(m) \/ For(cur[w], m)
         /\ For(cur[w], m) => ~ Passed(m) /\ Sought(m)
         /\ Passed(m) \/ For(cur[w], m) => val'[m.to] = val[m.to]
<1> USE DEF solverVars, workerVars
<1>1. TypeOK /\ CellsWellFormed /\ WorkersJoined /\ WithinTables
      /\ HandsSelected /\ HandsDisjoint
  BY DEF SolverInv, CountInv, CounterInv
<1>2. m \in QuietMove /\ m.to \in Pos
  BY <1>1, GamesAssumption DEF TypeOK, Game, QuietMove
<1>3. /\ ply \in Nat /\ val[m.to].n \in Nat
      /\ IsResolved(val[m.to]) => KindOf(val[m.to]) \in Kind
  BY <1>1, <1>2 DEF TypeOK, Value, CellsWellFormed, KindOf, Kind
<1>4. /\ pc[w] = "cas" /\ stage = "scan"
      /\ UNCHANGED <<game, solverVars, pending, todo>>
  BY <1>1, WorkersScan DEF LeaveCell, ExchangeCell, WorkerStep
<1>5. /\ Hand(w)' = todo[w] /\ Hand(w) = todo[w] \cup {cur[w]}
      /\ cur[w] \notin todo[w]
      /\ \A x \in Worker : x # w => Hand(x)' = Hand(x)
  BY <1>1, <1>4, HandStep DEF Hand, HandsDisjoint
<1>6. \* Only values at the ply in progress change.
      val'[m.to] = val[m.to]
        \/ /\ ~ (IsResolved(val[m.to]) /\ val[m.to].n < ply)
           /\ ~ (IsResolved(val'[m.to]) /\ val'[m.to].n < ply)
  <2>1. CASE LeaveCell(w)
    BY <2>1 DEF LeaveCell
  <2>2. CASE ExchangeCell(w)
    <3> DEFINE p == cur[w].pred
               new == NewValue(raw[w], cur[w].ct)
    <3>1. /\ p \in Pos /\ val' = [val EXCEPT ![p] = new]
          /\ \/ IsUnknown(val[p]) /\ (IsUnknown(new) \/ new.n = ply)
             \/ val[p].n = ply /\ new.n = ply
      BY <1>1, <2>2, ExchangeEffect
    <3> HIDE DEF p, new
    <3>2. val \in [Pos -> Value]
      BY <1>1 DEF TypeOK
    <3>3. CASE m.to = p
      BY <1>2, <1>3, <3>1, <3>2, <3>3 DEF IsUnknown, IsResolved, IsWin, IsLoss
    <3>4. CASE m.to # p
      BY <1>2, <3>1, <3>2, <3>4
    <3>5. QED
      BY <3>3, <3>4
  <2>3. QED
    BY <2>1, <2>2
<1>7. Sought(m)' <=> Sought(m)
  BY <1>3, <1>4, <1>6 DEF Sought
<1>8. InFlight(m)' <=> InFlight(m) /\ ~ For(cur[w], m)
  <2>1. InFlight(m)' <=> \/ Block(m.to) \in pending
                         \/ \E x \in Worker : \E u \in Hand(x)' : For(u, m)
    BY <1>4 DEF InFlight, Hand, For, Block
  <2>2. CASE For(cur[w], m)
    <3>1. cur[w] \in Hand(w)
      BY <1>5
    <3>2. Block(m.to) \notin pending
      BY <1>1, <1>4, <2>2, <3>1 DEF HandsDisjoint, For
    <3>3. ASSUME NEW x \in Worker, NEW u \in Hand(x)', For(u, m)
          PROVE  FALSE
      <4>1. SameMove(cur[w], u)
        BY <2>2, <3>3 DEF SameMove, For
      <4>2. u \in Hand(x)
        BY <1>5, <3>3
      <4>3. w = x /\ cur[w] = u
        BY <1>1, <1>4, <3>1, <4>1, <4>2 DEF HandsDisjoint
      <4>4. QED
        BY <1>5, <3>3, <4>3
    <3>4. QED
      BY <2>1, <2>2, <3>2, <3>3
  <2>3. CASE ~ For(cur[w], m)
    <3>1. (\E x \in Worker : \E u \in Hand(x)' : For(u, m))
            <=> \E x \in Worker : \E u \in Hand(x) : For(u, m)
      BY <1>5, <2>3
    <3>2. QED
      BY <2>1, <2>3, <3>1, InFlightHands
  <2>4. QED
    BY <2>2, <2>3
<1>9. Passed(m)' <=>
        \/ IsResolved(val[m.to]) /\ val[m.to].n < ply - 1
        \/ /\ IsResolved(val[m.to]) /\ val[m.to].n = ply - 1
           /\ ScanEnded(KindOf(val[m.to]), SlotOf[m.to])
        \/ Sought(m) /\ ~ InFlight(m)'
  <2>1. Passed(m)' <=>
          \/ IsResolved(val'[m.to]) /\ val'[m.to].n < ply - 1
          \/ /\ IsResolved(val'[m.to]) /\ val'[m.to].n = ply - 1
             /\ ScanEnded(KindOf(val'[m.to]), SlotOf[m.to])
          \/ Sought(m)' /\ ~ InFlight(m)'
    BY <1>4 DEF Passed, Sought, ScanEnded
  <2>2. CASE val'[m.to] = val[m.to]
    BY <1>7, <2>1, <2>2
  <2>3. CASE val'[m.to] # val[m.to]
    <3>1. /\ IsResolved(val[m.to]) => ~ (val[m.to].n < ply)
          /\ IsResolved(val'[m.to]) => ~ (val'[m.to].n < ply)
      BY <1>6, <2>3
    <3>2. val'[m.to].n \in Nat
      <4>1. TypeOK'
        BY <1>1, TypeStep
      <4>2. QED
        BY <1>2, <4>1 DEF TypeOK, Value
    <3>3. QED
      BY <1>3, <1>7, <2>1, <3>1, <3>2
  <2>4. QED
    BY <2>2, <2>3
<1>10. For(cur[w], m) => Sought(m)
  <2>1. Selected(val[cur[w].src]) /\ SlotOf[cur[w].src] = slot
    BY <1>1, <1>4, <1>5 DEF HandsSelected
  <2>2. QED
    BY <1>1, <2>1, SelectedSought DEF For
<1>11. For(cur[w], m) => InFlight(m)
  BY <1>5, InFlightHands
<1>12. Sought(m) => ~ ScanEnded(KindOf(val[m.to]), SlotOf[m.to])
  <2>1. slot \in Nat /\ PhaseIndex[phase] \in Nat
    BY <1>1, SlotAssumption DEF TypeOK, Slot, Kind, ConversionType, PhaseIndex
  <2>2. QED
    BY <1>4, <2>1 DEF Sought, ScanEnded
<1>13. Passed(m)' <=> Passed(m) \/ For(cur[w], m)
  BY <1>4, <1>8, <1>9, <1>10, <1>11, PassedForm
<1>14. For(cur[w], m) => ~ Passed(m)
  BY <1>3, <1>10, <1>11, <1>12, PassedForm DEF Sought
<1>15. Passed(m) \/ For(cur[w], m) => val'[m.to] = val[m.to]
  <2>1. Passed(m) \/ For(cur[w], m) => IsResolved(val[m.to]) /\ val[m.to].n < ply
    BY <1>3, <1>10, PassedForm DEF Sought
  <2>2. QED
    BY <1>6, <2>1
<1>16. QED
  BY <1>4, <1>10, <1>13, <1>14, <1>15

\* The same for delivery: scans for wins deliver, the scan for losses does not.
LEMMA DeliveredKept ==
  ASSUME SolverInv, CountInv, CounterInv, [Next]_vars,
         stage \notin {"init", "failed"}, stage' # "failed",
         ~ \E w \in Worker : LeaveCell(w) \/ ExchangeCell(w),
         NEW m \in game.quiet
  PROVE  Delivered(m)' <=> Delivered(m)
<1>1. val' = val
  <2>1. ~ FinishInitialize /\ stage' # "init"
    BY DEF Next, SolverStep, WorkerStep, Returned, InitializeBlock,
        InitializeFails, FinishInitialize, SkipScan, BeginScan, FinishScan,
        EndPly, Advance, TakeBlock, LoadCell, RetryCell, RecordCell,
        solverVars, vars
  <2>2. EndPly => val' = val
    BY DEF EndPly
  <2>3. QED
    BY <2>1, <2>2, LoopStep
<1>2. Passed(m)' <=> Passed(m)
  BY PassedKept
<1>3. Delivered(m)' <=> IsWin(val[m.to]) /\ Passed(m)'
  BY <1>1 DEF Delivered, Passed, IsResolved, IsWin, IsLoss, KindOf
<1>4. QED
  BY <1>2, <1>3, DeliveredForm

\* A worker that is done with an update delivers its move, if a loss is sought.
LEMMA DeliveredOnce ==
  ASSUME SolverInv, CountInv, CounterInv, [Next]_vars,
         NEW w \in Worker, LeaveCell(w) \/ ExchangeCell(w),
         NEW m \in game.quiet
  PROVE  /\ phase = "Loss" => (Delivered(m)' <=> Delivered(m))
         /\ phase # "Loss" => /\ Delivered(m)' <=> Delivered(m) \/ For(cur[w], m)
                              /\ For(cur[w], m) => ~ Delivered(m)
<1>1. /\ Passed(m)' <=> Passed(m) \/ For(cur[w], m)
      /\ For(cur[w], m) => ~ Passed(m) /\ Sought(m)
      /\ Passed(m) \/ For(cur[w], m) => val'[m.to] = val[m.to]
  BY PassedOnce
<1>2. Delivered(m)' <=> IsWin(val'[m.to]) /\ Passed(m)'
  BY DEF Delivered, Passed, IsResolved, IsWin, IsLoss, KindOf
<1>3. Delivered(m)' <=> IsWin(val[m.to]) /\ (Passed(m) \/ For(cur[w], m))
  BY <1>1, <1>2
<1>4. For(cur[w], m) => (IsWin(val[m.to]) <=> phase # "Loss")
  <2>1. m \in QuietMove
    BY GamesAssumption DEF SolverInv, TypeOK, Game
  <2>2. For(cur[w], m) => /\ phase = "Loss" => IsLoss(val[m.to])
                          /\ phase # "Loss" => IsWin(val[m.to])
    BY <1>1, <2>1, SoughtSelected DEF SolverInv
  <2>3. QED
    BY <2>2 DEF IsWin, IsLoss
<1>5. QED
  BY <1>1, <1>3, <1>4, DeliveredForm

\* The quiet moves of a position that its counter still counts.
Open(p) == {m \in QuietFrom(p) : ~ Delivered(m)}

\* Moves still to be counted down are finite in number.
LEMMA OpenFinite ==
  ASSUME TypeOK, NEW p
  PROVE  /\ IsFiniteSet(Open(p)) /\ Cardinality(Open(p)) \in Nat
         /\ Cardinality({c \in ConvFrom(p) : c.dep # "Win"}) \in Nat
<1>1. Open(p) \in SUBSET game.quiet
      /\ {c \in ConvFrom(p) : c.dep # "Win"} \in SUBSET game.conv
  BY DEF Open, QuietFrom, ConvFrom
<1>2. IsFiniteSet(Open(p)) /\ IsFiniteSet({c \in ConvFrom(p) : c.dep # "Win"})
  BY <1>1, GamesAssumption, FS_Subset DEF TypeOK
<1>3. QED
  BY <1>2, FS_CardinalityType

\* The counters stay exact: an exchange takes one from the counter of the
\* position whose move it delivers.
LEMMA CountersStep ==
  SolverInv /\ CountInv /\ CounterInv /\ [Next]_vars => CountersExact'
<1> DEFINE Rest(p) == Cardinality({c \in ConvFrom(p) : c.dep # "Win"})
<1> SUFFICES ASSUME SolverInv, CountInv, CounterInv, [Next]_vars,
                    stage' \notin {"init", "failed"},
                    NEW p \in Pos, IsUnknown(val'[p])
             PROVE  /\ val'[p].n > 0
                    /\ val'[p].n = Cardinality(Open(p)') + Rest(p)'
  BY DEF CountersExact, Open
<1> USE DEF solverVars, workerVars
<1>1. TypeOK /\ CellsWellFormed /\ WorkersJoined /\ CountersExact
  BY DEF SolverInv, CounterInv
<1>2. game' = game /\ Rest(p)' = Rest(p) /\ QuietFrom(p)' = QuietFrom(p)
  BY GameKept DEF ConvFrom, QuietFrom
<1>3. Rest(p) \in Nat /\ IsFiniteSet(Open(p)) /\ Cardinality(Open(p)) \in Nat
  BY <1>1, OpenFinite
<1>4. stage \notin {"init", "failed"} /\ IsUnknown(val[p]) =>
        val[p].n > 0 /\ val[p].n = Cardinality(Open(p)) + Rest(p)
  BY <1>1 DEF CountersExact, Open
<1>5. Open(p)' = {m \in QuietFrom(p) : ~ Delivered(m)'}
  BY <1>2 DEF Open
<1>6. QuietFrom(p) \subseteq game.quiet
  BY DEF QuietFrom
<1> HIDE DEF Rest
<1>7. CASE FinishInitialize
  <2>1. /\ stage' = "next" /\ ply = 1 /\ UNCHANGED <<val, ply>>
        /\ val[p] = InitialValue(p) /\ \A q \in Pos : val[q] = InitialValue(q)
    BY <1>7, AllPrepared DEF CountInv
  <2>2. ASSUME NEW m \in game.quiet
        PROVE  ~ Delivered(m)'
    <3>1. m.to \in Pos
      BY <1>1, GamesAssumption DEF TypeOK, Game, QuietMove
    <3>2. IsWin(val[m.to]) => val[m.to].n = 1
      BY <2>1, <3>1, InitialWins
    <3>3. QED
      BY <2>1, <3>2 DEF Delivered
  <2>3. Open(p)' = QuietFrom(p)
    BY <1>5, <1>6, <2>2
  <2>4. val[p] = Unknown(MoveCounter(p))
    BY <2>1 DEF InitialValue, IsUnknown, Invalid, Loss, Draw, Win
  <2>5. val'[p].n = MoveCounter(p)
    BY <2>1, <2>4 DEF Unknown
  <2>6. val'[p].n > 0
    BY <1>1, <2>1 DEF CellsWellFormed
  <2>7. QED
    BY <1>2, <2>3, <2>5, <2>6 DEF MoveCounter, Rest
<1>8. ASSUME NEW w \in Worker, LeaveCell(w)
      PROVE  /\ val'[p].n > 0
             /\ val'[p].n = Cardinality(Open(p)') + Rest(p)'
  <2>1. /\ val' = val /\ pc[w] = "cas" /\ ~ Changes(raw[w], cur[w].ct)
        /\ stage = "scan"
    BY <1>1, <1>8, WorkersScan DEF LeaveCell, WorkerStep
  <2>2. \A m \in QuietFrom(p) : Delivered(m)' <=> Delivered(m)
    <3>1. CASE phase = "Loss"
      BY <1>6, <1>8, <3>1, DeliveredOnce
    <3>2. CASE phase # "Loss"
      <4>1. ~ IsUnknown(val[cur[w].pred])
        BY <2>1 DEF Changes, CounterInv, LoadedStays, IsWin, IsUnknown
      <4>2. \A m \in QuietFrom(p) : ~ For(cur[w], m)
        BY <2>1, <4>1 DEF QuietFrom, For
      <4>3. QED
        BY <1>6, <1>8, <3>2, <4>2, DeliveredOnce
    <3>3. QED
      BY <3>1, <3>2
  <2>3. Open(p)' = Open(p)
    BY <1>5, <2>2 DEF Open
  <2>4. QED
    BY <1>2, <1>4, <2>1, <2>3
<1>9. ASSUME NEW w \in Worker, ExchangeCell(w)
      PROVE  /\ val'[p].n > 0
             /\ val'[p].n = Cardinality(Open(p)') + Rest(p)'
  <2> DEFINE q == cur[w].pred
             new == NewValue(raw[w], cur[w].ct)
  <2>1. /\ q \in Pos /\ stage = "scan" /\ val' = [val EXCEPT ![q] = new]
        /\ IsUnknown(new) => /\ IsUnknown(val[q]) /\ phase # "Loss"
                             /\ new = Unknown(val[q].n - 1) /\ val[q].n # 1
    BY <1>1, <1>9, ExchangeEffect DEF CountInv, IsUnknown, IsWin, IsLoss
  <2> HIDE DEF new
  <2>2. val \in [Pos -> Value] /\ val[p].n \in Nat
    BY <1>1 DEF TypeOK, Value
  <2>3. CASE p # q
    <3>1. val'[p] = val[p]
      BY <2>1, <2>2, <2>3
    <3>2. \A m \in QuietFrom(p) : ~ For(cur[w], m)
      BY <2>3 DEF QuietFrom, For
    <3>3. \A m \in QuietFrom(p) : Delivered(m)' <=> Delivered(m)
      BY <1>6, <1>9, <3>2, DeliveredOnce
    <3>4. Open(p)' = Open(p)
      BY <1>5, <3>3 DEF Open
    <3>5. QED
      BY <1>2, <1>4, <2>1, <3>1, <3>4
  <2>4. CASE p = q
    <3>1. /\ IsUnknown(val[p]) /\ phase # "Loss" /\ val[p].n # 1
          /\ val'[p].n = val[p].n - 1
      BY <2>1, <2>2, <2>4 DEF Unknown
    <3> DEFINE d == [from |-> cur[w].pred, to |-> cur[w].src, copy |-> cur[w].copy]
    <3>2. d \in game.quiet
      <4>1. pc[w] = "cas"
        BY <1>9 DEF ExchangeCell
      <4>2. QED
        BY <2>1, <4>1 DEF CounterInv, HandsSelected, Hand
    <3>3. \A m \in game.quiet : For(cur[w], m) <=> m = d
      <4>1. \A m \in game.quiet : m \in [from : Pos, to : Pos, copy : Copy]
        BY <1>1, GamesAssumption DEF TypeOK, Game, QuietMove
      <4>2. QED
        BY <3>2, <4>1 DEF For
    <3>4. d \in Open(p)
      <4>1. d \in QuietFrom(p) /\ For(cur[w], d)
        BY <2>4, <3>2 DEF QuietFrom, For
      <4>2. ~ Delivered(d)
        BY <1>9, <3>1, <3>2, <4>1, DeliveredOnce
      <4>3. QED
        BY <4>1, <4>2 DEF Open
    <3> HIDE DEF d
    <3>5. \A m \in QuietFrom(p) : Delivered(m)' <=> Delivered(m) \/ m = d
      BY <1>6, <1>9, <3>1, <3>3, DeliveredOnce
    <3>6. Open(p)' = Open(p) \ {d}
      BY <1>5, <3>5 DEF Open
    <3>7. Cardinality(Open(p)') = Cardinality(Open(p)) - 1
      BY <1>3, <3>4, <3>6, FS_RemoveElement
    <3>8. QED
      BY <1>2, <1>3, <1>4, <2>1, <2>2, <3>1, <3>7
  <2>5. QED
    BY <2>3, <2>4
<1>10. CASE /\ ~ FinishInitialize
            /\ ~ \E w \in Worker : LeaveCell(w) \/ ExchangeCell(w)
  <2>1. stage \notin {"init", "failed"}
    BY <1>1, <1>10
    DEF Next, SolverStep, WorkerStep, Returned, InitializeBlock,
        InitializeFails, SkipScan, BeginScan, FinishScan, EndPly, TakeBlock,
        LoadCell, RetryCell, RecordCell, WorkersJoined, vars
  <2>2. \A m \in QuietFrom(p) : Delivered(m)' <=> Delivered(m)
    BY <1>6, <1>10, <2>1, DeliveredKept
  <2>3. Open(p)' = Open(p)
    BY <1>5, <2>2 DEF Open
  <2>4. val'[p] = val[p]
    <3>1. CASE EndPly
      BY <3>1 DEF EndPly
    <3>2. CASE ~ EndPly
      BY <1>10, <3>2, LoopStep
    <3>3. QED
      BY <3>1, <3>2
  <2>5. QED
    BY <1>2, <1>4, <2>1, <2>3, <2>4
<1>11. QED
  BY <1>7, <1>8, <1>9, <1>10

-------------------------------------------------------------------------------
(* The theorems about the counts.                                           *)

\* The counts and the counters of solve_pair form one inductive invariant.
ExactInv == SolverInv /\ CountInv /\ CounterInv

\* The invariant holds before anything is initialised.
LEMMA ExactInit == Init => ExactInv
<1> SUFFICES ASSUME Init PROVE ExactInv
  OBVIOUS
<1>1. SolverInv
  BY InitInv
<1>2. Prepared
  <2>1. 0 \in Slot /\ \A s \in Slot : ~ (s < 0)
    BY SlotAssumption DEF Slot
  <2>2. \A p \in Pos : ~ (SlotOf[p] < 0) /\ (SlotOf[p] = 0 => Block(p) \in BlocksOf(0))
    BY <2>1, BlockSlot, SlotAssumption
  <2>3. QED
    BY <2>1, <2>2 DEF Init, Prepared, NoneFound
<1>3. stage = "init" /\ \A w \in Worker : pc[w] = "idle"
  BY DEF Init
<1>4. WithinTables /\ PlyCountsExact /\ MaximaSoFar
  BY <1>3 DEF WithinTables, PlyCountsExact, MaximaSoFar
<1>a. EndsAtFirst
  BY <1>3 DEF EndsAtFirst
<1>5. HandsSelected /\ HandsDisjoint /\ LoadedStays /\ CountersExact
  BY <1>3 DEF HandsSelected, HandsDisjoint, LoadedStays, CountersExact
<1>6. QED
  BY <1>1, <1>2, <1>4, <1>a, <1>5 DEF ExactInv, CountInv, CounterInv

\* The invariant is inductive.
LEMMA ExactNext == ExactInv /\ [Next]_vars => ExactInv'
BY NextInv, PreparedStep, WithinStep, EndsStep, PlyCountsStep, MaximaStep,
   HandsSelectedStep, HandsDisjointStep, LoadedStep, CountersStep
DEF ExactInv, CountInv, CounterInv

\* The inductive invariant holds in every state of the solver.
THEOREM ExactInvariant == Spec => []ExactInv
<1>1. QED
  BY ExactInit, ExactNext, PTL DEF Spec

\* The counts by which solve_pair skips scans and ends its loop, and the maxima
\* it returns, are those of the cells: every position resolved is counted at
\* its ply, once, whichever worker's compare-exchange won.
THEOREM CountsAreExact == Spec => []CountsExact
<1>1. ExactInv => CountsExact
  <2> SUFFICES ASSUME ExactInv PROVE CountsExact
    OBVIOUS
  <2>1. MaximaExact
    <3>1. stage = "solved" => \A s \in Slot :
            /\ Settled(s, "win") = {p \in Pos : SlotOf[p] = s /\ IsWin(val[p])}
            /\ Settled(s, "loss") = {p \in Pos : SlotOf[p] = s /\ IsLoss(val[p])}
      BY DEF Settled, IsWin, IsLoss
    <3>2. stage = "solved" => \A s \in Slot :
            Longest(maxWin[s], s, "win") /\ Longest(maxLoss[s], s, "loss")
      BY DEF ExactInv, CountInv, MaximaSoFar
    <3>3. QED
      BY <3>1, <3>2 DEF MaximaExact, Longest
  <2>2. QED
    BY <2>1 DEF CountsExact, ExactInv, CountInv
<1>2. QED
  BY ExactInvariant, <1>1, PTL

\* The move counter of an unknown position is positive and is the number of
\* its moves not yet known to lose: under every interleaving of the workers no
\* decrement is lost, repeated, or withheld by a skipped scan.
THEOREM CountersAreExact == Spec => []CountersExact
<1>1. ExactInv => CountersExact
  BY DEF ExactInv, CounterInv
<1>2. QED
  BY ExactInvariant, <1>1, PTL

-------------------------------------------------------------------------------
(* What the solver writes is right: the invariant.                          *)

\* Initialisation is over and has not failed.
Ready == stage \notin {"init", "failed"}

\* Every dependency probed so far was there.
NoneMissing ==
  \A c \in game.conv :
    \/ Ready
    \/ stage = "init" /\ SlotOf[c.from] < slot
    \/ stage = "init" /\ SlotOf[c.from] = slot /\ Block(c.from) \notin pending
    => c.dep # "Missing"

\* Invalid indices and positions without moves keep their initial values, and
\* the others are unknown or resolved at a distance of at least one ply.
Terminals ==
  Ready => \A p \in Pos :
    IF p \notin game.valid \/ NoLegals(p)
      THEN val[p] = InitialValue(p)
      ELSE IsUnknown(val[p]) \/ (IsResolved(val[p]) /\ val[p].n > 0)

\* v is a win no worse than a win of type ct at distance n.
AtLeast(v, ct, n) ==
  IsWin(v) /\ (v.n < n \/ (v.n = n /\ WinRank[v.ct] >= WinRank[ct]))

\* v is a win whose loss, for the opponent, is no longer than that of a win of
\* type ct at distance n.
AtMost(v, ct, n) ==
  IsWin(v) /\ (v.n < n \/ (v.n = n /\ LossRank[v.ct] <= LossRank[ct]))

\* A conversion that wins makes its position a win as good.
ConversionsWin ==
  Ready => \A c \in game.conv : c.dep = "Loss" => AtLeast(val[c.from], c.ct, 1)

\* A move to a loss that has been passed makes its position a win as good.
WinsMarked ==
  Ready => \A m \in game.quiet :
    IsLoss(val[m.to]) /\ Passed(m) =>
      AtLeast(val[m.from], val[m.to].ct, val[m.to].n + 1)

\* A win has a move that achieves it.
WinsWitnessed ==
  Ready => \A p \in Pos : IsWin(val[p]) =>
    \/ \E m \in QuietFrom(p) : val[m.to] = Loss(val[p].ct, val[p].n - 1)
    \/ \E c \in ConvFrom(p) : c.dep = "Loss" /\ val[p] = Win(c.ct, 1)

\* Every move of a lost position loses, no later, and one loses as late.
LossesJustified ==
  Ready => \A p \in Pos : IsLoss(val[p]) /\ ~ NoLegals(p) =>
    /\ \A m \in QuietFrom(p) : AtMost(val[m.to], val[p].ct, val[p].n - 1)
    /\ \A c \in ConvFrom(p) :
         /\ c.dep = "Win"
         /\ val[p].n = 1 => LossRank[c.ct] <= LossRank[val[p].ct]
    /\ \/ \E m \in QuietFrom(p) : val[m.to] = Win(val[p].ct, val[p].n - 1)
       \/ \E c \in ConvFrom(p) : val[p] = Loss(c.ct, 1)

\* The last ply resolves nothing.
NothingLast == stage = "solved" => \A p \in Pos : IsResolved(val[p]) => val[p].n < ply

OutcomeInv ==
  /\ NoneMissing /\ Terminals /\ ConversionsWin /\ WinsMarked
  /\ WinsWitnessed /\ LossesJustified /\ NothingLast

-------------------------------------------------------------------------------
(* Lemmas about the operators.                                              *)

\* The preferred conversion type ranks above the others.
LEMMA PreferredRanks ==
  ASSUME NEW cts \in SUBSET ConversionType, cts # {}
  PROVE  /\ PreferredWin(cts) \in cts /\ PreferredLoss(cts) \in cts
         /\ \A d \in cts : WinRank[d] <= WinRank[PreferredWin(cts)]
         /\ \A d \in cts : LossRank[d] <= LossRank[PreferredLoss(cts)]
<1>1. /\ WinRank["Promotion"] = 0 /\ WinRank["Capture"] = 1
      /\ WinRank["Checkmate"] = 2
      /\ LossRank["Promotion"] = 2 /\ LossRank["Capture"] = 1
      /\ LossRank["Checkmate"] = 0
  BY DEF WinRank, LossRank
<1>2. \A d \in cts : d = "Promotion" \/ d = "Capture" \/ d = "Checkmate"
  BY DEF ConversionType
<1>3. \E c \in cts : \A d \in cts : WinRank[d] <= WinRank[c]
  <2>1. CASE "Checkmate" \in cts
    BY <2>1, <1>1, <1>2
  <2>2. CASE "Checkmate" \notin cts /\ "Capture" \in cts
    BY <2>2, <1>1, <1>2
  <2>3. CASE "Checkmate" \notin cts /\ "Capture" \notin cts
    BY <2>3, <1>1, <1>2
  <2>4. QED
    BY <2>1, <2>2, <2>3
<1>4. \E c \in cts : \A d \in cts : LossRank[d] <= LossRank[c]
  <2>1. CASE "Promotion" \in cts
    BY <2>1, <1>1, <1>2
  <2>2. CASE "Promotion" \notin cts /\ "Capture" \in cts
    BY <2>2, <1>1, <1>2
  <2>3. CASE "Promotion" \notin cts /\ "Capture" \notin cts
    BY <2>3, <1>1, <1>2
  <2>4. QED
    BY <2>1, <2>2, <2>3
<1>5. QED
  BY <1>3, <1>4 DEF PreferredWin, PreferredLoss

\* Scans for losses follow the order of the types the losing side prefers.
LEMMA RankByPhase ==
  ASSUME NEW c \in ConversionType, NEW d \in ConversionType,
         PhaseIndex[c] < PhaseIndex[d] \/ c = d
  PROVE  LossRank[c] <= LossRank[d]
BY DEF ConversionType, PhaseIndex, LossRank

\* A win is at least as good as any win it is an upgrade of.
LEMMA AtLeastGrows ==
  ASSUME NEW v \in Value, NEW u \in Value, NEW ct \in ConversionType, NEW n \in Nat,
         AtLeast(v, ct, n), IsWin(u), u.n = v.n,
         u.ct \in ConversionType, v.ct \in ConversionType,
         WinRank[u.ct] >= WinRank[v.ct]
  PROVE  AtLeast(u, ct, n)
BY Ranks DEF AtLeast

\* The initial values: what wins, what loses and why.
LEMMA InitialCases ==
  ASSUME game \in Games, NEW p \in Pos
  PROVE  /\ IsWin(InitialValue(p)) =>
              \E c \in ConvFrom(p) : c.dep = "Loss" /\ InitialValue(p) = Win(c.ct, 1)
         /\ \A c \in ConvFrom(p) : c.dep = "Loss" => AtLeast(InitialValue(p), c.ct, 1)
         /\ IsLoss(InitialValue(p)) /\ ~ NoLegals(p) =>
              /\ QuietFrom(p) = {}
              /\ \A c \in ConvFrom(p) :
                   c.dep = "Win" /\ LossRank[c.ct] <= LossRank[InitialValue(p).ct]
              /\ \E c \in ConvFrom(p) : InitialValue(p) = Loss(c.ct, 1)
         /\ p \in game.valid /\ ~ NoLegals(p) =>
              \/ IsUnknown(InitialValue(p))
              \/ IsResolved(InitialValue(p)) /\ InitialValue(p).n = 1
<1>1. /\ WinningConv(p) \in SUBSET ConversionType
      /\ LosingConv(p) \in SUBSET ConversionType
  BY GamesAssumption
  DEF WinningConv, LosingConv, ConvFrom, Game, Conversion, ConversionType
<1>2. \A c \in ConvFrom(p) : p \in game.valid /\ ~ NoLegals(p)
  BY GamesAssumption DEF ConvFrom, NoLegals
<1>3. CASE p \notin game.valid \/ NoLegals(p)
  <2>1. InitialValue(p) \in {Invalid, Draw, Loss("Checkmate", 0)}
    BY <1>3 DEF InitialValue
  <2>2. ~ IsWin(InitialValue(p)) /\ (IsLoss(InitialValue(p)) => p \in game.valid)
    BY <2>1 DEF InitialValue, IsWin, IsLoss, Invalid, Draw, Loss
  <2>3. QED
    BY <1>2, <1>3, <2>2
<1>4. CASE p \in game.valid /\ ~ NoLegals(p) /\ WinningConv(p) # {}
  <2>1. InitialValue(p) = Win(PreferredWin(WinningConv(p)), 1)
    BY <1>4 DEF InitialValue
  <2>2. /\ PreferredWin(WinningConv(p)) \in WinningConv(p)
        /\ \A d \in WinningConv(p) : WinRank[d] <= WinRank[PreferredWin(WinningConv(p))]
        /\ PreferredWin(WinningConv(p)) \in ConversionType
    BY <1>1, <1>4, PreferredRanks
  <2>3. /\ InitialValue(p).kind = "win" /\ InitialValue(p).n = 1
        /\ InitialValue(p).ct = PreferredWin(WinningConv(p))
    BY <2>1 DEF Win
  <2>4. IsWin(InitialValue(p)) /\ ~ IsLoss(InitialValue(p)) /\ IsResolved(InitialValue(p))
    BY <2>3 DEF IsWin, IsLoss, IsResolved
  <2>5. \E c \in ConvFrom(p) : c.dep = "Loss" /\ c.ct = PreferredWin(WinningConv(p))
    BY <2>2 DEF WinningConv
  <2>6. ASSUME NEW c \in ConvFrom(p), c.dep = "Loss"
        PROVE  AtLeast(InitialValue(p), c.ct, 1)
    <3>1. c.ct \in WinningConv(p)
      BY <2>6 DEF WinningConv
    <3>2. WinRank[c.ct] <= WinRank[InitialValue(p).ct]
          /\ c.ct \in ConversionType /\ InitialValue(p).ct \in ConversionType
      BY <1>1, <2>2, <2>3, <3>1
    <3>3. QED
      BY <2>3, <2>4, <3>2, Ranks DEF AtLeast
  <2>7. QED
    BY <1>4, <2>1, <2>3, <2>4, <2>5, <2>6
<1>5. CASE p \in game.valid /\ ~ NoLegals(p) /\ WinningConv(p) = {}
           /\ MoveCounter(p) = 0
  <2>1. QuietFrom(p) = {} /\ \A c \in ConvFrom(p) : c.dep = "Win"
    BY <1>5, MoveCounterType
  <2>2. LosingConv(p) # {} /\ \A c \in ConvFrom(p) : c.ct \in LosingConv(p)
    BY <1>5, <2>1 DEF NoLegals, LosingConv
  <2>3. InitialValue(p) = Loss(PreferredLoss(LosingConv(p)), 1)
    BY <1>5 DEF InitialValue
  <2>4. /\ PreferredLoss(LosingConv(p)) \in LosingConv(p)
        /\ \A d \in LosingConv(p) : LossRank[d] <= LossRank[PreferredLoss(LosingConv(p))]
    BY <1>1, <2>2, PreferredRanks
  <2>5. /\ ~ IsWin(InitialValue(p)) /\ IsLoss(InitialValue(p)) /\ IsResolved(InitialValue(p))
        /\ InitialValue(p).n = 1 /\ InitialValue(p).ct = PreferredLoss(LosingConv(p))
    BY <2>3 DEF Loss, IsWin, IsLoss, IsResolved
  <2>6. \E c \in ConvFrom(p) : c.ct = PreferredLoss(LosingConv(p))
    BY <2>4 DEF LosingConv
  <2>7. \A c \in ConvFrom(p) : c.dep # "Loss"
    BY <2>1
  <2>8. \A c \in ConvFrom(p) : LossRank[c.ct] <= LossRank[InitialValue(p).ct]
    BY <2>2, <2>4, <2>5
  <2>9. QED
    BY <2>1, <2>3, <2>5, <2>6, <2>7, <2>8
<1>6. CASE p \in game.valid /\ ~ NoLegals(p) /\ WinningConv(p) = {}
           /\ MoveCounter(p) # 0
  <2>1. InitialValue(p) = Unknown(MoveCounter(p))
    BY <1>6 DEF InitialValue
  <2>2. IsUnknown(InitialValue(p)) /\ ~ IsWin(InitialValue(p)) /\ ~ IsLoss(InitialValue(p))
    BY <2>1 DEF Unknown, IsUnknown, IsWin, IsLoss
  <2>3. \A c \in ConvFrom(p) : c.dep # "Loss"
    BY <1>6 DEF WinningConv
  <2>4. QED
    BY <2>2, <2>3
<1>7. QED
  BY <1>3, <1>4, <1>5, <1>6

-------------------------------------------------------------------------------
(* Lemmas about steps.                                                      *)

\* The moves of a position never change.
LEMMA MovesKept ==
  ASSUME [Next]_vars
  PROVE  /\ game' = game
         /\ \A p : /\ QuietFrom(p)' = QuietFrom(p) /\ ConvFrom(p)' = ConvFrom(p)
                   /\ NoLegals(p)' <=> NoLegals(p)
                   /\ InitialValue(p)' = InitialValue(p)
BY GameKept DEF QuietFrom, ConvFrom, NoLegals

\* How the solver gets to be ready, or goes on: it has just initialised the
\* last table, a worker finishes with an update, or nothing is written.
LEMMA ReadyStep ==
  ASSUME ExactInv, [Next]_vars, Ready'
  PROVE  \/ /\ FinishInitialize /\ stage = "init" /\ stage' = "next"
            /\ val' = val /\ ply' = 1 /\ phase' = "Loss" /\ slot' = 0
            /\ \A p \in Pos : val[p] = InitialValue(p)
         \/ Ready /\ \E w \in Worker : LeaveCell(w) \/ ExchangeCell(w)
         \/ /\ Ready /\ val' = val
            /\ ~ \E w \in Worker : LeaveCell(w) \/ ExchangeCell(w)
<1>1. SolverInv /\ CountInv /\ CounterInv
  BY DEF ExactInv
<1>2. CASE FinishInitialize
  <2>1. stage' # "init"
    BY DEF Ready
  <2>2. QED
    BY <1>1, <1>2, <2>1, AllPrepared DEF CountInv
<1>3. CASE \E w \in Worker : LeaveCell(w) \/ ExchangeCell(w)
  <2>1. stage = "scan"
    BY <1>1, <1>3, WorkersScan DEF SolverInv, WorkerStep
  <2>2. QED
    BY <1>3, <2>1 DEF Ready
<1>4. CASE ~ FinishInitialize /\ ~ \E w \in Worker : LeaveCell(w) \/ ExchangeCell(w)
  <2>1. Ready
    BY <1>1, <1>4
    DEF Ready, Next, SolverStep, WorkerStep, Returned, InitializeBlock,
        InitializeFails, SkipScan, BeginScan, FinishScan, EndPly, TakeBlock,
        LoadCell, RetryCell, RecordCell, SolverInv, WorkersJoined, solverVars,
        vars
  <2>2. val' = val
    <3>1. EndPly => val' = val
      BY DEF EndPly
    <3>2. QED
      BY <1>1, <1>4, <3>1, LoopStep DEF Ready
  <2>3. QED
    BY <1>4, <2>1, <2>2
<1>5. QED
  BY <1>2, <1>3, <1>4

\* A win stays one, at the same distance and of no less preferred type.
LEMMA WinsGrow ==
  ASSUME SolverInv, [Next]_vars, NEW p \in Pos, NEW ct \in ConversionType,
         NEW n \in Nat, AtLeast(val[p], ct, n)
  PROVE  AtLeast(val'[p], ct, n)
<1>1. CASE val'[p] = val[p]
  BY <1>1
<1>2. CASE val'[p] # val[p]
  <2>1. IsWin(val[p]) /\ IsResolved(val[p])
    BY DEF AtLeast, IsResolved
  <2>2. /\ IsWin(val'[p]) /\ val'[p].n = val[p].n
        /\ WinRank[val'[p].ct] > WinRank[val[p].ct]
    BY <1>2, <2>1, ResolvedStep
  <2>3. TypeOK /\ CellsWellFormed /\ TypeOK' /\ CellsWellFormed'
    BY TypeStep, CellsStep DEF SolverInv
  <2>4. /\ val[p] \in Value /\ val'[p] \in Value
        /\ val[p].ct \in ConversionType /\ val'[p].ct \in ConversionType
    BY <2>1, <2>2, <2>3 DEF TypeOK, CellsWellFormed, IsResolved
  <2>5. WinRank[val'[p].ct] >= WinRank[val[p].ct]
    BY <2>2, <2>4, Ranks
  <2>6. QED
    BY <2>2, <2>4, <2>5, AtLeastGrows
<1>3. QED
  BY <1>1, <1>2

\* Losses never change, nor do wins of the plies before.
LEMMA OthersStay ==
  ASSUME SolverInv, [Next]_vars, NEW p \in Pos
  PROVE  /\ IsLoss(val[p]) => val'[p] = val[p]
         /\ IsWin(val[p]) /\ val[p].n < ply => val'[p] = val[p]
<1>1. ply \in Nat
  BY DEF SolverInv, TypeOK
<1>2. QED
  BY <1>1, ResolvedStep DEF IsResolved, IsWin, IsLoss

-------------------------------------------------------------------------------
(* Each part of the invariant is preserved.                                 *)

\* A conversion in the game starts from one of the positions.
LEMMA ConversionsTyped ==
  ASSUME game \in Games, NEW c \in game.conv
  PROVE  /\ c.from \in Pos /\ c.from \in game.valid /\ ~ NoLegals(c.from)
         /\ c \in ConvFrom(c.from) /\ c.ct \in ConversionType
         /\ c.dep \in {"Win", "Draw", "Loss", "Missing"}
<1>1. c \in Conversion /\ c.from \in game.valid
  BY GamesAssumption DEF Game
<1>2. QED
  BY <1>1 DEF Conversion, ConversionType, ConvFrom, NoLegals

\* A quiet move in the game leads from one of the positions to another.
LEMMA QuietTyped ==
  ASSUME game \in Games, NEW m \in game.quiet
  PROVE  /\ m.from \in Pos /\ m.from \in game.valid /\ ~ NoLegals(m.from)
         /\ m.to \in Pos /\ m.to \in game.valid
         /\ m \in QuietFrom(m.from) /\ m \in QuietMove
<1>1. m \in QuietMove /\ m.from \in game.valid /\ m.to \in game.valid
  BY GamesAssumption DEF Game
<1>2. QED
  BY <1>1 DEF QuietMove, QuietFrom, NoLegals

\* A block that is initialised has probed its dependencies.
LEMMA NoneMissingStep ==
  ExactInv /\ NoneMissing /\ [Next]_vars => NoneMissing'
<1> SUFFICES ASSUME ExactInv, NoneMissing, [Next]_vars,
                    NEW c \in game.conv,
                    \/ Ready'
                    \/ stage' = "init" /\ SlotOf[c.from] < slot'
                    \/ /\ stage' = "init" /\ SlotOf[c.from] = slot'
                       /\ Block(c.from) \notin pending'
             PROVE  c.dep # "Missing"
  BY MovesKept DEF NoneMissing, Block
<1>1. TypeOK /\ WorkersJoined /\ Untouched
  BY DEF ExactInv, SolverInv
<1>2. /\ c.from \in Pos /\ SlotOf[c.from] \in Slot /\ slot \in Slot
      /\ Slot = 0 .. NSlots - 1 /\ NSlots \in Nat
  BY <1>1, ConversionsTyped, SlotAssumption DEF TypeOK, Slot
<1>3. CASE Ready
  BY <1>3 DEF NoneMissing
<1>4. CASE ~ Ready /\ stage' = "init"
  <2>1. stage = "init" /\ \A w \in Worker : ~ WorkerStep(w)
    <3>1. \A w \in Worker : WorkerStep(w) => stage = "scan" /\ stage' = stage
      BY <1>1, WorkersScan DEF solverVars
    <3>2. QED
      BY <1>4, <3>1
      DEF Next, SolverStep, Returned, InitializeBlock, InitializeFails,
          FinishInitialize, SkipScan, BeginScan, FinishScan, EndPly, Advance, vars,
          solverVars
  <2>2. ASSUME NEW b \in pending, InitializeBlock(b)
        PROVE  c.dep # "Missing"
    <3>1. /\ \A d \in game.conv : Block(d.from) = b => d.dep # "Missing"
          /\ slot' = slot /\ pending' = pending \ {b}
      BY <2>2 DEF InitializeBlock, solverVars
    <3>2. QED
      BY <1>4, <2>1, <3>1 DEF NoneMissing, Ready
  <2>3. CASE FinishInitialize
    <3>1. pending = {} /\ slot' = slot + 1 /\ pending' = BlocksOf(slot + 1)
      BY <1>4, <2>3 DEF FinishInitialize
    <3>2. SlotOf[c.from] # slot'
      BY <1>2, <1>4, <3>1, BlockSlot DEF Ready
    <3>3. SlotOf[c.from] < slot \/ SlotOf[c.from] = slot
      BY <1>2, <1>4, <3>1, <3>2 DEF Ready
    <3>4. QED
      BY <2>1, <3>1, <3>3 DEF NoneMissing
  <2>4. CASE UNCHANGED vars
    BY <1>4, <2>1, <2>4 DEF NoneMissing, vars, solverVars, Ready
  <2>5. QED
    BY <1>4, <2>1, <2>2, <2>3, <2>4
    DEF Next, SolverStep, Returned, InitializeFails, SkipScan, BeginScan,
        FinishScan, EndPly
<1>5. CASE ~ Ready /\ stage' # "init"
  <2>1. FinishInitialize /\ stage = "init"
    BY <1>5, ReadyStep
  <2>2. pending = {} /\ ~ (slot < NSlots - 1)
    BY <1>5, <2>1 DEF FinishInitialize
  <2>3. SlotOf[c.from] < slot \/ SlotOf[c.from] = slot
    BY <1>2, <2>2
  <2>4. QED
    BY <2>1, <2>2, <2>3 DEF NoneMissing
<1>6. QED
  BY <1>3, <1>4, <1>5

\* The quiet move a worker's update stands for.
MoveOf(u) == [from |-> u.pred, to |-> u.src, copy |-> u.copy]

\* A worker about to leave or exchange a cell does it for a quiet move to a
\* position its scan has selected.
LEMMA WorkersMove ==
  ASSUME ExactInv, NEW w \in Worker, LeaveCell(w) \/ ExchangeCell(w)
  PROVE  /\ stage = "scan" /\ pc[w] = "cas" /\ cur[w] \in Update
         /\ MoveOf(cur[w]) \in game.quiet
         /\ MoveOf(cur[w]) \in QuietFrom(cur[w].pred)
         /\ SlotOf[cur[w].src] = slot /\ Selected(val[cur[w].src])
         /\ cur[w].ct = val[cur[w].src].ct /\ For(cur[w], MoveOf(cur[w]))
<1>1. TypeOK /\ WorkersJoined /\ HandsSelected
  BY DEF ExactInv, SolverInv, CounterInv
<1>2. pc[w] = "cas" /\ stage = "scan" /\ cur[w] \in Update
  BY <1>1 DEF LeaveCell, ExchangeCell, WorkersJoined, TypeOK
<1>3. cur[w] \in Hand(w)
  BY <1>2 DEF Hand
<1>4. /\ MoveOf(cur[w]) \in game.quiet
      /\ SlotOf[cur[w].src] = slot /\ Selected(val[cur[w].src])
      /\ cur[w].ct = val[cur[w].src].ct
  BY <1>1, <1>2, <1>3 DEF HandsSelected, MoveOf
<1>5. QED
  BY <1>2, <1>4 DEF MoveOf, For, QuietFrom

\* The only cell that changes is the one exchanged, and how it changes.
LEMMA WriteStep ==
  ASSUME ExactInv, [Next]_vars, Ready, NEW q \in Pos, val'[q] # val[q]
  PROVE  \E w \in Worker :
           /\ ExchangeCell(w) /\ q = cur[w].pred /\ val[q] = raw[w]
           /\ \/ /\ IsUnknown(val[q]) /\ phase # "Loss" /\ val[q].n # 1
                 /\ val'[q] = Unknown(val[q].n - 1)
              \/ /\ phase = "Loss" /\ val'[q] = Win(cur[w].ct, ply)
                 /\ IsUnknown(val[q]) \/ IsWin(val[q])
              \/ /\ IsUnknown(val[q]) /\ phase # "Loss" /\ val[q].n = 1
                 /\ val'[q] = Loss(cur[w].ct, ply)
<1>1. /\ SolverInv /\ CountInv /\ CounterInv
      /\ TypeOK /\ CellsWellFormed /\ WorkersJoined /\ WithinTables
  BY DEF ExactInv, SolverInv, CountInv
<1>2. /\ stage \notin {"init", "failed"} /\ val' # val
      /\ (stage' = "failed" => stage = "failed")
  BY DEF Ready, Next, SolverStep, WorkerStep, Returned, InitializeBlock,
      InitializeFails, FinishInitialize, SkipScan, BeginScan, FinishScan, EndPly,
      Advance, TakeBlock, LoadCell, LeaveCell, RetryCell, ExchangeCell,
      RecordCell, vars, solverVars
<1>3. stage' # "init"
  <2>1. \A w \in Worker : WorkerStep(w) => stage' = stage
    BY <1>1, WorkersScan DEF solverVars
  <2>2. QED
    BY <1>2, <2>1
    DEF Next, SolverStep, Returned, InitializeBlock, InitializeFails,
        FinishInitialize, SkipScan, BeginScan, FinishScan, EndPly, Advance, vars,
        solverVars
<1>4. PICK w \in Worker : ExchangeCell(w)
  <2>1. ~ FinishInitialize /\ (EndPly => val' = val)
    BY <1>2 DEF FinishInitialize, EndPly
  <2>2. QED
    BY <1>1, <1>2, <1>3, <2>1, LoopStep
<1> DEFINE p == cur[w].pred
           new == NewValue(raw[w], cur[w].ct)
<1>5. /\ p \in Pos /\ val[p] = raw[w] /\ val' = [val EXCEPT ![p] = new]
      /\ \/ IsUnknown(val[p]) /\ phase # "Loss" /\ new = Unknown(val[p].n - 1) /\ val[p].n # 1
         \/ IsUnknown(val[p]) /\ phase = "Loss" /\ new = Win(cur[w].ct, ply)
         \/ IsUnknown(val[p]) /\ phase # "Loss" /\ new = Loss(cur[w].ct, ply) /\ val[p].n = 1
         \/ IsWin(val[p]) /\ phase = "Loss" /\ new = Win(cur[w].ct, ply)
  BY <1>1, <1>4, ExchangeEffect
<1> HIDE DEF p, new
<1>6. q = p /\ val'[q] = new
  BY <1>1, <1>5 DEF TypeOK
<1>7. QED
  BY <1>4, <1>5, <1>6 DEF p

\* Cells without moves are never written; the others become wins or losses at
\* the ply in progress.
LEMMA TerminalsStep ==
  ExactInv /\ OutcomeInv /\ [Next]_vars => Terminals'
<1> SUFFICES ASSUME ExactInv, OutcomeInv, [Next]_vars, Ready', NEW p \in Pos
             PROVE  IF p \notin game.valid \/ NoLegals(p)
                      THEN val'[p] = InitialValue(p)
                      ELSE \/ IsUnknown(val'[p])
                           \/ IsResolved(val'[p]) /\ val'[p].n > 0
  BY MovesKept DEF Terminals
<1>1. TypeOK /\ Terminals /\ game \in Games
  BY DEF ExactInv, SolverInv, OutcomeInv, TypeOK
<1>2. CASE Ready /\ val'[p] = val[p]
  BY <1>1, <1>2 DEF Terminals
<1>3. CASE Ready /\ val'[p] # val[p]
  <2>1. PICK w \in Worker :
           /\ ExchangeCell(w) /\ p = cur[w].pred
           /\ \/ val'[p] = Unknown(val[p].n - 1)
              \/ val'[p] = Win(cur[w].ct, ply)
              \/ val'[p] = Loss(cur[w].ct, ply)
    BY <1>3, WriteStep
  <2>2. p \in game.valid /\ ~ NoLegals(p)
    <3>1. MoveOf(cur[w]) \in game.quiet
      BY <2>1, WorkersMove
    <3>2. MoveOf(cur[w]).from = p
      BY <2>1 DEF MoveOf
    <3>3. QED
      BY <1>1, <3>1, <3>2, QuietTyped
  <2>3. ply > 0
    BY <1>1 DEF TypeOK
  <2>4. QED
    BY <2>1, <2>2, <2>3
    DEF Unknown, Win, Loss, IsUnknown, IsWin, IsLoss, IsResolved
<1>4. CASE ~ Ready
  <2>1. val'[p] = InitialValue(p)
    BY <1>4, ReadyStep
  <2>2. QED
    BY <1>1, <2>1, InitialCases
<1>5. QED
  BY <1>2, <1>3, <1>4

\* A conversion that wins stays the bound of its position's value.
LEMMA ConversionsWinStep ==
  ExactInv /\ OutcomeInv /\ [Next]_vars => ConversionsWin'
<1> SUFFICES ASSUME ExactInv, OutcomeInv, [Next]_vars, Ready',
                    NEW c \in game.conv, c.dep = "Loss"
             PROVE  AtLeast(val'[c.from], c.ct, 1)
  BY MovesKept DEF ConversionsWin, AtLeast
<1>1. SolverInv /\ game \in Games /\ ConversionsWin
  BY DEF ExactInv, SolverInv, OutcomeInv, TypeOK
<1>2. c.from \in Pos /\ c.ct \in ConversionType /\ c \in ConvFrom(c.from)
  BY <1>1, ConversionsTyped
<1>3. CASE Ready
  <2>1. AtLeast(val[c.from], c.ct, 1)
    BY <1>1, <1>3 DEF ConversionsWin
  <2>2. QED
    BY <1>1, <1>2, <2>1, WinsGrow
<1>4. CASE ~ Ready
  <2>1. val'[c.from] = InitialValue(c.from)
    BY <1>2, <1>4, ReadyStep
  <2>2. QED
    BY <1>1, <1>2, <2>1, InitialCases
<1>5. QED
  BY <1>3, <1>4

\* What the scan has selected, cell by cell.
LEMMA SelectedCell ==
  ASSUME TypeOK, CellsWellFormed, NEW p \in Pos, Selected(val[p])
  PROVE  /\ val[p].n = ply - 1 /\ val[p].ct \in ConversionType
         /\ phase = "Loss" => val[p] = Loss(val[p].ct, ply - 1)
         /\ phase # "Loss" => phase \in ConversionType /\ val[p] = Win(phase, ply - 1)
<1>1. val[p] \in Value /\ phase \in Kind
  BY DEF TypeOK
<1>2. CASE phase = "Loss"
  <2>1. IsLoss(val[p]) /\ val[p].n = ply - 1
    BY <1>2 DEF Selected
  <2>2. val[p] = Loss(val[p].ct, ply - 1)
    BY <1>1, <2>1 DEF Value, IsLoss, Loss
  <2>3. QED
    BY <1>2, <2>1, <2>2 DEF CellsWellFormed, IsResolved
<1>3. CASE phase # "Loss"
  <2>1. val[p] = Win(phase, ply - 1) /\ phase \in ConversionType
    BY <1>1, <1>3 DEF Selected, Kind
  <2>2. QED
    BY <1>3, <2>1 DEF Win
<1>4. QED
  BY <1>2, <1>3

\* A new win is the one of the move its worker carries, and the losses that
\* witness the older ones do not change.
LEMMA WinsWitnessedStep ==
  ExactInv /\ OutcomeInv /\ [Next]_vars => WinsWitnessed'
<1> SUFFICES ASSUME ExactInv, OutcomeInv, [Next]_vars, Ready',
                    NEW p \in Pos, IsWin(val'[p])
             PROVE  \/ \E m \in QuietFrom(p) :
                         val'[m.to] = Loss(val'[p].ct, val'[p].n - 1)
                    \/ \E c \in ConvFrom(p) : c.dep = "Loss" /\ val'[p] = Win(c.ct, 1)
  BY MovesKept DEF WinsWitnessed, IsWin
<1>1. /\ SolverInv /\ TypeOK /\ CellsWellFormed /\ game \in Games
      /\ WinsWitnessed
  BY DEF ExactInv, SolverInv, OutcomeInv, TypeOK
<1>2. CASE Ready /\ val'[p] = val[p]
  <2>1. CASE \E c \in ConvFrom(p) : c.dep = "Loss" /\ val[p] = Win(c.ct, 1)
    BY <1>2, <2>1
  <2>2. ASSUME NEW m \in QuietFrom(p), val[m.to] = Loss(val[p].ct, val[p].n - 1)
        PROVE  val'[m.to] = val[m.to]
    <3>1. m.to \in Pos
      BY <1>1, QuietTyped DEF QuietFrom
    <3>2. IsLoss(val[m.to])
      BY <2>2 DEF Loss, IsLoss
    <3>3. QED
      BY <1>1, <3>1, <3>2, OthersStay
  <2>3. \/ \E m \in QuietFrom(p) : val[m.to] = Loss(val[p].ct, val[p].n - 1)
        \/ \E c \in ConvFrom(p) : c.dep = "Loss" /\ val[p] = Win(c.ct, 1)
    BY <1>1, <1>2 DEF WinsWitnessed
  <2>4. QED
    BY <1>2, <2>1, <2>2, <2>3
<1>3. CASE Ready /\ val'[p] # val[p]
  <2>1. PICK w \in Worker :
           /\ ExchangeCell(w) /\ p = cur[w].pred
           /\ \/ val'[p] = Unknown(val[p].n - 1)
              \/ phase = "Loss" /\ val'[p] = Win(cur[w].ct, ply)
              \/ val'[p] = Loss(cur[w].ct, ply)
    BY <1>3, WriteStep
  <2>2. phase = "Loss" /\ val'[p] = Win(cur[w].ct, ply)
    BY <2>1 DEF Unknown, Loss, IsWin
  <2>3. /\ MoveOf(cur[w]) \in QuietFrom(p) /\ Selected(val[cur[w].src])
        /\ cur[w].ct = val[cur[w].src].ct /\ stage = "scan" /\ cur[w] \in Update
    BY <2>1, WorkersMove
  <2>4. cur[w].src \in Pos
    BY <2>3 DEF Update
  <2>5. val[cur[w].src] = Loss(cur[w].ct, ply - 1)
    BY <1>1, <2>2, <2>3, <2>4, SelectedCell
  <2>6. val'[cur[w].src] = val[cur[w].src]
    BY <1>1, <2>3, <2>4, SelectedStays
  <2>7. MoveOf(cur[w]).to = cur[w].src /\ val'[p].ct = cur[w].ct /\ val'[p].n = ply
    BY <2>2 DEF MoveOf, Win
  <2>8. QED
    BY <2>3, <2>5, <2>6, <2>7
<1>4. CASE ~ Ready
  <2>1. val'[p] = InitialValue(p)
    BY <1>4, ReadyStep
  <2>2. QED
    BY <1>1, <2>1, InitialCases
<1>5. QED
  BY <1>2, <1>3, <1>4

\* A worker that leaves a cell alone leaves it at least as good as its move.
LEMMA LeftAsGood ==
  ASSUME ExactInv, OutcomeInv, Ready, NEW w \in Worker, LeaveCell(w),
         NEW m \in game.quiet, For(cur[w], m), phase = "Loss", IsLoss(val[m.to])
  PROVE  AtLeast(val[m.from], val[m.to].ct, ply)
<1>1. /\ TypeOK /\ CellsWellFormed /\ LoadedStays /\ Terminals
      /\ LossesJustified /\ game \in Games /\ ply \in Nat
  BY DEF ExactInv, SolverInv, CounterInv, OutcomeInv, TypeOK
<1>2. /\ pc[w] = "cas" /\ cur[w].pred = m.from /\ cur[w].src = m.to
      /\ cur[w].ct = val[m.to].ct /\ ~ Changes(raw[w], val[m.to].ct)
  BY WorkersMove DEF For, LeaveCell
<1>3. /\ m.from \in Pos /\ m.to \in Pos /\ m.from \in game.valid
      /\ ~ NoLegals(m.from) /\ m \in QuietFrom(m.from)
  BY <1>1, QuietTyped
<1>4. /\ ~ IsUnknown(raw[w])
      /\ IsWin(raw[w]) /\ raw[w].n = ply => ~ (WinRank[val[m.to].ct] > WinRank[raw[w].ct])
  BY <1>2 DEF Changes
<1>5. \/ val[m.from] = raw[w]
      \/ /\ IsWin(val[m.from]) /\ IsWin(raw[w]) /\ val[m.from].n = raw[w].n
         /\ WinRank[val[m.from].ct] >= WinRank[raw[w].ct]
  BY <1>1, <1>2, <1>4 DEF LoadedStays
<1>6. IsResolved(val[m.from])
  BY <1>1, <1>3, <1>4, <1>5 DEF Terminals, IsResolved
<1>7. IsWin(val[m.from])
  <2>1. ASSUME IsLoss(val[m.from])
        PROVE  FALSE
    <3>1. AtMost(val[m.to], val[m.from].ct, val[m.from].n - 1)
      BY <1>1, <1>3, <2>1 DEF LossesJustified
    <3>2. QED
      BY <3>1 DEF AtMost, IsWin, IsLoss
  <2>2. QED
    BY <1>6, <2>1 DEF IsResolved
<1>8. /\ val[m.from].n \in Nat /\ val[m.from].n <= ply
      /\ val[m.from].ct \in ConversionType /\ val[m.to].ct \in ConversionType
  BY <1>1, <1>3, <1>6 DEF TypeOK, CellsWellFormed, Value, IsResolved
<1>9. CASE val[m.from].n < ply
  BY <1>7, <1>9 DEF AtLeast
<1>10. CASE val[m.from].n = ply
  <2>1. IsWin(raw[w]) /\ raw[w].n = ply /\ raw[w].ct \in ConversionType
    <3>1. IsWin(raw[w]) /\ raw[w].n = ply
      BY <1>5, <1>7, <1>10
    <3>2. QED
      BY <1>1, <3>1 DEF CellsWellFormed, IsResolved
  <2>2. WinRank[val[m.from].ct] >= WinRank[raw[w].ct]
    BY <1>5, <1>8, <2>1, Ranks
  <2>3. WinRank[raw[w].ct] >= WinRank[val[m.to].ct]
    BY <1>4, <1>8, <2>1, Ranks
  <2>4. WinRank[val[m.from].ct] >= WinRank[val[m.to].ct]
    BY <1>8, <2>1, <2>2, <2>3, Ranks
  <2>5. QED
    BY <1>7, <1>10, <2>4 DEF AtLeast
<1>11. QED
  BY <1>1, <1>8, <1>9, <1>10

\* A move to a loss that passes has made its position a win as good.
LEMMA WinsMarkedStep ==
  ExactInv /\ OutcomeInv /\ [Next]_vars => WinsMarked'
<1> SUFFICES ASSUME ExactInv, OutcomeInv, [Next]_vars, Ready',
                    NEW m \in game.quiet, IsLoss(val'[m.to]), Passed(m)'
             PROVE  AtLeast(val'[m.from], val'[m.to].ct, val'[m.to].n + 1)
  BY MovesKept DEF WinsMarked, AtLeast, IsLoss
<1>1. /\ SolverInv /\ CountInv /\ CounterInv /\ TypeOK /\ CellsWellFormed
      /\ WithinTables /\ WorkersJoined /\ game \in Games
  BY DEF ExactInv, SolverInv, CountInv, TypeOK
<1>2. m.from \in Pos /\ m.to \in Pos
  BY <1>1, QuietTyped
<1>3. ASSUME Ready, val'[m.to] = val[m.to], Passed(m)
      PROVE  AtLeast(val'[m.from], val'[m.to].ct, val'[m.to].n + 1)
  <2>1. AtLeast(val[m.from], val[m.to].ct, val[m.to].n + 1)
    BY <1>3 DEF OutcomeInv, WinsMarked
  <2>2. val[m.to].ct \in ConversionType /\ val[m.to].n + 1 \in Nat
    BY <1>1, <1>2, <1>3 DEF TypeOK, CellsWellFormed, Value, IsResolved
  <2>3. QED
    BY <1>1, <1>2, <1>3, <2>1, <2>2, WinsGrow
<1>4. CASE Ready /\ val' = val /\ (Passed(m)' <=> Passed(m))
  BY <1>3, <1>4
<1>5. ASSUME NEW w \in Worker, Ready, LeaveCell(w) \/ ExchangeCell(w)
      PROVE  AtLeast(val'[m.from], val'[m.to].ct, val'[m.to].n + 1)
  <2>1. /\ Passed(m)' <=> Passed(m) \/ For(cur[w], m)
        /\ For(cur[w], m) => ~ Passed(m) /\ Sought(m)
        /\ Passed(m) \/ For(cur[w], m) => val'[m.to] = val[m.to]
    BY <1>1, <1>5, PassedOnce
  <2>2. CASE Passed(m)
    BY <1>3, <1>5, <2>1, <2>2
  <2>3. CASE For(cur[w], m) /\ Sought(m)
    <3>1. phase = "Loss" /\ val[m.to].n = ply - 1 /\ IsLoss(val[m.to])
      BY <2>1, <2>3 DEF Sought, KindOf
    <3>2. val'[m.to].n + 1 = ply /\ ply \in Nat /\ val[m.to].ct \in ConversionType
      BY <1>1, <1>2, <2>1, <3>1 DEF TypeOK, CellsWellFormed, IsResolved
    <3>3. CASE LeaveCell(w)
      <4>1. AtLeast(val[m.from], val[m.to].ct, ply)
        BY <1>5, <2>3, <3>1, <3>3, LeftAsGood
      <4>2. QED
        BY <1>1, <1>2, <2>1, <3>2, <4>1, WinsGrow
    <3>4. CASE ExchangeCell(w)
      <4>1. cur[w].pred = m.from /\ cur[w].ct = val[m.to].ct
        BY <2>3, <3>4, WorkersMove DEF For
      <4>2. val' = [val EXCEPT ![m.from] = Win(val[m.to].ct, ply)]
        BY <3>1, <3>4, <4>1 DEF ExchangeCell, NewValue
      <4>3. val'[m.from] = Win(val[m.to].ct, ply)
        BY <1>1, <1>2, <4>2 DEF TypeOK
      <4>4. QED
        BY <2>1, <3>2, <4>3, Ranks DEF AtLeast, Win, IsWin
    <3>5. QED
      BY <1>5, <3>3, <3>4
  <2>4. QED
    BY <2>1, <2>2, <2>3
<1>6. CASE ~ Ready
  <2>1. /\ stage' = "next" /\ ply' = 1 /\ phase' = "Loss" /\ slot' = 0
        /\ val' = val
    BY <1>6, ReadyStep
  <2>2. val[m.to].n \in Nat /\ SlotOf[m.to] \in Nat
    BY <1>1, <1>2, SlotAssumption DEF TypeOK, Value, Slot
  <2>3. KindOf(val[m.to]) = "Loss"
    BY <2>1 DEF KindOf
  <2>4. \/ val[m.to].n < 0
        \/ ScanEnded("Loss", SlotOf[m.to])'
    <3>1. \/ val[m.to].n < ply' - 1
          \/ ScanEnded(KindOf(val[m.to]), SlotOf[m.to])'
          \/ stage' = "scan"
      BY <2>1 DEF Passed, KindOf, ScanEnded, IsLoss
    <3>2. QED
      BY <2>1, <2>2, <2>3, <3>1 DEF ScanEnded, KindOf, IsLoss
  <2>5. ~ ScanEnded("Loss", SlotOf[m.to])'
    BY <2>1, <2>2 DEF ScanEnded, PhaseIndex
  <2>6. QED
    BY <2>2, <2>4, <2>5
<1>7. \/ ~ Ready
      \/ \E w \in Worker : LeaveCell(w) \/ ExchangeCell(w)
      \/ Ready /\ val' = val /\ (Passed(m)' <=> Passed(m))
  BY <1>1, ReadyStep, PassedKept DEF Ready
<1>8. QED
  BY <1>4, <1>5, <1>6, <1>7

\* A counter that runs out has counted every move: when the last one is
\* subtracted, all the others lead to wins already passed.
LEMMA LastMove ==
  ASSUME ExactInv, OutcomeInv, Ready, [Next]_vars, NEW w \in Worker,
         ExchangeCell(w), NEW p \in Pos, p = cur[w].pred, phase # "Loss",
         IsUnknown(val[p]), val[p].n = 1
  PROVE  /\ \A m \in QuietFrom(p) :
              /\ val[m.to].n \in Nat /\ val[m.to].n < ply
              /\ AtMost(val[m.to], cur[w].ct, ply - 1)
         /\ \A c \in ConvFrom(p) : c.dep = "Win"
         /\ MoveOf(cur[w]) \in QuietFrom(p)
         /\ val[cur[w].src] = Win(cur[w].ct, ply - 1) /\ ply > 1
<1>1. /\ SolverInv /\ CountInv /\ CounterInv /\ TypeOK /\ CellsWellFormed
      /\ CountersExact /\ Terminals /\ game \in Games /\ ply \in Nat
  BY DEF ExactInv, SolverInv, CounterInv, OutcomeInv, TypeOK
<1> DEFINE d == MoveOf(cur[w])
<1>2. /\ d \in QuietFrom(p) /\ d \in game.quiet /\ For(cur[w], d)
      /\ d.to = cur[w].src /\ Selected(val[cur[w].src]) /\ stage = "scan"
      /\ cur[w].ct = val[cur[w].src].ct /\ cur[w].src \in Pos
      /\ SlotOf[cur[w].src] = slot
  BY WorkersMove DEF MoveOf, Update
<1>3. ~ Delivered(d)
  BY <1>1, <1>2, DeliveredOnce
<1> HIDE DEF d
<1>4. /\ phase \in ConversionType /\ cur[w].ct = phase
      /\ val[cur[w].src] = Win(cur[w].ct, ply - 1)
  <2>1. phase \in ConversionType /\ val[cur[w].src] = Win(phase, ply - 1)
    BY <1>1, <1>2, SelectedCell
  <2>2. val[cur[w].src].ct = phase
    BY <2>1 DEF Win
  <2>3. QED
    BY <1>2, <2>1, <2>2
<1>5. /\ Cardinality(Open(p)) + Cardinality({c \in ConvFrom(p) : c.dep # "Win"}) = 1
      /\ IsFiniteSet(Open(p)) /\ Cardinality(Open(p)) \in Nat
      /\ Cardinality({c \in ConvFrom(p) : c.dep # "Win"}) \in Nat
  BY <1>1, OpenFinite DEF CountersExact, Ready, Open
<1>6. d \in Open(p)
  BY <1>2, <1>3 DEF Open
<1>7. Cardinality(Open(p)) = 1
  <2>1. Cardinality(Open(p)) # 0
    BY <1>5, <1>6, FS_EmptySet
  <2>2. QED
    BY <1>5, <2>1
<1>8. Open(p) = {d}
  BY <1>5, <1>6, <1>7, FS_Singleton
<1>9. \A c \in ConvFrom(p) : c.dep = "Win"
  <2>1. Cardinality({c \in ConvFrom(p) : c.dep # "Win"}) = 0
    BY <1>5, <1>7
  <2>2. IsFiniteSet({c \in ConvFrom(p) : c.dep # "Win"})
    <3>1. IsFiniteSet(game.conv)
      BY <1>1, GamesAssumption
    <3>2. {c \in ConvFrom(p) : c.dep # "Win"} \in SUBSET game.conv
      BY DEF ConvFrom
    <3>3. QED
      BY <3>1, <3>2, FS_Subset
  <2>3. QED
    BY <2>1, <2>2, FS_EmptySet
<1>10. ASSUME NEW m \in QuietFrom(p)
       PROVE  /\ val[m.to].n \in Nat /\ val[m.to].n < ply
              /\ AtMost(val[m.to], cur[w].ct, ply - 1)
  <2>1. m.to \in Pos /\ val[m.to] \in Value /\ val[m.to].n \in Nat
    BY <1>1, QuietTyped DEF QuietFrom, TypeOK, Value
  <2>2. CASE m = d
    <3>1. val[m.to] = Win(phase, ply - 1)
      BY <1>2, <1>4, <2>2
    <3>2. IsWin(val[m.to]) /\ val[m.to].n = ply - 1 /\ val[m.to].ct = phase
      BY <3>1 DEF Win, IsWin
    <3>3. QED
      BY <1>1, <1>4, <2>1, <3>2, Ranks DEF AtMost
  <2>3. CASE m # d
    <3>1. Delivered(m)
      BY <1>8, <2>3 DEF Open
    <3>2. /\ IsWin(val[m.to])
          /\ \/ val[m.to].n < ply - 1
             \/ val[m.to].n = ply - 1 /\ ScanEnded(val[m.to].ct, SlotOf[m.to])
             \/ val[m.to].n = ply - 1 /\ val[m.to].ct = phase
      BY <3>1 DEF Delivered
    <3>3. val[m.to].ct \in ConversionType
      BY <1>1, <2>1, <3>2 DEF CellsWellFormed, IsResolved
    <3>4. ScanEnded(val[m.to].ct, SlotOf[m.to]) =>
            \/ PhaseIndex[val[m.to].ct] < PhaseIndex[phase]
            \/ val[m.to].ct = phase
      BY <1>2 DEF ScanEnded
    <3>5. \/ val[m.to].n < ply - 1
          \/ /\ val[m.to].n = ply - 1
             /\ LossRank[val[m.to].ct] <= LossRank[phase]
      BY <1>4, <3>2, <3>3, <3>4, RankByPhase
    <3>6. QED
      BY <1>1, <1>4, <2>1, <3>2, <3>5 DEF AtMost
  <2>4. QED
    BY <2>2, <2>3
<1>11. ply > 1
  <2>1. IsWin(val[cur[w].src]) /\ val[cur[w].src].n = ply - 1
    BY <1>4 DEF Win, IsWin
  <2>2. val[cur[w].src].n > 0
    <3>1. CASE cur[w].src \notin game.valid \/ NoLegals(cur[w].src)
      <4>1. val[cur[w].src] = InitialValue(cur[w].src)
        BY <1>1, <1>2, <3>1 DEF Terminals, Ready
      <4>2. QED
        BY <1>2, <2>1, <4>1, InitialWins
    <3>2. CASE ~ (cur[w].src \notin game.valid \/ NoLegals(cur[w].src))
      BY <1>1, <1>2, <2>1, <3>2 DEF Terminals, Ready, IsUnknown, IsWin
    <3>3. QED
      BY <3>1, <3>2
  <2>3. QED
    BY <1>1, <2>1, <2>2
<1>12. QED
  BY <1>2, <1>4, <1>9, <1>10, <1>11 DEF d

\* A new loss has had its every move counted down; an older one keeps the wins
\* that justify it, which are of earlier plies.
LEMMA LossesJustifiedStep ==
  ExactInv /\ OutcomeInv /\ [Next]_vars => LossesJustified'
<1> SUFFICES ASSUME ExactInv, OutcomeInv, [Next]_vars, Ready',
                    NEW p \in Pos, IsLoss(val'[p]), ~ NoLegals(p)
             PROVE  /\ \A m \in QuietFrom(p) : AtMost(val'[m.to], val'[p].ct, val'[p].n - 1)
                    /\ \A c \in ConvFrom(p) :
                         /\ c.dep = "Win"
                         /\ val'[p].n = 1 => LossRank[c.ct] <= LossRank[val'[p].ct]
                    /\ \/ \E m \in QuietFrom(p) : val'[m.to] = Win(val'[p].ct, val'[p].n - 1)
                       \/ \E c \in ConvFrom(p) : val'[p] = Loss(c.ct, 1)
  BY MovesKept DEF LossesJustified, IsLoss, AtMost
<1>1. /\ SolverInv /\ TypeOK /\ CellsWellFormed /\ game \in Games /\ ply \in Nat
      /\ LossesJustified
  BY DEF ExactInv, SolverInv, OutcomeInv, TypeOK
<1>2. \A m \in QuietFrom(p) : m.to \in Pos /\ val[m.to] \in Value /\ val[m.to].n \in Nat
  BY <1>1, QuietTyped DEF QuietFrom, TypeOK, Value
<1>3. ASSUME NEW m \in QuietFrom(p), NEW ct, NEW n \in Int, n < ply,
             AtMost(val[m.to], ct, n)
      PROVE  val'[m.to] = val[m.to]
  <2>1. IsWin(val[m.to]) /\ val[m.to].n < ply
    BY <1>1, <1>2, <1>3 DEF AtMost
  <2>2. QED
    BY <1>1, <1>2, <2>1, OthersStay
<1>4. CASE Ready /\ val'[p] = val[p]
  <2>1. val[p].n - 1 \in Int /\ val[p].n - 1 < ply
    BY <1>1, <1>4 DEF TypeOK, Value, CellsWellFormed, IsResolved
  <2>2. /\ \A m \in QuietFrom(p) : AtMost(val[m.to], val[p].ct, val[p].n - 1)
        /\ \A c \in ConvFrom(p) :
             /\ c.dep = "Win"
             /\ val[p].n = 1 => LossRank[c.ct] <= LossRank[val[p].ct]
        /\ \/ \E m \in QuietFrom(p) : val[m.to] = Win(val[p].ct, val[p].n - 1)
           \/ \E c \in ConvFrom(p) : val[p] = Loss(c.ct, 1)
    BY <1>1, <1>4 DEF LossesJustified
  <2>3. \A m \in QuietFrom(p) : val'[m.to] = val[m.to]
    BY <1>3, <2>1, <2>2
  <2>4. QED
    BY <1>4, <2>2, <2>3
<1>5. CASE Ready /\ val'[p] # val[p]
  <2>1. PICK w \in Worker :
           /\ ExchangeCell(w) /\ p = cur[w].pred
           /\ \/ val'[p] = Unknown(val[p].n - 1)
              \/ val'[p] = Win(cur[w].ct, ply)
              \/ /\ IsUnknown(val[p]) /\ phase # "Loss" /\ val[p].n = 1
                 /\ val'[p] = Loss(cur[w].ct, ply)
    BY <1>5, WriteStep
  <2>2. /\ IsUnknown(val[p]) /\ phase # "Loss" /\ val[p].n = 1
        /\ val'[p] = Loss(cur[w].ct, ply)
    BY <2>1 DEF Unknown, Win, IsLoss
  <2>3. val'[p].ct = cur[w].ct /\ val'[p].n = ply
    BY <2>2 DEF Loss
  <2>4. /\ \A m \in QuietFrom(p) : AtMost(val[m.to], cur[w].ct, ply - 1)
        /\ \A c \in ConvFrom(p) : c.dep = "Win"
        /\ MoveOf(cur[w]) \in QuietFrom(p)
        /\ val[cur[w].src] = Win(cur[w].ct, ply - 1) /\ ply > 1
    BY <1>5, <2>1, <2>2, LastMove
  <2>5. \A m \in QuietFrom(p) : val'[m.to] = val[m.to]
    BY <1>1, <1>3, <2>4
  <2>6. MoveOf(cur[w]).to = cur[w].src
    BY DEF MoveOf
  <2>7. /\ \A m \in QuietFrom(p) : AtMost(val'[m.to], val'[p].ct, val'[p].n - 1)
        /\ val'[MoveOf(cur[w]).to] = Win(val'[p].ct, val'[p].n - 1)
    BY <2>3, <2>4, <2>5, <2>6
  <2>8. val'[p].n # 1
    BY <1>1, <2>3, <2>4
  <2>9. QED
    BY <2>4, <2>7, <2>8
<1>6. CASE ~ Ready
  <2>1. val'[p] = InitialValue(p)
    BY <1>6, ReadyStep
  <2>2. /\ QuietFrom(p) = {}
        /\ \A c \in ConvFrom(p) :
             c.dep = "Win" /\ LossRank[c.ct] <= LossRank[InitialValue(p).ct]
        /\ \E c \in ConvFrom(p) : InitialValue(p) = Loss(c.ct, 1)
    BY <1>1, <2>1, InitialCases
  <2>3. QED
    BY <2>1, <2>2
<1>7. QED
  BY <1>4, <1>5, <1>6

\* The loop ends at a ply that has counted nothing, so that resolved nothing.
LEMMA NothingLastStep ==
  ExactInv /\ OutcomeInv /\ [Next]_vars => NothingLast'
<1> SUFFICES ASSUME ExactInv, OutcomeInv, [Next]_vars, stage' = "solved",
                    NEW p \in Pos, IsResolved(val'[p])
             PROVE  val'[p].n < ply'
  BY DEF NothingLast, IsResolved, IsWin, IsLoss
<1>1. /\ TypeOK /\ CellsWellFormed /\ WorkersJoined /\ PlyCountsExact
      /\ NothingLast /\ ply \in Nat
  BY DEF ExactInv, SolverInv, CountInv, OutcomeInv, TypeOK
<1>2. \A w \in Worker : WorkerStep(w) => stage = "scan" /\ stage' = stage
  BY <1>1, WorkersScan DEF solverVars
<1>3. CASE EndPly
  <2>1. /\ stage = "endply" /\ val' = val /\ ply' = ply /\ found = NoneFound
    BY <1>3 DEF EndPly
  <2>2. SlotOf[p] \in Slot /\ val[p] \in Value /\ val[p].n \in Nat /\ val[p].n <= ply
    BY <1>1, <2>1, SlotAssumption DEF TypeOK, Value, CellsWellFormed
  <2>3. /\ found[SlotOf[p]].wins = 0 /\ found[SlotOf[p]].losses = 0
    BY <2>1, <2>2 DEF NoneFound
  <2>4. /\ Cardinality(At(val, SlotOf[p], "win", ply)) = 0
        /\ Cardinality(At(val, SlotOf[p], "loss", ply)) = 0
    BY <1>1, <2>1, <2>2, <2>3 DEF PlyCountsExact, ResolvedAt, At
  <2>5. /\ At(val, SlotOf[p], "win", ply) = {}
        /\ At(val, SlotOf[p], "loss", ply) = {}
    BY <2>4, AtFinite
  <2>6. val[p].n # ply
    BY <2>1, <2>5 DEF At, IsResolved, IsWin, IsLoss
  <2>7. QED
    BY <1>1, <2>1, <2>2, <2>6
<1>4. CASE UNCHANGED vars
  BY <1>1, <1>4 DEF NothingLast, vars, solverVars
<1>5. QED
  BY <1>2, <1>3, <1>4
  DEF Next, SolverStep, Returned, InitializeBlock, InitializeFails,
      FinishInitialize, SkipScan, BeginScan, FinishScan, Advance, solverVars

\* The outcomes are inductive, with what is known of counts and counters.
LEMMA OutcomeInit == Init => OutcomeInv
BY SlotAssumption, PosAssumption, GamesAssumption, BlockSlot
DEF Init, OutcomeInv, Ready, NoneMissing, Terminals, ConversionsWin, WinsMarked,
    WinsWitnessed, LossesJustified, NothingLast, Slot, Game, Conversion

\* Throughout a run of the solver, every win has its winning move, every loss
\* has all its moves lost, and no move passed by a scan would do better.
THEOREM OutcomeInvariant == Spec => [](ExactInv /\ OutcomeInv)
<1>1. Init => ExactInv /\ OutcomeInv
  BY ExactInit, OutcomeInit
<1>2. ExactInv /\ OutcomeInv /\ [Next]_vars => (ExactInv /\ OutcomeInv)'
  BY ExactNext, NoneMissingStep, TerminalsStep, ConversionsWinStep, WinsMarkedStep,
     WinsWitnessedStep, LossesJustifiedStep, NothingLastStep
  DEF OutcomeInv
<1>3. QED
  BY <1>1, <1>2, PTL DEF Spec

-------------------------------------------------------------------------------
(* The finished table is consistent.                                        *)

\* An outcome better than every other one is the best.
LEMMA BestIs ==
  ASSUME NEW S, NEW v \in S, ~ Better(v, v),
         \A w \in S : w = v \/ (Better(v, w) /\ ~ Better(w, v))
  PROVE  Best(S) = v
<1>1. \A w \in S : ~ Better(w, v)
  OBVIOUS
<1>2. \A u \in S : (\A w \in S : ~ Better(w, u)) => u = v
  OBVIOUS
<1>3. QED
  BY <1>1, <1>2 DEF Best

\* What a win is preferred to.
LEMMA WinPreferred ==
  ASSUME NEW v \in Value, IsWin(v), v.ct \in ConversionType
  PROVE  /\ ~ Better(v, v)
         /\ \A w : ~ IsWin(w) => Better(v, w) /\ ~ Better(w, v)
         /\ \A ct \in ConversionType : \A n \in Nat : AtLeast(v, ct, n) =>
              LET w == Win(ct, n)
              IN  w = v \/ (Better(v, w) /\ ~ Better(w, v))
<1>1. v.n \in Nat /\ ~ IsLoss(v) /\ v = Win(v.ct, v.n)
  BY DEF Value, IsWin, IsLoss, Win
<1>2. ~ Better(v, v)
  BY <1>1, Ranks DEF Better
<1>3. \A w : ~ IsWin(w) => Better(v, w) /\ ~ Better(w, v)
  BY <1>1 DEF Better
<1>4. ASSUME NEW ct \in ConversionType, NEW n \in Nat, AtLeast(v, ct, n)
      PROVE  LET w == Win(ct, n)
             IN  w = v \/ (Better(v, w) /\ ~ Better(w, v))
  <2> DEFINE w == Win(ct, n)
  <2>1. IsWin(w) /\ ~ IsLoss(w) /\ w.n = n /\ w.ct = ct
    BY DEF Win, IsWin, IsLoss
  <2> SUFFICES w = v \/ (Better(v, w) /\ ~ Better(w, v))
    OBVIOUS
  <2> HIDE DEF w
  <2>2. CASE v.n < n
    BY <1>1, <2>1, <2>2 DEF Better
  <2>3. CASE v.n = n /\ WinRank[v.ct] = WinRank[ct]
    <3>1. v.ct = ct
      BY <2>3, Ranks
    <3>2. QED
      BY <1>1, <2>3, <3>1 DEF w
  <2>4. CASE v.n = n /\ WinRank[v.ct] > WinRank[ct]
    BY <1>1, <2>1, <2>4, Ranks DEF Better
  <2>5. \/ v.n < n
        \/ v.n = n /\ WinRank[v.ct] = WinRank[ct]
        \/ v.n = n /\ WinRank[v.ct] > WinRank[ct]
    BY <1>4, Ranks DEF AtLeast
  <2>6. QED
    BY <2>2, <2>3, <2>4, <2>5
<1>5. QED
  BY <1>2, <1>3, <1>4

\* Which losses a loss is preferred to: the shorter ones, and those of types
\* the losing side likes less.
LEMMA LossPreferred ==
  ASSUME NEW v \in Value, IsLoss(v), v.ct \in ConversionType,
         NEW ct \in ConversionType, NEW n \in Nat,
         n < v.n \/ (n = v.n /\ LossRank[ct] <= LossRank[v.ct])
  PROVE  LET w == Loss(ct, n)
         IN  /\ ~ Better(v, v)
             /\ w = v \/ (Better(v, w) /\ ~ Better(w, v))
<1> DEFINE w == Loss(ct, n)
<1>1. v.n \in Nat /\ ~ IsWin(v) /\ v = Loss(v.ct, v.n)
  BY DEF Value, IsWin, IsLoss, Loss
<1>2. IsLoss(w) /\ ~ IsWin(w) /\ w.n = n /\ w.ct = ct
  BY DEF Loss, IsWin, IsLoss
<1> SUFFICES ~ Better(v, v) /\ (w = v \/ (Better(v, w) /\ ~ Better(w, v)))
  OBVIOUS
<1> HIDE DEF w
<1>3. ~ Better(v, v)
  BY <1>1, Ranks DEF Better
<1>4. CASE n < v.n
  BY <1>1, <1>2, <1>3, <1>4 DEF Better
<1>5. CASE n = v.n /\ LossRank[ct] = LossRank[v.ct]
  <2>1. v.ct = ct
    BY <1>5, Ranks
  <2>2. QED
    BY <1>1, <1>3, <1>5, <2>1 DEF w
<1>6. CASE n = v.n /\ LossRank[ct] < LossRank[v.ct]
  <2>1. WinRank[v.ct] < WinRank[ct] /\ ~ (WinRank[ct] < WinRank[v.ct])
    BY <1>6, Ranks
  <2>2. QED
    BY <1>1, <1>2, <1>3, <1>6, <2>1 DEF Better
<1>7. \/ n < v.n
      \/ n = v.n /\ LossRank[ct] = LossRank[v.ct]
      \/ n = v.n /\ LossRank[ct] < LossRank[v.ct]
  BY Ranks
<1>8. QED
  BY <1>4, <1>5, <1>6, <1>7

\* What a draw is preferred to.
LEMMA DrawPreferred ==
  /\ ~ Better(Draw, Draw)
  /\ \A w : IsLoss(w) /\ ~ IsWin(w) => Better(Draw, w) /\ ~ Better(w, Draw)
<1>1. ~ IsWin(Draw) /\ ~ IsLoss(Draw)
  BY DEF Draw, IsWin, IsLoss
<1>2. QED
  BY <1>1 DEF Better

\* The values of moves by what they lead to.
LEMMA MoveValueCases ==
  /\ \A v : /\ IsLoss(v) => QuietMoveValue(v) = Win(v.ct, v.n + 1)
            /\ IsWin(v) => QuietMoveValue(v) = Loss(v.ct, v.n + 1)
            /\ ~ IsLoss(v) /\ ~ IsWin(v) => QuietMoveValue(v) = Draw
  /\ \A ct : /\ ConversionMoveValue(ct, "Loss") = Win(ct, 1)
             /\ ConversionMoveValue(ct, "Win") = Loss(ct, 1)
             /\ \A dep : dep # "Loss" /\ dep # "Win" =>
                  ConversionMoveValue(ct, dep) = Draw
BY DEF QuietMoveValue, ConversionMoveValue, IsLoss, IsWin

\* Publishing a cell does not change wins and losses, and makes none.
LEMMA PublishedCases ==
  ASSUME NEW p
  PROVE  /\ IsWin(Published(p)) <=> IsWin(val[p])
         /\ IsLoss(Published(p)) <=> IsLoss(val[p])
         /\ ~ IsUnknown(val[p]) => Published(p) = val[p]
         /\ IsUnknown(val[p]) => Published(p) = Draw
BY DEF Published, IsUnknown, IsWin, IsLoss, Draw

\* The kinds of outcomes exclude each other.
LEMMA KindsDiffer ==
  /\ \A ct, n : /\ IsWin(Win(ct, n)) /\ ~ IsLoss(Win(ct, n))
                /\ IsLoss(Loss(ct, n)) /\ ~ IsWin(Loss(ct, n))
  /\ ~ IsWin(Draw) /\ ~ IsLoss(Draw) /\ ~ IsUnknown(Draw)
  /\ ~ IsUnknown(Invalid) /\ ~ IsWin(Invalid) /\ ~ IsLoss(Invalid)
  /\ \A v : /\ ~ (IsWin(v) /\ IsLoss(v)) /\ ~ (IsWin(v) /\ IsUnknown(v))
            /\ ~ (IsLoss(v) /\ IsUnknown(v))
            /\ IsResolved(v) <=> IsWin(v) \/ IsLoss(v)
BY DEF Win, Loss, Draw, Invalid, IsWin, IsLoss, IsUnknown, IsResolved

\* When the pair is solved, every move to a win or a loss has been passed.
LEMMA AllPassed ==
  ASSUME ExactInv, OutcomeInv, stage = "solved", NEW m \in game.quiet,
         IsResolved(val[m.to])
  PROVE  Passed(m)
<1>1. m.to \in Pos /\ val[m.to].n \in Nat /\ ply \in Nat
  BY QuietTyped DEF ExactInv, SolverInv, TypeOK, Value
<1>2. val[m.to].n < ply
  BY <1>1 DEF OutcomeInv, NothingLast
<1>3. val[m.to].n < ply - 1 \/ val[m.to].n = ply - 1
  BY <1>1, <1>2
<1>4. ScanEnded(KindOf(val[m.to]), SlotOf[m.to])
  BY DEF ScanEnded
<1>5. QED
  BY <1>3, <1>4 DEF Passed

\* A finished win is the best of its moves: one achieves it, and every move
\* to a loss has been passed.
LEMMA WinVerified ==
  ASSUME ExactInv, OutcomeInv, stage = "solved", NEW p \in Pos, IsWin(val[p])
  PROVE  Best(MoveValues(p)) = val[p]
<1>1. /\ TypeOK /\ CellsWellFormed /\ game \in Games /\ Ready
      /\ ConversionsWin /\ WinsMarked /\ WinsWitnessed
  BY DEF ExactInv, SolverInv, OutcomeInv, TypeOK, Ready
<1> DEFINE v == val[p]
<1>2. v \in Value /\ IsWin(v) /\ v.ct \in ConversionType /\ v.n \in Nat
  BY <1>1 DEF TypeOK, CellsWellFormed, IsResolved, Value
<1>3. /\ \A m \in QuietFrom(p) : /\ m \in game.quiet /\ m.from = p /\ m.to \in Pos
                                 /\ val[m.to].n + 1 \in Nat
                                 /\ IsLoss(val[m.to]) => val[m.to].ct \in ConversionType
      /\ \A c \in ConvFrom(p) : c \in game.conv /\ c.from = p /\ c.ct \in ConversionType
  BY <1>1, QuietTyped, ConversionsTyped
  DEF QuietFrom, ConvFrom, TypeOK, Value, CellsWellFormed, IsResolved
<1>4. v = Win(v.ct, v.n)
  BY <1>2 DEF Value, Win, IsWin
<1>5. v \in MoveValues(p)
  <2>1. CASE \E m \in QuietFrom(p) : val[m.to] = Loss(v.ct, v.n - 1)
    <3>1. PICK m \in QuietFrom(p) : val[m.to] = Loss(v.ct, v.n - 1)
      BY <2>1
    <3>2. /\ IsLoss(val[m.to]) /\ ~ IsUnknown(val[m.to])
          /\ val[m.to].ct = v.ct /\ val[m.to].n + 1 = v.n
      BY <1>2, <3>1 DEF Loss, IsLoss, IsUnknown
    <3>3. Published(m.to) = val[m.to]
      BY <3>2, PublishedCases
    <3>4. QuietMoveValue(Published(m.to)) = v
      BY <1>4, <3>2, <3>3, MoveValueCases
    <3>5. QED
      BY <3>4 DEF MoveValues
  <2>2. CASE \E c \in ConvFrom(p) : c.dep = "Loss" /\ v = Win(c.ct, 1)
    <3>1. PICK c \in ConvFrom(p) : c.dep = "Loss" /\ v = Win(c.ct, 1)
      BY <2>2
    <3>2. ConversionMoveValue(c.ct, c.dep) = v
      BY <3>1, MoveValueCases
    <3>3. QED
      BY <3>2 DEF MoveValues
  <2>3. QED
    BY <1>1, <2>1, <2>2 DEF WinsWitnessed
<1> HIDE DEF v
<1>6. ASSUME NEW w \in MoveValues(p)
      PROVE  w = v \/ (Better(v, w) /\ ~ Better(w, v))
  <2>1. ASSUME NEW m \in QuietFrom(p), w = QuietMoveValue(Published(m.to))
        PROVE  w = v \/ (Better(v, w) /\ ~ Better(w, v))
    <3>1. CASE IsLoss(val[m.to])
      <4>1. Passed(m)
        BY <1>3, <3>1, AllPassed DEF IsResolved
      <4>2. AtLeast(v, val[m.to].ct, val[m.to].n + 1)
        BY <1>1, <1>3, <3>1, <4>1 DEF WinsMarked, v
      <4>3. w = Win(val[m.to].ct, val[m.to].n + 1)
        BY <2>1, <3>1, PublishedCases, MoveValueCases, KindsDiffer
      <4>4. QED
        BY <1>2, <1>3, <3>1, <4>2, <4>3, WinPreferred
    <3>2. CASE ~ IsLoss(val[m.to])
      <4>1. ~ IsWin(w)
        BY <2>1, <3>2, PublishedCases, MoveValueCases, KindsDiffer
      <4>2. QED
        BY <1>2, <4>1, WinPreferred
    <3>3. QED
      BY <3>1, <3>2
  <2>2. ASSUME NEW c \in ConvFrom(p), w = ConversionMoveValue(c.ct, c.dep)
        PROVE  w = v \/ (Better(v, w) /\ ~ Better(w, v))
    <3>1. CASE c.dep = "Loss"
      <4>1. AtLeast(v, c.ct, 1)
        BY <1>1, <1>3, <3>1 DEF ConversionsWin, v
      <4>2. w = Win(c.ct, 1)
        BY <2>2, <3>1, MoveValueCases
      <4>3. QED
        BY <1>2, <1>3, <4>1, <4>2, WinPreferred
    <3>2. CASE c.dep # "Loss"
      <4>1. ~ IsWin(w)
        BY <2>2, <3>2, MoveValueCases, KindsDiffer
      <4>2. QED
        BY <1>2, <4>1, WinPreferred
    <3>3. QED
      BY <3>1, <3>2
  <2>3. QED
    BY <2>1, <2>2 DEF MoveValues
<1>7. Best(MoveValues(p)) = v
  BY <1>2, <1>5, <1>6, WinPreferred, BestIs
<1>8. QED
  BY <1>7 DEF v

\* A finished loss is the best of its moves: they all lose, no later, and one
\* as late.
LEMMA LossVerified ==
  ASSUME ExactInv, OutcomeInv, stage = "solved", NEW p \in Pos, IsLoss(val[p]),
         ~ NoLegals(p), p \in game.valid
  PROVE  Best(MoveValues(p)) = val[p]
<1>1. /\ TypeOK /\ CellsWellFormed /\ game \in Games /\ Ready
      /\ LossesJustified /\ Terminals
  BY DEF ExactInv, SolverInv, OutcomeInv, TypeOK, Ready
<1> DEFINE v == val[p]
<1>2. /\ v \in Value /\ IsLoss(v) /\ v.ct \in ConversionType /\ v.n \in Nat
      /\ v.n > 0
  BY <1>1, KindsDiffer DEF TypeOK, CellsWellFormed, IsResolved, Value, Terminals
<1>3. /\ \A m \in QuietFrom(p) : AtMost(val[m.to], v.ct, v.n - 1)
      /\ \A c \in ConvFrom(p) :
           /\ c.dep = "Win"
           /\ v.n = 1 => LossRank[c.ct] <= LossRank[v.ct]
      /\ \/ \E m \in QuietFrom(p) : val[m.to] = Win(v.ct, v.n - 1)
         \/ \E c \in ConvFrom(p) : v = Loss(c.ct, 1)
  BY <1>1 DEF LossesJustified
<1>4. v = Loss(v.ct, v.n)
  BY <1>2 DEF Value, Loss, IsLoss
<1> HIDE DEF v
<1>5. ASSUME NEW m \in QuietFrom(p)
      PROVE  /\ QuietMoveValue(Published(m.to)) = Loss(val[m.to].ct, val[m.to].n + 1)
             /\ val[m.to].ct \in ConversionType /\ val[m.to].n + 1 \in Nat
             /\ \/ val[m.to].n + 1 < v.n
                \/ /\ val[m.to].n + 1 = v.n
                   /\ LossRank[val[m.to].ct] <= LossRank[v.ct]
  <2>1. m.to \in Pos /\ val[m.to] \in Value
    BY <1>1, QuietTyped DEF QuietFrom, TypeOK
  <2>2. /\ IsWin(val[m.to])
        /\ \/ val[m.to].n < v.n - 1
           \/ /\ val[m.to].n = v.n - 1
              /\ LossRank[val[m.to].ct] <= LossRank[v.ct]
    BY <1>3 DEF AtMost
  <2>3. val[m.to].ct \in ConversionType /\ val[m.to].n \in Nat
    BY <1>1, <2>1, <2>2 DEF CellsWellFormed, IsResolved, Value
  <2>4. QuietMoveValue(Published(m.to)) = Loss(val[m.to].ct, val[m.to].n + 1)
    BY <2>2, PublishedCases, MoveValueCases, KindsDiffer
  <2>5. QED
    BY <1>2, <2>2, <2>3, <2>4
<1>6. ASSUME NEW c \in ConvFrom(p)
      PROVE  /\ ConversionMoveValue(c.ct, c.dep) = Loss(c.ct, 1)
             /\ c.ct \in ConversionType
             /\ 1 < v.n \/ (1 = v.n /\ LossRank[c.ct] <= LossRank[v.ct])
  <2>1. c.dep = "Win" /\ (v.n = 1 => LossRank[c.ct] <= LossRank[v.ct])
    BY <1>3
  <2>2. c.ct \in ConversionType
    BY <1>1, ConversionsTyped DEF ConvFrom
  <2>3. QED
    BY <1>2, <2>1, <2>2, MoveValueCases
<1>7. v \in MoveValues(p)
  <2>1. CASE \E m \in QuietFrom(p) : val[m.to] = Win(v.ct, v.n - 1)
    <3>1. PICK m \in QuietFrom(p) : val[m.to] = Win(v.ct, v.n - 1)
      BY <2>1
    <3>2. val[m.to].ct = v.ct /\ val[m.to].n + 1 = v.n
      BY <1>2, <3>1 DEF Win
    <3>3. QuietMoveValue(Published(m.to)) = v
      BY <1>4, <1>5, <3>2
    <3>4. QED
      BY <3>3 DEF MoveValues
  <2>2. CASE \E c \in ConvFrom(p) : v = Loss(c.ct, 1)
    BY <1>6, <2>2 DEF MoveValues
  <2>3. QED
    BY <1>3, <2>1, <2>2
<1>8. ASSUME NEW w \in MoveValues(p)
      PROVE  w = v \/ (Better(v, w) /\ ~ Better(w, v))
  <2>1. \E ct \in ConversionType, n \in Nat :
           /\ w = Loss(ct, n)
           /\ n < v.n \/ (n = v.n /\ LossRank[ct] <= LossRank[v.ct])
    BY <1>5, <1>6 DEF MoveValues
  <2>2. QED
    BY <1>2, <2>1, LossPreferred
<1>9. ~ Better(v, v)
  BY <1>2, LossPreferred, Ranks
<1>10. Best(MoveValues(p)) = v
  BY <1>7, <1>8, <1>9, BestIs
<1>11. QED
  BY <1>10 DEF v

\* A position left unknown has a move that draws and none that wins.
LEMMA DrawVerified ==
  ASSUME ExactInv, OutcomeInv, stage = "solved", NEW p \in Pos, IsUnknown(val[p])
  PROVE  Best(MoveValues(p)) = Draw
<1>1. /\ TypeOK /\ CountersExact /\ game \in Games /\ Ready
      /\ ConversionsWin /\ WinsMarked
  BY DEF ExactInv, SolverInv, CounterInv, OutcomeInv, TypeOK, Ready
<1>2. ~ IsWin(val[p])
  BY KindsDiffer
<1>3. ASSUME NEW m \in QuietFrom(p)
      PROVE  /\ ~ IsLoss(val[m.to])
             /\ ~ Delivered(m) => QuietMoveValue(Published(m.to)) = Draw
             /\ LET w == QuietMoveValue(Published(m.to))
                IN  w = Draw \/ (IsLoss(w) /\ ~ IsWin(w))
  <2>1. m \in game.quiet /\ m.from = p /\ m.to \in Pos
    BY <1>1, QuietTyped DEF QuietFrom
  <2>2. IsResolved(val[m.to]) => Passed(m)
    BY <2>1, AllPassed
  <2>3. ~ IsLoss(val[m.to])
    BY <1>1, <1>2, <2>1, <2>2, KindsDiffer DEF WinsMarked, AtLeast
  <2>4. ~ Delivered(m) => ~ IsWin(val[m.to])
    BY <2>2, DeliveredForm, KindsDiffer
  <2>5. ~ IsWin(val[m.to]) => QuietMoveValue(Published(m.to)) = Draw
    BY <2>3, PublishedCases, MoveValueCases
  <2>6. IsWin(val[m.to]) => LET w == QuietMoveValue(Published(m.to))
                            IN  IsLoss(w) /\ ~ IsWin(w)
    BY PublishedCases, MoveValueCases, KindsDiffer
  <2>7. QED
    BY <2>3, <2>4, <2>5, <2>6
<1>4. ASSUME NEW c \in ConvFrom(p)
      PROVE  /\ c.dep # "Win" => ConversionMoveValue(c.ct, c.dep) = Draw
             /\ LET w == ConversionMoveValue(c.ct, c.dep)
                IN  w = Draw \/ (IsLoss(w) /\ ~ IsWin(w))
  <2>1. c.dep # "Loss"
    BY <1>1, <1>2, ConversionsTyped DEF ConversionsWin, AtLeast, ConvFrom
  <2>2. c.dep # "Win" => ConversionMoveValue(c.ct, c.dep) = Draw
    BY <2>1, MoveValueCases
  <2>3. c.dep = "Win" => LET w == ConversionMoveValue(c.ct, c.dep)
                         IN  IsLoss(w) /\ ~ IsWin(w)
    BY MoveValueCases, KindsDiffer
  <2>4. QED
    BY <2>2, <2>3
<1>5. Draw \in MoveValues(p)
  <2>1. /\ val[p].n > 0
        /\ val[p].n = Cardinality(Open(p)) + Cardinality({c \in ConvFrom(p) : c.dep # "Win"})
    BY <1>1 DEF CountersExact, Ready, Open
  <2>2. Open(p) # {} \/ {c \in ConvFrom(p) : c.dep # "Win"} # {}
    BY <2>1, FS_EmptySet
  <2>3. CASE Open(p) # {}
    BY <1>3, <2>3 DEF Open, MoveValues
  <2>4. CASE {c \in ConvFrom(p) : c.dep # "Win"} # {}
    BY <1>4, <2>4 DEF MoveValues
  <2>5. QED
    BY <2>2, <2>3, <2>4
<1>6. \A w \in MoveValues(p) : w = Draw \/ (Better(Draw, w) /\ ~ Better(w, Draw))
  <2>1. \A w \in MoveValues(p) : w = Draw \/ (IsLoss(w) /\ ~ IsWin(w))
    BY <1>3, <1>4 DEF MoveValues
  <2>2. QED
    BY <2>1, DrawPreferred
<1>7. QED
  BY <1>5, <1>6, DrawPreferred, BestIs

\* The finished table passes the consistency check, whatever the number of
\* workers and their interleaving.
THEOREM FinishedTableVerifies == Spec => []VerifyConsistent
<1>1. ASSUME ExactInv, OutcomeInv, stage = "solved", NEW p \in Pos
      PROVE  Verified(p)
  <2>1. Ready /\ Terminals
    BY <1>1 DEF Ready, OutcomeInv
  <2>2. CASE p \notin game.valid
    <3>1. val[p] = Invalid
      BY <2>1, <2>2 DEF Terminals, InitialValue
    <3>2. QED
      BY <2>2, <3>1, PublishedCases, KindsDiffer DEF Verified
  <2>3. CASE p \in game.valid /\ NoLegals(p)
    <3>1. val[p] = IF p \in game.check THEN Loss("Checkmate", 0) ELSE Draw
      BY <2>1, <2>3 DEF Terminals, InitialValue
    <3>2. Published(p) = val[p]
      BY <3>1, PublishedCases, KindsDiffer
    <3>3. QED
      BY <2>3, <3>1, <3>2 DEF Verified
  <2>4. CASE p \in game.valid /\ ~ NoLegals(p)
    <3>1. IsUnknown(val[p]) \/ IsWin(val[p]) \/ IsLoss(val[p])
      BY <2>1, <2>4 DEF Terminals, IsResolved
    <3>2. Published(p) = Best(MoveValues(p))
      <4>1. CASE IsUnknown(val[p])
        BY <1>1, <4>1, DrawVerified, PublishedCases
      <4>2. CASE IsWin(val[p])
        BY <1>1, <4>2, WinVerified, PublishedCases, KindsDiffer
      <4>3. CASE IsLoss(val[p])
        BY <1>1, <2>4, <4>3, LossVerified, PublishedCases, KindsDiffer
      <4>4. QED
        BY <3>1, <4>1, <4>2, <4>3
    <3>3. QED
      BY <2>4, <3>2 DEF Verified
  <2>5. QED
    BY <2>2, <2>3, <2>4
<1>2. ExactInv /\ OutcomeInv => VerifyConsistent
  BY <1>1 DEF VerifyConsistent
<1>3. QED
  BY <1>2, OutcomeInvariant, PTL

-------------------------------------------------------------------------------
(* The solver implements the level-by-level definition.                     *)

\* The refinement mapping's labels and status, by name.
LabelsNow == [p \in Pos |-> LabelOf(p)]
StatusNow == CASE stage = "init" -> "preparing"
               [] stage = "failed" -> "failed"
               [] stage = "solved" -> "complete"
               [] OTHER -> "labelling"

\* The abstract definition speaks of the same values.
LEMMA SameValues ==
  /\ Levels!Open = Unknown(0) /\ Levels!Invalid = Invalid /\ Levels!Draw = Draw
  /\ \A ct, n : Levels!Win(ct, n) = Win(ct, n) /\ Levels!Loss(ct, n) = Loss(ct, n)
  /\ \A v : /\ Levels!IsWin(v) <=> IsWin(v)
            /\ Levels!IsLoss(v) <=> IsLoss(v)
  /\ Levels!WinRank = WinRank /\ Levels!LossRank = LossRank
BY DEF Levels!Open, Levels!Unknown, Unknown, Levels!Invalid, Invalid, Levels!Draw,
       Draw, Levels!Win, Win, Levels!Loss, Loss, Levels!IsWin, IsWin,
       Levels!IsLoss, IsLoss, Levels!WinRank, WinRank, Levels!LossRank, LossRank

\* A step that changes neither of them stutters.
LEMMA LevelsStutter ==
  ASSUME game' = game, ply' = ply, stage' = stage \/ (Ready /\ Ready' /\
           stage' # "solved" /\ stage # "solved"),
         \A p \in Pos : LabelOf(p)' = LabelOf(p)
  PROVE  UNCHANGED Levels!levelVars
<1>1. LabelsNow' = LabelsNow
  BY DEF LabelsNow
<1>2. StatusNow' = StatusNow
  BY DEF StatusNow, Ready
<1>3. QED
  BY <1>1, <1>2 DEF Levels!levelVars, LabelsNow, StatusNow

\* The solver starts where the levels start.
LEMMA LevelsInitially == Init => Levels!LevelsInit
<1> SUFFICES ASSUME Init PROVE Levels!LevelsInit
  OBVIOUS
<1>1. game \in Games /\ stage = "init" /\ ply = 1
  BY DEF Init
<1>2. LabelsNow = [p \in Pos |-> Invalid] /\ StatusNow = "preparing"
  BY <1>1 DEF LabelsNow, LabelOf, StatusNow
<1>3. QED
  BY <1>1, <1>2, SameValues DEF Levels!LevelsInit, LabelsNow, StatusNow

\* A table that cannot be initialised fails the levels too.
LEMMA LevelsFail ==
  ASSUME ExactInv, NEW b, InitializeFails(b)
  PROVE  Levels!Fail
<1>1. /\ stage = "init" /\ stage' = "failed" /\ game' = game /\ ply' = ply
      /\ \E c \in game.conv : c.dep = "Missing"
  BY DEF InitializeFails
<1>2. LabelsNow' = LabelsNow /\ StatusNow = "preparing" /\ StatusNow' = "failed"
  BY <1>1 DEF LabelsNow, LabelOf, StatusNow
<1>3. QED
  BY <1>1, <1>2 DEF Levels!Fail, LabelsNow, StatusNow

\* Entering the propagation loop labels invalid indices, mates and stalemates.
LEMMA LevelsPrepare ==
  ASSUME ExactInv, OutcomeInv, [Next]_vars, FinishInitialize, stage' # "init"
  PROVE  Levels!Prepare
<1>1. /\ stage = "init" /\ stage' = "next" /\ ply = 1 /\ val' = val /\ ply' = ply
      /\ \A p \in Pos : val[p] = InitialValue(p)
  BY AllPrepared DEF ExactInv, CountInv
<1>2. game' = game /\ game \in Games
  BY GameKept DEF ExactInv, SolverInv, TypeOK
<1>3. \A c \in game.conv : c.dep # "Missing"
  BY <1>1, <1>2, NoneMissingStep DEF OutcomeInv, NoneMissing, Ready
<1>4. ASSUME NEW p \in Pos
      PROVE  LabelOf(p)' = Levels!Terminal(p)
  <2>1. LabelOf(p)' = IF \/ IsUnknown(InitialValue(p))
                         \/ IsResolved(InitialValue(p)) /\ InitialValue(p).n >= 1
                        THEN Unknown(0) ELSE InitialValue(p)
    BY <1>1 DEF LabelOf, IsUnknown, IsResolved, IsWin, IsLoss
  <2>2. Levels!Terminal(p) =
          IF p \notin game.valid THEN Invalid
          ELSE IF ~ NoLegals(p) THEN Unknown(0)
          ELSE IF p \in game.check THEN Loss("Checkmate", 0) ELSE Draw
    BY SameValues
    DEF Levels!Terminal, Levels!Quiet, Levels!Conv, NoLegals, QuietFrom, ConvFrom
  <2>3. CASE p \notin game.valid
    BY <2>1, <2>2, <2>3, KindsDiffer DEF InitialValue
  <2>4. CASE p \in game.valid /\ NoLegals(p)
    <3>1. InitialValue(p) = IF p \in game.check THEN Loss("Checkmate", 0) ELSE Draw
      BY <2>4 DEF InitialValue
    <3>2. /\ ~ IsUnknown(InitialValue(p))
          /\ IsResolved(InitialValue(p)) => InitialValue(p).n = 0
      BY <3>1 DEF Loss, Draw, IsUnknown, IsResolved, IsWin, IsLoss
    <3>3. QED
      BY <2>1, <2>2, <2>4, <3>1, <3>2
  <2>5. CASE p \in game.valid /\ ~ NoLegals(p)
    <3>1. \/ IsUnknown(InitialValue(p))
          \/ IsResolved(InitialValue(p)) /\ InitialValue(p).n = 1
      BY <1>2, <2>5, InitialCases
    <3>2. QED
      BY <2>1, <2>2, <2>5, <3>1
  <2>6. QED
    BY <2>3, <2>4, <2>5
<1>5. StatusNow = "preparing" /\ StatusNow' = "labelling"
  BY <1>1 DEF StatusNow
<1>6. LabelsNow' = [p \in Pos |-> Levels!Terminal(p)]
  BY <1>4 DEF LabelsNow
<1>7. QED
  BY <1>1, <1>2, <1>3, <1>5, <1>6 DEF Levels!Prepare, LabelsNow, StatusNow

\* At the end of a ply, labels are the values of the plies before.
LEMMA LabelCases ==
  ASSUME ExactInv, OutcomeInv, stage = "endply", NEW p \in Pos
  PROVE  /\ IsUnknown(val[p]) => LabelOf(p) = Unknown(0)
         /\ IsResolved(val[p]) /\ val[p].n = ply => LabelOf(p) = Unknown(0)
         /\ IsResolved(val[p]) /\ val[p].n # ply => LabelOf(p) = val[p]
         /\ ~ IsUnknown(val[p]) /\ ~ IsResolved(val[p]) => LabelOf(p) = val[p]
         /\ \/ IsWin(LabelOf(p))
            \/ IsLoss(LabelOf(p))
            => LabelOf(p) = val[p] /\ val[p].n < ply
<1>1. /\ ply \in Nat /\ val[p].n \in Nat
      /\ IsResolved(val[p]) => val[p].n <= ply
  BY DEF ExactInv, SolverInv, TypeOK, Value, CellsWellFormed
<1>2. ~ IsWin(Unknown(0)) /\ ~ IsLoss(Unknown(0))
  BY DEF Unknown, IsWin, IsLoss
<1>3. QED
  BY <1>1, <1>2, KindsDiffer DEF LabelOf

\* The conversion types a position's moves win and lose with at this ply.
WinsBy(p) ==
  {val[m.to].ct : m \in {q \in QuietFrom(p) : IsLoss(val[q.to]) /\ val[q.to].n = ply - 1}}
  \cup {c.ct : c \in {d \in ConvFrom(p) : d.dep = "Loss" /\ ply = 1}}

LosesBy(p) ==
  {val[m.to].ct : m \in {q \in QuietFrom(p) : IsWin(val[q.to]) /\ val[q.to].n = ply - 1}}
  \cup {c.ct : c \in {d \in ConvFrom(p) : d.dep = "Win" /\ ply = 1}}

\* They are those of the level, and all moves lose when they do in the cells.
LEMMA LevelTypes ==
  ASSUME ExactInv, OutcomeInv, stage = "endply", NEW p \in Pos
  PROVE  /\ Levels!WinningTypes(p, ply) = WinsBy(p)
         /\ Levels!LosingTypes(p, ply) = LosesBy(p)
         /\ Levels!AllMovesLose(p) <=>
              /\ \A m \in QuietFrom(p) : IsWin(val[m.to]) /\ val[m.to].n < ply
              /\ \A c \in ConvFrom(p) : c.dep = "Win"
         /\ WinsBy(p) \in SUBSET ConversionType
         /\ LosesBy(p) \in SUBSET ConversionType
<1>1. /\ Levels!Quiet(p) = QuietFrom(p) /\ Levels!Conv(p) = ConvFrom(p)
  BY DEF Levels!Quiet, Levels!Conv, QuietFrom, ConvFrom
<1>2. game \in Games /\ ply \in Nat /\ CellsWellFormed /\ TypeOK
  BY DEF ExactInv, SolverInv, TypeOK
<1>3. ASSUME NEW m \in QuietFrom(p)
      PROVE  /\ m.to \in Pos
             /\ [q \in Pos |-> LabelOf(q)][m.to] = LabelOf(m.to)
             /\ IsLoss(LabelOf(m.to)) /\ LabelOf(m.to).n = ply - 1 <=>
                  IsLoss(val[m.to]) /\ val[m.to].n = ply - 1
             /\ IsWin(LabelOf(m.to)) /\ LabelOf(m.to).n = ply - 1 <=>
                  IsWin(val[m.to]) /\ val[m.to].n = ply - 1
             /\ IsWin(LabelOf(m.to)) <=> IsWin(val[m.to]) /\ val[m.to].n < ply
             /\ IsLoss(LabelOf(m.to)) \/ IsWin(LabelOf(m.to)) =>
                  LabelOf(m.to).ct = val[m.to].ct
             /\ IsLoss(val[m.to]) \/ IsWin(val[m.to]) => val[m.to].ct \in ConversionType
  <2>1. m.to \in Pos
    BY <1>2, QuietTyped DEF QuietFrom
  <2>2. /\ \/ IsWin(LabelOf(m.to))
           \/ IsLoss(LabelOf(m.to))
           => LabelOf(m.to) = val[m.to] /\ val[m.to].n < ply
        /\ IsResolved(val[m.to]) /\ val[m.to].n # ply => LabelOf(m.to) = val[m.to]
    BY <2>1, LabelCases
  <2>3. val[m.to].n \in Nat /\ (IsResolved(val[m.to]) => val[m.to].ct \in ConversionType)
    BY <1>2, <2>1 DEF TypeOK, Value, CellsWellFormed
  <2>4. QED
    BY <1>2, <2>1, <2>2, <2>3, KindsDiffer
<1>4. \A c \in ConvFrom(p) : c.ct \in ConversionType
  BY <1>2, ConversionsTyped DEF ConvFrom
<1>5. Levels!WinningTypes(p, ply) = WinsBy(p)
  <2>1. \A ct : ct \in Levels!WinningTypes(p, ply) <=> ct \in WinsBy(p)
    BY <1>1, <1>3, SameValues DEF Levels!WinningTypes, WinsBy
  <2>2. QED
    BY <2>1
<1>6. Levels!LosingTypes(p, ply) = LosesBy(p)
  <2>1. \A ct : ct \in Levels!LosingTypes(p, ply) <=> ct \in LosesBy(p)
    BY <1>1, <1>3, SameValues DEF Levels!LosingTypes, LosesBy
  <2>2. QED
    BY <2>1
<1>7. Levels!AllMovesLose(p) <=>
        /\ \A m \in QuietFrom(p) : IsWin(val[m.to]) /\ val[m.to].n < ply
        /\ \A c \in ConvFrom(p) : c.dep = "Win"
  BY <1>1, <1>3, SameValues DEF Levels!AllMovesLose
<1>8. WinsBy(p) \in SUBSET ConversionType /\ LosesBy(p) \in SUBSET ConversionType
  BY <1>3, <1>4 DEF WinsBy, LosesBy
<1>9. QED
  BY <1>5, <1>6, <1>7, <1>8

\* The most preferred type of a set is the only one that none exceeds.
LEMMA MostPreferredIs ==
  ASSUME NEW S \in SUBSET ConversionType, NEW ct \in S
  PROVE  /\ (\A d \in S : WinRank[d] <= WinRank[ct]) =>
              Levels!MostPreferred(S, WinRank) = ct
         /\ (\A d \in S : LossRank[d] <= LossRank[ct]) =>
              Levels!MostPreferred(S, LossRank) = ct
<1>1. ASSUME \A d \in S : WinRank[d] <= WinRank[ct],
             NEW c \in S, \A d \in S : WinRank[d] <= WinRank[c]
      PROVE  c = ct
  <2>1. WinRank[c] <= WinRank[ct] /\ WinRank[ct] <= WinRank[c]
    BY <1>1
  <2>2. QED
    BY <2>1, Ranks
<1>2. ASSUME \A d \in S : LossRank[d] <= LossRank[ct],
             NEW c \in S, \A d \in S : LossRank[d] <= LossRank[c]
      PROVE  c = ct
  <2>1. LossRank[c] <= LossRank[ct] /\ LossRank[ct] <= LossRank[c]
    BY <1>2
  <2>2. QED
    BY <2>1, Ranks
<1>3. QED
  BY <1>1, <1>2 DEF Levels!MostPreferred

\* When a ply ends, a move to a win or a loss of an earlier ply has passed.
LEMMA EarlierPassed ==
  ASSUME ExactInv, stage = "endply", NEW m \in game.quiet
  PROVE  /\ m.to \in Pos /\ val[m.to].n \in Nat /\ ply \in Nat
         /\ IsResolved(val[m.to]) /\ val[m.to].n < ply <=> Passed(m)
<1>1. m.to \in Pos /\ val[m.to].n \in Nat /\ ply \in Nat
  BY QuietTyped DEF ExactInv, SolverInv, TypeOK, Value
<1>2. val[m.to].n < ply <=> val[m.to].n < ply - 1 \/ val[m.to].n = ply - 1
  BY <1>1
<1>3. ScanEnded(KindOf(val[m.to]), SlotOf[m.to])
  BY DEF ScanEnded
<1>4. QED
  BY <1>1, <1>2, <1>3 DEF Passed

\* What the end of a ply leaves in a cell, counters apart.
Labelled(p) == IF IsUnknown(val[p]) THEN Unknown(0) ELSE val[p]

\* A win of this ply wins by the most preferred type its moves offer.
LEMMA WinLabelled ==
  ASSUME ExactInv, OutcomeInv, stage = "endply", NEW p \in Pos,
         IsWin(val[p]), val[p].n = ply
  PROVE  /\ WinsBy(p) # {} /\ WinsBy(p) \in SUBSET ConversionType
         /\ val[p] = Win(Levels!MostPreferred(WinsBy(p), WinRank), ply)
<1>1. /\ TypeOK /\ game \in Games /\ Ready /\ ply \in Nat /\ val[p] \in Value
      /\ ConversionsWin /\ WinsMarked /\ WinsWitnessed
  BY DEF ExactInv, SolverInv, OutcomeInv, TypeOK, Ready
<1>2. val[p] = Win(val[p].ct, ply)
  BY <1>1 DEF Value, Win, IsWin
<1>3. val[p].ct \in WinsBy(p)
  <2>1. CASE \E m \in QuietFrom(p) : val[m.to] = Loss(val[p].ct, val[p].n - 1)
    <3>1. PICK m \in QuietFrom(p) : val[m.to] = Loss(val[p].ct, val[p].n - 1)
      BY <2>1
    <3>2. IsLoss(val[m.to]) /\ val[m.to].n = ply - 1 /\ val[m.to].ct = val[p].ct
      BY <3>1 DEF Loss, IsLoss
    <3>3. QED
      BY <3>2 DEF WinsBy
  <2>2. CASE \E c \in ConvFrom(p) : c.dep = "Loss" /\ val[p] = Win(c.ct, 1)
    <3>1. PICK c \in ConvFrom(p) : c.dep = "Loss" /\ val[p] = Win(c.ct, 1)
      BY <2>2
    <3>2. ply = 1 /\ c.ct = val[p].ct
      BY <3>1 DEF Win
    <3>3. QED
      BY <3>1, <3>2 DEF WinsBy
  <2>3. QED
    BY <1>1, <2>1, <2>2 DEF WinsWitnessed
<1>4. ASSUME NEW d \in WinsBy(p)
      PROVE  WinRank[d] <= WinRank[val[p].ct]
  <2>1. WinsBy(p) \in SUBSET ConversionType
    BY LevelTypes
  <2>2. AtLeast(val[p], d, ply)
    <3>1. CASE \E m \in QuietFrom(p) : /\ IsLoss(val[m.to]) /\ val[m.to].n = ply - 1
                                       /\ d = val[m.to].ct
      <4>1. PICK m \in QuietFrom(p) : /\ IsLoss(val[m.to]) /\ val[m.to].n = ply - 1
                                      /\ d = val[m.to].ct
        BY <3>1
      <4>2. m \in game.quiet /\ m.from = p
        BY DEF QuietFrom
      <4>3. Passed(m) /\ val[m.to].n + 1 = ply
        BY <1>1, <4>1, <4>2, EarlierPassed, KindsDiffer
      <4>4. AtLeast(val[m.from], val[m.to].ct, val[m.to].n + 1)
        BY <1>1, <4>1, <4>2, <4>3 DEF WinsMarked
      <4>5. QED
        BY <4>1, <4>2, <4>3, <4>4
    <3>2. CASE \E c \in ConvFrom(p) : c.dep = "Loss" /\ ply = 1 /\ d = c.ct
      BY <1>1, <3>2 DEF ConversionsWin, ConvFrom
    <3>3. QED
      BY <3>1, <3>2 DEF WinsBy
  <2>3. QED
    BY <1>1, <1>3, <2>1, <2>2, Ranks DEF AtLeast
<1>5. QED
  BY <1>2, <1>3, <1>4, LevelTypes, MostPreferredIs

\* A loss of this ply has no move that wins, loses by every move, and loses by
\* the most preferred type its moves leave.
LEMMA LossLabelled ==
  ASSUME ExactInv, OutcomeInv, stage = "endply", NEW p \in Pos,
         IsLoss(val[p]), val[p].n = ply
  PROVE  /\ WinsBy(p) = {}
         /\ \A m \in QuietFrom(p) : IsWin(val[m.to]) /\ val[m.to].n < ply
         /\ \A c \in ConvFrom(p) : c.dep = "Win"
         /\ val[p] = Loss(Levels!MostPreferred(LosesBy(p), LossRank), ply)
<1>1. /\ TypeOK /\ game \in Games /\ Ready /\ ply \in Nat \ {0} /\ val[p] \in Value
      /\ LossesJustified /\ Terminals
  BY DEF ExactInv, SolverInv, OutcomeInv, TypeOK, Ready
<1>2. val[p] = Loss(val[p].ct, ply)
  BY <1>1 DEF Value, Loss, IsLoss
<1>3. ~ NoLegals(p)
  <2>1. CASE NoLegals(p)
    <3>1. val[p] \in {Invalid, Draw, Loss("Checkmate", 0)}
      BY <1>1, <2>1 DEF Terminals, InitialValue
    <3>2. QED
      BY <1>1, <3>1 DEF Invalid, Draw, Loss
  <2>2. QED
    BY <2>1
<1>4. /\ \A m \in QuietFrom(p) : AtMost(val[m.to], val[p].ct, ply - 1)
      /\ \A c \in ConvFrom(p) :
           /\ c.dep = "Win"
           /\ ply = 1 => LossRank[c.ct] <= LossRank[val[p].ct]
      /\ \/ \E m \in QuietFrom(p) : val[m.to] = Win(val[p].ct, ply - 1)
         \/ \E c \in ConvFrom(p) : val[p] = Loss(c.ct, 1)
  BY <1>1, <1>3 DEF LossesJustified
<1>5. \A m \in QuietFrom(p) :
        /\ IsWin(val[m.to]) /\ ~ IsLoss(val[m.to]) /\ val[m.to].n < ply
        /\ val[m.to].n = ply - 1 => LossRank[val[m.to].ct] <= LossRank[val[p].ct]
  <2>1. \A m \in QuietFrom(p) : m.to \in Pos /\ val[m.to].n \in Nat
    BY <1>1, QuietTyped DEF QuietFrom, TypeOK, Value
  <2>2. QED
    BY <1>1, <1>4, <2>1, KindsDiffer DEF AtMost
<1>6. WinsBy(p) = {}
  BY <1>4, <1>5 DEF WinsBy
<1>7. val[p].ct \in LosesBy(p)
  <2>1. CASE \E m \in QuietFrom(p) : val[m.to] = Win(val[p].ct, ply - 1)
    <3>1. PICK m \in QuietFrom(p) : val[m.to] = Win(val[p].ct, ply - 1)
      BY <2>1
    <3>2. IsWin(val[m.to]) /\ val[m.to].n = ply - 1 /\ val[m.to].ct = val[p].ct
      BY <3>1 DEF Win, IsWin
    <3>3. QED
      BY <3>2 DEF LosesBy
  <2>2. CASE \E c \in ConvFrom(p) : val[p] = Loss(c.ct, 1)
    <3>1. PICK c \in ConvFrom(p) : val[p] = Loss(c.ct, 1)
      BY <2>2
    <3>2. ply = 1 /\ c.ct = val[p].ct /\ c.dep = "Win"
      BY <1>4, <3>1 DEF Loss
    <3>3. QED
      BY <3>2 DEF LosesBy
  <2>3. QED
    BY <1>4, <2>1, <2>2
<1>8. \A d \in LosesBy(p) : LossRank[d] <= LossRank[val[p].ct]
  BY <1>4, <1>5 DEF LosesBy
<1>9. QED
  BY <1>2, <1>4, <1>5, <1>6, <1>7, <1>8, LevelTypes, MostPreferredIs

\* A position still unknown has no move that wins and one that does not lose.
LEMMA UnknownLabelled ==
  ASSUME ExactInv, OutcomeInv, stage = "endply", NEW p \in Pos, IsUnknown(val[p])
  PROVE  /\ WinsBy(p) = {}
         /\ ~ /\ \A m \in QuietFrom(p) : IsWin(val[m.to]) /\ val[m.to].n < ply
              /\ \A c \in ConvFrom(p) : c.dep = "Win"
<1>1. /\ TypeOK /\ game \in Games /\ Ready /\ CountersExact
      /\ ConversionsWin /\ WinsMarked
  BY DEF ExactInv, SolverInv, CounterInv, OutcomeInv, TypeOK, Ready
<1>2. ~ IsWin(val[p])
  BY KindsDiffer
<1>3. ASSUME NEW m \in QuietFrom(p)
      PROVE  /\ ~ (IsLoss(val[m.to]) /\ val[m.to].n = ply - 1)
             /\ IsWin(val[m.to]) /\ val[m.to].n < ply => Delivered(m)
  <2>1. m \in game.quiet /\ m.from = p
    BY DEF QuietFrom
  <2>2. /\ val[m.to].n = ply - 1 => val[m.to].n < ply
        /\ IsResolved(val[m.to]) /\ val[m.to].n < ply <=> Passed(m)
    BY <2>1, EarlierPassed
  <2>3. ~ (IsLoss(val[m.to]) /\ Passed(m))
    BY <1>1, <1>2, <2>1 DEF WinsMarked, AtLeast
  <2>4. QED
    BY <2>2, <2>3, DeliveredForm, KindsDiffer
<1>4. \A c \in ConvFrom(p) : c.dep # "Loss"
  BY <1>1, <1>2 DEF ConversionsWin, AtLeast, ConvFrom
<1>5. WinsBy(p) = {}
  BY <1>3, <1>4 DEF WinsBy
<1>6. Open(p) # {} \/ {c \in ConvFrom(p) : c.dep # "Win"} # {}
  <2>1. /\ val[p].n > 0
        /\ val[p].n = Cardinality(Open(p)) + Cardinality({c \in ConvFrom(p) : c.dep # "Win"})
    BY <1>1 DEF CountersExact, Ready, Open
  <2>2. QED
    BY <2>1, FS_EmptySet
<1>7. QED
  BY <1>3, <1>5, <1>6 DEF Open

\* The end of a ply labels a level.
LEMMA LabelledAt ==
  ASSUME ExactInv, OutcomeInv, stage = "endply", NEW p \in Pos
  PROVE  Levels!LabelAt(p, ply) = Labelled(p)
<1> DEFINE label == [q \in Pos |-> LabelOf(q)]
           wins == Levels!WinningTypes(p, ply)
           loses == Levels!LosingTypes(p, ply)
<1>1. Levels!LabelAt(p, ply) =
        IF label[p] # Unknown(0) THEN label[p]
        ELSE IF wins # {} THEN Win(Levels!MostPreferred(wins, WinRank), ply)
        ELSE IF Levels!AllMovesLose(p)
          THEN Loss(Levels!MostPreferred(loses, LossRank), ply)
        ELSE Unknown(0)
  BY SameValues DEF Levels!LabelAt
<1>2. label[p] = LabelOf(p)
  OBVIOUS
<1>3. /\ wins = WinsBy(p) /\ loses = LosesBy(p)
      /\ Levels!AllMovesLose(p) <=>
           /\ \A m \in QuietFrom(p) : IsWin(val[m.to]) /\ val[m.to].n < ply
           /\ \A c \in ConvFrom(p) : c.dep = "Win"
  BY LevelTypes
<1> HIDE DEF label, wins, loses
<1>4. CASE IsUnknown(val[p])
  BY <1>1, <1>2, <1>3, <1>4, LabelCases, UnknownLabelled DEF Labelled
<1>5. CASE IsWin(val[p]) /\ val[p].n = ply
  BY <1>1, <1>2, <1>3, <1>5, LabelCases, WinLabelled, KindsDiffer DEF Labelled
<1>6. CASE IsLoss(val[p]) /\ val[p].n = ply
  BY <1>1, <1>2, <1>3, <1>6, LabelCases, LossLabelled, KindsDiffer DEF Labelled
<1>7. CASE ~ IsUnknown(val[p]) /\ ~ (IsResolved(val[p]) /\ val[p].n = ply)
  <2>1. LabelOf(p) = val[p]
    BY <1>7, LabelCases
  <2>2. val[p] # Unknown(0)
    BY <1>7 DEF Unknown, IsUnknown
  <2>3. QED
    BY <1>1, <1>2, <1>7, <2>1, <2>2 DEF Labelled
<1>8. QED
  BY <1>4, <1>5, <1>6, <1>7, KindsDiffer

\* The counts of a ply are all zero only when no cell was resolved at it.
LEMMA NoneFoundMeans ==
  ASSUME ExactInv, stage = "endply"
  PROVE  found = NoneFound <=> \A p \in Pos : ~ (IsResolved(val[p]) /\ val[p].n = ply)
<1>1. /\ found \in [Slot -> [wins : Nat, losses : Nat]]
      /\ \A s \in Slot :
           /\ found[s].wins = Cardinality(At(val, s, "win", ply))
           /\ found[s].losses = Cardinality(At(val, s, "loss", ply))
  BY DEF ExactInv, SolverInv, CountInv, TypeOK, PlyCountsExact, ResolvedAt, At
<1>2. \A s \in Slot :
        /\ found[s].wins = 0 <=> At(val, s, "win", ply) = {}
        /\ found[s].losses = 0 <=> At(val, s, "loss", ply) = {}
  BY <1>1, AtFinite
<1>3. found = NoneFound <=> \A s \in Slot : found[s].wins = 0 /\ found[s].losses = 0
  <2>1. ASSUME \A s \in Slot : found[s].wins = 0 /\ found[s].losses = 0
        PROVE  found = NoneFound
    <3>1. \A s \in Slot : found[s] = [wins |-> 0, losses |-> 0]
      BY <1>1, <2>1
    <3>2. QED
      BY <1>1, <3>1 DEF NoneFound
  <2>2. QED
    BY <2>1 DEF NoneFound
<1>4. \A p \in Pos : SlotOf[p] \in Slot
  BY SlotAssumption
<1>5. QED
  BY <1>2, <1>3, <1>4 DEF At, IsResolved, IsWin, IsLoss

\* The end of a ply is a level of the definition, and the last when it adds
\* nothing.
LEMMA LevelsLabel ==
  ASSUME ExactInv, OutcomeInv, [Next]_vars, EndPly
  PROVE  Levels!LabelLevel
<1>1. /\ stage = "endply" /\ val' = val /\ game' = game
      /\ IF found = NoneFound THEN stage' = "solved" /\ ply' = ply
                              ELSE stage' = "next" /\ ply' = ply + 1
      /\ ply \in Nat
  BY DEF EndPly, ExactInv, SolverInv, TypeOK
<1>2. found = NoneFound <=> \A p \in Pos : ~ (IsResolved(val[p]) /\ val[p].n = ply)
  BY <1>1, NoneFoundMeans
<1>3. ASSUME NEW p \in Pos
      PROVE  LabelOf(p)' = Labelled(p)
  <2>1. LabelOf(p)' = IF IsUnknown(val[p]) \/ (IsResolved(val[p]) /\ val[p].n >= ply')
                        THEN Unknown(0) ELSE val[p]
    BY <1>1 DEF LabelOf, IsUnknown, IsResolved, IsWin, IsLoss
  <2>2. val[p].n \in Nat /\ (IsResolved(val[p]) => val[p].n <= ply)
    BY DEF ExactInv, SolverInv, TypeOK, Value, CellsWellFormed
  <2>3. IsResolved(val[p]) => ~ (val[p].n >= ply')
    BY <1>1, <1>2, <2>2
  <2>4. QED
    BY <2>1, <2>3 DEF Labelled
<1>4. LabelsNow' = [p \in Pos |-> Levels!LabelAt(p, ply)]
  BY <1>1, <1>3, LabelledAt DEF LabelsNow
<1>5. LabelsNow' = LabelsNow <=> found = NoneFound
  <2>1. LabelsNow' = LabelsNow <=> \A p \in Pos : Labelled(p) = LabelOf(p)
    BY <1>3 DEF LabelsNow
  <2>2. ASSUME NEW p \in Pos
        PROVE  Labelled(p) = LabelOf(p) <=> ~ (IsResolved(val[p]) /\ val[p].n = ply)
    <3>1. IsResolved(val[p]) => val[p] # Unknown(0) /\ ~ IsUnknown(val[p])
      BY DEF IsResolved, IsWin, IsLoss, IsUnknown, Unknown
    <3>2. QED
      BY <1>1, <3>1, LabelCases DEF Labelled
  <2>3. QED
    BY <1>2, <2>1, <2>2
<1>6. /\ StatusNow = "labelling"
      /\ found = NoneFound => StatusNow' = "complete"
      /\ found # NoneFound => StatusNow' = "labelling"
  BY <1>1 DEF StatusNow
<1>7. QED
  BY <1>1, <1>4, <1>5, <1>6 DEF Levels!LabelLevel, LabelsNow, StatusNow

\* Inside a ply only counters change, and cells resolved at it: labels do not.
LEMMA LabelsKept ==
  ASSUME ExactInv, OutcomeInv, [Next]_vars, Ready, stage' # "solved",
         ply' = ply, Ready', NEW p \in Pos
  PROVE  LabelOf(p)' = LabelOf(p)
<1>1. LabelOf(p) = IF IsUnknown(val[p]) \/ (IsResolved(val[p]) /\ val[p].n >= ply)
                     THEN Unknown(0) ELSE val[p]
  BY DEF LabelOf, Ready
<1>2. LabelOf(p)' = IF IsUnknown(val'[p]) \/ (IsResolved(val'[p]) /\ val'[p].n >= ply)
                      THEN Unknown(0) ELSE val'[p]
  BY DEF LabelOf, Ready, IsUnknown, IsResolved, IsWin, IsLoss
<1>3. CASE val'[p] = val[p]
  BY <1>1, <1>2, <1>3
<1>4. CASE val'[p] # val[p]
  <2>1. SolverInv /\ ply \in Nat /\ val[p].n \in Nat
    BY DEF ExactInv, SolverInv, TypeOK, Value
  <2>2. /\ \/ IsUnknown(val[p])
           \/ IsWin(val[p])
        /\ \/ \E n : val'[p] = Unknown(n)
           \/ \E ct : val'[p] = Win(ct, ply)
           \/ \E ct : val'[p] = Loss(ct, ply)
    BY <1>4, WriteStep
  <2>3. IsUnknown(val'[p]) \/ (IsResolved(val'[p]) /\ val'[p].n >= ply)
    <3>1. /\ \A n : IsUnknown(Unknown(n))
          /\ \A ct : Win(ct, ply).n = ply /\ Loss(ct, ply).n = ply
      BY DEF Unknown, Win, Loss, IsUnknown
    <3>2. \A ct : IsResolved(Win(ct, ply)) /\ IsResolved(Loss(ct, ply))
      BY KindsDiffer
    <3>3. ply >= ply
      BY <2>1
    <3>4. QED
      BY <2>2, <3>1, <3>2, <3>3
  <2>4. IsWin(val[p]) => val[p].n >= ply
    BY <1>4, <2>1, OthersStay
  <2>5. QED
    BY <1>1, <1>2, <2>2, <2>3, <2>4, KindsDiffer
<1>5. QED
  BY <1>3, <1>4

\* Every step of the solver is a step of the levels or a stutter.
LEMMA LevelsStep ==
  ASSUME ExactInv, OutcomeInv, [Next]_vars
  PROVE  [Levels!LevelsNext]_(Levels!levelVars)
<1>1. SolverInv /\ game' = game
  BY GameKept DEF ExactInv
<1>2. CASE EndPly
  BY <1>2, LevelsLabel DEF Levels!LevelsNext
<1>3. CASE \E b \in pending : InitializeFails(b)
  BY <1>3, LevelsFail DEF Levels!LevelsNext
<1>4. CASE FinishInitialize /\ stage' # "init"
  BY <1>4, LevelsPrepare DEF Levels!LevelsNext
<1>5. CASE FinishInitialize /\ stage' = "init"
  <2>1. stage = "init" /\ ply' = ply
    BY <1>5 DEF FinishInitialize
  <2>2. \A p \in Pos : LabelOf(p)' = LabelOf(p)
    BY <1>5, <2>1 DEF LabelOf
  <2>3. QED
    BY <1>1, <1>5, <2>1, <2>2, LevelsStutter
<1>6. CASE \E b \in pending : InitializeBlock(b)
  <2>1. stage = "init" /\ stage' = stage /\ ply' = ply
    BY <1>6 DEF InitializeBlock, solverVars
  <2>2. \A p \in Pos : LabelOf(p)' = LabelOf(p)
    BY <2>1 DEF LabelOf
  <2>3. QED
    BY <1>1, <2>1, <2>2, LevelsStutter
<1>7. CASE UNCHANGED vars
  <2>1. stage' = stage /\ ply' = ply /\ val' = val
    BY <1>7 DEF vars, solverVars
  <2>2. \A p \in Pos : LabelOf(p)' = LabelOf(p)
    BY <2>1 DEF LabelOf, IsUnknown, IsResolved, IsWin, IsLoss
  <2>3. QED
    BY <1>1, <2>1, <2>2, LevelsStutter
<1>8. CASE SkipScan \/ BeginScan \/ FinishScan \/ \E w \in Worker : WorkerStep(w)
  <2>1. /\ Ready /\ stage # "solved" /\ Ready' /\ stage' # "solved" /\ ply' = ply
    <3>1. CASE SkipScan \/ BeginScan \/ FinishScan
      BY <3>1 DEF SkipScan, BeginScan, FinishScan, Advance, Ready
    <3>2. CASE \E w \in Worker : WorkerStep(w)
      BY <1>1, <3>2, WorkersScan DEF SolverInv, Ready, solverVars
    <3>3. QED
      BY <1>8, <3>1, <3>2
  <2>2. \A p \in Pos : LabelOf(p)' = LabelOf(p)
    BY <2>1, LabelsKept
  <2>3. QED
    BY <1>1, <2>1, <2>2, LevelsStutter
<1>9. QED
  BY <1>2, <1>3, <1>4, <1>5, <1>6, <1>7, <1>8 DEF Next, SolverStep, Returned

\* The concurrent solver implements the level-by-level definition: workers,
\* blocks, phases and counters give each ply the outcomes of the definition.
THEOREM SolverImplementsLevels == Spec => ImplementsLevels
<1>1. Init => Levels!LevelsInit
  BY LevelsInitially
<1>2. ExactInv /\ OutcomeInv /\ [Next]_vars => [Levels!LevelsNext]_(Levels!levelVars)
  BY LevelsStep
<1>3. QED
  BY <1>1, <1>2, OutcomeInvariant, PTL DEF Spec, ImplementsLevels, Levels!LevelsSpec
===============================================================================
