------------------------------ MODULE Retrograde ------------------------------
(***************************************************************************)
(* The parallel retrograde solver of one twin pair (retrograde.rs).         *)
(*                                                                          *)
(* The pair is one table (a self-pair) or two; a quiet move leads from a    *)
(* position to a position of the twin table.  Workers share one atomic cell *)
(* per position and one table of ply bounds per block.  Every load, every   *)
(* compare-exchange and every summary update of a worker is a step of its   *)
(* own; rayon's joins are the only synchronisation.                         *)
(*                                                                          *)
(* The rules of chess are the variable game, chosen once and never changed: *)
(* which indices are positions, which are in check, the quiet moves and the *)
(* conversions with the outcome found in the dependency table.  A quiet     *)
(* move is [from, to, copy]: the diagonal symmetry makes some moves count   *)
(* twice, in the counter of "from" and among the unmoves of "to".           *)
(***************************************************************************)
EXTENDS DtcOutcome, FiniteSets

CONSTANTS
  Pos,      \* the indices of the pair's tables
  NSlots,   \* 1 for a self-pair, 2 for a table and its twin
  SlotOf,   \* the table a position belongs to
  ChunkOf,  \* the block of SUMMARY_BLOCK_SIZE indices it lies in
  Worker,   \* the threads of the rayon pool
  Games     \* the games considered

Slot == 0 .. NSlots - 1
Twin(s) == NSlots - 1 - s
Block(p) == <<SlotOf[p], ChunkOf[p]>>
Blocks == {Block(p) : p \in Pos}
BlocksOf(s) == {Block(p) : p \in {q \in Pos : SlotOf[q] = s}}

Copy == {1, 2}
QuietMove == {m \in [from : Pos, to : Pos, copy : Copy] :
                SlotOf[m.to] = Twin(SlotOf[m.from])}
Conversion == [from : Pos, ct : {"Capture", "Promotion"},
               dep : {"Win", "Draw", "Loss", "Missing"}, copy : Copy]
Game == [valid : SUBSET Pos, check : SUBSET Pos,
         quiet : SUBSET QuietMove, conv : SUBSET Conversion]

ASSUME PosAssumption == IsFiniteSet(Pos) /\ Pos # {}
ASSUME WorkerAssumption == IsFiniteSet(Worker) /\ Worker # {}
ASSUME SlotAssumption == NSlots \in {1, 2} /\ SlotOf \in [Pos -> Slot]
ASSUME ChunkAssumption == ChunkOf \in [Pos -> Nat]
\* Moves start and end at positions; an unmove never yields an invalid index.
ASSUME GamesAssumption ==
  /\ Games \subseteq Game
  /\ \A g \in Games :
       /\ \A m \in g.quiet : m.from \in g.valid /\ m.to \in g.valid
       /\ \A c \in g.conv : c.from \in g.valid
       /\ IsFiniteSet(g.quiet) /\ IsFiniteSet(g.conv)

VARIABLES
  game,      \* the rules: never changed
  val,       \* WorkingPair.values
  bound,     \* PlySummary of each table: ply bounds by block and kind
  stage,     \* where solve_pair's own thread is
  ply,       \* plies
  phase,     \* the kind of value the current scan looks for
  slot,      \* the table of "for ... in &tables"
  previous,  \* positions resolved at ply - 1, by table
  found,     \* positions resolved at ply so far, by table
  maxWin, maxLoss,
  pending,   \* blocks of the current parallel iterator no worker has taken
  pc, todo,  \* per worker: its place, and the predecessors still to update
  cur, raw   \* the predecessor being updated, and the last value loaded

solverVars == <<stage, ply, phase, slot, previous, maxWin, maxLoss>>
workerVars == <<pc, todo, cur, raw>>
vars == <<game, val, bound, solverVars, found, pending, workerVars>>

-------------------------------------------------------------------------------
(* The game as initialize_table sees it.                                    *)

QuietFrom(p) == {m \in game.quiet : m.from = p}
ConvFrom(p) == {c \in game.conv : c.from = p}
NoLegals(p) == QuietFrom(p) = {} /\ ConvFrom(p) = {}

\* The types of conversions to a position lost, and to one won, for the opponent.
WinningConv(p) == {c.ct : c \in {d \in ConvFrom(p) : d.dep = "Loss"}}
LosingConv(p) == {c.ct : c \in {d \in ConvFrom(p) : d.dep = "Win"}}

\* The move counter after the subtraction of the conversions that lose.
MoveCounter(p) ==
  Cardinality(QuietFrom(p)) + Cardinality({c \in ConvFrom(p) : c.dep # "Win"})

PreferredWin(cts) == CHOOSE c \in cts : \A d \in cts : WinRank[d] <= WinRank[c]
PreferredLoss(cts) == CHOOSE c \in cts : \A d \in cts : LossRank[d] <= LossRank[c]

InitialValue(p) ==
  IF p \notin game.valid THEN Invalid
  ELSE IF NoLegals(p)
    THEN IF p \in game.check THEN Loss("Checkmate", 0) ELSE Draw
  ELSE IF WinningConv(p) # {} THEN Win(PreferredWin(WinningConv(p)), 1)
  ELSE IF MoveCounter(p) = 0 THEN Loss(PreferredLoss(LosingConv(p)), 1)
  ELSE Unknown(MoveCounter(p))

-------------------------------------------------------------------------------
(* Summaries and counts.                                                    *)

Kind == {"Loss"} \cup ConversionType
NextPhase == [Loss |-> "Checkmate", Checkmate |-> "Capture",
              Capture |-> "Promotion"]

KindOf(v) == IF IsLoss(v) THEN "Loss" ELSE v.ct

\* The ply bounds initialize_table stores: 2 wins over 1, which wins over 0.
InitialBound(b, kind) ==
  LET at(n) == \E p \in Pos : /\ Block(p) = b
                              /\ IsResolved(InitialValue(p))
                              /\ KindOf(InitialValue(p)) = kind
                              /\ InitialValue(p).n = n
  IN IF at(1) THEN 2 ELSE IF at(0) THEN 1 ELSE 0

\* Faulty: the bound, a ply plus one, compared as if it were a ply.
BlocksWithFaulty(kind, plies) ==
  {b \in BlocksOf(slot) : bound[b][kind] > plies + 1}

\* PlySummary::blocks_with.
BlocksWith(kind, plies) ==
  {b \in BlocksOf(slot) : bound[b][kind] >= plies + 1}

NoneFound == [s \in Slot |-> [wins |-> 0, losses |-> 0]]

\* How many positions of a table the initial values resolve at a given ply.
Initially(s, kind, plies) ==
  Cardinality({p \in Pos : /\ SlotOf[p] = s
                           /\ InitialValue(p).kind = kind
                           /\ InitialValue(p).n = plies})

-------------------------------------------------------------------------------
NoMove == [pred |-> "none"]
NoValue == Invalid

Init ==
  /\ game \in Games
  /\ val = [p \in Pos |-> Invalid]
  /\ bound = [b \in Blocks |-> [k \in Kind |-> 0]]
  /\ stage = "init" /\ ply = 1 /\ phase = "Loss" /\ slot = 0
  /\ previous = NoneFound /\ found = NoneFound
  /\ maxWin = [s \in Slot |-> 0] /\ maxLoss = [s \in Slot |-> 0]
  /\ pending = BlocksOf(0)
  /\ pc = [w \in Worker |-> "idle"] /\ todo = [w \in Worker |-> {}]
  /\ cur = [w \in Worker |-> NoMove] /\ raw = [w \in Worker |-> NoValue]

\* One chunk of initialize_table.  Positions only read their own moves and the
\* dependency tables, and a chunk owns its cells and its block of the summary,
\* so the order within and between chunks cannot be observed.
InitializeBlock(b) ==
  /\ stage = "init" /\ b \in pending
  /\ \A c \in game.conv : Block(c.from) = b => c.dep # "Missing"
  /\ pending' = pending \ {b}
  /\ val' = [p \in Pos |-> IF Block(p) = b THEN InitialValue(p) ELSE val[p]]
  /\ bound' = [bound EXCEPT ![b] = [k \in Kind |-> InitialBound(b, k)]]
  /\ UNCHANGED <<game, solverVars, found, workerVars>>

\* A dependency that cannot be probed makes solve_pair return its error.
InitializeFails(b) ==
  /\ stage = "init" /\ b \in pending
  /\ \E c \in game.conv : Block(c.from) = b /\ c.dep = "Missing"
  /\ stage' = "failed" /\ pending' = {}
  /\ UNCHANGED <<game, val, bound, ply, phase, slot, previous, maxWin, maxLoss,
                 found, workerVars>>

\* initialize_table has returned for one table: its counts are stored, and the
\* next table is initialised or the propagation loop entered.
FinishInitialize ==
  /\ stage = "init" /\ pending = {}
  /\ previous' = [previous EXCEPT ![slot].losses = Initially(slot, "loss", 0)]
  /\ found' = [found EXCEPT ![slot] = [wins |-> Initially(slot, "win", 1),
                                       losses |-> Initially(slot, "loss", 1)]]
  /\ IF slot < NSlots - 1
       THEN stage' = stage /\ slot' = slot + 1 /\ pending' = BlocksOf(slot + 1)
       ELSE stage' = "next" /\ slot' = 0 /\ pending' = {}
  /\ UNCHANGED <<game, val, bound, ply, phase, maxWin, maxLoss, workerVars>>

-------------------------------------------------------------------------------
(* The loop over phases and tables.                                         *)

\* What the scan of the current phase selects.
Selected(v) ==
  IF phase = "Loss" THEN IsLoss(v) /\ v.n = ply - 1 ELSE v = Win(phase, ply - 1)

\* previous[slot] says that this table resolved nothing the phase looks for.
NothingToScan ==
  IF phase = "Loss" THEN previous[slot].losses = 0 ELSE previous[slot].wins = 0

\* The next table of the phase, else the next phase, else the end of the ply.
Advance ==
  IF slot < NSlots - 1
    THEN stage' = "next" /\ slot' = slot + 1 /\ phase' = phase
  ELSE IF phase # "Promotion"
    THEN stage' = "next" /\ slot' = 0 /\ phase' = NextPhase[phase]
  ELSE stage' = "endply" /\ slot' = 0 /\ phase' = phase

SkipScan ==
  /\ stage = "next"
  /\ NothingToScan \/ BlocksWith(phase, ply - 1) = {}
  /\ Advance
  /\ UNCHANGED <<game, val, bound, ply, previous, maxWin, maxLoss, found,
                 pending, workerVars>>

BeginScan ==
  /\ stage = "next"
  /\ ~ NothingToScan /\ BlocksWith(phase, ply - 1) # {}
  /\ stage' = "scan" /\ pending' = BlocksWith(phase, ply - 1)
  /\ UNCHANGED <<game, val, bound, ply, phase, slot, previous, maxWin, maxLoss,
                 found, workerVars>>

\* The reduction over the blocks returns once every block has been processed.
FinishScan ==
  /\ stage = "scan" /\ pending = {}
  /\ \A w \in Worker : pc[w] = "idle" /\ todo[w] = {}
  /\ Advance
  /\ UNCHANGED <<game, val, bound, ply, previous, maxWin, maxLoss, found,
                 pending, workerVars>>

EndPly ==
  /\ stage = "endply"
  /\ maxWin' = [s \in Slot |-> IF found[s].wins > 0 THEN ply ELSE maxWin[s]]
  /\ maxLoss' = [s \in Slot |-> IF found[s].losses > 0 THEN ply ELSE maxLoss[s]]
  /\ IF found = NoneFound
       THEN stage' = "solved" /\ UNCHANGED <<ply, phase, previous, found>>
       ELSE /\ stage' = "next" /\ ply' = ply + 1 /\ phase' = "Loss"
            /\ previous' = found /\ found' = NoneFound
  /\ UNCHANGED <<game, val, bound, slot, pending, workerVars>>

-------------------------------------------------------------------------------
(* The workers.                                                             *)

\* The updates a block gives rise to: one for every unmove of every match,
\* carrying the conversion type read with the match.
Updates(b) ==
  {[pred |-> m.from, src |-> m.to, copy |-> m.copy, ct |-> val[m.to].ct] :
     m \in {q \in game.quiet : Block(q.to) = b /\ Selected(val[q.to])}}

\* A worker takes a block and collects its matches before any update.  The
\* loads are one step: ScanSourceStable says no step of a scan changes them.
TakeBlock(w) ==
  /\ stage = "scan" /\ pc[w] = "idle" /\ todo[w] = {}
  /\ \E b \in pending :
       /\ pending' = pending \ {b}
       /\ todo' = [todo EXCEPT ![w] = Updates(b)]
  /\ UNCHANGED <<game, val, bound, solverVars, found, pc, cur, raw>>

\* mark_win and decrement begin with a load.
LoadCell(w) ==
  /\ pc[w] = "idle"
  /\ \E u \in todo[w] :
       /\ todo' = [todo EXCEPT ![w] = @ \ {u}]
       /\ cur' = [cur EXCEPT ![w] = u]
       /\ raw' = [raw EXCEPT ![w] = val[u.pred]]
       /\ pc' = [pc EXCEPT ![w] = "cas"]
  /\ UNCHANGED <<game, val, bound, solverVars, found, pending>>

\* Faulty: a win keeps the first conversion type written.
ChangesFaulty(v, ct) == IsUnknown(v)

\* The value loaded calls for an exchange: the cell is unknown, or (mark_win
\* only) a win at this ply with a less preferred conversion type.
Changes(v, ct) ==
  \/ IsUnknown(v)
  \/ /\ phase = "Loss" /\ IsWin(v)
     /\ v.n = ply /\ WinRank[ct] > WinRank[v.ct]

\* Faulty: a loss is stamped with the ply being scanned.
NewValueFaulty(v, ct) ==
  IF phase = "Loss" THEN Win(ct, ply)
  ELSE IF v.n = 1 THEN Loss(ct, ply - 1) ELSE Unknown(v.n - 1)

\* new_win in mark_win; new_loss or new_unknown in decrement.
NewValue(v, ct) ==
  IF phase = "Loss" THEN Win(ct, ply)
  ELSE IF v.n = 1 THEN Loss(ct, ply) ELSE Unknown(v.n - 1)

Idle(w) ==
  /\ pc' = [pc EXCEPT ![w] = "idle"]
  /\ cur' = [cur EXCEPT ![w] = NoMove]
  /\ raw' = [raw EXCEPT ![w] = NoValue]

\* WinUpdate::Unchanged, or decrement returning false without an exchange.
LeaveCell(w) ==
  /\ pc[w] = "cas" /\ ~ Changes(raw[w], cur[w].ct)
  /\ Idle(w)
  /\ UNCHANGED <<game, val, bound, solverVars, found, pending, todo>>

\* Faulty: a failed exchange is retried with the value it failed with.
RetryCellFaulty(w) ==
  /\ pc[w] = "cas" /\ Changes(raw[w], cur[w].ct)
  /\ val[cur[w].pred] # raw[w]
  /\ UNCHANGED <<game, val, bound, solverVars, found, pending, pc, todo, cur, raw>>

\* The exchange fails: another worker has changed the cell since the load.
\* (compare_exchange_weak may also fail spuriously, which changes nothing.)
RetryCell(w) ==
  /\ pc[w] = "cas" /\ Changes(raw[w], cur[w].ct)
  /\ val[cur[w].pred] # raw[w]
  /\ raw' = [raw EXCEPT ![w] = val[cur[w].pred]]
  /\ UNCHANGED <<game, val, bound, solverVars, found, pending, pc, todo, cur>>

\* Faulty: an upgraded win is counted again.
CountFoundFaulty(old, new) ==
  found' = IF IsUnknown(new) THEN found
           ELSE IF IsWin(new) THEN [found EXCEPT ![Twin(slot)].wins = @ + 1]
           ELSE [found EXCEPT ![Twin(slot)].losses = @ + 1]

\* A resolved cell counts once in "found" of the twin's table; each worker's
\* own count is merged at the join, before anything reads it.
CountFound(old, new) ==
  found' = IF ~ IsUnknown(old) \/ IsUnknown(new) THEN found
           ELSE IF IsWin(new) THEN [found EXCEPT ![Twin(slot)].wins = @ + 1]
           ELSE [found EXCEPT ![Twin(slot)].losses = @ + 1]

\* Faulty: only newly resolved cells are recorded, not upgraded ones.
RecordsFaulty(old, new) == IsUnknown(old) /\ IsResolved(new)

\* NewlyResolved, Upgraded and a decrement to zero lead to a record.
Records(old, new) == IsResolved(new)

\* Faulty: a plain store in place of the compare-exchange.
ExchangeCellFaulty(w) ==
  LET p == cur[w].pred
      new == NewValue(raw[w], cur[w].ct)
  IN /\ pc[w] = "cas" /\ Changes(raw[w], cur[w].ct)
     /\ val' = [val EXCEPT ![p] = new]
     /\ CountFound(raw[w], new)
     /\ IF Records(raw[w], new)
          THEN pc' = [pc EXCEPT ![w] = "record"] /\ UNCHANGED <<cur, raw>>
          ELSE Idle(w)
     /\ UNCHANGED <<game, bound, solverVars, pending, todo>>

\* The exchange succeeds.  A cell that has just become a win or a loss is
\* recorded in its block's summary, in a later step of the same worker.
ExchangeCell(w) ==
  LET p == cur[w].pred
      new == NewValue(raw[w], cur[w].ct)
  IN /\ pc[w] = "cas" /\ Changes(raw[w], cur[w].ct)
     /\ val[p] = raw[w]
     /\ val' = [val EXCEPT ![p] = new]
     /\ CountFound(raw[w], new)
     /\ IF Records(raw[w], new)
          THEN pc' = [pc EXCEPT ![w] = "record"] /\ UNCHANGED <<cur, raw>>
          ELSE Idle(w)
     /\ UNCHANGED <<game, bound, solverVars, pending, todo>>

RecordedKind(w) == IF phase = "Loss" THEN cur[w].ct ELSE "Loss"

\* PlySummary::record.  Its load and fetch_max are one step: bounds only grow,
\* so the pair has the effect of a maximum whenever the load happens.
RecordCell(w) ==
  LET b == Block(cur[w].pred)
      k == RecordedKind(w)
  IN /\ pc[w] = "record"
     /\ bound' = [bound EXCEPT ![b][k] = IF @ < ply + 1 THEN ply + 1 ELSE @]
     /\ Idle(w)
     /\ UNCHANGED <<game, val, solverVars, found, pending, todo>>

-------------------------------------------------------------------------------
WorkerStep(w) ==
  \/ TakeBlock(w) \/ LoadCell(w) \/ LeaveCell(w) \/ RetryCell(w)
  \/ ExchangeCell(w) \/ RecordCell(w)

SolverStep ==
  \/ \E b \in pending : InitializeBlock(b) \/ InitializeFails(b)
  \/ FinishInitialize \/ SkipScan \/ BeginScan \/ FinishScan \/ EndPly

\* solve_pair has returned; its caller finalizes the table or reports the error.
Returned == stage \in {"solved", "failed"} /\ UNCHANGED vars

Next == SolverStep \/ (\E w \in Worker : WorkerStep(w)) \/ Returned

\* The operating system keeps running the solver's thread and the pool's.
Fairness == WF_vars(SolverStep) /\ \A w \in Worker : WF_vars(WorkerStep(w))

Spec == Init /\ [][Next]_vars
FairSpec == Spec /\ Fairness

-------------------------------------------------------------------------------
(* Properties.                                                              *)

Update == [pred : Pos, src : Pos, copy : Copy, ct : ConversionType]

\* Every variable keeps its type; the values a worker holds are cell values.
TypeOK ==
  /\ game \in Games
  /\ val \in [Pos -> Value]
  /\ bound \in [Blocks -> [Kind -> Nat]]
  /\ stage \in {"init", "next", "scan", "endply", "solved", "failed"}
  /\ ply \in Nat \ {0} /\ phase \in Kind /\ slot \in Slot
  /\ previous \in [Slot -> [wins : Nat, losses : Nat]]
  /\ found \in [Slot -> [wins : Nat, losses : Nat]]
  /\ maxWin \in [Slot -> Nat] /\ maxLoss \in [Slot -> Nat]
  /\ pending \subseteq Blocks
  /\ pc \in [Worker -> {"idle", "cas", "record"}]
  /\ todo \in [Worker -> SUBSET Update]
  /\ cur \in [Worker -> Update \cup {NoMove}]
  /\ raw \in [Worker -> Value]
  /\ \A w \in Worker : pc[w] # "idle" => cur[w] \in Update

\* What finalization stores for a position: unknowns are draws.
Published(p) == IF IsUnknown(val[p]) THEN Draw ELSE val[p]

MoveValues(p) ==
  {QuietMoveValue(Published(m.to)) : m \in QuietFrom(p)}
  \cup {ConversionMoveValue(c.ct, c.dep) : c \in ConvFrom(p)}

\* The verdict of verify_block on one index.
Verified(p) ==
  IF p \notin game.valid THEN Published(p) = Invalid
  ELSE IF NoLegals(p)
    THEN Published(p) = IF p \in game.check THEN Loss("Checkmate", 0) ELSE Draw
  ELSE Published(p) = Best(MoveValues(p))

\* Whatever the workers' interleaving, the finished table passes the internal
\* consistency check the generator runs on it (lib.rs, verify_block): every
\* stored outcome is the best value among the position's own moves.
VerifyConsistent == stage = "solved" => \A p \in Pos : Verified(p)

\* blocks_with may skip a block only if it holds nothing to scan: the bound
\* of a block and kind is above every win or loss of that kind in the block,
\* up to the record a worker still owes for the exchange it has just done.
SummaryConservative ==
  \A p \in Pos : IsResolved(val[p]) =>
    \/ bound[Block(p)][KindOf(val[p])] >= val[p].n + 1
    \/ \E w \in Worker : /\ pc[w] = "record" /\ cur[w].pred = p
                         /\ RecordedKind(w) = KindOf(val[p])

PhaseIndex == [Loss |-> 1, Checkmate |-> 2, Capture |-> 3, Promotion |-> 4]

\* The scan of table s for wins of type ct at ply - 1 has ended.
ScanEnded(ct, s) ==
  \/ stage \in {"endply", "solved"}
  \/ PhaseIndex[ct] < PhaseIndex[phase]
  \/ ct = phase /\ s < slot

\* The update for quiet move m waits in an untaken block or at a worker.
InFlight(m) ==
  LET isFor(u) == u.pred = m.from /\ u.src = m.to /\ u.copy = m.copy
  IN \/ Block(m.to) \in pending
     \/ \E w \in Worker : \/ \E u \in todo[w] : isFor(u)
                          \/ pc[w] = "cas" /\ isFor(cur[w])

\* Move m has been subtracted from the counter of its origin.
Delivered(m) ==
  LET v == val[m.to]
  IN /\ IsWin(v)
     /\ \/ v.n < ply - 1
        \/ v.n = ply - 1 /\ ScanEnded(v.ct, SlotOf[m.to])
        \/ /\ v.n = ply - 1 /\ stage = "scan"
           /\ v.ct = phase /\ SlotOf[m.to] = slot
           /\ ~ InFlight(m)

\* "Every unknown position stores the number of its moves not yet known to
\* lose" (retrograde.rs:4): each move is subtracted once, by one worker, and
\* no update is lost in a race or a skipped scan.  The counter never runs out
\* while the position is unknown.
CountersExact ==
  stage \notin {"init", "failed"} =>
    \A p \in Pos : IsUnknown(val[p]) =>
      /\ val[p].n > 0
      /\ val[p].n = Cardinality({m \in QuietFrom(p) : ~ Delivered(m)})
                    + Cardinality({c \in ConvFrom(p) : c.dep # "Win"})

ResolvedAt(s, kind, plies) ==
  {p \in Pos : SlotOf[p] = s /\ val[p].kind = kind /\ val[p].n = plies}

\* The counts the loop skips scans by, and ends on, are the numbers of
\* positions resolved at this ply and the one before: an upgraded win counts
\* once, and no race counts a position twice or loses it.
PlyCountsExact ==
  stage \in {"next", "scan", "endply"} =>
    \A s \in Slot :
      /\ found[s].wins = Cardinality(ResolvedAt(s, "win", ply))
      /\ found[s].losses = Cardinality(ResolvedAt(s, "loss", ply))
      /\ previous[s].wins = Cardinality(ResolvedAt(s, "win", ply - 1))
      /\ previous[s].losses = Cardinality(ResolvedAt(s, "loss", ply - 1))

\* The maxima handed to finalization, which picks the statistics' longest wins
\* and losses by them, are the greatest distances in each finished table.
MaximaExact ==
  stage = "solved" =>
    \A s \in Slot :
      LET wins == {p \in Pos : SlotOf[p] = s /\ IsWin(val[p])}
          losses == {p \in Pos : SlotOf[p] = s /\ IsLoss(val[p])}
      IN /\ \A p \in wins : val[p].n <= maxWin[s]
         /\ maxWin[s] > 0 => \E p \in wins : val[p].n = maxWin[s]
         /\ \A p \in losses : val[p].n <= maxLoss[s]
         /\ maxLoss[s] > 0 => \E p \in losses : val[p].n = maxLoss[s]

\* What the loop of solve_pair counts, ply by ply and at its end, is what it has
\* written in the cells, whoever of several workers won each exchange.
CountsExact == PlyCountsExact /\ MaximaExact

IsSource(v) == IsResolved(v) /\ v.n = ply - 1

\* "A phase only scans values at ply p - 1 and only writes values at ply p, so
\* it never sees its own writes" (retrograde.rs:20): through all the scans of a
\* ply no step changes a win or loss of the ply before, or makes a new one.
ScanSourceStable ==
  [][\A p \in Pos :
       /\ stage \in {"next", "scan"}
       /\ IsSource(val[p]) \/ IsSource(val'[p])
       => val'[p] = val[p]]_vars

\* A win or a loss is final once its ply is over; within its ply only a win
\* can change, to the same distance with a conversion type preferred to it.
ResolvedFinal ==
  [][\A p \in Pos : IsResolved(val[p]) =>
       \/ val'[p] = val[p]
       \/ /\ IsWin(val[p]) /\ IsWin(val'[p])
          /\ val'[p].n = val[p].n /\ val[p].n = ply /\ phase = "Loss"
          /\ WinRank[val'[p].ct] > WinRank[val[p].ct]]_vars

\* The loop ends: solve_pair returns a solved pair or an error.
Terminates == <>(stage \in {"solved", "failed"})

\* What the proofs add to make the invariants above inductive.

\* Counters are positive, distances are at most the ply in progress, and wins
\* and losses carry a conversion type; so do the values workers have loaded.
CellsWellFormed ==
  /\ \A p \in Pos : /\ IsUnknown(val[p]) => val[p].n > 0
                    /\ IsResolved(val[p]) => /\ val[p].ct \in ConversionType
                                             /\ val[p].n <= ply
  /\ \A w \in Worker : /\ IsUnknown(raw[w]) => raw[w].n > 0
                       /\ IsResolved(raw[w]) => raw[w].ct \in ConversionType

\* Outside a scan every worker has joined.
WorkersJoined ==
  stage # "scan" => \A w \in Worker : pc[w] = "idle" /\ todo[w] = {}

\* Cells of blocks and tables not yet initialised are untouched.
Untouched ==
  stage = "init" =>
    /\ pending \subseteq BlocksOf(slot)
    /\ \A p \in Pos : Block(p) \in pending \/ SlotOf[p] > slot => val[p] = Invalid

SolverInv ==
  /\ TypeOK /\ CellsWellFormed /\ WorkersJoined /\ Untouched
  /\ SummaryConservative

\* The labels of DtcLevels: what lies below the ply in progress.
LabelOf(p) ==
  IF stage \in {"init", "failed"} THEN Invalid
  ELSE IF IsUnknown(val[p]) \/ (IsResolved(val[p]) /\ val[p].n >= ply)
    THEN Unknown(0)
  ELSE val[p]

Levels == INSTANCE DtcLevels
  WITH label <- [p \in Pos |-> LabelOf(p)],
       level <- ply,
       status <- CASE stage = "init" -> "preparing"
                   [] stage = "failed" -> "failed"
                   [] stage = "solved" -> "complete"
                   [] OTHER -> "labelling"

\* The concurrent solver implements the level-by-level definition: the values
\* of one ply are those the definition gives, for every interleaving.
ImplementsLevels == Levels!LevelsSpec
================================================================================
