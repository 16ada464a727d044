# Verification of chess-egt

TLA+ specifications of the generator and prober of chess endgame tables kept in
this repository, the instances TLC checks, and theorems checked by TLAPS.
Paths below are relative to the repository (`src/retrograde.rs` is the solver).

## 1. The system

chess-egt computes, for every position of an endgame, the outcome and the
distance to conversion (a mate, a capture or a promotion), stores it in
compressed tables and probes them.

| Component | State | Operations | What is hard | What makes it correct |
|---|---|---|---|---|
| Retrograde solver, `src/retrograde.rs` | one atomic 16-bit cell per position of a table and its twin; ply bounds per block; counts per ply | initialise a chunk; scan for losses (phase W) or wins of one type (phase L); mark a win; decrement a counter; record in the summary | rayon workers race on cells with relaxed compare-exchange; phases are separated by joins only; scans are skipped by counts and bounds | the result is the best-move value of every position, independent of the interleaving; the loop ends |
| Outcomes, `src/lib.rs`, `src/egt_file.rs` | a 16-bit value | order, move value, encoding | limits of the encoding | the order is the one the solver's preferences use |
| Shared frame cache, `src/egt_file.rs` | registry of open files, an RwLock per file, accounting under a mutex | probe, batch of probes, read a chunk, evict, insert, remove, clear, resize | three kinds of locks, a victim chosen before its lock is held, files that lose their last owner, failures midway | exact accounting, budget between operations, no entry of a forgotten file, no lost thread |
| Table reader and writer, `src/egt_file.rs`, `src/egt_writer.rs` | seek table, frames; segments, footer, published flag | load a frame; write, finish, publish | wrong order of calls, failed uploads, transposed encoding | what is read is what was written |
| Finalization, `src/finalization.rs`, `src/finalization_stats.rs` | batches, statistics | unknown to draw, merge in order, publish the binary then its sidecar | two objects, no transaction | statistics as if sequential; no sidecar without its binary |
| Statistics and their cache, `src/stats.rs`, `src/stats_cache.rs` | sidecars, summaries of four levels of directories | save, invalidate, rebuild, query | crashes and concurrent writers between objects | a summary never contradicts its sidecars; complete statistics are never lost; a result counts each table once |
| Storage, `src/storage.rs` | root, format descriptor | validate, create once | generators racing to create it | one format per root |
| Driver and plan, `src/lib.rs`, `src/selection.rs` | the pairs to generate, the cache | generate, verify, pin, release | dependencies must exist and be current | dependencies come first; a cached reader is never stale |
| Table identity and selection, `src/table_id.rs`, `src/piece_set.rs`, `src/selection.rs` | none | name of a position, twin, parse, resolve selectors, plan | two orientations, ties between them, names that say less than the table | one table per class of positions; twins are where quiet moves lead; conversions come earlier in the order |
| Position indexing, `src/egt.rs`, `src/egt/indexer.rs`, `src/position.rs` | none | index of a position, setup of an index, reflection in the diagonal | four symmetries, repeated men, en passant | a bijection up to symmetry; move counters agree with unmoves |
| HTTP server, `src/bin/server.rs` | permits for blocking work | query, stats, shut down | work that outlives its request, panics | at most 8 operations, permits returned, every client answered |
| CLI, errors, scripts | none | arguments and printing | | |

How they interact: the driver takes the pairs of the plan one by one and calls
the solver inside one rayon pool; the solver probes conversion dependencies
through the shared cache; after its workers have joined, each table is
finalized, written and described by a sidecar; the driver then pins the new
tables in the cache and verifies them block by block, probing successors
through the same cache from all the pool's threads.  Server and library users
probe through a cache of their own, from any number of threads.

## 2. Modules

| Module | Models |
|---|---|
| `DtcOutcome` | cell values as records, the order of outcomes, `move_value` |
| `DtcLevels` | what the solver promises: positions labelled level by level |
| `Retrograde` | `solve_pair` and its workers |
| `RetrogradeProofs` | theorems about `Retrograde`: types, summaries, what a step may not do; its counts and move counters; its result and the refinement of `DtcLevels` |
| `MCRetrograde` | instances of `Retrograde` |
| `FrameCache` | `SharedFileCache` |
| `FrameCacheProofs` | theorems about `FrameCache` |
| `FiniteSums` | lemmas about sums over finite sets, folds and joined sequences, the order of sequences, and induction on sets and numbers |
| `MCFrameCache` | instances of `FrameCache` |
| `Publication` | a root in the object store: descriptor, binaries, sidecars and summaries, and the processes that write and read them |
| `PublicationProofs` | theorems about `Publication` |
| `MCPublication` | instances of `Publication` |
| `Board` | boards of any size, the moves on them, the validation of setups |
| `Indexer` | the numbering of a table's positions and its inverse |
| `TableScan`, `MCTableScan` | the solver's pass over the indices, move counters and unmoves; their tables |
| `TableNames` | names of tables, orientation, twins, the order of names |
| `Conversions` | where captures and promotions of a table lead |
| `Routing`, `MCRouting` | games as sequences of tables |
| `Selection` | selectors, what they resolve to, the plan |
| `NameProofs` | theorems about `TableNames`, `Conversions` and `Selection` |
| `Generation`, `MCGeneration` | a run of the generator: plan, dependencies, cached readers, pins, verification |
| `TableProofs` | theorems about `Routing` and `Generation` |
| `TableFile`, `MCTableFile` | cells to a published object and back: encoding, batches, statistics, the writer, the reader |
| `TableFileProofs` | theorems about `TableFile` |
| `Server`, `MCServer` | permits, blocking tasks, clients that leave, shutdown |
| `ServerProofs` | theorems about `Server` |

They compose along EXTENDS: `Board`, `Indexer`, `TableScan`; `TableNames`,
`Conversions`, then `Routing` and, through `Selection`, `Generation`.  `Retrograde`
implements `DtcLevels`; the game it takes as data is what `TableScan` computes.

Definitions named `...Faulty`, and those named for what they do
wrong (`CreateFormatOverwrites`, `DisjointNot`, `CanonicalByFiles`), stand beside the definition they
vary: each is a plausible bug of the code (a dropped recheck, a plain store for a
compare-exchange) and some property fails when it replaces the original.  They
are not part of the specifications.

### Retrograde

The rules of chess are data: the variable `game`, chosen once, says which
indices are positions, which are in check, the quiet moves between a table and
its twin, and the captures and promotions with the outcome found in the
dependency table (or that it is missing).  A quiet move has a copy number, for
the moves the diagonal symmetry counts twice.

`val` is `WorkingPair.values`, `bound` the `PlySummary` of both tables, and
`previous`, `found`, `ply`, `maxWin`, `maxLoss` are the locals of `solve_pair`;
`stage`, `phase` and `slot` are its program counter.  The workers take blocks
(`pending`), collect matches (`TakeBlock`), and deliver each update in steps:
`LoadCell`, then `LeaveCell`, `RetryCell` or `ExchangeCell`, then `RecordCell`.
The registers of a worker are `cur` and `raw`.

What the model assumes or abstracts:

* Distances are numbers, not 13-bit fields: the model is the program for tables
  with distances below 8192.
* A block's matches are collected in one step.  `ScanSourceStable`, which is
  proved, says that nothing a scan looks for changes while scans run.
* The updates of a block are delivered in any order; the code's order is one of
  them.
* The counts of a scan are local to a block and merged at the join; the model
  adds to them at the exchange.  Nothing reads them in between.
* `PlySummary::record` is a relaxed load and a `fetch_max`; bounds only grow,
  so the pair is one maximum.
* `compare_exchange_weak` may fail spuriously; the retry then loads the value it
  had, a stuttering step.
* All accesses to one cell or one bound are totally ordered (coherence of
  relaxed atomics); no property of the solver relates relaxed accesses to
  different locations within a phase, and joins order the phases.
* The failing allocation of the working arrays, which returns before any state
  exists, is left out.

### FrameCache

Each file has an explicit RwLock (`readers`, `writer`), because probes hold it
until their access is recorded and eviction waits for it.  The accounting mutex
is never held across a wait, so its sections are single steps; so is the
registry's lock, except in `remove`, which forgets files under it
(`RegistryFree`).  A probe is `Lookup` (and `OpenFile` under the write lock),
`ReadWarm` or `ReadCold` followed by `Load`, `Record` once per frame, then the
loop of `enforce_limit`: `ChooseVictim`, `Upgrade`, `Evict` or `DropStale`.
A load may fail (`ProbeFails`), a batch after installing some frames
(`BatchFails`).  Files are addresses that are reused when no Arc and no Weak is
left.

`insert` and `remove` may run beside probes, as their interior locks allow; the
program's driver happens to call them between parallel sections.  `clear` waits
for the workers, as its comment demands.  `remove` of several names is several
removals.  `clock` does not wrap (it has 64 bits).  Poisoned locks are left out.

### Publication

A process is a user of one `Location`: it generates a pair (`finalize_table` for
each table: `Publish`, then `save_stats` as `Invalidate` per directory and
`SaveStats`), queries (`ReadSummary`, then the records below directories without
one) or rebuilds (`DeleteOutside`, records, `WriteSummary`).  Every get, put,
delete and conditional put of one object is a step; the object store makes each
of them atomic, and nothing more.  `Fail` returns the error of any operation,
`Crash` replaces the process; both may happen between any two steps, and a put
that takes effect and reports an error is its step followed by `Fail`.  The locks
of the code do not reach across processes, so there are none here.

What the model assumes or abstracts:

* A record is absent, a placeholder, or complete with the *version* of the binary
  it describes; an aggregate is the version each of its tables contributes, and
  how often.  Counts, histograms and examples are functions of these.  A record
  that is absent and a placeholder contribute alike.  No two publications are
  taken to be equal, although the program is deterministic.
* `count` is the multiplicity with which the query or rebuild adds each table.
* Directories are sorted lexically in the code; the model requires only that a
  directory is deleted after those above it and written after those below.
* `record` is three objects long (read, invalidate, conditional put, read again),
  for any number of tables at once, which includes the batches of 32 on 8 threads.
* `validated` is the `OnceLock` of a location.  `ForeignFormat` is another release
  of the program that keeps the same protocol and another descriptor.
* `Exclusive` is the rule of the module comment of `src/stats_cache.rs`: no rebuild
  beside a generation or another rebuild.  Queries run beside anything, and
  generations beside generations, even of one table.
* A request of a process that has died does not take effect later, and nothing
  but the program changes the root.

### Board, Indexer, TableScan

The data that `Retrograde` takes as a game, from squares.  A board has any even
number of files and at least four ranks; what the program says of ranks of an 8
by 8 board is said relative to either edge, so that five ranks have double
pushes, en passant and promotion; pawnless tables need square boards, for the
diagonal.  `Board` is the chess library as the program uses it, with the
program's own verdicts on setups (`Verdict`).  `Indexer` follows
`src/egt/indexer.rs` function by function: king pairs (`KINGS_MAP`), pawn
placements with their possible en passant victims (`Configurations`), compaction,
combinations of repeated men, reflection of symmetric pawn tables and of the
diagonal.  `TableScan` decodes every index of a table in turn, counts it by its
verdict as `InvalidCounts` does, and defines the move counter and the unmoves of
a position as the solver computes them.

* The solver sees every table with White to move; so does the scan.
* Blocks are scanned in parallel and their counts are added; here indices are
  taken upwards, since nothing but the sum depends on the order.
* `board`, `tables` and `slot` are chosen once, like the solver's `game`.
* The solver does not run on these tables: hundreds of cells with the workers'
  registers are too many states.  `CountersMatchUnmoves` and `UnmovesAreMoves` are
  what it assumes of its game.

### TableNames, Conversions, Routing, Selection

A table is its *elements*: for each file the sides of its pawns from the mover's
first rank up, and the number of men of each side and role.  A name is a record
of what its characters say (files of each side's pawns, which of them are
opposed, the men); `compute_tablename` writes it and `parse_elements` recovers the
words from the flags.  Left out is the grammar: which characters, decimals and
slashes are accepted.  `Before` is the order of `TableId`.  `Prefix` is a
directory of the hierarchy, of one to four components, each a set of at most one
value.

`Conversions` gives the tables that captures and promotions can reach from the
*words* of a table.  Ranks of different files are not compared, so it is a superset
of what legal moves reach; `Routing`, where pawns stand on squares, checks that it
is one.  `Routing` leaves out kings and the squares of other men, on which no name
depends; a move of a piece may then always be made.  It keeps the table of the
position in a variable, so that a property can compare it before and after a
move.

### Generation

One run of `generate_selected` over a base location and an input location.  The
solver and the verifier are reduced to the artifacts they read: a table is read
from the `input`, from the base as it was (`old`) or as this run wrote it (`new`).
`cached` are the opened readers with the artifact each was opened on; `TakePair`
releases them between material families, `Pin` replaces them by the new outputs,
`Release` removes those.  `Plan` is what the request resolves to, and `PlanInOrder` what
the rest of a run relies on: names tell its pairs apart, and what a pair may convert to
comes before it.  A run may end for want of a dependency (`unavailable`) or
by an error at any pair (`Fail`).  There is one thread at this level; the races
within the cache are those of `FrameCache`, a crash between objects is one of
`Publication`'s.

### TableFile

A table of `Length` cells passes through `FinalizeBatch` (any batch, any order),
`Collect` (the merge in index order), the calls of `EgtFileWriter` in any order up
to `MaxCalls`, an upload of one buffer per step that may fail at any of them, or at
its completion with the object stored or not, and `ReadCell` of what the object
holds.  Cells are 16-bit integers, with the arithmetic of the code (`% 2 ^ 16`).

* Compression is external: a frame is one or two units that decompress only
  together, so that a wrong range is noticed.
* Partners in the diagonal have equal values, which the solver guarantees.
* Distances are below 8192 (`FileAssumption`): the encoding cuts longer ones, and
  no constructor notices.
* `transpose_frame` keeps no high byte for the values 0 and 1, while
  `detranspose_frame` supplies none for *low bytes* 0 and 1.  They are inverse on
  finalized values only: a counter divisible by 32 has low byte 0 and would shift
  the frame.  The instance has such a counter, and the property shows that
  finalization makes it a draw first.
* The hash of the buffers and the in-memory files of the tests are left out.

### Server

Every request is a handler (`Reject`, `Run`, `Respond`) and perhaps a blocking task
(`Begin`, `Finish`), which the permit has been moved into.  `Disconnect` drops the
handler and not the task.  `Finish` may be a panic, which the handler reports.
`Signal` is the end of `shutdown_signal`: connections are drained, then the runtime
is dropped, which cancels tasks not begun and waits for the others.  The library's
operations are taken to return: `OperationsReturn` of `FrameCache` is that for
probes.  The behaviour of axum, hyper and tokio is external.

## 3. What TLC checks

| Run | Question | Instance | Distinct states |
|---|---|---|---|
| `retrograde_pair` | all properties of the solver but one, with termination | 3 workers, 2 tables of 4 positions in 3 blocks each, 4 games | 32,863 |
| `retrograde_self` | the verdict on the result for every game | 2 workers, a self-pair of 3 positions, 32,768 games | 1,723,958 |
| `cache_probes` | races of three probing threads | 2 tables, a frame of 2 and one of 1 bytes, budget 2, 3 operations | 672,616 |
| `cache_admin` | probes beside insert, remove, clear, resize | 2 threads, 1 table, 4 addresses, budgets 0, 2, none, 4 operations | 292,602 |
| `cache_progress` | every operation returns | 2 threads, 3 operations, no symmetry | 354,848 |
| `publication_rule` | summaries and results, rebuilds running alone | 2 processes, 3 tables in 2 directories under a third, 1 publication of each | 607,307 |
| `publication_raced` | what survives without that rule | 2 processes, 2 publications of each table | 157,437 |
| `scan_tables` | numbering, rejected indices, counters and unmoves | 9 pairs of tables on 4 by 4, 2 by 5 and 4 by 5 squares | 18,590 |
| `routing_moves` | names of positions and where moves lead | 4 files with 3 ranks for pawns, up to 6 men, queens | 30,078 |
| `generation_runs` | which tables a run makes, from what, and what it verifies | 12 requests, 5 holdings, with and without verification | 6,637 |
| `file_calls` | what is written is read, statistics of parallel batches | 5 cells in frames of 2, 1 to 3 threads, 5 calls of the writer | 513,750 |
| `server_permits` | permits, answers, shutdown | 4 requests, 2 permits | 107,586 |

The solver's properties: `VerifyConsistent` is the verdict of the generator's
own check (`verify_block`) on the finished tables; `CountersExact` says what a
counter is at every step of every scan; `SummaryConservative` and `CountsExact`
relate the summaries, and the counts and maxima, to the cells;
`ScanSourceStable` and `ResolvedFinal` are what a step may never do;
`ImplementsLevels` is the refinement of `DtcLevels`; `Terminates` its liveness.

The four games of `retrograde_pair` are built for the races: three losses that
mark and upgrade the same wins from different blocks, counters decremented by
three blocks at once with a doubled move and a losing capture, conversion wins
upgraded by mates, and a missing dependency.  Every pair of steps of the workers
on one cell or one bound occurs with two workers; the third adds races of a
retry.  `retrograde_self` trades workers for breadth: every set of quiet moves
of three positions with every choice of their conversions, where scans and
updates share one table.  Blocks of one or two positions stand for 4096.

The cache's properties: `ResidentExact`, `EntriesResident` and
`EveryFrameCounted` tie the accounting to memory, the second in particular to the
two errors of `enforce_limit`, which cannot be returned; `BudgetBetweenOperations` is
the promise of the type's comment; `EvictsLeastRecentlyUsed` and
`EvictsOnlyOverBudget` say what eviction removes; `RegisteredOnce` what a probe
may do to the registry; `OperationsReturn` is liveness.  A frame of two bytes and
a shorter one make the budget of 2 exceeded by the second frame loaded, evicted
down to exactly the budget or below it; three operations are enough for a victim
to be touched, evicted by another thread, or reloaded between choice and
eviction.  `MaxOps` bounds the operations, hence the clock; symmetry (threads,
addresses) is used in the runs without liveness.  `EvictsOnlyOverBudget` is
checked without `remove` and resizing: beside those a chosen victim may be
evicted after others have made room.

The properties of publication: `SummaryFresh` is what summaries are for, at every
moment and not only between calls, because a crash may make any moment the last;
`SummariesNested` is what the two orders of the code achieve together;
`AggregateCurrent` compares a result with the history of each record since the
call began; the other four hold without `Exclusive`.  `SummaryFresh` does need it:
with a rebuild beside a generation the summary is written after its invalidation,
as the comment in the code warns.  Two levels of directories are enough for one
above, one below and one beside; a table that is its own twin and a pair give
calls of one and two tables; the directories above the three of the instance
behave like the upper one.  `MaxVersion` bounds publications: one is enough to
distinguish a summary before it from one after it, two let two generations of one
table overtake each other.  Three selections make the root, a directory and its
descendant (which overlaps), and a table by name.  Processes are symmetric.

The properties of the scan: `IndexRespectsSymmetry` takes every position through
every image of it, and of its exchange of colours, back to its index;
`TalliesExact` says that no class of positions is missing or has two indices, by
counting placements independently; `CountersMatchUnmoves` weighs the counter of a
position against what propagation delivers to it, and `UnmovesAreMoves` says that
it delivers nothing else.  On 4 by 4 squares both kings can stand on the diagonal
and leave it, and two knights exchange their order in the reflection.  The pawn
tables have a pawn alone, two that can take each other en passant (with a rook
that pins one of them), a twin that is a reflection, tables that are their own
reflection on two and on four files, and four pawns on two files.  Five ranks are
the fewest on which a double push is no promotion.

Of names: `NamesIdentifyTables` says a name loses nothing although it says of each
pawn only whether it is opposed; `RoutingRespectsSymmetry` that mirrored positions
and those with colours exchanged share a table, with one reflection flag between
them; `MovesFollowTables` that a quiet move leads to the twin and a conversion to an
earlier pair.  Four files are the fewest on which two files are neither each
other's nor their own reflection; four pawns the fewest whose files tie while
their words do not.  One role of piece is enough for promotions to add to what
captures remove.

Of runs: `SelectionExact` compares the plan with the tables that have the
directory, material or name asked for, found by enumeration; `PrerequisitesPrecede`
says that in the order of names whatever a pair may convert to comes before it, as
the comment of `src/selection.rs` on the order promises; `BuiltFromThisRun` is
the claim on which generating in order of names rests; `VerifiesWhatItMade` says a
verifier sees the new tables, whatever was opened before, and no opened reader is
stale.  The requests cover each kind of selector, overlaps, both orientations of
a material and mistakes; the holdings are nothing, everything, all but one table,
an input that overlaps the output, and a damaged table.

Of files: `ReadsBackFinal` covers every order of calls, every failure and every
batch order at once; `StatisticsSequential` compares merged statistics with a
sequential pass.  Five cells in frames of two are two full frames and a short one,
in batches of three, two or one frames; five calls are one more than write,
finish, a failed publish and its retry.  The values have no high byte, a high byte
alone, both, the largest distance and an unknown whose low byte is 0.

Of the server: `AtMostMaxOperations` counts tasks, of clients gone too;
`RefusedOnlyWhenBusy` says no permit is lost; `AnswersAndStops` is liveness.  With two
permits, four requests are two at work, one refused, and one that comes when a
permit is back.

The type invariants of `Retrograde`, `Publication`, `FrameCache` and `Server` are proved rather than run.

Fairness: the operating system keeps scheduling the solver's thread, the pool's
workers and the threads of the cache (weak fairness of each one's steps).  New
probes need never start.  In `Server` the async runtime polls handlers, begins tasks,
drains and exits, and operations return; nobody has to send, to leave or to ask for
a shutdown.  The other modules state no fairness and no liveness.  Deadlock is
checked in every run; `Returned`, `Quiet`, `Initialized`, `Ended`, `Idle` and
`Stopped` are the only ways to stop.

## 4. What is proved

Theorems hold for every value of the constants that satisfies the named
assumptions of the component's module, where TLC checks one instance.

### The solver

For every set of positions, game, block layout and finite set of workers: the
assumptions (`PosAssumption` to `GamesAssumption` in `Retrograde`) are that positions
and workers are finite non-empty sets, that the moves of a game join positions, and
that a position has finitely many moves.

`RetrogradeProofs`:

* `TypeCorrect`: `Spec => []TypeOK`;
* `SummariesAreConservative`: `Spec => []SummaryConservative`, no scan skips a
  block that holds what it looks for;
* `ResolvedValuesFinal`: `Spec => ResolvedFinal`;
* `SourcesStable`: `Spec => ScanSourceStable`, the claim of the module comment of
  `src/retrograde.rs` on which the order of visits being irrelevant rests.

They follow from `SolverInvariant`, the inductive invariant `SolverInv`.  Types
alone are not inductive: a decrement is a natural number only if counters in
cells *and in the workers' registers* are positive, and a scanned value names a
kind of summary only if wins and losses carry a conversion type
(`CellsWellFormed`, which also bounds distances by the ply).  Summaries need
`Untouched` (initialisation overwrites bounds, of blocks that hold nothing yet)
and `WorkersJoined` (a record is owed only within a scan, so `phase` and `ply`
still say what to record).

Of the counts, from `ExactInvariant`:

* `CountsAreExact`: `Spec => []CountsExact`.  The counts of the ply before, of this
  ply and the maxima are cardinalities of sets of cells; an exchange adds one
  element, and only a new resolution is counted, never an upgrade.  The maxima are
  stated as bounds that are attained (`Longest`).
* `CountersAreExact`: `Spec => []CountersExact`.  A counter is the number of moves not
  *passed*.  A move is passed by the plies and phases before, by the blocks of this
  scan that have been taken, but not while its update is in some worker's hand; so
  the invariant says that the updates in hand are of distinct moves, of selected
  sources, of blocks taken (`HandsSelected`, `HandsDisjoint`).  Taking
  a block moves no counter, an exchange passes one move and takes one from it.

Of the result, from `OutcomeInvariant`:

* `FinishedTableVerifies`: `Spec => []VerifyConsistent`, the generator's own check
  accepts every finished table;
* `SolverImplementsLevels`: `Spec => ImplementsLevels`, the refinement of `DtcLevels`.

`OutcomeInv` says, at every moment of every scan, that a move to a passed loss has
made its origin a win as good (`WinsMarked`, `ConversionsWin`), that each win has the
move that achieves it (`WinsWitnessed`), and that each loss has all its moves lost
and one as long as the best (`LossesJustified`); the last needs `CountersExact`, since
a loss is written when a counter falls to zero.  At the end no move is left to pass
(`NothingLast`), which turns these into the best-move equation of `Verified`.  For the
refinement, the end of initialisation maps to `DtcLevels`' preparation, a missing
dependency to its failure, `EndPly` to its labelling of a level, and every other step
to a stutter: what an abstract level labels, from the labels
before it, is compared with what the ply has written, win by win and loss by loss.

### The frame cache

`FrameCacheProofs`, for any finite sets of files and frames, any number of threads
and tables (at least one, `TableAssumption`) and any budgets:

* `CacheTyped`; `ResidentBytesExact`: `Spec => []ResidentExact`;
* `EvictionNeverFails`: `Spec => []EntriesResident`, so the two errors of
  `enforce_limit` cannot occur;
* `NoFrameUncounted`: `Spec => []EveryFrameCounted`;
* `BudgetKept`: `Spec => []BudgetBetweenOperations`;
* `EvictionOrder`: `Spec => EvictsLeastRecentlyUsed`; `ProbesOpenOnce`: `Spec => RegisteredOnce`;
* `EvictionNeeded`: `Spec => EvictsOnlyOverBudget` if only probes and `clear` run
  (`ProbesOnly`).  The property is false otherwise: while a thread waits for its
  victim's lock, `remove` or a larger budget may make room.

The invariant `CacheInv` says who holds a file and its lock at each place of a
thread; that frames to record are in memory; that access times are distinct and
below the clock; that *no entry is older than a chosen victim* however long its
thread waits for the lock (`VictimOldest`), so a victim unchanged since is still the
oldest; that an entry dropped unseen belongs to a file nobody reaches
(`DroppedGone`); and that a budget exceeded has a thread on its way to enforce it
(`SomeoneEnforces`).  `ResidentExact` is an equation between a number and a sum over a
set: `FiniteSums` proves that the community modules' fold is such a sum whatever the
order of its choices, by taking a minimal counterexample among the subsets of a finite
set (`MinimalSet`), which stands for induction.

### The object store

`PublicationProofs`, for every hierarchy of directories, selections, set of processes
and bound satisfying `RootAssumption` (directories are finite in number and nested or
disjoint, as the beginnings of paths are):

* `TypeCorrect`: `Spec => []TypeOK`;
* `FormatGuardsWrites` and `FormatKept`: `WritesNeedFormat` and `FormatImmutable`,
  from `FormatHeld` (a location that has validated, and a call beyond validation,
  are in a root of this format);
* `CompleteKept`: `CompleteNeverLost`;
* `StatisticsBacked`: `Spec => []SidecarBacked`, from `Backed` (a generation about to
  save has a version the binary has reached);
* and if `Exclusive`: `SummariesFresh`, `SummariesStayNested` and `ResultsCurrent`, that is
  `SummaryFresh`, `SummariesNested` and `AggregateCurrent` always.

`SummaryFresh` alone is not inductive.  `FreshInv` adds that a rebuild runs beside no
generation and no other rebuild (`Alone`), that a generation about to save finds
what it has deleted still deleted (`Cleared`, which a rebuild could spoil), that the
records a rebuild has visited cover the directories it will write (`Covered`), and
that what it added up is still what the records say (`Accurate`, which a generation
could spoil).  `StatisticsChange` and `SummariesChange` say which steps touch either
side of the equation.

`NestInv` says of each call under way which summaries are gone by now (`Deleting`) or
written by now.  A deletion takes a directory whose upper ones have gone before it,
or were never there; a write one whose lower ones are there.  `StoredBeside` is where
the rule is used: beside a generation no summary appears, beside a rebuild none
changes.

`TallyInv` says of each call that every record's present worth is among those it
remembers (`StepRemembers`), and that it has counted, once, the tables of the
directories it has read (`CountedAt`).  That no table has two directories and none is
lost is `DisjointCovers`, about the deduplication of `hierarchy_prefixes`:
`OutermostCovers` finds above any directory of a finite set one that is outermost.

### The server

`ServerProofs`, for any finite set of requests and any number of permits:
`OperationsBounded` (`AtMostMaxOperations`) and `RefusalsJustified` (`RefusedOnlyWhenBusy`),
from the invariant that free permits and active tasks add up to the limit
(`PermitsHeld`), whether or not the client of a task is still there.

### Table files

`TableFileProofs`, for a table of any length, any frame size, set of thread counts and
bound on the writer's calls.  `FileAssumption` says of the cells solved what the solver
guarantees: a resolved cell has a conversion type, a counter is not zero
(`CellsWellFormed`, proved of `Retrograde`), and distances are below 8192, which the
encoding assumes.

* `TransposeInverse`: `detranspose_frame` gives back whatever frame `transpose_frame` was
  given, of any length, if only invalid cells and draws have a low byte of 0 or 1, as
  after finalization (`StoredCell`).
* `WriterHoldsTheTable`: `Spec => []FileInv`.  Whatever is called, in whatever order, and
  whichever upload fails, the writer holds no segments or all of them in order, no seek
  table or that of all frames, an upload is a beginning of one image, and no other
  object is stored.  From it `ReadsBackAlways`: `Spec => []ReadsBackFinal`.
* `StatisticsTallied`: a finished batch counts its own indices and the merged statistics
  those of the table.  From it `StatisticsAlways`: `Spec => []StatisticsSequential`.

The argument has three parts.  Cells: `StoredCell` inverts the bit fields.  Positions:
multiples of a frame cover the table (`IndexLocated`), multiples of a batch cover the
frames (`BatchFrames`), concatenation adds lengths (`Flattened`), so a seek table's sums
are the offsets of its frames (`ExtentIs`).  Statistics: what `record_outcome` and `merge`
keep is stated as a relation between statistics and a *set* of indices (`Tallied`): the
histograms are cardinalities, the candidates list the deepest indices.  Recording adds an
element, merging joins disjoint sets, so neither order matters.

`FoldLeft` and `FlattenSeq` are chosen by an equation.  That a function satisfies it is
shown with an equation that climbs one position at a time (`FoldExists`, `Climb`); what it
computes then follows from the equation, by taking the least position where a claim fails
(`LeastNatural`).  `FiniteSums` has these lemmas; this is how induction over data is replaced
where it is needed.

### Names and routing

`NameProofs` and `TableProofs`, for any number of files (even) and slots, up to four roles and any number
of pieces (`NamesAssumption`):

* `FlagsIdentifyWords`: the flags of both sides' pawns on a file, in their order of travel,
  say which word it is, as the comment in `parse_elements` claims.  `FlagsDiffer` takes the
  first slot where two words differ and shows that a flag before it differs, or their counts.
* `NamesIdentify`: `parse_elements` gives back the elements `compute_tablename` was given.  A
  file's pawns are found between the sums of the counts on the files before it
  (`FormatShape`, `FilePlaces`), the word with their flags is the only one.
* `PositionInvariant`: `GameSpec => []PositionInv`.  Pawns stay on the board and men are counted,
  no more than `MaxPieces` together; without that bound a name would not be parsed, and every
  kind of move has to keep it.
* `RoutingIdentifies`: `GameSpec => []NamesIdentifyTables`.  That both halves mark equally many
  pawns is a bijection with the places where a mover's pawn meets an enemy's (`MeetingsMarked`).
* `RoutingSymmetric`: `GameSpec => []RoutingRespectsSymmetry`.  The mirror image of a position has
  the reflected key (`MirrorKey`), exchanging colours leaves the key alone (`SwappedKey`), and
  a key and its reflection have one canonical orientation: the lists they are compared by
  are the lists of their reflections (`LookIs`), the order is total (`LexOrders`), and lists
  that agree have the same words, since words are told apart by their numbers
  (`WordNumberIs`).
* `MovesFollow`: `GameSpec => MovesFollowTables`.  A word is read off the sides of the slots
  of its file (`WordSpelled`).  A pawn that moves on its file keeps its letter or has that of the
  pawn it took (`FileSteps`), one that leaves a file takes its letter out of the word
  (`FileLoses`), one that comes to a file puts it in (`FileGains`).  Each kind of move then either
  leaves key and men or does what `Converts` lists, which is what `Conversions` computes from the
  words; the table is named by the canonical orientation, so the same is shown of the
  reflected key (`ConvertsEither`).  Afterwards the other side is to move, whose key is the
  turned one (`KeyTurned`): that of the twin for a quiet move (`SeenByTwin`), of a
  conversion otherwise, and `ConversionsSmaller` puts these before both.

### The generator

`TableProofs` (which extends both `Routing` and `Generation`, so the specification of games is
named `GameSpec`):

* `VerificationPinned`: while a pair is verified its tables are open under the artifacts
  this run has just published, for any plan, names and locations.
* `PrerequisitesFirst`: `Spec => []PrerequisitesPrecede`, the promise of the comment of
  `src/selection.rs`, for every request of selectors (`RequestsAssumption`: a material is of
  men and pawns, a name of men and pawns on files).
* `RunInvariant`, `RunBuildsOnItself` and `RunVerifiesItself`: `Spec => []...` of the invariant
  `GenInv`, `BuiltFromThisRun` and `VerifiesWhatItMade`.

The order of a plan is an argument about names, in `NameProofs`.  What a selector resolves to is
a name of pawns in their canonical orientation and men, few enough together (`IsTable`): of the
materials of n pieces (`MaterialsOf`), whose pawns are laid file by file (`LayoutsAre`), and of
a name that is parsed without error (`ParsedIsTable`).  Such a table's twin is another, whose
twin it is (`TwinTwice`), with as many pieces and pawns.  A conversion takes a man, a
pawn, or turns a pawn into a man, so it has fewer pieces, or as many and fewer pawns
(`ConversionsSmaller`); the order begins with these (`SmallerPrecedes`).  Two pairs of a plan differ
in some key (`KeysTell`): the first key gives the men, by role, and the files of the
pawns, as its parts can be told apart (`HalfKeyTells`), the second the sides on each file.

`GenInv` says that pairs are done in the order of names (`PrecedesOrders`: comparing
sequences is a strict total order), that what is done is made, that a reader is open under
what a lookup would find unless its table is still to be made, and what each reading was
taken from.

### Only model-checked

* Liveness (`Terminates`, `OperationsReturn`, `AnswersAndStops`): the prover does not
  handle fairness.
* The four properties of `TableScan`: they count and number the placements of men with
  combinations and bit maps over whole tables.
* `SelectionExact`: it compares two enumerations of all names.

## 5. Plan

What is left to prove is that a plan is exactly what its selectors mean; and the numbering
of `Indexer`: that the index of a placement of like men among free squares is a
bijection, one kind of men after another.

## 6. Not modelled

* The command line (`src/bin/main.rs`, `src/bin/common/mod.rs`), errors
  (`src/error.rs`) and scripts: arguments, printing, formatting.
* The grammar of names, selectors and locations, and the query strings and JSON of
  the server: text, whose decisions are modelled on the parsed values.
* Compression, hashing and the transport to the object store, of which the modules
  assume that a frame is read back or refused and that one object changes at once.
* `probe_with_moves`, which sorts the probed successors of one position for printing.
* The in-memory tables of the tests (`set_outcome`).
* The solver on the positions of `TableScan`: see above.
