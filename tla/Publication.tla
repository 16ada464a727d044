----------------------------- MODULE Publication -----------------------------
(***************************************************************************)
(* One root of a tablebase in an object store, and the processes that      *)
(* publish tables to it, aggregate their statistics and rebuild the cached *)
(* aggregates.                                                             *)
(*                                                                         *)
(* The root holds the format descriptor, and per table the binary and its  *)
(* JSON sidecar, and per directory at most one summary ("stats.json").     *)
(* A put or a delete of one object is atomic; nothing is atomic over two.  *)
(* Every object operation is a step here, so a process may stop, by a      *)
(* crash or by returning the error of any operation, between any two.      *)
(*                                                                         *)
(* Statistics are abstracted to the version of the table they describe:    *)
(* an aggregate is what each of its tables contributes, 0 standing for a   *)
(* table without statistics, whether its record is a placeholder or absent.*)
(***************************************************************************)
EXTENDS Naturals, Sequences, FiniteSets

CONSTANTS
  Procs,        \* processes, each with a Location of its own
  Tables,
  Prefixes,     \* directories of the hierarchy that hold tables
  Under,        \* the tables below a directory
  Outer,        \* the directories strictly above a directory
  Pairs,        \* the twin pairs that are generated, as sequences of tables
  Selections,   \* what may be asked of stats and cache_stats
  Exclusive,    \* whether rebuilds keep the rule of running alone
  MaxVersion    \* bound: publications of one table

\* A homogeneous selection: directories, or tables named or of one material.
Selecting ==
  [hierarchy : BOOLEAN, prefixes : SUBSET Prefixes, tables : SUBSET Tables]

\* Directories are the beginnings of the tables' paths up to a slash (ancestors), so
\* those of one table lie above one another.
ASSUME RootAssumption ==
  /\ Under \in [Prefixes -> SUBSET Tables]
  /\ Outer \in [Prefixes -> SUBSET Prefixes]
  /\ IsFiniteSet(Prefixes)
  /\ \A x \in Prefixes : \A y \in Outer[x] :
       /\ Under[x] \subseteq Under[y]
       /\ x \notin Outer[y]
       /\ Outer[y] \subseteq Outer[x]
  /\ \A x, y \in Prefixes :
       Under[x] \cap Under[y] # {} => x = y \/ x \in Outer[y] \/ y \in Outer[x]
  /\ Pairs \subseteq Seq(Tables) \ {<<>>}
  /\ Selections \subseteq Selecting
  /\ \A s \in Selections :
       IF s.hierarchy THEN s.tables = UNION {Under[x] : x \in s.prefixes}
                      ELSE s.prefixes = {}
  /\ Exclusive \in BOOLEAN
  /\ MaxVersion \in Nat

VARIABLES
  format,     \* the descriptor: absent, of this release, or of another
  binary,     \* version of the published table, 0 before the first
  sidecar,    \* the record beside it
  stored,     \* directories whose summary exists
  summary,    \* what the summary of a directory aggregates
  pc, op, sel, validated,
  queue,      \* generation: tables of the pair still to finalize
  made,       \* generation: version of the table just published
  drop,       \* summaries still to invalidate, per table
  prefixes,   \* directories still to delete, read or write
  visit,      \* place of the record of each table in visit_records
  total,      \* the aggregate being accumulated...
  count,      \* ...and how often each table has been added to it
  since       \* history: contributions of each table since the call

store == <<format, binary, sidecar, stored, summary>>
local == <<sel, queue, made, drop, prefixes, visit, total, count>>
vars == <<store, pc, op, validated, local, since>>

Versions == 0 .. MaxVersion
Absent == [kind |-> "absent", version |-> 0]
Placeholder == [kind |-> "placeholder", version |-> 0]
Complete(v) == [kind |-> "complete", version |-> v]
Records == {Absent, Placeholder} \cup {Complete(v) : v \in Versions \ {0}}

Nothing == [t \in Tables |-> 0]

-------------------------------------------------------------------------------
(* The hierarchy.                                                           *)

\* The directories of a table's path.
Ancestors(t) == {x \in Prefixes : t \in Under[x]}

\* Lexical order has a directory before everything below it: the next to delete
\* is one without a pending directory above, the next to write one without a
\* pending directory below.
Outermost(D) == {x \in D : Outer[x] \cap D = {}}
Innermost(D) == {x \in D : \A y \in D : x \notin Outer[y]}

DisjointNot(s) == s

\* hierarchy_prefixes: duplicates and covered descendants are dropped.
Disjoint(s) == [s EXCEPT !.prefixes = Outermost(@)]

\* Outside ancestors of a selection, and the summaries it rebuilds: the selected
\* directories and all those below.
OutsideOf(s) == UNION {Outer[x] : x \in s.prefixes}
InsideOf(s) ==
  {y \in Prefixes : \E x \in s.prefixes : y = x \/ x \in Outer[y]}

-------------------------------------------------------------------------------
(* Processes.                                                               *)

NoSelection == [hierarchy |-> FALSE, prefixes |-> {}, tables |-> {}]

Idle(p) == pc[p] = "idle"
Running(kind) == {p \in Procs : ~ Idle(p) /\ op[p] = kind}
Aggregating(p) == ~ Idle(p) /\ op[p] \in {"query", "cache"}

Begin(p, kind, s, q) ==
  /\ Idle(p)
  /\ pc' = [pc EXCEPT ![p] = "format"]
  /\ op' = [op EXCEPT ![p] = kind]
  /\ sel' = [sel EXCEPT ![p] = s]
  /\ queue' = [queue EXCEPT ![p] = q]
  /\ UNCHANGED <<store, validated, made, drop, prefixes, visit, total, count>>

\* generate_selected, for one pair that has been solved.
StartGenerate(p) ==
  /\ Exclusive => Running("cache") = {}
  /\ \E pair \in Pairs : Begin(p, "generate", NoSelection, pair)
  /\ UNCHANGED since

Watch(p) ==
  since' = [since EXCEPT ![p] = [t \in Tables |-> {sidecar[t].version}]]

StartQuery(p) ==
  /\ \E s \in Selections : Begin(p, "query", Disjoint(s), <<>>)
  /\ Watch(p)

StartCache(p) ==
  /\ Exclusive => Running("generate") \cup Running("cache") = {}
  /\ \E s \in Selections : Begin(p, "cache", Disjoint(s), <<>>)
  /\ Watch(p)

\* The end of a call, by its result or by an error; locals go.
Leave(p) ==
  /\ pc' = [pc EXCEPT ![p] = "idle"]
  /\ sel' = [sel EXCEPT ![p] = NoSelection]
  /\ queue' = [queue EXCEPT ![p] = <<>>]
  /\ made' = [made EXCEPT ![p] = 0]
  /\ drop' = [drop EXCEPT ![p] = [t \in Tables |-> {}]]
  /\ prefixes' = [prefixes EXCEPT ![p] = {}]
  /\ visit' = [visit EXCEPT ![p] = [t \in Tables |-> "none"]]
  /\ total' = [total EXCEPT ![p] = Nothing]
  /\ since' = [since EXCEPT ![p] = [t \in Tables |-> {}]]
  /\ count' = [count EXCEPT ![p] = Nothing]
  /\ op' = [op EXCEPT ![p] = "query"]
  /\ UNCHANGED store

\* An operation on the store fails: its error is returned.  A put may have taken
\* effect and fail all the same: that is the step after it, failing.
Fail(p) == ~ Idle(p) /\ Leave(p) /\ UNCHANGED validated

\* The process stops; another takes its place with a new Location.
Crash(p) == Leave(p) /\ validated' = [validated EXCEPT ![p] = FALSE]

Return(p) == pc[p] = "return" /\ Leave(p) /\ UNCHANGED validated

-------------------------------------------------------------------------------
(* The format descriptor: validate_format for a query, ensure_format for    *)
(* the others.  Later calls of either find format_validated set.            *)

Validated(p) ==
  /\ validated' = [validated EXCEPT ![p] = TRUE]
  /\ pc' = [pc EXCEPT ![p] =
       CASE op[p] = "generate" -> "publish"
         [] op[p] = "cache" -> "outside"
         [] op[p] = "query" -> "summaries"]
  /\ prefixes' = [prefixes EXCEPT ![p] =
       CASE op[p] = "generate" -> {}
         [] op[p] = "cache" -> OutsideOf(sel[p])
         [] op[p] = "query" -> sel[p].prefixes]
  /\ LET list == IF op[p] = "cache" \/ ~ sel[p].hierarchy THEN sel[p].tables ELSE {} IN
     /\ visit' = [visit EXCEPT ![p] = [t \in Tables |->
          IF t \in list THEN "read" ELSE "none"]]
     /\ count' = [count EXCEPT ![p] = [t \in Tables |-> IF t \in list THEN 1 ELSE 0]]
  /\ UNCHANGED <<binary, sidecar, stored, summary, op, sel, queue, made, drop,
                 total, since>>

\* A valid descriptor, or the memory of one.
AcceptFormat(p) ==
  /\ pc[p] = "format"
  /\ validated[p] \/ format = "ours"
  /\ Validated(p)
  /\ UNCHANGED format

MissingFormat(p) ==
  /\ pc[p] = "format" /\ ~ validated[p]
  /\ format = "absent"
  /\ op[p] # "query"
  /\ pc' = [pc EXCEPT ![p] = "create"]
  /\ UNCHANGED <<store, op, validated, local, since>>

CreateFormatOverwrites(p) ==
  /\ pc[p] = "create"
  /\ format' = "ours"
  /\ Validated(p)

\* PutMode::Create.
CreateFormat(p) ==
  /\ pc[p] = "create"
  /\ format = "absent"
  /\ format' = "ours"
  /\ Validated(p)

LoseFormatUnchecked(p) ==
  /\ pc[p] = "create"
  /\ format # "absent"
  /\ Validated(p)
  /\ UNCHANGED format

\* AlreadyExists: the descriptor of whoever was first is validated.
LoseFormat(p) ==
  /\ pc[p] = "create"
  /\ format # "absent"
  /\ pc' = [pc EXCEPT ![p] = "format"]
  /\ UNCHANGED <<store, op, validated, local, since>>

\* Another release of the program claims the root; it keeps the same protocol.
ForeignFormat ==
  /\ format = "absent"
  /\ format' = "foreign"
  /\ UNCHANGED <<binary, sidecar, stored, summary, pc, op, validated, local,
                 since>>

-------------------------------------------------------------------------------
(* Objects other than the descriptor.                                       *)

DeleteSummary(x) ==
  /\ stored' = stored \ {x}
  /\ summary' = [summary EXCEPT ![x] = Nothing]
  /\ UNCHANGED <<format, binary, sidecar>>

PutSidecar(t, r) ==
  /\ sidecar' = [sidecar EXCEPT ![t] = r]
  /\ since' = [p \in Procs |->
       IF Aggregating(p) THEN [since[p] EXCEPT ![t] = @ \cup {r.version}]
       ELSE since[p]]
  /\ UNCHANGED <<format, binary, stored, summary>>

-------------------------------------------------------------------------------
(* finalize_table, once per table of the pair.                              *)

PublishIgnoringErrors(p) ==
  /\ pc[p] = "publish"
  /\ LET t == Head(queue[p]) IN
     /\ binary[t] < MaxVersion
     /\ made' = [made EXCEPT ![p] = binary[t] + 1]
     /\ drop' = [drop EXCEPT ![p][t] = Ancestors(t)]
  /\ pc' = [pc EXCEPT ![p] = "save"]
  /\ UNCHANGED <<store, op, validated, sel, queue, prefixes, visit, total,
                 count, since>>

\* EgtFileWriter::publish: the object appears whole.
Publish(p) ==
  /\ pc[p] = "publish"
  /\ LET t == Head(queue[p]) IN
     /\ binary[t] < MaxVersion
     /\ binary' = [binary EXCEPT ![t] = @ + 1]
     /\ made' = [made EXCEPT ![p] = binary[t] + 1]
     /\ drop' = [drop EXCEPT ![p][t] = Ancestors(t)]
  /\ pc' = [pc EXCEPT ![p] = "save"]
  /\ UNCHANGED <<format, sidecar, stored, summary, op, validated, sel, queue,
                 prefixes, visit, total, count, since>>

\* save_stats: invalidate deletes the summaries one after the other...
Invalidate(p) ==
  /\ pc[p] = "save"
  /\ LET t == Head(queue[p]) IN
     \E x \in Outermost(drop[p][t]) :
       /\ DeleteSummary(x)
       /\ drop' = [drop EXCEPT ![p][t] = @ \ {x}]
  /\ UNCHANGED <<pc, op, validated, sel, queue, made, prefixes, visit, total,
                 count, since>>

SaveStatsBeforeInvalidation(p) ==
  /\ pc[p] = "save"
  /\ LET t == Head(queue[p]) IN
     /\ drop[p][t] = Ancestors(t)
     /\ PutSidecar(t, Complete(made[p]))
  /\ queue' = [queue EXCEPT ![p] = Tail(@)]
  /\ pc' = [pc EXCEPT ![p] = IF Len(queue[p]) = 1 THEN "return" ELSE "publish"]
  /\ UNCHANGED <<op, validated, sel, made, drop, prefixes, visit, total, count>>

\* ...then the sidecar is put.
SaveStats(p) ==
  /\ pc[p] = "save"
  /\ LET t == Head(queue[p]) IN
     /\ drop[p][t] = {}
     /\ PutSidecar(t, Complete(made[p]))
  /\ queue' = [queue EXCEPT ![p] = Tail(@)]
  /\ pc' = [pc EXCEPT ![p] = IF Len(queue[p]) = 1 THEN "return" ELSE "publish"]
  /\ UNCHANGED <<op, validated, sel, made, drop, prefixes, visit, total, count>>

-------------------------------------------------------------------------------
(* visit_records, for query and cache: the records of a batch are visited   *)
(* by parallel workers.                                                     *)

Visited(p, t) ==
  /\ visit' = [visit EXCEPT ![p][t] = "done"]
  /\ total' = [total EXCEPT ![p][t] = sidecar[t].version]

ReadRecord(p, t) ==
  /\ pc[p] = "records" /\ visit[p][t] \in {"read", "reread"}
  /\ sidecar[t] # Absent \/ op[p] = "query"
  /\ Visited(p, t)
  /\ UNCHANGED <<store, pc, op, validated, sel, queue, made, drop, prefixes,
                 count, since>>

\* A record is missing: ReadMode::Create invalidates, ReadMode::Rebuild has done so.
MissingRecord(p, t) ==
  /\ pc[p] = "records" /\ visit[p][t] = "read"
  /\ sidecar[t] = Absent /\ op[p] = "cache"
  /\ visit' = [visit EXCEPT ![p][t] = "create"]
  /\ drop' = [drop EXCEPT ![p][t] =
       IF sel[p].hierarchy THEN {} ELSE Ancestors(t)]
  /\ UNCHANGED <<store, pc, op, validated, sel, queue, made, prefixes, total,
                 count, since>>

InvalidateRecord(p, t) ==
  /\ pc[p] = "records" /\ visit[p][t] = "create"
  /\ \E x \in Outermost(drop[p][t]) :
       /\ DeleteSummary(x)
       /\ drop' = [drop EXCEPT ![p][t] = @ \ {x}]
  /\ UNCHANGED <<pc, op, validated, sel, queue, made, prefixes, visit, total,
                 count, since>>

CreateRecordOverwrites(p, t) ==
  /\ pc[p] = "records" /\ visit[p][t] = "create"
  /\ drop[p][t] = {}
  /\ PutSidecar(t, Placeholder)
  /\ Visited(p, t)
  /\ UNCHANGED <<pc, op, validated, sel, queue, made, drop, prefixes, count>>

\* PutMode::Create of the placeholder; AlreadyExists reads what was published.
CreateRecord(p, t) ==
  /\ pc[p] = "records" /\ visit[p][t] = "create"
  /\ drop[p][t] = {}
  /\ IF sidecar[t] = Absent
       THEN /\ PutSidecar(t, Placeholder)
            /\ Visited(p, t)
       ELSE /\ visit' = [visit EXCEPT ![p][t] = "reread"]
            /\ UNCHANGED <<store, total, since>>
  /\ UNCHANGED <<pc, op, validated, sel, queue, made, drop, prefixes,
                 count>>

\* The iterators have joined.
EndRecords(p) ==
  /\ pc[p] = "records"
  /\ \A t \in Tables : visit[p][t] \in {"none", "done"}
  /\ pc' = [pc EXCEPT ![p] = IF op[p] = "cache" THEN "rebuild" ELSE "return"]
  /\ prefixes' = [prefixes EXCEPT ![p] =
       IF op[p] = "cache" THEN InsideOf(sel[p]) ELSE {}]
  /\ UNCHANGED <<store, op, validated, sel, queue, made, drop, visit, total,
                 count, since>>

-------------------------------------------------------------------------------
(* query: a summary, or else the records below it.                          *)

ReadSummary(p) ==
  /\ pc[p] = "summaries"
  /\ \E x \in prefixes[p] :
       /\ prefixes' = [prefixes EXCEPT ![p] = @ \ {x}]
       /\ IF x \in stored
            THEN /\ total' = [total EXCEPT ![p] = [t \in Tables |->
                       IF t \in Under[x] THEN summary[x][t] ELSE @[t]]]
                 /\ UNCHANGED visit
            ELSE /\ visit' = [visit EXCEPT ![p] = [t \in Tables |->
                       IF t \in Under[x] THEN "read" ELSE @[t]]]
                 /\ UNCHANGED total
       /\ count' = [count EXCEPT ![p] = [t \in Tables |->
            IF t \in Under[x] THEN @[t] + 1 ELSE @[t]]]
  /\ UNCHANGED <<store, pc, op, validated, sel, queue, made, drop, since>>

EndSummaries(p) ==
  /\ pc[p] = "summaries" /\ prefixes[p] = {}
  /\ pc' = [pc EXCEPT ![p] = "records"]
  /\ UNCHANGED <<store, op, validated, local, since>>

-------------------------------------------------------------------------------
(* cache: outside ancestors, records, then the summaries.                   *)

DeleteOutside(p) ==
  /\ pc[p] = "outside"
  /\ \E x \in Outermost(prefixes[p]) :
       /\ DeleteSummary(x)
       /\ prefixes' = [prefixes EXCEPT ![p] = @ \ {x}]
  /\ UNCHANGED <<pc, op, validated, sel, queue, made, drop, visit, total, count,
                 since>>

EndOutside(p) ==
  /\ pc[p] = "outside" /\ prefixes[p] = {}
  /\ pc' = [pc EXCEPT ![p] = "records"]
  /\ UNCHANGED <<store, op, validated, local, since>>

WriteSummaryParentsFirst(p) ==
  /\ pc[p] = "rebuild"
  /\ \E x \in Outermost(prefixes[p]) :
       /\ stored' = stored \cup {x}
       /\ summary' = [summary EXCEPT ![x] = [t \in Tables |->
            IF t \in Under[x] THEN total[p][t] ELSE 0]]
       /\ prefixes' = [prefixes EXCEPT ![p] = @ \ {x}]
  /\ UNCHANGED <<format, binary, sidecar, pc, op, validated, sel, queue, made,
                 drop, visit, total, count, since>>

WriteSummary(p) ==
  /\ pc[p] = "rebuild"
  /\ \E x \in Innermost(prefixes[p]) :
       /\ stored' = stored \cup {x}
       /\ summary' = [summary EXCEPT ![x] = [t \in Tables |->
            IF t \in Under[x] THEN total[p][t] ELSE 0]]
       /\ prefixes' = [prefixes EXCEPT ![p] = @ \ {x}]
  /\ UNCHANGED <<format, binary, sidecar, pc, op, validated, sel, queue, made,
                 drop, visit, total, count, since>>

EndRebuild(p) ==
  /\ pc[p] = "rebuild" /\ prefixes[p] = {}
  /\ pc' = [pc EXCEPT ![p] = "return"]
  /\ UNCHANGED <<store, op, validated, local, since>>

-------------------------------------------------------------------------------

Init ==
  /\ format \in {"absent", "foreign"}
  /\ binary = Nothing
  /\ sidecar = [t \in Tables |-> Absent]
  /\ stored = {}
  /\ summary = [x \in Prefixes |-> Nothing]
  /\ pc = [p \in Procs |-> "idle"]
  /\ op = [p \in Procs |-> "query"]
  /\ sel = [p \in Procs |-> NoSelection]
  /\ validated = [p \in Procs |-> FALSE]
  /\ queue = [p \in Procs |-> <<>>]
  /\ made = [p \in Procs |-> 0]
  /\ drop = [p \in Procs |-> [t \in Tables |-> {}]]
  /\ prefixes = [p \in Procs |-> {}]
  /\ visit = [p \in Procs |-> [t \in Tables |-> "none"]]
  /\ total = [p \in Procs |-> Nothing]
  /\ count = [p \in Procs |-> Nothing]
  /\ since = [p \in Procs |-> [t \in Tables |-> {}]]

Start(p) == StartGenerate(p) \/ StartQuery(p) \/ StartCache(p)
End(p) == Fail(p) \/ Crash(p) \/ Return(p)
Format(p) == AcceptFormat(p) \/ MissingFormat(p) \/ CreateFormat(p) \/ LoseFormat(p)
Generate(p) == Publish(p) \/ Invalidate(p) \/ SaveStats(p)
Record(p, t) ==
  ReadRecord(p, t) \/ MissingRecord(p, t) \/ InvalidateRecord(p, t)
  \/ CreateRecord(p, t)
Query(p) == ReadSummary(p) \/ EndSummaries(p)
Cache(p) == DeleteOutside(p) \/ EndOutside(p) \/ WriteSummary(p) \/ EndRebuild(p)

Step(p) ==
  \/ Start(p) \/ End(p) \/ Format(p)
  \/ Generate(p) \/ Query(p) \/ Cache(p) \/ EndRecords(p)
  \/ \E t \in Tables : Record(p, t)

Next == ForeignFormat \/ \E p \in Procs : Step(p)

Spec == Init /\ [][Next]_vars

-------------------------------------------------------------------------------
(* Properties.                                                              *)

\* The types of the objects and of the locals of each call.
TypeOK ==
  /\ format \in {"absent", "ours", "foreign"}
  /\ binary \in [Tables -> Versions]
  /\ sidecar \in [Tables -> Records]
  /\ stored \in SUBSET Prefixes
  /\ summary \in [Prefixes -> [Tables -> Versions]]
  /\ pc \in [Procs -> {"idle", "format", "create", "publish", "save", "summaries",
                       "outside", "records", "rebuild", "return"}]
  /\ op \in [Procs -> {"generate", "query", "cache"}]
  /\ sel \in [Procs -> Selecting]
  /\ validated \in [Procs -> BOOLEAN]
  /\ queue \in [Procs -> Seq(Tables)]
  /\ made \in [Procs -> Versions]
  /\ drop \in [Procs -> [Tables -> SUBSET Prefixes]]
  /\ prefixes \in [Procs -> SUBSET Prefixes]
  /\ visit \in [Procs -> [Tables -> {"none", "read", "create", "reread", "done"}]]
  /\ total \in [Procs -> [Tables -> Versions]]
  /\ count \in [Procs -> [Tables -> Nat]]
  /\ since \in [Procs -> [Tables -> SUBSET Versions]]

\* A summary that exists is the aggregate of the sidecars below its directory, at
\* every moment and whatever crashed (stats_cache.rs:5, "publishers must
\* invalidate a table's ancestor summaries before publishing").
SummaryFresh ==
  \A x \in stored : \A t \in Under[x] : summary[x][t] = sidecar[t].version

\* A directory that has a summary has one in every directory below, which is what
\* "descendants before their parents" (stats_cache.rs:93) and deleting from the
\* outside in keep up through crashes.
SummariesNested ==
  \A x \in stored : \A y \in Prefixes : x \in Outer[y] => y \in stored

\* What stats and cache_stats return counts every selected table once and no other,
\* by the statistics it had at some moment of the call, whether they come from a
\* summary or from its record and however the selectors overlap.
AggregateCurrent ==
  \A p \in Procs : pc[p] = "return" /\ Aggregating(p) =>
    \A t \in Tables :
      IF t \in sel[p].tables THEN count[p][t] = 1 /\ total[p][t] \in since[p][t]
                             ELSE count[p][t] = 0

\* Complete statistics never give way to a placeholder (stats_cache.rs:167).
CompleteNeverLost ==
  [][\A t \in Tables : sidecar[t].kind = "complete" => sidecar'[t].kind = "complete"]_vars

\* Statistics describe a table that has been published.
SidecarBacked == \A t \in Tables : sidecar[t].version <= binary[t]

\* No object is written or deleted in a root that is not of this format, however
\* the creation of its descriptor was raced.
WritesNeedFormat ==
  [][<<binary, sidecar, stored, summary>>' # <<binary, sidecar, stored, summary>>
       => format = "ours"]_vars

\* The descriptor of a root is immutable once it exists (storage.rs:144).
FormatImmutable == [][format # "absent" => format' = format]_vars
===============================================================================
