-------------------------- MODULE PublicationProofs --------------------------
(* Theorems about Publication, for every hierarchy and set of processes.    *)
EXTENDS Publication, FiniteSums, SequenceTheorems, TLAPS

\* Which call a place belongs to, and that a pair has tables left where one is used.
Shape ==
  \A p \in Procs :
    /\ pc[p] \in {"publish", "save"} => op[p] = "generate"
    /\ pc[p] \in {"outside", "rebuild"} => op[p] = "cache"
    /\ pc[p] = "summaries" => op[p] = "query"
    /\ pc[p] = "records" => op[p] \in {"query", "cache"}
    /\ op[p] = "generate" /\ pc[p] \in {"format", "create", "publish", "save"}
         => queue[p] # <<>>
    /\ pc[p] = "save" => made[p] # 0

\* Only the tail of a sequence of one is empty.
LEMMA LongerTail ==
  ASSUME NEW S, NEW s \in Seq(S), s # <<>>, Len(s) # 1
  PROVE  Tail(s) # <<>>
<1> DEFINE n == Len(s)
           k == Len(Tail(s))
<1>1. n \in Nat
  BY LenProperties
<1>2. k = n - 1
  BY HeadTailProperties
<1>3. Tail(s) = <<>> => k = 0
  BY EmptySeq
<1>4. n # 1
  OBVIOUS
<1> HIDE DEF n, k
<1>5. k # 0
  BY <1>1, <1>2, <1>4
<1> QED
  BY <1>3, <1>5

\* What a record contributes is a version.
LEMMA RecordVersion ==
  ASSUME TypeOK, NEW t \in Tables
  PROVE  sidecar[t].version \in Versions
<1>1. sidecar[t] \in Records
  BY DEF TypeOK
<1> QED
  BY <1>1, RootAssumption DEF Records, Absent, Placeholder, Complete, Versions

\* hierarchy_prefixes leaves the tables of a selection alone.
LEMMA DisjointTyped ==
  ASSUME NEW s \in Selections
  PROVE  /\ Disjoint(s) \in Selecting
         /\ Disjoint(s).tables = s.tables
         /\ Disjoint(s).prefixes \subseteq s.prefixes
<1>1. s \in Selecting
  BY RootAssumption
<1> QED
  BY <1>1 DEF Selecting, Disjoint, Outermost

\* A call begins with locals of their types.
LEMMA BeginTyped ==
  ASSUME TypeOK, Shape, NEW p \in Procs, NEW s \in Selecting,
         NEW kind \in {"generate", "query", "cache"}, NEW q \in Seq(Tables),
         kind = "generate" => q # <<>>, Begin(p, kind, s, q),
         since' \in [Procs -> [Tables -> SUBSET Versions]]
  PROVE  TypeOK' /\ Shape'
<1>1. TypeOK'
  BY DEF TypeOK, Begin, store
<1>2. Shape'
  BY DEF TypeOK, Shape, Begin
<1> QED
  BY <1>1, <1>2

\* A put of a record leaves records, and histories of versions.
LEMMA PutSidecarTyped ==
  ASSUME TypeOK, NEW t \in Tables, NEW r \in Records, r.version \in Versions,
         PutSidecar(t, r)
  PROVE  /\ sidecar' \in [Tables -> Records]
         /\ since' \in [Procs -> [Tables -> SUBSET Versions]]
         /\ UNCHANGED <<format, binary, stored, summary>>
<1>1. ASSUME NEW q \in Procs
      PROVE  [since[q] EXCEPT ![t] = @ \cup {r.version}] \in [Tables -> SUBSET Versions]
  <2>1. since[q] \in [Tables -> SUBSET Versions]
    BY DEF TypeOK
  <2>2. since[q][t] \cup {r.version} \in SUBSET Versions
    BY <2>1
  <2> QED
    BY <2>1, <2>2
<1>2. \A q \in Procs : since[q] \in [Tables -> SUBSET Versions]
  BY DEF TypeOK
<1>3. since' \in [Procs -> [Tables -> SUBSET Versions]]
  BY <1>1, <1>2 DEF PutSidecar
<1>4. sidecar' \in [Tables -> Records]
  BY DEF TypeOK, PutSidecar
<1> QED
  BY <1>3, <1>4 DEF PutSidecar

\* A visited record is done and contributes a version.
LEMMA VisitedTyped ==
  ASSUME TypeOK, NEW p \in Procs, NEW t \in Tables, Visited(p, t)
  PROVE  /\ visit' \in [Procs -> [Tables -> {"none", "read", "create", "reread", "done"}]]
         /\ total' \in [Procs -> [Tables -> Versions]]
<1>1. [total[p] EXCEPT ![t] = sidecar[t].version] \in [Tables -> Versions]
  BY RecordVersion DEF TypeOK
<1>2. total' = [total EXCEPT ![p] = [total[p] EXCEPT ![t] = sidecar[t].version]]
  BY DEF Visited
<1>3. [visit[p] EXCEPT ![t] = "done"]
        \in [Tables -> {"none", "read", "create", "reread", "done"}]
  BY DEF TypeOK
<1>4. visit' = [visit EXCEPT ![p] = [visit[p] EXCEPT ![t] = "done"]]
  BY DEF Visited
<1> QED
  BY <1>1, <1>2, <1>3, <1>4 DEF TypeOK

\* A call whose root is of this format goes on with locals of their types.
LEMMA ValidatedTyped ==
  ASSUME TypeOK, Shape, NEW p \in Procs, pc[p] \in {"format", "create"},
         Validated(p), format' \in {"absent", "ours", "foreign"}
  PROVE  TypeOK' /\ Shape'
<1>1. visit' \in [Procs -> [Tables -> {"none", "read", "create", "reread", "done"}]]
  BY DEF TypeOK, Validated
<1>2. count' \in [Procs -> [Tables -> Nat]]
  BY DEF TypeOK, Validated
<1>3. OutsideOf(sel[p]) \in SUBSET Prefixes /\ sel[p].prefixes \in SUBSET Prefixes
  BY RootAssumption DEF TypeOK, OutsideOf, Selecting
<1>4. prefixes' \in [Procs -> SUBSET Prefixes]
  BY <1>3 DEF TypeOK, Validated
<1>5. TypeOK'
  BY <1>1, <1>2, <1>4 DEF TypeOK, Validated
<1>6. Shape'
  BY DEF TypeOK, Shape, Validated
<1> QED
  BY <1>5, <1>6

\* Every root begins with values of these types.
LEMMA InitTyped == Init => TypeOK /\ Shape
BY RootAssumption DEF Init, TypeOK, Shape, Nothing, NoSelection, Selecting, Versions, Records, Absent

\* Every step keeps the types, and calls at places of their own.
LEMMA StepTyped ==
  TypeOK /\ Shape /\ [Next]_vars => TypeOK' /\ Shape'
<1> SUFFICES ASSUME TypeOK, Shape, [Next]_vars PROVE TypeOK' /\ Shape'
  OBVIOUS
<1> USE RootAssumption DEF Versions
<1>1. ASSUME NEW p \in Procs, StartGenerate(p) PROVE TypeOK' /\ Shape'
  <2>1. PICK pair \in Pairs : Begin(p, "generate", NoSelection, pair)
    BY <1>1 DEF StartGenerate
  <2>2. NoSelection \in Selecting /\ pair \in Seq(Tables) /\ pair # <<>>
    BY DEF NoSelection, Selecting
  <2>3. since' \in [Procs -> [Tables -> SUBSET Versions]]
    BY <1>1 DEF StartGenerate, TypeOK
  <2> QED
    BY <2>1, <2>2, <2>3, BeginTyped
<1>2. ASSUME NEW p \in Procs, StartQuery(p) PROVE TypeOK' /\ Shape'
  <2>1. PICK s \in Selections : Begin(p, "query", Disjoint(s), <<>>)
    BY <1>2 DEF StartQuery
  <2>2. Disjoint(s) \in Selecting /\ <<>> \in Seq(Tables)
    BY DisjointTyped
  <2>3. since' \in [Procs -> [Tables -> SUBSET Versions]]
    BY <1>2, RecordVersion DEF StartQuery, Watch, TypeOK
  <2> QED
    BY <2>1, <2>2, <2>3, BeginTyped
<1>3. ASSUME NEW p \in Procs, StartCache(p) PROVE TypeOK' /\ Shape'
  <2>1. PICK s \in Selections : Begin(p, "cache", Disjoint(s), <<>>)
    BY <1>3 DEF StartCache
  <2>2. Disjoint(s) \in Selecting /\ <<>> \in Seq(Tables)
    BY DisjointTyped
  <2>3. since' \in [Procs -> [Tables -> SUBSET Versions]]
    BY <1>3, RecordVersion DEF StartCache, Watch, TypeOK
  <2> QED
    BY <2>1, <2>2, <2>3, BeginTyped
<1>4. ASSUME NEW p \in Procs, Fail(p) PROVE TypeOK' /\ Shape'
  BY <1>4 DEF TypeOK, Shape, Fail, Leave, Idle, NoSelection, Selecting, Nothing, store
<1>5. ASSUME NEW p \in Procs, Crash(p) PROVE TypeOK' /\ Shape'
  BY <1>5 DEF TypeOK, Shape, Crash, Leave, NoSelection, Selecting, Nothing, store
<1>6. ASSUME NEW p \in Procs, Return(p) PROVE TypeOK' /\ Shape'
  BY <1>6 DEF TypeOK, Shape, Return, Leave, NoSelection, Selecting, Nothing, store
<1>7. ASSUME NEW p \in Procs, AcceptFormat(p) PROVE TypeOK' /\ Shape'
  BY <1>7, ValidatedTyped DEF TypeOK, AcceptFormat
<1>8. ASSUME NEW p \in Procs, MissingFormat(p) PROVE TypeOK' /\ Shape'
  BY <1>8 DEF TypeOK, Shape, MissingFormat, store, local
<1>9. ASSUME NEW p \in Procs, CreateFormat(p) PROVE TypeOK' /\ Shape'
  BY <1>9, ValidatedTyped DEF CreateFormat
<1>10. ASSUME NEW p \in Procs, LoseFormat(p) PROVE TypeOK' /\ Shape'
  BY <1>10 DEF TypeOK, Shape, LoseFormat, store, local
<1>11. ASSUME NEW p \in Procs, Publish(p) PROVE TypeOK' /\ Shape'
  <2> DEFINE t == Head(queue[p])
  <2>1. t \in Tables
    BY <1>11 DEF TypeOK, Shape, Publish
  <2>2. binary[t] + 1 \in Versions
    BY <1>11, <2>1 DEF TypeOK, Publish
  <2>3. [drop[p] EXCEPT ![t] = Ancestors(t)] \in [Tables -> SUBSET Prefixes]
    BY <2>1 DEF TypeOK, Ancestors
  <2>4. /\ binary' = [binary EXCEPT ![t] = binary[t] + 1]
        /\ made' = [made EXCEPT ![p] = binary[t] + 1]
        /\ drop' = [drop EXCEPT ![p] = [drop[p] EXCEPT ![t] = Ancestors(t)]]
    BY <1>11 DEF Publish
  <2> HIDE DEF t
  <2>5. TypeOK'
    <3>1. binary' \in [Tables -> Versions] /\ made' \in [Procs -> Versions]
      BY <2>1, <2>2, <2>4 DEF TypeOK
    <3>2. drop' \in [Procs -> [Tables -> SUBSET Prefixes]]
      BY <2>3, <2>4 DEF TypeOK
    <3> QED
      BY <1>11, <3>1, <3>2 DEF TypeOK, Publish
  <2>6. Shape'
    <3>1. binary[t] + 1 # 0
      BY <2>1, <2>2 DEF TypeOK
    <3>2. made'[p] # 0 /\ \A q \in Procs \ {p} : made'[q] = made[q]
      BY <2>4, <3>1 DEF TypeOK
    <3>3. pc[p] = "publish" /\ pc' = [pc EXCEPT ![p] = "save"] /\ UNCHANGED <<op, queue>>
      BY <1>11 DEF Publish
    <3>4. pc'[p] = "save" /\ \A q \in Procs \ {p} : pc'[q] = pc[q]
      BY <3>3 DEF TypeOK
    <3> QED
      BY <3>2, <3>3, <3>4 DEF Shape
  <2> QED
    BY <2>5, <2>6
<1>12. ASSUME NEW p \in Procs, Invalidate(p) PROVE TypeOK' /\ Shape'
  <2> DEFINE t == Head(queue[p])
             Left(x) == [drop[p] EXCEPT ![t] = drop[p][t] \ {x}]
  <2>1. PICK x : DeleteSummary(x) /\ drop' = [drop EXCEPT ![p] = Left(x)]
    BY <1>12 DEF Invalidate
  <2> HIDE DEF t
  <2>a. drop' \in [Procs -> [Tables -> SUBSET Prefixes]]
    <3>1. drop[p] \in [Tables -> SUBSET Prefixes]
      BY DEF TypeOK
    <3>2. Left(x) \in [Tables -> SUBSET Prefixes]
      BY <3>1
    <3> HIDE DEF Left
    <3> QED
      BY <2>1, <3>2 DEF TypeOK
  <2>b. stored' \in SUBSET Prefixes
    BY <2>1 DEF TypeOK, DeleteSummary
  <2>c. summary' \in [Prefixes -> [Tables -> Versions]]
    <3>1. Nothing \in [Tables -> Versions]
      BY RootAssumption DEF Nothing, Versions
    <3> QED
      BY <2>1, <3>1 DEF TypeOK, DeleteSummary
  <2>d. TypeOK'
    BY <1>12, <2>1, <2>a, <2>b, <2>c DEF TypeOK, Invalidate, DeleteSummary
  <2>e. Shape'
    BY <1>12 DEF Shape, Invalidate
  <2> QED
    BY <2>d, <2>e
<1>13. ASSUME NEW p \in Procs, SaveStats(p) PROVE TypeOK' /\ Shape'
  <2> DEFINE t == Head(queue[p])
  <2>1. /\ t \in Tables
        /\ queue[p] \in Seq(Tables) /\ queue[p] # <<>>
        /\ Complete(made[p]) \in Records
        /\ Complete(made[p]).version \in Versions
    BY <1>13 DEF TypeOK, Shape, SaveStats, Complete, Records
  <2>2. /\ sidecar' \in [Tables -> Records]
        /\ since' \in [Procs -> [Tables -> SUBSET Versions]]
        /\ UNCHANGED <<format, binary, stored, summary>>
    <3> HIDE DEF t
    <3>1. PutSidecar(t, Complete(made[p]))
      BY <1>13 DEF SaveStats, t
    <3> QED
      BY <2>1, <3>1, PutSidecarTyped
  <2>3. /\ Tail(queue[p]) \in Seq(Tables)
        /\ Len(queue[p]) # 1 => Tail(queue[p]) # <<>>
    BY <2>1, HeadTailProperties, LongerTail
  <2>4. TypeOK'
    BY <1>13, <2>2, <2>3 DEF TypeOK, SaveStats
  <2>5. Shape'
    <3>1. /\ pc[p] = "save" /\ queue' = [queue EXCEPT ![p] = Tail(@)]
          /\ pc' = [pc EXCEPT ![p] = IF Len(queue[p]) = 1 THEN "return" ELSE "publish"]
          /\ UNCHANGED <<op, made>>
      BY <1>13 DEF SaveStats
    <3>2. /\ queue'[p] = Tail(queue[p])
          /\ pc'[p] = IF Len(queue[p]) = 1 THEN "return" ELSE "publish"
          /\ \A q \in Procs \ {p} : pc'[q] = pc[q] /\ queue'[q] = queue[q]
      BY <3>1 DEF TypeOK
    <3>3. UNCHANGED <<op, made>> /\ op[p] = "generate"
      BY <3>1 DEF Shape
    <3> QED
      BY <2>3, <3>2, <3>3 DEF Shape
  <2> QED
    BY <2>4, <2>5
<1>14. ASSUME NEW p \in Procs, ReadSummary(p) PROVE TypeOK' /\ Shape'
  <2> DEFINE added(x) == [t \in Tables |->
               IF t \in Under[x] THEN summary[x][t] ELSE total[p][t]]
             listed(x) == [t \in Tables |->
               IF t \in Under[x] THEN "read" ELSE visit[p][t]]
             counted(x) == [t \in Tables |->
               IF t \in Under[x] THEN count[p][t] + 1 ELSE count[p][t]]
  <2>1. PICK x \in prefixes[p] :
          /\ prefixes' = [prefixes EXCEPT ![p] = @ \ {x}]
          /\ \/ total' = [total EXCEPT ![p] = added(x)] /\ UNCHANGED visit
             \/ visit' = [visit EXCEPT ![p] = listed(x)] /\ UNCHANGED total
          /\ count' = [count EXCEPT ![p] = counted(x)]
    BY <1>14 DEF ReadSummary
  <2>2. x \in Prefixes
    BY DEF TypeOK
  <2>3. added(x) \in [Tables -> Versions]
    BY <2>2 DEF TypeOK
  <2>4. listed(x) \in [Tables -> {"none", "read", "create", "reread", "done"}]
    BY <2>2 DEF TypeOK
  <2>5. counted(x) \in [Tables -> Nat]
    BY <2>2 DEF TypeOK
  <2> HIDE DEF added, listed, counted
  <2>6. TypeOK'
    <3>1. total' \in [Procs -> [Tables -> Versions]]
      <4>1. CASE total' = [total EXCEPT ![p] = added(x)]
        BY <4>1, <2>3 DEF TypeOK
      <4>2. CASE UNCHANGED total
        BY <4>2 DEF TypeOK
      <4> QED
        BY <2>1, <4>1, <4>2
    <3>2. visit' \in [Procs -> [Tables -> {"none", "read", "create", "reread", "done"}]]
      <4>1. CASE visit' = [visit EXCEPT ![p] = listed(x)]
        BY <4>1, <2>4 DEF TypeOK
      <4>2. CASE UNCHANGED visit
        BY <4>2 DEF TypeOK
      <4> QED
        BY <2>1, <4>1, <4>2
    <3>3. count' \in [Procs -> [Tables -> Nat]]
      BY <2>1, <2>5 DEF TypeOK
    <3>4. prefixes' \in [Procs -> SUBSET Prefixes]
      BY <2>1 DEF TypeOK
    <3> QED
      BY <1>14, <3>1, <3>2, <3>3, <3>4 DEF TypeOK, ReadSummary, store
  <2>7. Shape'
    BY <1>14 DEF TypeOK, Shape, ReadSummary, store
  <2> QED
    BY <2>6, <2>7
<1>15. ASSUME NEW p \in Procs, EndSummaries(p) PROVE TypeOK' /\ Shape'
  BY <1>15 DEF TypeOK, Shape, EndSummaries, store, local
<1>16. ASSUME NEW p \in Procs, DeleteOutside(p) PROVE TypeOK' /\ Shape'
  BY <1>16 DEF TypeOK, Shape, DeleteOutside, DeleteSummary, Outermost, Nothing
<1>17. ASSUME NEW p \in Procs, EndOutside(p) PROVE TypeOK' /\ Shape'
  BY <1>17 DEF TypeOK, Shape, EndOutside, store, local
<1>18. ASSUME NEW p \in Procs, WriteSummary(p) PROVE TypeOK' /\ Shape'
  BY <1>18 DEF TypeOK, Shape, WriteSummary, Innermost
<1>19. ASSUME NEW p \in Procs, EndRebuild(p) PROVE TypeOK' /\ Shape'
  BY <1>19 DEF TypeOK, Shape, EndRebuild, store, local
<1>20. ASSUME NEW p \in Procs, EndRecords(p) PROVE TypeOK' /\ Shape'
  BY <1>20 DEF TypeOK, Shape, EndRecords, store, InsideOf, Selecting
<1>21. ASSUME NEW p \in Procs, NEW t \in Tables, ReadRecord(p, t) PROVE TypeOK' /\ Shape'
  <2>1. TypeOK'
    BY <1>21, RecordVersion DEF TypeOK, Shape, ReadRecord, Visited, store
  <2>2. Shape'
    BY <1>21, RecordVersion DEF TypeOK, Shape, ReadRecord, Visited, store
  <2> QED
    BY <2>1, <2>2
<1>22. ASSUME NEW p \in Procs, NEW t \in Tables, MissingRecord(p, t) PROVE TypeOK' /\ Shape'
  BY <1>22 DEF TypeOK, Shape, MissingRecord, Ancestors, store
<1>23. ASSUME NEW p \in Procs, NEW t \in Tables, InvalidateRecord(p, t) PROVE TypeOK' /\ Shape'
  BY <1>23 DEF TypeOK, Shape, InvalidateRecord, DeleteSummary, Outermost, Nothing
<1>24. ASSUME NEW p \in Procs, NEW t \in Tables, CreateRecord(p, t) PROVE TypeOK' /\ Shape'
  <2>1. /\ sidecar' \in [Tables -> Records]
        /\ since' \in [Procs -> [Tables -> SUBSET Versions]]
        /\ UNCHANGED <<format, binary, stored, summary>>
    <3>1. Placeholder \in Records /\ Placeholder.version \in Versions
      BY DEF Placeholder, Records
    <3>2. CASE sidecar[t] = Absent
      BY <1>24, <3>1, <3>2, PutSidecarTyped DEF CreateRecord
    <3>3. CASE sidecar[t] # Absent
      BY <1>24, <3>3 DEF TypeOK, CreateRecord, store
    <3> QED
      BY <3>2, <3>3
  <2>2. /\ visit' \in [Procs -> [Tables -> {"none", "read", "create", "reread", "done"}]]
        /\ total' \in [Procs -> [Tables -> Versions]]
    <3>1. CASE sidecar[t] = Absent
      BY <1>24, <3>1, VisitedTyped DEF CreateRecord
    <3>2. CASE sidecar[t] # Absent
      <4>1. [visit[p] EXCEPT ![t] = "reread"]
              \in [Tables -> {"none", "read", "create", "reread", "done"}]
        BY DEF TypeOK
      <4>2. visit' = [visit EXCEPT ![p] = [visit[p] EXCEPT ![t] = "reread"]]
        BY <1>24, <3>2 DEF CreateRecord
      <4> QED
        BY <1>24, <3>2, <4>1, <4>2 DEF TypeOK, CreateRecord
    <3> QED
      BY <3>1, <3>2
  <2>3. TypeOK'
    BY <1>24, <2>1, <2>2 DEF TypeOK, CreateRecord
  <2>4. Shape'
    BY <1>24 DEF TypeOK, Shape, CreateRecord
  <2> QED
    BY <2>3, <2>4
<1>25. CASE ForeignFormat
  BY <1>25 DEF TypeOK, Shape, ForeignFormat, local
<1>26. CASE UNCHANGED vars
  BY <1>26 DEF TypeOK, Shape, vars, store, local
<1> QED
  BY <1>1, <1>2, <1>3, <1>4, <1>5, <1>6, <1>7, <1>8, <1>9, <1>10, <1>11, <1>12, <1>13, <1>14, <1>15, <1>16, <1>17, <1>18, <1>19, <1>20, <1>21, <1>22, <1>23, <1>24, <1>25, <1>26 DEF Next, Step, Start, End, Format, Generate, Query, Cache, Record

-------------------------------------------------------------------------------
(* What a step may do to the objects.                                       *)

\* Steps of a process that touch no object but the binary and the descriptor.
LocalStep(p) ==
  \/ Start(p) \/ End(p) \/ Format(p) \/ Publish(p) \/ Query(p)
  \/ EndOutside(p) \/ EndRebuild(p) \/ EndRecords(p)
  \/ \E t \in Tables : ReadRecord(p, t) \/ MissingRecord(p, t)

\* They leave sidecars and summaries alone.
LEMMA LocalStepFrame ==
  ASSUME NEW p \in Procs, LocalStep(p)
  PROVE  UNCHANGED <<sidecar, stored, summary>>
<1>1. CASE Start(p)
  BY <1>1 DEF Start, StartGenerate, StartQuery, StartCache, Begin, store
<1>2. CASE End(p)
  BY <1>2 DEF End, Fail, Crash, Return, Leave, store
<1>3. CASE Format(p)
  BY <1>3 DEF Format, AcceptFormat, MissingFormat, CreateFormat, LoseFormat,
              Validated, store
<1>4. CASE Publish(p)
  BY <1>4 DEF Publish
<1>5. CASE Query(p)
  BY <1>5 DEF Query, ReadSummary, EndSummaries, store
<1>6. CASE EndOutside(p) \/ EndRebuild(p) \/ EndRecords(p)
  BY <1>6 DEF EndOutside, EndRebuild, EndRecords, store
<1>7. ASSUME NEW t \in Tables, ReadRecord(p, t) \/ MissingRecord(p, t)
      PROVE  UNCHANGED <<sidecar, stored, summary>>
  BY <1>7 DEF ReadRecord, MissingRecord, store
<1> QED
  BY <1>1, <1>2, <1>3, <1>4, <1>5, <1>6, <1>7 DEF LocalStep

\* The steps there are.
LEMMA NextCases ==
  ASSUME [Next]_vars
  PROVE  \/ ForeignFormat \/ UNCHANGED vars
         \/ \E p \in Procs :
              \/ LocalStep(p)
              \/ Invalidate(p) \/ SaveStats(p) \/ DeleteOutside(p) \/ WriteSummary(p)
              \/ \E t \in Tables : InvalidateRecord(p, t) \/ CreateRecord(p, t)
BY DEF Next, Step, Generate, Cache, Record, LocalStep

-------------------------------------------------------------------------------
(* The descriptor.                                                          *)

\* A call that has validated its root is in a root of this format.
FormatHeld ==
  \A p \in Procs :
    /\ validated[p] => format = "ours"
    /\ pc[p] \notin {"idle", "format", "create"} => validated[p]

\* The descriptor is kept, and what was validated stays true.
LEMMA StepFormat ==
  ASSUME TypeOK, FormatHeld, [Next]_vars
  PROVE  FormatHeld' /\ (format # "absent" => format' = format)
<1>1. ASSUME NEW p \in Procs, Start(p) \/ End(p)
      PROVE  FormatHeld' /\ (format # "absent" => format' = format)
  BY <1>1 DEF FormatHeld, TypeOK, Start, StartGenerate, StartQuery, StartCache, Begin,
              End, Fail, Crash, Return, Leave, store
<1>2. ASSUME NEW p \in Procs, Format(p)
      PROVE  FormatHeld' /\ (format # "absent" => format' = format)
  BY <1>2 DEF FormatHeld, TypeOK, Format, AcceptFormat, MissingFormat, CreateFormat,
              LoseFormat, Validated, store
<1>3. ASSUME NEW p \in Procs,
             Publish(p) \/ Query(p) \/ EndOutside(p) \/ EndRebuild(p) \/ EndRecords(p)
      PROVE  FormatHeld' /\ (format # "absent" => format' = format)
  BY <1>3 DEF FormatHeld, TypeOK, Publish, Query, ReadSummary, EndSummaries, EndOutside,
              EndRebuild, EndRecords, store
<1>4. ASSUME NEW p \in Procs,
             Invalidate(p) \/ SaveStats(p) \/ DeleteOutside(p) \/ WriteSummary(p)
      PROVE  FormatHeld' /\ (format # "absent" => format' = format)
  BY <1>4 DEF FormatHeld, TypeOK, Invalidate, SaveStats, DeleteOutside, WriteSummary,
              DeleteSummary, PutSidecar
<1>5. ASSUME NEW p \in Procs, NEW t \in Tables, Record(p, t)
      PROVE  FormatHeld' /\ (format # "absent" => format' = format)
  BY <1>5 DEF FormatHeld, TypeOK, Record, ReadRecord, MissingRecord, InvalidateRecord,
              CreateRecord, DeleteSummary, PutSidecar, store
<1>6. CASE ForeignFormat
  BY <1>6 DEF FormatHeld, ForeignFormat
<1>7. CASE UNCHANGED vars
  BY <1>7 DEF FormatHeld, vars, store
<1> QED
  BY <1>1, <1>2, <1>3, <1>4, <1>5, <1>6, <1>7, NextCases DEF LocalStep, Record

\* A step that writes or deletes an object is one of a validated call.
LEMMA StepWrites ==
  ASSUME FormatHeld, [Next]_vars
  PROVE  <<binary, sidecar, stored, summary>>' # <<binary, sidecar, stored, summary>>
           => format = "ours"
<1>1. ASSUME NEW p \in Procs, Publish(p) \/ Invalidate(p) \/ SaveStats(p)
               \/ DeleteOutside(p) \/ WriteSummary(p)
      PROVE  format = "ours"
  BY <1>1 DEF FormatHeld, Publish, Invalidate, SaveStats, DeleteOutside, WriteSummary
<1>2. ASSUME NEW p \in Procs, NEW t \in Tables,
             InvalidateRecord(p, t) \/ CreateRecord(p, t)
      PROVE  format = "ours"
  BY <1>2 DEF FormatHeld, InvalidateRecord, CreateRecord
<1>3. ASSUME NEW p \in Procs, LocalStep(p), ~ Publish(p)
      PROVE  UNCHANGED binary
  BY <1>3 DEF LocalStep, Start, StartGenerate, StartQuery, StartCache, Begin,
     End, Fail, Crash, Return, Leave, Format, AcceptFormat, MissingFormat, CreateFormat,
     LoseFormat, Validated, Query, ReadSummary, EndSummaries, EndOutside, EndRebuild,
     EndRecords, ReadRecord, MissingRecord, store
<1>4. CASE ForeignFormat \/ UNCHANGED vars
  BY <1>4 DEF ForeignFormat, vars, store
<1> QED
  BY <1>1, <1>2, <1>3, <1>4, NextCases, LocalStepFrame

\* Complete statistics stay complete.
LEMMA StepComplete ==
  ASSUME TypeOK, [Next]_vars, NEW t \in Tables, sidecar[t].kind = "complete"
  PROVE  sidecar'[t].kind = "complete"
<1>1. ASSUME NEW p \in Procs, SaveStats(p)
      PROVE  sidecar'[t].kind = "complete"
  BY <1>1 DEF SaveStats, PutSidecar, Complete, TypeOK
<1>2. ASSUME NEW p \in Procs, NEW u \in Tables, CreateRecord(p, u)
      PROVE  sidecar'[t].kind = "complete"
  <2>1. sidecar[u] = Absent => u # t
    BY DEF Absent
  <2>2. CASE sidecar[u] = Absent
    BY <1>2, <2>1, <2>2 DEF CreateRecord, PutSidecar, TypeOK
  <2>3. CASE sidecar[u] # Absent
    BY <1>2, <2>3 DEF CreateRecord, store
  <2> QED
    BY <2>2, <2>3
<1>3. ASSUME NEW p \in Procs, NEW u \in Tables,
             Invalidate(p) \/ DeleteOutside(p) \/ WriteSummary(p) \/ InvalidateRecord(p, u)
      PROVE  UNCHANGED sidecar
  BY <1>3 DEF Invalidate, DeleteOutside, WriteSummary, InvalidateRecord, DeleteSummary
<1>4. CASE ForeignFormat \/ UNCHANGED vars
  BY <1>4 DEF ForeignFormat, vars, store
<1> QED
  BY <1>1, <1>2, <1>3, <1>4, NextCases, LocalStepFrame

-------------------------------------------------------------------------------
(* Summaries, under the rule that rebuilds run alone.                       *)

\* A rebuild runs beside no generation and no other rebuild.
Alone ==
  \A p, q \in Procs : p \in Running("cache") /\ q \in Running("generate") \cup Running("cache")
    => p = q

\* A generation that has deleted a summary of its table finds it deleted.
Cleared ==
  \A p \in Procs : pc[p] = "save" =>
    \A x \in Ancestors(Head(queue[p])) \ drop[p][Head(queue[p])] : x \notin stored

\* The records a rebuild has visited cover the summaries it writes...
CoveredAt(p) ==
  /\ \A x \in sel[p].prefixes : Under[x] \subseteq sel[p].tables
  /\ op[p] = "cache" /\ pc[p] \in {"outside", "records"} =>
       \A t \in sel[p].tables : visit[p][t] # "none"
  /\ pc[p] = "rebuild" =>
       \A x \in prefixes[p] : \A t \in Under[x] : visit[p][t] = "done"
Covered == \A p \in Procs : CoveredAt(p)

\* ...and are still what it has added up.
Accurate ==
  \A p \in Procs : op[p] = "cache" /\ pc[p] \in {"outside", "records", "rebuild"} =>
    \A t \in Tables : visit[p][t] = "done" => total[p][t] = sidecar[t].version

FreshInv == Alone /\ Cleared /\ Covered /\ Accurate /\ SummaryFresh

\* Calls end, and begin by the rule.
LEMMA StepAlone ==
  ASSUME TypeOK, Exclusive, Alone, [Next]_vars
  PROVE  Alone'
<1>1. ASSUME NEW p \in Procs, NEW kind \in {"generate", "query", "cache"},
             NEW s, NEW q, Begin(p, kind, s, q),
             kind = "generate" => Running("cache") = {},
             kind = "cache" => Running("generate") \cup Running("cache") = {}
      PROVE  Alone'
  <2>1. op'[p] = kind /\ \A r \in Procs \ {p} : pc'[r] = pc[r] /\ op'[r] = op[r]
    BY <1>1 DEF Begin, TypeOK
  <2>2. \A k \in {"generate", "cache"} : Running(k)' \subseteq Running(k) \cup {p}
    BY <2>1 DEF Running, Idle
  <2>3. \A k \in {"generate", "cache"} : p \in Running(k)' => k = kind
    BY <2>1 DEF Running
  <2> QED
    BY <1>1, <2>2, <2>3 DEF Alone
<1>2. ASSUME NEW p \in Procs, End(p)
      PROVE  Alone'
  <2>1. pc'[p] = "idle" /\ \A r \in Procs \ {p} : pc'[r] = pc[r] /\ op'[r] = op[r]
    BY <1>2 DEF End, Fail, Crash, Return, Leave, TypeOK
  <2>2. \A k \in {"generate", "cache"} : Running(k)' \subseteq Running(k)
    BY <2>1 DEF Running, Idle
  <2> QED
    BY <2>2 DEF Alone
<1>3. ASSUME NEW p \in Procs, pc[p] # "idle", UNCHANGED op,
             \A q \in Procs : q # p => pc'[q] = pc[q]
      PROVE  Alone'
  BY <1>3 DEF Alone, Running, Idle
<1>4. ASSUME NEW p \in Procs, Format(p)
      PROVE  Alone'
  BY <1>4, <1>3 DEF TypeOK, Format, AcceptFormat, MissingFormat, CreateFormat, LoseFormat,
              Validated
<1>5. ASSUME NEW p \in Procs, Generate(p) \/ Query(p) \/ Cache(p) \/ EndRecords(p)
      PROVE  Alone'
  BY <1>5, <1>3 DEF TypeOK, Generate, Publish, Invalidate, SaveStats, Query, ReadSummary,
     EndSummaries, Cache, DeleteOutside, EndOutside, WriteSummary, EndRebuild, EndRecords
<1>6. ASSUME NEW p \in Procs, NEW t \in Tables, Record(p, t)
      PROVE  Alone'
  BY <1>6, <1>3 DEF TypeOK, Record, ReadRecord, MissingRecord, InvalidateRecord, CreateRecord
<1>7. CASE ForeignFormat \/ UNCHANGED vars
  BY <1>7 DEF Alone, Running, Idle, ForeignFormat, vars
<1> QED
  BY <1>1, <1>2, <1>4, <1>5, <1>6, <1>7
     DEF Next, Step, Start, StartGenerate, StartQuery, StartCache

\* What a selection covers is set when the call begins, kept by its visits, and
\* complete when they end.
LEMMA StepCovered ==
  ASSUME TypeOK, Shape, Covered, [Next]_vars
  PROVE  Covered'
<1> USE RootAssumption
<1>0. ASSUME NEW p \in Procs, CoveredAt(p)', \A q \in Procs \ {p} :
               /\ sel'[q] = sel[q] /\ op'[q] = op[q] /\ pc'[q] = pc[q]
               /\ visit'[q] = visit[q] /\ prefixes'[q] = prefixes[q]
      PROVE  Covered'
  BY <1>0 DEF Covered, CoveredAt
<1> DEFINE Others(p) == \A q \in Procs \ {p} :
               /\ sel'[q] = sel[q] /\ op'[q] = op[q] /\ pc'[q] = pc[q]
               /\ visit'[q] = visit[q] /\ prefixes'[q] = prefixes[q]
<1>1. ASSUME NEW p \in Procs, StartGenerate(p)
      PROVE  CoveredAt(p)' /\ Others(p)
  BY <1>1 DEF CoveredAt, TypeOK, StartGenerate, Begin, NoSelection
<1>2. ASSUME NEW p \in Procs, StartQuery(p) \/ StartCache(p)
      PROVE  CoveredAt(p)' /\ Others(p)
  <2>1. PICK s \in Selections : \E kind \in {"query", "cache"} : Begin(p, kind, Disjoint(s), <<>>)
    BY <1>2 DEF StartQuery, StartCache
  <2>2. \A x \in s.prefixes : Under[x] \subseteq s.tables
    BY DEF Selecting
  <2>3. \A x \in Disjoint(s).prefixes : Under[x] \subseteq Disjoint(s).tables
    BY <2>2, DisjointTyped
  <2> QED
    BY <2>1, <2>3 DEF CoveredAt, TypeOK, Begin
<1>3. ASSUME NEW p \in Procs, End(p)
      PROVE  CoveredAt(p)' /\ Others(p)
  <2>1. Leave(p)
    BY <1>3 DEF End, Fail, Crash, Return
  <2> QED
    BY <2>1 DEF CoveredAt, TypeOK, Leave, NoSelection
<1>4. ASSUME NEW p \in Procs, Validated(p)
      PROVE  CoveredAt(p)' /\ Others(p)
  <2>1. Others(p)
    BY <1>4 DEF Validated, TypeOK
  <2>2. sel'[p] = sel[p] /\ op'[p] = op[p] /\ pc'[p] # "rebuild"
    BY <1>4 DEF Validated, TypeOK
  <2>3. op[p] = "cache" => \A t \in sel[p].tables : visit'[p][t] = "read"
    BY <1>4 DEF Validated, TypeOK, Selecting
  <2> QED
    BY <2>1, <2>2, <2>3 DEF Covered, CoveredAt
<1>5. ASSUME NEW p \in Procs, MissingFormat(p) \/ LoseFormat(p)
      PROVE  CoveredAt(p)' /\ Others(p)
  BY <1>5 DEF Covered, CoveredAt, TypeOK, MissingFormat, LoseFormat, local
<1>6. ASSUME NEW p \in Procs, Generate(p)
      PROVE  CoveredAt(p)' /\ Others(p)
  BY <1>6 DEF Covered, CoveredAt, TypeOK, Generate, Publish, Invalidate, SaveStats
<1>7. ASSUME NEW p \in Procs, ReadSummary(p) \/ EndSummaries(p)
      PROVE  CoveredAt(p)' /\ Others(p)
  <2>1. op[p] = "query" /\ UNCHANGED <<sel, op>> /\ pc'[p] # "rebuild"
    BY <1>7 DEF Shape, TypeOK, ReadSummary, EndSummaries, local
  <2>2. Others(p)
    BY <1>7 DEF TypeOK, ReadSummary, EndSummaries, local
  <2> QED
    BY <2>1, <2>2 DEF Covered, CoveredAt
<1>8. ASSUME NEW p \in Procs, Cache(p)
      PROVE  CoveredAt(p)' /\ Others(p)
  BY <1>8 DEF Covered, CoveredAt, TypeOK, Cache, DeleteOutside, EndOutside, WriteSummary,
     EndRebuild, local
<1>9. ASSUME NEW p \in Procs, EndRecords(p)
      PROVE  CoveredAt(p)' /\ Others(p)
  <2>1. \A y \in InsideOf(sel[p]) : \E x \in sel[p].prefixes : Under[y] \subseteq Under[x]
    BY DEF InsideOf, TypeOK, Selecting
  <2>2. \A y \in InsideOf(sel[p]) : Under[y] \subseteq sel[p].tables
    BY <2>1 DEF Covered, CoveredAt
  <2>3. ASSUME op[p] = "cache"
        PROVE  \A t \in sel[p].tables : visit[p][t] = "done"
    BY <1>9, <2>3 DEF EndRecords, Covered, CoveredAt, TypeOK, Selecting
  <2> QED
    BY <1>9, <2>2, <2>3 DEF Covered, CoveredAt, EndRecords, TypeOK
<1>10. ASSUME NEW p \in Procs, NEW t \in Tables, Record(p, t)
       PROVE  CoveredAt(p)' /\ Others(p)
  <2>1. /\ pc[p] = "records"
        /\ UNCHANGED <<sel, op, pc, prefixes>>
        /\ visit' = visit
           \/ \E place \in {"done", "create", "reread"} :
                visit' = [visit EXCEPT ![p] = [visit[p] EXCEPT ![t] = place]]
    BY <1>10 DEF Record, ReadRecord, MissingRecord, InvalidateRecord, CreateRecord, Visited
  <2>2. /\ \A q \in Procs \ {p} : visit'[q] = visit[q]
        /\ \A u \in Tables : visit[p][u] # "none" => visit'[p][u] # "none"
    BY <2>1 DEF TypeOK
  <2> QED
    BY <2>1, <2>2 DEF Covered, CoveredAt, TypeOK, Selecting
<1>11. CASE ForeignFormat \/ UNCHANGED vars
  BY <1>11 DEF Covered, CoveredAt, ForeignFormat, vars, local
<1> QED
  BY <1>0, <1>1, <1>2, <1>3, <1>4, <1>5, <1>6, <1>7, <1>8, <1>9, <1>10, <1>11
     DEF Next, Step, Start, Format, AcceptFormat, CreateFormat, Query

\* Beside a rebuild no statistics change: only a generation completes a record, and
\* a placeholder contributes what an absent record does.
LEMMA StatisticsChange ==
  ASSUME TypeOK, [Next]_vars, NEW t \in Tables, sidecar'[t].version # sidecar[t].version
  PROVE  \E p \in Procs : SaveStats(p) /\ t = Head(queue[p])
<1>1. ASSUME NEW p \in Procs, NEW u \in Tables, CreateRecord(p, u)
      PROVE  sidecar'[t].version = sidecar[t].version
  <2>1. Absent.version = Placeholder.version
    BY DEF Absent, Placeholder
  <2>2. CASE sidecar[u] = Absent
    BY <1>1, <2>1, <2>2 DEF CreateRecord, PutSidecar, TypeOK
  <2>3. CASE sidecar[u] # Absent
    BY <1>1, <2>3 DEF CreateRecord, store
  <2> QED
    BY <2>2, <2>3
<1>2. ASSUME NEW p \in Procs, SaveStats(p), t # Head(queue[p])
      PROVE  sidecar'[t] = sidecar[t]
  BY <1>2 DEF SaveStats, PutSidecar, TypeOK
<1>3. ASSUME NEW p \in Procs, NEW u \in Tables,
             Invalidate(p) \/ DeleteOutside(p) \/ WriteSummary(p) \/ InvalidateRecord(p, u)
      PROVE  UNCHANGED sidecar
  BY <1>3 DEF Invalidate, DeleteOutside, WriteSummary, InvalidateRecord, DeleteSummary
<1>4. CASE ForeignFormat \/ UNCHANGED vars
  BY <1>4 DEF ForeignFormat, vars, store
<1> QED
  BY <1>1, <1>2, <1>3, <1>4, NextCases, LocalStepFrame

\* Summaries only appear in a rebuild, as what it has added up.
LEMMA SummariesChange ==
  ASSUME TypeOK, [Next]_vars
  PROVE  \/ /\ stored' \subseteq stored
            /\ \A x \in stored' : summary'[x] = summary[x]
         \/ /\ UNCHANGED sidecar
            /\ \E p \in Procs : \E x \in prefixes[p] :
                 /\ WriteSummary(p)
                 /\ stored' = stored \cup {x}
                 /\ \A y \in Prefixes \ {x} : summary'[y] = summary[y]
                 /\ \A t \in Under[x] : summary'[x][t] = total[p][t]
<1> USE RootAssumption
<1>1. ASSUME NEW x, DeleteSummary(x)
      PROVE  stored' \subseteq stored /\ \A y \in stored' : summary'[y] = summary[y]
  BY <1>1 DEF DeleteSummary, TypeOK
<1>2. ASSUME NEW p \in Procs, Invalidate(p) \/ DeleteOutside(p)
      PROVE  \E x : DeleteSummary(x)
  BY <1>2 DEF Invalidate, DeleteOutside
<1>3. ASSUME NEW p \in Procs, NEW t \in Tables, InvalidateRecord(p, t)
      PROVE  \E x : DeleteSummary(x)
  BY <1>3 DEF InvalidateRecord
<1>4. ASSUME NEW p \in Procs, WriteSummary(p)
      PROVE  /\ UNCHANGED sidecar
             /\ \E x \in prefixes[p] :
                  /\ stored' = stored \cup {x}
                  /\ \A y \in Prefixes \ {x} : summary'[y] = summary[y]
                  /\ \A t \in Under[x] : summary'[x][t] = total[p][t]
  <2>1. PICK x \in prefixes[p] :
          /\ stored' = stored \cup {x}
          /\ summary' = [summary EXCEPT ![x] = [t \in Tables |->
               IF t \in Under[x] THEN total[p][t] ELSE 0]]
    BY <1>4 DEF WriteSummary, Innermost
  <2>2. x \in Prefixes /\ Under[x] \subseteq Tables
    BY DEF TypeOK
  <2>3. UNCHANGED sidecar
    BY <1>4 DEF WriteSummary
  <2>4. \A y \in Prefixes \ {x} : summary'[y] = summary[y]
    BY <2>1 DEF TypeOK
  <2>5. \A t \in Under[x] : summary'[x][t] = total[p][t]
    BY <2>1, <2>2 DEF TypeOK
  <2> QED
    BY <2>1, <2>3, <2>4, <2>5
<1>5. ASSUME NEW p \in Procs,
             SaveStats(p) \/ \E t \in Tables : CreateRecord(p, t)
      PROVE  UNCHANGED <<stored, summary>>
  BY <1>5 DEF SaveStats, CreateRecord, PutSidecar, store
<1>6. CASE ForeignFormat \/ UNCHANGED vars
  BY <1>6 DEF ForeignFormat, vars, store
<1> QED
  BY <1>1, <1>2, <1>3, <1>4, <1>5, <1>6, NextCases, LocalStepFrame

\* A summary that survives a step is fresh after it.
LEMMA StepSummaryFresh ==
  ASSUME TypeOK, Shape, FreshInv, [Next]_vars
  PROVE  SummaryFresh'
<1> USE RootAssumption
<1>1. CASE /\ stored' \subseteq stored
           /\ \A x \in stored' : summary'[x] = summary[x]
  <2> SUFFICES ASSUME NEW x \in stored', NEW t \in Under[x]
               PROVE  summary'[x][t] = sidecar'[t].version
    BY DEF SummaryFresh
  <2>1. x \in stored /\ x \in Prefixes /\ t \in Tables /\ summary'[x] = summary[x]
    BY <1>1 DEF TypeOK
  <2>2. summary[x][t] = sidecar[t].version
    BY <2>1 DEF FreshInv, SummaryFresh
  <2>3. ASSUME NEW p \in Procs, SaveStats(p), t = Head(queue[p])
        PROVE  FALSE
    <3>1. x \in Ancestors(t) /\ drop[p][t] = {} /\ pc[p] = "save"
      BY <2>1, <2>3 DEF SaveStats, Ancestors
    <3> QED
      BY <2>1, <2>3, <3>1 DEF FreshInv, Cleared
  <2> QED
    BY <2>1, <2>2, <2>3, StatisticsChange
<1>2. ASSUME UNCHANGED sidecar, NEW p \in Procs, NEW x \in prefixes[p], WriteSummary(p),
             stored' = stored \cup {x},
             \A y \in Prefixes \ {x} : summary'[y] = summary[y],
             \A t \in Under[x] : summary'[x][t] = total[p][t]
      PROVE  SummaryFresh'
  <2>1. \A t \in Under[x] : total[p][t] = sidecar[t].version
    BY <1>2 DEF WriteSummary, Shape, FreshInv, Covered, CoveredAt, Accurate, TypeOK
  <2>2. \A y \in stored : y \in Prefixes
    BY DEF TypeOK
  <2> QED
    BY <1>2, <2>1, <2>2 DEF FreshInv, SummaryFresh
<1> QED
  BY <1>1, <1>2, SummariesChange

\* What a rebuild has added up stays what the records say.
LEMMA StepAccurate ==
  ASSUME TypeOK, Shape, Exclusive, FreshInv, [Next]_vars
  PROVE  Accurate'
<1> DEFINE Adding(p) == op[p] = "cache" /\ pc[p] \in {"outside", "records", "rebuild"}
           Good(p) == Adding(p) => \A t \in Tables :
                        visit[p][t] = "done" => total[p][t] = sidecar[t].version
           Others(p) == \A q \in Procs \ {p} :
                          /\ op'[q] = op[q] /\ pc'[q] = pc[q]
                          /\ visit'[q] = visit[q] /\ total'[q] = total[q]
<1>1. \A p \in Procs : Good(p)
  BY DEF FreshInv, Accurate
<1>2. ASSUME NEW q \in Procs, Adding(q), NEW t \in Tables
      PROVE  sidecar'[t].version = sidecar[t].version
  <2>1. ASSUME NEW p \in Procs, SaveStats(p)
        PROVE  FALSE
    BY <1>2, <2>1 DEF SaveStats, Shape, FreshInv, Alone, Running, Idle
  <2> QED
    BY <2>1, StatisticsChange
<1>3. ASSUME NEW p \in Procs, Others(p),
             \/ Good(p)'
             \/ ~ Adding(p)'
             \/ /\ Adding(p)' => Adding(p)
                /\ visit'[p] = visit[p] /\ total'[p] = total[p]
      PROVE  Accurate'
  <2> SUFFICES ASSUME NEW q \in Procs, Adding(q)', NEW t \in Tables, visit'[q][t] = "done"
               PROVE  total'[q][t] = sidecar'[t].version
    BY DEF Accurate
  <2>1. CASE Good(p)' /\ q = p
    BY <2>1
  <2>2. CASE Adding(q) /\ visit'[q] = visit[q] /\ total'[q] = total[q]
    BY <1>1, <1>2, <2>2
  <2> QED
    BY <1>3, <2>1, <2>2
<1>4. ASSUME NEW p \in Procs, StartGenerate(p) \/ StartQuery(p) \/ StartCache(p)
      PROVE  Others(p) /\ ~ Adding(p)'
  BY <1>4 DEF StartGenerate, StartQuery, StartCache, Begin, TypeOK
<1>5. ASSUME NEW p \in Procs, End(p)
      PROVE  Others(p) /\ ~ Adding(p)'
  <2>1. Leave(p)
    BY <1>5 DEF End, Fail, Crash, Return
  <2> QED
    BY <2>1 DEF Leave, TypeOK
<1>6. ASSUME NEW p \in Procs, Validated(p)
      PROVE  Others(p) /\ Good(p)'
  <2>1. \A t \in Tables : visit'[p][t] # "done"
    BY <1>6 DEF Validated, TypeOK
  <2> QED
    BY <1>6, <2>1 DEF Validated, TypeOK
<1>7. ASSUME NEW p \in Procs, MissingFormat(p) \/ LoseFormat(p) \/ Generate(p)
      PROVE  Others(p) /\ ~ Adding(p)'
  BY <1>7 DEF Shape, MissingFormat, LoseFormat, Generate, Publish, Invalidate, SaveStats,
     local, TypeOK
<1>8. ASSUME NEW p \in Procs, Query(p)
      PROVE  Others(p) /\ ~ Adding(p)'
  BY <1>8 DEF Shape, Query, ReadSummary, EndSummaries, local, TypeOK
<1>9. ASSUME NEW p \in Procs, Cache(p) \/ EndRecords(p)
      PROVE  /\ Others(p)
             /\ Adding(p)' => Adding(p)
             /\ visit'[p] = visit[p] /\ total'[p] = total[p]
  BY <1>9 DEF Shape, Cache, DeleteOutside, EndOutside, WriteSummary, EndRebuild, EndRecords,
     local, TypeOK
<1>10. ASSUME NEW p \in Procs, NEW t \in Tables, Record(p, t)
       PROVE  Others(p) /\ Good(p)'
  <2>1. CASE Visited(p, t) /\ UNCHANGED <<pc, op>> /\ pc[p] = "records"
    <3>1. /\ total'[p][t] = sidecar[t].version
          /\ \A u \in Tables \ {t} :
               visit'[p][u] = visit[p][u] /\ total'[p][u] = total[p][u]
      BY <2>1 DEF Visited, TypeOK
    <3>2. Others(p)
      BY <2>1 DEF Visited, TypeOK
    <3> QED
      BY <1>1, <1>2, <2>1, <3>1, <3>2
  <2>2. CASE /\ UNCHANGED <<pc, op, total>> /\ pc[p] = "records"
             /\ visit' = visit
                \/ \E place \in {"create", "reread"} :
                     visit' = [visit EXCEPT ![p] = [visit[p] EXCEPT ![t] = place]]
    <3>1. \A u \in Tables : visit'[p][u] = "done" => visit[p][u] = "done"
      BY <2>2 DEF TypeOK
    <3>2. Others(p)
      BY <2>2 DEF TypeOK
    <3> QED
      BY <1>1, <1>2, <2>2, <3>1, <3>2
  <2> QED
    BY <1>10, <2>1, <2>2 DEF Record, ReadRecord, MissingRecord, InvalidateRecord,
       CreateRecord
<1>11. CASE ForeignFormat \/ UNCHANGED vars
  BY <1>1, <1>11 DEF Accurate, ForeignFormat, vars, store, local
<1>12. ASSUME NEW p \in Procs, Step(p)
       PROVE  Accurate'
  <2>1. CASE Start(p) \/ End(p)
    BY <1>3, <1>4, <1>5, <2>1 DEF Start
  <2>2. CASE Format(p)
    BY <1>3, <1>6, <1>7, <2>2 DEF Format, AcceptFormat, CreateFormat
  <2>3. CASE Generate(p) \/ Query(p)
    BY <1>3, <1>7, <1>8, <2>3
  <2>4. CASE Cache(p) \/ EndRecords(p)
    BY <1>3, <1>9, <2>4
  <2>5. CASE \E t \in Tables : Record(p, t)
    BY <1>3, <1>10, <2>5
  <2> QED
    BY <1>12, <2>1, <2>2, <2>3, <2>4, <2>5 DEF Step
<1> QED
  BY <1>11, <1>12 DEF Next

\* Summaries a generation has deleted are not written behind its back.
LEMMA StepCleared ==
  ASSUME TypeOK, Shape, Exclusive, FreshInv, [Next]_vars
  PROVE  Cleared'
<1> DEFINE Owed(q) == Ancestors(Head(queue[q])) \ drop[q][Head(queue[q])]
<1>1. ASSUME NEW q \in Procs, pc[q] = "save", NEW x, x \notin stored
      PROVE  x \notin stored'
  <2>1. ASSUME NEW p \in Procs, WriteSummary(p)
        PROVE  FALSE
    BY <1>1, <2>1 DEF WriteSummary, Shape, FreshInv, Alone, Running, Idle
  <2> QED
    BY <1>1, <2>1, SummariesChange
<1>2. ASSUME NEW q \in Procs, pc[q] = "save", pc'[q] = "save",
             queue'[q] = queue[q], drop'[q] = drop[q], NEW x \in Owed(q)'
      PROVE  x \notin stored'
  BY <1>1, <1>2 DEF FreshInv, Cleared, Ancestors
<1>3. ASSUME NEW p \in Procs, Publish(p)
      PROVE  /\ Owed(p)' = {}
             /\ \A q \in Procs \ {p} : pc'[q] = pc[q] /\ queue'[q] = queue[q] /\ drop'[q] = drop[q]
  <2>1. Head(queue[p]) \in Tables
    BY <1>3 DEF Publish, Shape, TypeOK
  <2> QED
    BY <1>3, <2>1 DEF Publish, TypeOK, Ancestors
<1>4. ASSUME NEW p \in Procs, Invalidate(p)
      PROVE  /\ \A x \in Owed(p)' : x \notin stored'
             /\ \A q \in Procs \ {p} : pc'[q] = pc[q] /\ queue'[q] = queue[q] /\ drop'[q] = drop[q]
  <2> DEFINE t == Head(queue[p])
  <2>1. t \in Tables
    BY <1>4 DEF Invalidate, Shape, TypeOK
  <2>2. PICK x \in drop[p][t] : /\ stored' = stored \ {x}
                                /\ drop' = [drop EXCEPT ![p][t] = @ \ {x}]
                                /\ queue' = queue /\ pc' = pc /\ pc[p] = "save"
    BY <1>4 DEF Invalidate, Outermost, DeleteSummary
  <2> HIDE DEF t
  <2>3. drop'[p][t] = drop[p][t] \ {x}
    BY <2>1, <2>2 DEF TypeOK
  <2>4. \A y \in Ancestors(t) \ drop[p][t] : y \notin stored
    BY <2>2 DEF FreshInv, Cleared, t
  <2>5. \A q \in Procs \ {p} : drop'[q] = drop[q]
    BY <2>2 DEF TypeOK
  <2>6. \A y \in Ancestors(t) \ drop'[p][t] : y \notin stored'
    BY <2>2, <2>3, <2>4
  <2> QED
    BY <2>2, <2>5, <2>6 DEF t, Ancestors
<1>5. ASSUME NEW p \in Procs,
             \/ Start(p) \/ End(p) \/ Format(p) \/ SaveStats(p) \/ Query(p) \/ Cache(p)
             \/ EndRecords(p) \/ \E t \in Tables : Record(p, t)
      PROVE  /\ pc'[p] # "save"
             /\ \A q \in Procs \ {p} : pc'[q] = pc[q] /\ queue'[q] = queue[q] /\ drop'[q] = drop[q]
  <2>1. CASE Start(p) \/ End(p)
    BY <2>1 DEF Start, StartGenerate, StartQuery, StartCache, Begin, End, Fail, Crash,
       Return, Leave, TypeOK
  <2>2. CASE Format(p) \/ SaveStats(p) \/ EndRecords(p)
    BY <2>2 DEF Format, AcceptFormat, MissingFormat, CreateFormat, LoseFormat, Validated,
       SaveStats, EndRecords, local, TypeOK
  <2>3. CASE Query(p) \/ Cache(p)
    BY <2>3 DEF Query, ReadSummary, EndSummaries, Cache, DeleteOutside, EndOutside,
       WriteSummary, EndRebuild, local, TypeOK
  <2>4. ASSUME NEW t \in Tables, Record(p, t)
        PROVE  /\ pc'[p] = "records" /\ UNCHANGED <<pc, queue>>
               /\ \A q \in Procs \ {p} : drop'[q] = drop[q]
    BY <2>4 DEF Record, ReadRecord, MissingRecord, InvalidateRecord, CreateRecord, TypeOK
  <2> QED
    BY <1>5, <2>1, <2>2, <2>3, <2>4
<1>6. CASE ForeignFormat \/ UNCHANGED vars
  BY <1>6, <1>2 DEF Cleared, ForeignFormat, vars, local
<1>7. ASSUME NEW p \in Procs,
             pc'[p] # "save" \/ \A x \in Owed(p)' : x \notin stored',
             \A q \in Procs \ {p} : pc'[q] = pc[q] /\ queue'[q] = queue[q] /\ drop'[q] = drop[q]
      PROVE  Cleared'
  BY <1>2, <1>7 DEF Cleared
<1> QED
  BY <1>3, <1>4, <1>5, <1>6, <1>7 DEF Next, Step, Generate

-------------------------------------------------------------------------------
(* Statistics and binaries.                                                 *)

\* A generation about to save statistics has published at least that version.
Backed ==
  /\ SidecarBacked
  /\ \A p \in Procs : pc[p] = "save" => made[p] <= binary[Head(queue[p])]

\* Binaries only gain versions, and only a publication leads to a save.
LEMMA BinariesGrow ==
  ASSUME TypeOK, Shape, [Next]_vars
  PROVE  /\ binary' \in [Tables -> Nat]
         /\ \A t \in Tables : binary[t] <= binary'[t]
         /\ \A p \in Procs : pc'[p] = "save" =>
              \/ pc[p] = "save" /\ made'[p] = made[p] /\ queue'[p] = queue[p]
              \/ made'[p] = binary'[Head(queue'[p])]
<1> DEFINE Saves(p) == pc'[p] = "save" =>
              \/ pc[p] = "save" /\ made'[p] = made[p] /\ queue'[p] = queue[p]
              \/ made'[p] = binary'[Head(queue'[p])]
<1>1. binary \in [Tables -> Nat]
  BY RootAssumption DEF TypeOK, Versions
<1>2. ASSUME NEW p \in Procs, Publish(p)
      PROVE  /\ binary' \in [Tables -> Nat]
             /\ \A t \in Tables : binary[t] <= binary'[t]
             /\ \A q \in Procs : Saves(q)
  <2>1. Head(queue[p]) \in Tables /\ queue[p] # <<>>
    BY <1>2 DEF TypeOK, Shape, Publish
  <2>2. /\ binary' = [binary EXCEPT ![Head(queue[p])] = @ + 1]
        /\ made' = [made EXCEPT ![p] = binary[Head(queue[p])] + 1]
        /\ UNCHANGED queue
        /\ \A q \in Procs \ {p} : pc'[q] = pc[q]
    BY <1>2 DEF Publish, TypeOK
  <2>3. Saves(p)
    BY <1>1, <2>1, <2>2 DEF TypeOK
  <2>4. \A q \in Procs \ {p} : Saves(q)
    BY <2>2 DEF TypeOK
  <2> QED
    BY <1>1, <2>1, <2>2, <2>3, <2>4
<1>3. ASSUME NEW p \in Procs,
             \/ Start(p) \/ End(p) \/ Format(p) \/ SaveStats(p) \/ Query(p) \/ Cache(p)
             \/ EndRecords(p) \/ Invalidate(p) \/ \E t \in Tables : Record(p, t)
      PROVE  UNCHANGED binary /\ \A q \in Procs : Saves(q)
  <2>1. CASE Start(p) \/ End(p)
    BY <2>1 DEF Start, StartGenerate, StartQuery, StartCache, Begin, End, Fail, Crash,
       Return, Leave, TypeOK, store
  <2>2. CASE Format(p) \/ SaveStats(p) \/ EndRecords(p)
    BY <2>2 DEF Format, AcceptFormat, MissingFormat, CreateFormat, LoseFormat, Validated,
       SaveStats, PutSidecar, EndRecords, local, store, TypeOK
  <2>3. CASE Query(p) \/ Cache(p)
    BY <2>3 DEF Query, ReadSummary, EndSummaries, Cache, DeleteOutside, EndOutside,
       DeleteSummary, WriteSummary, EndRebuild, local, store, TypeOK
  <2>4. CASE Invalidate(p)
    BY <2>4 DEF Invalidate, DeleteSummary
  <2>5. ASSUME NEW t \in Tables, Record(p, t)
        PROVE  UNCHANGED <<binary, pc, made, queue>>
    BY <2>5 DEF Record, ReadRecord, MissingRecord, InvalidateRecord, CreateRecord,
       DeleteSummary, PutSidecar, store
  <2> QED
    BY <1>3, <2>1, <2>2, <2>3, <2>4, <2>5
<1>4. CASE ForeignFormat \/ UNCHANGED vars
  <2>1. UNCHANGED <<binary, pc, made, queue>>
    BY <1>4 DEF ForeignFormat, vars, store, local
  <2> QED
    BY <1>1, <2>1
<1> QED
  BY <1>1, <1>2, <1>3, <1>4 DEF Next, Step, Generate

\* A step changes a record only to describe what has been published.
LEMMA StepBacked ==
  ASSUME TypeOK, Shape, Backed, [Next]_vars
  PROVE  Backed'
<1>1. binary \in [Tables -> Nat] /\ sidecar \in [Tables -> Records]
  BY RootAssumption DEF TypeOK, Versions
<1>2. ASSUME NEW t \in Tables
      PROVE  sidecar'[t].version <= binary'[t]
  <2>1. sidecar[t].version \in Nat
    BY RecordVersion, RootAssumption DEF Versions
  <2>2. ASSUME sidecar'[t].version = sidecar[t].version
        PROVE  sidecar'[t].version <= binary'[t]
    BY <1>1, <2>1, <2>2, BinariesGrow DEF Backed, SidecarBacked
  <2>3. ASSUME NEW p \in Procs, SaveStats(p), t = Head(queue[p])
        PROVE  sidecar'[t].version <= binary'[t]
    <3>1. sidecar'[t].version = made[p]
      BY <1>1, <2>3 DEF SaveStats, PutSidecar, Complete
    <3>2. made[p] <= binary[t] /\ made[p] \in Nat
      BY <2>3, RootAssumption DEF SaveStats, Backed, TypeOK, Versions
    <3> QED
      BY <1>1, <3>1, <3>2, BinariesGrow
  <2> QED
    BY <2>2, <2>3, StatisticsChange
<1>3. ASSUME NEW p \in Procs, pc'[p] = "save"
      PROVE  made'[p] <= binary'[Head(queue'[p])]
  <2>1. CASE pc[p] = "save" /\ made'[p] = made[p] /\ queue'[p] = queue[p]
    <3>1. Head(queue[p]) \in Tables
      BY <2>1 DEF TypeOK, Shape
    <3>2. made[p] <= binary[Head(queue[p])] /\ made[p] \in Nat
      BY <2>1, RootAssumption DEF Backed, TypeOK, Versions
    <3> QED
      BY <1>1, <2>1, <3>1, <3>2, BinariesGrow
  <2>2. CASE made'[p] = binary'[Head(queue'[p])]
    <3>1. queue'[p] # <<>> /\ queue'[p] \in Seq(Tables)
      BY <1>3, StepTyped DEF TypeOK, Shape
    <3>2. Head(queue'[p]) \in Tables
      BY <3>1
    <3> QED
      BY <2>2, <3>2, BinariesGrow
  <2> QED
    BY <1>3, <2>1, <2>2, BinariesGrow
<1> QED
  BY <1>2, <1>3 DEF Backed, SidecarBacked

-------------------------------------------------------------------------------
(* Summaries are nested.                                                    *)

\* Summaries that are deleted one after the other, from the outside in: D are left
\* of the directories A.
Deleting(D, A) == D \subseteq A /\ (A \ D) \cap stored = {}

\* What a process has deleted and written so far, by its place.
NestedAt(p) ==
  /\ pc[p] = "save" =>
       Deleting(drop[p][Head(queue[p])], Ancestors(Head(queue[p])))
  /\ pc[p] \in {"summaries", "outside"} =>
       \A t \in Tables : visit[p][t] \in {"none", "read"}
  /\ pc[p] = "outside" => Deleting(prefixes[p], OutsideOf(sel[p]))
  /\ pc[p] = "records" =>
       \A t \in Tables : visit[p][t] = "create" =>
         op[p] = "cache" /\ (drop[p][t] = {} \/ Deleting(drop[p][t], Ancestors(t)))
  /\ pc[p] = "rebuild" =>
       prefixes[p] \subseteq InsideOf(sel[p]) /\ InsideOf(sel[p]) \ prefixes[p] \subseteq stored

NestInv == SummariesNested /\ \A p \in Procs : NestedAt(p)

\* The directories of a table, and those above a selection, contain those above each.
LEMMA ClosedOutwards ==
  ASSUME NEW x \in Prefixes, NEW y \in Outer[x]
  PROVE  /\ y \in Prefixes /\ y # x
         /\ \A t \in Tables : x \in Ancestors(t) => y \in Ancestors(t)
         /\ \A s \in Selecting : x \in OutsideOf(s) => y \in OutsideOf(s)
         /\ \A s \in Selecting : y \in InsideOf(s) => x \in InsideOf(s)
<1> USE RootAssumption
<1>1. y \in Prefixes /\ y # x
  OBVIOUS
<1>2. \A t \in Tables : x \in Ancestors(t) => y \in Ancestors(t)
  BY DEF Ancestors
<1>3. ASSUME NEW s \in Selecting, x \in OutsideOf(s)
      PROVE  y \in OutsideOf(s)
  <2>1. PICK z \in s.prefixes : x \in Outer[z]
    BY <1>3 DEF OutsideOf
  <2>2. z \in Prefixes
    BY DEF Selecting
  <2> QED
    BY <2>1, <2>2 DEF OutsideOf
<1>4. ASSUME NEW s \in Selecting, y \in InsideOf(s)
      PROVE  x \in InsideOf(s)
  <2>1. PICK z \in s.prefixes : y = z \/ z \in Outer[y]
    BY <1>4 DEF InsideOf
  <2> QED
    BY <1>1, <2>1 DEF InsideOf
<1> QED
  BY <1>1, <1>2, <1>3, <1>4

\* A summary without a stored one above it may be deleted.
LEMMA DeleteKeepsNested ==
  ASSUME SummariesNested, NEW x \in Prefixes, stored' = stored \ {x},
         \A y \in Outer[x] : y \notin stored, stored \subseteq Prefixes
  PROVE  SummariesNested'
BY DEF SummariesNested

\* The next summary deleted is one without a stored one above it.
LEMMA OutermostDeleted ==
  ASSUME NEW D \in SUBSET Prefixes, NEW A, Deleting(D, A), NEW x \in Outermost(D),
         \A y \in Outer[x] : y \in A, stored' = stored \ {x}
  PROVE  /\ \A y \in Outer[x] : y \notin stored
         /\ D \ {x} \subseteq A /\ (A \ (D \ {x})) \cap stored' = {}
BY DEF Deleting, Outermost

\* Each call keeps its own part...
LEMMA StepNestedOwn ==
  ASSUME TypeOK, Shape, NestInv, NEW p \in Procs, Step(p)
  PROVE  SummariesNested' /\ NestedAt(p)'
<1> USE RootAssumption
<1>0. /\ stored \subseteq Prefixes /\ sel[p] \in Selecting /\ prefixes[p] \subseteq Prefixes
      /\ \A t \in Tables : drop[p][t] \subseteq Prefixes
      /\ NestedAt(p) /\ SummariesNested
  BY DEF TypeOK, NestInv
<1>1. CASE Start(p) \/ End(p)
  <2>1. UNCHANGED stored /\ pc'[p] \in {"idle", "format"}
    BY <1>1 DEF Start, StartGenerate, StartQuery, StartCache, Begin, End, Fail, Crash,
       Return, Leave, TypeOK, store
  <2> QED
    BY <1>0, <2>1 DEF SummariesNested, NestedAt
<1>2. CASE Format(p)
  <2>1. UNCHANGED <<stored, sel>>
    BY <1>2 DEF Format, AcceptFormat, MissingFormat, CreateFormat, LoseFormat,
       Validated, TypeOK, store, local
  <2>2. \/ pc'[p] \in {"create", "format", "publish", "summaries"}
        \/ pc'[p] = "outside" /\ prefixes'[p] = OutsideOf(sel[p])
    BY <1>2 DEF Format, AcceptFormat, MissingFormat, CreateFormat, LoseFormat,
       Validated, TypeOK
  <2>3. SummariesNested'
    BY <1>0, <2>1 DEF SummariesNested
  <2>4. pc'[p] \in {"summaries", "outside"} =>
          \A t \in Tables : visit'[p][t] \in {"none", "read"}
    BY <1>2 DEF Format, AcceptFormat, MissingFormat, CreateFormat, LoseFormat,
       Validated, TypeOK
  <2> QED
    BY <2>1, <2>2, <2>3, <2>4 DEF NestedAt, Deleting, OutsideOf
<1>3. CASE Publish(p)
  <2>1. Head(queue[p]) \in Tables
    BY <1>3 DEF Publish, Shape, TypeOK
  <2>2. /\ UNCHANGED <<stored, queue>> /\ pc'[p] = "save"
        /\ drop'[p][Head(queue[p])] = Ancestors(Head(queue[p]))
    BY <1>3, <2>1 DEF Publish, TypeOK
  <2> QED
    BY <1>0, <2>2 DEF NestedAt, SummariesNested, Deleting, Ancestors
<1>4. CASE Invalidate(p)
  <2> DEFINE t == Head(queue[p])
  <2>1. t \in Tables
    BY <1>4 DEF Invalidate, Shape, TypeOK
  <2>2. PICK x \in Outermost(drop[p][t]) :
          /\ stored' = stored \ {x}
          /\ drop' = [drop EXCEPT ![p][t] = @ \ {x}]
          /\ queue' = queue /\ pc' = pc /\ pc[p] = "save"
    BY <1>4 DEF Invalidate, DeleteSummary
  <2>3. Deleting(drop[p][t], Ancestors(t))
    BY <1>0, <2>2 DEF NestedAt
  <2> HIDE DEF t
  <2>4. x \in drop[p][t] /\ x \in Prefixes /\ x \in Ancestors(t)
    BY <1>0, <2>1, <2>2, <2>3 DEF Outermost, Deleting
  <2>5. \A y \in Outer[x] : y \in Ancestors(t)
    BY <2>1, <2>4, ClosedOutwards
  <2>6. /\ \A y \in Outer[x] : y \notin stored
        /\ drop[p][t] \ {x} \subseteq Ancestors(t)
        /\ (Ancestors(t) \ (drop[p][t] \ {x})) \cap stored' = {}
    BY <1>0, <2>1, <2>2, <2>3, <2>5, OutermostDeleted
  <2>7. SummariesNested'
    BY <1>0, <2>2, <2>4, <2>6, DeleteKeepsNested
  <2>8. drop'[p][t] = drop[p][t] \ {x}
    BY <2>1, <2>2 DEF TypeOK
  <2>9. pc'[p] = "save" /\ t = Head(queue'[p])
    BY <2>2 DEF t
  <2> QED
    BY <2>6, <2>7, <2>8, <2>9 DEF NestedAt, Deleting, Ancestors
<1>5. CASE SaveStats(p) \/ ReadSummary(p)
  <2>1. UNCHANGED stored
    BY <1>5 DEF SaveStats, PutSidecar, ReadSummary, store
  <2>2. /\ pc'[p] \in {"publish", "return", "summaries"}
        /\ pc'[p] = "summaries" => \A t \in Tables : visit'[p][t] \in {"none", "read"}
    BY <1>0, <1>5 DEF SaveStats, ReadSummary, NestedAt, TypeOK
  <2> QED
    BY <1>0, <2>1, <2>2 DEF NestedAt, SummariesNested
<1>6. CASE EndSummaries(p) \/ EndOutside(p) \/ EndRebuild(p)
  <2>1. UNCHANGED <<stored, visit>> /\ pc'[p] \in {"records", "return"}
    BY <1>6 DEF EndSummaries, EndOutside, EndRebuild, store, local, TypeOK
  <2>2. pc'[p] = "records" => \A t \in Tables : visit[p][t] \in {"none", "read"}
    BY <1>0, <1>6 DEF EndSummaries, EndOutside, EndRebuild, NestedAt, TypeOK
  <2> QED
    BY <1>0, <2>1, <2>2 DEF NestedAt, SummariesNested
<1>7. CASE DeleteOutside(p)
  <2>1. PICK x \in Outermost(prefixes[p]) :
          /\ stored' = stored \ {x}
          /\ prefixes' = [prefixes EXCEPT ![p] = @ \ {x}]
          /\ UNCHANGED <<pc, sel, visit>> /\ pc[p] = "outside"
    BY <1>7 DEF DeleteOutside, DeleteSummary
  <2>2. Deleting(prefixes[p], OutsideOf(sel[p]))
    BY <1>0, <2>1 DEF NestedAt
  <2>3. x \in prefixes[p] /\ x \in Prefixes /\ x \in OutsideOf(sel[p])
    BY <1>0, <2>1, <2>2 DEF Outermost, Deleting
  <2>4. \A y \in Outer[x] : y \in OutsideOf(sel[p])
    BY <1>0, <2>3, ClosedOutwards
  <2>5. /\ \A y \in Outer[x] : y \notin stored
        /\ prefixes[p] \ {x} \subseteq OutsideOf(sel[p])
        /\ (OutsideOf(sel[p]) \ (prefixes[p] \ {x})) \cap stored' = {}
    BY <1>0, <2>1, <2>2, <2>4, OutermostDeleted
  <2>6. SummariesNested'
    BY <1>0, <2>1, <2>3, <2>5, DeleteKeepsNested
  <2>7. prefixes'[p] = prefixes[p] \ {x}
    BY <2>1 DEF TypeOK
  <2> QED
    BY <1>0, <2>1, <2>5, <2>6, <2>7 DEF NestedAt, Deleting, OutsideOf
<1>8. CASE WriteSummary(p)
  <2>1. PICK x \in Innermost(prefixes[p]) :
          /\ stored' = stored \cup {x}
          /\ prefixes' = [prefixes EXCEPT ![p] = @ \ {x}]
          /\ UNCHANGED <<pc, sel>> /\ pc[p] = "rebuild"
    BY <1>8 DEF WriteSummary
  <2>2. /\ prefixes[p] \subseteq InsideOf(sel[p])
        /\ InsideOf(sel[p]) \ prefixes[p] \subseteq stored
    BY <1>0, <2>1 DEF NestedAt
  <2>3. x \in prefixes[p] /\ x \in InsideOf(sel[p])
    BY <2>1, <2>2 DEF Innermost
  <2>4. ASSUME NEW y \in Prefixes, x \in Outer[y]
        PROVE  y \in stored
    <3>1. y \in InsideOf(sel[p])
      BY <1>0, <2>3, <2>4, ClosedOutwards
    <3>2. y \notin prefixes[p]
      BY <2>1, <2>4 DEF Innermost
    <3> QED
      BY <2>2, <3>1, <3>2
  <2>5. SummariesNested'
    BY <1>0, <2>1, <2>4 DEF SummariesNested
  <2>6. prefixes'[p] = prefixes[p] \ {x}
    BY <2>1 DEF TypeOK
  <2>7. /\ prefixes'[p] \subseteq InsideOf(sel[p])
        /\ InsideOf(sel[p]) \ prefixes'[p] \subseteq stored'
    BY <2>1, <2>2, <2>6
  <2> QED
    BY <2>1, <2>5, <2>7 DEF NestedAt, InsideOf
<1>9. CASE EndRecords(p)
  <2>1. UNCHANGED <<stored, sel>> /\ pc'[p] \in {"rebuild", "return"}
    BY <1>9 DEF EndRecords, store, TypeOK
  <2>2. pc'[p] = "rebuild" => prefixes'[p] = InsideOf(sel[p])
    BY <1>9 DEF EndRecords, TypeOK
  <2> QED
    BY <1>0, <2>1, <2>2 DEF NestedAt, SummariesNested, InsideOf
<1>10. ASSUME NEW t \in Tables, ReadRecord(p, t) \/ CreateRecord(p, t)
       PROVE  SummariesNested' /\ NestedAt(p)'
  <2>1. UNCHANGED <<stored, pc, op, drop>> /\ pc[p] = "records"
    BY <1>10 DEF ReadRecord, CreateRecord, PutSidecar, store
  <2>2. \A u \in Tables : visit'[p][u] = "create" => visit[p][u] = "create"
    BY <1>10 DEF ReadRecord, CreateRecord, Visited, TypeOK
  <2> QED
    BY <1>0, <2>1, <2>2 DEF NestedAt, SummariesNested, Deleting, Ancestors
<1>11. ASSUME NEW t \in Tables, MissingRecord(p, t)
       PROVE  SummariesNested' /\ NestedAt(p)'
  <2>1. UNCHANGED <<stored, pc, op>> /\ pc[p] = "records" /\ op[p] = "cache"
    BY <1>11 DEF MissingRecord, store
  <2>2. /\ \A u \in Tables \ {t} : visit'[p][u] = visit[p][u] /\ drop'[p][u] = drop[p][u]
        /\ drop'[p][t] = {} \/ drop'[p][t] = Ancestors(t)
    BY <1>11 DEF MissingRecord, TypeOK
  <2> QED
    BY <1>0, <2>1, <2>2 DEF NestedAt, SummariesNested, Deleting, Ancestors
<1>12. ASSUME NEW t \in Tables, InvalidateRecord(p, t)
       PROVE  SummariesNested' /\ NestedAt(p)'
  <2>1. PICK x \in Outermost(drop[p][t]) :
          /\ stored' = stored \ {x}
          /\ drop' = [drop EXCEPT ![p][t] = @ \ {x}]
          /\ UNCHANGED <<pc, op, visit>> /\ pc[p] = "records" /\ visit[p][t] = "create"
    BY <1>12 DEF InvalidateRecord, DeleteSummary
  <2>2. x \in drop[p][t] /\ x \in Prefixes
    BY <1>0, <2>1 DEF Outermost
  <2>3. Deleting(drop[p][t], Ancestors(t))
    BY <1>0, <2>1, <2>2 DEF NestedAt
  <2>4. \A y \in Outer[x] : y \in Ancestors(t)
    BY <2>2, <2>3, ClosedOutwards DEF Deleting
  <2>5. /\ \A y \in Outer[x] : y \notin stored
        /\ drop[p][t] \ {x} \subseteq Ancestors(t)
        /\ (Ancestors(t) \ (drop[p][t] \ {x})) \cap stored' = {}
    BY <1>0, <2>1, <2>3, <2>4, OutermostDeleted
  <2>6. SummariesNested'
    BY <1>0, <2>1, <2>2, <2>5, DeleteKeepsNested
  <2>7. /\ drop'[p][t] = drop[p][t] \ {x}
        /\ \A u \in Tables \ {t} : drop'[p][u] = drop[p][u]
    BY <2>1 DEF TypeOK
  <2>8. ASSUME NEW u \in Tables, visit[p][u] = "create"
        PROVE  op[p] = "cache" /\ (drop'[p][u] = {} \/ Deleting(drop[p][u], Ancestors(u))')
    <3>1. CASE u = t
      BY <1>0, <2>1, <2>5, <2>7, <3>1 DEF NestedAt, Deleting, Ancestors
    <3>2. CASE u # t
      <4>1. op[p] = "cache" /\ (drop[p][u] = {} \/ Deleting(drop[p][u], Ancestors(u)))
        BY <1>0, <2>1, <2>8 DEF NestedAt
      <4> QED
        BY <2>1, <2>7, <3>2, <4>1 DEF Deleting, Ancestors
    <3> QED
      BY <3>1, <3>2
  <2> QED
    BY <2>1, <2>6, <2>8 DEF NestedAt
<1> QED
  BY <1>1, <1>2, <1>3, <1>4, <1>5, <1>6, <1>7, <1>8, <1>9, <1>10, <1>11, <1>12
     DEF Step, Generate, Query, Cache, Record

\* ...and no step touches the locals of other processes.
LEMMA OthersKeep ==
  ASSUME TypeOK, NEW p \in Procs, Step(p), NEW q \in Procs, q # p
  PROVE  /\ pc'[q] = pc[q] /\ op'[q] = op[q] /\ sel'[q] = sel[q] /\ queue'[q] = queue[q]
         /\ drop'[q] = drop[q] /\ prefixes'[q] = prefixes[q] /\ visit'[q] = visit[q]
         /\ total'[q] = total[q] /\ count'[q] = count[q]
<1> DEFINE Kept == /\ pc'[q] = pc[q] /\ op'[q] = op[q] /\ sel'[q] = sel[q]
                   /\ queue'[q] = queue[q] /\ drop'[q] = drop[q]
                   /\ prefixes'[q] = prefixes[q] /\ visit'[q] = visit[q]
                   /\ total'[q] = total[q] /\ count'[q] = count[q]
<1>1. CASE Start(p)
  BY <1>1 DEF Start, StartGenerate, StartQuery, StartCache, Begin, TypeOK
<1>2. CASE End(p)
  BY <1>2 DEF End, Fail, Crash, Return, Leave, TypeOK
<1>3. CASE Format(p)
  BY <1>3 DEF Format, AcceptFormat, MissingFormat, CreateFormat, LoseFormat, Validated,
     TypeOK, local
<1>4. CASE Generate(p)
  BY <1>4 DEF Generate, Publish, Invalidate, SaveStats, TypeOK
<1>5. CASE Query(p)
  BY <1>5 DEF Query, ReadSummary, EndSummaries, TypeOK, local
<1>6. CASE Cache(p) \/ EndRecords(p)
  BY <1>6 DEF Cache, DeleteOutside, EndOutside, WriteSummary, EndRebuild, EndRecords,
     TypeOK, local
<1>7. ASSUME NEW t \in Tables, Record(p, t)
      PROVE  Kept
  BY <1>7 DEF Record, ReadRecord, MissingRecord, InvalidateRecord, CreateRecord, Visited,
     TypeOK
<1> QED
  BY <1>1, <1>2, <1>3, <1>4, <1>5, <1>6, <1>7 DEF Step

\* By the rule, no summary appears beside a generation, and none appears or is
\* deleted beside a rebuild.
LEMMA StoredBeside ==
  ASSUME TypeOK, Shape, Alone, NestInv, NEW p \in Procs, Step(p), NEW q \in Procs, q # p
  PROVE  /\ q \in Running("generate") => stored' \subseteq stored
         /\ q \in Running("cache") => stored' = stored
<1>1. CASE LocalStep(p)
  BY <1>1, LocalStepFrame
<1>2. CASE SaveStats(p) \/ \E t \in Tables : CreateRecord(p, t)
  BY <1>2 DEF SaveStats, CreateRecord, PutSidecar, store
<1>3. CASE Invalidate(p)
  <2>1. stored' \subseteq stored
    BY <1>3 DEF Invalidate, DeleteSummary
  <2>2. p \in Running("generate")
    BY <1>3 DEF Invalidate, Shape, Running, Idle
  <2> QED
    BY <2>1, <2>2 DEF Alone
<1>4. CASE DeleteOutside(p) \/ WriteSummary(p)
  <2>1. p \in Running("cache")
    BY <1>4 DEF DeleteOutside, WriteSummary, Shape, Running, Idle
  <2> QED
    BY <2>1 DEF Alone
<1>5. ASSUME NEW t \in Tables, InvalidateRecord(p, t)
      PROVE  q \notin Running("generate") \cup Running("cache")
  <2>1. pc[p] = "records" /\ visit[p][t] = "create"
    BY <1>5 DEF InvalidateRecord
  <2>2. p \in Running("cache")
    BY <2>1 DEF NestInv, NestedAt, Running, Idle
  <2> QED
    BY <2>2 DEF Alone
<1> QED
  BY <1>1, <1>2, <1>3, <1>4, <1>5 DEF Step, LocalStep, Generate, Cache, Record

\* Deleting from the outside in, and writing from the inside out, alone, keep
\* summaries nested at every step.
LEMMA StepNested ==
  ASSUME TypeOK, Shape, Alone, NestInv, [Next]_vars
  PROVE  NestInv'
<1>1. ASSUME NEW p \in Procs, Step(p)
      PROVE  NestInv'
  <2>1. SummariesNested' /\ NestedAt(p)'
    BY <1>1, StepNestedOwn
  <2>2. ASSUME NEW q \in Procs, q # p
        PROVE  NestedAt(q)'
    <3>1. /\ pc'[q] = pc[q] /\ op'[q] = op[q] /\ sel'[q] = sel[q] /\ queue'[q] = queue[q]
          /\ drop'[q] = drop[q] /\ prefixes'[q] = prefixes[q] /\ visit'[q] = visit[q]
      BY <1>1, <2>2, OthersKeep
    <3>2. /\ q \in Running("generate") => stored' \subseteq stored
          /\ q \in Running("cache") => stored' = stored
      BY <1>1, <2>2, StoredBeside
    <3>3. NestedAt(q)
      BY DEF NestInv
    <3>4. CASE pc[q] = "save"
      <4>1. stored' \subseteq stored
        BY <3>2, <3>4 DEF Shape, Running, Idle
      <4> QED
        BY <3>1, <3>3, <3>4, <4>1 DEF NestedAt, Deleting, Ancestors
    <3>5. CASE pc[q] \in {"outside", "rebuild"}
      <4>1. stored' = stored
        BY <3>2, <3>5 DEF Shape, Running, Idle
      <4> QED
        BY <3>1, <3>3, <3>5, <4>1 DEF NestedAt, Deleting, OutsideOf, InsideOf
    <3>6. CASE pc[q] = "records"
      <4>1. op[q] = "cache" => stored' = stored
        BY <3>2, <3>6 DEF Running, Idle
      <4> QED
        BY <3>1, <3>3, <3>6, <4>1 DEF NestedAt, Deleting, Ancestors
    <3> QED
      BY <3>1, <3>3, <3>4, <3>5, <3>6 DEF NestedAt
  <2> QED
    BY <2>1, <2>2 DEF NestInv
<1>2. CASE ForeignFormat \/ UNCHANGED vars
  <2>1. UNCHANGED <<stored, pc, op, local>>
    BY <1>2 DEF ForeignFormat, vars, store
  <2> QED
    BY <2>1 DEF NestInv, NestedAt, SummariesNested, Deleting, Ancestors, OutsideOf,
       InsideOf, local
<1> QED
  BY <1>1, <1>2 DEF Next

-------------------------------------------------------------------------------
(* Results.                                                                 *)

\* A selection of directories is the disjoint union of their tables.
SelectedAt(p) ==
  /\ sel[p].tables \subseteq Tables
  /\ sel[p].hierarchy =>
       \A t \in sel[p].tables : \E x \in sel[p].prefixes : t \in Under[x]
  /\ ~ sel[p].hierarchy => sel[p].prefixes = {}
  /\ \A x, y \in sel[p].prefixes : x # y => Under[x] \cap Under[y] = {}

\* What the call has still to look up: directories, and records.
Unread(p, t) == pc[p] = "summaries" /\ \E x \in prefixes[p] : t \in Under[x]
Waiting(p, t) ==
  pc[p] \in {"summaries", "outside", "records"} /\ visit[p][t] \notin {"none", "done"}

\* A call has counted what it has looked up, once, and nothing else.
CountedAt(p) ==
  /\ pc[p] = "summaries" => prefixes[p] \subseteq sel[p].prefixes
  /\ pc[p] \notin {"format", "create"} => \A t \in Tables :
       IF t \in sel[p].tables /\ ~ Unread(p, t)
         THEN count[p][t] = 1 /\ (Waiting(p, t) \/ total[p][t] \in since[p][t])
         ELSE count[p][t] = 0

\* It remembers what each record was worth since it began.
TallyAt(p) ==
  Aggregating(p) => CountedAt(p) /\ \A t \in Tables : sidecar[t].version \in since[p][t]

TallyInv == \A p \in Procs : SelectedAt(p) /\ TallyAt(p)

\* Every directory of a set is one without another above it, or below such a one.
LEMMA OutermostCovers ==
  ASSUME NEW D \in SUBSET Prefixes, NEW x \in D
  PROVE  \E y \in Outermost(D) : y = x \/ y \in Outer[x]
<1> USE RootAssumption
<1> DEFINE Up == {y \in D : y = x \/ y \in Outer[x]}
           Above(y) == Outer[y] \cap D
           C == {Above(y) : y \in Up}
<1>1. IsFiniteSet(D)
  BY FS_Subset
<1>2. C \subseteq SUBSET D /\ C # {}
  <2>1. Above(x) \in C
    OBVIOUS
  <2>2. ASSUME NEW U \in C
        PROVE  U \in SUBSET D
    OBVIOUS
  <2> HIDE DEF C
  <2> QED
    BY <2>1, <2>2
<1>3. PICK T \in C : \A U \in C : ~ (U \subseteq T /\ U # T)
  <2> HIDE DEF C
  <2> QED
    BY <1>1, <1>2, MinimalSet
<1>4. PICK y \in Up : T = Above(y)
  BY <1>3
<1>5. ASSUME NEW z \in Above(y)
      PROVE  FALSE
  <2>1. z \in Up
    BY <1>4, <1>5
  <2>2. Above(z) \subseteq Above(y)
    BY <1>4, <1>5
  <2>3. z \notin Above(z)
    BY <1>4, <1>5
  <2>4. Above(z) \in C
    BY <2>1
  <2>5. Above(z) # Above(y)
    BY <1>5, <2>3
  <2> HIDE DEF C, Above
  <2> QED
    BY <1>3, <1>4, <2>2, <2>4, <2>5
<1> QED
  BY <1>4, <1>5 DEF Outermost

\* hierarchy_prefixes loses no table and leaves no two directories of one table.
LEMMA DisjointCovers ==
  ASSUME NEW s \in Selections
  PROVE  /\ Disjoint(s).hierarchy = s.hierarchy
         /\ s.hierarchy =>
              \A t \in s.tables : \E x \in Disjoint(s).prefixes : t \in Under[x]
         /\ ~ s.hierarchy => Disjoint(s).prefixes = {}
         /\ \A x, y \in Disjoint(s).prefixes : x # y => Under[x] \cap Under[y] = {}
<1> USE RootAssumption
<1>1. s \in Selecting
  OBVIOUS
<1>2. Disjoint(s).prefixes = Outermost(s.prefixes) /\ Disjoint(s).hierarchy = s.hierarchy
  BY <1>1 DEF Disjoint, Selecting
<1>3. s.prefixes \in SUBSET Prefixes
  BY <1>1 DEF Selecting
<1>4. ASSUME s.hierarchy, NEW t \in s.tables
      PROVE  \E x \in Outermost(s.prefixes) : t \in Under[x]
  <2>1. PICK x \in s.prefixes : t \in Under[x]
    BY <1>4
  <2>2. PICK y \in Outermost(s.prefixes) : y = x \/ y \in Outer[x]
    BY <1>3, OutermostCovers
  <2> QED
    BY <1>3, <2>1, <2>2
<1>5. ~ s.hierarchy => Outermost(s.prefixes) = {}
  BY DEF Outermost
<1>6. \A x, y \in Outermost(s.prefixes) : x # y => Under[x] \cap Under[y] = {}
  BY <1>3 DEF Outermost
<1> QED
  BY <1>2, <1>4, <1>5, <1>6

\* The selection of a call is that it began with.
LEMMA StepSelected ==
  ASSUME TypeOK, Shape, NEW p \in Procs, SelectedAt(p), [Next]_vars
  PROVE  SelectedAt(p)'
<1>1. ASSUME sel'[p] = sel[p]
      PROVE  SelectedAt(p)'
  BY <1>1 DEF SelectedAt
<1>2. ASSUME sel'[p] = NoSelection
      PROVE  SelectedAt(p)'
  BY <1>2 DEF SelectedAt, NoSelection
<1>3. ASSUME NEW s \in Selections, sel'[p] = Disjoint(s)
      PROVE  SelectedAt(p)'
  <2>1. s.tables \subseteq Tables /\ Disjoint(s).tables = s.tables
    BY RootAssumption, DisjointTyped DEF Selecting
  <2>2. SelectedAt(p)' <=>
          /\ sel'[p].tables \subseteq Tables
          /\ sel'[p].hierarchy =>
               \A t \in sel'[p].tables : \E x \in sel'[p].prefixes : t \in Under[x]
          /\ ~ sel'[p].hierarchy => sel'[p].prefixes = {}
          /\ \A x, y \in sel'[p].prefixes : x # y => Under[x] \cap Under[y] = {}
    BY DEF SelectedAt
  <2> QED
    BY <1>3, <2>1, <2>2, DisjointCovers
<1>4. CASE Start(p)
  BY <1>1, <1>2, <1>3, <1>4 DEF Start, StartGenerate, StartQuery, StartCache, Begin, TypeOK
<1>5. CASE End(p)
  BY <1>2, <1>5 DEF End, Fail, Crash, Return, Leave, TypeOK
<1>6. CASE Format(p) \/ Generate(p) \/ EndRecords(p)
  BY <1>1, <1>6 DEF Format, AcceptFormat, MissingFormat, CreateFormat, LoseFormat,
     Validated, Generate, Publish, Invalidate, SaveStats, EndRecords, local
<1>7. CASE Query(p) \/ Cache(p)
  BY <1>1, <1>7 DEF Query, ReadSummary, EndSummaries, Cache, DeleteOutside, EndOutside,
     WriteSummary, EndRebuild, local
<1>8. ASSUME NEW t \in Tables, Record(p, t)
      PROVE  SelectedAt(p)'
  BY <1>1, <1>8 DEF Record, ReadRecord, MissingRecord, InvalidateRecord, CreateRecord
<1>9. ASSUME NEW q \in Procs, q # p, Step(q)
      PROVE  SelectedAt(p)'
  BY <1>1, <1>9, OthersKeep
<1>10. CASE ForeignFormat \/ UNCHANGED vars
  BY <1>1, <1>10 DEF ForeignFormat, vars, local
<1> QED
  BY <1>4, <1>5, <1>6, <1>7, <1>8, <1>9, <1>10 DEF Next, Step

\* A call that aggregates remembers every record as it was when the call began, and
\* as it has become since.
LEMMA StepRemembers ==
  ASSUME TypeOK, Shape, [Next]_vars, NEW p \in Procs, Aggregating(p)',
         Aggregating(p) => \A t \in Tables : sidecar[t].version \in since[p][t],
         NEW t \in Tables
  PROVE  /\ sidecar'[t].version \in since'[p][t]
         /\ Aggregating(p) => since[p][t] \subseteq since'[p][t]
<1> DEFINE Goal == /\ sidecar'[t].version \in since'[p][t]
                   /\ Aggregating(p) => since[p][t] \subseteq since'[p][t]
<1>1. ASSUME Aggregating(p), sidecar' = sidecar, since'[p] = since[p]
      PROVE  Goal
  BY <1>1
<1>2. ASSUME Aggregating(p), NEW u \in Tables, NEW r, PutSidecar(u, r)
      PROVE  Goal
  <2>1. /\ sidecar' = [sidecar EXCEPT ![u] = r]
        /\ since'[p] = [since[p] EXCEPT ![u] = @ \cup {r.version}]
    BY <1>2 DEF PutSidecar
  <2>2. since[p] \in [Tables -> SUBSET Versions]
    BY DEF TypeOK
  <2>3. CASE t = u
    BY <1>2, <2>1, <2>2, <2>3 DEF TypeOK
  <2>4. CASE t # u
    BY <1>2, <2>1, <2>2, <2>4 DEF TypeOK
  <2> QED
    BY <2>3, <2>4
<1>3. ASSUME NEW q \in Procs, Start(q) \/ End(q)
      PROVE  Goal
  <2>1. sidecar' = sidecar
    BY <1>3 DEF Start, StartGenerate, StartQuery, StartCache, Begin, End, Fail, Crash,
       Return, Leave, store
  <2>2. CASE q # p
    <3>1. since'[p] = since[p] /\ pc'[p] = pc[p] /\ op'[p] = op[p]
      BY <1>3, <2>2 DEF Start, StartGenerate, StartQuery, StartCache, Begin, Watch,
         End, Fail, Crash, Return, Leave, TypeOK
    <3> QED
      BY <1>1, <2>1, <3>1 DEF Aggregating, Idle
  <2>3. CASE q = p /\ Start(p)
    <3>1. ~ Aggregating(p)
      BY <2>3 DEF Start, StartGenerate, StartQuery, StartCache, Begin, Aggregating
    <3>2. ~ StartGenerate(p)
      BY DEF StartGenerate, Begin, Aggregating, TypeOK
    <3>3. Watch(p)
      BY <2>3, <3>2 DEF Start, StartQuery, StartCache
    <3>4. since'[p][t] = {sidecar[t].version}
      BY <3>3 DEF Watch, TypeOK
    <3> QED
      BY <2>1, <3>1, <3>4
  <2>4. CASE q = p /\ End(p)
    BY <2>4 DEF End, Fail, Crash, Return, Leave, Aggregating, Idle, TypeOK
  <2> QED
    BY <1>3, <2>2, <2>3, <2>4
<1>4. ASSUME NEW q \in Procs, Step(q), ~ Start(q), ~ End(q)
      PROVE  Aggregating(p)
  <2>1. CASE q # p
    BY <1>4, <2>1, OthersKeep DEF Aggregating, Idle
  <2>2. CASE q = p
    <3>1. UNCHANGED op /\ pc[p] # "idle"
      BY <1>4, <2>2 DEF Step, Format, AcceptFormat, MissingFormat, CreateFormat,
         LoseFormat, Validated, Generate, Publish, Invalidate, SaveStats, Query,
         ReadSummary, EndSummaries, Cache, DeleteOutside, EndOutside, WriteSummary,
         EndRebuild, EndRecords, Record, ReadRecord, MissingRecord, InvalidateRecord,
         CreateRecord
    <3> QED
      BY <3>1 DEF Aggregating, Idle
  <2> QED
    BY <2>1, <2>2
<1>5. ASSUME NEW q \in Procs, Aggregating(p), SaveStats(q)
      PROVE  Goal
  <2>1. Head(queue[q]) \in Tables
    BY <1>5 DEF SaveStats, Shape, TypeOK
  <2> QED
    BY <1>2, <1>5, <2>1 DEF SaveStats
<1>6. ASSUME NEW q \in Procs, NEW u \in Tables, Aggregating(p), CreateRecord(q, u)
      PROVE  Goal
  BY <1>1, <1>2, <1>6 DEF CreateRecord, store
<1>7. ASSUME NEW q \in Procs, Aggregating(p), NEW u \in Tables,
             \/ Format(q) \/ Publish(q) \/ Invalidate(q) \/ Query(q) \/ Cache(q) \/ EndRecords(q)
             \/ ReadRecord(q, u) \/ MissingRecord(q, u) \/ InvalidateRecord(q, u)
      PROVE  Goal
  <2>1. UNCHANGED <<sidecar, since>>
    BY <1>7 DEF Format, AcceptFormat, MissingFormat, CreateFormat, LoseFormat,
       Validated, Publish, Invalidate, Query, ReadSummary, EndSummaries, Cache,
       DeleteOutside, EndOutside, WriteSummary, EndRebuild, EndRecords, ReadRecord,
       MissingRecord, InvalidateRecord, DeleteSummary, store
  <2> QED
    BY <1>1, <1>7, <2>1
<1>8. CASE ForeignFormat \/ UNCHANGED vars
  <2>1. UNCHANGED <<sidecar, since, pc, op>>
    BY <1>8 DEF ForeignFormat, vars, store
  <2>2. Aggregating(p)
    BY <2>1 DEF Aggregating, Idle
  <2> QED
    BY <1>1, <2>1, <2>2
<1>9. ASSUME NEW q \in Procs, Step(q)
      PROVE  Goal
  <2>1. CASE Start(q) \/ End(q)
    BY <1>3, <2>1
  <2>2. CASE ~ Start(q) /\ ~ End(q)
    <3>1. Aggregating(p)
      BY <1>4, <1>9, <2>2
    <3>2. CASE SaveStats(q)
      BY <1>5, <3>1, <3>2
    <3>3. CASE \E u \in Tables : CreateRecord(q, u)
      BY <1>6, <3>1, <3>3
    <3>4. CASE /\ ~ SaveStats(q)
               /\ ~ \E u \in Tables : CreateRecord(q, u)
      <4>1. \E u \in Tables :
              \/ Format(q) \/ Publish(q) \/ Invalidate(q) \/ Query(q) \/ Cache(q)
              \/ EndRecords(q)
              \/ ReadRecord(q, u) \/ MissingRecord(q, u) \/ InvalidateRecord(q, u)
        BY <1>9, <2>2, <3>4 DEF Step, Generate, Record
      <4> QED
        BY <1>7, <3>1, <4>1
    <3> QED
      BY <3>2, <3>3, <3>4
  <2> QED
    BY <2>1, <2>2
<1> QED
  BY <1>8, <1>9 DEF Next

\* Where only what is remembered grows, the tally stays.
LEMMA TallyKept ==
  ASSUME NEW p \in Procs, CountedAt(p), pc'[p] = pc[p], sel'[p] = sel[p],
         prefixes'[p] = prefixes[p], count'[p] = count[p],
         \A t \in Tables : since[p][t] \subseteq since'[p][t],
         \A t \in Tables :
           \/ visit'[p][t] = visit[p][t] /\ total'[p][t] = total[p][t]
           \/ visit'[p][t] \notin {"none", "done"} /\ pc[p] = "records"
           \/ total'[p][t] \in since'[p][t]
  PROVE  CountedAt(p)'
BY DEF CountedAt, Unread, Waiting

\* A directory's summary, or the records below it, are counted once: no other
\* directory of the selection has its tables.
LEMMA ReadSummaryCounts ==
  ASSUME TypeOK, Shape, SummaryFresh, NEW p \in Procs, SelectedAt(p), TallyAt(p),
         CoveredAt(p), Aggregating(p), CountedAt(p), ReadSummary(p)
  PROVE  CountedAt(p)'
<1>1. PICK x \in prefixes[p] :
        /\ prefixes' = [prefixes EXCEPT ![p] = @ \ {x}]
        /\ \/ /\ x \in stored
              /\ total' = [total EXCEPT ![p] = [t \in Tables |->
                   IF t \in Under[x] THEN summary[x][t] ELSE @[t]]]
              /\ UNCHANGED visit
           \/ /\ visit' = [visit EXCEPT ![p] = [t \in Tables |->
                   IF t \in Under[x] THEN "read" ELSE @[t]]]
              /\ UNCHANGED total
        /\ count' = [count EXCEPT ![p] = [t \in Tables |->
             IF t \in Under[x] THEN @[t] + 1 ELSE @[t]]]
        /\ UNCHANGED <<pc, sel, since, sidecar>> /\ pc[p] = "summaries"
  BY DEF ReadSummary, store
<1>2. /\ prefixes[p] \subseteq sel[p].prefixes /\ prefixes[p] \subseteq Prefixes
      /\ x \in sel[p].prefixes /\ x \in Prefixes
  BY <1>1 DEF CountedAt, TypeOK
<1>3. prefixes'[p] = prefixes[p] \ {x}
  BY <1>1 DEF TypeOK
<1>4. \A t \in Tables : count'[p][t] = IF t \in Under[x] THEN count[p][t] + 1 ELSE count[p][t]
  BY <1>1 DEF TypeOK
<1>5. ASSUME NEW t \in Tables, t \in Under[x]
      PROVE  /\ t \in sel[p].tables /\ ~ Unread(p, t)'
             /\ count'[p][t] = 1 /\ (Waiting(p, t)' \/ total'[p][t] \in since'[p][t])
  <2>1. t \in sel[p].tables
    BY <1>2, <1>5 DEF CoveredAt
  <2>2. Unread(p, t)
    BY <1>1, <1>5 DEF Unread
  <2>3. count[p][t] = 0
    BY <1>1, <2>2 DEF CountedAt
  <2>4. ~ Unread(p, t)'
    BY <1>2, <1>3, <1>5 DEF Unread, SelectedAt
  <2>5. CASE /\ x \in stored
             /\ total' = [total EXCEPT ![p] = [u \in Tables |->
                  IF u \in Under[x] THEN summary[x][u] ELSE @[u]]]
    <3>1. total'[p][t] = summary[x][t]
      BY <1>5, <2>5 DEF TypeOK
    <3>2. summary[x][t] = sidecar[t].version
      BY <1>5, <2>5 DEF SummaryFresh
    <3>3. sidecar[t].version \in since[p][t]
      BY DEF TallyAt
    <3> QED
      BY <1>1, <1>4, <1>5, <2>1, <2>3, <2>4, <3>1, <3>2, <3>3
  <2>6. CASE visit' = [visit EXCEPT ![p] = [u \in Tables |->
               IF u \in Under[x] THEN "read" ELSE @[u]]]
    <3>1. visit'[p][t] = "read"
      BY <1>5, <2>6 DEF TypeOK
    <3>2. Waiting(p, t)'
      BY <1>1, <3>1 DEF Waiting
    <3> QED
      BY <1>4, <1>5, <2>1, <2>3, <2>4, <3>2
  <2> QED
    BY <1>1, <2>5, <2>6
<1>6. ASSUME NEW t \in Tables, t \notin Under[x]
      PROVE  /\ Unread(p, t)' <=> Unread(p, t)
             /\ count'[p][t] = count[p][t] /\ total'[p][t] = total[p][t]
             /\ visit'[p][t] = visit[p][t]
  <2>1. Unread(p, t)' <=> Unread(p, t)
    BY <1>1, <1>3, <1>6 DEF Unread
  <2>2. total'[p][t] = total[p][t]
    BY <1>1, <1>6 DEF TypeOK
  <2>3. visit'[p][t] = visit[p][t]
    BY <1>1, <1>6 DEF TypeOK
  <2> QED
    BY <1>4, <1>6, <2>1, <2>2, <2>3
<1>7. ASSUME NEW t \in Tables
      PROVE  IF t \in sel'[p].tables /\ ~ Unread(p, t)'
               THEN count'[p][t] = 1 /\ (Waiting(p, t)' \/ total'[p][t] \in since'[p][t])
               ELSE count'[p][t] = 0
  <2>1. CASE t \in Under[x]
    BY <1>1, <1>5, <2>1
  <2>2. CASE t \notin Under[x]
    <3>1. Waiting(p, t)' <=> Waiting(p, t)
      BY <1>1, <1>6, <2>2 DEF Waiting
    <3>2. IF t \in sel[p].tables /\ ~ Unread(p, t)
            THEN count[p][t] = 1 /\ (Waiting(p, t) \/ total[p][t] \in since[p][t])
            ELSE count[p][t] = 0
      BY <1>1 DEF CountedAt
    <3> QED
      BY <1>1, <1>6, <2>2, <3>1, <3>2
  <2> QED
    BY <2>1, <2>2
<1>8. prefixes'[p] \subseteq sel'[p].prefixes
  BY <1>1, <1>2, <1>3
<1> QED
  BY <1>7, <1>8 DEF CountedAt

\* A call that has found its root of this format has everything left to look up.
LEMMA ValidatedCounts ==
  ASSUME TypeOK, Shape, NEW p \in Procs, SelectedAt(p), op[p] \in {"query", "cache"},
         Validated(p)
  PROVE  CountedAt(p)'
<1> DEFINE list == IF op[p] = "cache" \/ ~ sel[p].hierarchy THEN sel[p].tables ELSE {}
<1>1. /\ UNCHANGED <<sel, op>>
      /\ \A t \in Tables : /\ count'[p][t] = IF t \in list THEN 1 ELSE 0
                           /\ t \in list => visit'[p][t] = "read"
      /\ \/ /\ op[p] = "cache" /\ pc'[p] = "outside"
         \/ /\ op[p] = "query" /\ pc'[p] = "summaries"
            /\ prefixes'[p] = sel[p].prefixes
  BY DEF Validated, TypeOK
<1>2. ASSUME NEW t \in Tables
      PROVE  (t \in sel'[p].tables /\ ~ Unread(p, t)') <=> t \in list
  <2>1. CASE op[p] = "cache"
    BY <1>1, <2>1 DEF Unread
  <2>2. CASE op[p] = "query" /\ sel[p].hierarchy
    BY <1>1, <2>2 DEF Unread, SelectedAt
  <2>3. CASE op[p] = "query" /\ ~ sel[p].hierarchy
    BY <1>1, <2>3 DEF Unread, SelectedAt
  <2> QED
    BY <2>1, <2>2, <2>3
<1>3. ASSUME NEW t \in Tables, t \in list
      PROVE  Waiting(p, t)'
  BY <1>1, <1>3 DEF Waiting
<1> HIDE DEF list
<1> QED
  BY <1>1, <1>2, <1>3 DEF CountedAt

\* Every step keeps what a call has counted.
LEMMA StepCounted ==
  ASSUME TypeOK, Shape, SummaryFresh, NEW p \in Procs, SelectedAt(p), TallyAt(p),
         CoveredAt(p), [Next]_vars, Aggregating(p)'
  PROVE  CountedAt(p)'
<1>1. ASSUME Aggregating(p)
      PROVE  /\ CountedAt(p)
             /\ \A t \in Tables : since[p][t] \subseteq since'[p][t]
  <2>1. CountedAt(p)
    BY <1>1 DEF TallyAt
  <2>2. \A t \in Tables : sidecar[t].version \in since[p][t]
    BY <1>1 DEF TallyAt
  <2> QED
    BY <1>1, <2>1, <2>2, StepRemembers
<1>2. CASE Start(p)
  <2>1. pc'[p] = "format"
    BY <1>2 DEF Start, StartGenerate, StartQuery, StartCache, Begin, TypeOK
  <2> QED
    BY <2>1 DEF CountedAt
<1>3. CASE End(p)
  BY <1>3 DEF End, Fail, Crash, Return, Leave, Aggregating, Idle, TypeOK
<1>4. CASE Format(p)
  <2>1. CASE Validated(p)
    <3>1. op[p] \in {"query", "cache"}
      BY <2>1 DEF Validated, Aggregating
    <3> QED
      BY <2>1, <3>1, ValidatedCounts
  <2>2. CASE MissingFormat(p) \/ LoseFormat(p)
    <3>1. pc'[p] \in {"format", "create"}
      BY <2>2 DEF MissingFormat, LoseFormat, TypeOK
    <3> QED
      BY <3>1 DEF CountedAt
  <2> QED
    BY <1>4, <2>1, <2>2 DEF Format, AcceptFormat, CreateFormat
<1>5. CASE Generate(p)
  BY <1>5 DEF Generate, Publish, Invalidate, SaveStats, Shape, Aggregating
<1>6. CASE ReadSummary(p)
  <2>1. Aggregating(p)
    BY <1>6 DEF ReadSummary, Shape, Aggregating, Idle
  <2> QED
    BY <1>1, <1>6, <2>1, ReadSummaryCounts
<1>7. ASSUME Aggregating(p), UNCHANGED <<sel, count, visit, total>>,
             \/ pc[p] = "summaries" /\ prefixes[p] = {} /\ pc'[p] = "records"
             \/ pc[p] = "outside" /\ pc'[p] \in {"outside", "records"}
             \/ pc[p] = "rebuild" /\ pc'[p] \in {"rebuild", "return"}
             \/ /\ pc[p] = "records" /\ pc'[p] \in {"rebuild", "return"}
                /\ \A t \in Tables : visit[p][t] \in {"none", "done"}
      PROVE  CountedAt(p)'
  BY <1>1, <1>7 DEF CountedAt, Unread, Waiting
<1>8. CASE EndSummaries(p) \/ Cache(p) \/ EndRecords(p)
  <2>1. Aggregating(p)
    BY <1>8 DEF EndSummaries, Cache, DeleteOutside, EndOutside, WriteSummary,
       EndRebuild, EndRecords, Shape, Aggregating, Idle
  <2>2. /\ UNCHANGED <<sel, count, visit, total>>
        /\ \/ pc[p] = "summaries" /\ prefixes[p] = {} /\ pc'[p] = "records"
           \/ pc[p] = "outside" /\ pc'[p] \in {"outside", "records"}
           \/ pc[p] = "rebuild" /\ pc'[p] \in {"rebuild", "return"}
           \/ /\ pc[p] = "records" /\ pc'[p] \in {"rebuild", "return"}
              /\ \A t \in Tables : visit[p][t] \in {"none", "done"}
    BY <1>8 DEF EndSummaries, Cache, DeleteOutside, EndOutside, WriteSummary,
       EndRebuild, EndRecords, TypeOK, local
  <2> QED
    BY <1>7, <2>1, <2>2
<1>9. ASSUME NEW u \in Tables, Record(p, u)
      PROVE  CountedAt(p)'
  <2>1. pc[p] = "records" /\ UNCHANGED <<pc, op, sel, prefixes, count>>
    BY <1>9 DEF Record, ReadRecord, MissingRecord, InvalidateRecord, CreateRecord
  <2>2. Aggregating(p)
    BY <2>1 DEF Shape, Aggregating, Idle
  <2>3. sidecar[u].version \in since'[p][u]
    BY <1>1, <2>2 DEF TallyAt
  <2>4. \/ /\ \A t \in Tables \ {u} : visit'[p][t] = visit[p][t] /\ total'[p][t] = total[p][t]
           /\ total'[p][u] = sidecar[u].version
        \/ /\ \A t \in Tables \ {u} : visit'[p][t] = visit[p][t]
           /\ visit'[p][u] \in {"create", "reread"} \/ visit'[p][u] = visit[p][u]
           /\ UNCHANGED total
    BY <1>9 DEF Record, ReadRecord, MissingRecord, InvalidateRecord, CreateRecord,
       Visited, TypeOK
  <2>5. \A t \in Tables :
          \/ visit'[p][t] = visit[p][t] /\ total'[p][t] = total[p][t]
          \/ visit'[p][t] \notin {"none", "done"} /\ pc[p] = "records"
          \/ total'[p][t] \in since'[p][t]
    BY <2>1, <2>3, <2>4
  <2> QED
    BY <1>1, <2>1, <2>2, <2>5, TallyKept
<1>10. ASSUME NEW q \in Procs, q # p, Step(q)
       PROVE  CountedAt(p)'
  <2>1. /\ pc'[p] = pc[p] /\ op'[p] = op[p] /\ sel'[p] = sel[p]
        /\ prefixes'[p] = prefixes[p] /\ visit'[p] = visit[p]
        /\ total'[p] = total[p] /\ count'[p] = count[p]
    BY <1>10, OthersKeep
  <2>2. Aggregating(p)
    BY <2>1 DEF Aggregating, Idle
  <2> QED
    BY <1>1, <2>1, <2>2, TallyKept
<1>11. CASE ForeignFormat \/ UNCHANGED vars
  <2>1. UNCHANGED <<pc, op, sel, prefixes, visit, total, count>>
    BY <1>11 DEF ForeignFormat, vars, local
  <2>2. Aggregating(p)
    BY <2>1 DEF Aggregating, Idle
  <2> QED
    BY <1>1, <2>1, <2>2, TallyKept
<1> QED
  BY <1>2, <1>3, <1>4, <1>5, <1>6, <1>8, <1>9, <1>10, <1>11 DEF Next, Step, Query

-------------------------------------------------------------------------------
(* The theorems.                                                            *)

\* Every object and every local has its type, and every call is where a call of
\* its kind can be.
LEMMA TypedAlways == Spec => [](TypeOK /\ Shape)
<1>1. Init => TypeOK /\ Shape
  BY InitTyped
<1>2. TypeOK /\ Shape /\ [Next]_vars => (TypeOK /\ Shape)'
  BY StepTyped
<1> QED
  BY <1>1, <1>2, PTL DEF Spec

\* The types of Publication.
THEOREM TypeCorrect == Spec => []TypeOK
BY TypedAlways, PTL

\* The descriptor's invariant, for every interleaving of its creation.
LEMMA FormatHeldAlways == Spec => []FormatHeld
<1>1. Init => FormatHeld
  BY DEF Init, FormatHeld
<1>2. TypeOK /\ FormatHeld /\ [Next]_vars => FormatHeld'
  BY StepFormat
<1> QED
  BY <1>1, <1>2, TypeCorrect, PTL DEF Spec

\* Storage writes nothing in a root that is not of this format, however many
\* processes race to create the descriptor (storage.rs:145).
THEOREM FormatGuardsWrites == Spec => WritesNeedFormat
<1>1. FormatHeld /\ [Next]_vars =>
        [<<binary, sidecar, stored, summary>>' # <<binary, sidecar, stored, summary>>
          => format = "ours"]_vars
  BY StepWrites
<1> QED
  BY <1>1, FormatHeldAlways, PTL DEF Spec, WritesNeedFormat

\* The descriptor is never replaced (storage.rs:144).
THEOREM FormatKept == Spec => FormatImmutable
<1>1. TypeOK /\ FormatHeld /\ [Next]_vars => [format # "absent" => format' = format]_vars
  BY StepFormat
<1> QED
  BY <1>1, FormatHeldAlways, TypeCorrect, PTL DEF Spec, FormatImmutable

\* No rebuild and no generation replaces complete statistics by a placeholder
\* (stats_cache.rs:160), whether or not rebuilds run alone.
THEOREM CompleteKept == Spec => CompleteNeverLost
<1>1. TypeOK /\ [Next]_vars =>
        [\A t \in Tables : sidecar[t].kind = "complete" => sidecar'[t].kind = "complete"]_vars
  BY StepComplete
<1> QED
  BY <1>1, TypeCorrect, PTL DEF Spec, CompleteNeverLost

\* Statistics never describe a table that is not published (finalization.rs:95).
THEOREM StatisticsBacked == Spec => []SidecarBacked
<1>1. Init => Backed
  BY DEF Init, Backed, SidecarBacked, Absent, Nothing
<1>2. TypeOK /\ Shape /\ Backed /\ [Next]_vars => Backed'
  BY StepBacked
<1>3. Backed => SidecarBacked
  BY DEF Backed
<1> QED
  BY <1>1, <1>2, <1>3, TypedAlways, PTL DEF Spec

\* The invariant of summaries, under the rule of stats_cache.rs:4.
LEMMA FreshAlways ==
  ASSUME Exclusive
  PROVE  Spec => []FreshInv
<1>1. Init => FreshInv
  BY DEF Init, FreshInv, Alone, Running, Idle, Cleared, Covered, CoveredAt, Accurate,
         SummaryFresh, NoSelection
<1>2. TypeOK /\ Shape /\ FreshInv /\ [Next]_vars => FreshInv'
  <2> SUFFICES ASSUME TypeOK, Shape, FreshInv, [Next]_vars PROVE FreshInv'
    OBVIOUS
  <2>1. Alone' /\ Covered'
    BY StepAlone, StepCovered DEF FreshInv
  <2>2. Cleared' /\ Accurate' /\ SummaryFresh'
    BY StepCleared, StepAccurate, StepSummaryFresh
  <2> QED
    BY <2>1, <2>2 DEF FreshInv
<1> QED
  BY <1>1, <1>2, TypedAlways, PTL DEF Spec

\* Under the rule that rebuilds run alone, an existing summary equals the records
\* below its directory, through every crash and every error (stats_cache.rs:5).
THEOREM SummariesFresh ==
  ASSUME Exclusive
  PROVE  Spec => []SummaryFresh
<1>1. FreshInv => SummaryFresh
  BY DEF FreshInv
<1> QED
  BY <1>1, FreshAlways, PTL

\* Under the same rule no summary outlives one below it: invalidation deletes from
\* the outside in, a rebuild writes descendants before their parents
\* (stats_cache.rs:93).
THEOREM SummariesStayNested ==
  ASSUME Exclusive
  PROVE  Spec => []SummariesNested
<1>1. Init => NestInv
  BY DEF Init, NestInv, SummariesNested, NestedAt
<1>2. TypeOK /\ Shape /\ FreshInv /\ NestInv /\ [Next]_vars => NestInv'
  BY StepNested DEF FreshInv
<1>3. NestInv => SummariesNested
  BY DEF NestInv
<1> QED
  BY <1>1, <1>2, <1>3, TypedAlways, FreshAlways, PTL DEF Spec

\* Under the same rule a query or a rebuild returns every selected table once, as its
\* record was at some moment of the call (query and cache, stats_cache.rs).
THEOREM ResultsCurrent ==
  ASSUME Exclusive
  PROVE  Spec => []AggregateCurrent
<1>1. Init => TallyInv
  BY DEF Init, TallyInv, SelectedAt, TallyAt, NoSelection, Aggregating, Idle
<1>2. TypeOK /\ Shape /\ FreshInv /\ TallyInv /\ [Next]_vars => TallyInv'
  <2> SUFFICES ASSUME TypeOK, Shape, FreshInv, TallyInv, [Next]_vars, NEW p \in Procs
               PROVE  SelectedAt(p)' /\ TallyAt(p)'
    BY DEF TallyInv
  <2>1. SelectedAt(p) /\ TallyAt(p) /\ CoveredAt(p) /\ SummaryFresh
    BY DEF TallyInv, FreshInv, Covered
  <2>2. SelectedAt(p)'
    BY <2>1, StepSelected
  <2>3. ASSUME Aggregating(p)'
        PROVE  /\ CountedAt(p)'
               /\ \A t \in Tables : sidecar'[t].version \in since'[p][t]
    <3>1. CountedAt(p)'
      BY <2>1, <2>3, StepCounted
    <3>2. Aggregating(p) => \A t \in Tables : sidecar[t].version \in since[p][t]
      BY <2>1 DEF TallyAt
    <3> QED
      BY <2>3, <3>1, <3>2, StepRemembers
  <2> QED
    BY <2>2, <2>3 DEF TallyAt
<1>3. TallyInv => AggregateCurrent
  BY DEF TallyInv, TallyAt, CountedAt, Unread, Waiting, AggregateCurrent
<1> QED
  BY <1>1, <1>2, <1>3, TypedAlways, FreshAlways, PTL DEF Spec

==============================================================================
