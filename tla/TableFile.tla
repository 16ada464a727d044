------------------------------- MODULE TableFile -------------------------------
(***************************************************************************)
(* From the solver's cells to a published object and back: finalize_table   *)
(* and its parallel batches, the statistics they merge, EgtFileWriter with   *)
(* its calls in any order, the upload, and what a reader that opens the      *)
(* object finds in it.  Compression is external: a frame becomes one or two   *)
(* units that can only be decompressed together.                            *)
(***************************************************************************)
EXTENDS DtcOutcome, Sequences, SequencesExt

CONSTANTS Length,      \* index_range
          FrameSize,
          Outcomes,    \* what the solver may leave in a cell
          Threads,     \* possible sizes of the pool
          Mirrors,     \* possible diagonal_symmetric: index to index, partial
          MaxCalls     \* bound on the calls to one writer

ASSUME FileAssumption ==
  /\ {Length, FrameSize, MaxCalls} \subseteq Nat \ {0} /\ Threads \subseteq Nat \ {0}
  /\ \A v \in Outcomes :
       \/ v \in {Invalid, Draw}
       \/ /\ v \in Value /\ v.n < 2 ^ 13
          /\ \/ IsResolved(v) /\ v.ct # "none"
             \/ IsUnknown(v) /\ v.ct = "none" /\ v.n # 0

-------------------------------------------------------------------------------
(* MaybeDtcOutcome: three bits of kind, thirteen of distance or counter.     *)

Bits == [win |-> [Checkmate |-> 2, Capture |-> 4, Promotion |-> 6],
         loss |-> [Checkmate |-> 3, Capture |-> 5, Promotion |-> 7]]

\* new_win, new_loss, new_unknown: u16 arithmetic drops what does not fit.
Encode(v) ==
  CASE v.kind = "invalid" -> 0
    [] v.kind = "draw" -> 1
    [] v.kind = "unknown" -> (v.n * 8) % (2 ^ 16)
    [] OTHER -> Bits[v.kind][v.ct] + ((v.n * 8) % (2 ^ 16))

is_unknown(raw) == raw % 8 = 0 /\ raw \div 8 # 0

\* is_invalid, to_outcome_at; an unknown has no outcome.
Decode(raw) ==
  IF raw = 0 THEN Invalid ELSE IF raw % 8 = 1 THEN Draw
  ELSE IF raw % 8 = 0 THEN Unknown(raw \div 8)
  ELSE LET kind == IF raw % 2 = 0 THEN "win" ELSE "loss"
           ct == CHOOSE c \in ConversionType : Bits[kind][c] = raw % 8
       IN [kind |-> kind, ct |-> ct, n |-> raw \div 8]

Low(raw) == raw % 256
High(raw) == raw \div 256
Zeros(n) == [i \in 1 .. n |-> 0]

TransposeFaulty(frame) ==
  LET high == SelectSeq([i \in DOMAIN frame |-> High(frame[i])], LAMBDA byte : byte # 0)
  IN [i \in DOMAIN frame |-> Low(frame[i])] \o high \o Zeros(Len(frame) - Len(high))

\* transpose_frame: the low bytes, then the high bytes of all but 0 and 1.
transpose_frame(frame) ==
  LET high == FoldLeft(LAMBDA bytes, raw : IF raw \in {0, 1} THEN bytes
                                           ELSE Append(bytes, High(raw)), <<>>, frame)
  IN [i \in DOMAIN frame |-> Low(frame[i])] \o high \o Zeros(Len(frame) - Len(high))

detranspose_frame(bytes, n) ==
  LET before(i) == Cardinality({k \in 1 .. i : bytes[k] \notin {0, 1}})
  IN [i \in 1 .. n |-> IF bytes[i] \in {0, 1} THEN bytes[i]
                       ELSE bytes[i] + 256 * bytes[n + before(i)]]

Compressed(bytes) ==
  [u \in 1 .. (IF Cardinality(ToSet(bytes)) > 2 THEN 2 ELSE 1) |-> [unit |-> u, of |-> bytes]]

-------------------------------------------------------------------------------
(* Frames and batches.                                                      *)

Least(a, b) == IF a < b THEN a ELSE b
Ceiling(a, b) == (a + b - 1) \div b
Frames == Ceiling(Length, FrameSize)
FrameLength(f) == Least(FrameSize, Length - (f - 1) * FrameSize)
BatchSize(threads) == Ceiling(Frames, threads) * FrameSize
Batches(threads) == 1 .. Ceiling(Length, BatchSize(threads))

VARIABLES solved,    \* the outcomes the solver found, index to outcome
          threads, mirror,
          batches,   \* finished batches, in any order: batch to [segment, stats]
          stats,     \* merged by EgtStatsBuilder, once every batch is there
          segments, footer, published,  \* EgtFileWriter; absent is <<>>
          upload,    \* the buffers a publish has put so far, if one is running
          object,    \* under the table's key; absent is <<>>
          calls

writer == <<segments, footer, published>>
given == <<solved, threads, mirror>>
vars == <<given, batches, stats, writer, upload, object, calls>>

working(i) == Encode(solved[i])
Finalized(i) == IF is_unknown(working(i)) THEN Encode(Draw) ELSE working(i)

\* The maxima the solver reports: of wins and of losses, 0 without any.
Maximum(kind) ==
  LET plies == {solved[i].n : i \in {j \in 1 .. Length : solved[j].kind = kind}}
  IN IF plies = {} THEN 0 ELSE CHOOSE n \in plies : \A m \in plies : m <= n

Redundant(i) == i \in DOMAIN mirror /\ mirror[i] < i
Sides == {"win", "loss"}
NoStats == [draw |-> 0, redundant |-> 0, resolved |-> [side \in Sides |-> 0],
            histograms |-> [side \in Sides |-> <<>>],
            candidates |-> [side \in Sides |-> <<>>]]

\* A win at a maximum of 0 is no win to show; a loss there is a checkmate.
Candidate(v) == v.n = Maximum(v.kind) /\ (v.kind = "win" => v.n > 0)

\* f with e at x, where it may have had another value or none.
With(f, x, e) == [y \in DOMAIN f \cup {x} |-> IF y = x THEN e ELSE f[y]]

Counted(histogram, ply) == IF ply \in DOMAIN histogram THEN histogram[ply] ELSE 0
Bump(histogram, ply) == With(histogram, ply, Counted(histogram, ply) + 1)

record_outcome(s, i) ==
  LET v == Decode(Finalized(i))
  IN IF Redundant(i) THEN [s EXCEPT !.redundant = @ + 1]
     ELSE IF v.kind = "draw" THEN [s EXCEPT !.draw = @ + 1]
     ELSE IF ~IsResolved(v) THEN s
     ELSE [s EXCEPT !.resolved[v.kind] = @ + 1,
                    !.histograms[v.kind] = Bump(@, v.n),
                    !.candidates[v.kind] = IF Candidate(v) THEN Append(@, i) ELSE @]

\* EgtStatsBuilder::merge of one part.
Added(h, g) == [ply \in DOMAIN h \cup DOMAIN g |-> Counted(h, ply) + Counted(g, ply)]
merge(s, part) ==
  [draw |-> s.draw + part.draw, redundant |-> s.redundant + part.redundant,
   resolved |-> [side \in Sides |-> s.resolved[side] + part.resolved[side]],
   histograms |-> [side \in Sides |-> Added(s.histograms[side], part.histograms[side])],
   candidates |-> [side \in Sides |-> s.candidates[side] \o part.candidates[side]]]

finalize_batch(b) ==
  LET from == (b - 1) * BatchSize(threads) + 1
      to == Least(b * BatchSize(threads), Length)
      frames == {f \in 1 .. Frames : (f - 1) * FrameSize + 1 \in from .. to}
      plain(f) == [k \in 1 .. FrameLength(f) |-> Finalized((f - 1) * FrameSize + k)]
      first == CHOOSE f \in frames : \A g \in frames : f <= g
  IN [segment |-> [k \in 1 .. Cardinality(frames) |->
                     LET bytes == transpose_frame(plain(first + k - 1))
                     IN [data |-> Compressed(bytes), decomp |-> Len(bytes)]],
      stats |-> FoldLeft(record_outcome, NoStats, [k \in 1 .. to - from + 1 |-> from + k - 1])]

-------------------------------------------------------------------------------

Init ==
  /\ threads \in Threads /\ mirror \in Mirrors
  /\ solved \in {cells \in [1 .. Length -> Outcomes] :
                  \A i \in DOMAIN mirror : cells[i] = cells[mirror[i]]}
  /\ batches = <<>> /\ stats = <<>> /\ segments = <<>> /\ footer = <<>>
  /\ published = FALSE /\ upload = <<>> /\ object = <<>> /\ calls = 0

FinalizeBatch(b) ==
  /\ b \in Batches(threads) \ DOMAIN batches
  /\ batches' = With(batches, b, finalize_batch(b))
  /\ UNCHANGED <<given, stats, writer, upload, object, calls>>

CompletedFaulty ==
  [b \in 1 .. Cardinality(DOMAIN batches) |-> batches[Cardinality(DOMAIN batches) + 1 - b]]

\* Indexed collection: the order of the batches, not of their completion.
Completed == [b \in 1 .. Cardinality(DOMAIN batches) |-> batches[b]]

Collect ==
  /\ DOMAIN batches = Batches(threads) /\ stats = <<>>
  /\ stats' = <<FoldLeft(LAMBDA s, part : merge(s, part.stats), NoStats, Completed)>>
  /\ UNCHANGED <<given, batches, writer, upload, object, calls>>

\* Any call of the writer, with upload idle; a refused call changes nothing.
Call == stats # <<>> /\ upload = <<>> /\ calls < MaxCalls /\ calls' = calls + 1

\* What a caller may hand over: every batch's segment, or all but the last.
Deliveries ==
  LET all == [b \in DOMAIN Completed |-> Completed[b].segment]
  IN IF stats = <<>> THEN {} ELSE {all, Front(all)}

write_segments(given_segments) ==
  LET frames == FlattenSeq(given_segments)
      accepted == /\ ~published /\ footer = <<>> /\ segments = <<>>
                  /\ Len(frames) = Frames
                  /\ \A f \in DOMAIN frames : frames[f].decomp = 2 * FrameLength(f)
  IN /\ Call
     /\ segments' = IF accepted THEN <<given_segments>> ELSE segments
     /\ UNCHANGED <<given, batches, stats, footer, published, upload, object>>

\* The seek table of all frames.
finish ==
  /\ Call
  /\ footer' = IF published \/ footer # <<>> \/ segments = <<>> THEN footer
               ELSE LET frames == FlattenSeq(segments[1])
                    IN <<[f \in DOMAIN frames |->
                            [comp |-> Len(frames[f].data), decomp |-> frames[f].decomp]]>>
  /\ UNCHANGED <<given, batches, stats, segments, published, upload, object>>

SegmentsOf(held) == IF held = <<>> THEN <<>> ELSE held[1]

\* publish: refused unless finished, and once published.
BeginPublish ==
  /\ Call
  /\ upload' = IF published \/ footer = <<>> THEN upload
               ELSE <<[put |-> 0, of |-> SegmentsOf(segments)]>>
  /\ UNCHANGED <<given, batches, stats, writer, object>>

\* publish_buffers: the segments, then the footer.
PutBuffer ==
  /\ upload # <<>> /\ upload[1].put <= Len(upload[1].of)
  /\ upload' = [upload EXCEPT ![1].put = @ + 1]
  /\ UNCHANGED <<given, batches, stats, writer, object, calls>>

\* A put fails: the upload is aborted, nothing is stored, the writer is as before.
AbortUpload ==
  /\ upload # <<>> /\ upload' = <<>>
  /\ UNCHANGED <<given, batches, stats, writer, object, calls>>

\* shutdown stores the whole object, and the writer releases its buffers.  When the
\* store fails after all, the writer keeps them, and the object may be there or not.
CompleteUpload ==
  /\ upload # <<>> /\ upload[1].put = Len(upload[1].of) + 1 /\ upload' = <<>>
  /\ LET frames == FlattenSeq(upload[1].of)
     IN object' = <<[data |-> FlattenSeq([f \in DOMAIN frames |-> frames[f].data]),
                     footer |-> footer[1]]>>
  /\ \/ segments' = <<>> /\ footer' = <<>> /\ published' = TRUE
     \/ UNCHANGED writer
  /\ UNCHANGED <<given, batches, stats, calls>>

Next ==
  \/ \E b \in 1 .. Length : FinalizeBatch(b)
  \/ Collect
  \/ \E s \in Deliveries : write_segments(s)
  \/ finish \/ BeginPublish \/ PutBuffer \/ AbortUpload \/ CompleteUpload

Idle == stats # <<>> /\ upload = <<>> /\ calls = MaxCalls /\ UNCHANGED vars

Spec == Init /\ [][Next \/ Idle]_vars

-------------------------------------------------------------------------------
(* A reader of the object.                                                  *)

\* The compressed size of some entries of the seek table.
Extent(entries) == FoldLeft(LAMBDA sum, entry : sum + entry.comp, 0, entries)

\* load_seek_table: as many frames as the table has, of their lengths, which fill the
\* object.
Opens(o) ==
  /\ Len(o.footer) = Frames
  /\ Extent(o.footer) = Len(o.data)
  /\ \A f \in 1 .. Frames : o.footer[f].decomp = 2 * FrameLength(f) /\ o.footer[f].comp # 0

\* locate_frame, ensure_uncompressed and decode_frame.
ReadCell(o, i) ==
  LET f == (i - 1) \div FrameSize + 1
      start == Extent(SubSeq(o.footer, 1, f - 1))
      range == SubSeq(o.data, start + 1, start + o.footer[f].comp)
      bytes == range[1].of
  IN IF range = Compressed(bytes) /\ Len(bytes) = 2 * FrameLength(f)
     THEN Decode(detranspose_frame(bytes, FrameLength(f))[((i - 1) % FrameSize) + 1])
     ELSE Unknown(1)

\* Whatever calls a writer gets, in whatever order and with whatever failures of the
\* upload between, an object it stores opens and gives back, index by index, what the
\* solver found, the unknown as draws: no frame is missing, repeated or out of place,
\* no distance cut (EgtFileWriter, transpose_frame, load_seek_table).
ReadsBackFinal ==
  object # <<>> =>
    /\ Opens(object[1])
    /\ \A i \in 1 .. Length :
         ReadCell(object[1], i) = IF IsUnknown(solved[i]) THEN Draw ELSE solved[i]

\* The merged statistics are those of one pass over the table in index order, without
\* the redundant halves of diagonal pairs, whichever batch was finished first
\* (finalization_stats.rs, finalize_table).
StatisticsSequential ==
  LET unique(i) == ~(i \in DOMAIN mirror /\ mirror[i] < i)
      value(i) == IF IsUnknown(solved[i]) THEN Draw ELSE solved[i]
      of(kind) == {i \in 1 .. Length : unique(i) /\ value(i).kind = kind}
      longest(kind) ==
        {i \in of(kind) :
           /\ \A j \in 1 .. Length : value(j).kind = kind => value(j).n <= value(i).n
           /\ kind = "win" => value(i).n # 0}
  IN stats # <<>> =>
       /\ stats[1].draw = Cardinality(of("draw"))
       /\ stats[1].redundant = Cardinality({i \in 1 .. Length : ~unique(i)})
       /\ \A kind \in Sides :
            LET histogram == stats[1].histograms[kind]
                candidates == stats[1].candidates[kind]
                plies == {value(i).n : i \in of(kind)}
            IN /\ stats[1].resolved[kind] = Cardinality(of(kind))
               /\ DOMAIN histogram = plies
               /\ \A n \in plies :
                    histogram[n] = Cardinality({i \in of(kind) : value(i).n = n})
               /\ ToSet(candidates) = longest(kind)
               /\ \A k, l \in DOMAIN candidates : k < l => candidates[k] < candidates[l]
===============================================================================
