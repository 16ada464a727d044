------------------------------ MODULE Generation ------------------------------
(***************************************************************************)
(* A run of the generator: generate_selected with generate_pair and         *)
(* verify_egt, over a base location and an input location.  Solving and     *)
(* verifying are reduced to the artifacts they read: "input", "old" (in the *)
(* base before the run) or "new" (written by the run).  The cache's own     *)
(* concurrency is FrameCache's, the solver's is Retrograde's.               *)
(***************************************************************************)
EXTENDS Selection

CONSTANTS Requests,  \* sequences of selectors
          Holdings   \* what the locations hold: [all, but, input, damaged]

ASSUME RequestsAssumption ==
  \A request \in Requests : \A i \in DOMAIN request : IsSelector(request[i])

VARIABLES selectors,  \* the arguments of the run
          verify,     \* EgtGenerator.verify
          disk,       \* the holding: base has every table (all) or none, but some
          stage,
          todo,       \* pairs of the plan not taken yet
          pair,       \* the current one
          family,     \* previous_material
          cached,     \* SharedFileCache.files: opened tables with their artifact
          made,       \* tables published
          readings,   \* artifacts read: [for, name, source, by]
          results     \* tables whose statistics are returned

vars == <<selectors, verify, disk, stage, todo, pair, family, cached, made, readings, results>>
given == <<selectors, verify, disk>>

Planned == made \cup Range(pair) \cup UNION {Range(p) : p \in todo}
Plan == GenerationPlan(resolve_selectors(selectors))
HeldBefore(name) == (name \in disk.but) # disk.all
Pinned == {[name |-> name, source |-> "new"] : name \in Range(pair)}
Named(name) == {r \in cached : r.name = name}

\* load_existing_file: the base is consulted only if the input has no such file.
Lookup(name) ==
  IF name \in disk.damaged THEN "damaged"
  ELSE IF name \in disk.input THEN "input"
  ELSE IF name \in made THEN "new"
  ELSE IF HeldBefore(name) THEN "old"
  ELSE "missing"

\* SharedFileCache::file for each of these tables.
Opened(names) ==
  {IF Named(name) # {} THEN CHOOSE r \in Named(name) : TRUE
   ELSE [name |-> name, source |-> Lookup(name)] : name \in names}
Unreadable(names) == {r \in Opened(names) : r.source \in {"missing", "damaged"}}
Read(names, table, by) ==
  {[for |-> table, name |-> r.name, source |-> r.source, by |-> by] : r \in Opened(names)}

Init ==
  /\ selectors \in Requests /\ verify \in BOOLEAN /\ disk \in Holdings
  /\ stage = "plan" /\ todo = {} /\ pair = <<>> /\ family = {} /\ cached = {}
  /\ made = {} /\ readings = {} /\ results = <<>>

-------------------------------------------------------------------------------

Start ==
  /\ stage = "plan"
  /\ IF Resolves(selectors)
     THEN stage' = "next" /\ todo' = Plan
     ELSE stage' = "rejected" /\ UNCHANGED todo
  /\ UNCHANGED <<given, pair, family, cached, made, readings, results>>

\* The next pair; the cache is released between families.
TakePair ==
  /\ stage = "next" /\ todo # {}
  /\ pair' = CHOOSE p \in todo : \A q \in todo \ {p} : Before(p[1], q[1])
  /\ todo' = todo \ {pair'} /\ stage' = "solve"
  /\ family' = material_family(pair'[1])
  /\ cached' = IF family' = family THEN cached ELSE {}
  /\ readings' = {}
  /\ UNCHANGED <<given, made, results>>

\* solve_pair reads the conversions of both tables.
Solve ==
  LET needed == UNION {ConversionsOf(table) : table \in Range(pair)}
  IN /\ stage = "solve"
     /\ IF Unreadable(needed) # {}
        THEN stage' = "unavailable" /\ UNCHANGED <<cached, readings>>
        ELSE /\ stage' = "publish"
             /\ cached' = cached \cup Opened(needed)
             /\ readings' = UNION {Read(ConversionsOf(table), table, "solver") :
                                     table \in Range(pair)}
     /\ UNCHANGED <<given, todo, pair, family, made, results>>

\* finalize_table, one table after the other.
Publish ==
  /\ stage = "publish"
  /\ \E k \in DOMAIN pair :
       /\ pair[k] \notin made /\ \A j \in 1 .. k - 1 : pair[j] \in made
       /\ made' = made \cup {pair[k]}
       /\ stage' = IF k = Len(pair) THEN "pin" ELSE "publish"
  /\ UNCHANGED <<given, todo, pair, family, cached, readings, results>>

PinFaulty ==
  /\ stage = "pin"
  /\ stage' = IF verify THEN "verify" ELSE "record"
  /\ UNCHANGED <<given, todo, pair, family, cached, made, readings, results>>

\* reader.insert of both outputs replaces what was opened under their names.
Pin ==
  /\ stage = "pin"
  /\ IF verify
     THEN /\ stage' = "verify"
          /\ cached' = {r \in cached : r.name \notin Range(pair)} \cup Pinned
     ELSE stage' = "record" /\ UNCHANGED cached
  /\ UNCHANGED <<given, todo, pair, family, made, readings, results>>

\* verify_egt of each table: its own values, its twin's and its conversions'.
Verify ==
  LET reads(table) == {table, twin(table).id} \cup ConversionsOf(table)
      checked == {r.for : r \in {s \in readings : s.by = "verifier"}}
  IN /\ stage = "verify"
     /\ \E k \in DOMAIN pair :
          /\ pair[k] \notin checked /\ \A j \in 1 .. k - 1 : pair[j] \in checked
          /\ IF Unreadable(reads(pair[k])) # {}
             THEN stage' = "unavailable" /\ UNCHANGED <<cached, readings>>
             ELSE /\ stage' = IF k = Len(pair) THEN "release" ELSE "verify"
                  /\ cached' = cached \cup Opened(reads(pair[k]))
                  /\ readings' = readings \cup Read(reads(pair[k]), pair[k], "verifier")
     /\ UNCHANGED <<given, todo, pair, family, made, results>>

Release ==
  /\ stage = "release" /\ stage' = "record"
  /\ cached' = {r \in cached : r.name \notin Range(pair)}
  /\ UNCHANGED <<given, todo, pair, family, made, readings, results>>

Record ==
  /\ stage = "record" /\ stage' = "next"
  /\ results' = results \o pair
  /\ UNCHANGED <<given, todo, pair, family, cached, made, readings>>

Finish ==
  /\ stage = "next" /\ todo = {} /\ stage' = "done"
  /\ UNCHANGED <<given, todo, pair, family, cached, made, readings, results>>

\* Storage fails, or verification does: the run returns the error.
Fail ==
  /\ stage \in {"solve", "publish", "verify"} /\ stage' = "failed"
  /\ UNCHANGED <<given, todo, pair, family, cached, made, readings, results>>

Next == Start \/ TakePair \/ Solve \/ Publish \/ Pin \/ Verify \/ Release \/ Record
        \/ Finish \/ Fail

Ended == stage \in {"rejected", "unavailable", "failed", "done"} /\ UNCHANGED vars

Spec == Init /\ [][Next \/ Ended]_vars

-------------------------------------------------------------------------------

\* What a selector means: the tables of all positions whose directory, material or
\* name it gives.
Layouts == {files \in [1 .. Files -> Words] :
              PawnsOf(files, STM) + PawnsOf(files, SNTM) <= MaxPieces - 2}
Universe ==
  {compute_tablename(t) :
     t \in {u \in {Elements(canonicalized(l).files, m) :
                    l \in Layouts, m \in [Sides -> [ToSet(Roles) -> 0 .. MaxPieces - 2]]} :
             validate_elements(u)}}

Denotes(selector, name) ==
  CASE selector.kind = "hierarchy" -> matches(selector.prefix, name)
    [] selector.kind = "material" -> material(name) = selector.material
    [] selector.kind = "exact" -> name = selector.name

\* The plan is exactly the tables the selectors mean, with their twins, each in one
\* pair, and only malformed or empty selectors are rejected: no filter loses a table
\* (Material::tables, resolve, GenerationPlan::new).  A completed run has made these
\* tables and returns each once.
SelectionExact ==
  LET meant == {t \in Universe : \E i \in DOMAIN selectors : Denotes(selectors[i], t)}
      tables == meant \cup {twin(t).id : t \in meant}
  IN /\ stage = "rejected" =>
          \/ ~parse_selectors(selectors)
          \/ \E i \in DOMAIN selectors : \A t \in Universe : ~Denotes(selectors[i], t)
     /\ stage = "next" /\ results = <<>> =>
          /\ UNION {Range(p) : p \in todo} = tables
          /\ \A p, q \in todo : p # q => Range(p) \cap Range(q) = {}
     /\ stage = "done" => /\ ToSet(results) = tables /\ made = tables
                          /\ IsInjective(results)

\* The order of TableId tells the pairs of a plan apart, and puts the pairs a table may
\* convert into before its own, which its twin shares: "explicitly selected
\* capture/promotion prerequisites precede their consumers" (module comment of
\* src/selection.rs).
PlanInOrder(plan) ==
  /\ IsFiniteSet(plan)
  /\ \A p \in plan :
       /\ TableKey(p[1]) \in Seq(Nat) /\ ElementsKey(p[1]) \in Seq(Nat)
       /\ \A q \in plan \ {p} : TableKey(p[1]) = TableKey(q[1]) =>
                                  ElementsKey(p[1]) # ElementsKey(q[1])
       /\ \A table \in Range(p) :
            /\ twin(table).id \in Range(p)
            /\ \A d \in ConversionsOf(table), q \in plan :
                 d \in Range(q) => Before(q[1], p[1])
PrerequisitesPrecede ==
  stage = "plan" /\ Resolves(selectors) => PlanInOrder(Plan)

\* A table is computed from the run's own tables where the run makes them (unless
\* an input artifact is preferred), never from older ones; and it fails for want of
\* a dependency only if the run does not make it (the order of TableId, from which
\* the module comment of src/selection.rs promises that prerequisites precede).
BuiltFromThisRun ==
  /\ \A r \in readings : r.source = "old" => r.name \notin Planned
  /\ stage = "unavailable" =>
       \E t \in Range(pair) : \E d \in ConversionsOf(t) :
         d \in disk.damaged \/ ~(d \in Planned \/ d \in disk.input \/ HeldBefore(d))

\* Verification reads the tables just made, even if input artifacts bear their names;
\* and no opened reader outlives its pair with another artifact than a fresh lookup
\* would find (the comment on pins in generate_selected, remove, clear).
VerifiesWhatItMade ==
  /\ \A r \in readings : r.by = "verifier" /\ r.name \in Range(pair) => r.source = "new"
  /\ \A r \in cached :
       r.source = Lookup(r.name) \/ (stage \in {"verify", "release", "failed"} /\ r \in Pinned)
===============================================================================
