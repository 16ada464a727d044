------------------------------ MODULE FrameCache ------------------------------
(***************************************************************************)
(* The frame cache shared by probing and verification threads               *)
(* (SharedFileCache of egt_file.rs).                                        *)
(*                                                                          *)
(* Three kinds of locks protect it: the registry's RwLock (table names to   *)
(* open files), one RwLock per file (its resident frames) and the mutex of  *)
(* the accounting (which frames are resident, how recently they were used   *)
(* and how many bytes they take).  The file locks are explicit, as they are *)
(* held across steps.  The mutex and, but for remove, the registry's lock   *)
(* are held for one step only.                                              *)
(*                                                                          *)
(* A file is its address.  Its memory is reused once no Arc and no Weak     *)
(* points to it.  A frame is what a read decompresses; frame indices of all *)
(* tables are the same small set.                                           *)
(***************************************************************************)
EXTENDS Integers, FiniteSets, FiniteSetsExt

CONSTANTS
  Thread,
  Table,      \* canonical table names
  File,       \* addresses of open files
  Frame,      \* frame indices
  Bytes,      \* frame_bytes of each frame
  Budgets,    \* the cache sizes assigned; Unlimited is None
  Unlimited,
  NoFile,
  Admin,      \* the operations besides probes that threads perform
  MaxOps      \* bound: the number of operations started

ASSUME TableAssumption == Table # {}
ASSUME FrameAssumption == IsFiniteSet(Frame) /\ Frame \subseteq Nat
ASSUME BytesAssumption == Bytes \in [Frame -> Nat \ {0}]
ASSUME BudgetAssumption == Budgets \subseteq Nat \cup {Unlimited}
                           /\ Unlimited \notin Nat
ASSUME FileAssumption == IsFiniteSet(File) /\ NoFile \notin File
ASSUME AdminAssumption == Admin \subseteq {"insert", "remove", "clear", "resize"}
ASSUME MaxOpsAssumption == MaxOps \in Nat

Key == File \X Frame      \* FrameKey

VARIABLES
  registry,   \* files: the open file of each table
  frames,     \* EgtFileReader.frames: the resident frames of each file
  readers, writer,        \* the RwLock of each file
  assigned, resident, clock,
  lastUsed,   \* CacheMemory.frames: the last use of each entry, 0 if absent
  pc,
  table, batch, want,     \* per thread: the request
  hold,       \* the Arc<RwLock<EgtFileReader>> the operation owns
  todo,       \* the accesses it has still to record
  victim,     \* the entry enforce_limit has chosen, and its last use
  internalError,          \* some operation returned EgtError::Internal
  ops

memory == <<assigned, resident, clock, lastUsed>>
locks == <<readers, writer>>
request == <<table, batch, want>>
vars == <<registry, frames, locks, memory, pc, request, hold, todo, victim,
          internalError, ops>>

NoVictim == [key |-> <<>>, used |-> 0]

-------------------------------------------------------------------------------
(* Ownership.                                                               *)

\* Weak::upgrade succeeds: the registry or a thread owns the file.
Live(f) ==
  \/ \E n \in Table : registry[n] = f
  \/ \E t \in Thread : hold[t] = f \/ (pc[t] = "evict" /\ victim[t].key[1] = f)

\* The address can be reused: nothing refers to it, not even weakly.
Reusable(f) ==
  /\ ~ Live(f)
  /\ \A i \in Frame : lastUsed[<<f, i>>] = 0
  /\ \A t \in Thread : victim[t] # NoVictim => victim[t].key[1] # f

\* remove holds the registry's lock until it has forgotten the file.
RegistryFree == \A t \in Thread : pc[t] # "remove"

Init ==
  /\ registry = [n \in Table |-> NoFile]
  /\ frames = [f \in File |-> {}]
  /\ readers = [f \in File |-> {}] /\ writer = [f \in File |-> {}]
  /\ assigned \in Budgets /\ resident = 0 /\ clock = 0
  /\ lastUsed = [k \in Key |-> 0]
  /\ pc = [t \in Thread |-> "idle"]
  /\ table \in [Thread -> {CHOOSE n \in Table : TRUE}]
  /\ batch = [t \in Thread |-> FALSE] /\ want = [t \in Thread |-> {}]
  /\ hold = [t \in Thread |-> NoFile] /\ todo = [t \in Thread |-> {}]
  /\ victim = [t \in Thread |-> NoVictim]
  /\ internalError = FALSE /\ ops = 0

Begin(t) == pc[t] = "idle" /\ ops < MaxOps /\ ops' = ops + 1

\* The operation returns, dropping its Arc and its request.
Return(t) ==
  /\ pc' = [pc EXCEPT ![t] = "idle"]
  /\ hold' = [hold EXCEPT ![t] = NoFile]
  /\ victim' = [victim EXCEPT ![t] = NoVictim]
  /\ todo' = [todo EXCEPT ![t] = {}] /\ want' = [want EXCEPT ![t] = {}]
  /\ batch' = [batch EXCEPT ![t] = FALSE]

-------------------------------------------------------------------------------
(* Finding the file: SharedFileCache::file.                                 *)

\* probe_routed and read_chunk want one frame; a group of
\* probe_direct_outcomes wants the frames of its positions.
BeginProbe(t) ==
  /\ Begin(t)
  /\ \E n \in Table, b \in BOOLEAN, w \in SUBSET Frame \ {{}} :
       /\ b \/ Cardinality(w) = 1
       /\ table' = [table EXCEPT ![t] = n]
       /\ batch' = [batch EXCEPT ![t] = b]
       /\ want' = [want EXCEPT ![t] = w]
  /\ pc' = [pc EXCEPT ![t] = "lookup"]
  /\ UNCHANGED <<registry, frames, locks, memory, hold, todo, victim,
                 internalError>>

\* Under the read lock: an open file, or none.
Lookup(t) ==
  /\ pc[t] = "lookup" /\ RegistryFree
  /\ hold' = [hold EXCEPT ![t] = registry[table[t]]]
  /\ pc' = [pc EXCEPT ![t] = IF registry[table[t]] = NoFile THEN "open" ELSE "read"]
  /\ UNCHANGED <<registry, frames, locks, memory, request, todo, victim,
                 internalError, ops>>

\* Another thread has opened the file since the lookup.
OpenedMeanwhile(t) ==
  /\ pc[t] = "open" /\ RegistryFree /\ registry[table[t]] # NoFile
  /\ hold' = [hold EXCEPT ![t] = registry[table[t]]]
  /\ pc' = [pc EXCEPT ![t] = "read"]
  /\ UNCHANGED <<registry, frames, locks, memory, request, todo, victim,
                 internalError, ops>>

\* Faulty: the registry is not rechecked under the write lock.
OpenFileFaulty(t) ==
  /\ pc[t] = "open" /\ RegistryFree
  /\ \E f \in File :
       /\ Reusable(f)
       /\ registry' = [registry EXCEPT ![table[t]] = f]
       /\ frames' = [frames EXCEPT ![f] = {}]
       /\ hold' = [hold EXCEPT ![t] = f]
  /\ pc' = [pc EXCEPT ![t] = "read"]
  /\ UNCHANGED <<locks, memory, request, todo, victim, internalError, ops>>

\* Under the write lock: open the file, cold.
OpenFile(t) ==
  /\ pc[t] = "open" /\ RegistryFree /\ registry[table[t]] = NoFile
  /\ \E f \in File :
       /\ Reusable(f)
       /\ registry' = [registry EXCEPT ![table[t]] = f]
       /\ frames' = [frames EXCEPT ![f] = {}]
       /\ hold' = [hold EXCEPT ![t] = f]
  /\ pc' = [pc EXCEPT ![t] = "read"]
  /\ UNCHANGED <<locks, memory, request, todo, victim, internalError, ops>>

\* The table is missing, or its seek table cannot be read.
OpenFails(t) ==
  /\ pc[t] = "open" /\ RegistryFree /\ registry[table[t]] = NoFile
  /\ Return(t)
  /\ UNCHANGED <<registry, frames, locks, memory, table, internalError, ops>>

-------------------------------------------------------------------------------
(* Reading the frames.                                                      *)

\* Faulty: the access is recorded after the file's lock is released.
ReadWarmFaulty(t) ==
  /\ pc[t] = "read" /\ writer[hold[t]] = {} /\ want[t] \subseteq frames[hold[t]]
  /\ todo' = [todo EXCEPT ![t] = want[t]]
  /\ pc' = [pc EXCEPT ![t] = "record"]
  /\ UNCHANGED <<registry, frames, locks, memory, request, hold, victim,
                 internalError, ops>>

\* All frames are resident: copy the outcomes and keep the read lock until the
\* accesses are recorded.
ReadWarm(t) ==
  /\ pc[t] = "read" /\ writer[hold[t]] = {} /\ want[t] \subseteq frames[hold[t]]
  /\ readers' = [readers EXCEPT ![hold[t]] = @ \cup {t}]
  /\ todo' = [todo EXCEPT ![t] = want[t]]
  /\ pc' = [pc EXCEPT ![t] = "record"]
  /\ UNCHANGED <<registry, frames, writer, memory, request, hold, victim,
                 internalError, ops>>

\* Some frame is cold: release the read lock and ask for the write lock.
ReadCold(t) ==
  /\ pc[t] = "read" /\ writer[hold[t]] = {} /\ ~ want[t] \subseteq frames[hold[t]]
  /\ pc' = [pc EXCEPT ![t] = "load"]
  /\ UNCHANGED <<registry, frames, locks, memory, request, hold, todo, victim,
                 internalError, ops>>

WriteFree(f) == writer[f] = {} /\ readers[f] = {}

\* The frames a read of the missing ones may install: all of them or, when a
\* decode fails, those before it in order.
Installed(missing) == {{i \in missing : i < k} : k \in missing}

\* Under the write lock, load the frames still missing; keep the lock until
\* the accesses are recorded.
Load(t) ==
  /\ pc[t] = "load" /\ WriteFree(hold[t])
  /\ writer' = [writer EXCEPT ![hold[t]] = {t}]
  /\ frames' = [frames EXCEPT ![hold[t]] = @ \cup want[t]]
  /\ todo' = [todo EXCEPT ![t] = want[t]]
  /\ pc' = [pc EXCEPT ![t] = "record"]
  /\ UNCHANGED <<registry, readers, memory, request, hold, victim,
                 internalError, ops>>

\* Faulty: after a failed batch the frames it installed are not recorded.
BatchFailsFaulty(t) ==
  /\ pc[t] = "load" /\ WriteFree(hold[t]) /\ batch[t]
  /\ \E new \in Installed(want[t] \ frames[hold[t]]) :
       frames' = [frames EXCEPT ![hold[t]] = @ \cup new]
  /\ pc' = [pc EXCEPT ![t] = "enforce"]
  /\ UNCHANGED <<registry, locks, memory, request, hold, todo, victim,
                 internalError, ops>>

\* A batch fails: its frames that are resident are recorded all the same.
BatchFails(t) ==
  /\ pc[t] = "load" /\ WriteFree(hold[t]) /\ batch[t]
  /\ \E new \in Installed(want[t] \ frames[hold[t]]) :
       LET left == want[t] \cap (frames[hold[t]] \cup new)
       IN /\ frames' = [frames EXCEPT ![hold[t]] = @ \cup new]
          /\ todo' = [todo EXCEPT ![t] = left]
          /\ IF left = {}
               THEN pc' = [pc EXCEPT ![t] = "enforce"] /\ writer' = writer
               ELSE /\ pc' = [pc EXCEPT ![t] = "record"]
                    /\ writer' = [writer EXCEPT ![hold[t]] = {t}]
  /\ UNCHANGED <<registry, readers, memory, request, hold, victim,
                 internalError, ops>>

\* A single read fails: the error is returned at once.
ProbeFails(t) ==
  /\ pc[t] = "load" /\ WriteFree(hold[t]) /\ ~ batch[t]
  /\ ~ want[t] \subseteq frames[hold[t]]
  /\ Return(t)
  /\ UNCHANGED <<registry, frames, locks, memory, table, internalError, ops>>

\* Faulty: the bytes of a frame are added at every access.
AccountFaulty(k) ==
  /\ clock' = clock + 1
  /\ lastUsed' = [lastUsed EXCEPT ![k] = clock + 1]
  /\ resident' = resident + Bytes[k[2]]

\* record_access: the entry becomes the most recently used, and its bytes are
\* added when it is new.
Account(k) ==
  /\ clock' = clock + 1
  /\ lastUsed' = [lastUsed EXCEPT ![k] = clock + 1]
  /\ resident' = IF lastUsed[k] = 0 THEN resident + Bytes[k[2]] ELSE resident

OverBudget(bytes) == assigned # Unlimited /\ bytes > assigned

\* Faulty: the budget is compared with the bytes before this access.
MustEnforceFaulty(t) == batch[t] \/ OverBudget(resident)

\* A batch always goes on to enforce_limit, a single probe if it is told to.
MustEnforce(t) == batch[t] \/ OverBudget(resident')

\* Record one access.  The last one releases the file's lock.
Record(t) ==
  /\ pc[t] = "record"
  /\ \E i \in todo[t] :
       /\ \A j \in todo[t] : i <= j
       /\ Account(<<hold[t], i>>)
       /\ IF todo[t] # {i}
            THEN /\ todo' = [todo EXCEPT ![t] = @ \ {i}]
                 /\ UNCHANGED <<locks, pc, batch, want, hold, victim>>
            ELSE /\ readers' = [readers EXCEPT ![hold[t]] = @ \ {t}]
                 /\ writer' = [writer EXCEPT ![hold[t]] = @ \ {t}]
                 /\ IF MustEnforce(t)
                      THEN /\ todo' = [todo EXCEPT ![t] = {}]
                           /\ pc' = [pc EXCEPT ![t] = "enforce"]
                           /\ UNCHANGED <<batch, want, hold, victim>>
                      ELSE Return(t)
  /\ UNCHANGED <<registry, frames, assigned, table, internalError, ops>>

-------------------------------------------------------------------------------
(* enforce_limit.                                                           *)

Entries == {k \in Key : lastUsed[k] # 0}

WithinBudget(t) ==
  /\ pc[t] = "enforce" /\ ~ OverBudget(resident)
  /\ Return(t)
  /\ UNCHANGED <<registry, frames, locks, memory, table, internalError, ops>>

\* Faulty: the budget must be undercut.
ChooseVictimFaulty(t) ==
  /\ pc[t] = "enforce" /\ assigned # Unlimited /\ resident >= assigned
  /\ \E k \in Entries :
       /\ \A j \in Entries : lastUsed[k] <= lastUsed[j]
       /\ victim' = [victim EXCEPT ![t] = [key |-> k, used |-> lastUsed[k]]]
  /\ pc' = [pc EXCEPT ![t] = "upgrade"]
  /\ UNCHANGED <<registry, frames, locks, memory, request, hold, todo,
                 internalError, ops>>

\* Under the mutex, choose the least recently used entry; without one, the
\* error is "cache accounting has no evictable frame".
ChooseVictim(t) ==
  /\ pc[t] = "enforce" /\ OverBudget(resident)
  /\ IF Entries = {}
       THEN internalError' = TRUE /\ Return(t)
       ELSE /\ \E k \in Entries :
                 /\ \A j \in Entries : lastUsed[k] <= lastUsed[j]
                 /\ victim' = [victim EXCEPT ![t] = [key |-> k, used |-> lastUsed[k]]]
            /\ pc' = [pc EXCEPT ![t] = "upgrade"]
            /\ UNCHANGED <<batch, want, hold, todo, internalError>>
  /\ UNCHANGED <<registry, frames, locks, memory, table, ops>>

Upgrade(t) ==
  /\ pc[t] = "upgrade" /\ Live(victim[t].key[1])
  /\ pc' = [pc EXCEPT ![t] = "evict"]
  /\ UNCHANGED <<registry, frames, locks, memory, request, hold, todo, victim,
                 internalError, ops>>

\* Nobody owns the file any more: its entry will be dropped.
UpgradeFails(t) ==
  /\ pc[t] = "upgrade" /\ ~ Live(victim[t].key[1])
  /\ pc' = [pc EXCEPT ![t] = "drop"]
  /\ UNCHANGED <<registry, frames, locks, memory, request, hold, todo, victim,
                 internalError, ops>>

\* The entry is still the one that was chosen.
StillChosen(t) == lastUsed[victim[t].key] = victim[t].used

Discard(k) ==
  /\ lastUsed' = [lastUsed EXCEPT ![k] = 0]
  /\ resident' = resident - Bytes[k[2]]

\* Back to the head of enforce_limit's loop.
Loop(t) ==
  /\ pc' = [pc EXCEPT ![t] = "enforce"]
  /\ victim' = [victim EXCEPT ![t] = NoVictim]

\* Faulty: the entry of a file that is gone is left in place.
DropStaleFaulty(t) ==
  /\ pc[t] = "drop"
  /\ Loop(t)
  /\ UNCHANGED <<registry, frames, locks, memory, request, hold, todo,
                 internalError, ops>>

DropStale(t) ==
  /\ pc[t] = "drop"
  /\ IF StillChosen(t)
       THEN Discard(victim[t].key)
       ELSE UNCHANGED <<lastUsed, resident>>
  /\ Loop(t)
  /\ UNCHANGED <<registry, frames, locks, assigned, clock, request, hold, todo,
                 internalError, ops>>

\* Faulty: the entry only has to exist, not to be as it was when chosen.
EvictFaulty(t) ==
  LET k == victim[t].key
  IN /\ pc[t] = "evict" /\ WriteFree(k[1])
     /\ lastUsed[k] # 0 /\ k[2] \in frames[k[1]]
     /\ frames' = [frames EXCEPT ![k[1]] = @ \ {k[2]}]
     /\ Discard(k)
     /\ Loop(t)
     /\ UNCHANGED <<registry, locks, assigned, clock, request, hold, todo,
                    internalError, ops>>

\* Under the file's write lock and the mutex, the chosen entry is evicted; the
\* error is "cached frame is not disk-backed and resident".
Evict(t) ==
  LET k == victim[t].key
  IN /\ pc[t] = "evict" /\ WriteFree(k[1]) /\ StillChosen(t)
     /\ IF k[2] \notin frames[k[1]]
          THEN internalError' = TRUE /\ Return(t) /\ UNCHANGED <<frames, memory>>
          ELSE /\ frames' = [frames EXCEPT ![k[1]] = @ \ {k[2]}]
               /\ Discard(k)
               /\ Loop(t)
               /\ UNCHANGED <<assigned, clock, batch, want, hold, todo, internalError>>
     /\ UNCHANGED <<registry, locks, table, ops>>

\* It has been used, evicted or forgotten since: choose again.
EvictTouched(t) ==
  /\ pc[t] = "evict" /\ WriteFree(victim[t].key[1]) /\ ~ StillChosen(t)
  /\ Loop(t)
  /\ UNCHANGED <<registry, frames, locks, memory, request, hold, todo,
                 internalError, ops>>

-------------------------------------------------------------------------------
(* The other operations.                                                    *)

\* insert: a published file, cold, replaces the one registered.
Insert(t) ==
  /\ "insert" \in Admin /\ Begin(t) /\ RegistryFree
  /\ \E n \in Table, f \in File :
       /\ Reusable(f)
       /\ registry' = [registry EXCEPT ![n] = f]
       /\ frames' = [frames EXCEPT ![f] = {}]
       /\ hold' = [hold EXCEPT ![t] = registry[n]]
       /\ pc' = [pc EXCEPT ![t] = IF registry[n] = NoFile THEN "idle" ELSE "insert"]
  /\ UNCHANGED <<locks, memory, request, todo, victim, internalError>>

\* remove of a registered name; it keeps the registry's lock.
Remove(t) ==
  /\ "remove" \in Admin /\ Begin(t) /\ RegistryFree
  /\ \E n \in Table :
       /\ registry[n] # NoFile
       /\ registry' = [registry EXCEPT ![n] = NoFile]
       /\ hold' = [hold EXCEPT ![t] = registry[n]]
  /\ pc' = [pc EXCEPT ![t] = "remove"]
  /\ UNCHANGED <<frames, locks, memory, request, todo, victim, internalError>>

BytesOf(keys) == MapThenSumSet(LAMBDA k : Bytes[k[2]], keys)

EntriesOf(f) == {k \in Entries : k[1] = f}

Released(f) == BytesOf(EntriesOf(f))

\* forget_file, the second step of insert and remove.
Forget(t) ==
  /\ pc[t] \in {"insert", "remove"}
  /\ resident' = resident - Released(hold[t])
  /\ lastUsed' = [k \in Key |-> IF k[1] = hold[t] THEN 0 ELSE lastUsed[k]]
  /\ Return(t)
  /\ UNCHANGED <<registry, frames, locks, assigned, clock, table, internalError,
                 ops>>

\* clear, "call after workers join".
Clear(t) ==
  /\ "clear" \in Admin /\ Begin(t) /\ \A u \in Thread : pc[u] = "idle"
  /\ registry' = [n \in Table |-> NoFile]
  /\ lastUsed' = [k \in Key |-> 0] /\ resident' = 0
  /\ UNCHANGED <<frames, locks, assigned, clock, pc, request, hold, todo, victim,
                 internalError>>

\* set_cache_size: a new budget, then enforce_limit.
Resize(t) ==
  /\ "resize" \in Admin /\ Begin(t)
  /\ assigned' \in Budgets \ {Unlimited}
  /\ pc' = [pc EXCEPT ![t] = "enforce"]
  /\ UNCHANGED <<registry, frames, locks, resident, clock, lastUsed, request,
                 hold, todo, victim, internalError>>

-------------------------------------------------------------------------------
\* The steps of an operation already begun.
Step(t) ==
  \/ Lookup(t) \/ OpenedMeanwhile(t) \/ OpenFile(t) \/ OpenFails(t)
  \/ ReadWarm(t) \/ ReadCold(t) \/ Load(t) \/ BatchFails(t) \/ ProbeFails(t)
  \/ Record(t) \/ WithinBudget(t) \/ ChooseVictim(t)
  \/ Upgrade(t) \/ UpgradeFails(t) \/ DropStale(t)
  \/ Evict(t) \/ EvictTouched(t) \/ Forget(t)

Start(t) == BeginProbe(t) \/ Insert(t) \/ Remove(t) \/ Clear(t) \/ Resize(t)

\* Every operation has returned and the bound on their number is reached.
Quiet ==
  /\ ops = MaxOps /\ \A t \in Thread : pc[t] = "idle"
  /\ UNCHANGED vars

Next == (\E t \in Thread : Start(t) \/ Step(t)) \/ Quiet

\* A thread that can take a step of its operation is eventually scheduled.
Fairness == \A t \in Thread : WF_vars(Step(t))

Spec == Init /\ [][Next]_vars
FairSpec == Spec /\ Fairness

-------------------------------------------------------------------------------
(* Properties.                                                              *)

TypeOK ==
  /\ registry \in [Table -> File \cup {NoFile}]
  /\ frames \in [File -> SUBSET Frame]
  /\ readers \in [File -> SUBSET Thread] /\ writer \in [File -> SUBSET Thread]
  /\ assigned \in Budgets /\ resident \in Nat /\ clock \in Nat
  /\ lastUsed \in [Key -> Nat]
  /\ pc \in [Thread -> {"idle", "lookup", "open", "read", "load", "record",
                        "enforce", "upgrade", "drop", "evict", "insert", "remove"}]
  /\ table \in [Thread -> Table] /\ batch \in [Thread -> BOOLEAN]
  /\ want \in [Thread -> SUBSET Frame] /\ todo \in [Thread -> SUBSET Frame]
  /\ hold \in [Thread -> File \cup {NoFile}]
  /\ victim \in [Thread -> [key : Key, used : Nat] \cup {NoVictim}]
  /\ internalError \in BOOLEAN /\ ops \in 0 .. MaxOps

\* The bytes counted as resident are those of the entries, through every race
\* of accesses, evictions and forgotten files: the count neither drifts nor
\* underflows.
ResidentExact == resident = BytesOf(Entries)

\* An entry stands for a frame that is in memory, so the check enforce_limit
\* makes under both locks ("cached frame is not disk-backed and resident")
\* cannot fail although it chose its victim without the file's lock: no operation
\* returns one of its internal errors.
EntriesResident == ~ internalError /\ \A k \in Entries : k[2] \in frames[k[1]]

\* No frame of a registered file is in memory uncounted, but for those a thread
\* is about to record under the write lock, even when decoding fails midway.
EveryFrameCounted ==
  \A n \in Table : registry[n] # NoFile =>
    \A i \in frames[registry[n]] :
      lastUsed[<<registry[n], i>>] # 0 \/ writer[registry[n]] # {}

Retained == UNION {{registry[n]} \X frames[registry[n]] :
                     n \in {m \in Table : registry[m] # NoFile}}

\* "The assigned memory bounds retained frames between operations"
\* (egt_file.rs:153): once every operation has returned, the frames kept in
\* memory fit the budget, whoever exceeded it and whoever evicted.
BudgetBetweenOperations ==
  (\A t \in Thread : pc[t] = "idle") => ~ OverBudget(BytesOf(Retained))

Evicted(k) == lastUsed[k] # 0 /\ k[2] \in frames[k[1]] \ frames'[k[1]]

\* The frame evicted is the least recently used when it is evicted, although it
\* was chosen earlier, before waiting for the file's lock.
EvictsLeastRecentlyUsed ==
  [][\A k \in Key : Evicted(k) =>
       \A j \in Entries : lastUsed[k] <= lastUsed[j]]_vars

\* Threads that enforce the budget together do not evict more than one alone:
\* a frame is only evicted while the budget is exceeded.
EvictsOnlyOverBudget ==
  [][(\E k \in Key : Evicted(k)) => OverBudget(resident)]_vars

\* "Serialize loading so racing workers never allocate duplicate files"
\* (egt_file.rs:211): only insert, remove and clear change a registered entry;
\* a probe neither opens a table twice nor shadows a pinned output.
RegisteredOnce ==
  [][\A n \in Table : registry[n] # NoFile /\ registry'[n] # registry[n]
       => ops' # ops]_vars

\* Every operation returns: enforce_limit does not choose victims for ever, and
\* the file locks are not waited for in a cycle.
OperationsReturn == \A t \in Thread : pc[t] # "idle" ~> pc[t] = "idle"
================================================================================
