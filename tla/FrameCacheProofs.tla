--------------------------- MODULE FrameCacheProofs ---------------------------
(***************************************************************************)
(* Theorems about FrameCache, for any finite sets of files and frames, any   *)
(* number of threads and tables and any budgets.                            *)
(*                                                                          *)
(* The inductive invariant CacheInv adds to the properties who holds which   *)
(* lock and file in each step of an operation, and what stays true of a      *)
(* victim while the thread that chose it waits for the file's lock.          *)
(***************************************************************************)
EXTENDS FrameCache, FiniteSums, TLAPS

-------------------------------------------------------------------------------
(* The inductive invariant.                                                 *)

\* The places where a thread holds a file, serves a request, has a victim.
Holding == {"read", "load", "record", "insert", "remove"}
Requesting == {"lookup", "open", "read", "load", "record"}
Chosen == {"upgrade", "drop", "evict"}

\* A thread that works on frames has a file in hand.
OwnsFile == \A t \in Thread : pc[t] \in Holding => hold[t] \in File

\* A file's lock is held from its frames being found or loaded to the last access
\* being recorded, by one writer or by readers.
LocksHeld ==
  /\ \A f \in File, t \in Thread :
       t \in readers[f] \cup writer[f] => pc[t] = "record" /\ hold[t] = f
  /\ \A f \in File, t \in Thread :
       t \in writer[f] => readers[f] = {} /\ writer[f] = {t}
  /\ \A t \in Thread : pc[t] = "record" => t \in readers[hold[t]] \cup writer[hold[t]]

\* What is still to be recorded was asked for, and is in memory.
RecordsWanted ==
  \A t \in Thread : pc[t] = "record" => todo[t] \subseteq want[t] \cap frames[hold[t]]

\* Only batches ask for several frames.
SingleFrame ==
  \A t \in Thread : pc[t] \in Requesting /\ ~ batch[t] => \E i \in Frame : want[t] = {i}

\* The clock orders the accesses.
Clocked ==
  /\ \A k \in Key : lastUsed[k] <= clock
  /\ \A j, k \in Entries : lastUsed[j] = lastUsed[k] => j = k

\* Whatever is used, evicted or forgotten since, no entry is older than a chosen victim.
VictimOldest ==
  \A t \in Thread : pc[t] \in Chosen =>
    /\ victim[t] \in [key : Key, used : Nat \ {0}]
    /\ victim[t].used <= clock
    /\ \A k \in Entries : victim[t].used <= lastUsed[k]

\* Entries are dropped unseen only for files nobody can reach.
DroppedGone == \A t \in Thread : pc[t] = "drop" => ~ Live(victim[t].key[1])

\* Two tables never share a file, nor one with a file coming or going.
RegistryDistinct ==
  /\ \A m, n \in Table : registry[m] # NoFile /\ registry[m] = registry[n] => m = n
  /\ \A t \in Thread, n \in Table :
       pc[t] \in {"insert", "remove"} => registry[n] # hold[t]

Counted ==
  \A n \in Table : registry[n] # NoFile =>
    \A i \in frames[registry[n]] :
      \/ lastUsed[<<registry[n], i>>] # 0
      \/ \E t \in writer[registry[n]] : i \in todo[t]

SomeoneEnforces ==
  OverBudget(resident) =>
    \E t \in Thread : pc[t] \in {"enforce"} \cup Chosen \/ (pc[t] = "record" /\ batch[t])

CacheInv ==
  /\ TypeOK /\ OwnsFile /\ LocksHeld /\ RecordsWanted /\ SingleFrame
  /\ Clocked /\ VictimOldest /\ DroppedGone /\ RegistryDistinct
  /\ ResidentExact /\ EntriesResident /\ Counted /\ SomeoneEnforces

-------------------------------------------------------------------------------
(* The bytes of a set of entries.                                           *)

FrameBytes == [k \in Key |-> Bytes[k[2]]]

\* The fold BytesOf is defined by, as a recursive function on subsets.
LEMMA BytesOfUnfolded ==
  ASSUME NEW S
  PROVE  BytesOf(S) =
           (CHOOSE g : g = [s \in SUBSET S |->
              IF s = {} THEN 0 ELSE Bytes[Pick(s)[2]] + g[s \ {Pick(s)}]])[S]
BY DEF BytesOf, MapThenSumSet, MapThenFoldSet, Pick

\* The bytes of a set of keys are the sum of their frames' sizes.
LEMMA BytesOfKeys ==
  ASSUME NEW S \in SUBSET Key PROVE BytesOf(S) = SumOf(FrameBytes, S)
<1> DEFINE F(g) == [s \in SUBSET S |->
                      IF s = {} THEN 0 ELSE Bytes[Pick(s)[2]] + g[s \ {Pick(s)}]]
<1>1. BytesOf(S) = (CHOOSE g : g = F(g))[S]
  BY BytesOfUnfolded
<1>2. SumOf(FrameBytes, S) = (CHOOSE g : SumsAllSubsets(g, FrameBytes, S))[S]
  BY SumOfUnfolded
<1>3. \A s \in SUBSET S : s # {} => FrameBytes[Pick(s)] = Bytes[Pick(s)[2]]
  BY PickInSet DEF FrameBytes
<1>4. \A g : SumsAllSubsets(g, FrameBytes, S) <=> g = F(g)
  BY <1>3 DEF SumsAllSubsets
<1>5. (CHOOSE g : SumsAllSubsets(g, FrameBytes, S)) = (CHOOSE g : g = F(g))
  <2> HIDE DEF F
  <2> QED
    BY <1>4
<1> QED
  BY <1>1, <1>2, <1>5

\* Sets of keys are finite, so that they have a sum.
LEMMA KeysFinite ==
  ASSUME NEW S \in SUBSET Key
  PROVE  S \subseteq Key /\ IsFiniteSet(S) /\ FrameBytes \in [Key -> Nat]
<1>1. IsFiniteSet(Key)
  BY FS_Product, FrameAssumption, FileAssumption DEF Key
<1>2. IsFiniteSet(S)
  BY <1>1, FS_Subset
<1>3. FrameBytes \in [Key -> Nat]
  BY BytesAssumption DEF FrameBytes, Key
<1> QED
  BY <1>2, <1>3

\* Bytes are natural numbers.
LEMMA BytesOfNat ==
  ASSUME NEW S \in SUBSET Key PROVE BytesOf(S) \in Nat
BY KeysFinite, BytesOfKeys, SumOfNat

\* No entries, no bytes.
LEMMA BytesOfNone == BytesOf({}) = 0
BY BytesOfKeys, SumOfEmpty

\* A new entry adds the bytes of its frame.
LEMMA BytesOfAdded ==
  ASSUME NEW S \in SUBSET Key, NEW k \in Key, k \notin S
  PROVE  BytesOf(S \cup {k}) = BytesOf(S) + Bytes[k[2]]
<1>1. S \cup {k} \in SUBSET Key
  OBVIOUS
<1>2. SumOf(FrameBytes, S \cup {k}) = SumOf(FrameBytes, S) + FrameBytes[k]
  BY KeysFinite, SumOfAdd
<1> QED
  BY <1>1, <1>2, BytesOfKeys DEF FrameBytes

\* An entry evicted takes the bytes of its frame away.
LEMMA BytesOfRemoved ==
  ASSUME NEW S \in SUBSET Key, NEW k \in S
  PROVE  BytesOf(S \ {k}) = BytesOf(S) - Bytes[k[2]]
<1> DEFINE T == S \ {k}
<1>1. T \in SUBSET Key /\ k \in Key /\ k \notin T /\ S = T \cup {k}
  OBVIOUS
<1> HIDE DEF T
<1>2. BytesOf(S) = BytesOf(T) + Bytes[k[2]]
  BY <1>1, BytesOfAdded
<1>3. BytesOf(T) \in Nat /\ Bytes[k[2]] \in Nat
  BY <1>1, BytesOfNat, BytesAssumption DEF Key
<1>4. BytesOf(T) = BytesOf(S) - Bytes[k[2]]
  BY <1>2, <1>3
<1> QED
  BY <1>4 DEF T

\* So does a set of entries, as when a file is forgotten.
LEMMA BytesOfSplit ==
  ASSUME NEW S \in SUBSET Key, NEW T \in SUBSET S
  PROVE  BytesOf(S \ T) = BytesOf(S) - BytesOf(T) /\ BytesOf(T) <= BytesOf(S)
<1> DEFINE U == S \ T
<1>1. U \in SUBSET Key /\ T \in SUBSET Key /\ U \cap T = {} /\ S = U \cup T
  OBVIOUS
<1> HIDE DEF U
<1>2. SumOf(FrameBytes, U \cup T) = SumOf(FrameBytes, U) + SumOf(FrameBytes, T)
  BY <1>1, KeysFinite, SumOfDisjoint
<1>3. BytesOf(S) = BytesOf(U) + BytesOf(T)
  BY <1>1, <1>2, BytesOfKeys
<1>4. BytesOf(U) \in Nat /\ BytesOf(T) \in Nat
  BY <1>1, BytesOfNat
<1>5. BytesOf(U) = BytesOf(S) - BytesOf(T) /\ BytesOf(T) <= BytesOf(S)
  BY <1>3, <1>4
<1> QED
  BY <1>5 DEF U

-------------------------------------------------------------------------------
(* The initial states.                                                      *)

\* Entries are keys.
LEMMA EntriesAreKeys == Entries \in SUBSET Key
BY DEF Entries

\* An empty cache satisfies the invariant.
LEMMA InitHolds == Init => CacheInv
<1> SUFFICES ASSUME Init PROVE CacheInv
  OBVIOUS
<1>1. Entries = {}
  BY DEF Init, Entries
<1>2. TypeOK
  <2>1. (CHOOSE n \in Table : TRUE) \in Table
    BY TableAssumption
  <2>2. table \in [Thread -> Table]
    BY <2>1 DEF Init
  <2>3. victim \in [Thread -> [key : Key, used : Nat] \cup {NoVictim}]
    BY DEF Init
  <2>4. /\ registry \in [Table -> File \cup {NoFile}]
        /\ frames \in [File -> SUBSET Frame]
        /\ readers \in [File -> SUBSET Thread] /\ writer \in [File -> SUBSET Thread]
    BY DEF Init
  <2>5. assigned \in Budgets /\ resident \in Nat /\ clock \in Nat /\ lastUsed \in [Key -> Nat]
    BY DEF Init
  <2>6. /\ pc \in [Thread -> {"idle"}]
        /\ batch \in [Thread -> BOOLEAN] /\ want \in [Thread -> SUBSET Frame]
        /\ todo \in [Thread -> SUBSET Frame] /\ hold \in [Thread -> File \cup {NoFile}]
    BY DEF Init
  <2>7. internalError = FALSE
    BY DEF Init
  <2>8. ops \in 0 .. MaxOps
    BY MaxOpsAssumption DEF Init
  <2> QED
    BY <2>2, <2>3, <2>4, <2>5, <2>6, <2>7, <2>8 DEF TypeOK
<1>3. ResidentExact
  BY <1>1, BytesOfNone DEF Init, ResidentExact
<1>4. ~ OverBudget(resident)
  BY BudgetAssumption DEF Init, OverBudget
<1> QED
  BY <1>1, <1>2, <1>3, <1>4
     DEF Init, CacheInv, OwnsFile, LocksHeld, RecordsWanted, SingleFrame, Clocked,
         VictimOldest, DroppedGone, RegistryDistinct, EntriesResident, Counted,
         SomeoneEnforces, Holding, Requesting, Chosen

-------------------------------------------------------------------------------
(* What a step does to the accounting.                                      *)

Recorded(t) ==
  \E i \in todo[t] : /\ pc[t] = "record" /\ Account(<<hold[t], i>>)
                     /\ UNCHANGED assigned

Discarded(t) ==
  /\ pc[t] \in {"drop", "evict"} /\ StillChosen(t) /\ Discard(victim[t].key)
  /\ UNCHANGED <<assigned, clock>>

Forgotten(t) ==
  /\ pc[t] \in {"insert", "remove"}
  /\ resident' = resident - Released(hold[t])
  /\ lastUsed' = [k \in Key |-> IF k[1] = hold[t] THEN 0 ELSE lastUsed[k]]
  /\ UNCHANGED <<assigned, clock>>

Cleared == lastUsed' = [k \in Key |-> 0] /\ resident' = 0 /\ UNCHANGED <<assigned, clock>>

Resized == assigned' \in Budgets \ {Unlimited} /\ UNCHANGED <<resident, clock, lastUsed>>

\* The five ways a step changes the accounting, and which steps they are.
LEMMA MemoryStep ==
  ASSUME NEW t \in Thread, Start(t) \/ Step(t)
  PROVE  \/ UNCHANGED memory
         \/ Recorded(t) /\ Record(t)
         \/ Discarded(t) /\ (DropStale(t) \/ Evict(t))
         \/ Forgotten(t) /\ Forget(t)
         \/ Cleared /\ Clear(t)
         \/ Resized /\ Resize(t)
<1> USE DEF memory
<1>1. CASE Start(t)
  BY <1>1 DEF Start, BeginProbe, Insert, Remove, Clear, Resize, Cleared, Resized
<1>2. ASSUME Record(t) PROVE Recorded(t)
  BY <1>2 DEF Record, Recorded
<1>3. ASSUME DropStale(t) \/ Evict(t) PROVE UNCHANGED memory \/ Discarded(t)
  BY <1>3 DEF DropStale, Evict, Discarded, Discard
<1>4. ASSUME Forget(t) PROVE Forgotten(t)
  BY <1>4 DEF Forget, Forgotten
<1>5. CASE Lookup(t) \/ OpenedMeanwhile(t) \/ OpenFile(t) \/ OpenFails(t)
           \/ ReadWarm(t) \/ ReadCold(t) \/ Load(t) \/ BatchFails(t) \/ ProbeFails(t)
           \/ WithinBudget(t) \/ ChooseVictim(t) \/ Upgrade(t) \/ UpgradeFails(t)
           \/ EvictTouched(t)
  BY <1>5 DEF Lookup, OpenedMeanwhile, OpenFile, OpenFails, ReadWarm, ReadCold, Load,
              BatchFails, ProbeFails, WithinBudget, ChooseVictim, Upgrade, UpgradeFails,
              EvictTouched
<1> QED
  BY <1>1, <1>2, <1>3, <1>4, <1>5 DEF Step

\* The keys the accounting is changed for are keys, and a chosen victim that has not
\* been touched is an entry.
LEMMA RecordedKey ==
  ASSUME CacheInv, NEW t \in Thread, pc[t] = "record", NEW i \in todo[t]
  PROVE  /\ hold[t] \in File /\ i \in Frame /\ <<hold[t], i>> \in Key
         /\ i \in frames[hold[t]] /\ i \in want[t]
BY DEF CacheInv, TypeOK, OwnsFile, Holding, RecordsWanted, Key

\* A victim still chosen is an entry.
LEMMA ChosenEntry ==
  ASSUME CacheInv, NEW t \in Thread, pc[t] \in Chosen
  PROVE  /\ victim[t].key \in Key /\ victim[t].used \in Nat \ {0}
         /\ victim[t] # NoVictim
         /\ StillChosen(t) => victim[t].key \in Entries
<1>1. victim[t] \in [key : Key, used : Nat \ {0}]
  BY DEF CacheInv, VictimOldest
<1>2. victim[t].key \in Key /\ victim[t].used \in Nat \ {0}
  BY <1>1
<1>3. victim[t] # NoVictim
  BY <1>2 DEF NoVictim
<1> QED
  BY <1>2, <1>3 DEF StillChosen, Entries

\* Each of them keeps the bytes counted equal to those of the entries.
LEMMA ResidentStep ==
  ASSUME CacheInv, NEW t \in Thread, Start(t) \/ Step(t)
  PROVE  ResidentExact' /\ resident' \in Nat
<1>1. resident = BytesOf(Entries) /\ Entries \in SUBSET Key
  BY EntriesAreKeys DEF CacheInv, ResidentExact
<1>2. lastUsed \in [Key -> Nat] /\ clock \in Nat
  BY DEF CacheInv, TypeOK
<1>3. ResidentExact'
  <2>1. CASE UNCHANGED memory \/ Resized
    <3>1. Entries' = Entries
      BY <2>1 DEF memory, Resized, Entries
    <3> QED
      BY <2>1, <3>1, <1>1 DEF memory, Resized, ResidentExact
  <2>2. CASE Recorded(t)
    <3>1. PICK i \in todo[t] : pc[t] = "record" /\ Account(<<hold[t], i>>)
      BY <2>2 DEF Recorded
    <3> DEFINE k == <<hold[t], i>>
    <3>2. k \in Key
      BY <3>1, RecordedKey
    <3>3. Entries' = Entries \cup {k}
      BY <3>1, <3>2, <1>2 DEF Account, Entries
    <3>4. CASE lastUsed[k] = 0
      <4>1. k \notin Entries
        BY <3>4 DEF Entries
      <4>2. BytesOf(Entries \cup {k}) = BytesOf(Entries) + Bytes[k[2]]
        BY <4>1, <3>2, <1>1, BytesOfAdded
      <4> QED
        BY <4>2, <3>1, <3>3, <3>4, <1>1 DEF Account, ResidentExact
    <3>5. CASE lastUsed[k] # 0
      <4>1. Entries' = Entries
        BY <3>2, <3>3, <3>5 DEF Entries
      <4> QED
        BY <4>1, <3>1, <3>5, <1>1 DEF Account, ResidentExact
    <3> QED
      BY <3>4, <3>5
  <2>3. CASE Discarded(t)
    <3> DEFINE k == victim[t].key
    <3>1. k \in Entries
      BY <2>3, ChosenEntry DEF Discarded, Chosen
    <3>2. Entries' = Entries \ {k}
      BY <2>3, <1>2 DEF Discarded, Discard, Entries
    <3>3. BytesOf(Entries \ {k}) = BytesOf(Entries) - Bytes[k[2]]
      BY <3>1, <1>1, BytesOfRemoved
    <3> QED
      BY <2>3, <3>2, <3>3, <1>1 DEF Discarded, Discard, ResidentExact
  <2>4. CASE Forgotten(t)
    <3>1. Entries' = Entries \ EntriesOf(hold[t])
      BY <2>4, <1>2 DEF Forgotten, Entries, EntriesOf
    <3>2. EntriesOf(hold[t]) \in SUBSET Entries
      BY DEF EntriesOf
    <3>3. BytesOf(Entries \ EntriesOf(hold[t])) = BytesOf(Entries) - Released(hold[t])
      BY <3>2, <1>1, BytesOfSplit DEF Released
    <3> QED
      BY <2>4, <3>1, <3>3, <1>1 DEF Forgotten, ResidentExact
  <2>5. CASE Cleared
    <3>1. Entries' = {}
      BY <2>5 DEF Cleared, Entries
    <3> QED
      BY <2>5, <3>1, BytesOfNone DEF Cleared, ResidentExact
  <2> QED
    BY <2>1, <2>2, <2>3, <2>4, <2>5, MemoryStep
<1>4. Entries' \in SUBSET Key
  BY DEF Entries, Key
<1>5. BytesOf(Entries') \in Nat
  BY <1>4, BytesOfNat
<1> QED
  BY <1>3, <1>5 DEF ResidentExact

-------------------------------------------------------------------------------
(* Types.                                                                   *)

\* Every step keeps the types.
LEMMA TypeStep ==
  ASSUME CacheInv, NEW t \in Thread, Start(t) \/ Step(t)
  PROVE  TypeOK'
<1> USE DEF TypeOK, memory, locks, request
<1>1. TypeOK /\ resident' \in Nat
  BY ResidentStep DEF CacheInv
<1> DEFINE Threads == /\ pc' \in [Thread -> {"idle", "lookup", "open", "read", "load", "record",
                             "enforce", "upgrade", "drop", "evict", "insert", "remove"}]
                      /\ batch' \in [Thread -> BOOLEAN] /\ want' \in [Thread -> SUBSET Frame]
                      /\ todo' \in [Thread -> SUBSET Frame]
                      /\ hold' \in [Thread -> File \cup {NoFile}]
                      /\ victim' \in [Thread -> [key : Key, used : Nat] \cup {NoVictim}]
<1>r. Return(t) => Threads
  BY <1>1 DEF Return
<1>b. Begin(t) => ops' \in 0 .. MaxOps
  BY <1>1, MaxOpsAssumption DEF Begin
<1>2. CASE BeginProbe(t)
  <2>1. /\ Begin(t) /\ pc' = [pc EXCEPT ![t] = "lookup"]
        /\ UNCHANGED <<registry, frames, locks, memory, hold, todo, victim, internalError>>
    BY <1>2 DEF BeginProbe
  <2>2. /\ table' \in [Thread -> Table] /\ batch' \in [Thread -> BOOLEAN]
        /\ want' \in [Thread -> SUBSET Frame]
    BY <1>1, <1>2 DEF BeginProbe
  <2> QED
    BY <1>1, <1>b, <2>1, <2>2
<1>3. CASE Insert(t)
  BY <1>1, <1>3, <1>b DEF Insert
<1>4. CASE Remove(t)
  BY <1>1, <1>4, <1>b DEF Remove
<1>5. CASE Clear(t)
  BY <1>1, <1>5, <1>b DEF Clear
<1>6. CASE Resize(t)
  BY <1>1, <1>6, <1>b DEF Resize
<1>7. CASE Lookup(t) \/ OpenedMeanwhile(t)
  BY <1>1, <1>7 DEF Lookup, OpenedMeanwhile
<1>8. CASE OpenFile(t)
  BY <1>1, <1>8 DEF OpenFile
<1>9. CASE OpenFails(t) \/ ProbeFails(t) \/ WithinBudget(t)
  <2>1. /\ Threads
        /\ UNCHANGED <<registry, frames, locks, memory, table, internalError, ops>>
    BY <1>r, <1>9 DEF OpenFails, ProbeFails, WithinBudget
  <2> QED
    BY <1>1, <2>1
<1>10. CASE ReadWarm(t)
  BY <1>1, <1>10 DEF ReadWarm
<1>11. CASE ReadCold(t)
  BY <1>1, <1>11 DEF ReadCold
<1>12. CASE Load(t)
  BY <1>1, <1>12 DEF Load
<1>13. CASE BatchFails(t)
  <2>1. hold[t] \in File /\ \A f \in File : frames[f] \in SUBSET Frame
    BY <1>1, <1>13 DEF CacheInv, OwnsFile, Holding, BatchFails
  <2>2. PICK new \in Installed(want[t] \ frames[hold[t]]) :
          /\ frames' = [frames EXCEPT ![hold[t]] = @ \cup new]
          /\ todo' = [todo EXCEPT ![t] = want[t] \cap (frames[hold[t]] \cup new)]
          /\ \/ pc' = [pc EXCEPT ![t] = "enforce"] /\ writer' = writer
             \/ /\ pc' = [pc EXCEPT ![t] = "record"]
                /\ writer' = [writer EXCEPT ![hold[t]] = {t}]
    BY <1>13 DEF BatchFails
  <2>3. new \in SUBSET Frame
    BY <1>1, <2>2 DEF Installed
  <2>4. frames' \in [File -> SUBSET Frame] /\ todo' \in [Thread -> SUBSET Frame]
    BY <1>1, <2>1, <2>2, <2>3
  <2>5. /\ pc' = [pc EXCEPT ![t] = "enforce"] \/ pc' = [pc EXCEPT ![t] = "record"]
        /\ writer' \in [File -> SUBSET Thread]
    BY <1>1, <2>2
  <2>6. UNCHANGED <<registry, readers, memory, request, hold, victim, internalError, ops>>
    BY <1>13 DEF BatchFails
  <2> QED
    BY <1>1, <2>4, <2>5, <2>6
<1>14. CASE Record(t)
  <2>1. clock' \in Nat /\ lastUsed' \in [Key -> Nat] /\ assigned' = assigned
    BY <1>1, <1>14, RecordedKey DEF Record, Account
  <2>2. PICK i \in todo[t] : /\ readers' = readers \/ readers' = [readers EXCEPT ![hold[t]] = @ \ {t}]
                             /\ writer' = writer \/ writer' = [writer EXCEPT ![hold[t]] = @ \ {t}]
                             /\ \/ todo' = [todo EXCEPT ![t] = @ \ {i}]
                                \/ todo' = [todo EXCEPT ![t] = {}]
    BY <1>14 DEF Record, Return
  <2>3. /\ readers' \in [File -> SUBSET Thread] /\ writer' \in [File -> SUBSET Thread]
        /\ todo' \in [Thread -> SUBSET Frame]
    BY <1>1, <2>2
  <2>4. Return(t) => Threads
    BY <1>r
  <2>5. \/ UNCHANGED <<pc, batch, want, hold, victim>>
        \/ pc' = [pc EXCEPT ![t] = "enforce"] /\ UNCHANGED <<batch, want, hold, victim>>
        \/ Return(t)
    BY <1>14 DEF Record
  <2>6. Threads
    BY <1>1, <2>3, <2>4, <2>5
  <2>7. UNCHANGED <<registry, frames, table, internalError, ops>>
    BY <1>14 DEF Record
  <2> QED
    BY <1>1, <2>1, <2>3, <2>6, <2>7
<1>15. CASE ChooseVictim(t)
  <2>1. Threads
    <3>1. CASE Return(t)
      BY <3>1, <1>r
    <3>2. CASE ~ Return(t)
      <4>1. /\ \E k \in Entries :
                 victim' = [victim EXCEPT ![t] = [key |-> k, used |-> lastUsed[k]]]
            /\ pc' = [pc EXCEPT ![t] = "upgrade"] /\ UNCHANGED <<batch, want, hold, todo>>
        BY <1>15, <3>2 DEF ChooseVictim
      <4> QED
        BY <1>1, <4>1 DEF Entries
    <3> QED
      BY <3>1, <3>2
  <2>2. internalError' = TRUE \/ internalError' = internalError
    BY <1>15 DEF ChooseVictim
  <2>3. UNCHANGED <<registry, frames, locks, memory, table, ops>>
    BY <1>15 DEF ChooseVictim
  <2> QED
    BY <1>1, <2>1, <2>2, <2>3
<1>16. CASE Upgrade(t) \/ UpgradeFails(t)
  BY <1>1, <1>16 DEF Upgrade, UpgradeFails
<1>17. CASE DropStale(t)
  BY <1>1, <1>17 DEF DropStale, Discard, Loop
<1>18. CASE Evict(t)
  <2>1. Threads
    <3>1. CASE Return(t)
      BY <3>1, <1>r
    <3>2. CASE ~ Return(t)
      <4>1. Loop(t) /\ UNCHANGED <<batch, want, hold, todo>>
        BY <1>18, <3>2 DEF Evict
      <4> QED
        BY <1>1, <4>1 DEF Loop
    <3> QED
      BY <3>1, <3>2
  <2>2. internalError' = TRUE \/ internalError' = internalError
    BY <1>18 DEF Evict
  <2>3. assigned' \in Budgets /\ clock' \in Nat /\ lastUsed' \in [Key -> Nat]
    BY <1>1, <1>18 DEF Evict, Discard
  <2>4. frames' \in [File -> SUBSET Frame]
    BY <1>1, <1>18 DEF Evict
  <2>5. UNCHANGED <<registry, locks, table, ops>>
    BY <1>18 DEF Evict
  <2> QED
    BY <1>1, <2>1, <2>2, <2>3, <2>4, <2>5
<1>19. CASE EvictTouched(t)
  BY <1>1, <1>19 DEF EvictTouched, Loop
<1>20. CASE Forget(t)
  BY <1>1, <1>20, <1>r DEF Forget
<1> QED
  BY <1>2, <1>3, <1>4, <1>5, <1>6, <1>7, <1>8, <1>9, <1>10, <1>11, <1>12, <1>13,
     <1>14, <1>15, <1>16, <1>17, <1>18, <1>19, <1>20 DEF Start, Step

-------------------------------------------------------------------------------
(* Threads and locks.                                                       *)

\* A step of a thread leaves the others where they are.
LEMMA OthersWait ==
  ASSUME TypeOK, NEW t \in Thread, Start(t) \/ Step(t), NEW u \in Thread, u # t
  PROVE  /\ pc'[u] = pc[u] /\ hold'[u] = hold[u] /\ victim'[u] = victim[u]
         /\ todo'[u] = todo[u] /\ want'[u] = want[u] /\ batch'[u] = batch[u]
<1> USE DEF TypeOK, request, Return, Loop
<1>1. CASE Start(t)
  BY <1>1 DEF Start, BeginProbe, Insert, Remove, Clear, Resize
<1>2. CASE Lookup(t) \/ OpenedMeanwhile(t) \/ OpenFile(t) \/ OpenFails(t)
  BY <1>2 DEF Lookup, OpenedMeanwhile, OpenFile, OpenFails
<1>3. CASE ReadWarm(t) \/ ReadCold(t) \/ Load(t) \/ BatchFails(t) \/ ProbeFails(t)
  BY <1>3 DEF ReadWarm, ReadCold, Load, BatchFails, ProbeFails
<1>4. CASE Record(t)
  BY <1>4 DEF Record
<1>5. CASE WithinBudget(t) \/ ChooseVictim(t) \/ Upgrade(t) \/ UpgradeFails(t)
  BY <1>5 DEF WithinBudget, ChooseVictim, Upgrade, UpgradeFails
<1>6. CASE DropStale(t) \/ Evict(t) \/ EvictTouched(t) \/ Forget(t)
  BY <1>6 DEF DropStale, Evict, EvictTouched, Forget
<1> QED
  BY <1>1, <1>2, <1>3, <1>4, <1>5, <1>6 DEF Step

\* Which action enters the states that later steps depend on.
LEMMA StateEntered ==
  ASSUME TypeOK, NEW t \in Thread, Start(t) \/ Step(t)
  PROVE  /\ pc'[t] = "evict" => Upgrade(t)
         /\ pc'[t] = "drop" => UpgradeFails(t)
         /\ pc'[t] = "upgrade" => ChooseVictim(t)
         /\ pc'[t] \in {"insert", "remove"} => Insert(t) \/ Remove(t)
<1> USE DEF TypeOK, Return, Loop, Begin
<1>1. CASE Start(t)
  BY <1>1 DEF Start, BeginProbe, Clear, Resize, Insert, Remove
<1>2. CASE Lookup(t) \/ OpenedMeanwhile(t) \/ OpenFile(t) \/ OpenFails(t)
  BY <1>2 DEF Lookup, OpenedMeanwhile, OpenFile, OpenFails
<1>3. CASE ReadWarm(t) \/ ReadCold(t) \/ Load(t) \/ BatchFails(t) \/ ProbeFails(t)
  BY <1>3 DEF ReadWarm, ReadCold, Load, BatchFails, ProbeFails
<1>4. CASE Record(t)
  BY <1>4 DEF Record
<1>5. CASE WithinBudget(t) \/ ChooseVictim(t) \/ Upgrade(t) \/ UpgradeFails(t)
  BY <1>5 DEF WithinBudget, ChooseVictim, Upgrade, UpgradeFails
<1>6. CASE DropStale(t) \/ Evict(t) \/ EvictTouched(t) \/ Forget(t)
  BY <1>6 DEF DropStale, Evict, EvictTouched, Forget
<1> QED
  BY <1>1, <1>2, <1>3, <1>4, <1>5, <1>6 DEF Step

\* The steps that leave the frames and the locks alone, and do not begin to record.
QuietStep(t) ==
  /\ UNCHANGED <<frames, readers, writer>>
  /\ pc[t] # "record" /\ pc'[t] # "record"

\* Most steps leave frames and locks alone.
LEMMA QuietSteps ==
  ASSUME TypeOK, NEW t \in Thread, Start(t) \/ Step(t)
  PROVE  \/ QuietStep(t)
         \/ OpenFile(t) \/ Insert(t) \/ ReadWarm(t) \/ Load(t) \/ BatchFails(t)
         \/ Record(t) \/ Evict(t)
<1> USE DEF TypeOK, locks, Return, Loop, QuietStep, Begin
<1>1. CASE BeginProbe(t) \/ Remove(t) \/ Clear(t) \/ Resize(t)
  BY <1>1 DEF BeginProbe, Remove, Clear, Resize
<1>2. CASE Lookup(t) \/ OpenedMeanwhile(t) \/ OpenFails(t) \/ ReadCold(t) \/ ProbeFails(t)
  BY <1>2 DEF Lookup, OpenedMeanwhile, OpenFails, ReadCold, ProbeFails
<1>3. CASE WithinBudget(t) \/ ChooseVictim(t) \/ Upgrade(t) \/ UpgradeFails(t)
  BY <1>3 DEF WithinBudget, ChooseVictim, Upgrade, UpgradeFails
<1>4. CASE DropStale(t) \/ EvictTouched(t) \/ Forget(t)
  BY <1>4 DEF DropStale, EvictTouched, Forget
<1> QED
  BY <1>1, <1>2, <1>3, <1>4 DEF Start, Step

\* A thread that reads, loads, records or forgets frames has a file in hand.
LEMMA OwnsStep ==
  ASSUME CacheInv, NEW t \in Thread, Start(t) \/ Step(t)
  PROVE  OwnsFile'
<1> USE DEF CacheInv, TypeOK, OwnsFile, Holding
<1>1. ASSUME NEW u \in Thread, u # t, pc'[u] \in Holding PROVE hold'[u] \in File
  BY <1>1, OthersWait
<1>2. ASSUME pc'[t] \in Holding PROVE hold'[t] \in File
  <2> USE <1>2 DEF request, Return, Loop, Begin
  <2>1. CASE Start(t)
    BY <2>1 DEF Start, BeginProbe, Insert, Remove, Clear, Resize
  <2>2. CASE Lookup(t) \/ OpenedMeanwhile(t) \/ OpenFile(t) \/ OpenFails(t)
    BY <2>2 DEF Lookup, OpenedMeanwhile, OpenFile, OpenFails
  <2>3. CASE ReadWarm(t) \/ ReadCold(t) \/ Load(t) \/ BatchFails(t) \/ ProbeFails(t)
    BY <2>3 DEF ReadWarm, ReadCold, Load, BatchFails, ProbeFails
  <2>4. CASE Record(t)
    BY <2>4 DEF Record
  <2>5. CASE WithinBudget(t) \/ ChooseVictim(t) \/ Upgrade(t) \/ UpgradeFails(t)
    BY <2>5 DEF WithinBudget, ChooseVictim, Upgrade, UpgradeFails
  <2>6. CASE DropStale(t) \/ Evict(t) \/ EvictTouched(t) \/ Forget(t)
    BY <2>6 DEF DropStale, Evict, EvictTouched, Forget
  <2> QED
    BY <2>1, <2>2, <2>3, <2>4, <2>5, <2>6 DEF Step
<1> QED
  BY <1>1, <1>2

\* Locks are held by the threads that record accesses, and by no other.
LEMMA LocksStep ==
  ASSUME CacheInv, NEW t \in Thread, Start(t) \/ Step(t)
  PROVE  LocksHeld'
<1> USE DEF CacheInv, LocksHeld
<1>1. TypeOK /\ OwnsFile
  OBVIOUS
<1>2. \A u \in Thread : u # t => pc'[u] = pc[u] /\ hold'[u] = hold[u]
  BY OthersWait
<1>3. CASE QuietStep(t)
  BY <1>1, <1>2, <1>3 DEF QuietStep
<1>4. CASE OpenFile(t) \/ Insert(t) \/ Evict(t)
  <2>1. UNCHANGED <<readers, writer>> /\ pc[t] # "record"
    BY <1>4 DEF OpenFile, Insert, Evict, Begin, locks
  <2>2. pc'[t] # "record"
    BY <1>4, <1>1 DEF OpenFile, Insert, Evict, Return, Loop, TypeOK
  <2> QED
    BY <1>1, <1>2, <2>1, <2>2
<1>5. CASE ReadWarm(t)
  <2>1. hold[t] \in File /\ writer[hold[t]] = {} /\ pc[t] = "read"
    BY <1>1, <1>5 DEF ReadWarm, OwnsFile, Holding
  <2>2. /\ readers' = [readers EXCEPT ![hold[t]] = @ \cup {t}] /\ writer' = writer
        /\ pc'[t] = "record" /\ hold'[t] = hold[t]
    BY <1>1, <1>5 DEF ReadWarm, TypeOK
  <2> QED
    BY <1>1, <1>2, <2>1, <2>2 DEF TypeOK
<1>6. CASE Load(t) \/ BatchFails(t)
  <2>1. hold[t] \in File /\ WriteFree(hold[t]) /\ pc[t] = "load"
    BY <1>1, <1>6 DEF Load, BatchFails, OwnsFile, Holding
  <2>2. /\ readers' = readers /\ hold'[t] = hold[t]
        /\ \/ pc'[t] = "record" /\ writer' = [writer EXCEPT ![hold[t]] = {t}]
           \/ pc'[t] = "enforce" /\ writer' = writer
    BY <1>1, <1>6 DEF Load, BatchFails, TypeOK
  <2>3. \A u \in Thread : pc[u] = "record" => hold[u] # hold[t]
    BY <2>1 DEF WriteFree
  <2>4. CASE pc'[t] = "enforce" /\ writer' = writer
    BY <1>1, <1>2, <2>1, <2>2, <2>4
  <2>5. CASE pc'[t] = "record" /\ writer' = [writer EXCEPT ![hold[t]] = {t}]
    <3>1. \A f \in File : writer'[f] = IF f = hold[t] THEN {t} ELSE writer[f]
      BY <1>1, <2>5 DEF TypeOK
    <3>2. writer[hold[t]] = {} /\ readers[hold[t]] = {}
      BY <2>1 DEF WriteFree
    <3>3. \A u \in Thread : pc'[u] = "record" => hold'[u] \in File
      BY <1>1, <1>2, <2>1, <2>2 DEF OwnsFile, Holding
    <3> QED
      BY <1>1, <1>2, <2>1, <2>2, <2>3, <2>5, <3>1, <3>2, <3>3
  <2> QED
    BY <2>2, <2>4, <2>5
<1>7. CASE Record(t)
  <2>1. pc[t] = "record" /\ hold[t] \in File
    BY <1>1, <1>7 DEF Record, OwnsFile, Holding
  <2>2. CASE UNCHANGED <<locks, pc, hold>>
    BY <2>2 DEF locks
  <2>3. CASE /\ readers' = [readers EXCEPT ![hold[t]] = @ \ {t}]
             /\ writer' = [writer EXCEPT ![hold[t]] = @ \ {t}]
             /\ pc'[t] # "record"
    <3>1. \A f \in File : readers'[f] = readers[f] \ {t} /\ writer'[f] = writer[f] \ {t}
      BY <1>1, <2>1, <2>3 DEF TypeOK
    <3>2. ASSUME NEW u \in Thread, pc'[u] = "record" PROVE u # t /\ hold'[u] \in File
      BY <1>1, <1>2, <2>3, <3>2 DEF OwnsFile, Holding
    <3> QED
      BY <1>1, <1>2, <3>1, <3>2, <2>1
  <2> QED
    BY <1>1, <1>7, <2>2, <2>3 DEF Record, Return, TypeOK
<1> QED
  BY <1>1, <1>3, <1>4, <1>5, <1>6, <1>7, QuietSteps

-------------------------------------------------------------------------------
(* What a step does to the resident frames.                                 *)

Opened == \E f \in File : Reusable(f) /\ frames' = [frames EXCEPT ![f] = {}]

Loaded(t) ==
  /\ hold[t] \in File /\ WriteFree(hold[t])
  /\ \E new \in SUBSET want[t] : frames' = [frames EXCEPT ![hold[t]] = @ \cup new]

Evicting(t) ==
  LET k == victim[t].key
  IN /\ pc[t] = "evict" /\ WriteFree(k[1]) /\ StillChosen(t) /\ Discard(k)
     /\ frames' = [frames EXCEPT ![k[1]] = @ \ {k[2]}]

\* The ways a step changes what files hold in memory.
LEMMA FramesStep ==
  ASSUME CacheInv, NEW t \in Thread, Start(t) \/ Step(t)
  PROVE  \/ UNCHANGED frames /\ ~ Load(t) /\ ~ BatchFails(t)
         \/ Opened /\ (OpenFile(t) \/ Insert(t))
         \/ Loaded(t) /\ (Load(t) \/ BatchFails(t))
         \/ Evicting(t) /\ Evict(t)
<1>1. TypeOK
  BY DEF CacheInv
<1>2. CASE QuietStep(t) /\ ~ Load(t) /\ ~ BatchFails(t)
  BY <1>1, <1>2 DEF QuietStep
<1>3. CASE OpenFile(t) \/ Insert(t)
  BY <1>3 DEF OpenFile, Insert, Opened
<1>4. CASE Load(t)
  <2>1. hold[t] \in File /\ WriteFree(hold[t])
    BY <1>4 DEF CacheInv, OwnsFile, Holding, Load
  <2> QED
    BY <1>4, <2>1 DEF Load, Loaded
<1>5. CASE BatchFails(t)
  <2>1. hold[t] \in File /\ WriteFree(hold[t])
    BY <1>5 DEF CacheInv, OwnsFile, Holding, BatchFails
  <2>2. PICK new \in Installed(want[t] \ frames[hold[t]]) :
          frames' = [frames EXCEPT ![hold[t]] = @ \cup new]
    BY <1>5 DEF BatchFails
  <2>3. new \in SUBSET want[t]
    BY <2>2 DEF Installed
  <2> QED
    BY <1>5, <2>1, <2>2, <2>3 DEF Loaded
<1>6. CASE ReadWarm(t) \/ Record(t)
  BY <1>6 DEF ReadWarm, Record, Load, BatchFails
<1>7. CASE Evict(t)
  BY <1>7 DEF Evict, Evicting, Load, BatchFails
<1> QED
  BY <1>1, <1>2, <1>3, <1>4, <1>5, <1>6, <1>7, QuietSteps

\* A file some thread works on is not reused, and its frames are not evicted while
\* their accesses are being recorded.
LEMMA HeldInUse ==
  ASSUME NEW u \in Thread, NEW f, hold[u] = f PROVE ~ Reusable(f)
BY DEF Reusable, Live

\* A thread that records still holds its file's lock ...
LEMMA RecordingLocked ==
  ASSUME CacheInv, NEW u \in Thread, pc[u] = "record" PROVE ~ WriteFree(hold[u])
BY DEF CacheInv, LocksHeld, WriteFree

\* ... so that nobody evicts from the file meanwhile.
LEMMA RecordedFramesStay ==
  ASSUME CacheInv, NEW t \in Thread, Start(t) \/ Step(t),
         NEW u \in Thread, pc[u] = "record"
  PROVE  frames[hold[u]] \subseteq frames'[hold[u]]
<1>1. frames \in [File -> SUBSET Frame] /\ hold[u] \in File
  BY DEF CacheInv, TypeOK, OwnsFile, Holding
<1>2. CASE Opened
  BY <1>1, <1>2, HeldInUse DEF Opened
<1>3. CASE Loaded(t)
  BY <1>1, <1>3 DEF Loaded
<1>4. CASE Evicting(t)
  <2>1. victim[t].key[1] # hold[u]
    BY <1>4, RecordingLocked DEF Evicting
  <2> QED
    BY <1>1, <1>4, <2>1 DEF Evicting
<1> QED
  BY <1>2, <1>3, <1>4, FramesStep

\* What a thread has still to record is wanted, and in memory.
LEMMA WantedStep ==
  ASSUME CacheInv, NEW t \in Thread, Start(t) \/ Step(t)
  PROVE  RecordsWanted'
<1>1. TypeOK /\ OwnsFile /\ RecordsWanted
  BY DEF CacheInv
<1>2. SUFFICES ASSUME NEW u \in Thread, pc'[u] = "record"
               PROVE  todo'[u] \subseteq want'[u] \cap frames'[hold'[u]]
  BY DEF RecordsWanted
<1>3. CASE u # t
  BY <1>1, <1>2, <1>3, OthersWait, RecordedFramesStay DEF RecordsWanted
<1>4. CASE u = t
  <2>1. ~ QuietStep(t)
    BY <1>2, <1>4 DEF QuietStep
  <2>2. CASE OpenFile(t) \/ Insert(t) \/ Evict(t)
    <3>1. pc'[t] # "record"
      BY <1>1, <2>2 DEF OpenFile, Insert, Evict, Return, Loop, Begin, TypeOK
    <3> QED
      BY <1>2, <1>4, <3>1
  <2>3. CASE ReadWarm(t)
    BY <1>1, <1>4, <2>3 DEF ReadWarm, request, TypeOK
  <2>4. CASE Load(t)
    BY <1>1, <1>4, <2>4 DEF Load, request, TypeOK, OwnsFile, Holding
  <2>5. CASE BatchFails(t)
    <3>1. hold[t] \in File
      BY <1>1, <2>5 DEF BatchFails, OwnsFile, Holding
    <3> QED
      BY <1>1, <1>4, <2>5, <3>1 DEF BatchFails, request, TypeOK
  <2>6. CASE Record(t)
    <3>1. pc[t] = "record" /\ frames' = frames
      BY <2>6 DEF Record
    <3>2. UNCHANGED <<want, hold>> /\ todo'[t] \subseteq todo[t]
      BY <1>1, <1>2, <1>4, <2>6 DEF Record, Return, TypeOK
    <3> QED
      BY <1>1, <1>4, <3>1, <3>2 DEF RecordsWanted
  <2> QED
    BY <1>1, <2>1, <2>2, <2>3, <2>4, <2>5, <2>6, QuietSteps
<1> QED
  BY <1>3, <1>4

\* A request that is not a batch is for one frame.
LEMMA SingleStep ==
  ASSUME CacheInv, NEW t \in Thread, Start(t) \/ Step(t)
  PROVE  SingleFrame'
<1>1. TypeOK /\ SingleFrame
  BY DEF CacheInv
<1>2. SUFFICES ASSUME NEW u \in Thread, pc'[u] \in Requesting, ~ batch'[u]
               PROVE  \E i \in Frame : want'[u] = {i}
  BY DEF SingleFrame
<1>3. CASE u # t
  BY <1>1, <1>2, <1>3, OthersWait DEF SingleFrame
<1>4. CASE u = t
  <2> USE <1>2, <1>4 DEF Requesting
  <2>1. CASE BeginProbe(t)
    <3>1. PICK w \in SUBSET Frame : Cardinality(w) = 1 /\ want' = [want EXCEPT ![t] = w]
      BY <1>1, <2>1 DEF BeginProbe, TypeOK
    <3>2. \E i \in Frame : w = {i}
      BY <3>1, FrameAssumption, FS_Subset, FS_Singleton
    <3> QED
      BY <1>1, <3>1, <3>2 DEF TypeOK
  <2>2. CASE Insert(t) \/ Remove(t) \/ Clear(t) \/ Resize(t)
    BY <1>1, <2>2 DEF Insert, Remove, Clear, Resize, TypeOK, Begin
  <2>3. ASSUME pc[t] \in Requesting, UNCHANGED <<batch, want>> PROVE \E i \in Frame : want'[t] = {i}
    BY <1>1, <2>3 DEF SingleFrame
  <2>4. CASE Lookup(t) \/ OpenedMeanwhile(t) \/ OpenFile(t) \/ OpenFails(t)
    BY <1>1, <2>3, <2>4 DEF Lookup, OpenedMeanwhile, OpenFile, OpenFails, Return, request, TypeOK
  <2>5. CASE ReadWarm(t) \/ ReadCold(t) \/ Load(t) \/ BatchFails(t) \/ ProbeFails(t)
    BY <1>1, <2>3, <2>5 DEF ReadWarm, ReadCold, Load, BatchFails, ProbeFails, Return, request, TypeOK
  <2>6. CASE Record(t)
    BY <1>1, <2>3, <2>6 DEF Record, Return, request, TypeOK
  <2>7. CASE WithinBudget(t) \/ ChooseVictim(t) \/ Upgrade(t) \/ UpgradeFails(t)
    BY <1>1, <2>7 DEF WithinBudget, ChooseVictim, Upgrade, UpgradeFails, Return, TypeOK
  <2>8. CASE DropStale(t) \/ Evict(t) \/ EvictTouched(t) \/ Forget(t)
    BY <1>1, <2>8 DEF DropStale, Evict, EvictTouched, Forget, Return, Loop, TypeOK
  <2> QED
    BY <2>1, <2>2, <2>4, <2>5, <2>6, <2>7, <2>8 DEF Start, Step
<1> QED
  BY <1>3, <1>4

-------------------------------------------------------------------------------
(* The order of the accesses, and the entries.                              *)

\* An entry is as it was, or used just now.
LEMMA AccessOrder ==
  ASSUME CacheInv, NEW t \in Thread, Start(t) \/ Step(t)
  PROVE  /\ clock' \in {clock, clock + 1}
         /\ \A k \in Entries' : \/ k \in Entries /\ lastUsed'[k] = lastUsed[k]
                                \/ lastUsed'[k] = clock + 1 /\ clock' = clock + 1
         /\ \A j, k \in Entries' : lastUsed'[j] = clock + 1 /\ lastUsed'[k] = clock + 1 => j = k
         /\ Entries' \in SUBSET Key
<1>1. /\ lastUsed \in [Key -> Nat] /\ clock \in Nat
      /\ \A k \in Key : lastUsed[k] <= clock
  BY DEF CacheInv, TypeOK, Clocked
<1>2. CASE UNCHANGED memory \/ Resized
  BY <1>1, <1>2 DEF memory, Resized, Entries
<1>3. CASE Recorded(t)
  <2>1. PICK i \in todo[t] : pc[t] = "record" /\ Account(<<hold[t], i>>)
    BY <1>3 DEF Recorded
  <2> DEFINE k == <<hold[t], i>>
  <2>2. k \in Key
    BY <2>1, RecordedKey
  <2>3. clock' = clock + 1 /\ lastUsed' = [lastUsed EXCEPT ![k] = clock + 1]
    BY <2>1 DEF Account
  <2> HIDE DEF k
  <2> QED
    BY <1>1, <2>2, <2>3 DEF Entries
<1>4. CASE Discarded(t)
  BY <1>1, <1>4 DEF Discarded, Discard, Entries
<1>5. CASE Forgotten(t)
  BY <1>1, <1>5 DEF Forgotten, Entries
<1>6. CASE Cleared
  BY <1>1, <1>6 DEF Cleared, Entries
<1> QED
  BY <1>2, <1>3, <1>4, <1>5, <1>6, MemoryStep

\* No entry is stamped later than the clock, and no two alike.
LEMMA ClockedStep ==
  ASSUME CacheInv, NEW t \in Thread, Start(t) \/ Step(t)
  PROVE  Clocked'
<1>1. TypeOK /\ TypeOK' /\ Clocked
  BY TypeStep DEF CacheInv
<1>2. \A k \in Key : lastUsed'[k] <= clock'
  <2>1. ASSUME NEW k \in Key PROVE lastUsed'[k] <= clock'
    <3>1. CASE k \in Entries'
      BY <1>1, <3>1, AccessOrder DEF TypeOK, Clocked
    <3>2. CASE k \notin Entries'
      BY <1>1, <3>2 DEF TypeOK, Entries, Key
    <3> QED
      BY <3>1, <3>2
  <2> QED
    BY <2>1
<1>3. ASSUME NEW j \in Entries', NEW k \in Entries', lastUsed'[j] = lastUsed'[k]
      PROVE  j = k
  BY <1>1, <1>3, AccessOrder DEF TypeOK, Clocked, Entries
<1>4. Key' = Key
  BY DEF Key
<1> QED
  BY <1>2, <1>3, <1>4 DEF Clocked

\* A victim was the least recently used entry when it was chosen.
LEMMA VictimStep ==
  ASSUME CacheInv, NEW t \in Thread, Start(t) \/ Step(t)
  PROVE  VictimOldest'
<1>1. TypeOK /\ Clocked /\ VictimOldest
  BY DEF CacheInv
<1>2. SUFFICES ASSUME NEW u \in Thread, pc'[u] \in Chosen
               PROVE  /\ victim'[u] \in [key : Key, used : Nat \ {0}]
                      /\ victim'[u].used <= clock'
                      /\ \A k \in Entries' : victim'[u].used <= lastUsed'[k]
  BY DEF VictimOldest, Key
<1>3. ASSUME pc[u] \in Chosen, victim'[u] = victim[u]
      PROVE  /\ victim'[u] \in [key : Key, used : Nat \ {0}]
             /\ victim'[u].used <= clock'
             /\ \A k \in Entries' : victim'[u].used <= lastUsed'[k]
  <2>1. /\ victim[u] \in [key : Key, used : Nat \ {0}]
        /\ victim[u].used <= clock
        /\ \A k \in Entries : victim[u].used <= lastUsed[k]
    BY <1>1, <1>3 DEF VictimOldest
  <2>2. victim[u].used \in Nat /\ clock \in Nat
    BY <1>1, <2>1 DEF TypeOK
  <2> QED
    BY <1>3, <2>1, <2>2, AccessOrder
<1>4. CASE u # t
  BY <1>1, <1>2, <1>3, <1>4, OthersWait
<1>5. CASE u = t
  <2> USE <1>2, <1>5 DEF Chosen
  <2>1. CASE ChooseVictim(t)
    <3>1. CASE Return(t)
      BY <1>1, <3>1 DEF Return, TypeOK
    <3>2. CASE ~ Return(t)
      <4>1. PICK k \in Entries :
              /\ \A j \in Entries : lastUsed[k] <= lastUsed[j]
              /\ victim' = [victim EXCEPT ![t] = [key |-> k, used |-> lastUsed[k]]]
        BY <2>1, <3>2 DEF ChooseVictim
      <4>2. UNCHANGED memory
        BY <2>1 DEF ChooseVictim
      <4>3. Entries' = Entries /\ clock' = clock /\ lastUsed' = lastUsed
        BY <4>2 DEF memory, Entries
      <4>4. k \in Key /\ lastUsed[k] \in Nat \ {0} /\ lastUsed[k] <= clock
        BY <1>1, <4>1 DEF Entries, TypeOK, Clocked
      <4>5. victim'[t] = [key |-> k, used |-> lastUsed[k]]
        BY <1>1, <4>1 DEF TypeOK
      <4> QED
        BY <4>1, <4>3, <4>4, <4>5
    <3> QED
      BY <3>1, <3>2
  <2>2. CASE Upgrade(t) \/ UpgradeFails(t)
    BY <1>3, <2>2 DEF Upgrade, UpgradeFails
  <2> QED
    BY <1>1, <2>1, <2>2, StateEntered
<1> QED
  BY <1>4, <1>5

\* Neither of enforce_limit's internal errors: over budget there is an entry, and the
\* entry chosen is resident.
LEMMA NothingToEvict ==
  ASSUME CacheInv, OverBudget(resident) PROVE Entries # {}
<1>1. resident = BytesOf(Entries) /\ assigned \in Budgets
  BY DEF CacheInv, ResidentExact, TypeOK
<1>2. Entries = {} => ~ OverBudget(resident)
  BY <1>1, BytesOfNone, BudgetAssumption DEF OverBudget
<1> QED
  BY <1>2

\* The frame of a victim still chosen is in memory.
LEMMA ChosenResident ==
  ASSUME CacheInv, NEW t \in Thread, pc[t] \in Chosen, StillChosen(t)
  PROVE  victim[t].key[2] \in frames[victim[t].key[1]]
BY ChosenEntry DEF CacheInv, EntriesResident

\* Entries stay resident: a frame leaves memory with its entry.
LEMMA EntriesStep ==
  ASSUME CacheInv, NEW t \in Thread, Start(t) \/ Step(t)
  PROVE  EntriesResident'
<1>1. TypeOK /\ EntriesResident
  BY DEF CacheInv
<1>2. ~ internalError'
  <2>1. CASE ChooseVictim(t)
    BY <1>1, <2>1, NothingToEvict DEF ChooseVictim, EntriesResident
  <2>2. CASE Evict(t)
    BY <1>1, <2>2, ChosenResident DEF Evict, Chosen, EntriesResident
  <2>3. internalError' = internalError \/ ChooseVictim(t) \/ Evict(t)
    BY DEF Start, BeginProbe, Insert, Remove, Clear, Resize, Step, Lookup,
           OpenedMeanwhile, OpenFile, OpenFails, ReadWarm, ReadCold, Load, BatchFails,
           ProbeFails, Record, WithinBudget, Upgrade, UpgradeFails, DropStale,
           EvictTouched, Forget
  <2> QED
    BY <1>1, <2>1, <2>2, <2>3 DEF EntriesResident
<1>3. ASSUME NEW k \in Entries' PROVE k[2] \in frames'[k[1]]
  <2>1. k \in Key /\ lastUsed'[k] # 0 /\ k = <<k[1], k[2]>> /\ k[1] \in File /\ k[2] \in Frame
    BY DEF Entries, Key
  <2>2. k \in Entries => k[2] \in frames[k[1]]
    BY <1>1 DEF EntriesResident
  <2>3. k \in Entries \/ Recorded(t)
    BY <1>1, <2>1, MemoryStep
       DEF memory, Entries, Discarded, Discard, Forgotten, Cleared, Resized, TypeOK
  <2>4. CASE UNCHANGED frames
    <3>1. CASE Recorded(t) /\ k \notin Entries
      <4>1. PICK i \in todo[t] : pc[t] = "record" /\ Account(<<hold[t], i>>)
        BY <3>1 DEF Recorded
      <4>2. k = <<hold[t], i>>
        BY <1>1, <2>1, <3>1, <4>1, RecordedKey DEF Account, Entries, TypeOK
      <4> QED
        BY <2>4, <4>1, <4>2, RecordedKey
    <3> QED
      BY <2>2, <2>3, <2>4, <3>1
  <2>5. CASE Opened /\ (OpenFile(t) \/ Insert(t))
    <3>1. lastUsed' = lastUsed
      BY <2>5 DEF OpenFile, Insert, memory
    <3>2. PICK f \in File : Reusable(f) /\ frames' = [frames EXCEPT ![f] = {}]
      BY <2>5 DEF Opened
    <3>3. k[1] # f
      BY <2>1, <3>1, <3>2 DEF Reusable
    <3> QED
      BY <1>1, <2>1, <2>2, <3>1, <3>2, <3>3 DEF Entries, TypeOK
  <2>6. CASE Loaded(t) /\ (Load(t) \/ BatchFails(t))
    <3>1. lastUsed' = lastUsed
      BY <2>6 DEF Load, BatchFails, memory
    <3> QED
      BY <1>1, <2>1, <2>2, <2>6, <3>1 DEF Loaded, Entries, TypeOK
  <2>7. CASE Evicting(t) /\ Evict(t)
    <3> DEFINE v == victim[t].key
    <3>1. v \in Key /\ v = <<v[1], v[2]>>
      BY <2>7, ChosenEntry DEF Evicting, Chosen, Key
    <3>2. /\ lastUsed' = [lastUsed EXCEPT ![v] = 0]
          /\ frames' = [frames EXCEPT ![v[1]] = @ \ {v[2]}]
      BY <2>7 DEF Evicting, Discard
    <3> HIDE DEF v
    <3>3. k # v /\ k \in Entries
      BY <1>1, <2>1, <3>1, <3>2 DEF Entries, TypeOK
    <3> QED
      BY <1>1, <2>1, <2>2, <3>1, <3>2, <3>3 DEF TypeOK
  <2> QED
    BY <2>4, <2>5, <2>6, <2>7, FramesStep
<1> QED
  BY <1>2, <1>3 DEF EntriesResident

-------------------------------------------------------------------------------
(* Files: registered once, and once gone never owned again.                 *)

\* A step registers a file that is new, or none.
LEMMA RegistryStep ==
  ASSUME CacheInv, NEW t \in Thread, Start(t) \/ Step(t)
  PROVE  \/ UNCHANGED registry /\ ~ Insert(t) /\ ~ Remove(t)
         \/ Clear(t) /\ registry' = [n \in Table |-> NoFile]
         \/ /\ OpenFile(t) \/ Insert(t)
            /\ \E n \in Table, f \in File :
                 /\ Reusable(f) /\ registry' = [registry EXCEPT ![n] = f]
                 /\ frames' = [frames EXCEPT ![f] = {}]
                 /\ OpenFile(t) => registry[n] = NoFile /\ hold'[t] = f
                 /\ Insert(t) => hold'[t] = registry[n]
         \/ /\ Remove(t)
            /\ \E n \in Table : /\ registry[n] # NoFile /\ hold'[t] = registry[n]
                                /\ registry' = [registry EXCEPT ![n] = NoFile]
<1>1. TypeOK
  BY DEF CacheInv
<1>2. CASE OpenFile(t)
  BY <1>1, <1>2 DEF OpenFile, TypeOK, Insert, Begin
<1>3. CASE Insert(t)
  BY <1>1, <1>3 DEF Insert, TypeOK, OpenFile, Begin
<1>4. CASE Remove(t)
  BY <1>1, <1>4 DEF Remove, TypeOK
<1>5. CASE Clear(t)
  BY <1>5 DEF Clear
<1>6. CASE BeginProbe(t) \/ Resize(t)
  BY <1>1, <1>6 DEF BeginProbe, Resize, Insert, Remove, Begin, TypeOK
<1>7. CASE Step(t) /\ ~ OpenFile(t)
  <2>1. UNCHANGED registry
    BY <1>7 DEF Step, Lookup, OpenedMeanwhile, OpenFails, ReadWarm, ReadCold, Load,
                BatchFails, ProbeFails, Record, WithinBudget, ChooseVictim, Upgrade,
                UpgradeFails, DropStale, Evict, EvictTouched, Forget
  <2>2. pc[t] # "idle"
    BY <1>7 DEF Step, Lookup, OpenedMeanwhile, OpenFails, ReadWarm, ReadCold, Load,
                BatchFails, ProbeFails, Record, WithinBudget, ChooseVictim, Upgrade,
                UpgradeFails, DropStale, Evict, EvictTouched, Forget
  <2> QED
    BY <2>1, <2>2 DEF Insert, Remove, Begin
<1> QED
  BY <1>2, <1>3, <1>4, <1>5, <1>6, <1>7 DEF Start

\* A thread owns what it owned, what is registered, or a file just opened.
LEMMA HoldStep ==
  ASSUME CacheInv, NEW t \in Thread, Start(t) \/ Step(t)
  PROVE  \/ hold'[t] \in {hold[t], NoFile}
         \/ \E n \in Table : hold'[t] = registry[n]
         \/ \E f \in File : Reusable(f) /\ hold'[t] = f
<1> USE DEF CacheInv, TypeOK, Return, Loop, request
<1>1. CASE Start(t)
  BY <1>1 DEF Start, BeginProbe, Insert, Remove, Clear, Resize
<1>2. CASE Lookup(t) \/ OpenedMeanwhile(t) \/ OpenFile(t) \/ OpenFails(t)
  BY <1>2 DEF Lookup, OpenedMeanwhile, OpenFile, OpenFails
<1>3. CASE ReadWarm(t) \/ ReadCold(t) \/ Load(t) \/ BatchFails(t) \/ ProbeFails(t)
  BY <1>3 DEF ReadWarm, ReadCold, Load, BatchFails, ProbeFails
<1>4. CASE Record(t)
  BY <1>4 DEF Record
<1>5. CASE WithinBudget(t) \/ ChooseVictim(t) \/ Upgrade(t) \/ UpgradeFails(t)
  BY <1>5 DEF WithinBudget, ChooseVictim, Upgrade, UpgradeFails
<1>6. CASE DropStale(t) \/ Evict(t) \/ EvictTouched(t) \/ Forget(t)
  BY <1>6 DEF DropStale, Evict, EvictTouched, Forget
<1> QED
  BY <1>1, <1>2, <1>3, <1>4, <1>5, <1>6 DEF Step

\* A file nobody owns is owned again only once nothing refers to its address.
LEMMA LiveStep ==
  ASSUME CacheInv, NEW t \in Thread, Start(t) \/ Step(t),
         NEW f \in File, ~ Live(f), ~ Reusable(f)
  PROVE  ~ Live(f)'
<1>1. TypeOK /\ f # NoFile
  BY FileAssumption DEF CacheInv
<1>2. /\ \A n \in Table : registry[n] # f
      /\ \A u \in Thread : hold[u] # f
      /\ \A u \in Thread : pc[u] = "evict" => victim[u].key[1] # f
  BY DEF Live
<1>3. \A n \in Table : registry'[n] # f
  BY <1>1, <1>2, RegistryStep DEF TypeOK
<1>4. \A u \in Thread : hold'[u] # f
  BY <1>1, <1>2, HoldStep, OthersWait
<1>5. ASSUME NEW u \in Thread, pc'[u] = "evict" PROVE victim'[u].key[1] # f
  <2>1. CASE u # t
    BY <1>1, <1>2, <1>5, <2>1, OthersWait
  <2>2. CASE u = t
    BY <1>5, <2>2, <1>1, StateEntered DEF Upgrade
  <2> QED
    BY <2>1, <2>2
<1> QED
  BY <1>3, <1>4, <1>5 DEF Live

\* A file whose entries are dropped is no longer live.
LEMMA GoneStep ==
  ASSUME CacheInv, NEW t \in Thread, Start(t) \/ Step(t)
  PROVE  DroppedGone'
<1>1. TypeOK /\ DroppedGone
  BY DEF CacheInv
<1>2. SUFFICES ASSUME NEW u \in Thread, pc'[u] = "drop" PROVE (~ Live(victim[u].key[1]))'
  BY DEF DroppedGone
<1> DEFINE f == victim[u].key[1]
<1>3. pc[u] \in Chosen /\ victim'[u] = victim[u] /\ ~ Live(f)
  <2>1. CASE u # t
    BY <1>1, <1>2, <2>1, OthersWait DEF DroppedGone, Chosen
  <2>2. CASE u = t
    BY <1>1, <1>2, <2>2, StateEntered DEF UpgradeFails, Chosen
  <2> QED
    BY <2>1, <2>2
<1>4. f \in File /\ ~ Reusable(f)
  BY <1>3, ChosenEntry DEF Reusable, Key
<1>5. ~ Live(f)'
  BY <1>3, <1>4, LiveStep
<1> QED
  BY <1>3, <1>5 DEF Live

\* Tables and pending insertions have files of their own.
LEMMA DistinctStep ==
  ASSUME CacheInv, NEW t \in Thread, Start(t) \/ Step(t)
  PROVE  RegistryDistinct'
<1>1. TypeOK /\ TypeOK' /\ OwnsFile /\ RegistryDistinct
  BY TypeStep DEF CacheInv
<1>2. ASSUME NEW n \in Table, NEW f, Reusable(f) PROVE registry[n] # f
  BY <1>2 DEF Reusable, Live
<1>3. ASSUME NEW m \in Table, NEW n \in Table, registry'[m] # NoFile, registry'[m] = registry'[n]
      PROVE  m = n
  <2>1. CASE OpenFile(t) \/ Insert(t)
    <3>1. PICK p \in Table, f \in File : Reusable(f) /\ registry' = [registry EXCEPT ![p] = f]
      BY <2>1 DEF OpenFile, Insert, CacheInv, TypeOK
    <3>2. /\ registry'[m] = IF m = p THEN f ELSE registry[m]
          /\ registry'[n] = IF n = p THEN f ELSE registry[n]
          /\ registry[m] # f /\ registry[n] # f
      BY <1>1, <1>2, <3>1 DEF TypeOK
    <3> QED
      BY <1>1, <1>3, <3>2 DEF RegistryDistinct
  <2>2. CASE ~ OpenFile(t) /\ ~ Insert(t)
    <3>1. registry'[m] = registry[m] /\ registry'[n] \in {registry[n], NoFile}
      BY <1>1, <1>3, <2>2, RegistryStep DEF TypeOK
    <3> QED
      BY <1>1, <1>3, <3>1 DEF RegistryDistinct
  <2> QED
    BY <2>1, <2>2
<1>4. ASSUME NEW u \in Thread, NEW n \in Table, pc'[u] \in {"insert", "remove"}
      PROVE  registry'[n] # hold'[u]
  <2>1. CASE u # t
    <3>1. /\ pc[u] \in {"insert", "remove"} /\ hold'[u] = hold[u]
          /\ registry[n] # hold[u] /\ hold[u] \in File
      BY <1>1, <1>4, <2>1, OthersWait DEF RegistryDistinct, OwnsFile, Holding
    <3>2. \/ registry'[n] \in {registry[n], NoFile}
          \/ \E f \in File : Reusable(f) /\ registry'[n] = f
      BY <1>1, RegistryStep DEF TypeOK
    <3> QED
      BY <3>1, <3>2, HeldInUse, FileAssumption
  <2>2. CASE u = t
    <3>1. CASE Insert(t)
      <4>1. PICK m \in Table, f \in File :
              /\ Reusable(f) /\ registry' = [registry EXCEPT ![m] = f]
              /\ hold' = [hold EXCEPT ![t] = registry[m]]
              /\ pc' = [pc EXCEPT ![t] = IF registry[m] = NoFile THEN "idle" ELSE "insert"]
        BY <3>1 DEF Insert
      <4>2. registry[m] # NoFile /\ hold'[t] = registry[m]
        BY <1>1, <1>4, <2>2, <4>1 DEF TypeOK
      <4> QED
        BY <1>1, <1>2, <2>2, <4>1, <4>2 DEF RegistryDistinct, TypeOK
    <3>2. CASE Remove(t)
      <4>1. PICK m \in Table : /\ registry[m] # NoFile
                               /\ registry' = [registry EXCEPT ![m] = NoFile]
                               /\ hold' = [hold EXCEPT ![t] = registry[m]]
        BY <3>2 DEF Remove
      <4> QED
        BY <1>1, <2>2, <4>1 DEF RegistryDistinct, TypeOK
    <3> QED
      BY <1>1, <1>4, <2>2, <3>1, <3>2, StateEntered
  <2> QED
    BY <2>1, <2>2
<1> QED
  BY <1>3, <1>4 DEF RegistryDistinct

-------------------------------------------------------------------------------
(* No frame of a registered file goes uncounted.                            *)

CountedFrame(f, i) == lastUsed[<<f, i>>] # 0 \/ \E t \in writer[f] : i \in todo[t]

\* An entry of a registered file is only forgotten with its frame.
LEMMA EntryStays ==
  ASSUME CacheInv, NEW t \in Thread, Start(t) \/ Step(t),
         NEW n \in Table, registry[n] # NoFile, registry'[n] = registry[n],
         NEW i \in frames'[registry[n]],
         NEW k \in Key, k = <<registry[n], i>>, lastUsed[k] # 0
  PROVE  lastUsed'[k] # 0
<1>1. TypeOK /\ registry[n] \in File
  BY DEF CacheInv, TypeOK
<1>2. CASE UNCHANGED memory \/ Resized
  BY <1>2 DEF memory, Resized
<1>3. CASE Recorded(t)
  BY <1>1, <1>3 DEF Recorded, Account, TypeOK
<1>4. CASE Discarded(t) /\ DropStale(t)
  <2>1. ~ Live(victim[t].key[1])
    BY <1>4 DEF CacheInv, DroppedGone, DropStale
  <2>2. k # victim[t].key
    BY <2>1 DEF Live
  <2> QED
    BY <1>1, <1>4, <2>2 DEF Discarded, Discard, TypeOK
<1>5. CASE Discarded(t) /\ Evict(t)
  <2>1. frames' = [frames EXCEPT ![victim[t].key[1]] = @ \ {victim[t].key[2]}]
    BY <1>5, ChosenResident DEF Evict, Chosen
  <2>2. k # victim[t].key
    BY <1>1, <2>1 DEF TypeOK
  <2> QED
    BY <1>1, <1>5, <2>2 DEF Discarded, Discard, TypeOK
<1>6. CASE Forgotten(t)
  BY <1>6 DEF Forgotten, CacheInv, RegistryDistinct
<1>7. CASE Clear(t)
  BY <1>7 DEF Clear
<1> QED
  BY <1>2, <1>3, <1>4, <1>5, <1>6, <1>7, MemoryStep

\* A writer keeps the lock through the steps of others.
LEMMA WriterStays ==
  ASSUME CacheInv, NEW t \in Thread, Start(t) \/ Step(t),
         NEW f \in File, NEW u \in writer[f], u # t
  PROVE  u \in writer'[f] /\ todo'[u] = todo[u]
<1>1. TypeOK /\ u \in Thread
  BY DEF CacheInv, TypeOK
<1>2. todo'[u] = todo[u]
  BY <1>1, OthersWait
<1>3. CASE QuietStep(t) \/ OpenFile(t) \/ Insert(t) \/ ReadWarm(t) \/ Evict(t)
  BY <1>2, <1>3 DEF QuietStep, OpenFile, Insert, ReadWarm, Evict, locks
<1>4. CASE Load(t) \/ BatchFails(t)
  <2>1. writer[hold[t]] = {}
    BY <1>4 DEF Load, BatchFails, WriteFree
  <2> QED
    BY <1>1, <1>2, <1>4, <2>1 DEF Load, BatchFails, TypeOK
<1>5. CASE Record(t)
  BY <1>1, <1>2, <1>5 DEF Record, locks, TypeOK
<1> QED
  BY <1>1, <1>2, <1>3, <1>4, <1>5, QuietSteps

\* A frame that stays in memory stays counted, or is being recorded.
LEMMA CountedStays ==
  ASSUME CacheInv, NEW t \in Thread, Start(t) \/ Step(t),
         NEW n \in Table, registry[n] # NoFile, registry'[n] = registry[n],
         NEW i \in frames[registry[n]], i \in frames'[registry[n]]
  PROVE  CountedFrame(registry[n], i)'
<1> DEFINE f == registry[n]
           k == <<f, i>>
<1>1. TypeOK /\ LocksHeld /\ f \in File /\ i \in Frame /\ k \in Key
  BY DEF CacheInv, TypeOK, Key
<1>2. CASE lastUsed[k] # 0
  BY <1>1, <1>2, EntryStays DEF CountedFrame
<1>3. CASE \E u \in writer[f] : i \in todo[u]
  <2>1. PICK u \in writer[f] : i \in todo[u]
    BY <1>3
  <2>2. u \in Thread /\ pc[u] = "record" /\ hold[u] = f
    BY <1>1 DEF TypeOK, LocksHeld
  <2>3. CASE u # t
    BY <1>1, <2>1, <2>3, WriterStays DEF CountedFrame
  <2>4. CASE u = t
    <3>1. Record(t)
      BY <2>2, <2>4 DEF Start, BeginProbe, Insert, Remove, Clear, Resize, Begin, Step,
            Lookup, OpenedMeanwhile, OpenFile, OpenFails, ReadWarm, ReadCold, Load,
            BatchFails, ProbeFails, WithinBudget, ChooseVictim, Upgrade, UpgradeFails,
            DropStale, Evict, EvictTouched, Forget
    <3>2. PICK j \in todo[t] :
            /\ Account(<<f, j>>)
            /\ todo[t] # {j} => todo' = [todo EXCEPT ![t] = @ \ {j}] /\ writer' = writer
      BY <2>2, <2>4, <3>1 DEF Record, locks
    <3>3. CASE i = j
      BY <1>1, <3>2, <3>3 DEF Account, CountedFrame, TypeOK
    <3>4. CASE i # j
      BY <1>1, <2>1, <2>4, <3>2, <3>4 DEF CountedFrame, TypeOK
    <3> QED
      BY <3>3, <3>4
  <2> QED
    BY <2>3, <2>4
<1> QED
  BY <1>2, <1>3 DEF CacheInv, Counted

\* Every frame of a registered file is counted, or about to be.
LEMMA CountedStep ==
  ASSUME CacheInv, NEW t \in Thread, Start(t) \/ Step(t)
  PROVE  Counted'
<1>1. TypeOK /\ LocksHeld /\ OwnsFile
  BY DEF CacheInv
<1>2. SUFFICES ASSUME NEW n \in Table, registry'[n] # NoFile, NEW i \in frames'[registry'[n]]
               PROVE  CountedFrame(registry[n], i)'
  BY DEF Counted, CountedFrame
<1> DEFINE f == registry'[n]
<1>3. registry'[n] = registry[n]
  <2>1. CASE OpenFile(t) \/ Insert(t)
    <3>1. PICK m \in Table, g \in File :
            /\ registry' = [registry EXCEPT ![m] = g]
            /\ frames' = [frames EXCEPT ![g] = {}]
      BY <1>1, <2>1 DEF OpenFile, Insert, TypeOK
    <3> QED
      BY <1>1, <1>2, <3>1 DEF TypeOK
  <2>2. CASE ~ OpenFile(t) /\ ~ Insert(t)
    BY <1>1, <1>2, <2>2, RegistryStep DEF TypeOK
  <2> QED
    BY <2>1, <2>2
<1>4. CASE i \in frames[f]
  BY <1>2, <1>3, <1>4, CountedStays
<1>5. CASE i \notin frames[f]
  <2>1. f \in File
    BY <1>1, <1>2, <1>3 DEF TypeOK
  <2>2. Load(t) \/ BatchFails(t)
    BY <1>1, <1>2, <1>5, <2>1, FramesStep DEF Opened, Evicting, TypeOK
  <2>3. hold[t] = f
    BY <1>1, <1>2, <1>5, <2>1, <2>2 DEF Load, BatchFails, TypeOK
  <2>4. CASE Load(t)
    BY <1>1, <1>2, <1>5, <2>1, <2>3, <2>4 DEF Load, CountedFrame, TypeOK
  <2>5. CASE BatchFails(t)
    <3>1. PICK new \in Installed(want[t] \ frames[f]) :
            /\ frames' = [frames EXCEPT ![f] = @ \cup new]
            /\ todo' = [todo EXCEPT ![t] = want[t] \cap (frames[f] \cup new)]
            /\ want[t] \cap (frames[f] \cup new) # {} => writer' = [writer EXCEPT ![f] = {t}]
      BY <2>3, <2>5 DEF BatchFails
    <3>2. i \in new /\ i \in want[t]
      BY <1>1, <1>2, <1>5, <2>1, <3>1 DEF Installed, TypeOK
    <3> QED
      BY <1>1, <2>1, <3>1, <3>2 DEF CountedFrame, TypeOK
  <2> QED
    BY <2>2, <2>4, <2>5
<1> QED
  BY <1>4, <1>5

-------------------------------------------------------------------------------
(* Whoever exceeds the budget, someone is left to enforce it.               *)

Enforcing(t) == pc[t] \in {"enforce"} \cup Chosen \/ (pc[t] = "record" /\ batch[t])

\* A thread that enforces the budget goes on until it is met.
LEMMA EnforcingGoesOn ==
  ASSUME CacheInv, NEW t \in Thread, Start(t) \/ Step(t), Enforcing(t), OverBudget(resident)'
  PROVE  Enforcing(t)'
<1>1. TypeOK
  BY DEF CacheInv
<1>2. pc[t] \in {"enforce", "upgrade", "drop", "evict", "record"}
  BY DEF Enforcing, Chosen
<1>3. CASE Record(t)
  BY <1>1, <1>3 DEF Record, Enforcing, Chosen, MustEnforce, TypeOK
<1>4. CASE WithinBudget(t)
  BY <1>4 DEF WithinBudget, OverBudget, memory
<1>5. CASE ChooseVictim(t)
  BY <1>1, <1>5, NothingToEvict DEF ChooseVictim, Enforcing, Chosen, TypeOK
<1>6. CASE Upgrade(t) \/ UpgradeFails(t)
  BY <1>1, <1>6 DEF Upgrade, UpgradeFails, Enforcing, Chosen, TypeOK
<1>7. CASE DropStale(t) \/ EvictTouched(t)
  BY <1>1, <1>7 DEF DropStale, EvictTouched, Loop, Enforcing, TypeOK
<1>8. CASE Evict(t)
  BY <1>1, <1>8, ChosenResident DEF Evict, Loop, Enforcing, Chosen, TypeOK
<1> QED
  BY <1>2, <1>3, <1>4, <1>5, <1>6, <1>7, <1>8
     DEF Start, BeginProbe, Insert, Remove, Clear, Resize, Begin, Step, Lookup,
         OpenedMeanwhile, OpenFile, OpenFails, ReadWarm, ReadCold, Load, BatchFails,
         ProbeFails, Forget

\* More bytes than those over budget are over budget.
LEMMA OverBudgetGrows ==
  ASSUME assigned \in Budgets, NEW a \in Nat, NEW b \in Nat, a <= b, OverBudget(a)
  PROVE  OverBudget(b)
BY BudgetAssumption DEF OverBudget

\* Only an access or a new budget can exceed it, and its thread then enforces it.
LEMMA ExceededByEnforcer ==
  ASSUME CacheInv, NEW t \in Thread, Start(t) \/ Step(t),
         ~ OverBudget(resident), OverBudget(resident)'
  PROVE  Enforcing(t)'
<1>1. /\ TypeOK /\ resident \in Nat /\ resident' \in Nat /\ assigned \in Budgets
      /\ resident = BytesOf(Entries)
  BY ResidentStep DEF CacheInv, TypeOK, ResidentExact
<1>2. ASSUME assigned' = assigned, resident' <= resident PROVE FALSE
  BY <1>1, <1>2, OverBudgetGrows DEF OverBudget
<1>3. CASE UNCHANGED memory
  BY <1>1, <1>2, <1>3 DEF memory
<1>4. CASE Record(t)
  <2>1. pc[t] = "record" /\ assigned' = assigned
    BY <1>4 DEF Record
  <2>2. OverBudget(resident')
    BY <2>1 DEF OverBudget
  <2>3. ~ batch[t] => \A i \in todo[t] : todo[t] = {i}
    BY <2>1 DEF CacheInv, SingleFrame, RecordsWanted, Requesting
  <2> QED
    BY <1>1, <1>4, <2>1, <2>2, <2>3 DEF Record, Enforcing, MustEnforce, TypeOK
<1>5. CASE Discarded(t)
  <2>1. victim[t].key \in Key
    BY <1>5, ChosenEntry DEF Discarded, Chosen
  <2>2. Bytes[victim[t].key[2]] \in Nat
    BY <2>1, BytesAssumption DEF Key
  <2> QED
    BY <1>1, <1>2, <1>5, <2>2 DEF Discarded, Discard
<1>6. CASE Forgotten(t)
  <2>1. EntriesOf(hold[t]) \in SUBSET Key
    BY DEF EntriesOf, Entries
  <2>2. Released(hold[t]) \in Nat
    BY <2>1, BytesOfNat DEF Released
  <2> QED
    BY <1>1, <1>2, <1>6, <2>2 DEF Forgotten
<1>7. CASE Cleared
  BY <1>1, <1>2, <1>7 DEF Cleared
<1>8. CASE Resize(t)
  BY <1>1, <1>8 DEF Resize, Enforcing, TypeOK
<1> QED
  BY <1>3, <1>4, <1>5, <1>6, <1>7, <1>8, MemoryStep

\* Over budget, some thread is still to enforce the budget.
LEMMA EnforcedStep ==
  ASSUME CacheInv, NEW t \in Thread, Start(t) \/ Step(t)
  PROVE  SomeoneEnforces'
<1> SUFFICES ASSUME OverBudget(resident)' PROVE \E u \in Thread : Enforcing(u)'
  BY DEF SomeoneEnforces, Enforcing
<1>1. CASE ~ OverBudget(resident)
  BY <1>1, ExceededByEnforcer
<1>2. CASE OverBudget(resident)
  <2>1. PICK u \in Thread : Enforcing(u)
    BY <1>2 DEF CacheInv, SomeoneEnforces, Enforcing
  <2>2. CASE u = t
    BY <2>1, <2>2, EnforcingGoesOn
  <2>3. CASE u # t
    BY <2>1, <2>3, OthersWait DEF Enforcing, CacheInv
  <2> QED
    BY <2>2, <2>3
<1> QED
  BY <1>1, <1>2

-------------------------------------------------------------------------------

\* Every step of a thread preserves the invariant.
LEMMA StepPreserves ==
  ASSUME CacheInv, NEW t \in Thread, Start(t) \/ Step(t)
  PROVE  CacheInv'
BY TypeStep, OwnsStep, LocksStep, WantedStep, SingleStep, ClockedStep, VictimStep,
   GoneStep, DistinctStep, ResidentStep, EntriesStep, CountedStep, EnforcedStep
   DEF CacheInv

\* So does a step that changes nothing.
LEMMA StutterPreserves ==
  ASSUME CacheInv, UNCHANGED vars
  PROVE  CacheInv'
BY DEF CacheInv, vars, locks, memory, request, TypeOK, OwnsFile, LocksHeld, RecordsWanted,
       SingleFrame, Clocked, VictimOldest, DroppedGone, Live, RegistryDistinct,
       ResidentExact, EntriesResident, Counted, SomeoneEnforces, OverBudget, Entries

\* The invariant is inductive.
LEMMA NextPreserves ==
  ASSUME CacheInv, [Next]_vars
  PROVE  CacheInv'
BY StepPreserves, StutterPreserves DEF Next, Quiet

\* The inductive invariant, and with it the type correctness of every variable.
THEOREM CacheInvariant == Spec => []CacheInv
BY InitHolds, NextPreserves, PTL DEF Spec

\* Every variable of the cache keeps its type.
THEOREM CacheTyped == Spec => []TypeOK
<1>1. CacheInv => TypeOK
  BY DEF CacheInv
<1> QED
  BY <1>1, CacheInvariant, PTL

\* For any number of threads, tables and files and any frame sizes, the bytes counted
\* are those of the entries (CacheMemory.resident_bytes): no race of accesses, evictions
\* and forgotten files makes the count drift or underflow.
THEOREM ResidentBytesExact == Spec => []ResidentExact
<1>1. CacheInv => ResidentExact
  BY DEF CacheInv
<1> QED
  BY <1>1, CacheInvariant, PTL

\* Every entry's frame is in memory, and enforce_limit returns neither of its internal
\* errors, though it chooses its victim without the file's lock.
THEOREM EvictionNeverFails == Spec => []EntriesResident
<1>1. CacheInv => EntriesResident
  BY DEF CacheInv
<1> QED
  BY <1>1, CacheInvariant, PTL

\* Every frame a registered file has in memory is counted or is being recorded under the
\* file's write lock, a batch that failed midway included (probe_direct_outcomes).
THEOREM NoFrameUncounted == Spec => []EveryFrameCounted
<1>1. CacheInv => EveryFrameCounted
  BY DEF CacheInv, Counted, EveryFrameCounted
<1> QED
  BY <1>1, CacheInvariant, PTL

\* Once every operation has returned, the frames in memory fit the budget, whatever the
\* operations were, resizes and removals included (enforce_limit).
THEOREM BudgetKept == Spec => []BudgetBetweenOperations
<1>1. ASSUME CacheInv, \A t \in Thread : pc[t] = "idle"
      PROVE  ~ OverBudget(BytesOf(Retained))
  <2>1. Retained \in SUBSET Entries
    <3>1. ASSUME NEW k \in Retained PROVE k \in Entries
      <4>1. PICK n \in Table : registry[n] # NoFile /\ k \in {registry[n]} \X frames[registry[n]]
        BY DEF Retained
      <4>2. registry[n] \in File /\ frames[registry[n]] \in SUBSET Frame
        BY <1>1, <4>1 DEF CacheInv, TypeOK
      <4>3. k = <<registry[n], k[2]>> /\ k[2] \in frames[registry[n]] /\ k \in Key
        BY <4>1, <4>2 DEF Key
      <4>4. writer[registry[n]] = {}
        BY <1>1, <4>2 DEF CacheInv, TypeOK, LocksHeld
      <4>5. lastUsed[k] # 0
        BY <1>1, <4>1, <4>3, <4>4 DEF CacheInv, Counted
      <4> QED
        BY <4>3, <4>5 DEF Entries
    <3> QED
      BY <3>1
  <2>2. /\ BytesOf(Retained) <= BytesOf(Entries)
        /\ BytesOf(Retained) \in Nat /\ BytesOf(Entries) \in Nat
    BY <2>1, EntriesAreKeys, BytesOfSplit, BytesOfNat
  <2>3. ~ OverBudget(BytesOf(Entries))
    BY <1>1 DEF CacheInv, ResidentExact, SomeoneEnforces, Chosen
  <2> QED
    BY <1>1, <2>2, <2>3, OverBudgetGrows DEF CacheInv, TypeOK
<1>2. CacheInv => BudgetBetweenOperations
  BY <1>1 DEF BudgetBetweenOperations
<1> QED
  BY <1>2, CacheInvariant, PTL

\* A frame is evicted only by the thread that chose its entry, which nobody has touched
\* since.
LEMMA EvictedByEvict ==
  ASSUME CacheInv, [Next]_vars, NEW k \in Key, Evicted(k)
  PROVE  \E t \in Thread : /\ Evict(t) /\ pc[t] \in Chosen /\ StillChosen(t)
                           /\ k = victim[t].key
<1>1. TypeOK /\ k[1] \in File /\ k[2] \in Frame /\ k = <<k[1], k[2]>>
  BY DEF CacheInv, Key
<1>2. frames' # frames
  BY DEF Evicted
<1>3. PICK t \in Thread : Start(t) \/ Step(t)
  BY <1>2 DEF Next, Quiet, vars
<1>4. ~ Opened
  BY <1>1 DEF Opened, Evicted, Reusable, TypeOK
<1>5. ~ Loaded(t)
  BY <1>1 DEF Loaded, Evicted, TypeOK
<1>6. Evicting(t) /\ Evict(t)
  BY <1>2, <1>3, <1>4, <1>5, FramesStep
<1>7. pc[t] \in Chosen /\ StillChosen(t)
  BY <1>6 DEF Evicting, Chosen
<1>8. victim[t].key \in Key
  BY <1>3, <1>7, ChosenEntry
<1>9. k[1] = victim[t].key[1] /\ k[2] = victim[t].key[2]
  BY <1>1, <1>6 DEF Evicting, Evicted, TypeOK
<1>10. k = victim[t].key
  BY <1>1, <1>8, <1>9 DEF Key
<1> QED
  BY <1>6, <1>7, <1>10

\* A frame is the least recently used when it is evicted, however long the evicting
\* thread waited for the file's lock and whatever the others did meanwhile.
THEOREM EvictionOrder == Spec => EvictsLeastRecentlyUsed
<1> DEFINE Oldest == \A k \in Key : Evicted(k) => \A j \in Entries : lastUsed[k] <= lastUsed[j]
<1>1. ASSUME CacheInv, [Next]_vars PROVE Oldest
  <2>1. SUFFICES ASSUME NEW k \in Key, Evicted(k), NEW j \in Entries
                 PROVE  lastUsed[k] <= lastUsed[j]
    OBVIOUS
  <2>2. PICK t \in Thread : pc[t] \in Chosen /\ StillChosen(t) /\ k = victim[t].key
    BY <1>1, <2>1, EvictedByEvict
  <2> QED
    BY <1>1, <2>1, <2>2 DEF CacheInv, VictimOldest, StillChosen
<1>2. CacheInv /\ [Next]_vars => [Oldest]_vars
  BY <1>1
<1> QED
  BY <1>2, CacheInvariant, PTL DEF Spec, EvictsLeastRecentlyUsed

\* Only insert, remove and clear change a registered entry: racing probes open a table
\* once (SharedFileCache::file).
THEOREM ProbesOpenOnce == Spec => RegisteredOnce
<1> DEFINE Once == \A n \in Table : registry[n] # NoFile /\ registry'[n] # registry[n] => ops' # ops
<1>1. ASSUME CacheInv, [Next]_vars PROVE Once
  <2>1. SUFFICES ASSUME NEW n \in Table, registry[n] # NoFile, registry'[n] # registry[n]
                 PROVE  ops' # ops
    OBVIOUS
  <2>2. PICK t \in Thread : Start(t) \/ Step(t)
    BY <1>1, <2>1 DEF Next, Quiet, vars
  <2>3. Clear(t) \/ Insert(t) \/ Remove(t) \/ OpenFile(t)
    BY <1>1, <2>1, <2>2, RegistryStep
  <2>4. ~ OpenFile(t)
    BY <1>1, <2>1 DEF OpenFile, CacheInv, TypeOK
  <2> QED
    BY <1>1, <2>3, <2>4 DEF Clear, Insert, Remove, Begin, CacheInv, TypeOK
<1>2. CacheInv /\ [Next]_vars => [Once]_vars
  BY <1>1
<1> QED
  BY <1>2, CacheInvariant, PTL DEF Spec, RegisteredOnce

-------------------------------------------------------------------------------
(* No more is evicted than one thread alone would evict, while no operation but *)
(* an eviction makes the bytes fewer or the budget larger.                     *)

ProbesOnly == Admin \subseteq {"clear"}

\* While its victim is untouched, the budget is exceeded.
ChosenOver ==
  /\ \A t \in Thread : pc[t] \notin {"insert", "remove"}
  /\ \A t \in Thread : pc[t] \in Chosen /\ StillChosen(t) => OverBudget(resident)

\* Two threads with untouched victims have chosen the same entry.
LEMMA SameVictim ==
  ASSUME CacheInv, NEW t \in Thread, NEW u \in Thread,
         pc[t] \in Chosen, pc[u] \in Chosen, StillChosen(t), StillChosen(u)
  PROVE  victim[t].key = victim[u].key
<1>1. victim[t].key \in Entries /\ victim[u].key \in Entries
  BY ChosenEntry
<1>2. victim[t].used <= victim[u].used /\ victim[u].used <= victim[t].used
  BY <1>1 DEF CacheInv, VictimOldest, StillChosen
<1>3. victim[t].used = victim[u].used
  BY <1>2, ChosenEntry
<1> QED
  BY <1>1, <1>3 DEF CacheInv, Clocked, StillChosen

\* While only probes run, a thread that has chosen a victim does so over budget.
LEMMA ChosenOverStep ==
  ASSUME ProbesOnly, CacheInv, ChosenOver, NEW t \in Thread, Start(t) \/ Step(t)
  PROVE  ChosenOver'
<1>1. TypeOK /\ TypeOK' /\ CacheInv'
  BY StepPreserves DEF CacheInv
<1>2. ~ Insert(t) /\ ~ Remove(t) /\ ~ Resize(t)
  BY DEF ProbesOnly, Insert, Remove, Resize
<1>3. ASSUME NEW u \in Thread PROVE pc'[u] \notin {"insert", "remove"}
  BY <1>1, <1>2, OthersWait, StateEntered DEF ChosenOver
<1>4. ASSUME NEW u \in Thread, pc'[u] \in Chosen, StillChosen(u)' PROVE OverBudget(resident)'
  <2>1. CASE u = t /\ ChooseVictim(t)
    <3>1. OverBudget(resident) /\ UNCHANGED memory
      BY <2>1 DEF ChooseVictim
    <3> QED
      BY <3>1 DEF OverBudget, memory
  <2>2. CASE ~ (u = t /\ ChooseVictim(t))
    <3>1. pc[u] \in Chosen /\ victim'[u] = victim[u]
      BY <1>1, <1>4, <2>2, OthersWait, StateEntered DEF Chosen, Upgrade, UpgradeFails
    <3> DEFINE k == victim[u].key
    <3>2. /\ lastUsed'[k] = victim[u].used /\ victim[u].used \in Nat \ {0}
          /\ k \in Key /\ victim[u].used <= clock /\ clock \in Nat
      BY <1>1, <1>4, <3>1, ChosenEntry DEF StillChosen, CacheInv, VictimOldest, TypeOK
    <3>3. k \in Entries' /\ lastUsed'[k] # clock + 1
      BY <3>2 DEF Entries, Key
    <3>4. lastUsed'[k] = lastUsed[k]
      BY <3>3, AccessOrder
    <3>5. StillChosen(u)
      BY <3>2, <3>4 DEF StillChosen
    <3>6. OverBudget(resident)
      BY <3>1, <3>5 DEF ChosenOver
    <3>7. CASE UNCHANGED memory
      BY <3>6, <3>7 DEF memory, OverBudget
    <3>8. CASE Recorded(t)
      <4>1. PICK i \in todo[t] : pc[t] = "record" /\ Account(<<hold[t], i>>)
        BY <3>8 DEF Recorded
      <4>2. Bytes[i] \in Nat /\ resident \in Nat
        BY <1>1, <4>1, RecordedKey, BytesAssumption DEF TypeOK
      <4>3. resident <= resident' /\ resident' \in Nat
        BY <1>1, <4>1, <4>2 DEF Account
      <4>4. OverBudget(resident')
        BY <1>1, <3>6, <4>2, <4>3, OverBudgetGrows DEF TypeOK
      <4> QED
        BY <3>8, <4>4 DEF Recorded, OverBudget
    <3>9. CASE Discarded(t)
      <4>1. k = victim[t].key
        BY <3>1, <3>5, <3>9, SameVictim DEF Discarded, Chosen
      <4>2. lastUsed'[k] = 0
        BY <1>1, <3>2, <3>9, <4>1 DEF Discarded, Discard, TypeOK
      <4> QED
        BY <3>2, <4>2
    <3>10. ~ Forgotten(t)
      BY DEF ChosenOver, Forgotten
    <3>11. ~ Clear(t)
      BY <3>1 DEF Clear, Chosen
    <3> QED
      BY <1>2, <3>7, <3>8, <3>9, <3>10, <3>11, MemoryStep
  <2> QED
    BY <2>1, <2>2
<1> QED
  BY <1>3, <1>4 DEF ChosenOver

\* Threads that enforce the budget together evict no frame once it is met
\* (SharedFileCache::enforce_limit), as long as operations are probes.
THEOREM EvictionNeeded ==
  ASSUME ProbesOnly PROVE Spec => EvictsOnlyOverBudget
<1> DEFINE Needed == (\E k \in Key : Evicted(k)) => OverBudget(resident)
<1>1. Init => ChosenOver
  BY DEF Init, ChosenOver, Chosen
<1>2. ASSUME CacheInv, ChosenOver, [Next]_vars PROVE ChosenOver'
  <2>1. CASE UNCHANGED vars
    BY <1>2, <2>1 DEF vars, memory, ChosenOver, StillChosen, OverBudget
  <2> QED
    BY <1>2, <2>1, ChosenOverStep DEF Next, Quiet
<1>3. ASSUME CacheInv, ChosenOver, [Next]_vars PROVE Needed
  <2>1. SUFFICES ASSUME NEW k \in Key, Evicted(k) PROVE OverBudget(resident)
    OBVIOUS
  <2>2. \E t \in Thread : pc[t] \in Chosen /\ StillChosen(t)
    BY <1>3, <2>1, EvictedByEvict
  <2> QED
    BY <1>3, <2>2 DEF ChosenOver
<1>4. CacheInv /\ ChosenOver /\ [Next]_vars => [Needed]_vars
  BY <1>3
<1> QED
  BY <1>1, <1>2, <1>4, CacheInvariant, PTL DEF Spec, EvictsOnlyOverBudget
===============================================================================
