-------------------------- MODULE LsmStorageProofs --------------------------
(***************************************************************************)
(* Compaction next to the write path, until the directory is opened again: *)
(* with compactions one at a time, readers see the latest values, every    *)
(* table a reader needs is open and has its file, and the assertions of    *)
(* apply_compaction_result hold.                                           *)
(***************************************************************************)
EXTENDS LsmStorage, WritePathProofs, CompactionProofs

-----------------------------------------------------------------------------
(* The inductive invariant *)

(* No two compactions run at the same time: the compaction thread has no   *)
(* other, and with NoCompaction callers of force_full_compaction() do not  *)
(* overlap.                                                                *)
OneCompaction ==
  \A t, u \in Threads : pc[t] \in CompactionSteps /\ pc[u] \in CompactionSteps => t = u

Types ==
  /\ TypeOK /\ next_sst_id \in 1 .. MaxId + 1
  /\ job = [t \in Threads |-> job[t]]
  /\ \A t \in Threads :
       /\ job[t] = [task |-> job[t].task, output |-> job[t].output, remove |-> job[t].remove]
       /\ job[t].output \in Seq(Ids) /\ job[t].remove \in SUBSET Ids

(* Id 0 belongs to the first MemTable, which is the oldest while it lives: *)
(* its tier, like an empty one, is named 0 and has to be the last.         *)
ZeroOldest ==
  LET imm == state.imm_memtables IN
  /\ state.memtable = 0 => imm = <<>>
  /\ \A i \in DOMAIN imm : imm[i] = 0 => i = Len(imm)
  /\ CompactionOptions.type = "Tiered" /\ 0 \in LiveMemtables => state.levels = <<>>

(* What holds of the state, whoever is in the middle of something: no      *)
(* table is in two places, the levels are as the strategy keeps them, and  *)
(* the tables have their files.                                            *)
StateHolds ==
  /\ RefsApart(state) /\ LevelsShape(sst, state)
  /\ ZeroOldest /\ state.sstables \subseteq files

(* The tables only a compaction knows: its output before it is installed,  *)
(* its input after that.                                                   *)
Held(t) ==
  IF pc[t] = "apply" THEN ToSet(job[t].output)
  ELSE IF pc[t] \in {"compact_record", "remove"} THEN job[t].remove
  ELSE {}

(* They have ids of their own. *)
HeldApart(t) ==
  \A id \in Held(t) :
    /\ id < next_sst_id /\ id \notin state.sstables /\ id \notin LiveMemtables
    /\ \A u \in Threads : pc[u] = "freeze_swap" => new_id[u] # id

(* The task of a compaction fits the state that its result will find, and  *)
(* the output holds what the merge of the inputs gave.                     *)
JobHolds(t) ==
  /\ pc[t] \in {"compact", "apply"} => TaskFits(Ids, state, job[t].task)
  /\ pc[t] = "apply" => /\ OutputHolds(sst, state, job[t].task, job[t].output)
                        /\ ToSet(job[t].output) \subseteq files \ {0}

(* The id of a new MemTable is not 0, and a table about to be installed by *)
(* a flush has its file and is not empty.                                  *)
NewHolds(t) ==
  /\ pc[t] = "freeze_swap" => new_id[t] # 0
  /\ pc[t] = "flush_swap" => new_id[t] \in files /\ sst[new_id[t]] # EmptyTable

ThreadHolds(t) == HeldApart(t) /\ JobHolds(t) /\ NewHolds(t)

LsmIInv == IInv /\ StateHolds /\ \A t \in Threads : ThreadHolds(t)

(* Until the directory is opened again. *)
FirstLife ==
  /\ opens \in 1 .. MaxOpens
  /\ opens = 1 => /\ Types /\ InputsUnmoved /\ (life # "down" => LsmIInv)
                  /\ buffered = NoFrames

-----------------------------------------------------------------------------
(* Steps that leave the state alone *)

(* The types of the modules about compaction, with Ids for the ids. *)
LEMMA StateTypes ==
  ASSUME TypeOK
  PROVE  /\ state \in StateOver(Ids) /\ sst \in [Ids -> Table] /\ Ids \subseteq Nat
         /\ state.imm_memtables \in Seq(Ids) /\ state.memtable \in Ids
         /\ state.sstables \subseteq Ids
<1>1. state \in LsmStorageState /\ sst \in [Ids -> Table]
  BY DEF TypeOK
<1>2. LsmStorageState = StateOver(Ids)
  BY DEF LsmStorageState, StateOver, LevelOver, Level
<1>3. Ids \subseteq Nat
  BY BoundsAssumption DEF Ids
<1> QED BY <1>1, <1>2, <1>3 DEF StateOver

(* The invariant of the write path says that the tables are open. *)
LEMMA StateOpen == ASSUME IInv PROVE RefsOpen(state)
BY DEF IInv, TablesOpen, RefsOpen

(* The steps at which a thread knows of tables that the state does not. *)
Watched == {"compact", "apply", "compact_record", "remove", "freeze_swap", "flush_swap"}

(* Nothing is said of a thread at any other step. *)
LEMMA Unwatched == ASSUME NEW t, pc[t] \notin Watched PROVE ThreadHolds(t)
BY DEF Watched, ThreadHolds, HeldApart, Held, JobHolds, NewHolds

(* New ids are taken from the counter, and the state and what a thread     *)
(* knows stays.                                                            *)
Spared(t) ==
  /\ UNCHANGED state /\ files \subseteq files' /\ next_sst_id <= next_sst_id'
  /\ \A u \in Threads : pc'[u] = "freeze_swap" =>
       (pc[u] = "freeze_swap" /\ new_id'[u] = new_id[u]) \/ new_id'[u] >= next_sst_id
  /\ pc'[t] = pc[t] /\ new_id'[t] = new_id[t] /\ job'[t] = job[t]
  /\ \A id \in state.sstables \cup Held(t) : sst'[id] = sst[id]
  /\ pc[t] = "flush_swap" => sst'[new_id[t]] = sst[new_id[t]]

(* A thread that a step of another spares. *)
LEMMA ThreadSpared ==
  ASSUME Types, Types', IInv, NEW t \in Threads, ThreadHolds(t), Spared(t)
  PROVE  ThreadHolds(t)'
<1>1. HeldApart(t)'
  <2>1. Held(t)' = Held(t)
    BY DEF Spared, Held
  <2>2. ASSUME NEW id \in Held(t)
        PROVE  /\ id < next_sst_id /\ id \notin state.sstables /\ id \notin LiveMemtables
               /\ \A u \in Threads : pc[u] = "freeze_swap" => new_id[u] # id
    BY DEF ThreadHolds, HeldApart
  <2>3. LiveMemtables' = LiveMemtables
    BY DEF Spared, LiveMemtables
  <2>4. Held(t) \subseteq Ids
    BY DEF Held, Types, ToSet
  <2>5. ASSUME NEW id \in Held(t) PROVE id < next_sst_id' /\ ~(id >= next_sst_id)
    <3>1. id \in Nat /\ next_sst_id \in Nat /\ next_sst_id' \in Nat
      BY <2>4, BoundsAssumption DEF Types, Ids
    <3>2. id < next_sst_id /\ next_sst_id <= next_sst_id'
      BY <2>2 DEF Spared
    <3> QED BY ONLY <3>1, <3>2
  <2> QED BY <2>1, <2>2, <2>3, <2>5 DEF HeldApart, Spared
<1>2. JobHolds(t)'
  <2>1. CASE pc[t] = "apply"
    <3>1. /\ TaskFits(Ids, state, job[t].task)
          /\ OutputHolds(sst, state, job[t].task, job[t].output)
          /\ ToSet(job[t].output) \subseteq files \ {0}
      BY <2>1 DEF ThreadHolds, JobHolds
    <3>2. Held(t) = ToSet(job[t].output)
      BY <2>1 DEF Held
    <3>3. \A id \in state.sstables \cup ToSet(job[t].output) : sst'[id] = sst[id]
      BY <3>2 DEF Spared
    <3>4. state \in StateOver(Ids) /\ RefsOpen(state)
      BY StateTypes, StateOpen DEF Types
    <3>5. OutputHolds(sst', state, job[t].task, job[t].output)
      BY ONLY <3>1, <3>3, <3>4, HoldsSame
    <3> QED BY <2>1, <3>1, <3>5 DEF JobHolds, Spared
  <2>2. CASE pc[t] # "apply"
    BY <2>2 DEF JobHolds, Spared, ThreadHolds
  <2> QED BY <2>1, <2>2
<1>3. NewHolds(t)'
  BY DEF ThreadHolds, NewHolds, Spared
<1> QED BY <1>1, <1>2, <1>3 DEF ThreadHolds

(* The state and its tables stay. *)
LEMMA StateSpared ==
  ASSUME IInv, StateHolds, UNCHANGED state, files \subseteq files',
         \A id \in state.sstables : sst'[id] = sst[id]
  PROVE  StateHolds'
<1>1. RefsOpen(state)
  BY StateOpen
<1>2. LevelsShape(sst', state)
  BY <1>1, ShapeSame DEF StateHolds
<1>3. ZeroOldest'
  BY DEF StateHolds, ZeroOldest, LiveMemtables
<1> QED BY <1>2, <1>3 DEF StateHolds

(* A step of t that keeps the state and the tables it names: nothing is    *)
(* said of t after it, and the other threads are spared.                   *)
LEMMA StepSpares ==
  ASSUME Types, Types', LsmIInv, NEW t \in Threads, pc'[t] \notin Watched,
         UNCHANGED <<state, sst>>, files \subseteq files', next_sst_id <= next_sst_id',
         \A u \in Threads \ {t} :
           pc'[u] = pc[u] /\ new_id'[u] = new_id[u] /\ job'[u] = job[u]
  PROVE  StateHolds' /\ \A u \in Threads : ThreadHolds(u)'
<1>1. StateHolds'
  BY StateSpared DEF LsmIInv
<1>2. ThreadHolds(t)'
  BY Unwatched, Zenon DEF Watched, ThreadHolds, HeldApart, Held, JobHolds, NewHolds
<1>3. ASSUME NEW u \in Threads \ {t} PROVE ThreadHolds(u)'
  <2>1. Spared(u)
    BY DEF Spared, Watched
  <2> QED BY <2>1, ThreadSpared DEF LsmIInv
<1> QED BY <1>1, <1>2, <1>3

-----------------------------------------------------------------------------
(* Steps of the write path *)

(* Steps that only move the thread that takes them. *)
QuietStep(t) ==
  \/ t \in Clients /\ (\/ Put(t) \/ PutInsert(t) \/ PutCheck(t) \/ ForceFreeze(t)
                       \/ FreezeRecord(t) \/ ForceFlush(t) \/ Sync(t))
  \/ t = FlushThread /\ TriggerFlush
  \/ FlushBegin(t) /\ state.imm_memtables = <<>>
  \/ FlushRecord(t)

(* The counter and the jobs keep their types. *)
LEMMA NextTypes ==
  ASSUME Types, Next, UNCHANGED lsVars
  PROVE  Types'
<1>1. TypeOK'
  BY NextTypeOK DEF Types
<1>2. next_sst_id' \in 1 .. MaxId + 1
  <2>1. \/ next_sst_id' = next_sst_id
        \/ next_sst_id' = next_sst_id + 1 /\ next_sst_id <= MaxId
    BY ZenonT(30) DEF Next, ClientStep, FlushThreadStep, Put, PutLog, PutInsert, PutCheck,
           ForceFreeze, FreezeStep, FreezeBegin, FreezeSwap, FreezeRecord, ForceFlush, FlushStep, FlushBegin,
           FlushEmpty, FlushSwap, FlushRecord, Sync, TriggerFlush, stateVars
  <2>2. next_sst_id \in 1 .. MaxId + 1 /\ MaxId \in Nat
    BY BoundsAssumption DEF Types
  <2> QED BY ONLY <2>1, <2>2
<1> QED BY <1>1, <1>2 DEF Types, lsVars

(* The steps that keep the state. *)
LEMMA QuietHolds ==
  ASSUME Types, Types', LsmIInv, NEW t \in Threads, QuietStep(t), UNCHANGED lsVars
  PROVE  StateHolds' /\ \A u \in Threads : ThreadHolds(u)'
<1>1. UNCHANGED <<state, sst, files, next_sst_id, job>>
  BY DEF QuietStep, Put, PutLog, PutInsert, PutCheck, ForceFreeze, FreezeRecord, ForceFlush,
         Sync, TriggerFlush, FlushBegin, FlushRecord, stateVars, diskVars, lsVars
<1>2. PICK p \in {"idle", "logged", "inserted", "freeze", "flush"} : pc' = [pc EXCEPT ![t] = p]
  <2>1. CASE t \in Clients /\ Sync(t)
    <3>1. pc' = pc /\ pc[t] = "idle"
      BY <2>1 DEF Sync, threadVars
    <3>2. pc' = [pc EXCEPT ![t] = "idle"]
      BY <3>1 DEF Types, TypeOK
    <3> QED BY <3>2
  <2>2. CASE ~(t \in Clients /\ Sync(t))
    BY <2>2 DEF QuietStep, Put, PutLog, PutInsert, PutCheck, ForceFreeze, FreezeRecord, ForceFlush,
         TriggerFlush, FlushBegin, FlushRecord
  <2> QED BY <2>1, <2>2
<1>3. PICK i \in Ids : new_id' = [new_id EXCEPT ![t] = i]
  <2>1. \/ new_id' = new_id
        \/ new_id' = [new_id EXCEPT ![t] = 0]
    BY DEF QuietStep, Put, PutLog, PutInsert, PutCheck, ForceFreeze, FreezeRecord, ForceFlush,
           Sync, TriggerFlush, FlushBegin, FlushRecord, threadVars
  <2>2. new_id = [new_id EXCEPT ![t] = new_id[t]] /\ new_id[t] \in Ids /\ 0 \in Ids
    BY BoundsAssumption DEF Types, TypeOK, Ids
  <2> QED BY <2>1, <2>2
<1>4. pc'[t] \notin Watched
      /\ \A u \in Threads \ {t} : pc'[u] = pc[u] /\ new_id'[u] = new_id[u] /\ job'[u] = job[u]
  BY <1>1, <1>2, <1>3 DEF Types, TypeOK, Watched
<1>5. files \subseteq files' /\ next_sst_id <= next_sst_id'
  BY <1>1 DEF Types, TypeOK
<1> QED BY <1>1, <1>4, <1>5, StepSpares

(* force_freeze_memtable() takes a new id. *)
LEMMA FreezeBeginHolds ==
  ASSUME Types, Types', LsmIInv, NEW t \in Threads, FreezeBegin(t), UNCHANGED lsVars
  PROVE  StateHolds' /\ \A u \in Threads : ThreadHolds(u)'
<1>1. /\ UNCHANGED <<state, sst, files, job>> /\ next_sst_id' = next_sst_id + 1
      /\ pc' = [pc EXCEPT ![t] = "freeze_swap"] /\ new_id' = [new_id EXCEPT ![t] = next_sst_id]
  BY DEF FreezeBegin, lsVars
<1>2. next_sst_id \in Nat /\ next_sst_id # 0
  BY DEF Types
<1>3. /\ pc'[t] = "freeze_swap" /\ new_id'[t] = next_sst_id
      /\ \A u \in Threads \ {t} : pc'[u] = pc[u] /\ new_id'[u] = new_id[u]
  BY <1>1 DEF Types, TypeOK
<1>4. next_sst_id <= next_sst_id' /\ next_sst_id >= next_sst_id
  BY <1>1, <1>2
<1>5. StateHolds'
  BY <1>1, StateSpared DEF LsmIInv
<1>6. ThreadHolds(t)'
  BY <1>2, <1>3 DEF ThreadHolds, HeldApart, Held, JobHolds, NewHolds
<1>7. ASSUME NEW u \in Threads \ {t} PROVE ThreadHolds(u)'
  <2>1. Spared(u)
    BY <1>1, <1>3, <1>4 DEF Spared
  <2> QED BY <2>1, ThreadSpared DEF LsmIInv
<1> QED BY <1>5, <1>6, <1>7

(* The immutable MemTable to be flushed is none of the tables. *)
LEMMA OldestApart ==
  ASSUME TypeOK, IInv, state.imm_memtables # <<>>
  PROVE  OldestImm \in Ids /\ OldestImm \notin state.sstables /\ OldestImm \in LiveMemtables
<1>1. Len(state.imm_memtables) \in DOMAIN state.imm_memtables /\ OldestImm \in Ids
  BY OldestImmType
<1> QED BY <1>1 DEF OldestImm, IInv, IdsApart, LiveMemtables

(* The file of a MemTable is written anew while its table is unknown.      *)
LEMMA BuildHolds ==
  ASSUME Types, Types', LsmIInv, NEW t \in Threads, state.imm_memtables # <<>>, UNCHANGED job,
         NEW e, sst' = [sst EXCEPT ![OldestImm] = e], files' = files \cup {OldestImm},
         UNCHANGED <<state, next_sst_id>>, state_lock = NoThread,
         pc'[t] \notin Watched \ {"flush_swap"},
         pc'[t] = "flush_swap" => e # EmptyTable /\ new_id'[t] = OldestImm,
         \A u \in Threads \ {t} : pc'[u] = pc[u] /\ new_id'[u] = new_id[u]
  PROVE  StateHolds' /\ \A u \in Threads : ThreadHolds(u)'
<1>1. OldestImm \in Ids /\ OldestImm \notin state.sstables /\ OldestImm \in LiveMemtables
  BY OldestApart DEF Types, LsmIInv
<1>2. sst'[OldestImm] = e /\ \A id \in Ids : id # OldestImm => sst'[id] = sst[id]
  BY <1>1 DEF Types, TypeOK
<1>3. state.sstables \subseteq Ids
  BY StateTypes DEF Types
<1>4. StateHolds'
  BY <1>1, <1>2, <1>3, StateSpared DEF LsmIInv
<1>5. ThreadHolds(t)'
  BY <1>1, <1>2 DEF Watched, ThreadHolds, HeldApart, Held, JobHolds, NewHolds
<1>6. ASSUME NEW u \in Threads \ {t} PROVE ThreadHolds(u)'
  <2>1. pc[u] # "flush_swap"
    BY ThreadsAssumption DEF LsmIInv, IInv, LockHolds, LockedSteps, Threads
  <2>2. Held(u) \subseteq Ids /\ OldestImm \notin Held(u)
    <3>1. Held(u) \subseteq Ids
      BY DEF Held, Types, ToSet
    <3>2. OldestImm \notin Held(u)
      BY <1>1 DEF LsmIInv, ThreadHolds, HeldApart
    <3> QED BY <3>1, <3>2
  <2>3. next_sst_id <= next_sst_id' /\ files \subseteq files'
    BY DEF Types, TypeOK
  <2>4. \A id \in state.sstables \cup Held(u) : sst'[id] = sst[id]
    BY <1>1, <1>2, <1>3, <2>2
  <2>5. \A v \in Threads : pc'[v] = "freeze_swap" => pc[v] = "freeze_swap" /\ new_id'[v] = new_id[v]
    BY DEF Watched
  <2>6. Spared(u)
    BY <2>1, <2>3, <2>4, <2>5 DEF Spared
  <2> QED BY <2>6, ThreadSpared DEF LsmIInv
<1> QED BY <1>4, <1>5, <1>6

(* force_flush_next_imm_memtable() builds the SSTable. *)
LEMMA FlushBeginHolds ==
  ASSUME Types, Types', LsmIInv, NEW t \in Threads, FlushBegin(t), state.imm_memtables # <<>>,
         UNCHANGED lsVars
  PROVE  StateHolds' /\ \A u \in Threads : ThreadHolds(u)'
<1> DEFINE e == mem[OldestImm]
<1>1. /\ sst' = [sst EXCEPT ![OldestImm] = e] /\ files' = files \cup {OldestImm}
      /\ e # EmptyTable /\ state_lock = NoThread /\ UNCHANGED <<state, next_sst_id, job>>
      /\ pc' = [pc EXCEPT ![t] = "flush_swap"] /\ new_id' = [new_id EXCEPT ![t] = OldestImm]
  BY DEF FlushBegin, stateVars, lsVars
<1>2. /\ pc'[t] = "flush_swap" /\ new_id'[t] = OldestImm
      /\ \A u \in Threads \ {t} : pc'[u] = pc[u] /\ new_id'[u] = new_id[u]
  BY <1>1 DEF Types, TypeOK
<1>3. "flush_swap" \notin Watched \ {"flush_swap"}
  OBVIOUS
<1> HIDE DEF e
<1> QED BY <1>1, <1>2, <1>3, BuildHolds

(* A task that fits L0 and the levels. *)
LEMMA FitsSame ==
  ASSUME NEW S, NEW st, NEW st2, NEW task, TaskFits(S, st, task),
         st2.l0_sstables = st.l0_sstables, st2.levels = st.levels
  PROVE  TaskFits(S, st2, task)
BY DEF TaskFits, ForceFullFits, SimpleFits, TieredFits

(* The job of a thread while others change the state. *)
LEMMA JobKept ==
  ASSUME Types, IInv, NEW u \in Threads, JobHolds(u),
         pc'[u] = pc[u], UNCHANGED <<sst, files, job>>, state.sstables \subseteq state'.sstables,
         ASSUME NEW task, TaskFits(Ids, state, task) PROVE TaskFits(Ids, state', task)
  PROVE  JobHolds(u)'
<1>1. CASE pc[u] = "apply"
  <2>1. /\ TaskFits(Ids, state, job[u].task) /\ TaskFits(Ids, state', job[u].task)
        /\ OutputHolds(sst, state, job[u].task, job[u].output)
        /\ ToSet(job[u].output) \subseteq files \ {0}
    BY <1>1 DEF JobHolds
  <2>2. state \in StateOver(Ids) /\ RefsOpen(state)
    BY StateTypes, StateOpen DEF Types
  <2>3. OutputHolds(sst, state', job[u].task, job[u].output)
    BY <2>1, <2>2, HoldsSame
  <2> QED BY <1>1, <2>1, <2>3 DEF JobHolds
<1>2. CASE pc[u] # "apply"
  BY <1>2 DEF JobHolds
<1> QED BY <1>1, <1>2

(* While a thread has state_lock, no other is at a step that needs it. *)
LEMMA LockAlone ==
  ASSUME IInv, NEW t \in Threads, pc[t] \in LockedSteps \/ state_lock = NoThread
  PROVE  \A u \in Threads \ {t} : pc[u] \notin LockedSteps
<1>1. NoThread \notin Threads
  BY ThreadsAssumption DEF Threads
<1> QED BY <1>1 DEF IInv, LockHolds

(* force_freeze_memtable() swaps the new MemTable in. *)
LEMMA FreezeSwapHolds ==
  ASSUME Types, Types', LsmIInv, NEW t \in Threads, FreezeSwap(t), UNCHANGED lsVars
  PROVE  StateHolds' /\ \A u \in Threads : ThreadHolds(u)'
<1> DEFINE imm == state.imm_memtables  imm2 == <<state.memtable>> \o imm
<1>1. /\ pc[t] = "freeze_swap" /\ pc' = [pc EXCEPT ![t] = "freeze_record"]
      /\ UNCHANGED <<sst, files, next_sst_id, new_id, job>>
  BY DEF FreezeSwap, diskVars, lsVars
<1>2. /\ state'.memtable = new_id[t] /\ state'.imm_memtables = imm2
      /\ state'.l0_sstables = state.l0_sstables /\ state'.levels = state.levels
      /\ state'.sstables = state.sstables
  BY DEF FreezeSwap, Types, TypeOK, LsmStorageState
<1>3. imm \in Seq(Ids) /\ state.memtable \in Ids /\ Len(imm) \in Nat /\ DOMAIN imm = 1 .. Len(imm)
  BY StateTypes DEF Types
<1>4. /\ Len(imm2) = Len(imm) + 1 /\ DOMAIN imm2 = 1 .. Len(imm) + 1
      /\ imm2[1] = state.memtable
      /\ \A i \in 1 .. Len(imm) + 1 : i # 1 => i - 1 \in 1 .. Len(imm) /\ imm2[i] = imm[i - 1]
  BY <1>3, ConsShape
<1> HIDE DEF imm2, imm
<1>5. new_id[t] # 0
  BY <1>1 DEF LsmIInv, ThreadHolds, NewHolds
<1>6. \A id \in LiveMemtables' : id = new_id[t] \/ id \in LiveMemtables
  <2>1. ASSUME NEW i \in DOMAIN imm2 PROVE imm2[i] \in LiveMemtables
    <3>1. CASE i = 1
      BY <1>4, <3>1 DEF LiveMemtables
    <3>2. CASE i # 1
      <4>1. i - 1 \in DOMAIN imm /\ imm2[i] = imm[i - 1]
        BY <1>3, <1>4, <2>1, <3>2
      <4> QED BY <4>1 DEF LiveMemtables, imm
    <3> QED BY <3>1, <3>2
  <2> QED BY <1>2, <2>1 DEF LiveMemtables
<1>7. ZeroOldest'
  <2>1. ASSUME NEW i \in DOMAIN imm2, imm2[i] = 0 PROVE i = Len(imm2)
    <3>1. CASE i = 1
      <4>1. imm = <<>>
        BY <1>4, <2>1, <3>1 DEF LsmIInv, StateHolds, ZeroOldest, imm
      <4>2. Len(imm) = 0
        BY <4>1
      <4> QED BY <1>4, <3>1, <4>2
    <3>2. CASE i # 1
      <4>1. i - 1 \in DOMAIN imm /\ imm[i - 1] = 0 /\ i \in Nat
        BY <1>3, <1>4, <2>1, <3>2
      <4>2. i - 1 = Len(imm)
        BY <4>1 DEF LsmIInv, StateHolds, ZeroOldest, imm
      <4> QED BY ONLY <1>3, <1>4, <4>1, <4>2
    <3> QED BY <3>1, <3>2
  <2>2. CompactionOptions.type = "Tiered" /\ 0 \in LiveMemtables' => state'.levels = <<>>
    BY <1>2, <1>5, <1>6 DEF LsmIInv, StateHolds, ZeroOldest
  <2> QED BY <1>2, <1>5, <2>1, <2>2 DEF ZeroOldest
<1>8. StateHolds'
  <2>1. RefsApart(state)' /\ LevelsShape(sst, state)'
    BY <1>1, <1>2 DEF LsmIInv, StateHolds, RefsApart, LevelsShape
  <2> QED BY <1>1, <1>2, <1>7, <2>1 DEF LsmIInv, StateHolds
<1>9. \A u \in Threads \ {t} : pc'[u] = pc[u] /\ pc[u] \notin LockedSteps
  BY <1>1, LockAlone DEF LsmIInv, LockedSteps, Types, TypeOK
<1>10. pc'[t] = "freeze_record"
  BY <1>1 DEF Types, TypeOK
<1>11. ThreadHolds(t)'
  BY <1>10 DEF ThreadHolds, HeldApart, Held, JobHolds, NewHolds
<1>12. ASSUME NEW u \in Threads \ {t} PROVE ThreadHolds(u)'
  <2>1. HeldApart(u)'
    <3>1. Held(u)' = Held(u)
      BY <1>1, <1>9 DEF Held
    <3>2. \A id \in Held(u) : /\ id < next_sst_id /\ id \notin state.sstables
                              /\ id \notin LiveMemtables /\ id # new_id[t]
      BY <1>1 DEF LsmIInv, ThreadHolds, HeldApart
    <3>3. \A v \in Threads : pc'[v] # "freeze_swap"
      BY <1>9, <1>10 DEF LockedSteps
    <3> QED BY <1>1, <1>2, <1>6, <3>1, <3>2, <3>3 DEF HeldApart
  <2>2. JobHolds(u)'
    <3>1. ASSUME NEW task, TaskFits(Ids, state, task) PROVE TaskFits(Ids, state', task)
      BY <1>2, <3>1, FitsSame
    <3>2. JobHolds(u) /\ IInv
      BY DEF LsmIInv, ThreadHolds
    <3> QED BY <1>1, <1>2, <1>9, <3>1, <3>2, JobKept
  <2>3. NewHolds(u)'
    BY <1>9 DEF NewHolds, LockedSteps
  <2> QED BY <2>1, <2>2, <2>3 DEF ThreadHolds
<1> QED BY <1>8, <1>11, <1>12

(* force_flush_next_imm_memtable() swaps the SSTable in. *)
LEMMA FlushSwapHolds ==
  ASSUME Types, Types', LsmIInv, NEW t \in Threads, FlushSwap(t), UNCHANGED lsVars
  PROVE  StateHolds' /\ \A u \in Threads : ThreadHolds(u)'
<1> DEFINE imm == state.imm_memtables  id == new_id[t]  n == Len(imm) - 1
<1>1. /\ pc[t] = "flush_swap" /\ pc' = [pc EXCEPT ![t] = "flush_record"]
      /\ UNCHANGED <<sst, files, next_sst_id, new_id, job>>
  BY DEF FlushSwap, diskVars, lsVars
<1>2. /\ state'.memtable = state.memtable
      /\ state'.imm_memtables = SubSeq(imm, 1, n)
      /\ Flushed(state, state', id)
  BY DEF FlushSwap, AddFlushed, Flushed, Types, TypeOK, LsmStorageState
<1>3. imm # <<>> /\ id = OldestImm
  BY <1>1 DEF LsmIInv, IInv, FlushHolds
<1>4. /\ imm \in Seq(Ids) /\ n \in Nat /\ n + 1 = Len(imm) /\ DOMAIN imm = 1 .. n + 1
      /\ state \in StateOver(Ids) /\ sst \in [Ids -> Table] /\ Ids \subseteq Nat
  BY <1>3, StateTypes DEF Types
<1>5. id \in Ids /\ id \notin state.sstables /\ id \in LiveMemtables /\ id = imm[n + 1]
  BY <1>3, <1>4, OldestApart DEF LsmIInv, Types, OldestImm
<1>6. /\ DOMAIN state'.imm_memtables = 1 .. n /\ Len(state'.imm_memtables) = n
      /\ \A i \in 1 .. n : i \in DOMAIN imm /\ state'.imm_memtables[i] = imm[i]
  BY <1>2, <1>4
<1> HIDE DEF imm, id, n
<1>7. id \in files /\ sst[id] # EmptyTable
  BY <1>1 DEF LsmIInv, ThreadHolds, NewHolds, id
<1>8. LiveMemtables' \subseteq LiveMemtables /\ 0 \notin LiveMemtables'
  <2>1. LiveMemtables' \subseteq LiveMemtables
    BY <1>2, <1>6 DEF LiveMemtables, imm
  <2>2. state.memtable # 0
    BY <1>3 DEF LsmIInv, StateHolds, ZeroOldest, imm
  <2>3. ASSUME NEW i \in 1 .. n PROVE imm[i] # 0
    <3>1. SUFFICES ASSUME imm[i] = 0 PROVE FALSE
      OBVIOUS
    <3>2. i \in DOMAIN imm /\ i = Len(imm)
      BY <1>6, <3>1 DEF LsmIInv, StateHolds, ZeroOldest, imm
    <3> QED BY ONLY <1>4, <3>2, i \in 1 .. n
  <2> QED BY <1>2, <1>6, <2>1, <2>2, <2>3 DEF LiveMemtables
<1>9. ZeroOldest'
  <2>1. \A i \in DOMAIN state'.imm_memtables : state'.imm_memtables[i] # 0
    BY <1>8 DEF LiveMemtables
  <2>2. state'.memtable # 0
    BY <1>8 DEF LiveMemtables
  <2> QED BY <1>8, <2>1, <2>2 DEF ZeroOldest
<1>10. StateHolds'
  <2>1. RefsApart(state) /\ RefsOpen(state) /\ LevelsShape(sst, state)
    BY StateOpen DEF LsmIInv, StateHolds
  <2>2. RefsApart(state')
    BY <1>2, <1>4, <1>5, <2>1, ApartFlushed
  <2>3. CompactionOptions.type = "Tiered" => id # 0 \/ state.levels = <<>>
    BY <1>5 DEF LsmIInv, StateHolds, ZeroOldest
  <2>4. LevelsShape(sst, state')
    BY <1>2, <1>4, <1>5, <1>7, <2>1, <2>3, ShapeFlushed
  <2>5. state'.sstables \subseteq files
    BY <1>2, <1>7 DEF Flushed, LsmIInv, StateHolds
  <2> QED BY <1>1, <1>9, <2>2, <2>4, <2>5 DEF StateHolds
<1>11. \A u \in Threads \ {t} : pc'[u] = pc[u] /\ pc[u] \notin LockedSteps
  BY <1>1, LockAlone DEF LsmIInv, LockedSteps, Types, TypeOK
<1>12. pc'[t] = "flush_record"
  BY <1>1 DEF Types, TypeOK
<1>13. ThreadHolds(t)'
  BY <1>12 DEF ThreadHolds, HeldApart, Held, JobHolds, NewHolds
<1>14. ASSUME NEW u \in Threads \ {t} PROVE ThreadHolds(u)'
  <2>1. HeldApart(u)'
    <3>1. Held(u)' = Held(u)
      BY <1>1, <1>11 DEF Held
    <3>2. \A x \in Held(u) : /\ x < next_sst_id /\ x \notin state.sstables
                             /\ x \notin LiveMemtables /\ x # id
      BY <1>5 DEF LsmIInv, ThreadHolds, HeldApart
    <3>3. \A v \in Threads : pc'[v] # "freeze_swap"
      BY <1>11, <1>12 DEF LockedSteps
    <3>4. state'.sstables = state.sstables \cup {id}
      BY <1>2 DEF Flushed
    <3> QED BY <1>1, <1>8, <3>1, <3>2, <3>3, <3>4 DEF HeldApart
  <2>2. JobHolds(u)'
    <3>1. ASSUME NEW task, TaskFits(Ids, state, task) PROVE TaskFits(Ids, state', task)
      BY <1>2, <1>4, <1>5, <3>1, FitsFlushed
    <3>2. JobHolds(u) /\ IInv
      BY DEF LsmIInv, ThreadHolds
    <3>3. state.sstables \subseteq state'.sstables
      BY <1>2 DEF Flushed
    <3> QED BY <1>1, <1>11, <3>1, <3>2, <3>3, JobKept
  <2>3. NewHolds(u)'
    BY <1>11 DEF NewHolds, LockedSteps
  <2> QED BY <2>1, <2>2, <2>3 DEF ThreadHolds
<1> QED BY <1>10, <1>13, <1>14

(* Every step of the write path keeps the invariant. *)
LEMMA NextHolds ==
  ASSUME Types, LsmIInv, Next, UNCHANGED lsVars
  PROVE  Types' /\ (life' # "down" => LsmIInv')
<1>1. Types'
  BY NextTypes
<1>2. IInv'
  BY NextIInv DEF Types, LsmIInv
<1>3. SUFFICES ASSUME life' # "down"
               PROVE  StateHolds' /\ \A u \in Threads : ThreadHolds(u)'
  BY <1>1, <1>2 DEF LsmIInv
<1>4. ASSUME NEW t \in Threads, FlushStep(t)
      PROVE  StateHolds' /\ \A u \in Threads : ThreadHolds(u)'
  <2>1. CASE FlushBegin(t) /\ state.imm_memtables = <<>>
    BY <1>1, <2>1, QuietHolds DEF QuietStep
  <2>2. CASE FlushBegin(t) /\ state.imm_memtables # <<>>
    BY <1>1, <2>2, FlushBeginHolds
  <2>3. CASE FlushEmpty(t)
    BY <1>3, <2>3 DEF FlushEmpty
  <2>4. CASE FlushSwap(t)
    BY <1>1, <2>4, FlushSwapHolds
  <2>5. CASE FlushRecord(t)
    BY <1>1, <2>5, QuietHolds DEF QuietStep
  <2> QED BY <1>4, <2>1, <2>2, <2>3, <2>4, <2>5 DEF FlushStep
<1>5. ASSUME NEW c \in Clients, ClientStep(c)
      PROVE  StateHolds' /\ \A u \in Threads : ThreadHolds(u)'
  <2>1. c \in Threads
    BY DEF Threads
  <2>2. CASE FreezeBegin(c)
    BY <1>1, <2>1, <2>2, FreezeBeginHolds
  <2>3. CASE FreezeSwap(c)
    BY <1>1, <2>1, <2>3, FreezeSwapHolds
  <2>4. CASE FlushStep(c)
    BY <1>4, <2>1, <2>4
  <2>5. CASE QuietStep(c)
    BY <1>1, <2>1, <2>5, QuietHolds
  <2> QED BY <1>5, <2>2, <2>3, <2>4, <2>5 DEF ClientStep, FreezeStep, QuietStep
<1>6. CASE FlushThreadStep
  <2>1. FlushThread \in Threads
    BY DEF Threads
  <2>2. CASE TriggerFlush
    BY <1>1, <2>1, <2>2, QuietHolds DEF QuietStep
  <2>3. CASE FlushStep(FlushThread)
    BY <1>4, <2>1, <2>3
  <2> QED BY <1>6, <2>2, <2>3 DEF FlushThreadStep
<1> QED BY <1>5, <1>6 DEF Next

-----------------------------------------------------------------------------
(* Compaction *)

(* A step that neither changes the state nor starts anything on the write  *)
(* path keeps the invariant of the write path.                             *)
LEMMA AroundIInv ==
  ASSUME Types, Types', IInv, UNCHANGED <<state, mem, latest, op, new_id>>,
         next_sst_id <= next_sst_id',
         \A id \in state.sstables : sst'[id] = sst[id],
         \A u \in Threads : pc'[u] \in LockedSteps => state_lock' = u,
         \A u \in Threads : pc'[u] \in {"logged", "freeze_swap", "flush_swap"} => pc'[u] = pc[u],
         \A u \in Threads : pc'[u] = "flush_swap" => sst'[new_id[u]] = sst[new_id[u]]
  PROVE  IInv'
<1>0. /\ next_sst_id \in Nat /\ next_sst_id' \in Nat /\ state \in LsmStorageState /\ Ids \subseteq Nat
      /\ new_id \in [Threads -> Ids]
  <2>1. MaxId \in Nat
    BY BoundsAssumption
  <2>2. next_sst_id \in 1 .. MaxId + 1 /\ next_sst_id' \in 1 .. MaxId + 1
    BY DEF Types
  <2>3. next_sst_id \in Nat /\ next_sst_id' \in Nat
    BY ONLY <2>1, <2>2
  <2>4. state \in LsmStorageState /\ new_id \in [Threads -> Ids]
    BY DEF Types, TypeOK
  <2>5. Ids \subseteq Nat
    BY <2>1 DEF Ids
  <2> QED BY <2>3, <2>4, <2>5
<1>1. ASSUME NEW x \in Ids, x < next_sst_id PROVE x < next_sst_id'
  BY <1>0, <1>1
<1>2. IdsApart'
  <2>1. /\ state.memtable \in Ids /\ state.sstables \subseteq Ids
        /\ \A i \in DOMAIN state.imm_memtables : state.imm_memtables[i] \in Ids
    BY <1>0 DEF LsmStorageState
  <2> QED BY <1>1, <2>1 DEF IInv, IdsApart
<1>3. TablesOpen' /\ LockHolds'
  BY DEF IInv, TablesOpen, LockHolds
<1>4. PutHolds'
  BY DEF IInv, PutHolds, Threads
<1>5. FreezeHolds'
  <2>1. \A u \in Threads : new_id[u] \in Ids
    BY <1>0
  <2> QED BY <1>1, <2>1 DEF IInv, FreezeHolds
<1>6. FlushHolds'
  BY DEF IInv, FlushHolds, OldestImm
<1>7. EntryIsLatest'
  BY EntryUnmoved DEF IInv, EntryIsLatest
<1> QED BY <1>2, <1>3, <1>4, <1>5, <1>6, <1>7 DEF IInv

(* The record of a job with a field replaced. *)
LEMMA JobSet ==
  ASSUME Types, NEW t \in Threads, NEW new,
         new = [task |-> new.task, output |-> new.output, remove |-> new.remove],
         new.output \in Seq(Ids), new.remove \in SUBSET Ids,
         job' = [job EXCEPT ![t] = new]
  PROVE  /\ job' = [u \in Threads |-> job'[u]]
         /\ \A u \in Threads :
              /\ job'[u] = [task |-> job'[u].task, output |-> job'[u].output,
                            remove |-> job'[u].remove]
              /\ job'[u].output \in Seq(Ids) /\ job'[u].remove \in SUBSET Ids
         /\ job'[t] = new /\ \A u \in Threads \ {t} : job'[u] = job[u]
<1>1. job' = [u \in Threads |-> IF u = t THEN new ELSE job[u]]
  BY DEF Types
<1>2. job'[t] = new /\ \A u \in Threads \ {t} : job'[u] = job[u]
  BY <1>1
<1>3. job' = [u \in Threads |-> job'[u]]
  BY <1>1
<1> QED BY <1>2, <1>3 DEF Types

(* The state that TypeOK is about stays, but for pc. *)
LEMMA MoveTypes ==
  ASSUME Types, NEW t \in Threads, NEW p \in Steps, pc' = [pc EXCEPT ![t] = p],
         UNCHANGED <<stateVars, diskVars, state_lock, op, new_id, ghostVars>>
  PROVE  TypeOK' /\ next_sst_id' \in 1 .. MaxId + 1
BY DEF Types, TypeOK, stateVars, diskVars, ghostVars

(* One field of a compaction's local state is set. *)
LEMMA JobField ==
  ASSUME Types, NEW t \in Threads, NEW x
  PROVE  /\ [job EXCEPT ![t].task = x] =
              [job EXCEPT ![t] = [task |-> x, output |-> job[t].output, remove |-> job[t].remove]]
         /\ [job EXCEPT ![t].output = x] =
              [job EXCEPT ![t] = [task |-> job[t].task, output |-> x, remove |-> job[t].remove]]
         /\ [job EXCEPT ![t].remove = x] =
              [job EXCEPT ![t] = [task |-> job[t].task, output |-> job[t].output, remove |-> x]]
<1>1. job[t] = [task |-> job[t].task, output |-> job[t].output, remove |-> job[t].remove]
  BY DEF Types
<1>2. /\ [job[t] EXCEPT !.task = x] = [task |-> x, output |-> job[t].output, remove |-> job[t].remove]
      /\ [job[t] EXCEPT !.output = x] = [task |-> job[t].task, output |-> x, remove |-> job[t].remove]
      /\ [job[t] EXCEPT !.remove = x] = [task |-> job[t].task, output |-> job[t].output, remove |-> x]
  BY <1>1
<1>3. t \in DOMAIN job
  BY DEF Types
<1> QED BY <1>2, <1>3

(* trigger_compaction() and force_full_compaction() make a task. *)
LEMMA BeginHolds ==
  ASSUME StrategyAssumed, Types, LsmIInv, NEW t \in Clients \cup {CompactionThread},
         BeginCompaction(t)
  PROVE  Types' /\ LsmIInv'
<1>0. t \in Threads
  BY DEF Threads
<1>1. PICK task \in IF t = CompactionThread THEN TriggeredTasks ELSE ForceFullTasks :
        job' = [job EXCEPT ![t].task = task]
  BY DEF BeginCompaction
<1>2. /\ pc[t] = "idle" /\ pc' = [pc EXCEPT ![t] = "compact"]
      /\ UNCHANGED <<stateVars, diskVars, state_lock, op, new_id, ghostVars, opens>>
  BY DEF BeginCompaction
<1> DEFINE new == [task |-> task, output |-> job[t].output, remove |-> job[t].remove]
<1>3. job' = [job EXCEPT ![t] = new]
  BY <1>0, <1>1, JobField
<1>4. /\ new = [task |-> new.task, output |-> new.output, remove |-> new.remove]
      /\ new.output \in Seq(Ids) /\ new.remove \in SUBSET Ids /\ new.task = task
  BY <1>0 DEF Types
<1> HIDE DEF new
<1>5. TypeOK' /\ next_sst_id' \in 1 .. MaxId + 1
  BY <1>0, <1>2, MoveTypes DEF Steps, CompactionSteps
<1>6. Types' /\ job'[t] = new /\ \A u \in Threads \ {t} : job'[u] = job[u]
  BY <1>0, <1>3, <1>4, <1>5, JobSet DEF Types
<1>7. UNCHANGED <<state, mem, sst, files, next_sst_id, latest, op, new_id, state_lock>>
  BY <1>2 DEF stateVars, diskVars, ghostVars
<1>8. pc'[t] = "compact" /\ \A u \in Threads \ {t} : pc'[u] = pc[u]
  BY <1>0, <1>2 DEF Types, TypeOK
<1>9. next_sst_id <= next_sst_id'
  BY <1>7 DEF Types, TypeOK
<1>10. IInv'
  <2>1. IInv
    BY DEF LsmIInv
  <2>2. \A u \in Threads : pc'[u] \in LockedSteps => state_lock' = u
    BY <1>7, <1>8, <2>1 DEF IInv, LockHolds, LockedSteps
  <2>3. \A u \in Threads : pc'[u] \in {"logged", "freeze_swap", "flush_swap"} => pc'[u] = pc[u]
    BY <1>8
  <2> QED BY <1>6, <1>7, <1>9, <2>1, <2>2, <2>3, AroundIInv
<1>11. StateHolds'
  BY <1>7, StateSpared DEF LsmIInv
<1>12. TaskFits(Ids, state, task)
  <2>1. state \in StateOver(Ids) /\ LevelsShape(sst, state)
    BY StateTypes DEF Types, LsmIInv, StateHolds
  <2>2. CASE t = CompactionThread
    <3>1. task = GenerateCompactionTask(state, sst) /\ task # NoTask
      BY <1>1, <2>2 DEF TriggeredTasks
    <3> QED BY <2>1, <3>1, GenerateFits
  <2>3. CASE t # CompactionThread
    <3>1. CompactionOptions.type = "NoCompaction" /\ task = ForceFullTask(state)
      BY <1>1, <2>3 DEF ForceFullTasks
    <3> QED BY <2>1, <3>1, ForceFullTaskFits
  <2> QED BY <2>2, <2>3
<1>13. ThreadHolds(t)'
  BY <1>4, <1>6, <1>7, <1>8, <1>12 DEF ThreadHolds, HeldApart, Held, JobHolds, NewHolds
<1>14. ASSUME NEW u \in Threads \ {t} PROVE ThreadHolds(u)'
  <2>1. Spared(u)
    BY <1>6, <1>7, <1>8, <1>9 DEF Spared
  <2> QED BY <1>6, <2>1, ThreadSpared DEF LsmIInv
<1> QED BY <1>6, <1>10, <1>11, <1>13, <1>14 DEF LsmIInv

(* compact() writes tables under new ids, which nobody else knows. *)
LEMMA NewTables ==
  ASSUME Types, Types', LsmIInv, NEW t \in Threads, pc[t] = "compact",
         NEW p \in {"apply", "idle"}, pc' = [pc EXCEPT ![t] = p],
         UNCHANGED <<state, mem, latest, op, new_id, state_lock>>,
         next_sst_id <= next_sst_id', files \subseteq files',
         \A id \in Ids : id < next_sst_id => sst'[id] = sst[id],
         \A u \in Threads \ {t} : job'[u] = job[u]
  PROVE  IInv' /\ StateHolds' /\ \A u \in Threads \ {t} : ThreadHolds(u)'
<1>0. IInv
  BY DEF LsmIInv
<1>1. pc'[t] = p /\ \A u \in Threads \ {t} : pc'[u] = pc[u]
  BY DEF Types, TypeOK
<1>2. \A id \in state.sstables : sst'[id] = sst[id]
  <2>1. state.sstables \subseteq Ids
    BY StateTypes DEF Types
  <2> QED BY <1>0, <2>1 DEF IInv, IdsApart
<1>3. \A u \in Threads : pc'[u] = "flush_swap" => sst'[new_id[u]] = sst[new_id[u]]
  <2>1. ASSUME NEW u \in Threads, pc'[u] = "flush_swap" PROVE new_id[u] \in Ids /\ new_id[u] < next_sst_id
    <3>1. state.imm_memtables # <<>> /\ new_id[u] = OldestImm
      BY <1>0, <1>1, <2>1 DEF IInv, FlushHolds
    <3>2. Len(state.imm_memtables) \in DOMAIN state.imm_memtables /\ OldestImm \in Ids
      BY <3>1, OldestImmType DEF Types
    <3> QED BY <1>0, <3>1, <3>2 DEF IInv, IdsApart, OldestImm
  <2> QED BY <2>1
<1>4. IInv'
  <2>1. \A u \in Threads : pc'[u] \in LockedSteps => state_lock' = u
    BY <1>0, <1>1 DEF IInv, LockHolds, LockedSteps
  <2>2. \A u \in Threads : pc'[u] \in {"logged", "freeze_swap", "flush_swap"} => pc'[u] = pc[u]
    BY <1>1
  <2> QED BY <1>0, <1>2, <1>3, <2>1, <2>2, AroundIInv
<1>5. StateHolds'
  BY <1>2, StateSpared DEF LsmIInv
<1>6. ASSUME NEW u \in Threads \ {t} PROVE ThreadHolds(u)'
  <2>1. \A id \in Held(u) : id \in Ids /\ id < next_sst_id
    <3>1. Held(u) \subseteq Ids
      BY DEF Held, Types, ToSet
    <3> QED BY <3>1 DEF LsmIInv, ThreadHolds, HeldApart
  <2>2. Spared(u)
    BY <1>1, <1>2, <1>3, <2>1 DEF Spared
  <2> QED BY <2>2, ThreadSpared DEF LsmIInv
<1> QED BY <1>4, <1>5, <1>6

(* The ids of n output tables. *)
NewIds(n) == [i \in 1 .. n |-> next_sst_id + i - 1]

(* They are consecutive. *)
LEMMA NewIdsType ==
  ASSUME Types, NEW n \in Nat, next_sst_id + n - 1 <= MaxId
  PROVE  /\ NewIds(n) \in Seq(Ids) /\ Len(NewIds(n)) = n /\ DOMAIN NewIds(n) = 1 .. n
         /\ \A i \in 1 .. n : NewIds(n)[i] = next_sst_id + i - 1
         /\ \A i \in 1 .. n : NewIds(n)[i] \in Ids /\ NewIds(n)[i] - next_sst_id + 1 = i
         /\ \A id \in ToSet(NewIds(n)) :
              /\ id \in Ids /\ ~(id < next_sst_id) /\ id < next_sst_id + n /\ id # 0
              /\ id - next_sst_id + 1 \in 1 .. n
<1> DEFINE s == NewIds(n)
<1>0. next_sst_id \in Nat \ {0} /\ MaxId \in Nat
  BY BoundsAssumption DEF Types
<1>1. s = [i \in 1 .. n |-> s[i]] /\ \A i \in 1 .. n : s[i] = next_sst_id + i - 1
  BY DEF NewIds
<1> HIDE DEF s
<1>2. \A i \in 1 .. n : s[i] \in Ids /\ s[i] - next_sst_id + 1 = i
  BY <1>0, <1>1 DEF Ids
<1>3. s \in Seq(Ids) /\ Len(s) = n /\ DOMAIN s = 1 .. n
  BY <1>1, <1>2, FunctionIsSeq
<1>4. ASSUME NEW id \in ToSet(s)
      PROVE  /\ id \in Ids /\ ~(id < next_sst_id) /\ id < next_sst_id + n /\ id # 0
             /\ id - next_sst_id + 1 \in 1 .. n
  <2>1. PICK i \in 1 .. n : id = s[i]
    BY <1>3 DEF ToSet
  <2> QED BY <1>0, <1>1, <1>2, <2>1
<1> QED BY <1>1, <1>2, <1>3, <1>4 DEF s

(* compact() *)
LEMMA CompactHolds ==
  ASSUME Types, LsmIInv, NEW t \in Threads, Compact(t)
  PROVE  Types' /\ LsmIInv'
<1> DEFINE made == CompactOutput(state, sst, job[t].task)  n == Len(made)  ids == NewIds(n)
<1>1. /\ state \in StateOver(Ids) /\ sst \in [Ids -> Table] /\ Ids \subseteq Nat
      /\ RefsOpen(state) /\ state.sstables \subseteq Ids
  BY StateTypes, StateOpen DEF Types, LsmIInv
<1>2. pc[t] = "compact" /\ TaskFits(Ids, state, job[t].task)
  BY DEF Compact, LsmIInv, ThreadHolds, JobHolds
<1>3. made \in Seq(Table) /\ n \in Nat /\ DOMAIN made = 1 .. n /\ \A i \in 1 .. n : made[i] \in Table
  BY <1>1, <1>2, OutputType
<1>4. ids = [i \in DOMAIN made |-> next_sst_id + i - 1]
  BY <1>3 DEF NewIds
<1>4a. next_sst_id + Len(ids) - 1 <= MaxId /\ next_sst_id' = next_sst_id + Len(ids)
  BY <1>4 DEF Compact
<1>4b. Len(ids) = n
  <2>1. ids = [i \in 1 .. n |-> next_sst_id + i - 1] /\ \A i \in 1 .. n : ids[i] \in Int
    BY <1>3 DEF NewIds, Types
  <2> HIDE DEF ids, made, n
  <2>2. ids = [i \in 1 .. n |-> ids[i]]
    BY <2>1
  <2> QED BY <1>3, <2>1, <2>2, FunctionIsSeq
<1>5. /\ next_sst_id + n - 1 <= MaxId /\ next_sst_id' = next_sst_id + n
      /\ sst' = [i \in Ids |-> IF i \in ToSet(ids) THEN made[i - next_sst_id + 1] ELSE sst[i]]
      /\ files' = files \cup ToSet(ids) /\ job' = [job EXCEPT ![t].output = ids]
      /\ pc' = [pc EXCEPT ![t] = "apply"]
      /\ UNCHANGED <<life, state, mem, approx_size, wal, wal_open, synced, manifest,
                     state_lock, op, new_id, ghostVars, opens>>
  BY <1>4, <1>4a, <1>4b DEF Compact
<1>6. /\ ids \in Seq(Ids) /\ DOMAIN ids = 1 .. n
      /\ \A i \in 1 .. n : ids[i] \in Ids /\ ids[i] - next_sst_id + 1 = i
      /\ \A id \in ToSet(ids) : /\ id \in Ids /\ ~(id < next_sst_id) /\ id < next_sst_id + n
                                /\ id # 0 /\ id - next_sst_id + 1 \in 1 .. n
  BY <1>3, <1>5, NewIdsType
<1> HIDE DEF made, n, ids
<1>7. sst' \in [Ids -> Table]
  <2>1. \A i \in Ids : (IF i \in ToSet(ids) THEN made[i - next_sst_id + 1] ELSE sst[i]) \in Table
    BY <1>1, <1>3, <1>6
  <2> QED BY <1>5, <2>1
<1>8. /\ \A id \in Ids : id < next_sst_id => sst'[id] = sst[id]
      /\ \A i \in 1 .. n : sst'[ids[i]] = made[i]
  <2>1. \A id \in Ids : id < next_sst_id => sst'[id] = sst[id]
    BY <1>5, <1>6
  <2>2. ASSUME NEW i \in 1 .. n PROVE sst'[ids[i]] = made[i]
    <3>1. ids[i] \in ToSet(ids) /\ ids[i] \in Ids /\ ids[i] - next_sst_id + 1 = i
      BY <1>6 DEF ToSet
    <3> QED BY <1>5, <3>1
  <2> QED BY <2>1, <2>2
<1>9. /\ next_sst_id' \in 1 .. MaxId + 1 /\ next_sst_id' \in Nat /\ next_sst_id <= next_sst_id'
  <2>1. next_sst_id \in Nat \ {0} /\ MaxId \in Nat
    BY BoundsAssumption DEF Types
  <2> QED BY ONLY <1>3, <1>5, <2>1
<1>10. TypeOK'
  <2>1. files' \in SUBSET Ids
    BY <1>5, <1>6 DEF Types, TypeOK
  <2>2. pc' \in [Threads -> Steps]
    BY <1>5 DEF Types, TypeOK, Steps, CompactionSteps
  <2> QED BY <1>5, <1>7, <1>9, <2>1, <2>2 DEF Types, TypeOK, ghostVars
<1> DEFINE new == [task |-> job[t].task, output |-> ids, remove |-> job[t].remove]
<1>11. job' = [job EXCEPT ![t] = new]
  BY <1>5, JobField
<1>12. /\ new = [task |-> new.task, output |-> new.output, remove |-> new.remove]
       /\ new.output \in Seq(Ids) /\ new.remove \in SUBSET Ids
       /\ new.task = job[t].task /\ new.output = ids
  BY <1>6 DEF Types
<1> HIDE DEF new
<1>13. Types' /\ job'[t] = new /\ \A u \in Threads \ {t} : job'[u] = job[u]
  BY <1>9, <1>10, <1>11, <1>12, JobSet DEF Types
<1>14. IInv' /\ StateHolds' /\ \A u \in Threads \ {t} : ThreadHolds(u)'
  <2>1. files \subseteq files' /\ UNCHANGED <<state, mem, latest, op, new_id, state_lock>>
    BY <1>5 DEF ghostVars
  <2> QED BY <1>2, <1>5, <1>8, <1>9, <1>13, <2>1, NewTables
<1>15. ThreadHolds(t)'
  <2>1. pc'[t] = "apply" /\ job'[t].task = job[t].task /\ job'[t].output = ids
    BY <1>5, <1>12, <1>13 DEF Types, TypeOK
  <2>2. HeldApart(t)'
    <3>1. Held(t)' = ToSet(ids)
      BY <2>1 DEF Held
    <3>2. ASSUME NEW id \in ToSet(ids)
          PROVE  id < next_sst_id' /\ id \notin state.sstables /\ id \notin LiveMemtables
      BY <1>5, <1>6 DEF LsmIInv, IInv, IdsApart, LiveMemtables
    <3>3. ASSUME NEW id \in ToSet(ids), NEW u \in Threads, pc'[u] = "freeze_swap" PROVE new_id[u] # id
      <4>1. pc[u] = "freeze_swap"
        BY <1>5, <3>3 DEF Types, TypeOK
      <4> QED BY <1>6, <4>1 DEF LsmIInv, IInv, FreezeHolds
    <3>4. LiveMemtables' = LiveMemtables
      BY <1>5 DEF LiveMemtables
    <3> QED BY <1>5, <3>1, <3>2, <3>3, <3>4 DEF HeldApart
  <2>3. OutputHolds(sst', state, job[t].task, ids)
    <3>1. \A id \in state.sstables : sst'[id] = sst[id]
      BY <1>1, <1>8 DEF LsmIInv, IInv, IdsApart
    <3>2. Written(sst', CompactOutput(state, sst, job[t].task), ids)
      BY <1>3, <1>6, <1>8 DEF Written, made
    <3> QED BY <1>1, <1>2, <3>1, <3>2, OutputWritten
  <2>4. ToSet(ids) \subseteq files' \ {0}
    BY <1>5, <1>6
  <2>5. JobHolds(t)'
    BY <1>2, <1>5, <2>1, <2>3, <2>4 DEF JobHolds
  <2>6. NewHolds(t)'
    BY <2>1 DEF NewHolds
  <2> QED BY <2>2, <2>5, <2>6 DEF ThreadHolds
<1> QED BY <1>13, <1>14, <1>15 DEF LsmIInv

(* A thread whose job is over. *)
LEMMA JobOver ==
  ASSUME Types, TypeOK', next_sst_id' \in 1 .. MaxId + 1, NEW t \in Threads,
         job' = [job EXCEPT ![t] = NoJob]
  PROVE  Types' /\ \A u \in Threads \ {t} : job'[u] = job[u]
<1> DEFINE new == NoJob
<1>1. /\ new = [task |-> new.task, output |-> new.output, remove |-> new.remove]
      /\ new.output \in Seq(Ids) /\ new.remove \in SUBSET Ids
  BY DEF NoJob
<1> HIDE DEF new
<1>2. job' = [job EXCEPT ![t] = new]
  BY DEF new
<1> QED BY <1>1, <1>2, JobSet DEF Types

(* A compaction that fails leaves files under ids that are spent. *)
LEMMA CompactFailsHolds ==
  ASSUME Types, LsmIInv, NEW t \in Threads, CompactFails(t)
  PROVE  Types' /\ LsmIInv'
<1> DEFINE made == CompactOutput(state, sst, job[t].task)
<1>1. state \in StateOver(Ids) /\ sst \in [Ids -> Table] /\ Ids \subseteq Nat
  BY StateTypes DEF Types
<1>2. pc[t] = "compact" /\ TaskFits(Ids, state, job[t].task)
  BY DEF CompactFails, LsmIInv, ThreadHolds, JobHolds
<1>3. made \in Seq(Table) /\ Len(made) \in Nat /\ \A i \in 1 .. Len(made) : made[i] \in Table
  <2>1. made \in Seq(Table)
    BY <1>1, <1>2, OutputType
  <2> HIDE DEF made
  <2> QED BY <2>1
<1>4. PICK n \in 0 .. Len(made) - 1 :
        /\ next_sst_id + n <= MaxId
        /\ sst' = [i \in Ids |-> IF i \notin next_sst_id .. next_sst_id + n THEN sst[i]
                                 ELSE IF i < next_sst_id + n THEN made[i - next_sst_id + 1]
                                 ELSE EmptyTable]
        /\ files' = files \cup (next_sst_id .. next_sst_id + n)
        /\ next_sst_id' = next_sst_id + n + 1
  BY DEF CompactFails
<1>5. /\ job' = [job EXCEPT ![t] = NoJob] /\ pc' = [pc EXCEPT ![t] = "idle"]
      /\ UNCHANGED <<life, state, mem, approx_size, wal, wal_open, synced, manifest,
                     state_lock, op, new_id, ghostVars, opens>>
  BY DEF CompactFails
<1> HIDE DEF made
<1>6. next_sst_id \in Nat \ {0} /\ MaxId \in Nat /\ n \in Nat /\ n < Len(made)
  BY <1>3, BoundsAssumption DEF Types
<1>7. /\ next_sst_id' \in 1 .. MaxId + 1 /\ next_sst_id' \in Nat /\ next_sst_id <= next_sst_id'
      /\ next_sst_id .. next_sst_id + n \subseteq Ids
  BY <1>4, <1>6 DEF Ids
<1>8. sst' \in [Ids -> Table]
  <2>1. EmptyTable \in Table
    BY EmptyTableType
  <2>2. ASSUME NEW i \in Ids, i \in next_sst_id .. next_sst_id + n, i < next_sst_id + n
        PROVE  made[i - next_sst_id + 1] \in Table
    <3>1. i - next_sst_id + 1 \in 1 .. Len(made)
      BY <1>3, <1>6, <2>2
    <3> QED BY <1>3, <3>1
  <2>3. \A i \in Ids : (IF i \notin next_sst_id .. next_sst_id + n THEN sst[i]
                        ELSE IF i < next_sst_id + n THEN made[i - next_sst_id + 1]
                        ELSE EmptyTable) \in Table
    BY <1>1, <2>1, <2>2
  <2> QED BY <1>4, <2>3
<1>9. \A id \in Ids : id < next_sst_id => sst'[id] = sst[id]
  <2>1. \A id \in Ids : id < next_sst_id => id \notin next_sst_id .. next_sst_id + n
    BY <1>6 DEF Ids
  <2> QED BY <1>4, <2>1
<1>10. TypeOK'
  <2>1. files' \in SUBSET Ids
    BY <1>4, <1>7 DEF Types, TypeOK
  <2>2. pc' \in [Threads -> Steps]
    BY <1>5 DEF Types, TypeOK, Steps
  <2> QED BY <1>5, <1>7, <1>8, <2>1, <2>2 DEF Types, TypeOK, ghostVars
<1>11. Types' /\ \A u \in Threads \ {t} : job'[u] = job[u]
  BY <1>5, <1>7, <1>10, JobOver
<1>12. IInv' /\ StateHolds' /\ \A u \in Threads \ {t} : ThreadHolds(u)'
  <2>1. files \subseteq files' /\ UNCHANGED <<state, mem, latest, op, new_id, state_lock>>
    BY <1>4, <1>5 DEF ghostVars
  <2> QED BY <1>2, <1>5, <1>7, <1>9, <1>11, <2>1, NewTables
<1>13. ThreadHolds(t)'
  <2>1. pc'[t] = "idle"
    BY <1>5 DEF Types, TypeOK
  <2> QED BY <2>1 DEF ThreadHolds, HeldApart, Held, JobHolds, NewHolds
<1> QED BY <1>11, <1>12, <1>13 DEF LsmIInv

(* A state with other tables that readers cannot tell from this one. *)
LEMMA EntryEquivalent ==
  ASSUME TypeOK, IInv, UNCHANGED <<mem, sst, latest>>, Equivalent(state, state', sst),
         state'.memtable = state.memtable, state'.imm_memtables = state.imm_memtables
  PROVE  EntryIsLatest'
<1> SUFFICES ASSUME NEW k \in Keys PROVE Seen(Entry(state, mem, k)') = Seen(latest[k])
  BY DEF EntryIsLatest
<1> DEFINE a == mem[state.memtable][k]
           b == FirstHit([i \in DOMAIN state.imm_memtables |-> mem[state.imm_memtables[i]]], k)
           old == SstEntry(state, sst, k)  new == SstEntry(state', sst, k)
<1>1. Entry(state, mem, k) = OrElse(a, OrElse(b, old))
  BY DEF Entry
<1>2. Entry(state, mem, k)' = OrElse(a, OrElse(b, new))
  BY DEF Entry
<1>3. Seen(new) = Seen(old)
  <2>1. Purged(new, old)
    BY DEF Equivalent
  <2> HIDE DEF new, old
  <2> QED BY <2>1 DEF Purged, Seen, Absent
<1>4. Seen(Entry(state, mem, k)) = Seen(latest[k])
  BY DEF IInv, EntryIsLatest
<1> HIDE DEF a, b, old, new
<1>5. Seen(OrElse(a, OrElse(b, new))) = Seen(OrElse(a, OrElse(b, old)))
  BY <1>3 DEF OrElse
<1> QED BY <1>1, <1>2, <1>4, <1>5

(* The result of a compaction is swapped in: with no other compaction in   *)
(* between the task still fits.                                            *)
LEMMA ApplyHolds ==
  ASSUME Types, LsmIInv, OneCompaction, NEW t \in Threads, CompactApply(t)
  PROVE  Types' /\ LsmIInv'
<1> DEFINE task == job[t].task  output == job[t].output
           gone == FilesToRemove(Added(state, output), task)
           applied == ApplyCompactionResult(Added(state, output), sst, task, output, FALSE)
           removed == IF task.type = "ForceFull" THEN gone ELSE gone \cap applied.sstables
           new == [task |-> task, output |-> output, remove |-> removed]
<1>0. IInv /\ StateHolds
  BY DEF LsmIInv
<1>1. /\ pc[t] = "apply" /\ state_lock = NoThread /\ NoSharedHolder /\ state_lock' = t
      /\ state' = Installed(state, sst, task, output)
      /\ job' = [job EXCEPT ![t].remove = removed]
      /\ pc' = [pc EXCEPT ![t] = "compact_record"]
      /\ UNCHANGED <<life, mem, approx_size, next_sst_id, diskVars, op, new_id, ghostVars, opens>>
  BY DEF CompactApply, Installed, Added
<1>2. /\ TaskFits(Ids, state, task) /\ OutputHolds(sst, state, task, output)
      /\ ToSet(output) \subseteq files \ {0}
      /\ \A id \in ToSet(output) :
           id < next_sst_id /\ id \notin state.sstables /\ id \notin LiveMemtables
  BY <1>1 DEF LsmIInv, ThreadHolds, JobHolds, HeldApart, Held
<1>3. output \in Seq(Ids) /\ job[t].remove \in SUBSET Ids
  BY DEF Types
<1>4. state \in StateOver(Ids) /\ sst \in [Ids -> Table] /\ Ids \subseteq Nat /\ RefsOpen(state)
  BY <1>0, StateTypes, StateOpen DEF Types
<1>5. Ready(Ids, sst, state, task, output)
  <2>1. \A i \in DOMAIN output : output[i] \in ToSet(output)
    BY DEF ToSet
  <2> QED BY <1>0, <1>2, <1>3, <1>4, <2>1 DEF Ready, StateHolds
<1> HIDE DEF task, output
<1>6. Exchanged(Ids, sst, state, state', output, gone)
  BY <1>1, <1>2, <1>4, <1>5, FitsExchanges
<1>7. removed \subseteq gone /\ gone \subseteq state.sstables
  BY <1>6 DEF Exchanged
<1>8. /\ state' \in StateOver(Ids)
      /\ state'.memtable = state.memtable /\ state'.imm_memtables = state.imm_memtables
      /\ state'.sstables = (state.sstables \ gone) \cup ToSet(output)
      /\ Equivalent(state, state', sst) /\ LevelsShape(sst, state')
      /\ RefsApart(state') /\ RefsOpen(state')
  BY <1>6 DEF Exchanged, Equivalent
<1> HIDE DEF gone, applied
<1>9. UNCHANGED <<mem, sst, files, latest, op, new_id, next_sst_id>>
  BY <1>1 DEF diskVars, ghostVars
<1>10. TypeOK'
  <2>1. state' \in LsmStorageState
    BY <1>8 DEF StateOver, LevelOver, LsmStorageState, Level
  <2>2. pc' \in [Threads -> Steps]
    BY <1>1 DEF Types, TypeOK, Steps, CompactionSteps
  <2> QED BY <1>1, <2>1, <2>2 DEF Types, TypeOK, diskVars, ghostVars
<1>11. job' = [job EXCEPT ![t] = new]
  BY <1>1, JobField, ZenonT(30) DEF task, output
<1>12. /\ new = [task |-> new.task, output |-> new.output, remove |-> new.remove]
       /\ new.output \in Seq(Ids) /\ new.remove \in SUBSET Ids /\ new.remove = removed
  <2>1. state.sstables \subseteq Ids
    BY StateTypes DEF Types
  <2> HIDE DEF removed
  <2> QED BY <1>3, <1>7, <2>1
<1> HIDE DEF new, removed
<1>13. Types' /\ job'[t] = new /\ \A u \in Threads \ {t} : job'[u] = job[u]
  BY <1>9, <1>10, <1>11, <1>12, JobSet DEF Types
<1>14. pc'[t] = "compact_record" /\ \A u \in Threads \ {t} : pc'[u] = pc[u]
  BY <1>1 DEF Types, TypeOK
<1>15. \A u \in Threads \ {t} : pc[u] \notin LockedSteps
  BY <1>0, <1>1, LockAlone
<1>16. \A u \in Threads \ {t} : pc[u] \notin CompactionSteps
  BY <1>1 DEF OneCompaction, CompactionSteps
<1>17. LiveMemtables' = LiveMemtables
  BY <1>8 DEF LiveMemtables
<1>18. IInv'
  <2>1. IdsApart'
    <3>1. \A id \in state'.sstables : id \in state.sstables \/ id \in ToSet(output)
      BY <1>8
    <3>2. \A id \in LiveMemtables : id \notin state'.sstables
      BY <1>0, <1>2, <3>1 DEF IInv, IdsApart, LiveMemtables
    <3>3. \A id \in state'.sstables : id < next_sst_id
      BY <1>0, <1>2, <3>1 DEF IInv, IdsApart
    <3> QED BY <1>0, <1>8, <1>9, <3>2, <3>3 DEF IInv, IdsApart, LiveMemtables
  <2>2. TablesOpen'
    <3>1. ~FlushToL0 => CompactionOptions.type = "Tiered"
      BY OptionsAssumption DEF FlushToL0
    <3> QED BY <1>8, <3>1 DEF TablesOpen, RefsOpen, LevelsShape
  <2>3. PutHolds'
    <3>1. \A c \in Clients : c \in Threads
      BY DEF Threads
    <3>2. \A u \in Threads : pc'[u] # "logged"
      BY <1>1, <1>14 DEF NoSharedHolder, SharedHolder
    <3> QED BY <3>1, <3>2 DEF PutHolds
  <2>4. LockHolds' /\ FreezeHolds' /\ FlushHolds'
    BY <1>1, <1>14, <1>15 DEF LockHolds, FreezeHolds, FlushHolds, LockedSteps
  <2>5. EntryIsLatest'
    BY <1>0, <1>8, <1>9, EntryEquivalent DEF Types
  <2> QED BY <2>1, <2>2, <2>3, <2>4, <2>5 DEF IInv
<1>19. StateHolds'
  <2>1. ZeroOldest'
    <3>1. CompactionOptions.type = "Tiered" => 0 \notin LiveMemtables
      <4>1. SUFFICES ASSUME CompactionOptions.type = "Tiered" PROVE state.levels # <<>>
        BY <1>0 DEF StateHolds, ZeroOldest
      <4>2. PICK m \in 0 .. Len(state.levels) : TieredFits(Ids, state, task, m)
        BY <1>2, <4>1 DEF TaskFits, ForceFullFits, SimpleFits
      <4>3. m \in Nat /\ Len(task.tiers) \in Nat \ {0} /\ m + Len(task.tiers) <= Len(state.levels)
        BY <4>2 DEF TieredFits
      <4>4. Len(state.levels) # 0
        <5>1. Len(state.levels) \in Nat
          BY <1>4 DEF StateOver
        <5> QED BY ONLY <4>3, <5>1
      <4> QED BY <4>4
    <3> QED BY <1>0, <1>8, <1>17, <3>1 DEF StateHolds, ZeroOldest
  <2>2. state'.sstables \subseteq files
    BY <1>0, <1>2, <1>8 DEF StateHolds
  <2> QED BY <1>8, <1>9, <2>1, <2>2 DEF StateHolds
<1>20. ThreadHolds(t)'
  <2>1. Held(t)' = removed
    BY <1>12, <1>13, <1>14 DEF Held
  <2>2. ASSUME NEW id \in removed
        PROVE  id < next_sst_id /\ id \notin state'.sstables /\ id \notin LiveMemtables
    <3>1. id \in state.sstables /\ id \in gone
      BY <1>7
    <3> QED BY <1>0, <1>2, <1>8, <3>1 DEF IInv, IdsApart, LiveMemtables
  <2>3. \A u \in Threads : pc'[u] # "freeze_swap"
    BY <1>14, <1>15 DEF LockedSteps
  <2>4. HeldApart(t)'
    BY <1>9, <1>17, <2>1, <2>2, <2>3 DEF HeldApart
  <2> QED BY <1>14, <2>4 DEF ThreadHolds, JobHolds, NewHolds
<1>21. ASSUME NEW u \in Threads \ {t} PROVE ThreadHolds(u)'
  <2>1. pc'[u] \notin Watched
    BY <1>14, <1>15, <1>16 DEF Watched, LockedSteps, CompactionSteps
  <2> QED BY <2>1 DEF Watched, ThreadHolds, HeldApart, Held, JobHolds, NewHolds
<1> QED BY <1>13, <1>18, <1>19, <1>20, <1>21 DEF LsmIInv

(* The result of a compaction is recorded. *)
LEMMA RecordHolds ==
  ASSUME Types, LsmIInv, NEW t \in Threads, CompactRecord(t)
  PROVE  Types' /\ LsmIInv'
<1> DEFINE r == Compaction(job[t].task, job[t].output)
<1>1. /\ pc[t] = "compact_record" /\ pc' = [pc EXCEPT ![t] = "remove"]
      /\ manifest' = AddRecord(manifest, r) /\ state_lock' = NoThread
      /\ UNCHANGED <<stateVars, sst, files, wal, wal_open, synced, op, new_id, ghostVars, lsVars>>
  BY DEF CompactRecord
<1>2. UNCHANGED <<state, mem, sst, files, next_sst_id, latest, op, new_id, job>>
  BY <1>1 DEF stateVars, ghostVars, lsVars
<1>3. TypeOK'
  <2>1. Width(r) \in Nat
    BY DEF Width, Compaction
  <2>2. /\ manifest' = [open |-> manifest'.open, file |-> manifest'.file, pos |-> manifest'.pos]
        /\ manifest'.open \in BOOLEAN /\ manifest'.pos \in Nat
    <3>1. /\ manifest = [open |-> manifest.open, file |-> manifest.file, pos |-> manifest.pos]
          /\ manifest.open \in BOOLEAN /\ manifest.pos \in Nat
      BY DEF Types, TypeOK
    <3> HIDE DEF r
    <3>2. LET n == AddRecord(manifest, r)
          IN  /\ n = [open |-> n.open, file |-> n.file, pos |-> n.pos]
              /\ n.open \in BOOLEAN /\ n.pos \in Nat
      BY <2>1, <3>1, AddRecordType
    <3> QED BY <1>1, <3>2
  <2>3. pc' \in [Threads -> Steps]
    BY <1>1 DEF Types, TypeOK, Steps, CompactionSteps
  <2> QED BY <1>1, <2>2, <2>3 DEF Types, TypeOK, stateVars, ghostVars
<1>4. Types'
  BY <1>2, <1>3 DEF Types
<1>5. pc'[t] = "remove" /\ \A u \in Threads \ {t} : pc'[u] = pc[u] /\ pc[u] \notin LockedSteps
  BY <1>1, LockAlone DEF Types, TypeOK, LsmIInv, LockedSteps
<1>6. next_sst_id <= next_sst_id' /\ files \subseteq files'
  BY <1>2 DEF Types, TypeOK
<1>7. IInv'
  <2>1. IInv
    BY DEF LsmIInv
  <2>2. \A u \in Threads : pc'[u] \notin LockedSteps
    BY <1>5 DEF LockedSteps
  <2>3. \A u \in Threads : pc'[u] \in {"logged", "freeze_swap", "flush_swap"} => pc'[u] = pc[u]
    BY <1>5
  <2> QED BY <1>2, <1>4, <1>6, <2>1, <2>2, <2>3, AroundIInv
<1>8. StateHolds'
  BY <1>2, <1>6, StateSpared DEF LsmIInv
<1>9. ThreadHolds(t)'
  <2>1. Held(t)' = Held(t)
    BY <1>1, <1>2, <1>5 DEF Held
  <2>2. LiveMemtables' = LiveMemtables
    BY <1>2 DEF LiveMemtables
  <2>3. \A u \in Threads : pc'[u] = "freeze_swap" => pc[u] = "freeze_swap"
    BY <1>5
  <2>4. HeldApart(t)
    BY DEF LsmIInv, ThreadHolds
  <2>5. HeldApart(t)'
    BY <1>2, <2>1, <2>2, <2>3, <2>4 DEF HeldApart
  <2> QED BY <1>5, <2>5 DEF ThreadHolds, JobHolds, NewHolds
<1>10. ASSUME NEW u \in Threads \ {t} PROVE ThreadHolds(u)'
  <2>1. Spared(u)
    BY <1>2, <1>5, <1>6 DEF Spared
  <2> QED BY <1>4, <2>1, ThreadSpared DEF LsmIInv
<1> QED BY <1>4, <1>7, <1>8, <1>9, <1>10 DEF LsmIInv

(* The input files are removed: no table of the state is one of them, and  *)
(* none that a flush is about to install.                                  *)
LEMMA RemoveHolds ==
  ASSUME Types, LsmIInv, OneCompaction, NEW t \in Threads, CompactRemove(t)
  PROVE  Types' /\ LsmIInv'
<1>0. IInv /\ StateHolds
  BY DEF LsmIInv
<1>1. /\ pc[t] = "remove" /\ pc' = [pc EXCEPT ![t] = "idle"]
      /\ files' = files \ job[t].remove /\ job' = [job EXCEPT ![t] = NoJob]
      /\ UNCHANGED <<stateVars, sst, wal, wal_open, synced, manifest, state_lock, op,
                     new_id, ghostVars, opens>>
  BY DEF CompactRemove
<1>2. UNCHANGED <<state, mem, sst, next_sst_id, latest, op, new_id, state_lock>>
  BY <1>1 DEF stateVars, ghostVars
<1>3. TypeOK'
  <2>1. pc' \in [Threads -> Steps] /\ files' \in SUBSET Ids
    BY <1>1 DEF Types, TypeOK, Steps
  <2> QED BY <1>1, <2>1 DEF Types, TypeOK, stateVars, ghostVars
<1>4. Types' /\ \A u \in Threads \ {t} : job'[u] = job[u]
  BY <1>1, <1>2, <1>3, JobOver DEF Types
<1>5. pc'[t] = "idle" /\ \A u \in Threads \ {t} : pc'[u] = pc[u]
  BY <1>1 DEF Types, TypeOK
<1>6. \A u \in Threads \ {t} : pc[u] \notin CompactionSteps
  BY <1>1 DEF OneCompaction, CompactionSteps
<1>7. \A id \in job[t].remove : id \notin state.sstables /\ id \notin LiveMemtables
  BY <1>1 DEF LsmIInv, ThreadHolds, HeldApart, Held
<1>8. next_sst_id <= next_sst_id'
  BY <1>2 DEF Types, TypeOK
<1>9. IInv'
  <2>1. \A u \in Threads : pc'[u] \in LockedSteps => state_lock' = u
    BY <1>0, <1>2, <1>5 DEF IInv, LockHolds, LockedSteps
  <2>2. \A u \in Threads : pc'[u] \in {"logged", "freeze_swap", "flush_swap"} => pc'[u] = pc[u]
    BY <1>5
  <2> QED BY <1>0, <1>2, <1>4, <1>8, <2>1, <2>2, AroundIInv
<1>10. StateHolds'
  <2>1. ZeroOldest' /\ RefsApart(state)' /\ LevelsShape(sst, state)'
    BY <1>0, <1>2 DEF StateHolds, ZeroOldest, LiveMemtables
  <2>2. state'.sstables \subseteq files'
    BY <1>0, <1>1, <1>2, <1>7 DEF StateHolds
  <2> QED BY <2>1, <2>2 DEF StateHolds
<1>11. ASSUME NEW u \in Threads PROVE ThreadHolds(u)'
  <2>1. pc'[u] \notin CompactionSteps
    BY <1>5, <1>6 DEF CompactionSteps
  <2>2. HeldApart(u)' /\ JobHolds(u)'
    BY <2>1 DEF HeldApart, Held, JobHolds, CompactionSteps
  <2>3. NewHolds(u)'
    <3>1. CASE pc'[u] = "flush_swap"
      <4>1. pc[u] = "flush_swap"
        BY <1>5, <3>1
      <4>2. new_id[u] \in files /\ sst[new_id[u]] # EmptyTable
        BY <4>1 DEF LsmIInv, ThreadHolds, NewHolds
      <4>3. new_id[u] \in LiveMemtables
        BY <1>0, <4>1, OldestApart DEF IInv, FlushHolds, Types
      <4> QED BY <1>1, <1>2, <1>7, <3>1, <4>2, <4>3 DEF NewHolds
    <3>2. CASE pc'[u] # "flush_swap"
      <4>1. pc'[u] = "freeze_swap" => pc[u] = "freeze_swap"
        BY <1>5
      <4> QED BY <1>2, <3>2, <4>1 DEF NewHolds, LsmIInv, ThreadHolds
    <3> QED BY <3>1, <3>2
  <2> QED BY <2>2, <2>3 DEF ThreadHolds
<1> QED BY <1>4, <1>9, <1>10, <1>11 DEF LsmIInv

(* A flush that fails leaves the state as it was. *)
LEMMA FlushFailsHolds ==
  ASSUME Types, LsmIInv, NEW t \in Threads, FlushFails(t)
  PROVE  Types' /\ LsmIInv'
<1>0. IInv
  BY DEF LsmIInv
<1>1. /\ pc[t] = "flush" /\ state_lock = NoThread /\ state.imm_memtables # <<>>
      /\ pc' = [pc EXCEPT ![t] = "idle"]
      /\ \/ UNCHANGED <<sst, files>>
         \/ sst' = [sst EXCEPT ![OldestImm] = EmptyTable] /\ files' = files \cup {OldestImm}
      /\ UNCHANGED <<stateVars, wal, wal_open, synced, manifest, state_lock, op, new_id,
                     ghostVars, lsVars>>
  BY DEF FlushFails
<1>2. UNCHANGED <<state, mem, next_sst_id, latest, op, new_id, state_lock, job>>
  BY <1>1 DEF stateVars, ghostVars, lsVars
<1>3. OldestImm \in Ids /\ OldestImm \notin state.sstables /\ OldestImm \in LiveMemtables
  BY <1>0, <1>1, OldestApart DEF Types
<1>4. Types'
  <2>1. pc' \in [Threads -> Steps] /\ files' \in SUBSET Ids
    BY <1>1, <1>3 DEF Types, TypeOK, Steps
  <2>2. sst' \in [Ids -> Table]
    BY <1>1, EmptyTableType DEF Types, TypeOK
  <2>3. TypeOK'
    BY <1>1, <2>1, <2>2 DEF Types, TypeOK, stateVars, ghostVars
  <2> QED BY <1>2, <2>3 DEF Types
<1>5. pc'[t] = "idle" /\ \A u \in Threads \ {t} : pc'[u] = pc[u] /\ pc[u] \notin LockedSteps
  BY <1>0, <1>1, LockAlone DEF Types, TypeOK
<1>6. next_sst_id <= next_sst_id'
  BY <1>2 DEF Types, TypeOK
<1>7. IInv'
  <2>1. \A u \in Threads : pc'[u] \notin LockedSteps
    BY <1>5 DEF LockedSteps
  <2>2. \A u \in Threads : pc'[u] \in {"logged", "freeze_swap", "flush_swap"} => pc'[u] = pc[u]
    BY <1>5
  <2>3. \A id \in state.sstables : sst'[id] = sst[id]
    <3>1. state.sstables \subseteq Ids /\ sst \in [Ids -> Table]
      BY StateTypes DEF Types
    <3> QED BY <1>1, <1>3, <3>1
  <2>4. \A u \in Threads : pc'[u] # "flush_swap"
    BY <2>1 DEF LockedSteps
  <2> QED BY <1>0, <1>2, <1>4, <1>6, <2>1, <2>2, <2>3, <2>4, AroundIInv
<1>8. CASE UNCHANGED <<sst, files>>
  <2>1. "idle" \notin Watched
    BY DEF Watched
  <2>2. StateHolds' /\ \A u \in Threads : ThreadHolds(u)'
    BY <1>2, <1>4, <1>5, <1>6, <1>8, <2>1, StepSpares
  <2> QED BY <1>4, <1>7, <2>2 DEF LsmIInv
<1>9. CASE sst' = [sst EXCEPT ![OldestImm] = EmptyTable] /\ files' = files \cup {OldestImm}
  <2>1. pc'[t] \notin Watched \ {"flush_swap"} /\ pc'[t] # "flush_swap"
    BY <1>5 DEF Watched
  <2> DEFINE e == EmptyTable
  <2>2. sst' = [sst EXCEPT ![OldestImm] = e]
    BY <1>9
  <2> HIDE DEF e
  <2>3. StateHolds' /\ \A u \in Threads : ThreadHolds(u)'
    BY <1>1, <1>2, <1>4, <1>5, <1>9, <2>1, <2>2, BuildHolds
  <2> QED BY <1>4, <1>7, <2>3 DEF LsmIInv
<1> QED BY <1>1, <1>8, <1>9

-----------------------------------------------------------------------------
(* close(), crashes and open() *)

(* A closed object is destroyed after another open() only. *)
LEMMA FirstDestroys == opens = 1 => ~DestroyLate
BY DEF DestroyLate

(* close() begins, and ends once all threads are idle; the object is       *)
(* destroyed.                                                              *)
LEMMA CloseHolds ==
  ASSUME Types, LsmIInv, CloseBegin \/ CloseDone \/ Destroy
  PROVE  Types' /\ LsmIInv'
<1>1. /\ life' \in {"closing", "closed", "destroyed"}
      /\ UNCHANGED <<state, mem, approx_size, next_sst_id, sst, files, wal, wal_open, manifest,
                     threadVars, writes, latest, lsVars>>
  BY DEF CloseBegin, CloseDone, Destroy, diskVars, ghostVars
<1>2. synced' \in [Ids -> Nat] /\ durable' \in [Keys -> Int]
  <2>1. CASE CloseBegin
    BY <2>1 DEF CloseBegin, diskVars, ghostVars, Types, TypeOK
  <2>2. CASE CloseDone
    <3>1. SyncActive \/ UNCHANGED <<synced, durable>>
      BY <2>2 DEF CloseDone
    <3>2. CASE SyncActive
      BY <3>2, SyncTypes DEF Types
    <3>3. CASE UNCHANGED <<synced, durable>>
      BY <3>3 DEF Types, TypeOK
    <3> QED BY <3>1, <3>2, <3>3
  <2>3. CASE Destroy
    <3>1. \A i \in Ids : Len(wal[i]) \in Nat
      BY DEF Types, TypeOK
    <3> QED BY <2>3, <3>1 DEF Destroy, ghostVars, Types, TypeOK
  <2> QED BY <2>1, <2>2, <2>3
<1>3. UNCHANGED <<state, mem, sst, files, next_sst_id, latest, state_lock, pc, op, new_id, job>>
  BY <1>1 DEF threadVars, lsVars
<1>4. Types'
  <2>1. TypeOK'
    BY <1>1, <1>2 DEF Types, TypeOK, threadVars
  <2> QED BY <1>3, <2>1 DEF Types
<1>5. next_sst_id <= next_sst_id' /\ files \subseteq files'
  BY <1>3 DEF Types, TypeOK
<1>6. IInv'
  <2>1. IInv
    BY DEF LsmIInv
  <2>2. \A u \in Threads : pc'[u] \in LockedSteps => state_lock' = u
    BY <1>3, <2>1 DEF IInv, LockHolds
  <2> QED BY <1>3, <1>4, <1>5, <2>1, <2>2, AroundIInv
<1>7. StateHolds'
  BY <1>3, <1>5, StateSpared DEF LsmIInv
<1>8. ASSUME NEW u \in Threads PROVE ThreadHolds(u)'
  <2>1. Spared(u)
    BY <1>3, <1>5 DEF Spared
  <2> QED BY <1>4, <2>1, ThreadSpared DEF LsmIInv
<1> QED BY <1>4, <1>6, <1>7, <1>8 DEF LsmIInv

(* close() freezes and flushes. *)
LEMMA CloseMoveHolds ==
  ASSUME Types, LsmIInv, NEW c \in Clients, CloseFreeze(c) \/ CloseFlush(c)
  PROVE  Types' /\ LsmIInv'
<1>0. c \in Threads
  BY DEF Threads
<1>1. PICK p \in {"freeze", "flush"} : pc' = [pc EXCEPT ![c] = p]
  BY DEF CloseFreeze, CloseFlush
<1>2. UNCHANGED <<stateVars, diskVars, state_lock, op, new_id, ghostVars, lsVars>>
  BY DEF CloseFreeze, CloseFlush
<1>3. UNCHANGED <<state, mem, sst, files, next_sst_id, latest, state_lock, op, new_id, job>>
  BY <1>2 DEF stateVars, diskVars, ghostVars, lsVars
<1>4. Types'
  <2>1. p \in Steps
    BY DEF Steps
  <2>2. TypeOK' /\ next_sst_id' \in 1 .. MaxId + 1
    BY <1>0, <1>1, <1>2, <2>1, MoveTypes
  <2> QED BY <1>3, <2>2 DEF Types
<1>5. pc'[c] = p /\ \A u \in Threads \ {c} : pc'[u] = pc[u]
  BY <1>0, <1>1 DEF Types, TypeOK
<1>6. next_sst_id <= next_sst_id' /\ files \subseteq files'
  BY <1>3 DEF Types, TypeOK
<1>7. IInv'
  <2>1. IInv
    BY DEF LsmIInv
  <2>2. \A u \in Threads : pc'[u] \in LockedSteps => state_lock' = u
    BY <1>3, <1>5, <2>1 DEF IInv, LockHolds, LockedSteps
  <2>3. \A u \in Threads : pc'[u] \in {"logged", "freeze_swap", "flush_swap"} => pc'[u] = pc[u]
    BY <1>5
  <2> QED BY <1>3, <1>4, <1>6, <2>1, <2>2, <2>3, AroundIInv
<1>8. p \notin Watched
  BY DEF Watched
<1>9. StateHolds' /\ \A u \in Threads : ThreadHolds(u)'
  BY <1>0, <1>3, <1>4, <1>5, <1>6, <1>8, StepSpares
<1> QED BY <1>4, <1>7, <1>9 DEF LsmIInv

(* A crash leaves the types. *)
LEMMA CrashTypes ==
  ASSUME Types, Crash
  PROVE  Types' /\ life' = "down"
<1>1. /\ life' = "down" /\ state' = CreateState /\ approx_size' = 0
      /\ mem' = [i \in Ids |-> EmptyTable] /\ state_lock' = NoThread
      /\ pc' = [t \in Threads |-> "idle"] /\ op' = [c \in Clients |-> NoOp]
      /\ new_id' = [t \in Threads |-> 0] /\ job' = [t \in Threads |-> NoJob]
      /\ UNCHANGED <<next_sst_id, sst, files, wal, wal_open, synced, ghostVars, opens>>
  BY DEF Crash
<1>2. /\ manifest' = [open |-> manifest'.open, file |-> manifest'.file, pos |-> manifest'.pos]
      /\ manifest'.open \in BOOLEAN /\ manifest'.pos \in Nat
  <2>1. \/ manifest' = manifest
        \/ \E f : manifest' = [manifest EXCEPT !.file = f]
    BY DEF Crash, TornRecord
  <2> QED BY <2>1 DEF Types, TypeOK
<1>3. TypeOK'
  <2>1. 0 \in Ids /\ NoOp \in Write
    BY BoundsAssumption DEF Ids, NoOp, Write, Absent
  <2>2. mem' \in [Ids -> Table] /\ state' \in LsmStorageState
    BY <1>1, CreateStateType, EmptyTableType
  <2>3. pc' \in [Threads -> Steps] /\ op' \in [Clients -> Write] /\ new_id' \in [Threads -> Ids]
    BY <1>1, <2>1 DEF Steps
  <2> QED BY <1>1, <1>2, <2>2, <2>3 DEF Types, TypeOK, ghostVars
<1>4. /\ job' = [t \in Threads |-> job'[t]]
      /\ \A t \in Threads : job'[t] = NoJob
  BY <1>1
<1>5. /\ NoJob = [task |-> NoJob.task, output |-> NoJob.output, remove |-> NoJob.remove]
      /\ NoJob.output \in Seq(Ids) /\ NoJob.remove \in SUBSET Ids
  BY DEF NoJob
<1> QED BY <1>1, <1>3, <1>4, <1>5 DEF Types

(* A database that was just created. *)
LEMMA InitHolds == LsmInit => FirstLife
<1> SUFFICES ASSUME LsmInit PROVE FirstLife
  OBVIOUS
<1>1. Init /\ job = [t \in Threads |-> NoJob] /\ opens = 1 /\ buffered = NoFrames
  BY DEF LsmInit
<1>2. TypeOK /\ IInv
  BY <1>1, InitTypeOK, InitIInv
<1>3. Types
  <2>1. job = [t \in Threads |-> job[t]] /\ \A t \in Threads : job[t] = NoJob
    BY <1>1
  <2>2. /\ NoJob = [task |-> NoJob.task, output |-> NoJob.output, remove |-> NoJob.remove]
        /\ NoJob.output \in Seq(Ids) /\ NoJob.remove \in SUBSET Ids
    BY DEF NoJob
  <2>3. next_sst_id \in 1 .. MaxId + 1
    BY <1>1, BoundsAssumption DEF Init
  <2> QED BY <1>2, <2>1, <2>2, <2>3 DEF Types
<1>4. /\ state.memtable = 0 /\ state.imm_memtables = <<>> /\ state.l0_sstables = <<>>
      /\ state.levels = CreateLevels /\ state.sstables = {}
  BY <1>1 DEF Init, CreateState
<1>5. /\ \A l \in DOMAIN CreateLevels : CreateLevels[l].ssts = <<>>
      /\ CompactionOptions.type = "NoCompaction" => Len(CreateLevels) = 1
      /\ CompactionOptions.type = "Simple" => Len(CreateLevels) = CompactionOptions.max_levels
      /\ CompactionOptions.type = "Tiered" => CreateLevels = <<>>
  <2>1. CASE CompactionOptions.type \in {"Leveled", "Simple"}
    <3> DEFINE n == CompactionOptions.max_levels
               f == [l \in 1 .. n |-> [id |-> l, ssts |-> <<>>]]
               V == [id : Nat, ssts : {<<>>}]
    <3>1. n \in Nat /\ CreateLevels = f
      BY <2>1, OptionsAssumption DEF CreateLevels
    <3>2. f = [l \in 1 .. n |-> f[l]] /\ \A l \in 1 .. n : f[l] \in V
      BY <3>1
    <3>4. \A l \in 1 .. n : f[l].ssts = <<>>
      OBVIOUS
    <3> HIDE DEF f, n, V
    <3>3. f \in Seq(V) /\ Len(f) = n /\ DOMAIN f = 1 .. n
      BY <3>1, <3>2, FunctionIsSeq
    <3> QED BY <2>1, <3>1, <3>3, <3>4 DEF n
  <2>2. CASE CompactionOptions.type = "Tiered"
    BY <2>2 DEF CreateLevels
  <2>3. CASE CompactionOptions.type = "NoCompaction"
    BY <2>3 DEF CreateLevels
  <2> QED BY <2>1, <2>2, <2>3, OptionsAssumption
<1>6. StateHolds
  <2>1. RefsApart(state)
    BY <1>4, <1>5 DEF RefsApart
  <2>2. LevelsShape(sst, state)
    BY <1>4, <1>5 DEF LevelsShape, TiersShape
  <2>3. ZeroOldest
    BY <1>4, <1>5 DEF ZeroOldest
  <2> QED BY <1>4, <2>1, <2>2, <2>3 DEF StateHolds
<1>7. ASSUME NEW t \in Threads PROVE ThreadHolds(t)
  <2>1. pc[t] \notin Watched
    BY <1>1 DEF Init, Watched
  <2> QED BY <2>1, Unwatched
<1>8. InputsUnmoved
  BY <1>1 DEF Init, InputsUnmoved
<1> QED BY <1>1, <1>2, <1>3, <1>6, <1>7, <1>8, FaultsAssumption DEF FirstLife, LsmIInv

(* A process that is down takes no step but open(). *)
LEMMA DownOpens ==
  ASSUME life = "down", LsmNext
  PROVE  \E cut \in Cuts : Open(cut)
<1>1. ~Next
  BY DEF Next, ClientStep, FlushThreadStep, Put, PutLog, PutInsert, PutCheck, ForceFreeze,
         FreezeStep, FreezeBegin, FreezeSwap, FreezeRecord, ForceFlush, FlushStep, FlushBegin,
         FlushEmpty, FlushSwap, FlushRecord, Sync, TriggerFlush
<1>2. \A t : ~BeginCompaction(t) /\ ~CompactStep(t) /\ ~CompactFails(t) /\ ~FlushFails(t)
  BY DEF BeginCompaction, CompactStep, Compact, CompactApply, CompactRecord, CompactRemove,
         CompactFails, FlushFails, MayFail
<1>3. /\ ~CloseBegin /\ ~CloseDone /\ ~Destroy /\ ~DestroyLate /\ ~Crash
      /\ \A c : ~CloseFreeze(c) /\ ~CloseFlush(c)
  BY DEF CloseBegin, CloseDone, Destroy, DestroyLate, CloseFreeze, CloseFlush, Joined, Crash
<1> QED BY <1>1, <1>2, <1>3 DEF LsmNext

(* opens counts the calls of open(), and only an object that is still      *)
(* there after one has frames to write.                                    *)
LEMMA OpensCounts ==
  ASSUME opens \in 1 .. MaxOpens, [LsmNext]_vars
  PROVE  /\ opens' \in 1 .. MaxOpens
         /\ \/ opens' = opens /\ (buffered' = buffered \/ DestroyLate)
            \/ (\E cut \in Cuts : Open(cut)) /\ opens' # 1
<1>1. opens \in Nat /\ MaxOpens \in Nat /\ 1 <= opens /\ opens <= MaxOpens
  BY FaultsAssumption
<1>2. CASE \E cut \in Cuts : Open(cut)
  <2>1. opens < MaxOpens /\ opens' = opens + 1
    BY <1>2 DEF Open
  <2>2. opens' \in 1 .. MaxOpens /\ opens' # 1
    BY ONLY <1>1, <2>1
  <2> QED BY <1>2, <2>2
<1>3. CASE ~\E cut \in Cuts : Open(cut)
  <2>1. CASE DestroyLate
    BY <2>1 DEF DestroyLate
  <2>2. CASE ~DestroyLate
    <3>1. opens' = opens /\ buffered' = buffered
      BY <1>3, <2>2 DEF LsmNext, BeginCompaction, CompactStep, Compact, CompactApply, CompactRecord,
             CompactRemove, CompactFails, FlushFails, CloseBegin, CloseDone, Destroy, CloseFreeze,
             CloseFlush, Crash, lsVars, vars
    <3> QED BY <3>1
  <2> QED BY <2>1, <2>2
<1> QED BY <1>2, <1>3

(* With the invariant the assertions of apply_compaction_result hold. *)
LEMMA HoldsUnmoved == Types /\ LsmIInv => InputsUnmoved
<1> SUFFICES ASSUME Types, LsmIInv, NEW t \in Threads, pc[t] = "apply"
             PROVE  ApplyAssert(state, job[t].task)
  BY DEF InputsUnmoved
<1>1. state \in StateOver(Ids)
  BY StateTypes DEF Types
<1>2. TaskFits(Ids, state, job[t].task) /\ RefsApart(state) /\ LevelsShape(sst, state)
  BY DEF LsmIInv, ThreadHolds, JobHolds, StateHolds
<1> QED BY <1>1, <1>2, FitsAssert

(* Then they hold after a step, too. *)
LEMMA StillUnmoved == Types' /\ LsmIInv' => InputsUnmoved'
BY HoldsUnmoved, PTL

(* A process that goes down leaves nothing to assert. *)
LEMMA DownUnmoved ==
  ASSUME Types, InputsUnmoved, LsmNext, ~\E cut \in Cuts : Open(cut), life' = "down", life # "down"
  PROVE  InputsUnmoved'
<1>1. CASE Crash
  BY <1>1 DEF Crash, InputsUnmoved
<1>2. CASE UNCHANGED <<state, pc, job>>
  BY <1>2 DEF InputsUnmoved
<1>3. Crash \/ UNCHANGED <<state, pc, job>>
  <2>1. CASE Next /\ UNCHANGED lsVars
    <3>1. \E t : FlushEmpty(t)
      BY <2>1, ZenonT(30) DEF Next, ClientStep, FlushThreadStep, Put, PutLog, PutInsert, PutCheck,
             ForceFreeze, FreezeStep, FreezeBegin, FreezeSwap, FreezeRecord, ForceFlush, FlushStep, FlushBegin,
             FlushSwap, FlushRecord, Sync, TriggerFlush, stateVars
    <3> QED BY <2>1, <3>1 DEF FlushEmpty, threadVars, lsVars
  <2>2. CASE ~(Next /\ UNCHANGED lsVars)
    BY <2>2 DEF LsmNext, BeginCompaction, CompactStep, Compact, CompactApply, CompactRecord,
           CompactRemove, CompactFails, FlushFails, CloseBegin, CloseDone, Destroy, DestroyLate,
           CloseFreeze, CloseFlush, Joined, stateVars
  <2> QED BY <2>1, <2>2
<1> QED BY <1>1, <1>2, <1>3

(* Every step keeps the invariant, as long as no two compactions run at    *)
(* the same time.                                                          *)
LEMMA LsmNextHolds ==
  ASSUME StrategyAssumed, FirstLife, OneCompaction, [LsmNext]_vars
  PROVE  FirstLife'
<1>1. /\ opens' \in 1 .. MaxOpens
      /\ \/ opens' = opens /\ (buffered' = buffered \/ DestroyLate)
         \/ (\E cut \in Cuts : Open(cut)) /\ opens' # 1
  BY OpensCounts DEF FirstLife
<1>2. SUFFICES ASSUME opens' = 1
               PROVE  Types' /\ InputsUnmoved' /\ (life' # "down" => LsmIInv')
  <2>1. opens' = 1 => buffered' = NoFrames'
    BY <1>1, FirstDestroys DEF FirstLife, NoFrames, Ids
  <2> QED BY <1>1, <2>1 DEF FirstLife
<1>3. opens = 1 /\ ~\E cut \in Cuts : Open(cut)
  <2>1. ~\E cut \in Cuts : Open(cut)
    <3>1. ASSUME NEW cut \in Cuts, Open(cut) PROVE FALSE
      <4>1. opens \in Nat /\ 1 <= opens /\ opens' = opens + 1
        BY <3>1, FaultsAssumption DEF Open, FirstLife
      <4> QED BY ONLY <1>2, <4>1
    <3> QED BY <3>1
  <2> QED BY <1>1, <1>2, <2>1
<1>4. Types
  BY <1>3 DEF FirstLife
<1>5. CASE UNCHANGED vars
  <2>1. UNCHANGED <<life, state, mem, approx_size, next_sst_id, sst, files, wal, wal_open, synced,
                    manifest, state_lock, pc, op, new_id, writes, latest, durable, job>>
    BY <1>5 DEF vars, wpVars, lsVars, stateVars, diskVars, threadVars, ghostVars
  <2>2. Types'
    BY <1>4, <2>1 DEF Types, TypeOK
  <2>3. ASSUME life' # "down" PROVE LsmIInv'
    <3>1. LsmIInv
      BY <1>3, <2>1, <2>3 DEF FirstLife
    <3>2. next_sst_id <= next_sst_id' /\ files \subseteq files'
      BY <1>4, <2>1 DEF Types, TypeOK
    <3>3. IInv'
      <4>1. \A u \in Threads : pc'[u] \in LockedSteps => state_lock' = u
        BY <2>1, <3>1 DEF LsmIInv, IInv, LockHolds
      <4> QED BY <1>4, <2>1, <2>2, <3>1, <3>2, <4>1, AroundIInv DEF LsmIInv
    <3>4. StateHolds'
      BY <2>1, <3>1, <3>2, StateSpared DEF LsmIInv
    <3>5. ASSUME NEW u \in Threads PROVE ThreadHolds(u)'
      <4>1. Spared(u)
        BY <2>1, <3>2 DEF Spared
      <4> QED BY <1>4, <2>2, <3>1, <4>1, ThreadSpared DEF LsmIInv
    <3> QED BY <3>3, <3>4, <3>5 DEF LsmIInv
  <2>4. InputsUnmoved'
    BY <1>3, <2>1 DEF FirstLife, InputsUnmoved
  <2> QED BY <2>2, <2>3, <2>4
<1>6. CASE LsmNext
  <2>1. life # "down" /\ LsmIInv
    BY <1>3, <1>6, DownOpens DEF FirstLife
  <2>2. ASSUME Next, UNCHANGED lsVars PROVE Types' /\ (life' # "down" => LsmIInv')
    BY <1>4, <2>1, <2>2, NextHolds
  <2>3. ASSUME NEW t \in Clients \cup {CompactionThread}, BeginCompaction(t)
        PROVE  Types' /\ LsmIInv'
    BY <1>4, <2>1, <2>3, BeginHolds
  <2>4. ASSUME NEW t \in Threads, CompactStep(t) \/ CompactFails(t) \/ FlushFails(t)
        PROVE  Types' /\ LsmIInv'
    BY <1>4, <2>1, <2>4, CompactHolds, ApplyHolds, RecordHolds, RemoveHolds, CompactFailsHolds,
       FlushFailsHolds DEF CompactStep
  <2>5. ASSUME CloseBegin \/ CloseDone \/ Destroy PROVE Types' /\ LsmIInv'
    BY <1>4, <2>1, <2>5, CloseHolds
  <2>6. ASSUME NEW c \in Clients, CloseFreeze(c) \/ CloseFlush(c) PROVE Types' /\ LsmIInv'
    BY <1>4, <2>1, <2>6, CloseMoveHolds
  <2>7. ASSUME Crash PROVE Types' /\ life' = "down"
    BY <1>4, <2>7, CrashTypes
  <2>8. Types' /\ (life' # "down" => LsmIInv')
    BY <1>3, <1>6, <2>2, <2>3, <2>4, <2>5, <2>6, <2>7, FirstDestroys DEF LsmNext
  <2>9. InputsUnmoved'
    BY <1>3, <1>4, <1>6, <2>1, <2>8, StillUnmoved, DownUnmoved DEF FirstLife
  <2> QED BY <2>8, <2>9
<1> QED BY <1>5, <1>6

-----------------------------------------------------------------------------
(* What the invariant gives *)

(* The properties of a first life. *)
LEMMA FirstLifeGives ==
  ASSUME FirstLife, opens = 1
  PROVE  LsmTypeOK /\ ReadsLatest /\ InputsUnmoved /\ TablesPresent
<1>1. Types /\ (life # "down" => LsmIInv)
  BY DEF FirstLife
<1>2. LsmTypeOK
  <2>1. \A t \in Threads : ToSet(job[t].output) \subseteq Ids /\ job[t].remove \subseteq Ids
    BY <1>1 DEF Types, ToSet
  <2>2. buffered \in [Ids -> Seq(Frame)]
    <3>1. buffered = [i \in Ids |-> <<>>]
      BY DEF FirstLife, NoFrames
    <3>2. <<>> \in Seq(Frame)
      OBVIOUS
    <3> QED BY ONLY <3>1, <3>2
  <2> QED BY <1>1, <2>1, <2>2 DEF LsmTypeOK, Types, FirstLife
<1>3. ReadsLatest
  BY <1>1 DEF ReadsLatest, LsmIInv, IInv, EntryIsLatest, Get
<1>4. InputsUnmoved
  BY DEF FirstLife
<1>5. TablesPresent
  <2>1. SUFFICES ASSUME life # "down"
                 PROVE  Referenced(state) \subseteq state.sstables /\ Referenced(state) \subseteq files
    BY DEF TablesPresent
  <2>2. RefsOpen(state) /\ state.sstables \subseteq files
    BY <1>1, <2>1, StateOpen DEF LsmIInv, StateHolds
  <2>3. Referenced(state) \subseteq state.sstables
    BY <2>2 DEF Referenced, RefsOpen, ToSet
  <2> QED BY <2>2, <2>3
<1> QED BY <1>2, <1>3, <1>4, <1>5

(* In its first life the process keeps the inductive invariant, whatever   *)
(* freezes, flushes, failures and compactions are interleaved, for any     *)
(* number of clients, keys, writes, ids and levels.                        *)
THEOREM FirstLifeInvariant ==
  ASSUME StrategyAssumed
  PROVE  LsmSpec /\ []OneCompaction => []FirstLife
<1>1. LsmInit => FirstLife
  BY InitHolds
<1>2. FirstLife /\ OneCompaction /\ [LsmNext]_vars => FirstLife'
  BY LsmNextHolds
<1> QED BY <1>1, <1>2, PTL DEF LsmSpec

(* Who compacts: with a strategy the compaction thread, without one the     *)
(* callers of force_full_compaction().  Only callers freeze.               *)
Compactor(t) ==
  IF CompactionOptions.type = "NoCompaction" THEN t \in Clients ELSE t = CompactionThread

Freezing == {"freeze", "freeze_swap", "freeze_record"}

InPlace(t, p) == (p \in CompactionSteps => Compactor(t)) /\ (p \in Freezing => t \in Clients)

Placed == pc \in [Threads -> Steps] /\ \A t \in Threads : InPlace(t, pc[t])

(* How a step moves the threads. *)
LEMMA ThreadMoves ==
  ASSUME [LsmNext]_vars
  PROVE  \/ UNCHANGED pc
         \/ pc' = [t \in Threads |-> "idle"]
         \/ \E t \in Threads : \E p \in Steps :
              pc' = [pc EXCEPT ![t] = p] /\ (InPlace(t, pc[t]) => InPlace(t, p))
<1> DEFINE Moves == \E t \in Threads : \E p \in Steps :
             pc' = [pc EXCEPT ![t] = p] /\ (InPlace(t, pc[t]) => InPlace(t, p))
<1>0. \A t : \A p \in {"idle", "logged", "inserted", "flush", "flush_swap", "flush_record"} :
        p \in Steps /\ InPlace(t, p)
  BY DEF Steps, InPlace, CompactionSteps, Freezing
<1>1. CASE Next
  <2>1. ASSUME NEW t \in Threads, FlushStep(t)
        PROVE  UNCHANGED pc \/ \E p \in {"idle", "flush_swap", "flush_record"} :
                                 pc' = [pc EXCEPT ![t] = p]
    BY <2>1 DEF FlushStep, FlushBegin, FlushEmpty, FlushSwap, FlushRecord, threadVars
  <2>2. ASSUME NEW c \in Clients, ClientStep(c), ~FlushStep(c)
        PROVE  UNCHANGED pc \/ \E p \in {"idle", "logged", "inserted", "freeze", "freeze_swap",
                                         "freeze_record", "flush"} : pc' = [pc EXCEPT ![c] = p]
    BY <2>2 DEF ClientStep, Put, PutLog, PutInsert, PutCheck, ForceFreeze, FreezeStep,
           FreezeBegin, FreezeSwap, FreezeRecord, ForceFlush, Sync, threadVars
  <2>3. TriggerFlush => pc' = [pc EXCEPT ![FlushThread] = "flush"]
    BY DEF TriggerFlush
  <2>4. FlushThread \in Threads /\ \A c \in Clients : c \in Threads
    BY DEF Threads
  <2>5. \A c \in Clients : \A p \in Freezing : p \in Steps /\ InPlace(c, p)
    BY DEF Steps, InPlace, CompactionSteps, Freezing
  <2>6. ASSUME NEW c \in Clients, ClientStep(c), ~FlushStep(c) PROVE UNCHANGED pc \/ Moves
    BY <1>0, <2>2, <2>4, <2>5, <2>6 DEF Freezing
  <2>7. ASSUME NEW t \in Threads, FlushStep(t) PROVE UNCHANGED pc \/ Moves
    BY <1>0, <2>1, <2>7
  <2>8. TriggerFlush => Moves
    BY <1>0, <2>3, <2>4
  <2> HIDE DEF Moves
  <2>9. UNCHANGED pc \/ Moves
    BY <1>1, <2>4, <2>6, <2>7, <2>8 DEF Next, FlushThreadStep
  <2> QED BY <2>9 DEF Moves
<1>2. ASSUME NEW t \in Clients \cup {CompactionThread}, BeginCompaction(t) PROVE Moves
  <2>1. Compactor(t)
    <3>1. CASE t = CompactionThread
      <4>1. TriggeredTasks # {}
        BY <1>2, <3>1 DEF BeginCompaction
      <4>2. CompactionOptions.type # "NoCompaction"
        BY <4>1 DEF TriggeredTasks, GenerateCompactionTask
      <4> QED BY <3>1, <4>2 DEF Compactor
    <3>2. CASE t # CompactionThread
      <4>1. ForceFullTasks # {} /\ t \in Clients
        BY <1>2, <3>2 DEF BeginCompaction
      <4> QED BY <4>1 DEF ForceFullTasks, Compactor
    <3> QED BY <3>1, <3>2
  <2>2. pc' = [pc EXCEPT ![t] = "compact"] /\ "compact" \in Steps /\ t \in Threads
    BY <1>2 DEF BeginCompaction, Steps, CompactionSteps, Threads
  <2>3. InPlace(t, "compact")
    BY <2>1 DEF InPlace, Freezing
  <2> QED BY <2>2, <2>3
<1>3. ASSUME NEW t \in Threads, CompactStep(t) \/ CompactFails(t) \/ FlushFails(t) PROVE Moves
  <2>1. PICK p \in {"idle", "apply", "compact_record", "remove"} :
          pc' = [pc EXCEPT ![t] = p] /\ (p = "idle" \/ pc[t] \in CompactionSteps)
    <3>1. "compact" \in CompactionSteps /\ "apply" \in CompactionSteps
          /\ "compact_record" \in CompactionSteps
      BY DEF CompactionSteps
    <3> QED BY <1>3, <3>1 DEF CompactStep, Compact, CompactApply, CompactRecord, CompactRemove,
           CompactFails, FlushFails
  <2>2. p = "idle" \/ pc[t] \in CompactionSteps
    BY <2>1
  <2>3. p \in Steps /\ p \notin Freezing
    BY DEF Steps, CompactionSteps, Freezing
  <2>4. InPlace(t, pc[t]) => InPlace(t, p)
    BY <1>0, <2>2, <2>3 DEF InPlace
  <2> QED BY <2>1, <2>3, <2>4
<1>4. CloseBegin \/ CloseDone \/ Destroy \/ DestroyLate => UNCHANGED pc
  BY DEF CloseBegin, CloseDone, Destroy, DestroyLate, threadVars
<1>5. ASSUME NEW c \in Clients, CloseFreeze(c) \/ CloseFlush(c) PROVE Moves
  <2>1. PICK p \in {"freeze", "flush"} : pc' = [pc EXCEPT ![c] = p]
    BY <1>5 DEF CloseFreeze, CloseFlush
  <2>2. c \in Threads /\ p \in Steps /\ InPlace(c, p)
    BY DEF Threads, Steps, CompactionSteps, InPlace
  <2> QED BY <2>1, <2>2
<1>6. Crash => pc' = [t \in Threads |-> "idle"]
  BY DEF Crash
<1>7. \A cut : Open(cut) => pc' = [t \in Threads |-> "idle"]
  BY DEF Open
<1>8. UNCHANGED vars => UNCHANGED pc
  BY DEF vars, wpVars, threadVars
<1> HIDE DEF Moves
<1>9. UNCHANGED pc \/ pc' = [t \in Threads |-> "idle"] \/ Moves
  <2>1. CASE Next
    BY <1>1, <2>1 DEF Moves
  <2>2. CASE ~Next
    BY <1>2, <1>3, <1>4, <1>5, <1>6, <1>7, <1>8, <2>2 DEF LsmNext
  <2> QED BY <2>1, <2>2
<1> QED BY <1>9 DEF Moves

(* In this life of the process and every other. *)
LEMMA ThreadsPlaced == LsmSpec => []Placed
<1>0. "idle" \in Steps /\ \A t : InPlace(t, "idle")
  BY DEF Steps, InPlace, CompactionSteps, Freezing
<1>1. LsmInit => Placed
  BY <1>0 DEF LsmInit, Init, Placed
<1>2. Placed /\ [LsmNext]_vars => Placed'
  <2> SUFFICES ASSUME Placed, [LsmNext]_vars PROVE Placed'
    OBVIOUS
  <2>1. CASE UNCHANGED pc
    BY <2>1 DEF Placed
  <2>2. CASE pc' = [t \in Threads |-> "idle"]
    BY <1>0, <2>2 DEF Placed
  <2>3. ASSUME NEW t \in Threads, NEW p \in Steps, pc' = [pc EXCEPT ![t] = p],
               InPlace(t, pc[t]) => InPlace(t, p)
        PROVE  Placed'
    BY <2>3 DEF Placed
  <2> QED BY <2>1, <2>2, <2>3, ThreadMoves
<1> QED BY <1>1, <1>2, PTL DEF LsmSpec

(* With a strategy compactions never run at the same time, in this life of *)
(* the process or any other.  Without one it takes a single client.        *)
THEOREM CompactionsApart ==
  ASSUME CompactionOptions.type # "NoCompaction" \/ \A c, d \in Clients : c = d
  PROVE  LsmSpec => []OneCompaction
<1>1. Placed => OneCompaction
  <2> SUFFICES ASSUME Placed, NEW t \in Threads, NEW u \in Threads,
                      pc[t] \in CompactionSteps, pc[u] \in CompactionSteps
               PROVE  t = u
    BY DEF OneCompaction
  <2>1. Compactor(t) /\ Compactor(u)
    BY DEF Placed, InPlace
  <2> QED BY <2>1 DEF Compactor
<1> QED BY <1>1, ThreadsPlaced, PTL

(* get() of every key answers with the value put last, whatever freezes,   *)
(* flushes and compactions are under way and whatever I/O errors they      *)
(* meet: force_full_compaction() without a strategy, one call at a time.   *)
THEOREM CompactionReadsLatest ==
  ASSUME StrategyAssumed
  PROVE  LsmSpec /\ []OneCompaction => [](opens = 1 => ReadsLatest)
<1>1. FirstLife => (opens = 1 => ReadsLatest)
  BY FirstLifeGives
<1> QED BY <1>1, FirstLifeInvariant, PTL

(* The assertions of apply_compaction_result hold: between the generation  *)
(* of a task and its application only flushes change the state.            *)
THEOREM CompactionInputsUnmoved ==
  ASSUME StrategyAssumed
  PROVE  LsmSpec /\ []OneCompaction => [](opens = 1 => InputsUnmoved)
<1>1. FirstLife => (opens = 1 => InputsUnmoved)
  BY FirstLifeGives
<1> QED BY <1>1, FirstLifeInvariant, PTL

(* Every table of L0 and the levels is open and has its file: compaction   *)
(* removes no file that get(), scan() or a later compaction needs.         *)
THEOREM CompactionTablesPresent ==
  ASSUME StrategyAssumed
  PROVE  LsmSpec /\ []OneCompaction => [](opens = 1 => TablesPresent)
<1>1. FirstLife => (opens = 1 => TablesPresent)
  BY FirstLifeGives
<1> QED BY <1>1, FirstLifeInvariant, PTL

(* The variables keep their types, the counter of ids its bound.           *)
THEOREM CompactionTypes ==
  ASSUME StrategyAssumed
  PROVE  LsmSpec /\ []OneCompaction => [](opens = 1 => LsmTypeOK)
<1>1. FirstLife => (opens = 1 => LsmTypeOK)
  BY FirstLifeGives
<1> QED BY <1>1, FirstLifeInvariant, PTL

(* With the simple or the tiered strategy in the background nothing is     *)
(* left to the callers: all of this holds of every behaviour.              *)
THEOREM BackgroundCompaction ==
  ASSUME StrategyAssumed, CompactionOptions.type # "NoCompaction"
  PROVE  LsmSpec => [](opens = 1 => ReadsLatest /\ InputsUnmoved /\ TablesPresent /\ LsmTypeOK)
<1>1. FirstLife => (opens = 1 => ReadsLatest /\ InputsUnmoved /\ TablesPresent /\ LsmTypeOK)
  BY FirstLifeGives
<1> QED BY <1>1, FirstLifeInvariant, CompactionsApart, PTL

-----------------------------------------------------------------------------
(* Ids, whatever the strategy and however many compactions run at once *)

(* The types the proof needs.  Nothing is said of L0 and the levels, which *)
(* the strategies rearrange.                                               *)
EngineTypes ==
  /\ next_sst_id \in Nat /\ writes \in Nat
  /\ state = [memtable |-> state.memtable, imm_memtables |-> state.imm_memtables,
              l0_sstables |-> state.l0_sstables, levels |-> state.levels,
              sstables |-> state.sstables]
  /\ state.memtable \in Ids /\ state.imm_memtables \in Seq(Ids) /\ state.sstables \subseteq Ids
  /\ mem \in [Ids -> Table] /\ sst = [i \in Ids |-> sst[i]]
  /\ latest = [k \in Keys |-> latest[k]]
  /\ pc \in [Threads -> Steps] /\ new_id \in [Threads -> Ids] /\ op \in [Clients -> Write]

(* The local state of every compaction. *)
JobTypes ==
  /\ job = [t \in Threads |-> job[t]]
  /\ \A t \in Threads :
       /\ job[t] = [task |-> job[t].task, output |-> job[t].output, remove |-> job[t].remove]
       /\ ToSet(job[t].output) \subseteq Ids
       /\ pc[t] \in {"compact", "apply"} =>
            job[t].task.type \in {"ForceFull", "Leveled", "Tiered", "Simple"}

(* The ids of the MemTables: of those in memory, and of the new one of a   *)
(* freeze.                                                                 *)
MemIds == LiveMemtables \cup {new_id[t] : t \in {u \in Threads : pc[u] = "freeze_swap"}}

(* Ids that were given out and that no MemTable has. *)
Apart(S) == \A id \in S : id < next_sst_id /\ id \notin MemIds

(* The MemTables have ids of their own, and the threads in the middle of   *)
(* a put(), a freeze or a flush hold what they need.                       *)
MemtablesApart ==
  /\ \A id \in MemIds : id < next_sst_id
  /\ \A t \in Threads : pc[t] = "freeze_swap" => new_id[t] \notin LiveMemtables
  /\ LET imm == state.imm_memtables IN
     \A i \in DOMAIN imm : /\ imm[i] # state.memtable
                           /\ \A j \in DOMAIN imm : imm[i] = imm[j] => i = j
  /\ \A t \in Threads : pc[t] = "flush_swap" =>
       state.imm_memtables # <<>> /\ new_id[t] = OldestImm
  /\ LockHolds /\ PutHolds

(* So have the open SSTables, and those of a compaction not yet applied. *)
TablesApart ==
  /\ Apart(state.sstables)
  /\ \A t \in Threads : pc[t] = "apply" => Apart(ToSet(job[t].output))

EngineInv == EngineTypes /\ JobTypes /\ MemtablesApart /\ TablesApart

(* What a step of a running process does to the ids. *)
StepKeeps ==
  /\ next_sst_id <= next_sst_id'
  /\ \A id \in MemIds' : id \in MemIds \/ next_sst_id <= id
  /\ \A id \in Ids : id < next_sst_id /\ id \notin LiveMemtables => sst'[id] = sst[id]

-----------------------------------------------------------------------------
(* Ids *)

(* MemTables' ids are ids. *)
LEMMA MemIdsType ==
  ASSUME EngineTypes
  PROVE  LiveMemtables \subseteq Ids /\ MemIds \subseteq Ids /\ Ids \subseteq Nat
<1>1. Ids \subseteq Nat
  BY BoundsAssumption DEF Ids
<1>2. \A i \in DOMAIN state.imm_memtables : state.imm_memtables[i] \in Ids
  BY DEF EngineTypes
<1>3. LiveMemtables \subseteq Ids
  BY <1>2 DEF LiveMemtables, EngineTypes
<1>4. \A t \in Threads : new_id[t] \in Ids
  BY DEF EngineTypes
<1> QED BY <1>1, <1>3, <1>4 DEF MemIds

(* Ids that no MemTable has stay so. *)
LEMMA ApartStill ==
  ASSUME EngineTypes, EngineTypes', StepKeeps, NEW S, S \subseteq Ids, Apart(S)
  PROVE  \A id \in S : id < next_sst_id' /\ id \notin MemIds'
<1> SUFFICES ASSUME NEW id \in S PROVE id < next_sst_id' /\ id \notin MemIds'
  OBVIOUS
<1>1. id < next_sst_id /\ id \notin MemIds /\ id \in Nat
  BY MemIdsType DEF Apart
<1>2. next_sst_id \in Nat /\ next_sst_id' \in Nat /\ next_sst_id <= next_sst_id'
  BY DEF EngineTypes, StepKeeps
<1>3. id < next_sst_id'
  BY ONLY <1>1, <1>2
<1>4. ~(next_sst_id <= id)
  BY ONLY <1>1, <1>2
<1> QED BY <1>1, <1>3, <1>4 DEF StepKeeps

(* A table that no MemTable has the id of is not written. *)
LEMMA ApartUnwritten ==
  ASSUME StepKeeps, NEW S, S \subseteq Ids, Apart(S)
  PROVE  \A id \in S : sst'[id] = sst[id]
<1>1. \A id \in S : id \notin LiveMemtables
  BY DEF Apart, MemIds
<1> QED BY <1>1 DEF Apart, StepKeeps

(* A lock that was free or the thread's own keeps its meaning. *)
LEMMA LockStep ==
  ASSUME LockHolds, NEW t \in Threads, \A u \in Threads : u # t => pc'[u] = pc[u],
         pc'[t] \in LockedSteps => state_lock' = t,
         state_lock' = state_lock \/ state_lock = NoThread \/ pc[t] \in LockedSteps
  PROVE  LockHolds'
<1>1. NoThread \notin Threads
  BY ThreadsAssumption DEF Threads
<1>2. ASSUME NEW u \in Threads, u # t, pc'[u] \in LockedSteps PROVE state_lock' = u
  <2>1. state_lock = u
    BY <1>2 DEF LockHolds
  <2>2. pc[t] \notin LockedSteps
    BY <1>2, <2>1 DEF LockHolds
  <2> QED BY <1>1, <1>2, <2>1, <2>2
<1> QED BY <1>2 DEF LockHolds

(* Open tables and outputs stay apart from the MemTables when the tables   *)
(* that are added are.                                                     *)
LEMMA TablesKept ==
  ASSUME EngineInv, EngineTypes', StepKeeps,
         \A u \in Threads : pc'[u] = "apply" =>
           \/ pc[u] = "apply" /\ job'[u].output = job[u].output
           \/ \A id \in ToSet(job'[u].output) : id < next_sst_id' /\ id \notin MemIds',
         NEW S, state'.sstables \subseteq state.sstables \cup S,
         \A id \in S : id < next_sst_id' /\ id \notin MemIds'
  PROVE  TablesApart'
<1>0. EngineTypes
  BY DEF EngineInv
<1>1. \A id \in state'.sstables : id < next_sst_id' /\ id \notin MemIds'
  <2> DEFINE T == state.sstables
  <2>1. T \subseteq Ids /\ Apart(T)
    BY DEF EngineInv, EngineTypes, TablesApart
  <2> HIDE DEF T
  <2>2. \A id \in T : id < next_sst_id' /\ id \notin MemIds'
    BY <1>0, <2>1, ApartStill
  <2> QED BY <2>2 DEF T
<1>2. ASSUME NEW t \in Threads, pc[t] = "apply", job'[t].output = job[t].output
      PROVE  \A id \in ToSet(job'[t].output) : id < next_sst_id' /\ id \notin MemIds'
  <2> DEFINE T == ToSet(job[t].output)
  <2>1. T \subseteq Ids /\ Apart(T) /\ ToSet(job'[t].output) = T
    BY <1>2 DEF EngineInv, JobTypes, TablesApart
  <2> HIDE DEF T
  <2>2. \A id \in T : id < next_sst_id' /\ id \notin MemIds'
    BY <1>0, <2>1, ApartStill
  <2> QED BY <2>1, <2>2
<1> QED BY <1>1, <1>2 DEF TablesApart, Apart

(* In particular when no table is added. *)
LEMMA TablesSame ==
  ASSUME EngineInv, EngineTypes', StepKeeps, state'.sstables \subseteq state.sstables,
         \A u \in Threads : pc'[u] = "apply" => pc[u] = "apply" /\ job'[u].output = job[u].output
  PROVE  TablesApart'
<1> DEFINE S == {}
<1>1. /\ state'.sstables \subseteq state.sstables \cup S
      /\ \A id \in S : id < next_sst_id' /\ id \notin MemIds'
  OBVIOUS
<1> HIDE DEF S
<1> QED BY <1>1, TablesKept

(* A step that swaps no state and gives out no id. *)
LEMMA QuietKeeps ==
  ASSUME EngineInv, UNCHANGED <<state, next_sst_id>>, EngineTypes', JobTypes', LockHolds', PutHolds',
         \A u \in Threads : pc'[u] = "freeze_swap" => pc[u] = "freeze_swap" /\ new_id'[u] = new_id[u],
         \A u \in Threads : pc'[u] = "flush_swap" =>
                              state.imm_memtables # <<>> /\ new_id'[u] = OldestImm,
         \A u \in Threads : pc'[u] = "apply" => pc[u] = "apply" /\ job'[u].output = job[u].output,
         \A id \in Ids : id \notin LiveMemtables => sst'[id] = sst[id]
  PROVE  EngineInv' /\ StepKeeps
<1>1. LiveMemtables' = LiveMemtables
  BY DEF LiveMemtables
<1>2. MemIds' \subseteq MemIds
  BY <1>1 DEF MemIds
<1>3. StepKeeps
  <2>1. next_sst_id <= next_sst_id'
    BY DEF EngineInv, EngineTypes
  <2> QED BY <1>2, <2>1 DEF StepKeeps
<1>4. OldestImm' = OldestImm
  BY DEF OldestImm
<1>5. MemtablesApart'
  BY <1>1, <1>2, <1>4 DEF MemtablesApart, EngineInv
<1>6. TablesApart'
  BY <1>3, TablesSame
<1> QED BY <1>3, <1>5, <1>6 DEF EngineInv

(* A step of the write path leaves the compactions alone. *)
LEMMA JobSame ==
  ASSUME JobTypes, job' = job,
         \A u \in Threads : pc'[u] \in {"compact", "apply"} => pc'[u] = pc[u]
  PROVE  JobTypes'
BY DEF JobTypes

(* put() and del(). *)
LEMMA PutKeeps ==
  ASSUME EngineInv, NEW c \in Clients, Put(c) \/ PutInsert(c) \/ PutCheck(c), UNCHANGED lsVars
  PROVE  EngineInv' /\ StepKeeps
<1>0. c \in Threads
  BY DEF Threads
<1>1. /\ UNCHANGED <<state, next_sst_id, sst, state_lock, new_id, job>>
      /\ \E p \in {"logged", "inserted", "freeze", "idle"} : pc' = [pc EXCEPT ![c] = p]
  BY DEF Put, PutLog, PutInsert, PutCheck, stateVars, diskVars, lsVars
<1>2. /\ \A u \in Threads : u # c => pc'[u] = pc[u]
      /\ pc'[c] \in {"logged", "inserted", "freeze", "idle"} /\ pc' \in [Threads -> Steps]
  BY <1>0, <1>1 DEF EngineInv, EngineTypes, Steps
<1>3. /\ writes' \in Nat /\ op' \in [Clients -> Write] /\ mem' \in [Ids -> Table]
      /\ latest' = [k \in Keys |-> latest'[k]] /\ PutHolds'
  <2>0. \A d \in Clients : d # c => pc'[d] = pc[d]
    BY <1>2 DEF Threads
  <2>1. CASE Put(c)
    <3>1. PICK k \in KeysOf[c], sgn \in {1, -1} : PutLog(c, k, sgn)
      BY <2>1 DEF Put
    <3> DEFINE e == sgn * (writes + 1)
    <3>2. /\ op' = [op EXCEPT ![c] = [key |-> k, ent |-> e, into |-> state.memtable]]
          /\ writes' = writes + 1 /\ UNCHANGED <<mem, latest>>
      BY <3>1 DEF PutLog, stateVars
    <3>3. e \in Int /\ e # 0
      BY DEF EngineInv, EngineTypes
    <3>4. k \in Keys /\ state.memtable \in Ids
      BY KeysOfAssumption DEF EngineInv, EngineTypes
    <3> HIDE DEF e
    <3>5. [key |-> k, ent |-> e, into |-> state.memtable] \in Write
      BY <3>3, <3>4 DEF Write
    <3>6. /\ op'[c] = [key |-> k, ent |-> e, into |-> state.memtable]
          /\ \A d \in Clients : d # c => op'[d] = op[d]
      BY <3>2 DEF EngineInv, EngineTypes
    <3>7. PutHolds'
      <4>1. op'[c].into = state.memtable /\ op'[c].key \in Keys /\ op'[c].ent # Absent
        BY <3>3, <3>4, <3>6 DEF Absent
      <4> QED BY <1>1, <2>0, <3>6, <4>1 DEF PutHolds, EngineInv, MemtablesApart
    <3>8. op' \in [Clients -> Write]
      BY <3>2, <3>5 DEF EngineInv, EngineTypes
    <3> QED BY <3>2, <3>7, <3>8 DEF EngineInv, EngineTypes
  <2>2. CASE PutInsert(c)
    <3>1. /\ pc[c] = "logged" /\ mem' = [mem EXCEPT ![op[c].into][op[c].key] = op[c].ent]
          /\ latest' = [latest EXCEPT ![op[c].key] = op[c].ent] /\ UNCHANGED <<op, writes>>
          /\ pc' = [pc EXCEPT ![c] = "inserted"]
      BY <2>2 DEF PutInsert
    <3>2. op[c].ent \in Int /\ op[c].into \in Ids /\ op[c].key \in Keys
      BY <3>1 DEF EngineInv, EngineTypes, MemtablesApart, PutHolds, Write
    <3>3. mem' \in [Ids -> Table]
      BY <3>1, <3>2 DEF EngineInv, EngineTypes, Table
    <3>4. pc'[c] # "logged"
      BY <1>0, <3>1 DEF EngineInv, EngineTypes
    <3>5. PutHolds'
      BY <1>1, <2>0, <3>1, <3>4 DEF PutHolds, EngineInv, MemtablesApart
    <3>6. latest' = [k \in Keys |-> latest'[k]]
      BY <3>1 DEF EngineInv, EngineTypes
    <3> QED BY <3>1, <3>3, <3>5, <3>6 DEF EngineInv, EngineTypes
  <2>3. CASE PutCheck(c)
    <3>1. /\ pc'[c] # "logged" /\ UNCHANGED <<mem, writes, latest>>
          /\ op' = op \/ op' = [op EXCEPT ![c] = NoOp]
      BY <1>0, <2>3 DEF PutCheck, stateVars, ghostVars, EngineInv, EngineTypes
    <3>2. NoOp \in Write
      BY BoundsAssumption DEF NoOp, Write, Ids, Absent
    <3>3. op' \in [Clients -> Write] /\ \A d \in Clients : d # c => op'[d] = op[d]
      BY <3>1, <3>2 DEF EngineInv, EngineTypes
    <3>4. PutHolds'
      BY <1>1, <2>0, <3>1, <3>3 DEF PutHolds, EngineInv, MemtablesApart
    <3> QED BY <3>1, <3>3, <3>4 DEF EngineInv, EngineTypes
  <2> QED BY <2>1, <2>2, <2>3
<1>4. EngineTypes'
  BY <1>1, <1>2, <1>3 DEF EngineInv, EngineTypes
<1>5. JobTypes'
  BY <1>1, <1>2, JobSame DEF EngineInv
<1>6. LockHolds'
  BY <1>0, <1>1, <1>2, LockStep DEF EngineInv, MemtablesApart, LockedSteps
<1>7. /\ \A u \in Threads : pc'[u] = "freeze_swap" => pc[u] = "freeze_swap" /\ new_id'[u] = new_id[u]
      /\ \A u \in Threads : pc'[u] = "flush_swap" =>
                              state.imm_memtables # <<>> /\ new_id'[u] = OldestImm
      /\ \A u \in Threads : pc'[u] = "apply" => pc[u] = "apply" /\ job'[u].output = job[u].output
  BY <1>1, <1>2 DEF EngineInv, MemtablesApart
<1> QED BY <1>1, <1>3, <1>4, <1>5, <1>6, <1>7, QuietKeeps

(* The calls, the steps that end a freeze, a flush or a compaction, and    *)
(* those that build a file for the oldest immutable MemTable.              *)
LEMMA AroundKeeps ==
  ASSUME EngineInv, NEW t \in Threads,
         \/ /\ \/ ForceFreeze(t) \/ (t \in Clients /\ FreezeRecord(t)) \/ ForceFlush(t) \/ Sync(t)
               \/ (t = FlushThread /\ TriggerFlush)
               \/ FlushBegin(t) \/ FlushEmpty(t) \/ FlushRecord(t)
            /\ UNCHANGED lsVars
         \/ CompactRecord(t) \/ FlushFails(t) \/ CloseFreeze(t) \/ CloseFlush(t)
  PROVE  EngineInv' /\ StepKeeps
<1>0. \A c \in Clients : c \in Threads
  BY DEF Threads
<1>1. /\ UNCHANGED <<state, next_sst_id, mem, job, writes, latest>>
      /\ op' = op \/ (t \in Clients /\ op' = [op EXCEPT ![t] = NoOp])
      /\ pc' = pc \/ \E p \in {"idle", "freeze", "flush", "flush_swap", "remove"} :
                       pc' = [pc EXCEPT ![t] = p]
      /\ new_id' = new_id \/ new_id' = [new_id EXCEPT ![t] = 0]
           \/ (FlushBegin(t) /\ new_id' = [new_id EXCEPT ![t] = OldestImm])
  BY DEF ForceFreeze, FreezeRecord, ForceFlush, Sync, TriggerFlush, FlushBegin, FlushEmpty,
         FlushRecord, CompactRecord, FlushFails, CloseFreeze, CloseFlush, stateVars, threadVars,
         ghostVars, lsVars
<1>2. /\ \A u \in Threads : u # t => pc'[u] = pc[u] /\ new_id'[u] = new_id[u]
      /\ pc' \in [Threads -> Steps] /\ DOMAIN new_id' = Threads
  BY <1>1 DEF EngineInv, EngineTypes, Steps, CompactionSteps
<1>3. /\ pc'[t] \in {"idle", "freeze", "flush", "flush_swap", "remove"}
      /\ pc'[t] = "flush_swap" => FlushBegin(t) /\ state.imm_memtables # <<>> /\ state_lock' = t
                                 /\ new_id' = [new_id EXCEPT ![t] = OldestImm]
      /\ state_lock' = state_lock \/ state_lock = NoThread \/ pc[t] \in LockedSteps
  BY DEF ForceFreeze, FreezeRecord, ForceFlush, Sync, TriggerFlush, FlushBegin, FlushEmpty,
         FlushRecord, CompactRecord, FlushFails, CloseFreeze, CloseFlush, Joined, threadVars,
         LockedSteps, EngineInv, EngineTypes
<1>4. sst' = sst \/ (state.imm_memtables # <<>> /\ \E x : sst' = [sst EXCEPT ![OldestImm] = x])
  BY DEF ForceFreeze, FreezeRecord, ForceFlush, Sync, TriggerFlush, FlushBegin, FlushEmpty,
         FlushRecord, CompactRecord, FlushFails, CloseFreeze, CloseFlush, diskVars
<1>5. state.imm_memtables # <<>> => OldestImm \in LiveMemtables /\ OldestImm \in Ids
  <2> SUFFICES ASSUME state.imm_memtables # <<>>
               PROVE  OldestImm \in LiveMemtables /\ OldestImm \in Ids
    OBVIOUS
  <2>1. state.imm_memtables \in Seq(Ids)
    BY DEF EngineInv, EngineTypes
  <2>2. Len(state.imm_memtables) \in DOMAIN state.imm_memtables
    BY <2>1
  <2> QED BY <2>1, <2>2 DEF OldestImm, LiveMemtables
<1>6. /\ sst' = [i \in Ids |-> sst'[i]]
      /\ \A id \in Ids : id \notin LiveMemtables => sst'[id] = sst[id]
  BY <1>4, <1>5 DEF EngineInv, EngineTypes
<1>7. EngineTypes'
  <2>1. NoOp \in Write /\ 0 \in Ids
    BY BoundsAssumption DEF NoOp, Write, Ids, Absent
  <2>2. op' \in [Clients -> Write]
    BY <1>1, <2>1 DEF EngineInv, EngineTypes
  <2>3. new_id' \in [Threads -> Ids]
    <3>1. FlushBegin(t) /\ new_id' = [new_id EXCEPT ![t] = OldestImm] =>
            new_id' = new_id \/ state.imm_memtables # <<>>
      BY DEF FlushBegin
    <3> QED BY <1>1, <1>5, <2>1, <3>1 DEF EngineInv, EngineTypes
  <2> QED BY <1>1, <1>2, <1>6, <2>2, <2>3 DEF EngineInv, EngineTypes
<1>8. JobTypes'
  BY <1>1, <1>2, <1>3, JobSame DEF EngineInv
<1>9. LockHolds'
  BY <1>2, <1>3, LockStep DEF EngineInv, MemtablesApart, LockedSteps
<1>10. PutHolds'
  <2>1. \A c \in Clients : pc'[c] = "logged" => pc[c] = "logged" /\ op'[c] = op[c]
    BY <1>0, <1>1, <1>2, <1>3 DEF EngineInv, EngineTypes
  <2> QED BY <1>1, <2>1 DEF PutHolds, EngineInv, MemtablesApart
<1>11. /\ \A u \in Threads : pc'[u] = "freeze_swap" => pc[u] = "freeze_swap" /\ new_id'[u] = new_id[u]
       /\ \A u \in Threads : pc'[u] = "flush_swap" =>
                               state.imm_memtables # <<>> /\ new_id'[u] = OldestImm
       /\ \A u \in Threads : pc'[u] = "apply" => pc[u] = "apply" /\ job'[u].output = job[u].output
  <2>1. pc'[t] = "flush_swap" => state.imm_memtables # <<>> /\ new_id'[t] = OldestImm
    BY <1>3 DEF EngineInv, EngineTypes
  <2> QED BY <1>1, <1>2, <1>3, <2>1 DEF EngineInv, MemtablesApart
<1> QED BY <1>1, <1>6, <1>7, <1>8, <1>9, <1>10, <1>11, QuietKeeps

(* close() starts and ends, and the object is destroyed. *)
LEMMA CloseKeeps ==
  ASSUME EngineInv, CloseBegin \/ CloseDone \/ Destroy \/ UNCHANGED vars
  PROVE  EngineInv' /\ StepKeeps
<1>1. UNCHANGED <<state, mem, next_sst_id, sst, state_lock, pc, op, new_id, writes, latest, job>>
  BY DEF CloseBegin, CloseDone, Destroy, vars, wpVars, lsVars, stateVars, diskVars, threadVars, ghostVars
<1>2. EngineTypes' /\ JobTypes'
  BY <1>1 DEF EngineInv, EngineTypes, JobTypes
<1>3. LockHolds' /\ PutHolds'
  BY <1>1 DEF EngineInv, MemtablesApart, LockHolds, PutHolds
<1>4. \A u \in Threads : pc'[u] = "flush_swap" => state.imm_memtables # <<>> /\ new_id'[u] = OldestImm
  BY <1>1 DEF EngineInv, MemtablesApart
<1> QED BY <1>1, <1>2, <1>3, <1>4, QuietKeeps

(* One field of a compaction's local state is set. *)
LEMMA JobFieldSet ==
  ASSUME JobTypes, NEW t \in Threads, NEW x
  PROVE  /\ [job EXCEPT ![t].task = x] =
              [job EXCEPT ![t] = [task |-> x, output |-> job[t].output, remove |-> job[t].remove]]
         /\ [job EXCEPT ![t].output = x] =
              [job EXCEPT ![t] = [task |-> job[t].task, output |-> x, remove |-> job[t].remove]]
         /\ [job EXCEPT ![t].remove = x] =
              [job EXCEPT ![t] = [task |-> job[t].task, output |-> job[t].output, remove |-> x]]
<1>1. job[t] = [task |-> job[t].task, output |-> job[t].output, remove |-> job[t].remove]
  BY DEF JobTypes
<1>2. /\ [job[t] EXCEPT !.task = x] = [task |-> x, output |-> job[t].output, remove |-> job[t].remove]
      /\ [job[t] EXCEPT !.output = x] = [task |-> job[t].task, output |-> x, remove |-> job[t].remove]
      /\ [job[t] EXCEPT !.remove = x] = [task |-> job[t].task, output |-> job[t].output, remove |-> x]
  BY <1>1
<1>3. t \in DOMAIN job
  BY DEF JobTypes
<1> QED BY <1>2, <1>3

(* A compaction's local state is replaced. *)
LEMMA JobReplaced ==
  ASSUME JobTypes, NEW t \in Threads, NEW new, job' = [job EXCEPT ![t] = new],
         new = [task |-> new.task, output |-> new.output, remove |-> new.remove],
         ToSet(new.output) \subseteq Ids,
         \A u \in Threads : u # t => pc'[u] = pc[u],
         pc'[t] \in {"compact", "apply"} => new.task.type \in {"ForceFull", "Leveled", "Tiered", "Simple"}
  PROVE  JobTypes' /\ job'[t] = new /\ \A u \in Threads : u # t => job'[u] = job[u]
<1>1. job'[t] = new /\ \A u \in Threads : u # t => job'[u] = job[u]
  BY DEF JobTypes
<1>2. job' = [u \in Threads |-> job'[u]]
  BY DEF JobTypes
<1>3. ASSUME NEW u \in Threads
      PROVE  /\ job'[u] = [task |-> job'[u].task, output |-> job'[u].output, remove |-> job'[u].remove]
             /\ ToSet(job'[u].output) \subseteq Ids
             /\ pc'[u] \in {"compact", "apply"} =>
                  job'[u].task.type \in {"ForceFull", "Leveled", "Tiered", "Simple"}
  <2>1. CASE u = t
    BY <1>1, <2>1
  <2>2. CASE u # t
    BY <1>1, <2>2 DEF JobTypes
  <2> QED BY <2>1, <2>2
<1> QED BY <1>1, <1>2, <1>3 DEF JobTypes

(* The tasks are of one of the four types. *)
LEMMA TaskTypes ==
  ASSUME NEW task, task \in TriggeredTasks \cup ForceFullTasks
  PROVE  task.type \in {"ForceFull", "Leveled", "Tiered", "Simple"}
<1>1. CASE task \in ForceFullTasks
  BY <1>1 DEF ForceFullTasks, ForceFullTask
<1>2. CASE task \in TriggeredTasks
  <2>1. task = GenerateCompactionTask(state, sst) /\ task # NoTask
    BY <1>2 DEF TriggeredTasks
  <2>2. CASE CompactionOptions.type = "Leveled"
    <3>1. task = LeveledGenerate(state, sst)
      BY <2>1, <2>2 DEF GenerateCompactionTask
    <3>2. task.type = "Leveled"
      <4>1. \/ LeveledGenerate(state, sst) = NoTask
            \/ \E a, b, c, d : LeveledGenerate(state, sst) = LevelTask("Leveled", a, b, c, d)
        BY Zenon DEF LeveledGenerate
      <4>2. PICK a, b, c, d : task = LevelTask("Leveled", a, b, c, d)
        BY <2>1, <3>1, <4>1
      <4> QED BY <4>2 DEF LevelTask
    <3> QED BY <3>2
  <2>3. CASE CompactionOptions.type = "Tiered"
    <3>1. task = TieredGenerate(state)
      BY <2>1, <2>3 DEF GenerateCompactionTask
    <3>2. task.type = "Tiered"
      <4>1. TieredGenerate(state) = NoTask \/ \E a, b : TieredGenerate(state) = TierTask(a, b)
        BY Zenon DEF TieredGenerate
      <4>2. PICK a, b : task = TierTask(a, b)
        BY <2>1, <3>1, <4>1
      <4> QED BY <4>2 DEF TierTask
    <3> QED BY <3>2
  <2>4. CASE CompactionOptions.type = "Simple"
    <3>1. task = SimpleGenerate(state)
      BY <2>1, <2>4 DEF GenerateCompactionTask
    <3>2. task.type = "Simple"
      <4>1. \/ SimpleGenerate(state) = NoTask
            \/ \E a, b, c, d : SimpleGenerate(state) = LevelTask("Simple", a, b, c, d)
        BY Zenon DEF SimpleGenerate
      <4>2. PICK a, b, c, d : task = LevelTask("Simple", a, b, c, d)
        BY <2>1, <3>1, <4>1
      <4> QED BY <4>2 DEF LevelTask
    <3> QED BY <3>2
  <2>5. CASE CompactionOptions.type = "NoCompaction"
    BY <2>1, <2>5 DEF GenerateCompactionTask
  <2> QED BY <2>2, <2>3, <2>4, <2>5, OptionsAssumption
<1> QED BY <1>1, <1>2

(* A compaction starts, or removes its input files and ends. *)
LEMMA EndsKeep ==
  ASSUME EngineInv, NEW t \in Threads, BeginCompaction(t) \/ CompactRemove(t)
  PROVE  EngineInv' /\ StepKeeps
<1>1. UNCHANGED <<state, mem, next_sst_id, sst, state_lock, op, new_id, writes, latest>>
  BY DEF BeginCompaction, CompactRemove, stateVars, diskVars, ghostVars
<1>2. /\ \A u \in Threads : u # t => pc'[u] = pc[u]
      /\ pc'[t] \in {"compact", "idle"} /\ pc' \in [Threads -> Steps]
  BY DEF BeginCompaction, CompactRemove, EngineInv, EngineTypes, Steps, CompactionSteps
<1>3. PICK new : /\ job' = [job EXCEPT ![t] = new]
                 /\ new = [task |-> new.task, output |-> new.output, remove |-> new.remove]
                 /\ ToSet(new.output) \subseteq Ids
                 /\ pc'[t] \in {"compact", "apply"} =>
                      new.task.type \in {"ForceFull", "Leveled", "Tiered", "Simple"}
  <2>1. CASE BeginCompaction(t)
    <3>1. PICK task \in TriggeredTasks \cup ForceFullTasks : job' = [job EXCEPT ![t].task = task]
      BY <2>1 DEF BeginCompaction
    <3>2. task.type \in {"ForceFull", "Leveled", "Tiered", "Simple"}
      BY <3>1, TaskTypes
    <3> DEFINE n == [task |-> task, output |-> job[t].output, remove |-> job[t].remove]
    <3>3. job' = [job EXCEPT ![t] = n]
      BY <3>1, JobFieldSet DEF EngineInv
    <3>4. ToSet(n.output) \subseteq Ids
      BY DEF EngineInv, JobTypes
    <3>5. n = [task |-> n.task, output |-> n.output, remove |-> n.remove] /\ n.task = task
      OBVIOUS
    <3> HIDE DEF n
    <3> QED BY <3>2, <3>3, <3>4, <3>5
  <2>2. CASE CompactRemove(t)
    <3>1. job' = [job EXCEPT ![t] = NoJob] /\ pc'[t] = "idle"
      BY <2>2 DEF CompactRemove, EngineInv, EngineTypes
    <3>2. /\ NoJob = [task |-> NoJob.task, output |-> NoJob.output, remove |-> NoJob.remove]
          /\ NoJob.output = <<>>
      BY DEF NoJob
    <3>3. ToSet(NoJob.output) \subseteq Ids
      BY <3>2 DEF ToSet
    <3> QED BY <3>1, <3>2, <3>3
  <2> QED BY <2>1, <2>2
<1>4. JobTypes' /\ \A u \in Threads : u # t => job'[u] = job[u]
  BY <1>2, <1>3, JobReplaced DEF EngineInv
<1>5. EngineTypes'
  BY <1>1, <1>2 DEF EngineInv, EngineTypes
<1>6. LockHolds'
  BY <1>1, <1>2, LockStep DEF EngineInv, MemtablesApart, LockedSteps
<1>7. PutHolds'
  BY <1>1, <1>2 DEF EngineInv, MemtablesApart, PutHolds, Threads
<1>8. /\ \A u \in Threads : pc'[u] = "freeze_swap" => pc[u] = "freeze_swap" /\ new_id'[u] = new_id[u]
      /\ \A u \in Threads : pc'[u] = "flush_swap" =>
                              state.imm_memtables # <<>> /\ new_id'[u] = OldestImm
      /\ \A u \in Threads : pc'[u] = "apply" => pc[u] = "apply" /\ job'[u].output = job[u].output
  BY <1>1, <1>2, <1>4 DEF EngineInv, MemtablesApart
<1> QED BY <1>1, <1>4, <1>5, <1>6, <1>7, <1>8, QuietKeeps

-----------------------------------------------------------------------------
(* Swaps of the state *)

(* A freeze takes an id for its MemTable. *)
LEMMA FreezeBeginKeeps ==
  ASSUME EngineInv, NEW c \in Clients, FreezeBegin(c), UNCHANGED lsVars
  PROVE  EngineInv' /\ StepKeeps
<1>0. c \in Threads /\ EngineTypes
  BY DEF Threads, EngineInv
<1>1. /\ next_sst_id' = next_sst_id + 1 /\ next_sst_id \in Ids /\ next_sst_id \in Nat
      /\ state_lock = NoThread /\ state_lock' = c
      /\ pc' = [pc EXCEPT ![c] = "freeze_swap"] /\ new_id' = [new_id EXCEPT ![c] = next_sst_id]
      /\ mem' = [mem EXCEPT ![next_sst_id] = EmptyTable]
      /\ UNCHANGED <<state, sst, op, writes, latest, job>>
  <2>1. next_sst_id \in Nat /\ next_sst_id <= MaxId /\ MaxId \in Nat
    BY BoundsAssumption DEF FreezeBegin, EngineInv, EngineTypes
  <2>2. next_sst_id \in Ids
    BY <2>1 DEF Ids
  <2> QED BY <2>1, <2>2 DEF FreezeBegin, ghostVars, lsVars
<1>2. /\ \A u \in Threads : u # c => pc'[u] = pc[u] /\ new_id'[u] = new_id[u]
      /\ pc'[c] = "freeze_swap" /\ new_id'[c] = next_sst_id
  BY <1>0, <1>1 DEF EngineTypes
<1>3. \A u \in Threads : pc[u] \notin LockedSteps
  BY <1>1, ThreadsAssumption DEF EngineInv, MemtablesApart, LockHolds, Threads
<1>4. EngineTypes'
  <2>1. mem' \in [Ids -> Table] /\ new_id' \in [Threads -> Ids]
    BY <1>1, EmptyTableType DEF EngineInv, EngineTypes
  <2>2. pc' \in [Threads -> Steps]
    BY <1>1 DEF EngineInv, EngineTypes, Steps
  <2> QED BY <1>1, <2>1, <2>2 DEF EngineInv, EngineTypes
<1>5. JobTypes'
  BY <1>1, <1>2, JobSame DEF EngineInv
<1>6. LiveMemtables' = LiveMemtables /\ OldestImm' = OldestImm
  BY <1>1 DEF LiveMemtables, OldestImm
<1>7. MemIds' \subseteq MemIds \cup {next_sst_id}
  BY <1>2, <1>6 DEF MemIds
<1>8. StepKeeps
  <2>1. next_sst_id <= next_sst_id' /\ next_sst_id <= next_sst_id
    BY <1>1
  <2> QED BY <1>1, <1>7, <2>1 DEF StepKeeps
<1>9. MemtablesApart'
  <2>1. \A id \in MemIds : id < next_sst_id /\ id \in Nat
    BY <1>0, MemIdsType DEF EngineInv, MemtablesApart
  <2>2. \A id \in MemIds' : id < next_sst_id'
    BY <1>1, <1>7, <2>1
  <2>3. next_sst_id \notin LiveMemtables
    BY <1>1, <2>1 DEF MemIds
  <2>4. \A t \in Threads : pc'[t] = "freeze_swap" => new_id'[t] \notin LiveMemtables
    BY <1>2, <2>3 DEF EngineInv, MemtablesApart
  <2>5. LockHolds'
    BY <1>0, <1>1, <1>2, LockStep DEF EngineInv, MemtablesApart
  <2>6. PutHolds'
    BY <1>1, <1>2 DEF EngineInv, MemtablesApart, PutHolds, Threads
  <2>7. \A t \in Threads : pc'[t] # "flush_swap"
    BY <1>2, <1>3 DEF LockedSteps
  <2> QED BY <1>1, <1>6, <2>2, <2>4, <2>5, <2>6, <2>7 DEF EngineInv, MemtablesApart
<1>10. TablesApart'
  <2>2. \A u \in Threads : pc'[u] = "apply" => pc[u] = "apply" /\ job'[u].output = job[u].output
    BY <1>1, <1>2
  <2>3. state'.sstables \subseteq state.sstables
    BY <1>1
  <2> QED BY <1>4, <1>8, <2>2, <2>3, TablesSame
<1> QED BY <1>4, <1>5, <1>8, <1>9, <1>10 DEF EngineInv

(* The new MemTable is swapped in. *)
LEMMA FreezeSwapKeeps ==
  ASSUME EngineInv, NEW c \in Clients, FreezeSwap(c), UNCHANGED lsVars
  PROVE  EngineInv' /\ StepKeeps
<1> DEFINE n == new_id[c]
           imm == state.imm_memtables
<1>0. c \in Threads /\ EngineTypes
  BY DEF Threads, EngineInv
<1>1. /\ pc[c] = "freeze_swap" /\ pc' = [pc EXCEPT ![c] = "freeze_record"]
      /\ \A d \in Clients : pc[d] # "logged"
      /\ UNCHANGED <<next_sst_id, mem, sst, state_lock, op, new_id, writes, latest, job>>
      /\ state' = [state EXCEPT !.memtable = n, !.imm_memtables = <<state.memtable>> \o @]
  BY <1>0 DEF FreezeSwap, NoSharedHolder, SharedHolder, diskVars, ghostVars, lsVars, Threads
<1>2. /\ n \in Ids /\ state.memtable \in Ids /\ imm \in Seq(Ids) /\ n \notin LiveMemtables
      /\ state.memtable \in LiveMemtables /\ \A i \in DOMAIN imm : imm[i] \in LiveMemtables
  BY <1>0, <1>1 DEF EngineTypes, EngineInv, MemtablesApart, LiveMemtables
<1>3. /\ state' = [memtable |-> n, imm_memtables |-> <<state.memtable>> \o imm,
                   l0_sstables |-> state.l0_sstables, levels |-> state.levels,
                   sstables |-> state.sstables]
  BY <1>0, <1>1 DEF EngineTypes
<1>4. /\ state'.memtable = n /\ state'.imm_memtables = <<state.memtable>> \o imm
      /\ state'.sstables = state.sstables
      /\ state' = [memtable |-> state'.memtable, imm_memtables |-> state'.imm_memtables,
                   l0_sstables |-> state'.l0_sstables, levels |-> state'.levels,
                   sstables |-> state'.sstables]
  BY <1>3
<1> HIDE DEF n
<1>5. /\ \A u \in Threads : u # c => pc'[u] = pc[u]
      /\ pc'[c] = "freeze_record" /\ pc' \in [Threads -> Steps]
  BY <1>0, <1>1 DEF EngineTypes, Steps
<1>6. \A u \in Threads : u # c => pc[u] \notin LockedSteps
  BY <1>0, <1>1 DEF EngineInv, MemtablesApart, LockHolds, LockedSteps
<1>7. EngineTypes'
  <2>1. <<state.memtable>> \o imm \in Seq(Ids)
    BY <1>2
  <2> QED BY <1>0, <1>1, <1>2, <1>4, <1>5, <2>1 DEF EngineTypes
<1>8. JobTypes'
  BY <1>1, <1>5, JobSame DEF EngineInv
<1>9. \A i \in DOMAIN state'.imm_memtables :
        \/ state'.imm_memtables[i] = state.memtable
        \/ \E j \in DOMAIN imm : state'.imm_memtables[i] = imm[j]
  BY <1>2, <1>4, ConsElements
<1>10. LiveMemtables' \subseteq LiveMemtables \cup {n}
  BY <1>4, <1>9 DEF LiveMemtables
<1>11. MemIds' \subseteq MemIds
  <2>1. \A u \in Threads : pc'[u] # "freeze_swap"
    BY <1>5, <1>6 DEF LockedSteps
  <2>2. n \in MemIds
    BY <1>0, <1>1 DEF MemIds, n
  <2> QED BY <1>10, <2>1, <2>2 DEF MemIds
<1>12. StepKeeps
  BY <1>0, <1>1, <1>11 DEF StepKeeps, EngineTypes
<1>13. MemtablesApart'
  <2>1. \A id \in MemIds' : id < next_sst_id'
    BY <1>1, <1>11 DEF EngineInv, MemtablesApart
  <2>2. \A t \in Threads : pc'[t] # "freeze_swap" /\ pc'[t] # "flush_swap"
    BY <1>5, <1>6 DEF LockedSteps
  <2>3. ASSUME NEW i \in DOMAIN state'.imm_memtables
        PROVE  /\ state'.imm_memtables[i] # state'.memtable
               /\ \A j \in DOMAIN state'.imm_memtables :
                    state'.imm_memtables[i] = state'.imm_memtables[j] => i = j
    <3>1. state'.imm_memtables[i] # state'.memtable
      BY <1>2, <1>4, <1>9
    <3>2. /\ DOMAIN state'.imm_memtables = 1 .. Len(imm) + 1 /\ state'.imm_memtables[1] = state.memtable
          /\ \A j \in 1 .. Len(imm) + 1 : j # 1 => j - 1 \in DOMAIN imm /\ state'.imm_memtables[j] = imm[j - 1]
          /\ Len(imm) \in Nat
      BY <1>2, <1>4
    <3>3. /\ \A a, b \in DOMAIN imm : imm[a] = imm[b] => a = b
          /\ \A a \in DOMAIN imm : imm[a] # state.memtable
      BY DEF EngineInv, MemtablesApart
    <3>4. ASSUME NEW j \in 1 .. Len(imm) + 1, state'.imm_memtables[i] = state'.imm_memtables[j]
          PROVE  i = j
      <4>1. CASE i # 1 /\ j # 1
        <5>1. i - 1 \in DOMAIN imm /\ j - 1 \in DOMAIN imm /\ imm[i - 1] = imm[j - 1]
          BY <3>2, <3>4, <4>1
        <5>2. i - 1 = j - 1
          BY <3>3, <5>1
        <5>3. i \in 1 .. Len(imm) + 1
          BY <3>2
        <5> QED BY ONLY <3>2, <3>4, <5>2, <5>3
      <4>2. CASE i = 1 /\ j # 1
        BY <3>2, <3>3, <3>4, <4>2
      <4>3. CASE i # 1 /\ j = 1
        BY <3>2, <3>3, <3>4, <4>3
      <4> QED BY <4>1, <4>2, <4>3
    <3> QED BY <3>1, <3>2, <3>4
  <2>4. LockHolds'
    BY <1>0, <1>1, <1>5, LockStep DEF EngineInv, MemtablesApart, LockHolds, LockedSteps
  <2>5. PutHolds'
    <3>1. \A d \in Clients : pc'[d] # "logged"
      BY <1>1, <1>5 DEF Threads
    <3> QED BY <3>1 DEF PutHolds
  <2> QED BY <2>1, <2>2, <2>3, <2>4, <2>5 DEF MemtablesApart
<1>14. TablesApart'
  <2>2. \A u \in Threads : pc'[u] = "apply" => pc[u] = "apply" /\ job'[u].output = job[u].output
    BY <1>1, <1>5
  <2>3. state'.sstables \subseteq state.sstables
    BY <1>4
  <2> QED BY <1>7, <1>12, <2>2, <2>3, TablesSame
<1> QED BY <1>7, <1>8, <1>12, <1>13, <1>14 DEF EngineInv

(* A state that differs from st in L0 and the levels only. *)
SameRest(st, new) ==
  \E l0, lv : new = [memtable |-> st.memtable, imm_memtables |-> st.imm_memtables,
                     l0_sstables |-> l0, levels |-> lv, sstables |-> st.sstables]

(* The state that a flushed table is swapped into. *)
LEMMA FlushSwapState ==
  ASSUME EngineInv, NEW t \in Threads, FlushSwap(t), UNCHANGED lsVars
  PROVE  LET imm == state.imm_memtables
             n   == Len(imm)
         IN  /\ imm \in Seq(Ids) /\ n \in Nat \ {0} /\ DOMAIN imm = 1 .. n
             /\ new_id[t] = imm[n] /\ new_id[t] \in Ids
             /\ state'.memtable = state.memtable
             /\ state'.imm_memtables = SubSeq(imm, 1, n - 1)
             /\ state'.sstables = state.sstables \cup {new_id[t]}
             /\ SameRest(state', state')
<1> DEFINE imm == state.imm_memtables
           n   == Len(imm)
           x   == new_id[t]
<1>0. EngineTypes
  BY DEF EngineInv
<1>1. /\ pc[t] = "flush_swap" /\ pc' = [pc EXCEPT ![t] = "flush_record"]
      /\ UNCHANGED <<next_sst_id, mem, sst, state_lock, op, new_id, writes, latest, job>>
      /\ state' = [AddFlushed(state, x) EXCEPT !.imm_memtables = SubSeq(@, 1, Len(@) - 1),
                                               !.sstables = @ \cup {x}]
  BY DEF FlushSwap, diskVars, ghostVars, lsVars
<1>2. imm # <<>> /\ x = OldestImm /\ imm \in Seq(Ids)
  BY <1>0, <1>1 DEF EngineInv, MemtablesApart, EngineTypes
<1>3. n \in Nat \ {0} /\ DOMAIN imm = 1 .. n /\ x = imm[n] /\ x \in Ids
  BY <1>2 DEF OldestImm
<1>4. /\ state'.memtable = state.memtable
      /\ state'.imm_memtables = SubSeq(imm, 1, n - 1)
      /\ state'.sstables = state.sstables \cup {x}
      /\ state' = [memtable |-> state'.memtable, imm_memtables |-> state'.imm_memtables,
                   l0_sstables |-> state'.l0_sstables, levels |-> state'.levels,
                   sstables |-> state'.sstables]
  <2>1. \E l0, lv : AddFlushed(state, x) =
          [memtable |-> state.memtable, imm_memtables |-> imm, l0_sstables |-> l0,
           levels |-> lv, sstables |-> state.sstables]
    BY <1>0 DEF AddFlushed, EngineTypes
  <2>2. PICK l0, lv : AddFlushed(state, x) =
          [memtable |-> state.memtable, imm_memtables |-> imm, l0_sstables |-> l0,
           levels |-> lv, sstables |-> state.sstables]
    BY <2>1
  <2>3. state' = [memtable |-> state.memtable, imm_memtables |-> SubSeq(imm, 1, n - 1),
                  l0_sstables |-> l0, levels |-> lv, sstables |-> state.sstables \cup {x}]
    <3> DEFINE a == AddFlushed(state, x)
               v == SubSeq(imm, 1, n - 1)
               w == state.sstables \cup {x}
    <3>1. a.imm_memtables = imm /\ a.sstables = state.sstables
      BY <2>2
    <3>2. SubSeq(a.imm_memtables, 1, Len(a.imm_memtables) - 1) = v /\ a.sstables \cup {x} = w
      BY <3>1
    <3>3. state' = [a EXCEPT !.imm_memtables = SubSeq(a.imm_memtables, 1, Len(a.imm_memtables) - 1),
                             !.sstables = a.sstables \cup {x}]
      BY <1>1
    <3>4. state' = [a EXCEPT !.imm_memtables = v, !.sstables = w]
      BY <3>2, <3>3, Zenon
    <3>5. a = [memtable |-> state.memtable, imm_memtables |-> imm, l0_sstables |-> l0,
               levels |-> lv, sstables |-> state.sstables]
      BY <2>2
    <3> HIDE DEF a, v, w
    <3>6. state' = [memtable |-> state.memtable, imm_memtables |-> v, l0_sstables |-> l0,
                    levels |-> lv, sstables |-> w]
      BY <3>4, <3>5
    <3> QED BY <3>6 DEF v, w
  <2> QED BY <2>3
<1> QED BY <1>2, <1>3, <1>4 DEF SameRest

(* A flushed table takes over the id of its MemTable. *)
LEMMA FlushSwapKeeps ==
  ASSUME EngineInv, NEW t \in Threads, FlushSwap(t), UNCHANGED lsVars
  PROVE  EngineInv' /\ StepKeeps
<1> DEFINE imm == state.imm_memtables
           n   == Len(imm)
           x   == new_id[t]
<1>0. EngineTypes
  BY DEF EngineInv
<1>1. /\ pc[t] = "flush_swap" /\ pc' = [pc EXCEPT ![t] = "flush_record"]
      /\ UNCHANGED <<next_sst_id, mem, sst, state_lock, op, new_id, writes, latest, job>>
  BY DEF FlushSwap, diskVars, ghostVars, lsVars
<1>2. imm \in Seq(Ids)
  BY FlushSwapState
<1>3. n \in Nat \ {0} /\ DOMAIN imm = 1 .. n /\ x = imm[n] /\ x \in Ids
  BY FlushSwapState
<1>4. /\ state'.memtable = state.memtable
      /\ state'.imm_memtables = SubSeq(imm, 1, n - 1)
      /\ state'.sstables = state.sstables \cup {x}
      /\ state' = [memtable |-> state'.memtable, imm_memtables |-> state'.imm_memtables,
                   l0_sstables |-> state'.l0_sstables, levels |-> state'.levels,
                   sstables |-> state'.sstables]
  BY FlushSwapState DEF SameRest
<1> HIDE DEF n, x
<1>5. /\ state'.imm_memtables \in Seq(Ids) /\ DOMAIN state'.imm_memtables = 1 .. n - 1
      /\ \A i \in 1 .. n - 1 : i \in 1 .. n /\ i # n /\ state'.imm_memtables[i] = imm[i]
  BY <1>2, <1>3, <1>4
<1>6. /\ \A u \in Threads : u # t => pc'[u] = pc[u]
      /\ pc'[t] = "flush_record" /\ pc' \in [Threads -> Steps]
  BY <1>0, <1>1 DEF EngineTypes, Steps
<1>7. \A u \in Threads : u # t => pc[u] \notin LockedSteps
  BY <1>0, <1>1 DEF EngineInv, MemtablesApart, LockHolds, LockedSteps
<1>8. EngineTypes'
  BY <1>0, <1>1, <1>3, <1>4, <1>5, <1>6 DEF EngineTypes
<1>9. JobTypes'
  BY <1>1, <1>6, JobSame DEF EngineInv
<1>10. LiveMemtables' \subseteq LiveMemtables /\ x \notin LiveMemtables'
  <2>1. /\ \A i \in DOMAIN imm : imm[i] # state.memtable
        /\ \A i, j \in DOMAIN imm : imm[i] = imm[j] => i = j
    BY DEF EngineInv, MemtablesApart
  <2>2. \A i \in 1 .. n - 1 : imm[i] # x
    BY <1>3, <1>5, <2>1
  <2>3. state.memtable # x
    BY <1>3, <2>1
  <2> QED BY <1>3, <1>4, <1>5, <2>2, <2>3 DEF LiveMemtables
<1>11. \A u \in Threads : pc'[u] # "freeze_swap" /\ pc'[u] # "flush_swap"
  BY <1>6, <1>7 DEF LockedSteps
<1>12. MemIds' \subseteq MemIds /\ x \notin MemIds'
  BY <1>10, <1>11 DEF MemIds
<1>13. StepKeeps
  BY <1>0, <1>1, <1>12 DEF StepKeeps, EngineTypes
<1>14. MemtablesApart'
  <2>1. \A id \in MemIds' : id < next_sst_id'
    BY <1>1, <1>12 DEF EngineInv, MemtablesApart
  <2>2. \A i \in DOMAIN state'.imm_memtables :
          /\ state'.imm_memtables[i] # state'.memtable
          /\ \A j \in DOMAIN state'.imm_memtables :
               state'.imm_memtables[i] = state'.imm_memtables[j] => i = j
    BY <1>3, <1>4, <1>5 DEF EngineInv, MemtablesApart
  <2>3. LockHolds'
    BY <1>1, <1>6, LockStep DEF EngineInv, MemtablesApart, LockHolds, LockedSteps
  <2>4. PutHolds'
    BY <1>1, <1>4, <1>6 DEF EngineInv, MemtablesApart, PutHolds, Threads
  <2> QED BY <1>11, <2>1, <2>2, <2>3, <2>4 DEF MemtablesApart
<1>15. TablesApart'
  <2> DEFINE S == {x}
  <2>1. x \in MemIds
    BY <1>3 DEF MemIds, LiveMemtables
  <2>2. x < next_sst_id'
    BY <1>1, <2>1 DEF EngineInv, MemtablesApart
  <2>3. /\ state'.sstables \subseteq state.sstables \cup S
        /\ \A id \in S : id < next_sst_id' /\ id \notin MemIds'
    BY <1>4, <1>12, <2>2
  <2>4. \A u \in Threads : pc'[u] = "apply" => pc[u] = "apply" /\ job'[u].output = job[u].output
    BY <1>1, <1>6
  <2> HIDE DEF S
  <2> QED BY <1>8, <1>13, <2>3, <2>4, TablesKept
<1> QED BY <1>8, <1>9, <1>13, <1>14, <1>15 DEF EngineInv

(* A compaction writes as many tables as it writes. *)
LEMMA OutputCount ==
  ASSUME NEW st, NEW tables, NEW task
  PROVE  \E n \in Nat : DOMAIN CompactOutput(st, tables, task) = 1 .. n
                        /\ Len(CompactOutput(st, tables, task)) = n
<1>1. PICK m : CompactOutput(st, tables, task) = Split(m, SstEntries)
  BY DEF CompactOutput
<1> DEFINE n == (Cardinality(KeysOfTable(m)) + SstEntries - 1) \div SstEntries
<1>2. Cardinality(KeysOfTable(m)) \in Nat
  <2>1. KeysOfTable(m) \in SUBSET Keys
    BY DEF KeysOfTable
  <2> QED BY <2>1, KeysAssumption, FS_Subset, FS_CardinalityType
<1>3. n \in Nat
  <2>1. SstEntries \in Nat \ {0}
    BY OptionsAssumption
  <2> QED BY <1>2, <2>1
<1>4. Split(m, SstEntries) = [i \in 1 .. n |-> Split(m, SstEntries)[i]]
  BY DEF Split
<1> HIDE DEF n
<1>5. Split(m, SstEntries) \in Seq({Split(m, SstEntries)[i] : i \in 1 .. n})
      /\ Len(Split(m, SstEntries)) = n /\ DOMAIN Split(m, SstEntries) = 1 .. n
  BY <1>3, <1>4, FunctionIsSeq
<1> QED BY <1>1, <1>3, <1>5

(* compact() takes ids for its output tables and writes them. *)
LEMMA CompactKeeps ==
  ASSUME EngineInv, NEW t \in Threads, Compact(t)
  PROVE  EngineInv' /\ StepKeeps
<1> DEFINE tables == CompactOutput(state, sst, job[t].task)
           ids == [i \in DOMAIN tables |-> next_sst_id + i - 1]
<1>0. EngineTypes /\ next_sst_id \in Nat
  BY DEF EngineInv, EngineTypes
<1>1. PICK n \in Nat : DOMAIN tables = 1 .. n
  BY OutputCount
<1>2. Len(ids) = n /\ DOMAIN ids = 1 .. n /\ \A i \in 1 .. n : ids[i] = next_sst_id + i - 1
  BY <1>1
<1>3. /\ pc[t] = "compact" /\ pc' = [pc EXCEPT ![t] = "apply"]
      /\ next_sst_id + Len(ids) - 1 <= MaxId /\ next_sst_id' = next_sst_id + Len(ids)
      /\ \A i \in Ids : i \notin ToSet(ids) => sst'[i] = sst[i]
      /\ sst' = [i \in Ids |-> sst'[i]]
      /\ job' = [job EXCEPT ![t].output = ids]
      /\ UNCHANGED <<state, mem, state_lock, op, new_id, writes, latest>>
  BY DEF Compact, ghostVars
<1> HIDE DEF tables, ids
<1>4. \A id \in ToSet(ids) : id \in Nat /\ next_sst_id <= id /\ id <= next_sst_id + n - 1
  <2>1. ASSUME NEW i \in 1 .. n
        PROVE  /\ next_sst_id + i - 1 \in Nat /\ next_sst_id <= next_sst_id + i - 1
               /\ next_sst_id + i - 1 <= next_sst_id + n - 1
    BY ONLY <1>0, <1>1, <2>1
  <2>2. \A id \in ToSet(ids) : \E i \in 1 .. n : id = ids[i]
    BY <1>2 DEF ToSet
  <2>3. ASSUME NEW id \in ToSet(ids)
        PROVE  id \in Nat /\ next_sst_id <= id /\ id <= next_sst_id + n - 1
    <3>1. PICK i \in 1 .. n : id = next_sst_id + i - 1
      BY <1>2, <2>2
    <3> QED BY <2>1, <3>1
  <2> QED BY <2>3
<1>5. ToSet(ids) \subseteq Ids
  <2>1. MaxId \in Nat /\ next_sst_id + n - 1 <= MaxId
    BY <1>2, <1>3, BoundsAssumption
  <2>2. \A id \in ToSet(ids) : id \in 0 .. MaxId
    BY <1>0, <1>4, <2>1
  <2> QED BY <2>2 DEF Ids
<1>6. next_sst_id' \in Nat /\ next_sst_id <= next_sst_id' /\ next_sst_id' = next_sst_id + n
  BY <1>0, <1>2, <1>3
<1>7. /\ \A u \in Threads : u # t => pc'[u] = pc[u]
      /\ pc'[t] = "apply" /\ pc' \in [Threads -> Steps]
  BY <1>0, <1>3 DEF EngineTypes, Steps, CompactionSteps
<1>8. EngineTypes'
  BY <1>0, <1>3, <1>6, <1>7 DEF EngineTypes
<1>9. JobTypes' /\ job'[t].output = ids /\ \A u \in Threads : u # t => job'[u] = job[u]
  <2> DEFINE new == [task |-> job[t].task, output |-> ids, remove |-> job[t].remove]
  <2>1. job' = [job EXCEPT ![t] = new]
    BY <1>3, JobFieldSet DEF EngineInv
  <2>2. /\ new = [task |-> new.task, output |-> new.output, remove |-> new.remove]
        /\ new.output = ids
    OBVIOUS
  <2>3. new.task.type \in {"ForceFull", "Leveled", "Tiered", "Simple"}
    BY <1>3 DEF EngineInv, JobTypes
  <2>4. JobTypes
    BY DEF EngineInv
  <2> HIDE DEF new
  <2> QED BY <1>5, <1>7, <2>1, <2>2, <2>3, <2>4, JobReplaced
<1>10. LiveMemtables' = LiveMemtables /\ OldestImm' = OldestImm
  BY <1>3 DEF LiveMemtables, OldestImm
<1>11. MemIds' \subseteq MemIds
  BY <1>3, <1>7, <1>10 DEF MemIds
<1>12. StepKeeps
  <2>1. \A id \in Ids : id < next_sst_id => id \notin ToSet(ids)
    BY <1>0, <1>4
  <2> QED BY <1>3, <1>6, <1>11, <2>1 DEF StepKeeps
<1>13. \A id \in MemIds : id < next_sst_id /\ id \in Nat
  BY <1>0, MemIdsType DEF EngineInv, MemtablesApart
<1>14. MemtablesApart'
  <2>1. \A id \in MemIds' : id < next_sst_id'
    BY <1>0, <1>6, <1>11, <1>13
  <2>2. LockHolds'
    BY <1>3, <1>7, LockStep DEF EngineInv, MemtablesApart, LockedSteps
  <2>3. PutHolds'
    BY <1>3, <1>7 DEF EngineInv, MemtablesApart, PutHolds, Threads
  <2> QED BY <1>3, <1>7, <1>10, <2>1, <2>2, <2>3 DEF EngineInv, MemtablesApart
<1>15. TablesApart'
  <2> DEFINE S == {}
  <2>1. \A id \in ToSet(ids) : id < next_sst_id' /\ id \notin MemIds'
    BY <1>0, <1>4, <1>6, <1>11, <1>13
  <2>2. \A u \in Threads : pc'[u] = "apply" =>
          \/ pc[u] = "apply" /\ job'[u].output = job[u].output
          \/ \A id \in ToSet(job'[u].output) : id < next_sst_id' /\ id \notin MemIds'
    BY <1>7, <1>9, <2>1
  <2>3. /\ state'.sstables \subseteq state.sstables \cup S
        /\ \A id \in S : id < next_sst_id' /\ id \notin MemIds'
    BY <1>3
  <2> HIDE DEF S
  <2> QED BY <1>8, <1>12, <2>2, <2>3, TablesKept
<1> QED BY <1>8, <1>9, <1>12, <1>14, <1>15 DEF EngineInv

(* A compaction that fails has spent the ids it took. *)
LEMMA CompactFailsKeeps ==
  ASSUME EngineInv, NEW t \in Threads, CompactFails(t)
  PROVE  EngineInv' /\ StepKeeps
<1>0. EngineTypes /\ next_sst_id \in Nat
  BY DEF EngineInv, EngineTypes
<1>1. PICK n \in Nat :
        /\ next_sst_id' = next_sst_id + n + 1
        /\ \A i \in Ids : i \notin next_sst_id .. next_sst_id + n => sst'[i] = sst[i]
        /\ sst' = [i \in Ids |-> sst'[i]]
  <2> DEFINE tables == CompactOutput(state, sst, job[t].task)
  <2>1. PICK m \in Nat : Len(tables) = m
    BY OutputCount
  <2>2. PICK n \in 0 .. Len(tables) - 1 :
          /\ next_sst_id' = next_sst_id + n + 1
          /\ sst' = [i \in Ids |-> IF i \notin next_sst_id .. next_sst_id + n THEN sst[i]
                                   ELSE IF i < next_sst_id + n THEN tables[i - next_sst_id + 1]
                                   ELSE EmptyTable]
    BY DEF CompactFails
  <2>3. n \in Nat
    BY <2>1, <2>2
  <2> HIDE DEF tables
  <2> QED BY <2>2, <2>3
<1>2. /\ pc' = [pc EXCEPT ![t] = "idle"] /\ job' = [job EXCEPT ![t] = NoJob]
      /\ UNCHANGED <<state, mem, state_lock, op, new_id, writes, latest>>
  BY DEF CompactFails, ghostVars
<1>3. next_sst_id' \in Nat /\ next_sst_id <= next_sst_id'
  BY <1>0, <1>1
<1>4. /\ \A u \in Threads : u # t => pc'[u] = pc[u]
      /\ pc'[t] = "idle" /\ pc' \in [Threads -> Steps]
  BY <1>0, <1>2 DEF EngineTypes, Steps
<1>5. EngineTypes'
  BY <1>0, <1>1, <1>2, <1>3, <1>4 DEF EngineTypes
<1>6. JobTypes' /\ \A u \in Threads : u # t => job'[u] = job[u]
  <2>1. /\ NoJob = [task |-> NoJob.task, output |-> NoJob.output, remove |-> NoJob.remove]
        /\ NoJob.output = <<>>
    BY DEF NoJob
  <2>2. ToSet(NoJob.output) \subseteq Ids
    BY <2>1 DEF ToSet
  <2>3. JobTypes
    BY DEF EngineInv
  <2> QED BY <1>2, <1>4, <2>1, <2>2, <2>3, JobReplaced
<1>7. LiveMemtables' = LiveMemtables /\ OldestImm' = OldestImm
  BY <1>2 DEF LiveMemtables, OldestImm
<1>8. MemIds' \subseteq MemIds
  BY <1>2, <1>4, <1>7 DEF MemIds
<1>9. StepKeeps
  <2>1. \A id \in Ids : id < next_sst_id => id \notin next_sst_id .. next_sst_id + n
    BY <1>0, <1>1
  <2> QED BY <1>1, <1>3, <1>8, <2>1 DEF StepKeeps
<1>10. MemtablesApart'
  <2>1. \A id \in MemIds : id < next_sst_id /\ id \in Nat
    BY <1>0, MemIdsType DEF EngineInv, MemtablesApart
  <2>2. \A id \in MemIds' : id < next_sst_id'
    BY <1>0, <1>3, <1>8, <2>1
  <2>3. LockHolds'
    BY <1>2, <1>4, LockStep DEF EngineInv, MemtablesApart, LockedSteps
  <2>4. PutHolds'
    BY <1>2, <1>4 DEF EngineInv, MemtablesApart, PutHolds, Threads
  <2> QED BY <1>2, <1>4, <1>7, <2>2, <2>3, <2>4 DEF EngineInv, MemtablesApart
<1>11. TablesApart'
  <2>1. \A u \in Threads : pc'[u] = "apply" => pc[u] = "apply" /\ job'[u].output = job[u].output
    BY <1>4, <1>6
  <2>2. state'.sstables \subseteq state.sstables
    BY <1>2
  <2> QED BY <1>5, <1>9, <2>1, <2>2, TablesSame
<1> QED BY <1>5, <1>6, <1>9, <1>10, <1>11 DEF EngineInv

(* A strategy rearranges L0 and the levels of a state, and nothing else. *)
LEMMA ApplyKeepsRest ==
  ASSUME NEW st, NEW tables, NEW task, NEW output, SameRest(st, st),
         task.type \in {"ForceFull", "Leveled", "Tiered", "Simple"}
  PROVE  SameRest(st, ApplyCompactionResult(st, tables, task, output, FALSE))
<1> DEFINE Shape(x) == \E l0, lv : x = [memtable |-> st.memtable, imm_memtables |-> st.imm_memtables,
                                        l0_sstables |-> l0, levels |-> lv, sstables |-> st.sstables]
<1>1. ASSUME NEW x, Shape(x), NEW v
      PROVE  Shape([x EXCEPT !.levels = v]) /\ Shape([x EXCEPT !.l0_sstables = v])
  <2>1. PICK l0, lv : x = [memtable |-> st.memtable, imm_memtables |-> st.imm_memtables,
                           l0_sstables |-> l0, levels |-> lv, sstables |-> st.sstables]
    BY <1>1
  <2>2. /\ [x EXCEPT !.levels = v] = [memtable |-> st.memtable, imm_memtables |-> st.imm_memtables,
                                      l0_sstables |-> l0, levels |-> v, sstables |-> st.sstables]
        /\ [x EXCEPT !.l0_sstables = v] = [memtable |-> st.memtable, imm_memtables |-> st.imm_memtables,
                                           l0_sstables |-> v, levels |-> lv, sstables |-> st.sstables]
    BY <2>1
  <2> QED BY <2>2
<1>2. Shape(st)
  BY DEF SameRest
<1> SUFFICES Shape(ApplyCompactionResult(st, tables, task, output, FALSE))
  BY DEF SameRest
<1> HIDE DEF Shape
<1>3. ASSUME NEW x, Shape(x), NEW i, NEW v
      PROVE  Shape([x EXCEPT !.levels[i].ssts = v])
  <2> DEFINE w == [x.levels EXCEPT ![i].ssts = v]
  <2>1. [x EXCEPT !.levels[i].ssts = v] = [x EXCEPT !.levels = w]
    BY Zenon
  <2> QED BY <1>1, <1>3, <2>1
<1>4. CASE task.type = "ForceFull"
  <2>1. PICK v, w : ForceFullApply(st, task, output) = [[st EXCEPT !.levels = v] EXCEPT !.l0_sstables = w]
    BY Zenon DEF ForceFullApply
  <2>2. ApplyCompactionResult(st, tables, task, output, FALSE) = ForceFullApply(st, task, output)
    BY <1>4 DEF ApplyCompactionResult
  <2>3. Shape([st EXCEPT !.levels = v])
    BY <1>1, <1>2
  <2>4. Shape([[st EXCEPT !.levels = v] EXCEPT !.l0_sstables = w])
    BY <1>1, <2>3
  <2> QED BY <2>1, <2>2, <2>4, Zenon
<1>5. CASE task.type = "Leveled"
  <2>1. Shape(LeveledUpperless(st, task))
    BY <1>1, <1>2, <1>3 DEF LeveledUpperless
  <2>2. PICK v : LeveledApply(st, tables, task, output, FALSE) =
                   [LeveledUpperless(st, task) EXCEPT !.levels[task.lower_level].ssts = v]
    BY Zenon DEF LeveledApply
  <2>3. ApplyCompactionResult(st, tables, task, output, FALSE) = LeveledApply(st, tables, task, output, FALSE)
    BY <1>5 DEF ApplyCompactionResult
  <2>4. Shape([LeveledUpperless(st, task) EXCEPT !.levels[task.lower_level].ssts = v])
    BY <1>3, <2>1
  <2>5. Shape(LeveledApply(st, tables, task, output, FALSE))
    BY <2>2, <2>4, Zenon
  <2> QED BY <2>3, <2>5
<1>6. CASE task.type = "Tiered"
  <2>1. PICK v : TieredApply(st, task, output) = [st EXCEPT !.levels = v]
    BY Zenon DEF TieredApply
  <2>2. ApplyCompactionResult(st, tables, task, output, FALSE) = TieredApply(st, task, output)
    BY <1>6 DEF ApplyCompactionResult
  <2>3. Shape([st EXCEPT !.levels = v])
    BY <1>1, <1>2
  <2> QED BY <2>1, <2>2, <2>3, Zenon
<1>7. CASE task.type = "Simple"
  <2>1. PICK u : /\ SimpleApply(st, task, output) = [u EXCEPT !.levels[task.lower_level].ssts = output]
                 /\ \/ \E v : u = [st EXCEPT !.levels[task.upper_level].ssts = v]
                    \/ \E v : u = [st EXCEPT !.l0_sstables = v]
    BY Zenon DEF SimpleApply
  <2>2. Shape(u)
    <3>1. ASSUME NEW v PROVE /\ Shape([st EXCEPT !.levels[task.upper_level].ssts = v])
                             /\ Shape([st EXCEPT !.l0_sstables = v])
      BY <1>1, <1>2, <1>3
    <3>2. ASSUME NEW v, u = [st EXCEPT !.levels[task.upper_level].ssts = v] PROVE Shape(u)
      BY <3>1, <3>2, Zenon
    <3>3. ASSUME NEW v, u = [st EXCEPT !.l0_sstables = v] PROVE Shape(u)
      BY <3>1, <3>3, Zenon
    <3> QED BY <2>1, <3>2, <3>3
  <2>3. ApplyCompactionResult(st, tables, task, output, FALSE) = SimpleApply(st, task, output)
    BY <1>7 DEF ApplyCompactionResult
  <2>4. Shape([u EXCEPT !.levels[task.lower_level].ssts = output])
    BY <1>3, <2>2
  <2> QED BY <2>1, <2>3, <2>4, Zenon
<1> QED BY <1>4, <1>5, <1>6, <1>7

(* The state that the result of a compaction is swapped into. *)
LEMMA CompactApplyState ==
  ASSUME EngineInv, NEW t \in Threads, CompactApply(t)
  PROVE  /\ state'.memtable = state.memtable /\ state'.imm_memtables = state.imm_memtables
         /\ state'.sstables \subseteq state.sstables \cup ToSet(job[t].output)
         /\ SameRest(state', state')
<1> DEFINE task    == job[t].task
           output  == job[t].output
           opened  == state.sstables \cup ToSet(output)
           added   == [state EXCEPT !.sstables = @ \cup ToSet(output)]
           applied == ApplyCompactionResult(added, sst, task, output, FALSE)
           gone    == FilesToRemove(added, task)
<1>0. EngineTypes /\ JobTypes
  BY DEF EngineInv
<1>1. /\ pc[t] = "apply" /\ pc' = [pc EXCEPT ![t] = "compact_record"]
      /\ state_lock = NoThread /\ state_lock' = t
      /\ state' = [applied EXCEPT !.sstables =
                     IF task.type = "ForceFull"
                       THEN (state.sstables \ gone) \cup ToSet(output) ELSE @ \ gone]
      /\ job' = [job EXCEPT ![t].remove =
                   IF task.type = "ForceFull" THEN gone ELSE gone \cap applied.sstables]
      /\ UNCHANGED <<next_sst_id, mem, sst, op, new_id, writes, latest>>
  BY DEF CompactApply, diskVars, ghostVars
<1>2. task.type \in {"ForceFull", "Leveled", "Tiered", "Simple"} /\ ToSet(output) \subseteq Ids
  BY <1>0, <1>1 DEF JobTypes
<1>3. /\ added = [memtable |-> added.memtable, imm_memtables |-> added.imm_memtables,
                  l0_sstables |-> added.l0_sstables, levels |-> added.levels,
                  sstables |-> added.sstables]
      /\ added.memtable = state.memtable /\ added.imm_memtables = state.imm_memtables
      /\ added.sstables = opened
  <2>1. added = [state EXCEPT !.sstables = opened]
    BY Zenon
  <2> HIDE DEF added, opened
  <2>2. added = [memtable |-> state.memtable, imm_memtables |-> state.imm_memtables,
                 l0_sstables |-> state.l0_sstables, levels |-> state.levels, sstables |-> opened]
    BY <1>0, <2>1 DEF EngineTypes
  <2> QED BY <2>2
<1> HIDE DEF added, opened
<1>4. PICK l0, lv : applied = [memtable |-> state.memtable, imm_memtables |-> state.imm_memtables,
                               l0_sstables |-> l0, levels |-> lv, sstables |-> opened]
  <2> HIDE DEF gone, task, output
  <2>1. SameRest(added, added)
    BY <1>3 DEF SameRest
  <2>2. SameRest(added, applied)
    BY <1>2, <2>1, ApplyKeepsRest
  <2> QED BY <1>3, <2>2 DEF SameRest
<1> HIDE DEF applied, gone, task, output
<1>5. PICK S : S \subseteq opened /\ state' = [applied EXCEPT !.sstables = S]
  <2>1. applied.sstables = opened
    BY <1>4
  <2>2. CASE task.type = "ForceFull"
    <3>1. state' = [applied EXCEPT !.sstables = (state.sstables \ gone) \cup ToSet(output)]
      BY <1>1, <2>2
    <3> QED BY <3>1 DEF opened
  <2>3. CASE task.type # "ForceFull"
    <3>1. state' = [applied EXCEPT !.sstables = applied.sstables \ gone]
      BY <1>1, <2>3
    <3> QED BY <2>1, <3>1
  <2> QED BY <2>2, <2>3
<1>6. state' = [memtable |-> state.memtable, imm_memtables |-> state.imm_memtables,
                l0_sstables |-> l0, levels |-> lv, sstables |-> S]
  BY <1>4, <1>5
<1>7. /\ state'.memtable = state.memtable /\ state'.imm_memtables = state.imm_memtables
      /\ state'.sstables = S
      /\ state' = [memtable |-> state'.memtable, imm_memtables |-> state'.imm_memtables,
                   l0_sstables |-> state'.l0_sstables, levels |-> state'.levels,
                   sstables |-> state'.sstables]
  BY <1>6
<1> QED BY <1>5, <1>7 DEF SameRest, opened, output

(* The result of a compaction is swapped in: its output is opened. *)
LEMMA CompactApplyKeeps ==
  ASSUME EngineInv, NEW t \in Threads, CompactApply(t)
  PROVE  EngineInv' /\ StepKeeps
<1> DEFINE output == job[t].output
<1>0. EngineTypes /\ JobTypes
  BY DEF EngineInv
<1>1. PICK r : /\ pc[t] = "apply" /\ pc' = [pc EXCEPT ![t] = "compact_record"]
               /\ state_lock = NoThread /\ state_lock' = t
               /\ job' = [job EXCEPT ![t].remove = r]
               /\ UNCHANGED <<next_sst_id, mem, sst, op, new_id, writes, latest>>
  BY Zenon DEF CompactApply, diskVars, ghostVars
<1>2. ToSet(output) \subseteq Ids
  BY <1>0 DEF JobTypes
<1>3. /\ state'.memtable = state.memtable /\ state'.imm_memtables = state.imm_memtables
      /\ state'.sstables \subseteq state.sstables \cup ToSet(output)
      /\ state' = [memtable |-> state'.memtable, imm_memtables |-> state'.imm_memtables,
                   l0_sstables |-> state'.l0_sstables, levels |-> state'.levels,
                   sstables |-> state'.sstables]
  BY CompactApplyState DEF SameRest
<1>4. /\ \A u \in Threads : u # t => pc'[u] = pc[u]
      /\ pc'[t] = "compact_record" /\ pc' \in [Threads -> Steps]
  BY <1>0, <1>1 DEF EngineTypes, Steps, CompactionSteps
<1>5. EngineTypes'
  <2>1. state'.sstables \subseteq Ids
    BY <1>0, <1>2, <1>3 DEF EngineTypes
  <2> QED BY <1>0, <1>1, <1>3, <1>4, <2>1 DEF EngineTypes
<1>6. JobTypes' /\ \A u \in Threads : u # t => job'[u] = job[u]
  <2> DEFINE new == [task |-> job[t].task, output |-> job[t].output, remove |-> r]
  <2>2. job' = [job EXCEPT ![t] = new]
    BY <1>0, <1>1, JobFieldSet
  <2>3. /\ new = [task |-> new.task, output |-> new.output, remove |-> new.remove]
        /\ new.output = output
    OBVIOUS
  <2>4. pc'[t] \notin {"compact", "apply"}
    BY <1>4
  <2> HIDE DEF new
  <2> QED BY <1>0, <1>2, <1>4, <2>2, <2>3, <2>4, JobReplaced
<1>7. LiveMemtables' = LiveMemtables /\ OldestImm' = OldestImm
  BY <1>3 DEF LiveMemtables, OldestImm
<1>8. MemIds' \subseteq MemIds
  BY <1>1, <1>4, <1>7 DEF MemIds
<1>9. StepKeeps
  BY <1>0, <1>1, <1>8 DEF StepKeeps, EngineTypes
<1>10. MemtablesApart'
  <2>1. \A id \in MemIds' : id < next_sst_id'
    BY <1>1, <1>8 DEF EngineInv, MemtablesApart
  <2>2. LockHolds'
    BY <1>1, <1>4, LockStep DEF EngineInv, MemtablesApart, LockedSteps
  <2>3. PutHolds'
    BY <1>1, <1>3, <1>4 DEF EngineInv, MemtablesApart, PutHolds, Threads
  <2> QED BY <1>1, <1>3, <1>4, <1>7, <2>1, <2>2, <2>3 DEF EngineInv, MemtablesApart
<1>11. TablesApart'
  <2> DEFINE N == ToSet(output)
  <2>1. Apart(N) /\ N \subseteq Ids
    BY <1>1, <1>2 DEF EngineInv, TablesApart
  <2>2. state'.sstables \subseteq state.sstables \cup N
    BY <1>3
  <2>3. \A u \in Threads : pc'[u] = "apply" => pc[u] = "apply" /\ job'[u].output = job[u].output
    BY <1>4, <1>6
  <2> HIDE DEF N
  <2>4. \A id \in N : id < next_sst_id' /\ id \notin MemIds'
    BY <1>0, <1>5, <1>9, <2>1, ApartStill
  <2> QED BY <1>5, <1>9, <2>2, <2>3, <2>4, TablesKept
<1> QED BY <1>5, <1>6, <1>9, <1>10, <1>11 DEF EngineInv

-----------------------------------------------------------------------------
(* All steps of a process *)

(* A process that starts, or has died, has an empty state. *)
NothingInMemory ==
  /\ next_sst_id \in Nat \ {0} /\ writes \in Nat /\ state = CreateState
  /\ mem = [i \in Ids |-> EmptyTable] /\ sst = [i \in Ids |-> sst[i]]
  /\ latest = [k \in Keys |-> latest[k]] /\ pc = [t \in Threads |-> "idle"]
  /\ new_id = [t \in Threads |-> 0] /\ op = [c \in Clients |-> NoOp]
  /\ job = [t \in Threads |-> NoJob]

(* It has the invariant. *)
LEMMA EmptyEngine == NothingInMemory => EngineInv
<1> SUFFICES ASSUME NothingInMemory PROVE EngineInv
  OBVIOUS
<1> USE DEF NothingInMemory
<1>1. 0 \in Ids /\ NoOp \in Write /\ EmptyTable \in Table
  BY BoundsAssumption, EmptyTableType DEF Ids, NoOp, Write, Absent
<1>2. /\ state.memtable = 0 /\ state.imm_memtables = <<>> /\ state.sstables = {}
      /\ state = [memtable |-> state.memtable, imm_memtables |-> state.imm_memtables,
                  l0_sstables |-> state.l0_sstables, levels |-> state.levels,
                  sstables |-> state.sstables]
  BY DEF CreateState
<1>3. \A t \in Threads : pc[t] = "idle"
  OBVIOUS
<1>4. EngineTypes
  <2>1. state.imm_memtables \in Seq(Ids) /\ state.sstables \subseteq Ids
    BY <1>2
  <2>2. pc \in [Threads -> Steps]
    BY DEF Steps
  <2> QED BY <1>1, <1>2, <2>1, <2>2 DEF EngineTypes
<1>5. JobTypes
  <2>1. /\ NoJob = [task |-> NoJob.task, output |-> NoJob.output, remove |-> NoJob.remove]
        /\ NoJob.output = <<>>
    BY DEF NoJob
  <2>2. ToSet(NoJob.output) \subseteq Ids
    BY <2>1 DEF ToSet
  <2>3. \A t \in Threads : job[t] = NoJob
    OBVIOUS
  <2>4. job = [t \in Threads |-> job[t]]
    OBVIOUS
  <2> QED BY <1>3, <2>1, <2>2, <2>3, <2>4 DEF JobTypes
<1>6. MemIds = {0}
  BY <1>2, <1>3 DEF MemIds, LiveMemtables
<1>7. MemtablesApart
  <2>1. LockHolds
    BY <1>3 DEF LockHolds, LockedSteps
  <2>2. PutHolds
    BY <1>3 DEF PutHolds, Threads
  <2>3. 0 < next_sst_id
    OBVIOUS
  <2> QED BY <1>2, <1>3, <1>6, <2>1, <2>2, <2>3 DEF MemtablesApart
<1>8. TablesApart
  BY <1>2, <1>3 DEF TablesApart, Apart
<1> QED BY <1>4, <1>5, <1>7, <1>8 DEF EngineInv

(* The database starts so. *)
LEMMA InitEngine == LsmInit => EngineInv
<1> SUFFICES ASSUME LsmInit PROVE EngineInv
  OBVIOUS
<1>1. /\ next_sst_id \in Nat \ {0} /\ writes \in Nat /\ state = CreateState
      /\ mem = [i \in Ids |-> EmptyTable] /\ sst = [i \in Ids |-> EmptyTable]
      /\ latest = [k \in Keys |-> Absent] /\ pc = [t \in Threads |-> "idle"]
      /\ new_id = [t \in Threads |-> 0] /\ op = [c \in Clients |-> NoOp]
      /\ job = [t \in Threads |-> NoJob]
  BY DEF LsmInit, Init
<1>2. sst = [i \in Ids |-> sst[i]] /\ latest = [k \in Keys |-> latest[k]]
  BY <1>1
<1> QED BY <1>1, <1>2, EmptyEngine DEF NothingInMemory

(* A crash. *)
LEMMA CrashKeeps == EngineInv /\ Crash => EngineInv'
<1> SUFFICES ASSUME EngineInv, Crash PROVE EngineInv'
  OBVIOUS
<1>1. next_sst_id \in Nat \ {0}
  <2>1. state.memtable \in MemIds /\ EngineTypes
    BY DEF MemIds, LiveMemtables, EngineInv
  <2>2. state.memtable \in Nat /\ state.memtable < next_sst_id /\ next_sst_id \in Nat
    BY <2>1, MemIdsType DEF EngineInv, MemtablesApart, EngineTypes
  <2> QED BY ONLY <2>2
<1>2. /\ state' = CreateState
      /\ mem' = [i \in Ids |-> EmptyTable] /\ UNCHANGED <<next_sst_id, sst, latest, writes>>
      /\ pc' = [t \in Threads |-> "idle"]
      /\ new_id' = [t \in Threads |-> 0] /\ op' = [c \in Clients |-> NoOp]
      /\ job' = [t \in Threads |-> NoJob]
  BY DEF Crash, ghostVars
<1>3. /\ writes \in Nat
      /\ sst' = [i \in Ids |-> sst'[i]] /\ latest' = [k \in Keys |-> latest'[k]]
  BY <1>2 DEF EngineInv, EngineTypes
<1>4. NothingInMemory'
  BY <1>1, <1>2, <1>3 DEF NothingInMemory
<1>5. NothingInMemory' => EngineInv'
  BY EmptyEngine, PTL
<1> QED BY <1>4, <1>5

(* Every step but open() keeps the invariant, and every step of a running  *)
(* process keeps the ids.                                                  *)
LEMMA ProcessStep ==
  ASSUME EngineInv, [LsmNext]_vars, opens' = opens, opens = 1
  PROVE  EngineInv' /\ (StepKeeps \/ Crash)
<1>0. /\ \A c \in Clients : c \in Threads
      /\ FlushThread \in Threads /\ CompactionThread \in Threads
  BY DEF Threads
<1>1. CASE UNCHANGED vars
  BY <1>1, CloseKeeps
<1>2. ASSUME NEW c \in Clients, ClientStep(c), UNCHANGED lsVars PROVE EngineInv' /\ StepKeeps
  <2>1. CASE Put(c) \/ PutInsert(c) \/ PutCheck(c)
    BY <1>2, <2>1, PutKeeps
  <2>2. CASE FreezeBegin(c)
    BY <1>2, <2>2, FreezeBeginKeeps
  <2>3. CASE FreezeSwap(c)
    BY <1>2, <2>3, FreezeSwapKeeps
  <2>4. CASE FlushSwap(c)
    BY <1>0, <1>2, <2>4, FlushSwapKeeps
  <2>5. CASE \/ ForceFreeze(c) \/ FreezeRecord(c) \/ ForceFlush(c) \/ Sync(c)
             \/ FlushBegin(c) \/ FlushEmpty(c) \/ FlushRecord(c)
    BY <1>0, <1>2, <2>5, AroundKeeps
  <2> QED BY <1>2, <2>1, <2>2, <2>3, <2>4, <2>5 DEF ClientStep, FreezeStep, FlushStep
<1>3. ASSUME FlushThreadStep, UNCHANGED lsVars PROVE EngineInv' /\ StepKeeps
  <2>1. CASE FlushSwap(FlushThread)
    BY <1>0, <1>3, <2>1, FlushSwapKeeps
  <2>2. CASE TriggerFlush \/ FlushBegin(FlushThread) \/ FlushEmpty(FlushThread) \/ FlushRecord(FlushThread)
    BY <1>0, <1>3, <2>2, AroundKeeps
  <2> QED BY <1>3, <2>1, <2>2 DEF FlushThreadStep, FlushStep
<1>4. CASE \E t \in Clients \cup {CompactionThread} : BeginCompaction(t)
  BY <1>0, <1>4, EndsKeep
<1>5. ASSUME NEW t \in Threads, CompactStep(t) \/ CompactFails(t) \/ FlushFails(t)
      PROVE  EngineInv' /\ StepKeeps
  <2>1. CASE Compact(t)
    BY <2>1, CompactKeeps
  <2>2. CASE CompactApply(t)
    BY <2>2, CompactApplyKeeps
  <2>3. CASE CompactRecord(t) \/ FlushFails(t)
    BY <2>3, AroundKeeps
  <2>4. CASE CompactRemove(t)
    BY <2>4, EndsKeep
  <2>5. CASE CompactFails(t)
    BY <2>5, CompactFailsKeeps
  <2> QED BY <1>5, <2>1, <2>2, <2>3, <2>4, <2>5 DEF CompactStep
<1>6. CASE CloseBegin \/ CloseDone \/ Destroy
  BY <1>6, CloseKeeps
<1>7. ASSUME NEW c \in Clients, CloseFreeze(c) \/ CloseFlush(c) PROVE EngineInv' /\ StepKeeps
  BY <1>0, <1>7, AroundKeeps
<1>8. CASE Crash
  BY <1>8, CrashKeeps
<1>9. \A cut \in Cuts : ~Open(cut)
  <2>1. \A cut \in Cuts : Open(cut) => opens' = opens + 1
    BY DEF Open
  <2> QED BY <2>1
<1> QED BY <1>1, <1>2, <1>3, <1>4, <1>5, <1>6, <1>7, <1>8, <1>9, FirstDestroys DEF LsmNext, Next

-----------------------------------------------------------------------------
(* What the steps of a process do to the tables *)

(* Where a thread holds tables that are not open. *)
TableSteps == {"compact", "apply", "compact_record", "remove", "flush_swap"}

OthersRest(t) ==
  \A u \in Threads : u # t => pc'[u] = pc[u] /\ job'[u] = job[u] /\ new_id'[u] = new_id[u]

(* The lists of tables stay as they are. *)
ListsKept ==
  /\ state'.l0_sstables = state.l0_sstables /\ state'.levels = state.levels
  /\ state'.sstables = state.sstables

(* Thread t takes up no tables. *)
TakesNone(t) ==
  \/ pc'[t] \notin TableSteps
  \/ pc'[t] = pc[t] /\ job'[t] = job[t] /\ new_id'[t] = new_id[t]
  \/ pc[t] = "compact_record" /\ pc'[t] = "remove" /\ job'[t] = job[t]

(* A step that touches no table. *)
Passes(t) == OthersRest(t) /\ ListsKept /\ TakesNone(t) /\ UNCHANGED <<sst, files>>

(* A step that builds the file of the oldest immutable MemTable, or leaves *)
(* it unfinished.                                                          *)
Builds(t) ==
  /\ OthersRest(t) /\ ListsKept /\ state_lock = NoThread /\ files \subseteq files'
  /\ \E id \in Ids, e \in Table : sst' = [sst EXCEPT ![id] = e]
  /\ pc'[t] \in TableSteps =>
       pc'[t] = "flush_swap" /\ new_id'[t] \in files' /\ sst'[new_id'[t]] # EmptyTable

(* The local state of a thread that takes a step. *)
LEMMA JobMoves ==
  ASSUME EngineInv, NEW t \in Threads, NEW p, NEW n, NEW j,
         pc' = pc \/ pc' = [pc EXCEPT ![t] = p],
         new_id' = new_id \/ new_id' = [new_id EXCEPT ![t] = n],
         job' = job \/ job' = [job EXCEPT ![t] = j]
  PROVE  /\ OthersRest(t)
         /\ pc' = [pc EXCEPT ![t] = p] => pc'[t] = p
         /\ new_id' = [new_id EXCEPT ![t] = n] => new_id'[t] = n
         /\ job' = [job EXCEPT ![t] = j] => job'[t] = j
<1>1. /\ pc = [u \in Threads |-> pc[u]] /\ new_id = [u \in Threads |-> new_id[u]]
      /\ job = [u \in Threads |-> job[u]]
  BY DEF EngineInv, EngineTypes, JobTypes
<1>2. \A u \in Threads : u # t => pc'[u] = pc[u]
  BY <1>1
<1>3. \A u \in Threads : u # t => new_id'[u] = new_id[u]
  BY <1>1
<1>4. \A u \in Threads : u # t => job'[u] = job[u]
  BY <1>1
<1> QED BY <1>1, <1>2, <1>3, <1>4 DEF OthersRest

(* put(), del(), sync(), the calls, the freeze, and the records touch no   *)
(* table.                                                                  *)
LEMMA PassingSteps ==
  ASSUME EngineInv, NEW t \in Threads,
         \/ /\ \/ Put(t) \/ PutInsert(t) \/ PutCheck(t) \/ FreezeBegin(t) \/ FreezeSwap(t)
               \/ ForceFreeze(t) \/ FreezeRecord(t) \/ ForceFlush(t) \/ Sync(t)
               \/ (t = FlushThread /\ TriggerFlush) \/ FlushRecord(t)
               \/ (FlushBegin(t) /\ state.imm_memtables = <<>>)
            /\ UNCHANGED lsVars
         \/ CompactRecord(t) \/ CloseFreeze(t) \/ CloseFlush(t)
         \/ CloseBegin \/ CloseDone \/ Destroy \/ UNCHANGED vars
  PROVE  Passes(t)
<1> DEFINE Free == {"logged", "inserted", "freeze", "idle", "freeze_swap", "freeze_record", "flush"}
           Moved == /\ UNCHANGED <<sst, files, job>> /\ (UNCHANGED state \/ FreezeSwap(t))
                    /\ new_id' = new_id \/ \E n : new_id' = [new_id EXCEPT ![t] = n]
                    /\ \/ pc' = pc /\ new_id' = new_id
                       \/ \E p \in Free : pc' = [pc EXCEPT ![t] = p]
                       \/ pc[t] = "compact_record" /\ pc' = [pc EXCEPT ![t] = "remove"]
<1>1. Moved
  <2>1. CASE (Put(t) \/ PutInsert(t) \/ PutCheck(t)) /\ UNCHANGED lsVars
    BY <2>1 DEF Put, PutLog, PutInsert, PutCheck, stateVars, diskVars, lsVars
  <2>2. CASE (FreezeBegin(t) \/ FreezeSwap(t) \/ FreezeRecord(t) \/ ForceFreeze(t)) /\ UNCHANGED lsVars
    BY <2>2 DEF FreezeBegin, FreezeSwap, FreezeRecord, ForceFreeze, stateVars, diskVars, lsVars
  <2>3. CASE /\ \/ ForceFlush(t) \/ Sync(t) \/ (t = FlushThread /\ TriggerFlush) \/ FlushRecord(t)
                \/ (FlushBegin(t) /\ state.imm_memtables = <<>>)
             /\ UNCHANGED lsVars
    BY <2>3 DEF ForceFlush, Sync, TriggerFlush, FlushRecord, FlushBegin, stateVars, diskVars, lsVars,
                threadVars
  <2>4. CASE CompactRecord(t) \/ CloseFreeze(t) \/ CloseFlush(t)
    BY <2>4 DEF CompactRecord, CloseFreeze, CloseFlush, stateVars, diskVars, lsVars
  <2>5. CASE CloseBegin \/ CloseDone \/ Destroy \/ UNCHANGED vars
    BY <2>5 DEF CloseBegin, CloseDone, Destroy, vars, wpVars, stateVars, diskVars, lsVars, threadVars
  <2> QED BY <2>1, <2>2, <2>3, <2>4, <2>5
<1>2. ListsKept
  <2>1. CASE UNCHANGED state
    BY <2>1 DEF ListsKept
  <2>2. CASE FreezeSwap(t)
    <3>1. state' = [state EXCEPT !.memtable = new_id[t], !.imm_memtables = <<state.memtable>> \o @]
      BY <2>2 DEF FreezeSwap
    <3> QED BY <3>1 DEF ListsKept, EngineInv, EngineTypes
  <2> QED BY <1>1, <2>1, <2>2
<1>3. PICK p, n : /\ pc' = pc \/ pc' = [pc EXCEPT ![t] = p]
                  /\ new_id' = new_id \/ new_id' = [new_id EXCEPT ![t] = n]
                  /\ \/ pc' = pc /\ new_id' = new_id
                     \/ p \in Free /\ pc' = [pc EXCEPT ![t] = p]
                     \/ pc[t] = "compact_record" /\ p = "remove" /\ pc' = [pc EXCEPT ![t] = p]
  BY <1>1
<1>4. OthersRest(t) /\ (pc' = [pc EXCEPT ![t] = p] => pc'[t] = p) /\ job' = job
  <2>1. job' = job
    BY <1>1
  <2>2. /\ pc' = pc \/ pc' = [pc EXCEPT ![t] = p]
        /\ new_id' = new_id \/ new_id' = [new_id EXCEPT ![t] = n]
    BY <1>3
  <2> HIDE DEF Moved
  <2> QED BY <2>1, <2>2, JobMoves
<1>5. p \in Free => p \notin TableSteps
  BY DEF TableSteps
<1>6. TakesNone(t)
  BY <1>3, <1>4, <1>5 DEF TakesNone
<1> QED BY <1>1, <1>2, <1>4, <1>6 DEF Passes

(* The steps of a flush that write to the file. *)
LEMMA BuildingSteps ==
  ASSUME EngineInv, NEW t \in Threads,
         \/ FlushBegin(t) /\ state.imm_memtables # <<>> /\ UNCHANGED lsVars
         \/ FlushEmpty(t) /\ UNCHANGED lsVars
         \/ FlushFails(t)
  PROVE  Passes(t) \/ Builds(t)
<1> DEFINE x == OldestImm
<1>0. /\ state.imm_memtables # <<>> /\ state_lock = NoThread /\ pc[t] = "flush"
      /\ UNCHANGED <<state, job>>
  BY DEF FlushBegin, FlushEmpty, FlushFails, stateVars, lsVars
<1>1. x \in Ids /\ mem[x] \in Table /\ EmptyTable \in Table
  <2>1. state.imm_memtables \in Seq(Ids) /\ mem \in [Ids -> Table]
    BY DEF EngineInv, EngineTypes
  <2>2. x \in Ids
    BY <1>0, <2>1 DEF OldestImm
  <2> QED BY <2>1, <2>2, EmptyTableType
<1>2. sst = [i \in Ids |-> sst[i]] /\ ListsKept
  BY <1>0 DEF EngineInv, EngineTypes, ListsKept
<1> HIDE DEF x
<1>3. CASE FlushBegin(t)
  <2>1. /\ mem[x] # EmptyTable /\ sst' = [sst EXCEPT ![x] = mem[x]] /\ files' = files \cup {x}
        /\ new_id' = [new_id EXCEPT ![t] = x] /\ pc' = [pc EXCEPT ![t] = "flush_swap"]
    BY <1>0, <1>3 DEF FlushBegin, x
  <2>2. OthersRest(t) /\ pc'[t] = "flush_swap" /\ new_id'[t] = x
    BY <1>0, <2>1, JobMoves
  <2>3. sst'[x] = mem[x]
    BY <1>1, <1>2, <2>1
  <2>4. \E id \in Ids, e \in Table : sst' = [sst EXCEPT ![id] = e]
    BY <1>1, <2>1
  <2> QED BY <1>0, <1>2, <2>1, <2>2, <2>3, <2>4 DEF Builds
<1>4. CASE FlushEmpty(t)
  <2>1. /\ sst' = [sst EXCEPT ![x] = EmptyTable] /\ files' = files \cup {x}
        /\ UNCHANGED <<new_id, pc>>
    BY <1>4 DEF FlushEmpty, x, threadVars
  <2>2. OthersRest(t) /\ pc'[t] = "flush"
    BY <1>0, <2>1 DEF OthersRest
  <2> QED BY <1>0, <1>1, <1>2, <2>1, <2>2 DEF Builds, TableSteps
<1>5. CASE FlushFails(t)
  <2>1. /\ \/ UNCHANGED <<sst, files>>
           \/ sst' = [sst EXCEPT ![x] = EmptyTable] /\ files' = files \cup {x}
        /\ pc' = [pc EXCEPT ![t] = "idle"] /\ UNCHANGED new_id
    BY <1>5 DEF FlushFails, x
  <2>2. OthersRest(t) /\ pc'[t] = "idle"
    BY <1>0, <2>1, JobMoves
  <2>3. pc'[t] \notin TableSteps
    BY <2>2 DEF TableSteps
  <2>4. CASE UNCHANGED <<sst, files>>
    BY <1>2, <2>2, <2>3, <2>4 DEF Passes, TakesNone
  <2>5. CASE sst' = [sst EXCEPT ![x] = EmptyTable] /\ files' = files \cup {x}
    BY <1>0, <1>1, <1>2, <2>2, <2>3, <2>5 DEF Builds
  <2> QED BY <2>1, <2>4, <2>5
<1> QED BY <1>3, <1>4, <1>5

(* The other steps do more. *)
Rearranges(t) ==
  \/ BeginCompaction(t) \/ Compact(t) \/ CompactApply(t) \/ CompactRemove(t) \/ CompactFails(t)
  \/ FlushSwap(t) /\ UNCHANGED lsVars

(* Every step of a process. *)
LEMMA StepOfTables ==
  ASSUME EngineInv, [LsmNext]_vars, opens' = opens, opens = 1
  PROVE  Crash \/ \E t \in Threads : Passes(t) \/ Builds(t) \/ Rearranges(t)
<1>0. /\ \A c \in Clients : c \in Threads
      /\ FlushThread \in Threads /\ CompactionThread \in Threads
  BY DEF Threads
<1>1. ASSUME NEW t \in Threads, FlushStep(t), UNCHANGED lsVars
      PROVE  Passes(t) \/ Builds(t) \/ Rearranges(t)
  <2>1. CASE FlushBegin(t) /\ state.imm_memtables = <<>>
    BY <1>1, <2>1, PassingSteps
  <2>2. CASE FlushBegin(t) /\ state.imm_memtables # <<>>
    BY <1>1, <2>2, BuildingSteps
  <2>3. CASE FlushEmpty(t)
    BY <1>1, <2>3, BuildingSteps
  <2>4. CASE FlushRecord(t)
    BY <1>1, <2>4, PassingSteps
  <2>5. CASE FlushSwap(t)
    BY <1>1, <2>5 DEF Rearranges
  <2> QED BY <1>1, <2>1, <2>2, <2>3, <2>4, <2>5 DEF FlushStep
<1>2. ASSUME NEW c \in Clients, ClientStep(c), UNCHANGED lsVars
      PROVE  Passes(c) \/ Builds(c) \/ Rearranges(c)
  <2>1. CASE FlushStep(c)
    BY <1>0, <1>1, <1>2, <2>1
  <2>2. CASE \/ Put(c) \/ PutInsert(c) \/ PutCheck(c) \/ FreezeStep(c) \/ ForceFreeze(c)
             \/ ForceFlush(c) \/ Sync(c)
    BY <1>0, <1>2, <2>2, PassingSteps DEF FreezeStep
  <2> QED BY <1>2, <2>1, <2>2 DEF ClientStep
<1>3. ASSUME FlushThreadStep, UNCHANGED lsVars
      PROVE  Passes(FlushThread) \/ Builds(FlushThread) \/ Rearranges(FlushThread)
  <2>1. CASE FlushStep(FlushThread)
    BY <1>0, <1>1, <1>3, <2>1
  <2>2. CASE TriggerFlush
    BY <1>0, <1>3, <2>2, PassingSteps
  <2> QED BY <1>3, <2>1, <2>2 DEF FlushThreadStep
<1>4. ASSUME NEW t \in Threads, CompactStep(t) \/ CompactFails(t) \/ FlushFails(t) \/ BeginCompaction(t)
      PROVE  Passes(t) \/ Builds(t) \/ Rearranges(t)
  <2>1. CASE CompactRecord(t)
    BY <2>1, PassingSteps
  <2>2. CASE FlushFails(t)
    BY <2>2, BuildingSteps
  <2> QED BY <1>4, <2>1, <2>2 DEF CompactStep, Rearranges
<1>5. CASE CloseBegin \/ CloseDone \/ Destroy \/ UNCHANGED vars
  <2>1. Passes(FlushThread)
    BY <1>0, <1>5, PassingSteps
  <2> QED BY <1>0, <2>1
<1>6. ASSUME NEW c \in Clients, CloseFreeze(c) \/ CloseFlush(c) PROVE Passes(c)
  BY <1>0, <1>6, PassingSteps
<1>7. \A cut \in Cuts : ~Open(cut)
  <2>1. \A cut \in Cuts : Open(cut) => opens' = opens + 1
    BY DEF Open
  <2> QED BY <2>1
<1> QED BY <1>0, <1>2, <1>3, <1>4, <1>5, <1>6, <1>7, FirstDestroys DEF LsmNext, Next

(* compact() writes what it made under new ids. *)
LEMMA CompactWrites ==
  ASSUME EngineInv, NEW t \in Threads, Compact(t), sst \in [Ids -> Table],
         CompactOutput(state, sst, job[t].task) \in Seq(Table)
  PROVE  \E ids \in Seq(Ids) :
           /\ Written(sst', CompactOutput(state, sst, job[t].task), ids)
           /\ sst' \in [Ids -> Table] /\ files' = files \cup ToSet(ids)
           /\ \A id \in ToSet(ids) : id \in Nat /\ ~(id < next_sst_id)
           /\ OthersRest(t) /\ pc'[t] = "apply" /\ pc[t] = "compact"
           /\ job'[t].output = ids /\ job'[t].task = job[t].task
           /\ UNCHANGED <<state, new_id, state_lock>>
<1>1. PICK made : made = CompactOutput(state, sst, job[t].task)
  OBVIOUS
<1>2. PICK N : N = next_sst_id
  OBVIOUS
<1>3. N \in Nat /\ MaxId \in Nat /\ Len(made) \in Nat /\ DOMAIN made = 1 .. Len(made)
      /\ \A i \in 1 .. Len(made) : made[i] \in Table
  <2>1. made \in Seq(Table)
    BY <1>1
  <2>2. N \in Nat /\ MaxId \in Nat
    BY <1>2, BoundsAssumption DEF EngineInv, EngineTypes
  <2> QED BY <2>1, <2>2
<1>4. PICK n : n = Len(made)
  OBVIOUS
<1>5. PICK ids : ids = [i \in 1 .. n |-> N + i - 1]
  OBVIOUS
<1>6. /\ ids = [i \in DOMAIN made |-> N + i - 1] /\ n \in Nat /\ DOMAIN ids = 1 .. n
      /\ \A i \in 1 .. n : ids[i] = N + i - 1
  BY <1>3, <1>4, <1>5
<1>7. /\ N + Len(ids) - 1 <= MaxId
      /\ sst' = [i \in Ids |-> IF i \in ToSet(ids) THEN made[i - N + 1] ELSE sst[i]]
      /\ files' = files \cup ToSet(ids)
      /\ job' = [job EXCEPT ![t].output = ids]
      /\ pc[t] = "compact" /\ pc' = [pc EXCEPT ![t] = "apply"]
      /\ UNCHANGED <<state, new_id, state_lock>>
  BY <1>1, <1>2, <1>6 DEF Compact
<1>8. ids \in Seq(Nat) /\ Len(ids) = n
  <2>1. \A i \in 1 .. n : ids[i] \in Nat
    <3>0. N \in Nat /\ n \in Nat
      BY <1>3, <1>6
    <3>1. \A i \in 1 .. n : N + i - 1 \in Nat
      BY ONLY <3>0
    <3> QED BY <1>6, <3>1
  <2>2. ids = [i \in 1 .. n |-> ids[i]]
    BY <1>5, <1>6
  <2> QED BY ONLY <1>6, <2>1, <2>2, FunctionIsSeq
<1>9. \A i \in 1 .. n : ids[i] \in Ids /\ ids[i] - N + 1 = i /\ ids[i] \in Nat /\ ~(ids[i] < N)
  BY <1>3, <1>6, <1>7, <1>8 DEF Ids
<1>10. ids \in Seq(Ids)
  <2>1. ids = [i \in 1 .. n |-> ids[i]]
    BY <1>5, <1>6
  <2> QED BY ONLY <1>6, <1>9, <2>1, FunctionIsSeq
<1>11. ASSUME NEW id \in ToSet(ids)
       PROVE  id \in Nat /\ ~(id < next_sst_id) /\ id - N + 1 \in 1 .. n
  <2>1. PICK i \in 1 .. n : id = ids[i]
    BY <1>6 DEF ToSet
  <2> QED BY <1>2, <1>9, <2>1
<1>12. sst' \in [Ids -> Table]
  <2>1. \A i \in Ids : (IF i \in ToSet(ids) THEN made[i - N + 1] ELSE sst[i]) \in Table
    BY <1>3, <1>4, <1>11
  <2> QED BY <1>7, <2>1
<1>13. Written(sst', made, ids)
  <2>1. ASSUME NEW i \in 1 .. n PROVE sst'[ids[i]] = made[i]
    <3>1. ids[i] \in ToSet(ids) /\ ids[i] \in Ids /\ ids[i] - N + 1 = i
      BY <1>6, <1>9 DEF ToSet
    <3> QED BY <1>7, <3>1
  <2> QED BY <1>3, <1>4, <1>6, <2>1 DEF Written
<1>14. /\ OthersRest(t) /\ pc'[t] = "apply" /\ job'[t].output = ids /\ job'[t].task = job[t].task
  <2>1. job[t] = [task |-> job[t].task, output |-> job[t].output, remove |-> job[t].remove]
        /\ job = [u \in Threads |-> job[u]]
    BY DEF EngineInv, JobTypes
  <2>2. PICK j : j = [job[t] EXCEPT !.output = ids]
    OBVIOUS
  <2>3. job' = [job EXCEPT ![t] = j] /\ j.output = ids /\ j.task = job[t].task
    BY <1>7, <2>1, <2>2
  <2> QED BY <1>7, <2>3, JobMoves
<1> QED BY <1>1, <1>7, <1>10, <1>11, <1>12, <1>13, <1>14

(* A compaction that fails wrote tables too. *)
LEMMA CompactFailsWrites ==
  ASSUME EngineInv, NEW t \in Threads, CompactFails(t), sst \in [Ids -> Table],
         CompactOutput(state, sst, job[t].task) \in Seq(Table)
  PROVE  /\ sst' \in [Ids -> Table] /\ files \subseteq files' /\ ListsKept
         /\ OthersRest(t) /\ pc'[t] \notin TableSteps
<1>1. PICK made : made = CompactOutput(state, sst, job[t].task)
  OBVIOUS
<1>2. PICK N : N = next_sst_id
  OBVIOUS
<1>3. N \in Nat /\ Len(made) \in Nat /\ \A i \in 1 .. Len(made) : made[i] \in Table
  BY <1>1, <1>2 DEF EngineInv, EngineTypes
<1>4. PICK n \in 0 .. Len(made) - 1 :
        /\ sst' = [i \in Ids |-> IF i \notin N .. N + n THEN sst[i]
                                 ELSE IF i < N + n THEN made[i - N + 1] ELSE EmptyTable]
        /\ files' = files \cup (N .. N + n)
        /\ job' = [job EXCEPT ![t] = NoJob] /\ pc' = [pc EXCEPT ![t] = "idle"]
        /\ UNCHANGED <<state, new_id>>
  BY <1>1, <1>2 DEF CompactFails
<1>5. ASSUME NEW i \in Ids
      PROVE  (IF i \notin N .. N + n THEN sst[i]
              ELSE IF i < N + n THEN made[i - N + 1] ELSE EmptyTable) \in Table
  <2>1. i \in N .. N + n /\ i < N + n => i - N + 1 \in 1 .. Len(made)
    BY <1>3
  <2> QED BY <1>3, <2>1, EmptyTableType
<1>6. sst' \in [Ids -> Table]
  BY <1>4, <1>5
<1>7. OthersRest(t) /\ pc'[t] = "idle"
  BY <1>4, JobMoves
<1> QED BY <1>4, <1>6, <1>7 DEF ListsKept, TableSteps

-----------------------------------------------------------------------------
(* The leveled strategy *)

(* Every table of the state is there, holds keys and has its file, no two  *)
(* places name the same one, and every level is sorted.                    *)
LeveledHolds == Sound(Ids, sst, state) /\ RefsApart(state) /\ state.sstables \subseteq files

(* The task of a compaction fits the state its result will find; the       *)
(* output is sorted and was made of the inputs; the inputs to be removed   *)
(* are not open; a table about to be installed by a flush has its file and *)
(* holds keys.                                                             *)
LeveledThread(t) ==
  /\ pc[t] \in {"compact", "apply"} => LeveledFits(Ids, sst, state, job[t].task)
  /\ pc[t] = "apply" =>
       /\ OutputSorted(Ids, sst, job[t].output) /\ FromInputs(sst, job[t].task, job[t].output)
       /\ \A x \in ToSet(job[t].output) : x \in files /\ x \notin state.sstables
  /\ pc[t] \in {"compact_record", "remove"} =>
       /\ job[t].remove \subseteq Ids /\ Apart(job[t].remove)
       /\ \A x \in job[t].remove : x \notin state.sstables
  /\ pc[t] = "flush_swap" => new_id[t] \in files /\ KeysOfTable(sst[new_id[t]]) # {}

LeveledInv == EngineInv /\ LeveledHolds /\ \A t \in Threads : LeveledThread(t)

(* A sound state in which other tables were written. *)
LEMMA SoundSame ==
  ASSUME NEW S, NEW tables, NEW st, NEW tables2, NEW st2, Sound(S, tables, st),
         st2 \in StateOver(S), st2.l0_sstables = st.l0_sstables, st2.levels = st.levels,
         st2.sstables = st.sstables,
         tables2 \in [S -> Table], \A id \in st.sstables : tables2[id] = tables[id]
  PROVE  Sound(S, tables2, st2)
<1>1. /\ IsFiniteSet(S) /\ S \subseteq Nat /\ RefsOpen(st2)
      /\ \A id \in st2.sstables : KeysOfTable(tables2[id]) # {}
  BY DEF Sound, RefsOpen
<1>2. ASSUME NEW l \in DOMAIN st2.levels PROVE InOrder(tables2, st2.levels[l].ssts)
  <2>1. InOrder(tables, st2.levels[l].ssts)
    BY DEF Sound
  <2>2. \A i \in DOMAIN st2.levels[l].ssts : st2.levels[l].ssts[i] \in st.sstables
    BY <1>1 DEF RefsOpen
  <2>3. PICK run : run = st2.levels[l].ssts
    OBVIOUS
  <2>4. /\ InOrder(tables, run) /\ \A i \in DOMAIN run : tables2[run[i]] = tables[run[i]]
    BY <2>1, <2>2, <2>3
  <2>5. InOrder(tables2, run)
    BY ONLY <2>4 DEF InOrder
  <2> QED BY <2>3, <2>5
<1> QED BY <1>1, <1>2 DEF Sound

(* So is an output. *)
LEMMA OutputSame ==
  ASSUME NEW S, NEW tables, NEW tables2, NEW output, OutputSorted(S, tables, output),
         \A x \in ToSet(output) : tables2[x] = tables[x]
  PROVE  OutputSorted(S, tables2, output)
<1>1. \A i \in DOMAIN output : tables2[output[i]] = tables[output[i]]
  BY DEF ToSet
<1>2. InOrder(tables2, output)
  BY <1>1 DEF OutputSorted, InOrder
<1> QED BY <1>2 DEF OutputSorted

(* RefsApart is about L0 and the levels. *)
LEMMA ApartSame ==
  ASSUME NEW st, NEW st2, RefsApart(st), st2.l0_sstables = st.l0_sstables, st2.levels = st.levels
  PROVE  RefsApart(st2)
BY DEF RefsApart

(* What a thread holds stays as it is when another thread takes a step. *)
LEMMA LeveledThreadStays ==
  ASSUME LeveledInv, EngineInv', StepKeeps, NEW u \in Threads,
         \/ pc'[u] = pc[u] /\ new_id'[u] = new_id[u]
         \/ pc[u] = "compact_record" /\ pc'[u] = "remove",
         job'[u] = job[u], files \subseteq files',
         ToSet(state.l0_sstables) \subseteq ToSet(state'.l0_sstables), state'.levels = state.levels,
         NEW N, state'.sstables = state.sstables \cup N, N \subseteq LiveMemtables,
         pc[u] = "flush_swap" => sst'[new_id[u]] = sst[new_id[u]]
  PROVE  LeveledThread(u)'
<1>0. EngineInv /\ EngineTypes /\ EngineTypes' /\ JobTypes /\ TablesApart /\ LeveledThread(u)
      /\ Sound(Ids, sst, state) /\ RefsOpen(state)
  BY DEF LeveledInv, LeveledHolds, EngineInv, Sound
<1>1. PICK A : A = state.sstables
  OBVIOUS
<1>2. A \subseteq Ids /\ Apart(A)
  BY <1>0, <1>1 DEF EngineTypes, TablesApart
<1>3. \A id \in A : sst'[id] = sst[id]
  BY <1>2, ApartUnwritten
<1>4. ASSUME pc'[u] \in {"compact", "apply"} PROVE LeveledFits(Ids, sst', state', job'[u].task)
  <2>1. LeveledFits(Ids, sst, state, job[u].task)
    BY <1>0, <1>4 DEF LeveledThread
  <2>2. LeveledFits(Ids, sst', state', job[u].task)
    BY <1>0, <1>1, <1>3, <2>1, LeveledStays
  <2> QED BY <2>2
<1>5. ASSUME pc'[u] = "apply"
      PROVE  /\ OutputSorted(Ids, sst', job'[u].output)
             /\ FromInputs(sst', job'[u].task, job'[u].output)
             /\ \A x \in ToSet(job'[u].output) : x \in files' /\ x \notin state'.sstables
  <2>1. PICK O : O = ToSet(job[u].output)
    OBVIOUS
  <2>2. /\ pc[u] = "apply" /\ OutputSorted(Ids, sst, job[u].output)
        /\ FromInputs(sst, job[u].task, job[u].output)
        /\ \A x \in O : x \in files /\ x \notin state.sstables
        /\ LeveledFits(Ids, sst, state, job[u].task)
    BY <1>0, <1>5, <2>1 DEF LeveledThread
  <2>3. O \subseteq Ids /\ Apart(O)
    BY <1>0, <2>1, <2>2 DEF JobTypes, TablesApart
  <2>4. \A id \in O : sst'[id] = sst[id]
    BY <2>3, ApartUnwritten
  <2>5. OutputSorted(Ids, sst', job[u].output)
    BY <2>1, <2>2, <2>4, OutputSame
  <2>6. LeveledInputs(job[u].task) \subseteq A
    BY <1>0, <1>1, <2>2, LeveledMerged
  <2>7. FromInputs(sst', job[u].task, job[u].output)
    BY <1>3, <2>1, <2>2, <2>4, <2>6 DEF FromInputs
  <2>8. \A x \in O : x \notin LiveMemtables
    BY <2>3 DEF Apart, MemIds
  <2> QED BY <2>1, <2>2, <2>5, <2>7, <2>8
<1>6. ASSUME pc'[u] \in {"compact_record", "remove"}
      PROVE  /\ job'[u].remove \subseteq Ids /\ Apart(job[u].remove)'
             /\ \A x \in job'[u].remove : x \notin state'.sstables
  <2>1. PICK R : R = job[u].remove
    OBVIOUS
  <2>2. R \subseteq Ids /\ Apart(R) /\ \A x \in R : x \notin state.sstables
    BY <1>0, <1>6, <2>1 DEF LeveledThread
  <2>3. \A id \in R : id < next_sst_id' /\ id \notin MemIds'
    BY <1>0, <2>2, ApartStill
  <2>4. \A x \in R : x \notin LiveMemtables
    BY <2>2 DEF Apart, MemIds
  <2> QED BY <2>1, <2>2, <2>3, <2>4 DEF Apart
<1>7. ASSUME pc'[u] = "flush_swap"
      PROVE  new_id'[u] \in files' /\ KeysOfTable(sst'[new_id'[u]]) # {}
  BY <1>0, <1>7 DEF LeveledThread
<1> QED BY <1>4, <1>5, <1>6, <1>7 DEF LeveledThread

(* The state after a step that keeps the lists of tables. *)
LEMMA StateOverKept ==
  ASSUME EngineTypes', ListsKept, state \in StateOver(Ids)
  PROVE  state' \in StateOver(Ids)
<1>1. /\ state' = [memtable |-> state'.memtable, imm_memtables |-> state'.imm_memtables,
                   l0_sstables |-> state'.l0_sstables, levels |-> state'.levels,
                   sstables |-> state'.sstables]
      /\ state'.memtable \in Ids /\ state'.imm_memtables \in Seq(Ids)
  BY DEF EngineTypes
<1>2. /\ state'.l0_sstables \in Seq(Ids) /\ state'.levels \in Seq(LevelOver(Ids))
      /\ state'.sstables \in SUBSET Ids
  BY DEF ListsKept, StateOver
<1> QED BY <1>1, <1>2 DEF StateOver

(* A table that is not empty has a key. *)
LEMMA NotEmptyKeys ==
  ASSUME NEW t \in Table, t # EmptyTable
  PROVE  KeysOfTable(t) # {}
<1>1. t = [k \in Keys |-> t[k]]
  BY DEF Table
<1>2. (\A k \in Keys : t[k] = Absent) => t = EmptyTable
  BY <1>1 DEF EmptyTable
<1> QED BY <1>2 DEF KeysOfTable

(* The lists of tables stay, and so do the open tables. *)
LEMMA LeveledHoldsStays ==
  ASSUME LeveledInv, EngineInv', StepKeeps, ListsKept, sst' \in [Ids -> Table],
         \A x \in state.sstables : x \in files'
  PROVE  LeveledHolds'
<1>0. EngineTypes /\ EngineTypes' /\ TablesApart /\ Sound(Ids, sst, state) /\ RefsApart(state)
  BY DEF LeveledInv, LeveledHolds, EngineInv
<1>1. PICK A : A = state.sstables
  OBVIOUS
<1>2. A \subseteq Ids /\ Apart(A)
  BY <1>0, <1>1 DEF EngineTypes, TablesApart
<1>3. \A id \in state.sstables : sst'[id] = sst[id]
  BY <1>1, <1>2, ApartUnwritten
<1>4. state' \in StateOver(Ids)
  BY <1>0, StateOverKept DEF Sound
<1>5. Sound(Ids, sst', state')
  BY <1>0, <1>3, <1>4, SoundSame DEF ListsKept
<1>6. RefsApart(state')
  BY <1>0, ApartSame DEF ListsKept
<1> QED BY <1>5, <1>6 DEF LeveledHolds, ListsKept

(* The other threads. *)
LEMMA LeveledOthersStay ==
  ASSUME LeveledInv, EngineInv', StepKeeps, NEW t \in Threads, OthersRest(t), ListsKept,
         files \subseteq files',
         \A u \in Threads : u # t /\ pc[u] = "flush_swap" => sst'[new_id[u]] = sst[new_id[u]]
  PROVE  \A u \in Threads : u # t => LeveledThread(u)'
<1> SUFFICES ASSUME NEW u \in Threads, u # t PROVE LeveledThread(u)'
  OBVIOUS
<1>1. pc'[u] = pc[u] /\ new_id'[u] = new_id[u] /\ job'[u] = job[u]
  BY DEF OthersRest
<1>2. PICK N : N = {}
  OBVIOUS
<1>3. /\ ToSet(state.l0_sstables) \subseteq ToSet(state'.l0_sstables) /\ state'.levels = state.levels
      /\ state'.sstables = state.sstables \cup N /\ N \subseteq LiveMemtables
  BY <1>2 DEF ListsKept
<1> QED BY <1>1, <1>3, LeveledThreadStays

(* A thread that holds no table. *)
LEMMA LeveledNone ==
  ASSUME NEW t \in Threads, pc'[t] \notin TableSteps
  PROVE  LeveledThread(t)'
BY DEF TableSteps, LeveledThread

(* Where state_lock is free no flush is under way. *)
LEMMA NoFlush ==
  ASSUME EngineInv, state_lock = NoThread
  PROVE  \A u \in Threads : pc[u] \notin {"flush_swap", "compact_record", "freeze_swap"}
<1>1. NoThread \notin Threads
  BY ThreadsAssumption DEF Threads
<1> QED BY <1>1 DEF EngineInv, MemtablesApart, LockHolds, LockedSteps

(* The table of a flush is not touched by compactions. *)
LEMMA FlushUntouched ==
  ASSUME EngineInv, \A id \in Ids : id < next_sst_id => sst'[id] = sst[id]
  PROVE  \A u \in Threads : pc[u] = "flush_swap" => sst'[new_id[u]] = sst[new_id[u]]
<1> SUFFICES ASSUME NEW u \in Threads, pc[u] = "flush_swap" PROVE sst'[new_id[u]] = sst[new_id[u]]
  OBVIOUS
<1>1. new_id[u] = OldestImm /\ state.imm_memtables # <<>> /\ EngineTypes
  BY DEF EngineInv, MemtablesApart
<1>2. OldestImm \in LiveMemtables
  <2>1. state.imm_memtables \in Seq(Ids)
    BY <1>1 DEF EngineTypes
  <2>2. Len(state.imm_memtables) \in DOMAIN state.imm_memtables
    BY <1>1, <2>1
  <2> QED BY <2>2 DEF OldestImm, LiveMemtables
<1>3. new_id[u] \in MemIds
  BY <1>1, <1>2 DEF MemIds
<1>4. new_id[u] \in Ids /\ new_id[u] < next_sst_id
  BY <1>1, <1>3, MemIdsType DEF EngineInv, MemtablesApart
<1> QED BY <1>4

(* A step that touches no table. *)
LEMMA LeveledPasses ==
  ASSUME LeveledInv, EngineInv', StepKeeps, NEW t \in Threads, Passes(t)
  PROVE  LeveledInv'
<1>1. /\ OthersRest(t) /\ ListsKept /\ TakesNone(t) /\ UNCHANGED <<sst, files>>
  BY DEF Passes
<1>2. LeveledHolds'
  BY <1>1, LeveledHoldsStays DEF LeveledInv, LeveledHolds, Sound
<1>3. \A u \in Threads : u # t => LeveledThread(u)'
  BY <1>1, LeveledOthersStay
<1>4. LeveledThread(t)'
  <2>1. CASE pc'[t] \notin TableSteps
    BY <2>1, LeveledNone
  <2>2. CASE /\ \/ pc'[t] = pc[t] /\ new_id'[t] = new_id[t]
                \/ pc[t] = "compact_record" /\ pc'[t] = "remove"
             /\ job'[t] = job[t]
    <3>1. PICK N : N = {}
      OBVIOUS
    <3>2. /\ ToSet(state.l0_sstables) \subseteq ToSet(state'.l0_sstables) /\ state'.levels = state.levels
          /\ state'.sstables = state.sstables \cup N /\ N \subseteq LiveMemtables
      BY <1>1, <3>1 DEF ListsKept
    <3> QED BY <1>1, <2>2, <3>2, LeveledThreadStays
  <2> QED BY <1>1, <2>1, <2>2 DEF TakesNone
<1> QED BY <1>2, <1>3, <1>4 DEF LeveledInv

(* A flush builds its file. *)
LEMMA LeveledBuilds ==
  ASSUME LeveledInv, EngineInv', StepKeeps, NEW t \in Threads, Builds(t)
  PROVE  LeveledInv'
<1>0. EngineInv /\ sst \in [Ids -> Table] /\ state.sstables \subseteq files
  BY DEF LeveledInv, LeveledHolds, Sound
<1>1. OthersRest(t) /\ ListsKept /\ state_lock = NoThread /\ files \subseteq files'
  BY DEF Builds
<1>2. sst' \in [Ids -> Table]
  BY <1>0 DEF Builds
<1>3. LeveledHolds'
  BY <1>0, <1>1, <1>2, LeveledHoldsStays
<1>4. \A u \in Threads : u # t => LeveledThread(u)'
  <2>1. \A u \in Threads : pc[u] # "flush_swap"
    BY <1>0, <1>1, NoFlush
  <2> QED BY <1>1, <2>1, LeveledOthersStay
<1>5. LeveledThread(t)'
  <2>1. CASE pc'[t] \notin TableSteps
    BY <2>1, LeveledNone
  <2>2. CASE pc'[t] = "flush_swap" /\ new_id'[t] \in files' /\ sst'[new_id'[t]] # EmptyTable
    <3>1. new_id'[t] \in Ids
      BY DEF EngineInv, EngineTypes
    <3>2. KeysOfTable(sst'[new_id'[t]]) # {}
      BY <1>2, <2>2, <3>1, NotEmptyKeys
    <3> QED BY <2>2, <3>2 DEF LeveledThread
  <2> QED BY <2>1, <2>2 DEF Builds
<1> QED BY <1>3, <1>4, <1>5 DEF LeveledInv

(* A compaction fails. *)
LEMMA LeveledFails ==
  ASSUME LeveledInv, EngineInv', StepKeeps, NEW t \in Threads, CompactFails(t)
  PROVE  LeveledInv'
<1>0. EngineInv /\ sst \in [Ids -> Table] /\ state.sstables \subseteq files /\ Sound(Ids, sst, state)
  BY DEF LeveledInv, LeveledHolds, Sound
<1>1. LeveledFits(Ids, sst, state, job[t].task)
  BY DEF LeveledInv, LeveledThread, CompactFails
<1>2. CompactOutput(state, sst, job[t].task) \in Seq(Table)
  BY <1>0, <1>1, LeveledMerged
<1>3. /\ sst' \in [Ids -> Table] /\ files \subseteq files' /\ ListsKept
      /\ OthersRest(t) /\ pc'[t] \notin TableSteps
  BY <1>0, <1>2, CompactFailsWrites
<1>4. LeveledHolds'
  BY <1>0, <1>3, LeveledHoldsStays
<1>5. \A u \in Threads : u # t => LeveledThread(u)'
  <2>1. PICK n : /\ n \in Nat
                 /\ \A i \in Ids : i \notin next_sst_id .. next_sst_id + n => sst'[i] = sst[i]
    <3>1. Len(CompactOutput(state, sst, job[t].task)) \in Nat
      BY <1>2
    <3> QED BY <3>1 DEF CompactFails
  <2>2. next_sst_id \in Nat /\ Ids \subseteq Nat
    BY <1>0, BoundsAssumption DEF EngineInv, EngineTypes, Ids
  <2>3. \A id \in Ids : id < next_sst_id => id \notin next_sst_id .. next_sst_id + n
    BY <2>1, <2>2
  <2>4. \A id \in Ids : id < next_sst_id => sst'[id] = sst[id]
    BY <2>1, <2>3
  <2> QED BY <1>0, <1>3, <2>4, LeveledOthersStay, FlushUntouched
<1> QED BY <1>3, <1>4, <1>5, LeveledNone DEF LeveledInv

(* The compaction thread makes a task. *)
LEMMA LeveledBegins ==
  ASSUME CompactionOptions.type = "Leveled", LeveledInv, EngineInv', StepKeeps,
         NEW t \in Threads, BeginCompaction(t)
  PROVE  LeveledInv'
<1>0. EngineInv /\ JobTypes /\ Sound(Ids, sst, state) /\ state.sstables \subseteq files
      /\ sst \in [Ids -> Table]
  BY DEF LeveledInv, LeveledHolds, EngineInv, Sound
<1>1. PICK task \in IF t = CompactionThread THEN TriggeredTasks ELSE ForceFullTasks :
        job' = [job EXCEPT ![t].task = task]
  BY DEF BeginCompaction
<1>2. pc' = [pc EXCEPT ![t] = "compact"] /\ UNCHANGED <<state, sst, files, new_id>>
  BY DEF BeginCompaction, stateVars, diskVars
<1>3. LeveledFits(Ids, sst, state, task)
  <2>1. ForceFullTasks = {}
    BY DEF ForceFullTasks
  <2>2. task = GenerateCompactionTask(state, sst) /\ task # NoTask
    BY <1>1, <2>1 DEF TriggeredTasks
  <2>3. task = LeveledGenerate(state, sst)
    BY <2>2 DEF GenerateCompactionTask
  <2> QED BY <1>0, <2>2, <2>3, LeveledGenerates
<1>4. PICK j : j = [task |-> task, output |-> job[t].output, remove |-> job[t].remove]
  OBVIOUS
<1>5. job' = [job EXCEPT ![t] = j] /\ j.task = task
  BY <1>0, <1>1, <1>4, JobFieldSet
<1>6. OthersRest(t) /\ pc'[t] = "compact" /\ job'[t] = j
  BY <1>0, <1>2, <1>5, JobMoves
<1>7. ListsKept
  BY <1>2 DEF ListsKept
<1>8. LeveledHolds'
  BY <1>0, <1>2, <1>7, LeveledHoldsStays
<1>9. \A u \in Threads : u # t => LeveledThread(u)'
  BY <1>2, <1>6, <1>7, LeveledOthersStay
<1>10. LeveledThread(t)'
  BY <1>2, <1>3, <1>5, <1>6 DEF LeveledThread
<1> QED BY <1>8, <1>9, <1>10 DEF LeveledInv

(* compact() writes sorted tables, of the keys of its inputs. *)
LEMMA LeveledCompacts ==
  ASSUME LeveledInv, EngineInv', StepKeeps, NEW t \in Threads, Compact(t)
  PROVE  LeveledInv'
<1>0. /\ EngineInv /\ EngineTypes /\ TablesApart /\ Sound(Ids, sst, state) /\ RefsOpen(state)
      /\ state.sstables \subseteq files /\ sst \in [Ids -> Table]
  BY DEF LeveledInv, LeveledHolds, EngineInv, Sound
<1>1. LeveledFits(Ids, sst, state, job[t].task)
  BY DEF LeveledInv, LeveledThread, Compact
<1>2. PICK task : task = job[t].task
  OBVIOUS
<1>3. PICK m : m = Merged(state, sst, task)
  OBVIOUS
<1>4. /\ m \in Table /\ CompactOutput(state, sst, task) = Split(m, SstEntries)
      /\ CompactOutput(state, sst, task) \in Seq(Table) /\ LeveledInputs(task) \subseteq state.sstables
      /\ \A k \in KeysOfTable(m) : \E i \in LeveledInputs(task) : k \in KeysOfTable(sst[i])
  BY <1>0, <1>1, <1>2, <1>3, LeveledMerged
<1>5. PICK ids \in Seq(Ids) :
        /\ Written(sst', CompactOutput(state, sst, task), ids)
        /\ sst' \in [Ids -> Table] /\ files' = files \cup ToSet(ids)
        /\ \A id \in ToSet(ids) : id \in Nat /\ ~(id < next_sst_id)
        /\ OthersRest(t) /\ pc'[t] = "apply" /\ pc[t] = "compact"
        /\ job'[t].output = ids /\ job'[t].task = task
        /\ UNCHANGED <<state, new_id, state_lock>>
  BY <1>0, <1>2, <1>4, CompactWrites
<1>6. ListsKept /\ files \subseteq files'
  BY <1>5 DEF ListsKept
<1>7. LeveledHolds'
  BY <1>0, <1>5, <1>6, LeveledHoldsStays
<1>8. \A id \in state.sstables : id \in Ids /\ id < next_sst_id /\ sst'[id] = sst[id]
  <2>1. PICK A : A = state.sstables
    OBVIOUS
  <2>2. A \subseteq Ids /\ Apart(A)
    BY <1>0, <2>1 DEF EngineTypes, TablesApart
  <2>3. \A id \in A : sst'[id] = sst[id]
    BY <2>2, ApartUnwritten
  <2> QED BY <2>1, <2>2, <2>3 DEF Apart
<1>9. \A id \in Ids : id < next_sst_id => sst'[id] = sst[id]
  <2>1. PICK made : made = CompactOutput(state, sst, task)
    OBVIOUS
  <2>2. sst' = [i \in Ids |-> IF i \in ToSet([n \in DOMAIN made |-> next_sst_id + n - 1])
                              THEN made[i - next_sst_id + 1] ELSE sst[i]]
    BY <1>2, <2>1 DEF Compact
  <2>3. ASSUME NEW id \in Ids, id \in ToSet([n \in DOMAIN made |-> next_sst_id + n - 1])
        PROVE  ~(id < next_sst_id)
    <3>1. DOMAIN made = 1 .. Len(made) /\ Len(made) \in Nat /\ next_sst_id \in Nat
      BY <1>0, <1>4, <2>1 DEF EngineTypes
    <3>2. PICK n \in DOMAIN made : id = next_sst_id + n - 1
      BY <2>3 DEF ToSet
    <3>3. n \in Nat /\ 1 <= n
      BY <3>1, <3>2
    <3> QED BY ONLY <3>1, <3>2, <3>3
  <2> QED BY <2>2, <2>3
<1>10. \A u \in Threads : u # t => LeveledThread(u)'
  BY <1>0, <1>5, <1>6, <1>9, LeveledOthersStay, FlushUntouched
<1>11. LeveledFits(Ids, sst', state', task)
  BY <1>0, <1>1, <1>2, <1>5, <1>8, LeveledStays
<1>12. /\ OutputSorted(Ids, sst', ids)
       /\ \A x \in ToSet(ids) : KeysOfTable(sst'[x]) \subseteq KeysOfTable(m)
  BY <1>4, <1>5, CutSorted
<1>13. FromInputs(sst', task, ids)
  BY <1>4, <1>8, <1>12 DEF FromInputs
<1>14. \A x \in ToSet(ids) : x \in files' /\ x \notin state'.sstables
  BY <1>5, <1>8
<1>15. LeveledThread(t)'
  BY <1>5, <1>11, <1>12, <1>13, <1>14 DEF LeveledThread
<1> QED BY <1>7, <1>10, <1>15 DEF LeveledInv

(* The result is swapped in.  Nobody else holds tables: no flush is under  *)
(* way, and no other compaction.                                           *)
LEMMA LeveledApplies ==
  ASSUME LeveledInv, EngineInv', StepKeeps, OneCompaction, NEW t \in Threads, CompactApply(t)
  PROVE  LeveledInv'
<1>0. /\ EngineInv /\ EngineTypes /\ EngineTypes' /\ JobTypes /\ TablesApart
      /\ Sound(Ids, sst, state) /\ RefsApart(state) /\ state.sstables \subseteq files
  BY DEF LeveledInv, LeveledHolds, EngineInv
<1>1. PICK task, output : task = job[t].task /\ output = job[t].output
  OBVIOUS
<1>2. PICK r : /\ job' = [job EXCEPT ![t].remove = r]
               /\ task.type # "ForceFull" => r \subseteq FilesToRemove(Added(state, output), task)
  <2>1. PICK gone, applied :
          /\ gone = FilesToRemove(Added(state, output), task)
          /\ job' = [job EXCEPT ![t].remove =
                       IF task.type = "ForceFull" THEN gone ELSE gone \cap applied.sstables]
    BY <1>1 DEF CompactApply, Added
  <2>2. PICK r : r = IF task.type = "ForceFull" THEN gone ELSE gone \cap applied.sstables
    OBVIOUS
  <2>3. task.type # "ForceFull" => r \subseteq gone
    BY <2>2
  <2> QED BY <2>1, <2>2, <2>3
<1>3. /\ pc[t] = "apply" /\ state_lock = NoThread /\ pc' = [pc EXCEPT ![t] = "compact_record"]
      /\ state' = Installed(state, sst, task, output) /\ UNCHANGED <<sst, files, new_id>>
  BY <1>1 DEF CompactApply, Installed, Added, diskVars
<1>4. /\ LeveledFits(Ids, sst, state, task) /\ OutputSorted(Ids, sst, output)
      /\ FromInputs(sst, task, output)
      /\ \A x \in ToSet(output) : x \in files /\ x \notin state.sstables
  BY <1>1, <1>3 DEF LeveledInv, LeveledThread
<1>5. LeveledDone(Ids, sst, state, task, output, state')
  BY <1>0, <1>3, <1>4, LeveledApplied
<1>6. /\ Sound(Ids, sst', state') /\ RefsApart(state')
      /\ LeveledInputs(task) \subseteq state.sstables
      /\ state'.sstables = (state.sstables \cup ToSet(output)) \ LeveledInputs(task)
  BY <1>3, <1>5 DEF LeveledDone
<1>7. state'.sstables \subseteq files'
  BY <1>0, <1>3, <1>4, <1>6
<1>8. LeveledHolds'
  BY <1>6, <1>7 DEF LeveledHolds
<1>9. PICK j : j = [task |-> job[t].task, output |-> job[t].output, remove |-> r]
  OBVIOUS
<1>10. job' = [job EXCEPT ![t] = j] /\ j.remove = r
  BY <1>0, <1>2, <1>9, JobFieldSet
<1>11. OthersRest(t) /\ pc'[t] = "compact_record" /\ job'[t] = j
  BY <1>0, <1>3, <1>10, JobMoves
<1>12. r \subseteq LeveledInputs(task)
  <2>1. task.type = "Leveled"
    BY <1>4 DEF LeveledFits
  <2> QED BY <1>2, <2>1 DEF FilesToRemove, LeveledRemoved, LeveledInputs
<1>13. r \subseteq Ids /\ Apart(r) /\ \A x \in r : x \notin state'.sstables
  BY <1>0, <1>6, <1>12 DEF EngineTypes, TablesApart, Apart
<1>14. \A id \in r : id < next_sst_id' /\ id \notin MemIds'
  BY <1>0, <1>13, ApartStill
<1>15. LeveledThread(t)'
  BY <1>10, <1>11, <1>13, <1>14 DEF LeveledThread, Apart
<1>16. ASSUME NEW u \in Threads, u # t PROVE LeveledThread(u)'
  <2>1. pc[u] \notin CompactionSteps
    BY <1>3, <1>16 DEF OneCompaction, CompactionSteps
  <2>2. pc[u] # "flush_swap"
    BY <1>0, <1>3, NoFlush
  <2>3. pc'[u] = pc[u]
    BY <1>11, <1>16 DEF OthersRest
  <2>4. pc'[u] \notin TableSteps
    BY <2>1, <2>2, <2>3 DEF TableSteps, CompactionSteps
  <2> QED BY <2>4, LeveledNone
<1> QED BY <1>8, <1>15, <1>16 DEF LeveledInv

(* The files of the inputs are removed. *)
LEMMA LeveledRemoves ==
  ASSUME LeveledInv, EngineInv', StepKeeps, OneCompaction, NEW t \in Threads, CompactRemove(t)
  PROVE  LeveledInv'
<1>0. /\ EngineInv /\ EngineTypes /\ sst \in [Ids -> Table] /\ state.sstables \subseteq files
  BY DEF LeveledInv, LeveledHolds, EngineInv, Sound
<1>1. /\ pc[t] = "remove" /\ files' = files \ job[t].remove /\ job' = [job EXCEPT ![t] = NoJob]
      /\ pc' = [pc EXCEPT ![t] = "idle"] /\ UNCHANGED <<state, sst, new_id>>
  BY DEF CompactRemove, stateVars
<1>2. /\ Apart(job[t].remove) /\ \A x \in job[t].remove : x \notin state.sstables
  BY <1>1 DEF LeveledInv, LeveledThread
<1>3. OthersRest(t) /\ pc'[t] = "idle"
  BY <1>0, <1>1, JobMoves
<1>4. ListsKept /\ \A x \in state.sstables : x \in files'
  BY <1>0, <1>1, <1>2 DEF ListsKept
<1>5. LeveledHolds'
  BY <1>0, <1>1, <1>4, LeveledHoldsStays
<1>6. LeveledThread(t)'
  BY <1>3, LeveledNone DEF TableSteps
<1>7. ASSUME NEW u \in Threads, u # t PROVE LeveledThread(u)'
  <2>1. pc[u] \notin CompactionSteps
    BY <1>1, <1>7 DEF OneCompaction, CompactionSteps
  <2>2. pc'[u] = pc[u] /\ new_id'[u] = new_id[u]
    BY <1>3, <1>7 DEF OthersRest
  <2>3. CASE pc[u] # "flush_swap"
    <3>1. pc'[u] \notin TableSteps
      BY <2>1, <2>2, <2>3 DEF TableSteps, CompactionSteps
    <3> QED BY <3>1, LeveledNone
  <2>4. CASE pc[u] = "flush_swap"
    <3>1. new_id[u] \in files /\ KeysOfTable(sst[new_id[u]]) # {}
      BY <2>4 DEF LeveledInv, LeveledThread
    <3>2. new_id[u] = OldestImm /\ state.imm_memtables # <<>>
      BY <1>0, <2>4 DEF EngineInv, MemtablesApart
    <3>3. OldestImm \in LiveMemtables
      <4>1. Len(state.imm_memtables) \in DOMAIN state.imm_memtables
        BY <1>0, <3>2 DEF EngineTypes
      <4> QED BY <4>1 DEF OldestImm, LiveMemtables
    <3>4. new_id[u] \notin job[t].remove
      BY <1>2, <3>2, <3>3 DEF Apart, MemIds
    <3> QED BY <1>1, <2>2, <2>4, <3>1, <3>4 DEF LeveledThread
  <2> QED BY <2>3, <2>4
<1> QED BY <1>5, <1>6, <1>7 DEF LeveledInv

(* A flushed table is put in front of L0. *)
LEMMA SoundFlushed ==
  ASSUME NEW S, NEW tables, NEW st, Sound(S, tables, st), RefsApart(st), NEW x \in S,
         x \notin st.sstables, KeysOfTable(tables[x]) # {},
         NEW new \in StateOver(S), new.l0_sstables = <<x>> \o st.l0_sstables,
         new.levels = st.levels, new.sstables = st.sstables \cup {x}
  PROVE  Sound(S, tables, new) /\ RefsApart(new)
         /\ ToSet(st.l0_sstables) \subseteq ToSet(new.l0_sstables)
<1>1. PICK l0 : l0 = st.l0_sstables
  OBVIOUS
<1>2. l0 \in Seq(S) /\ RefsOpen(st)
  BY <1>1, SoundTables DEF Sound
<1>3. PICK n : n = Len(l0)
  OBVIOUS
<1>4. PICK w : w = <<x>> \o l0
  OBVIOUS
<1>5. /\ n \in Nat /\ DOMAIN l0 = 1 .. n /\ DOMAIN w = 1 .. n + 1 /\ w[1] = x
      /\ \A i \in 1 .. n : w[i + 1] = l0[i]
  BY <1>2, <1>3, <1>4
<1>6. \A i \in 1 .. n + 1 : i # 1 => i - 1 \in 1 .. n /\ i = (i - 1) + 1 /\ w[i] = l0[i - 1]
  BY <1>5
<1>7. \A i \in 1 .. n : l0[i] \in st.sstables
  BY <1>1, <1>2, <1>5 DEF RefsOpen
<1>8. \A i \in DOMAIN w : w[i] \in st.sstables \cup {x}
  BY <1>5, <1>6, <1>7
<1>9. RefsOpen(new)
  BY <1>1, <1>2, <1>4, <1>8 DEF RefsOpen
<1>10. Sound(S, tables, new)
  BY <1>9 DEF Sound
<1>11. \A i, j \in DOMAIN w : w[i] = w[j] => i = j
  <2> SUFFICES ASSUME NEW i \in 1 .. n + 1, NEW j \in 1 .. n + 1, w[i] = w[j] PROVE i = j
    BY <1>5
  <2>1. CASE i # 1 /\ j # 1
    <3>1. \A a, b \in 1 .. n : l0[a] = l0[b] => a = b
      BY <1>1, <1>5 DEF RefsApart
    <3>2. l0[i - 1] = l0[j - 1] /\ i - 1 \in 1 .. n /\ j - 1 \in 1 .. n
      BY <1>6, <2>1
    <3>3. i - 1 = j - 1
      BY <3>1, <3>2
    <3> QED BY <3>3, <1>5
  <2>2. CASE i = 1 \/ j = 1
    BY <1>5, <1>6, <1>7, <2>2
  <2> QED BY <2>1, <2>2
<1>12. \A i \in DOMAIN w : \A l \in DOMAIN st.levels : \A j \in DOMAIN st.levels[l].ssts :
         w[i] # st.levels[l].ssts[j]
  <2>1. \A l \in DOMAIN st.levels : \A j \in DOMAIN st.levels[l].ssts : x # st.levels[l].ssts[j]
    BY <1>2 DEF RefsOpen
  <2>2. \A a \in 1 .. n : \A l \in DOMAIN st.levels : \A j \in DOMAIN st.levels[l].ssts :
          l0[a] # st.levels[l].ssts[j]
    <3>1. \A l \in DOMAIN st.levels : \A y \in ToSet(st.levels[l].ssts) : y \notin ToSet(l0)
      BY <1>1, RefSets
    <3>2. \A a \in 1 .. n : l0[a] \in ToSet(l0)
      BY <1>5 DEF ToSet
    <3>3. \A l \in DOMAIN st.levels : \A j \in DOMAIN st.levels[l].ssts :
            st.levels[l].ssts[j] \in ToSet(st.levels[l].ssts)
      BY DEF ToSet
    <3> QED BY <3>1, <3>2, <3>3
  <2>3. \A i \in 1 .. n + 1 : w[i] = x \/ \E a \in 1 .. n : w[i] = l0[a]
    BY <1>5, <1>6
  <2> QED BY <1>5, <2>1, <2>2, <2>3
<1>13. RefsApart(new)
  BY <1>1, <1>4, <1>11, <1>12 DEF RefsApart
<1>14. ToSet(l0) \subseteq ToSet(w)
  <2>1. \A i \in 1 .. n : i + 1 \in DOMAIN w
    BY <1>5
  <2>2. ASSUME NEW y \in ToSet(l0) PROVE y \in ToSet(w)
    <3>1. PICK i \in 1 .. n : y = l0[i]
      BY <1>5 DEF ToSet
    <3>2. i + 1 \in DOMAIN w /\ y = w[i + 1]
      BY <1>5, <2>1, <3>1
    <3> QED BY <3>2 DEF ToSet
  <2> QED BY <2>2
<1> QED BY <1>1, <1>4, <1>10, <1>13, <1>14

(* A flush swaps its table in. *)
LEMMA LeveledSwaps ==
  ASSUME CompactionOptions.type = "Leveled", LeveledInv, EngineInv', StepKeeps,
         NEW t \in Threads, FlushSwap(t), UNCHANGED lsVars
  PROVE  LeveledInv'
<1>0. /\ EngineInv /\ EngineTypes /\ EngineTypes' /\ Sound(Ids, sst, state) /\ RefsApart(state)
      /\ state.sstables \subseteq files /\ TablesApart
  BY DEF LeveledInv, LeveledHolds, EngineInv
<1>1. PICK x : x = new_id[t]
  OBVIOUS
<1>2. /\ pc[t] = "flush_swap" /\ pc' = [pc EXCEPT ![t] = "flush_record"]
      /\ UNCHANGED <<sst, files, new_id, job>>
      /\ state' = [AddFlushed(state, x) EXCEPT !.imm_memtables = SubSeq(@, 1, Len(@) - 1),
                                               !.sstables = @ \cup {x}]
  BY <1>1 DEF FlushSwap, diskVars, lsVars
<1>3. /\ x = OldestImm /\ state.imm_memtables # <<>> /\ x \in Ids
      /\ x \in files /\ KeysOfTable(sst[x]) # {}
  BY <1>0, <1>1, <1>2 DEF EngineInv, MemtablesApart, LeveledInv, LeveledThread, EngineTypes
<1>4. x \in LiveMemtables /\ x \notin state.sstables
  <2>1. Len(state.imm_memtables) \in DOMAIN state.imm_memtables
    BY <1>0, <1>3 DEF EngineTypes
  <2>2. x \in LiveMemtables
    BY <1>3, <2>1 DEF OldestImm, LiveMemtables
  <2> QED BY <1>0, <2>2 DEF TablesApart, Apart, MemIds
<1>5. /\ state'.l0_sstables = <<x>> \o state.l0_sstables /\ state'.levels = state.levels
  <2>1. AddFlushed(state, x) = [state EXCEPT !.l0_sstables = <<x>> \o @]
    BY DEF AddFlushed, FlushToL0
  <2>2. AddFlushed(state, x) = [memtable |-> state.memtable, imm_memtables |-> state.imm_memtables,
           l0_sstables |-> <<x>> \o state.l0_sstables, levels |-> state.levels,
           sstables |-> state.sstables]
    BY <1>0, <2>1 DEF EngineTypes
  <2>3. PICK a : a = AddFlushed(state, x)
    OBVIOUS
  <2>4. \E v, w : state' = [a EXCEPT !.imm_memtables = v, !.sstables = w]
    BY <1>2, <2>3, Zenon
  <2>5. PICK v, w : state' = [a EXCEPT !.imm_memtables = v, !.sstables = w]
    BY <2>4
  <2> QED BY <2>2, <2>3, <2>5
<1>6. /\ state'.sstables = state.sstables \cup {x}
      /\ state' = [memtable |-> state'.memtable, imm_memtables |-> state'.imm_memtables,
                   l0_sstables |-> state'.l0_sstables, levels |-> state'.levels,
                   sstables |-> state'.sstables]
  BY <1>0, <1>1, FlushSwapState DEF SameRest
<1>7. state' \in StateOver(Ids)
  <2>1. state.l0_sstables \in Seq(Ids) /\ state.levels \in Seq(LevelOver(Ids))
    BY <1>0, SoundTables
  <2>2. state'.l0_sstables \in Seq(Ids)
    BY <1>3, <1>5, <2>1
  <2>3. /\ state'.memtable \in Ids /\ state'.imm_memtables \in Seq(Ids)
        /\ state'.sstables \in SUBSET Ids
    BY <1>0 DEF EngineTypes
  <2> QED BY <1>5, <1>6, <2>1, <2>2, <2>3 DEF StateOver
<1>8. /\ Sound(Ids, sst, state') /\ RefsApart(state')
      /\ ToSet(state.l0_sstables) \subseteq ToSet(state'.l0_sstables)
  BY <1>0, <1>3, <1>4, <1>5, <1>6, <1>7, SoundFlushed
<1>9. LeveledHolds'
  BY <1>0, <1>2, <1>3, <1>6, <1>8 DEF LeveledHolds
<1>10. OthersRest(t) /\ pc'[t] = "flush_record"
  BY <1>0, <1>2, JobMoves
<1>11. LeveledThread(t)'
  BY <1>10, LeveledNone DEF TableSteps
<1>12. ASSUME NEW u \in Threads, u # t PROVE LeveledThread(u)'
  <2>1. PICK N : N = {x}
    OBVIOUS
  <2>2. state'.sstables = state.sstables \cup N /\ N \subseteq LiveMemtables
    BY <1>4, <1>6, <2>1
  <2>3. pc'[u] = pc[u] /\ new_id'[u] = new_id[u] /\ job'[u] = job[u]
    BY <1>10, <1>12 DEF OthersRest
  <2> QED BY <1>2, <1>5, <1>8, <2>2, <2>3, LeveledThreadStays
<1> QED BY <1>9, <1>11, <1>12 DEF LeveledInv

(* A process with nothing in memory. *)
LEMMA LeveledEmpty ==
  CompactionOptions.type = "Leveled" /\ NothingInMemory /\ sst \in [Ids -> Table] => LeveledInv
<1> SUFFICES ASSUME CompactionOptions.type = "Leveled", NothingInMemory, sst \in [Ids -> Table]
             PROVE  LeveledInv
  OBVIOUS
<1>1. EngineInv /\ state = CreateState
  BY EmptyEngine DEF NothingInMemory
<1>2. PICK L : L = CompactionOptions.max_levels
  OBVIOUS
<1>3. PICK lv : lv = [l \in 1 .. L |-> [id |-> l, ssts |-> <<>>]]
  OBVIOUS
<1>4. L \in Nat /\ state = [memtable |-> 0, imm_memtables |-> <<>>, l0_sstables |-> <<>>,
                            levels |-> lv, sstables |-> {}]
  BY <1>1, <1>2, <1>3, OptionsAssumption DEF CreateState, CreateLevels
<1>5. \A l \in 1 .. L : lv[l] \in LevelOver(Ids) /\ lv[l].ssts = <<>>
  BY <1>3, <1>4 DEF LevelOver
<1>6. lv \in Seq(LevelOver(Ids)) /\ DOMAIN lv = 1 .. L
  <2>1. lv = [l \in 1 .. L |-> lv[l]]
    BY <1>3
  <2> QED BY ONLY <1>4, <1>5, <2>1, FunctionIsSeq
<1>7. 0 \in Ids /\ IsFiniteSet(Ids) /\ Ids \subseteq Nat
  BY BoundsAssumption, FS_Interval DEF Ids
<1>8. state \in StateOver(Ids)
  BY <1>4, <1>6, <1>7 DEF StateOver
<1>9. RefsOpen(state) /\ RefsApart(state)
  BY <1>4, <1>5, <1>6 DEF RefsOpen, RefsApart
<1>10. \A l \in DOMAIN state.levels : InOrder(sst, state.levels[l].ssts)
  BY <1>4, <1>5, <1>6 DEF InOrder
<1>11. LeveledHolds
  BY <1>4, <1>7, <1>8, <1>9, <1>10 DEF LeveledHolds, Sound
<1>12. \A t \in Threads : pc[t] = "idle"
  BY DEF NothingInMemory
<1>13. \A t \in Threads : LeveledThread(t)
  BY <1>12 DEF LeveledThread
<1> QED BY <1>1, <1>11, <1>13 DEF LeveledInv

(* A crash leaves nothing in memory. *)
CrashedEmpty == NothingInMemory' /\ UNCHANGED sst

(* So it does. *)
LEMMA CrashEmpties ==
  ASSUME EngineInv, Crash
  PROVE  CrashedEmpty
<1>1. /\ state' = CreateState
      /\ mem' = [i \in Ids |-> EmptyTable] /\ UNCHANGED <<next_sst_id, sst, latest, writes>>
      /\ pc' = [t \in Threads |-> "idle"]
      /\ new_id' = [t \in Threads |-> 0] /\ op' = [c \in Clients |-> NoOp]
      /\ job' = [t \in Threads |-> NoJob]
  BY DEF Crash, ghostVars
<1>2. next_sst_id \in Nat \ {0}
  <2>1. state.memtable \in MemIds /\ EngineTypes
    BY DEF MemIds, LiveMemtables, EngineInv
  <2>2. state.memtable \in Nat /\ state.memtable < next_sst_id /\ next_sst_id \in Nat
    BY <2>1, MemIdsType DEF EngineInv, MemtablesApart, EngineTypes
  <2> QED BY ONLY <2>2
<1>3. /\ writes \in Nat
      /\ sst' = [i \in Ids |-> sst'[i]] /\ latest' = [k \in Keys |-> latest'[k]]
  BY <1>1 DEF EngineInv, EngineTypes
<1> QED BY <1>1, <1>2, <1>3 DEF CrashedEmpty, NothingInMemory

(* Nor is there anything in memory at the start. *)
LEMMA InitEmpty ==
  ASSUME LsmInit
  PROVE  NothingInMemory /\ sst \in [Ids -> Table] /\ opens = 1
<1>1. /\ next_sst_id \in Nat \ {0} /\ writes \in Nat /\ state = CreateState
      /\ mem = [i \in Ids |-> EmptyTable] /\ sst = [i \in Ids |-> EmptyTable]
      /\ latest = [k \in Keys |-> Absent] /\ pc = [t \in Threads |-> "idle"]
      /\ new_id = [t \in Threads |-> 0] /\ op = [c \in Clients |-> NoOp]
      /\ job = [t \in Threads |-> NoJob] /\ opens = 1
  BY DEF LsmInit, Init
<1>2. /\ sst = [i \in Ids |-> sst[i]] /\ latest = [k \in Keys |-> latest[k]]
      /\ sst \in [Ids -> Table]
  BY <1>1, EmptyTableType
<1> QED BY <1>1, <1>2 DEF NothingInMemory

(* Every step of a process, and a crash. *)
LEMMA LeveledStep ==
  ASSUME CompactionOptions.type = "Leveled", LeveledInv, OneCompaction, [LsmNext]_vars,
         opens' = opens, opens = 1
  PROVE  LeveledInv'
<1>0. EngineInv /\ sst \in [Ids -> Table]
  BY DEF LeveledInv, LeveledHolds, Sound
<1>1. EngineInv' /\ (StepKeeps \/ Crash)
  BY <1>0, ProcessStep
<1>2. CASE Crash
  <2>4. CrashedEmpty
    BY <1>0, <1>2, CrashEmpties
  <2>5. (CompactionOptions.type = "Leveled" /\ NothingInMemory /\ sst \in [Ids -> Table])' => LeveledInv'
    BY LeveledEmpty, PTL
  <2> QED BY <1>0, <2>4, <2>5 DEF CrashedEmpty
<1>3. CASE ~Crash
  <2>1. PICK t \in Threads : Passes(t) \/ Builds(t) \/ Rearranges(t)
    BY <1>0, <1>3, StepOfTables
  <2>2. StepKeeps
    BY <1>1, <1>3
  <2>3. CASE Passes(t) \/ Builds(t)
    BY <1>1, <2>2, <2>3, LeveledPasses, LeveledBuilds
  <2>4. CASE Rearranges(t)
    <3>1. CASE BeginCompaction(t)
      BY <1>1, <2>2, <3>1, LeveledBegins
    <3>2. CASE Compact(t)
      BY <1>1, <2>2, <3>2, LeveledCompacts
    <3>3. CASE CompactApply(t)
      BY <1>1, <2>2, <3>3, LeveledApplies
    <3>4. CASE CompactRemove(t)
      BY <1>1, <2>2, <3>4, LeveledRemoves
    <3>5. CASE CompactFails(t)
      BY <1>1, <2>2, <3>5, LeveledFails
    <3>6. CASE FlushSwap(t) /\ UNCHANGED lsVars
      BY <1>1, <2>2, <3>6, LeveledSwaps
    <3> QED BY <2>4, <3>1, <3>2, <3>3, <3>4, <3>5, <3>6 DEF Rearranges
  <2> QED BY <2>1, <2>3, <2>4
<1> QED BY <1>2, <1>3

(* Tables with keys that are in order have key ranges in order. *)
LEMMA OrderSorts ==
  ASSUME NEW tables, NEW st, \A l \in DOMAIN st.levels : InOrder(tables, st.levels[l].ssts),
         RefsOpen(st), \A id \in st.sstables : KeysOfTable(tables[id]) # {}
  PROVE  SortedLevels(st, tables)
<1> SUFFICES ASSUME NEW l \in DOMAIN st.levels, NEW i \in 1 .. Len(st.levels[l].ssts) - 1
             PROVE  LastKey(tables[st.levels[l].ssts[i]]) < FirstKey(tables[st.levels[l].ssts[i + 1]])
  BY DEF SortedLevels
<1>1. PICK run : run = st.levels[l].ssts
  OBVIOUS
<1>2. InOrder(tables, run) /\ \A j \in DOMAIN run : run[j] \in st.sstables
  BY <1>1 DEF RefsOpen
<1>3. i \in DOMAIN run /\ i + 1 \in DOMAIN run /\ i < i + 1
  BY <1>1, <1>2 DEF InOrder
<1>4. PICK a, b : a = tables[run[i]] /\ b = tables[run[i + 1]]
  OBVIOUS
<1>5. \A x \in KeysOfTable(a), y \in KeysOfTable(b) : x < y
  BY <1>2, <1>3, <1>4 DEF InOrder
<1>6. KeysOfTable(a) # {} /\ KeysOfTable(b) # {}
  BY <1>2, <1>3, <1>4
<1>7. LastKey(a) \in KeysOfTable(a) /\ FirstKey(b) \in KeysOfTable(b)
  BY <1>6, EndKeys
<1> QED BY <1>1, <1>4, <1>5, <1>7

(* Until the directory is opened again. *)
LeveledLife == opens \in 1 .. MaxOpens /\ (opens = 1 => LeveledInv)

(* What it gives. *)
LEMMA LeveledGives ==
  ASSUME LeveledInv
  PROVE  LevelsSorted /\ InputsUnmoved /\ TablesPresent
<1>1. Sound(Ids, sst, state) /\ state.sstables \subseteq files
  BY DEF LeveledInv, LeveledHolds
<1>2. LevelsSorted
  BY <1>1, OrderSorts DEF LevelsSorted, Sound
<1>3. InputsUnmoved
  <2> SUFFICES ASSUME NEW t \in Threads, pc[t] = "apply" PROVE ApplyAssert(state, job[t].task)
    BY DEF InputsUnmoved
  <2>1. LeveledFits(Ids, sst, state, job[t].task)
    BY DEF LeveledInv, LeveledThread
  <2> QED BY <2>1, LeveledAsserts
<1>4. TablesPresent
  <2>1. Referenced(state) \subseteq state.sstables
    BY <1>1 DEF Sound, Referenced, RefsOpen, ToSet
  <2> QED BY <1>1, <2>1 DEF TablesPresent
<1> QED BY <1>2, <1>3, <1>4

(* The leveled strategy keeps the tables of every level in ascending order *)
(* and disjoint: what find_overlapping_ssts leaves out of a task lies      *)
(* below or above all of its inputs.  A task's inputs are where it found   *)
(* them when it is applied, and no table in use loses its file.            *)
THEOREM LeveledCompaction ==
  ASSUME CompactionOptions.type = "Leveled"
  PROVE  LsmSpec => [](opens = 1 => LevelsSorted /\ InputsUnmoved /\ TablesPresent)
<1>1. LsmInit => LeveledLife
  <2> SUFFICES ASSUME LsmInit PROVE LeveledLife
    OBVIOUS
  <2> QED BY InitEmpty, LeveledEmpty, FaultsAssumption DEF LeveledLife
<1>2. LeveledLife /\ OneCompaction /\ [LsmNext]_vars => LeveledLife'
  <2> SUFFICES ASSUME LeveledLife, OneCompaction, [LsmNext]_vars PROVE LeveledLife'
    OBVIOUS
  <2>1. /\ opens' \in 1 .. MaxOpens
        /\ opens' = opens \/ ((\E cut \in Cuts : Open(cut)) /\ opens' # 1)
    BY OpensCounts DEF LeveledLife
  <2>2. SUFFICES ASSUME opens' = 1 PROVE LeveledInv'
    BY <2>1 DEF LeveledLife
  <2> QED BY <2>1, <2>2, LeveledStep DEF LeveledLife
<1>3. LeveledLife => (opens = 1 => LevelsSorted /\ InputsUnmoved /\ TablesPresent)
  BY LeveledGives DEF LeveledLife
<1>4. LsmSpec => []OneCompaction
  BY CompactionsApart
<1> QED BY <1>1, <1>2, <1>3, <1>4, PTL DEF LsmSpec

-----------------------------------------------------------------------------
(* The order of the levels with the other strategies *)

(* The open tables hold keys, and the levels and the outputs are in order. *)
SortHolds ==
  /\ sst \in [Ids -> Table] /\ \A id \in state.sstables : KeysOfTable(sst[id]) # {}
  /\ \A l \in DOMAIN state.levels : InOrder(sst, state.levels[l].ssts)
  /\ RefsOpen(state)

SortInv ==
  /\ EngineInv /\ SortHolds
  /\ \A t \in Threads : pc[t] = "apply" => OutputSorted(Ids, sst, job[t].output)

(* The levels are in order while their tables stay as they are. *)
LEMMA OrderStays ==
  ASSUME NEW tables, NEW tables2, NEW run, InOrder(tables, run),
         \A i \in DOMAIN run : tables2[run[i]] = tables[run[i]]
  PROVE  InOrder(tables2, run)
BY DEF InOrder

(* So is all of it while the lists of tables stay. *)
LEMMA SortHoldsStays ==
  ASSUME SortInv, EngineInv', StepKeeps, ListsKept, sst' \in [Ids -> Table]
  PROVE  SortHolds'
<1>0. EngineTypes /\ TablesApart /\ SortHolds
  BY DEF SortInv, EngineInv
<1>1. PICK A : A = state.sstables
  OBVIOUS
<1>2. A \subseteq Ids /\ Apart(A)
  BY <1>0, <1>1 DEF EngineTypes, TablesApart
<1>3. \A id \in A : sst'[id] = sst[id]
  BY <1>2, ApartUnwritten
<1>4. RefsOpen(state')
  BY <1>0 DEF ListsKept, RefsOpen, SortHolds
<1>5. \A id \in state'.sstables : KeysOfTable(sst'[id]) # {}
  BY <1>0, <1>1, <1>3 DEF SortHolds, ListsKept
<1>6. ASSUME NEW l \in DOMAIN state'.levels PROVE InOrder(sst', state'.levels[l].ssts)
  <2>1. PICK run : run = state.levels[l].ssts
    OBVIOUS
  <2>2. /\ run = state'.levels[l].ssts /\ InOrder(sst, run)
        /\ \A i \in DOMAIN run : run[i] \in A
    BY <1>0, <1>1, <1>6, <2>1 DEF ListsKept, SortHolds, RefsOpen
  <2>3. InOrder(sst', run)
    BY <1>3, <2>2, OrderStays
  <2> QED BY <2>2, <2>3
<1> QED BY <1>4, <1>5, <1>6 DEF SortHolds

(* The output of a compaction stays. *)
LEMMA SortOutputStays ==
  ASSUME SortInv, StepKeeps, NEW u \in Threads, pc[u] = "apply", job'[u] = job[u]
  PROVE  OutputSorted(Ids, sst', job'[u].output)
<1>1. PICK O : O = ToSet(job[u].output)
  OBVIOUS
<1>2. O \subseteq Ids /\ Apart(O) /\ OutputSorted(Ids, sst, job[u].output)
  BY <1>1 DEF SortInv, EngineInv, JobTypes, TablesApart
<1>3. \A id \in O : sst'[id] = sst[id]
  BY <1>2, ApartUnwritten
<1> QED BY <1>1, <1>2, <1>3, OutputSame

(* A step that keeps the lists of tables. *)
LEMMA SortKept ==
  ASSUME SortInv, EngineInv', StepKeeps, ListsKept, sst' \in [Ids -> Table],
         NEW t \in Threads, OthersRest(t),
         pc'[t] = "apply" => \/ pc[t] = "apply" /\ job'[t] = job[t]
                             \/ OutputSorted(Ids, sst', job'[t].output)
  PROVE  SortInv'
<1>1. SortHolds'
  BY SortHoldsStays
<1>2. ASSUME NEW u \in Threads, pc'[u] = "apply" PROVE OutputSorted(Ids, sst', job'[u].output)
  <2>1. CASE u = t
    BY <1>2, <2>1, SortOutputStays
  <2>2. CASE u # t
    <3>1. pc[u] = "apply" /\ job'[u] = job[u]
      BY <1>2, <2>2 DEF OthersRest
    <3> QED BY <3>1, SortOutputStays
  <2> QED BY <2>1, <2>2
<1> QED BY <1>1, <1>2 DEF SortInv

(* A flushed table is in L0, or a tier of its own. *)
LEMMA SortSwaps ==
  ASSUME SortInv, EngineInv', StepKeeps, Types, LsmIInv, NEW t \in Threads, FlushSwap(t),
         UNCHANGED lsVars
  PROVE  SortInv'
<1>0. /\ EngineInv /\ EngineTypes /\ SortHolds /\ state \in StateOver(Ids)
  BY StateTypes DEF SortInv, EngineInv, Types
<1>1. PICK x : x = new_id[t]
  OBVIOUS
<1>2. /\ pc[t] = "flush_swap" /\ pc' = [pc EXCEPT ![t] = "flush_record"]
      /\ UNCHANGED <<sst, files, new_id, job>>
      /\ state' = [AddFlushed(state, x) EXCEPT !.imm_memtables = SubSeq(@, 1, Len(@) - 1),
                                               !.sstables = @ \cup {x}]
  BY <1>1 DEF FlushSwap, diskVars, lsVars
<1>3. x \in Ids /\ sst[x] \in Table /\ KeysOfTable(sst[x]) # {}
  <2>1. x \in Ids /\ sst[x] # EmptyTable
    BY <1>0, <1>1, <1>2 DEF EngineTypes, LsmIInv, ThreadHolds, NewHolds
  <2> QED BY <1>0, <2>1, NotEmptyKeys DEF SortHolds
<1>4. state'.sstables = state.sstables \cup {x}
  BY <1>0, <1>1, FlushSwapState
<1>5. PICK l0, lv : /\ l0 = state.l0_sstables /\ lv = state.levels
  OBVIOUS
<1>6. l0 \in Seq(Ids) /\ lv \in Seq(LevelOver(Ids))
  BY <1>0, <1>5 DEF StateOver
<1>7. \/ state'.l0_sstables = <<x>> \o l0 /\ state'.levels = lv
      \/ state'.l0_sstables = l0 /\ state'.levels = <<[id |-> x, ssts |-> <<x>>]>> \o lv
  <2>1. PICK a : a = AddFlushed(state, x)
    OBVIOUS
  <2>2. \E v, w : state' = [a EXCEPT !.imm_memtables = v, !.sstables = w]
    BY <1>2, <2>1, Zenon
  <2>3. PICK v, w : state' = [a EXCEPT !.imm_memtables = v, !.sstables = w]
    BY <2>2
  <2>4. PICK p, q : p = <<x>> \o l0 /\ q = <<[id |-> x, ssts |-> <<x>>]>> \o lv
    OBVIOUS
  <2>5. a = [state EXCEPT !.l0_sstables = p] \/ a = [state EXCEPT !.levels = q]
    BY <1>5, <2>1, <2>4 DEF AddFlushed
  <2>6. \/ a = [memtable |-> state.memtable, imm_memtables |-> state.imm_memtables,
                l0_sstables |-> p, levels |-> lv, sstables |-> state.sstables]
        \/ a = [memtable |-> state.memtable, imm_memtables |-> state.imm_memtables,
                l0_sstables |-> l0, levels |-> q, sstables |-> state.sstables]
    BY <1>0, <1>5, <2>5 DEF EngineTypes
  <2>7. (state'.l0_sstables = p /\ state'.levels = lv) \/ (state'.l0_sstables = l0 /\ state'.levels = q)
    BY <2>3, <2>6
  <2> QED BY <2>4, <2>7
<1>8. \A l \in DOMAIN state'.levels :
        (\E m \in DOMAIN lv : state'.levels[l].ssts = lv[m].ssts) \/ state'.levels[l].ssts = <<x>>
  <2>1. CASE state'.levels = lv
    BY <2>1
  <2>2. CASE state'.levels = <<[id |-> x, ssts |-> <<x>>]>> \o lv
    <3>1. PICK e : e = [id |-> x, ssts |-> <<x>>]
      OBVIOUS
    <3>2. PICK q : q = <<e>> \o lv
      OBVIOUS
    <3>3. \A l \in DOMAIN q : q[l] = e \/ \E m \in DOMAIN lv : q[l] = lv[m]
      BY <1>6, <3>2
    <3>4. e.ssts = <<x>> /\ state'.levels = q
      BY <2>2, <3>1, <3>2
    <3> QED BY <3>3, <3>4
  <2> QED BY <1>7, <2>1, <2>2
<1>9. InOrder(sst, <<x>>) /\ \A i \in DOMAIN <<x>> : <<x>>[i] = x
  BY <1>3 DEF InOrder
<1>10. \A l \in DOMAIN state'.levels : InOrder(sst', state'.levels[l].ssts)
  BY <1>0, <1>2, <1>5, <1>8, <1>9 DEF SortHolds
<1>11. RefsOpen(state')
  <2>1. /\ \A i \in DOMAIN l0 : l0[i] \in state.sstables
        /\ \A m \in DOMAIN lv : \A i \in DOMAIN lv[m].ssts : lv[m].ssts[i] \in state.sstables
    BY <1>0, <1>5 DEF SortHolds, RefsOpen
  <2>2. \A i \in DOMAIN state'.l0_sstables : state'.l0_sstables[i] \in state.sstables \cup {x}
    <3>1. PICK p : p = <<x>> \o l0
      OBVIOUS
    <3>2. \A i \in DOMAIN p : p[i] = x \/ \E j \in DOMAIN l0 : p[i] = l0[j]
      BY <1>6, <3>1
    <3> QED BY <1>7, <2>1, <3>1, <3>2
  <2>3. \A l \in DOMAIN state'.levels : \A i \in DOMAIN state'.levels[l].ssts :
          state'.levels[l].ssts[i] \in state.sstables \cup {x}
    BY <1>8, <1>9, <2>1
  <2> QED BY <1>4, <2>2, <2>3 DEF RefsOpen
<1>12. SortHolds'
  BY <1>0, <1>2, <1>3, <1>4, <1>10, <1>11 DEF SortHolds
<1>13. ASSUME NEW u \in Threads, pc'[u] = "apply" PROVE OutputSorted(Ids, sst', job'[u].output)
  <2>1. pc[u] = "apply" /\ job'[u] = job[u]
    BY <1>0, <1>2, <1>13 DEF EngineTypes
  <2> QED BY <2>1, SortOutputStays
<1> QED BY <1>12, <1>13 DEF SortInv

(* compact() writes sorted tables. *)
LEMMA SortCompacts ==
  ASSUME SortInv, EngineInv', StepKeeps, Types, LsmIInv, NEW t \in Threads, Compact(t)
  PROVE  SortInv'
<1>0. EngineInv /\ state \in StateOver(Ids) /\ sst \in [Ids -> Table]
  BY StateTypes DEF SortInv, Types
<1>1. PICK task : task = job[t].task
  OBVIOUS
<1>2. TaskFits(Ids, state, task)
  BY <1>1 DEF Compact, LsmIInv, ThreadHolds, JobHolds
<1>3. PICK m : m = Merged(state, sst, task)
  OBVIOUS
<1>4. /\ m \in Table /\ CompactOutput(state, sst, task) = Split(m, SstEntries)
      /\ CompactOutput(state, sst, task) \in Seq(Table)
  BY <1>0, <1>2, <1>3, OutputType
<1>5. PICK ids \in Seq(Ids) :
        /\ Written(sst', CompactOutput(state, sst, task), ids) /\ sst' \in [Ids -> Table]
        /\ OthersRest(t) /\ job'[t].output = ids /\ UNCHANGED state
  BY <1>0, <1>1, <1>4, CompactWrites
<1>6. OutputSorted(Ids, sst', ids)
  BY <1>4, <1>5, CutSorted
<1>7. ListsKept
  BY <1>5 DEF ListsKept
<1> QED BY <1>5, <1>6, <1>7, SortKept

(* The result of a compaction is swapped in: a level is the output, or a   *)
(* level there was.                                                        *)
LEMMA SortApplies ==
  ASSUME SortInv, EngineInv', StepKeeps, Types, LsmIInv, NEW t \in Threads, CompactApply(t)
  PROVE  SortInv'
<1>0. EngineInv /\ EngineTypes /\ JobTypes /\ SortHolds /\ IInv /\ StateHolds
  BY DEF SortInv, EngineInv, LsmIInv
<1>1. PICK task, output : task = job[t].task /\ output = job[t].output
  OBVIOUS
<1>2. PICK r : job' = [job EXCEPT ![t].remove = r]
  BY Zenon DEF CompactApply
<1>3. /\ pc[t] = "apply" /\ pc' = [pc EXCEPT ![t] = "compact_record"]
      /\ state' = Installed(state, sst, task, output) /\ UNCHANGED sst
  BY <1>1 DEF CompactApply, Installed, Added, diskVars
<1>4. /\ TaskFits(Ids, state, task) /\ OutputHolds(sst, state, task, output)
      /\ ToSet(output) \subseteq files \ {0} /\ \A id \in ToSet(output) : id \notin state.sstables
      /\ OutputSorted(Ids, sst, output) /\ output \in Seq(Ids)
  BY <1>1, <1>3 DEF LsmIInv, ThreadHolds, JobHolds, HeldApart, Held, SortInv, Types
<1>5. state \in StateOver(Ids) /\ sst \in [Ids -> Table] /\ Ids \subseteq Nat /\ RefsOpen(state)
  BY <1>0, StateTypes, StateOpen DEF Types
<1>6. Ready(Ids, sst, state, task, output)
  <2>1. \A i \in DOMAIN output : output[i] \in ToSet(output)
    BY DEF ToSet
  <2> QED BY <1>0, <1>4, <1>5, <2>1 DEF Ready, StateHolds
<1>7. PICK gone : gone = FilesToRemove(Added(state, output), task)
  OBVIOUS
<1>8. Exchanged(Ids, sst, state, state', output, gone)
  BY <1>3, <1>4, <1>5, <1>6, <1>7, FitsExchanges
<1>9. /\ state' \in StateOver(Ids) /\ RefsOpen(state') /\ LevelsFrom(state, state', output)
      /\ state'.sstables = (state.sstables \ gone) \cup ToSet(output)
  BY <1>8 DEF Exchanged, Equivalent
<1>10. ASSUME NEW l \in DOMAIN state'.levels PROVE InOrder(sst', state'.levels[l].ssts)
  <2>1. PICK run : run = state'.levels[l].ssts
    OBVIOUS
  <2>2. run \in Seq(Ids)
    <3>1. state'.levels \in Seq(LevelOver(Ids))
      BY <1>9 DEF StateOver
    <3>2. state'.levels[l] \in LevelOver(Ids)
      BY <1>10, <3>1
    <3> QED BY <2>1, <3>2 DEF LevelOver
  <2>3. CASE run = output
    BY <1>3, <1>4, <2>1, <2>3 DEF OutputSorted
  <2>4. ASSUME NEW m \in DOMAIN state.levels,
               \A i \in DOMAIN run : i \in DOMAIN state.levels[m].ssts /\ run[i] = state.levels[m].ssts[i]
        PROVE  InOrder(sst, run)
    <3>1. PICK old : old = state.levels[m].ssts
      OBVIOUS
    <3>2. InOrder(sst, old) /\ \A i \in DOMAIN run : i \in DOMAIN old /\ run[i] = old[i]
      BY <1>0, <2>4, <3>1 DEF SortHolds
    <3>3. Len(run) \in Nat /\ DOMAIN run = 1 .. Len(run)
      BY <2>2
    <3> QED BY ONLY <3>2, <3>3 DEF InOrder
  <2> QED BY <1>3, <1>9, <1>10, <2>1, <2>3, <2>4 DEF LevelsFrom
<1>11. \A id \in state'.sstables : KeysOfTable(sst'[id]) # {}
  BY <1>0, <1>3, <1>4, <1>9 DEF SortHolds, OutputSorted
<1>12. SortHolds'
  BY <1>3, <1>5, <1>9, <1>10, <1>11 DEF SortHolds
<1>13. PICK j : j = [task |-> job[t].task, output |-> job[t].output, remove |-> r]
  OBVIOUS
<1>14. job' = [job EXCEPT ![t] = j]
  <2>1. JobTypes
    BY <1>0
  <2>2. [job EXCEPT ![t].remove = r] = [job EXCEPT ![t] = j]
    BY ONLY <1>13, <2>1, t \in Threads, JobFieldSet
  <2> QED BY <1>2, <2>2
<1>15. OthersRest(t) /\ pc'[t] = "compact_record"
  <2>1. UNCHANGED new_id
    BY DEF CompactApply
  <2> QED BY <1>0, <1>3, <1>14, <2>1, JobMoves
<1>16. ASSUME NEW u \in Threads, pc'[u] = "apply" PROVE OutputSorted(Ids, sst', job'[u].output)
  <2>1. pc[u] = "apply" /\ job'[u] = job[u]
    BY <1>15, <1>16 DEF OthersRest
  <2> QED BY <2>1, SortOutputStays
<1> QED BY <1>12, <1>16 DEF SortInv

(* A process with nothing in memory. *)
LEMMA SortEmpty == NothingInMemory /\ sst \in [Ids -> Table] => SortInv
<1> SUFFICES ASSUME NothingInMemory, sst \in [Ids -> Table] PROVE SortInv
  OBVIOUS
<1>1. EngineInv /\ state = CreateState /\ \A t \in Threads : pc[t] = "idle"
  BY EmptyEngine DEF NothingInMemory
<1>2. /\ state.l0_sstables = <<>> /\ state.levels = CreateLevels /\ state.sstables = {}
  BY <1>1 DEF CreateState
<1>3. \A l \in DOMAIN state.levels : state.levels[l].ssts = <<>>
  <2>1. PICK type : type = CompactionOptions.type
    OBVIOUS
  <2>2. CASE type \in {"Leveled", "Simple"}
    BY <1>2, <2>1, <2>2 DEF CreateLevels
  <2>3. CASE type = "Tiered"
    BY <1>2, <2>1, <2>3 DEF CreateLevels
  <2>4. CASE type = "NoCompaction"
    BY <1>2, <2>1, <2>4 DEF CreateLevels
  <2> QED BY <2>1, <2>2, <2>3, <2>4, OptionsAssumption
<1>4. InOrder(sst, <<>>)
  BY DEF InOrder
<1>5. RefsOpen(state)
  BY <1>2, <1>3 DEF RefsOpen
<1> QED BY <1>1, <1>2, <1>3, <1>4, <1>5 DEF SortInv, SortHolds

(* Every step of a process, and a crash. *)
LEMMA SortStep ==
  ASSUME StrategyAssumed, FirstLife, SortInv, [LsmNext]_vars, opens' = opens, opens = 1
  PROVE  SortInv'
<1>0. EngineInv /\ sst \in [Ids -> Table]
  BY DEF SortInv, SortHolds
<1>1. EngineInv' /\ (StepKeeps \/ Crash)
  BY <1>0, ProcessStep
<1>2. CASE Crash
  <2>1. CrashedEmpty
    BY <1>0, <1>2, CrashEmpties
  <2>2. (NothingInMemory /\ sst \in [Ids -> Table])' => SortInv'
    BY SortEmpty, PTL
  <2> QED BY <1>0, <2>1, <2>2 DEF CrashedEmpty
<1>3. CASE ~Crash
  <2>1. PICK t \in Threads : Passes(t) \/ Builds(t) \/ Rearranges(t)
    BY <1>0, <1>3, StepOfTables
  <2>2. StepKeeps
    BY <1>1, <1>3
  <2>3. CASE Passes(t)
    <3>1. /\ OthersRest(t) /\ ListsKept /\ TakesNone(t) /\ UNCHANGED <<sst, files>>
      BY <2>3 DEF Passes
    <3>2. pc'[t] = "apply" => pc[t] = "apply" /\ job'[t] = job[t]
      BY <3>1 DEF TakesNone, TableSteps
    <3> QED BY <1>0, <1>1, <2>2, <3>1, <3>2, SortKept
  <2>4. CASE Builds(t)
    <3>1. OthersRest(t) /\ ListsKept /\ pc'[t] # "apply" /\ sst' \in [Ids -> Table]
      BY <1>0, <2>4 DEF Builds, TableSteps
    <3> QED BY <1>1, <2>2, <3>1, SortKept
  <2>5. ASSUME Rearranges(t) PROVE Types /\ LsmIInv
    <3>1. life # "down"
      BY <2>5 DEF Rearranges, BeginCompaction, Compact, CompactApply, CompactRemove, CompactFails,
                  MayFail, FlushSwap
    <3> QED BY <3>1 DEF FirstLife
  <2>6. CASE BeginCompaction(t) \/ CompactRemove(t)
    <3>1. PICK p : pc' = [pc EXCEPT ![t] = p] /\ p # "apply"
      BY <2>6 DEF BeginCompaction, CompactRemove
    <3>2. UNCHANGED <<state, sst, new_id>>
      BY <2>6 DEF BeginCompaction, CompactRemove, stateVars, diskVars
    <3>3. JobTypes
      BY <1>0 DEF EngineInv
    <3>4. PICK j : job' = [job EXCEPT ![t] = j]
      <4>1. CASE CompactRemove(t)
        BY <4>1 DEF CompactRemove
      <4>2. CASE BeginCompaction(t)
        <5>1. PICK x : job' = [job EXCEPT ![t].task = x]
          BY <4>2 DEF BeginCompaction
        <5> QED BY <3>3, <5>1, JobFieldSet
      <4> QED BY <2>6, <4>1, <4>2
    <3>5. OthersRest(t) /\ pc'[t] = p
      BY <1>0, <3>1, <3>2, <3>4, JobMoves
    <3>6. ListsKept
      BY <3>2 DEF ListsKept
    <3> QED BY <1>0, <1>1, <2>2, <3>1, <3>2, <3>5, <3>6, SortKept
  <2>7. CASE CompactFails(t)
    <3>1. Types /\ LsmIInv
      BY <2>5, <2>7 DEF Rearranges
    <3>2. TaskFits(Ids, state, job[t].task) /\ state \in StateOver(Ids)
      BY <2>7, <3>1, StateTypes DEF CompactFails, LsmIInv, ThreadHolds, JobHolds, Types
    <3>3. CompactOutput(state, sst, job[t].task) \in Seq(Table)
      BY <1>0, <3>2, OutputType
    <3>4. sst' \in [Ids -> Table] /\ ListsKept /\ OthersRest(t) /\ pc'[t] \notin TableSteps
      BY <1>0, <2>7, <3>3, CompactFailsWrites
    <3> QED BY <1>1, <2>2, <3>4, SortKept DEF TableSteps
  <2>8. CASE Compact(t)
    BY <1>1, <2>2, <2>5, <2>8, SortCompacts DEF Rearranges
  <2>9. CASE CompactApply(t)
    BY <1>1, <2>2, <2>5, <2>9, SortApplies DEF Rearranges
  <2>10. CASE FlushSwap(t) /\ UNCHANGED lsVars
    BY <1>1, <2>2, <2>5, <2>10, SortSwaps DEF Rearranges
  <2> QED BY <2>1, <2>3, <2>4, <2>6, <2>7, <2>8, <2>9, <2>10 DEF Rearranges
<1> QED BY <1>2, <1>3

(* Until the directory is opened again. *)
SortLife == opens = 1 => SortInv

(* Every step keeps them so. *)
LEMMA SortInvariant ==
  ASSUME StrategyAssumed
  PROVE  LsmSpec /\ []OneCompaction => []SortLife
<1>1. LsmInit => SortLife
  <2> SUFFICES ASSUME LsmInit PROVE SortInv
    BY DEF SortLife
  <2> QED BY InitEmpty, SortEmpty
<1>2. FirstLife /\ SortLife /\ [LsmNext]_vars => SortLife'
  <2> SUFFICES ASSUME FirstLife, SortLife, [LsmNext]_vars, opens' = 1 PROVE SortInv'
    BY DEF SortLife
  <2>1. opens' = opens \/ opens' # 1
    BY OpensCounts DEF FirstLife
  <2> QED BY <2>1, SortStep DEF SortLife
<1> QED BY <1>1, <1>2, FirstLifeInvariant, PTL DEF LsmSpec

(* The tables of every level are in ascending order and disjoint, as       *)
(* SstConcatIterator asserts, with force_full_compaction() and with the    *)
(* simple and the tiered strategy.                                         *)
THEOREM CompactionLevelsSorted ==
  ASSUME StrategyAssumed
  PROVE  LsmSpec /\ []OneCompaction => [](opens = 1 => LevelsSorted)
<1>1. SortLife => (opens = 1 => LevelsSorted)
  BY OrderSorts DEF SortLife, SortInv, SortHolds, LevelsSorted
<1> QED BY <1>1, SortInvariant, PTL

(* With a strategy in the background nothing is left to the callers. *)
THEOREM BackgroundLevelsSorted ==
  ASSUME StrategyAssumed \/ CompactionOptions.type = "Leveled",
         CompactionOptions.type # "NoCompaction"
  PROVE  LsmSpec => [](opens = 1 => LevelsSorted)
<1>1. CASE StrategyAssumed
  BY <1>1, CompactionLevelsSorted, CompactionsApart, PTL
<1>2. CASE CompactionOptions.type = "Leveled"
  <2>1. LsmSpec => [](opens = 1 => LevelsSorted /\ InputsUnmoved /\ TablesPresent)
    BY <1>2, LeveledCompaction
  <2> QED BY <2>1, PTL
<1> QED BY <1>1, <1>2
=============================================================================
