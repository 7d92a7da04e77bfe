--------------------------- MODULE WritePathProofs ---------------------------
(***************************************************************************)
(* Theorems about the write path, for any number of clients, keys, writes  *)
(* and ids, and for every compaction strategy.                             *)
(***************************************************************************)
EXTENDS WritePathKV, TablesProofs

(* Facts about the manifest used below. *)
LEMMA WidthType ==
  ASSUME NEW id
  PROVE  Width(NewMemtable(id)) \in Nat /\ Width(Flush(id)) \in Nat
BY DEF Width, NewMemtable, Flush

(* Appending a record keeps the shape of the open manifest. *)
LEMMA AddRecordType ==
  ASSUME NEW m, NEW r, Width(r) \in Nat,
         m = [open |-> m.open, file |-> m.file, pos |-> m.pos],
         m.open \in BOOLEAN, m.pos \in Nat
  PROVE  LET n == AddRecord(m, r)
         IN  /\ n = [open |-> n.open, file |-> n.file, pos |-> n.pos]
             /\ n.open \in BOOLEAN /\ n.pos \in Nat
<1>1. CASE ~m.open
  BY <1>1 DEF AddRecord
<1>2. CASE m.open
  <2>1. AddRecord(m, r) =
          [open |-> m.open, file |-> Overwrite(m.file, m.pos, r, Width(r)),
           pos |-> m.pos + Width(r)]
    BY <1>2 DEF AddRecord
  <2> QED BY <2>1
<1> QED BY <1>1, <1>2

(* The levels an empty database starts with. *)
LEMMA CreateLevelsType == CreateLevels \in Seq(Level)
<1>1. <<>> \in Seq(Ids)
  OBVIOUS
<1>2. CASE CompactionOptions.type \in {"Leveled", "Simple"}
  <2>1. CompactionOptions.max_levels \in Nat
    BY <1>2, OptionsAssumption
  <2>2. \A l \in 1 .. CompactionOptions.max_levels : [id |-> l, ssts |-> <<>>] \in Level
    BY <1>1, <2>1 DEF Level
  <2>3. CreateLevels =
          [l \in 1 .. CompactionOptions.max_levels |-> [id |-> l, ssts |-> <<>>]]
    BY <1>2 DEF CreateLevels
  <2> QED BY <2>1, <2>2, <2>3
<1>3. CASE CompactionOptions.type = "Tiered"
  BY <1>3 DEF CreateLevels
<1>4. CASE CompactionOptions.type = "NoCompaction"
  <2>1. [id |-> 1, ssts |-> <<>>] \in Level
    BY <1>1 DEF Level
  <2> QED BY <1>4, <2>1 DEF CreateLevels
<1> QED BY <1>2, <1>3, <1>4, OptionsAssumption

(* The state an empty database starts with. *)
LEMMA CreateStateType == CreateState \in LsmStorageState
<1>1. 0 \in Ids
  BY BoundsAssumption DEF Ids
<1>2. <<>> \in Seq(Ids)
  OBVIOUS
<1> QED BY <1>1, <1>2, CreateLevelsType DEF CreateState, LsmStorageState

(* A table without entries is a table. *)
LEMMA EmptyTableType == EmptyTable \in Table
BY DEF EmptyTable, Table, Absent

(* The database starts with variables of their types. *)
LEMMA InitTypeOK == Init => TypeOK
<1> SUFFICES ASSUME Init PROVE TypeOK
  OBVIOUS
<1>1. 0 \in Ids
  BY BoundsAssumption DEF Ids
<1>2. state \in LsmStorageState
  BY CreateStateType DEF Init
<1>3. mem \in [Ids -> Table] /\ sst \in [Ids -> Table]
  BY EmptyTableType DEF Init
<1>4. /\ manifest = [open |-> manifest.open, file |-> manifest.file, pos |-> manifest.pos]
      /\ manifest.open \in BOOLEAN /\ manifest.pos \in Nat
  <2>1. manifest = AddRecord(ManifestCreate, NewMemtable(0))
    BY DEF Init
  <2>2. /\ ManifestCreate = [open |-> ManifestCreate.open, file |-> ManifestCreate.file,
                             pos |-> ManifestCreate.pos]
        /\ ManifestCreate.open \in BOOLEAN /\ ManifestCreate.pos \in Nat
    BY DEF ManifestCreate
  <2> HIDE DEF Init
  <2> QED BY <2>1, <2>2, WidthType, AddRecordType
<1>5. /\ wal \in [Ids -> Seq(Frame)] /\ synced \in [Ids -> Nat]
      /\ files \in SUBSET Ids /\ wal_open \in SUBSET Ids
  BY <1>1 DEF Init
<1>6. /\ op \in [Clients -> Write]
      /\ new_id \in [Threads -> Ids]
  BY <1>1 DEF Init, NoOp, Absent, Write
<1>7. /\ latest \in [Keys -> Int] /\ durable \in [Keys -> Int]
  BY DEF Init, Absent
<1> QED BY <1>2, <1>3, <1>4, <1>5, <1>6, <1>7 DEF TypeOK, Init, Steps

(* Replaying frames gives an entry. *)
LEMMA ReplayedType ==
  ASSUME NEW fs \in Seq(Frame), NEW k
  PROVE  Replayed(fs, k) \in Int
<1> DEFINE at == {i \in DOMAIN fs : fs[i].key = k}
<1>1. CASE at = {}
  BY <1>1 DEF Replayed, Absent
<1>2. CASE at # {}
  <2>1. DOMAIN fs = 1 .. Len(fs) /\ Len(fs) \in Nat
    OBVIOUS
  <2> DEFINE back == {Len(fs) - i : i \in at}
  <2>2. back \in SUBSET Nat /\ back # {}
    BY <1>2, <2>1
  <2>3. PICK b \in back : \A d \in back : b <= d
    BY <2>2, LeastIndex
  <2>4. PICK i \in at : b = Len(fs) - i
    OBVIOUS
  <2>5. ASSUME NEW j \in at PROVE j <= i
    <3>1. Len(fs) - j \in back
      OBVIOUS
    <3>2. Len(fs) - i <= Len(fs) - j
      BY <2>3, <2>4, <3>1
    <3>3. i \in Int /\ j \in Int
      BY <2>1
    <3> QED BY <2>1, <3>2, <3>3
  <2>6. \E i2 \in at : \A j \in at : j <= i2
    BY <2>5
  <2>7. (CHOOSE x \in at : \A j \in at : j <= x) \in at
    BY <2>6
  <2>8. \A x \in 1 .. Len(fs) : fs[x] \in Frame
    OBVIOUS
  <2>9. \A x \in at : fs[x].ent \in Int
    BY <2>1, <2>8 DEF Frame
  <2> QED BY <1>2, <2>7, <2>9 DEF Replayed
<1> QED BY <1>1, <1>2

(* The newer of two entries is one of them. *)
LEMMA LaterOfType == ASSUME NEW a \in Int, NEW b \in Int PROVE LaterOf(a, b) \in Int
BY DEF LaterOf

(* Every step of a put() keeps the types. *)
LEMMA PutTypeOK ==
  ASSUME TypeOK, NEW c \in Clients,
         Put(c) \/ PutInsert(c) \/ PutCheck(c)
  PROVE  TypeOK'
<1>1. CASE Put(c)
  <2>1. PICK k \in KeysOf[c], sgn \in {1, -1} : PutLog(c, k, sgn)
    BY <1>1 DEF Put
  <2>2. k \in Keys /\ c \in Threads
    BY KeysOfAssumption DEF Threads
  <2>3. state.memtable \in Ids /\ writes + 1 \in Nat /\ sgn * (writes + 1) \in Int
    BY DEF TypeOK, LsmStorageState
  <2>4. op' \in [Clients -> Write]
    BY <2>1, <2>2, <2>3 DEF PutLog, TypeOK, Write
  <2>5. wal' \in [Ids -> Seq(Frame)]
    <3>1. [key |-> k, ent |-> sgn * (writes + 1)] \in Frame
      BY <2>2, <2>3 DEF Frame
    <3>2. wal[state.memtable] \in Seq(Frame)
      BY <2>3 DEF TypeOK
    <3>3. Append(wal[state.memtable], [key |-> k, ent |-> sgn * (writes + 1)])
            \in Seq(Frame)
      BY <3>1, <3>2
    <3> QED BY <2>1, <2>3, <3>3 DEF PutLog, TypeOK
  <2>6. pc' \in [Threads -> Steps]
    BY <2>1, <2>2 DEF PutLog, TypeOK, Steps
  <2>7. writes' \in Nat
    BY <2>1, <2>3 DEF PutLog
  <2> QED BY <2>1, <2>4, <2>5, <2>6, <2>7 DEF PutLog, TypeOK, stateVars
<1>2. CASE PutInsert(c)
  <2>1. c \in Threads /\ op[c] \in Write
    BY DEF TypeOK, Threads
  <2>2. mem' \in [Ids -> Table]
    BY <1>2, <2>1 DEF PutInsert, TypeOK, Table, Write
  <2>3. latest' \in [Keys -> Int]
    BY <1>2, <2>1 DEF PutInsert, TypeOK, Write
  <2>4. approx_size' \in Nat
    BY <1>2 DEF PutInsert, TypeOK
  <2>5. pc' \in [Threads -> Steps]
    BY <1>2, <2>1 DEF PutInsert, TypeOK, Steps
  <2> QED BY <1>2, <2>2, <2>3, <2>4, <2>5 DEF PutInsert, TypeOK, diskVars
<1>3. CASE PutCheck(c)
  <2>1. c \in Threads /\ 0 \in Ids
    BY BoundsAssumption DEF Threads, Ids
  <2>2. NoOp \in Write
    BY <2>1 DEF NoOp, Absent, Write
  <2>3. op' \in [Clients -> Write]
    BY <1>3, <2>2 DEF PutCheck, TypeOK
  <2>4. pc' \in [Threads -> Steps]
    BY <1>3, <2>1 DEF PutCheck, TypeOK, Steps
  <2> QED BY <1>3, <2>3, <2>4 DEF PutCheck, TypeOK, stateVars, diskVars, ghostVars
<1> QED BY <1>1, <1>2, <1>3

(* Every step of a freeze keeps the types. *)
LEMMA FreezeTypeOK ==
  ASSUME TypeOK, NEW c \in Clients, ForceFreeze(c) \/ FreezeStep(c)
  PROVE  TypeOK'
<1>0. c \in Threads /\ 0 \in Ids
  BY BoundsAssumption DEF Threads, Ids
<1>1. CASE ForceFreeze(c)
  <2>1. pc' \in [Threads -> Steps]
    BY <1>0, <1>1 DEF ForceFreeze, TypeOK, Steps
  <2> QED BY <1>1, <2>1 DEF ForceFreeze, TypeOK, stateVars, diskVars, ghostVars
<1>2. CASE FreezeBegin(c)
  <2>1. next_sst_id \in Ids /\ next_sst_id' \in Nat
    <3>1. next_sst_id \in Nat
      BY DEF TypeOK
    <3>2. next_sst_id <= MaxId /\ next_sst_id' = next_sst_id + 1
      BY <1>2 DEF FreezeBegin
    <3> QED BY <3>1, <3>2, BoundsAssumption DEF Ids
  <2>2. pc' \in [Threads -> Steps] /\ new_id' \in [Threads -> Ids]
        /\ state_lock' \in Threads \cup {NoThread}
    BY <1>0, <1>2, <2>1 DEF FreezeBegin, TypeOK, Steps
  <2>3. mem' \in [Ids -> Table]
    BY <1>2, <2>1, EmptyTableType DEF FreezeBegin, TypeOK
  <2>4. /\ wal' \in [Ids -> Seq(Frame)] /\ synced' \in [Ids -> Nat]
        /\ wal_open' \in SUBSET Ids
    <3>1. <<>> \in Seq(Frame)
      OBVIOUS
    <3>2. wal \in [Ids -> Seq(Frame)] /\ synced \in [Ids -> Nat] /\ wal_open \in SUBSET Ids
      BY DEF TypeOK
    <3>3. CASE EnableWal
      <4>1. /\ wal' = [wal EXCEPT ![next_sst_id] = <<>>]
            /\ synced' = [synced EXCEPT ![next_sst_id] = 0]
            /\ wal_open' = wal_open \cup {next_sst_id}
        BY <1>2, <3>3 DEF FreezeBegin
      <4>2. wal' \in [Ids -> Seq(Frame)]
        BY <3>1, <3>2, <4>1
      <4>3. synced' \in [Ids -> Nat] /\ wal_open' \in SUBSET Ids
        BY <2>1, <3>2, <4>1
      <4> QED BY <4>2, <4>3
    <3>4. CASE ~EnableWal
      <4>1. UNCHANGED <<wal, synced, wal_open>>
        BY <1>2, <3>4 DEF FreezeBegin
      <4> QED BY <3>2, <4>1
    <3> QED BY <3>3, <3>4
  <2> QED BY <1>2, <2>1, <2>2, <2>3, <2>4 DEF FreezeBegin, TypeOK, ghostVars
<1>3. CASE FreezeSwap(c)
  <2>1. new_id[c] \in Ids /\ state.memtable \in Ids /\ state.imm_memtables \in Seq(Ids)
    BY <1>0 DEF TypeOK, LsmStorageState
  <2>2. <<state.memtable>> \o state.imm_memtables \in Seq(Ids)
    BY <2>1
  <2>3. state' \in LsmStorageState
    BY <1>3, <2>1, <2>2 DEF FreezeSwap, TypeOK, LsmStorageState
  <2>4. pc' \in [Threads -> Steps]
    BY <1>0, <1>3 DEF FreezeSwap, TypeOK, Steps
  <2>5. approx_size' \in Nat
    BY <1>3 DEF FreezeSwap
  <2> QED BY <1>3, <2>3, <2>4, <2>5 DEF FreezeSwap, TypeOK, diskVars, ghostVars
<1>4. CASE FreezeRecord(c)
  <2>1. pc' \in [Threads -> Steps] /\ new_id' \in [Threads -> Ids]
        /\ state_lock' \in Threads \cup {NoThread}
    BY <1>0, <1>4 DEF FreezeRecord, TypeOK, Steps
  <2>2. op' \in [Clients -> Write]
    <3>1. NoOp \in Write
      BY <1>0 DEF NoOp, Absent, Write
    <3> QED BY <1>4, <3>1 DEF FreezeRecord, TypeOK
  <2>3. /\ manifest' = [open |-> manifest'.open, file |-> manifest'.file, pos |-> manifest'.pos]
        /\ manifest'.open \in BOOLEAN /\ manifest'.pos \in Nat
    <3>1. manifest' = AddRecord(manifest, NewMemtable(new_id[c]))
      BY <1>4 DEF FreezeRecord
    <3>2. Width(NewMemtable(new_id[c])) \in Nat
      BY WidthType
    <3>3. /\ manifest = [open |-> manifest.open, file |-> manifest.file, pos |-> manifest.pos]
          /\ manifest.open \in BOOLEAN /\ manifest.pos \in Nat
      BY DEF TypeOK
    <3> QED BY <3>1, <3>2, <3>3, AddRecordType
  <2> QED BY <1>4, <2>1, <2>2, <2>3 DEF FreezeRecord, TypeOK, stateVars, ghostVars
<1> QED BY <1>1, <1>2, <1>3, <1>4 DEF FreezeStep

(* Putting a flushed table into L0 or into a tier of its own keeps the     *)
(* type of the state.                                                      *)
LEMMA AddFlushedType ==
  ASSUME NEW st \in LsmStorageState, NEW id \in Ids
  PROVE  AddFlushed(st, id) \in LsmStorageState
<1>1. st.l0_sstables \in Seq(Ids) /\ st.levels \in Seq(Level) /\ id \in Nat
  BY BoundsAssumption DEF LsmStorageState, Ids
<1>2. CASE FlushToL0
  <2>1. <<id>> \o st.l0_sstables \in Seq(Ids)
    BY <1>1
  <2> QED BY <1>2, <2>1 DEF AddFlushed, LsmStorageState
<1>3. CASE ~FlushToL0
  <2>1. [id |-> id, ssts |-> <<id>>] \in Level
    BY <1>1 DEF Level
  <2>2. <<[id |-> id, ssts |-> <<id>>]>> \o st.levels \in Seq(Level)
    BY <1>1, <2>1
  <2> QED BY <1>3, <2>2 DEF AddFlushed, LsmStorageState
<1> QED BY <1>2, <1>3

(* The oldest immutable MemTable, where there is one. *)
LEMMA OldestImmType ==
  ASSUME TypeOK, state.imm_memtables # <<>>
  PROVE  /\ Len(state.imm_memtables) \in Nat \ {0}
         /\ DOMAIN state.imm_memtables = 1 .. Len(state.imm_memtables)
         /\ OldestImm \in Ids
BY SMTT(30) DEF TypeOK, LsmStorageState, OldestImm

(* Writing out the active MemTable's WAL leaves the types of what it counts. *)
LEMMA SyncTypes ==
  ASSUME TypeOK, SyncActive
  PROVE  synced' \in [Ids -> Nat] /\ durable' \in [Keys -> Int]
<1>1. state.memtable \in Ids /\ wal[state.memtable] \in Seq(Frame)
  BY DEF TypeOK, LsmStorageState
<1>2. synced' \in [Ids -> Nat]
  BY <1>1 DEF SyncActive, TypeOK
<1>3. durable' \in [Keys -> Int]
  <2>1. \A k \in Keys : durable[k] \in Int /\ Replayed(wal[state.memtable], k) \in Int
    BY <1>1, ReplayedType DEF TypeOK
  <2> QED BY <2>1, LaterOfType DEF SyncActive
<1> QED BY <1>2, <1>3

(* Every step of a flush, and sync(), keeps the types. *)
LEMMA FlushTypeOK ==
  ASSUME TypeOK, NEW t \in Threads,
         FlushStep(t) \/ TriggerFlush \/ (t \in Clients /\ (ForceFlush(t) \/ Sync(t)))
  PROVE  TypeOK'
<1>0. 0 \in Ids /\ FlushThread \in Threads
  BY BoundsAssumption DEF Threads, Ids
<1>1. CASE FlushBegin(t)
  <2>1. CASE state.imm_memtables = <<>>
    <3>1. pc' \in [Threads -> Steps]
      BY <1>1, <2>1 DEF FlushBegin, TypeOK, Steps
    <3> QED BY <1>1, <2>1, <3>1 DEF FlushBegin, TypeOK, stateVars, ghostVars
  <2>2. CASE state.imm_memtables # <<>>
    <3>1. OldestImm \in Ids
      BY <2>2, OldestImmType
    <3>2. pc' \in [Threads -> Steps] /\ new_id' \in [Threads -> Ids]
          /\ state_lock' \in Threads \cup {NoThread}
      BY <1>1, <2>2, <3>1 DEF FlushBegin, TypeOK, Steps
    <3>3. sst' \in [Ids -> Table] /\ files' \in SUBSET Ids
      <4>1. /\ sst' = [sst EXCEPT ![OldestImm] = mem[OldestImm]]
            /\ files' = files \cup {OldestImm}
        BY <1>1, <2>2 DEF FlushBegin
      <4>2. mem \in [Ids -> Table] /\ sst \in [Ids -> Table] /\ files \in SUBSET Ids
        BY DEF TypeOK
      <4> QED BY ONLY <3>1, <4>1, <4>2
    <3> QED BY <1>1, <3>2, <3>3 DEF FlushBegin, TypeOK, stateVars, ghostVars
  <2> QED BY <2>1, <2>2
<1>2. CASE FlushEmpty(t)
  <2>1. OldestImm \in Ids
    BY <1>2, OldestImmType DEF FlushEmpty
  <2>2. sst' \in [Ids -> Table] /\ files' \in SUBSET Ids
    BY <1>2, <2>1, EmptyTableType DEF FlushEmpty, TypeOK
  <2> QED BY <1>2, <2>2 DEF FlushEmpty, TypeOK, threadVars, ghostVars
<1>3. CASE FlushSwap(t)
  <2>1. new_id[t] \in Ids /\ state \in LsmStorageState
    BY DEF TypeOK
  <2>2. AddFlushed(state, new_id[t]) \in LsmStorageState
    BY <2>1, AddFlushedType
  <2>3. \A s \in Seq(Ids) : SubSeq(s, 1, Len(s) - 1) \in Seq(Ids)
    OBVIOUS
  <2>4. state' \in LsmStorageState
    <3> DEFINE st == AddFlushed(state, new_id[t])
    <3>1. st.imm_memtables \in Seq(Ids) /\ st.sstables \in SUBSET Ids
      BY <2>2 DEF LsmStorageState
    <3>2. SubSeq(st.imm_memtables, 1, Len(st.imm_memtables) - 1) \in Seq(Ids)
      BY <2>3, <3>1
    <3>3. st.sstables \cup {new_id[t]} \in SUBSET Ids
      BY <2>1, <3>1
    <3>4. state' = [st EXCEPT !.imm_memtables = SubSeq(@, 1, Len(@) - 1),
                              !.sstables = @ \cup {new_id[t]}]
      BY <1>3 DEF FlushSwap
    <3> HIDE DEF st
    <3> QED BY <2>2, <3>2, <3>3, <3>4 DEF LsmStorageState, st
  <2>5. pc' \in [Threads -> Steps]
    BY <1>3 DEF FlushSwap, TypeOK, Steps
  <2> QED BY <1>3, <2>4, <2>5 DEF FlushSwap, TypeOK, diskVars, ghostVars
<1>4. CASE FlushRecord(t)
  <2>1. pc' \in [Threads -> Steps] /\ new_id' \in [Threads -> Ids]
        /\ state_lock' \in Threads \cup {NoThread}
    BY <1>0, <1>4 DEF FlushRecord, TypeOK, Steps
  <2>2. /\ manifest' = [open |-> manifest'.open, file |-> manifest'.file, pos |-> manifest'.pos]
        /\ manifest'.open \in BOOLEAN /\ manifest'.pos \in Nat
    <3>1. manifest' = AddRecord(manifest, Flush(new_id[t]))
      BY <1>4 DEF FlushRecord
    <3>2. Width(Flush(new_id[t])) \in Nat
      BY WidthType
    <3>3. /\ manifest = [open |-> manifest.open, file |-> manifest.file, pos |-> manifest.pos]
          /\ manifest.open \in BOOLEAN /\ manifest.pos \in Nat
      BY DEF TypeOK
    <3> QED BY <3>1, <3>2, <3>3, AddRecordType
  <2>3. durable' \in [Keys -> Int]
    <3>1. \A k \in Keys : durable[k] \in Int /\ sst[new_id[t]][k] \in Int
      BY DEF TypeOK, Table
    <3> QED BY <1>4, <3>1, LaterOfType DEF FlushRecord
  <2> QED BY <1>4, <2>1, <2>2, <2>3 DEF FlushRecord, TypeOK, stateVars
<1>5. CASE TriggerFlush
  <2>1. pc' \in [Threads -> Steps]
    BY <1>0, <1>5 DEF TriggerFlush, TypeOK, Steps
  <2> QED BY <1>5, <2>1 DEF TriggerFlush, TypeOK, stateVars, diskVars, ghostVars
<1>6. CASE t \in Clients /\ ForceFlush(t)
  <2>1. pc' \in [Threads -> Steps]
    BY <1>6 DEF ForceFlush, TypeOK, Steps
  <2> QED BY <1>6, <2>1 DEF ForceFlush, TypeOK, stateVars, diskVars, ghostVars
<1>7. CASE t \in Clients /\ Sync(t)
  <2>1. synced' \in [Ids -> Nat] /\ durable' \in [Keys -> Int]
    BY <1>7, SyncTypes DEF Sync
  <2> QED BY <1>7, <2>1 DEF Sync, TypeOK, stateVars, threadVars
<1> QED BY <1>1, <1>2, <1>3, <1>4, <1>5, <1>6, <1>7 DEF FlushStep

(* Every step keeps the types. *)
LEMMA NextTypeOK == TypeOK /\ [Next]_wpVars => TypeOK'
<1> SUFFICES ASSUME TypeOK, [Next]_wpVars PROVE TypeOK'
  OBVIOUS
<1>1. ASSUME NEW c \in Clients, ClientStep(c) PROVE TypeOK'
  <2>1. c \in Threads
    BY DEF Threads
  <2> QED BY <1>1, <2>1, PutTypeOK, FreezeTypeOK, FlushTypeOK DEF ClientStep
<1>2. CASE FlushThreadStep
  <2>1. FlushThread \in Threads
    BY DEF Threads
  <2> QED BY <1>2, <2>1, FlushTypeOK DEF FlushThreadStep
<1>3. CASE UNCHANGED wpVars
  BY <1>3 DEF TypeOK, wpVars, stateVars, diskVars, threadVars, ghostVars
<1> QED BY <1>1, <1>2, <1>3 DEF Next

(* The variables of the write path always have their types. *)
THEOREM TypeCorrect == Spec => []TypeOK
<1>1. Init => TypeOK
  BY InitTypeOK
<1>2. TypeOK /\ [Next]_wpVars => TypeOK'
  BY NextTypeOK
<1> QED BY <1>1, <1>2, PTL DEF Spec

-----------------------------------------------------------------------------
(* The inductive invariant *)

(* What get() finds in the SSTables depends on the open ones only. *)
LEMMA SstEntrySame ==
  ASSUME NEW st, NEW f, NEW g, NEW k, \A id \in st.sstables : f[id] = g[id]
  PROVE  SstEntry(st, f, k) = SstEntry(st, g, k)
<1>1. \A id : Handle(st, f, id) = Handle(st, g, id)
  BY DEF Handle
<1>2. ASSUME NEW ids PROVE Handles(st, f, ids) = Handles(st, g, ids)
  BY <1>1 DEF Handles
<1>3. [i \in DOMAIN st.levels |-> Concat(Handles(st, f, st.levels[i].ssts))] =
        [i \in DOMAIN st.levels |-> Concat(Handles(st, g, st.levels[i].ssts))]
  BY <1>2
<1> QED BY <1>2, <1>3 DEF SstEntry

(* What get() finds depends on the tables in use only. *)
LEMMA EntryUnmoved ==
  ASSUME UNCHANGED state, NEW k,
         mem'[state.memtable][k] = mem[state.memtable][k],
         \A i \in DOMAIN state.imm_memtables :
           mem'[state.imm_memtables[i]] = mem[state.imm_memtables[i]],
         \A id \in state.sstables : sst'[id] = sst[id]
  PROVE  Entry(state, mem, k)' = Entry(state, mem, k)
<1>1. SstEntry(state, sst', k) = SstEntry(state, sst, k)
  BY SstEntrySame
<1>2. [i \in DOMAIN state.imm_memtables |-> mem'[state.imm_memtables[i]]] =
        [i \in DOMAIN state.imm_memtables |-> mem[state.imm_memtables[i]]]
  OBVIOUS
<1> QED BY <1>1, <1>2 DEF Entry

(* A step that leaves the tables alone keeps what is said of them. *)
LEMMA TablesUnmoved ==
  ASSUME IInv, UNCHANGED <<state, mem, sst, next_sst_id, latest>>
  PROVE  IdsApart' /\ TablesOpen' /\ EntryIsLatest'
<1>1. IdsApart'
  BY DEF IInv, IdsApart
<1>2. TablesOpen'
  BY DEF IInv, TablesOpen
<1>3. EntryIsLatest'
  BY EntryUnmoved DEF IInv, EntryIsLatest
<1> QED BY <1>1, <1>2, <1>3

(* A database that was just created satisfies the invariant. *)
LEMMA InitIInv == Init => IInv
<1> SUFFICES ASSUME Init PROVE IInv
  OBVIOUS
<1>1. /\ state.memtable = 0 /\ state.imm_memtables = <<>> /\ state.l0_sstables = <<>>
      /\ state.levels = CreateLevels /\ state.sstables = {}
  BY DEF Init, CreateState
<1>2. IdsApart
  BY <1>1 DEF Init, IdsApart
<1>3. \A l \in DOMAIN CreateLevels : CreateLevels[l].ssts = <<>>
  <2>1. CASE CompactionOptions.type \in {"Leveled", "Simple"}
    BY <2>1 DEF CreateLevels
  <2>2. CASE CompactionOptions.type = "Tiered"
    BY <2>2 DEF CreateLevels
  <2>3. CASE CompactionOptions.type = "NoCompaction"
    BY <2>3 DEF CreateLevels
  <2> QED BY <2>1, <2>2, <2>3, OptionsAssumption
<1>4. TablesOpen
  BY <1>1, <1>3 DEF TablesOpen
<1>5. PutHolds /\ LockHolds /\ FreezeHolds /\ FlushHolds
  <2>1. Clients \subseteq Threads
    BY DEF Threads
  <2> QED BY <2>1 DEF Init, PutHolds, LockHolds, LockedSteps, FreezeHolds, FlushHolds
<1>6. EntryIsLatest
  <2> SUFFICES ASSUME NEW k \in Keys PROVE Seen(Entry(state, mem, k)) = Seen(latest[k])
    BY DEF EntryIsLatest
  <2>1. mem[state.memtable][k] = Absent /\ latest[k] = Absent
    <3>1. 0 \in Ids
      BY BoundsAssumption DEF Ids
    <3> QED BY <1>1, <3>1 DEF Init, EmptyTable
  <2>2. FirstHit([i \in DOMAIN state.imm_memtables |-> mem[state.imm_memtables[i]]], k) = Absent
    BY <1>1, FirstHitNone
  <2>3. FirstHit(Handles(state, sst, state.l0_sstables), k) = Absent
    <3>1. DOMAIN Handles(state, sst, state.l0_sstables) = {}
      BY <1>1 DEF Handles
    <3> QED BY <3>1, FirstHitNone
  <2>4. ASSUME NEW l \in DOMAIN state.levels
        PROVE  Concat(Handles(state, sst, state.levels[l].ssts))[k] = Absent
    <3>1. DOMAIN Handles(state, sst, state.levels[l].ssts) = {}
      BY <1>1, <1>3 DEF Handles
    <3> QED BY <3>1 DEF Concat, LastHit
  <2>5. FirstHit([i \in DOMAIN state.levels |->
                    Concat(Handles(state, sst, state.levels[i].ssts))], k) = Absent
    BY <2>4, FirstHitNone
  <2> QED BY <2>1, <2>2, <2>3, <2>5 DEF Entry, SstEntry, OrElse
<1> QED BY <1>2, <1>4, <1>5, <1>6 DEF IInv

(* The steps of put() keep the invariant: logging names the active         *)
(* MemTable, and inserting changes no other one.                           *)
LEMMA PutIInv ==
  ASSUME TypeOK, IInv, NEW c \in Clients,
         Put(c) \/ PutInsert(c) \/ PutCheck(c)
  PROVE  IInv'
<1>0. c \in Threads
  BY DEF Threads
<1>1. CASE Put(c)
  <2>1. PICK k \in KeysOf[c], sgn \in {1, -1} : PutLog(c, k, sgn)
    BY <1>1 DEF Put
  <2>2. UNCHANGED <<state, mem, sst, next_sst_id, latest, state_lock, new_id>>
    BY <2>1 DEF PutLog, stateVars
  <2>3. pc' = [pc EXCEPT ![c] = "logged"]
    BY <2>1 DEF PutLog
  <2>4. op' = [op EXCEPT ![c] = [key |-> k, ent |-> sgn * (writes + 1),
                                 into |-> state.memtable]]
    BY <2>1 DEF PutLog
  <2>5. k \in Keys /\ sgn * (writes + 1) # Absent
    <3>1. k \in Keys
      BY KeysOfAssumption
    <3>2. writes \in Nat
      BY DEF TypeOK
    <3> QED BY <3>1, <3>2 DEF Absent
  <2>6. PutHolds'
    BY <2>2, <2>3, <2>4, <2>5 DEF IInv, PutHolds, TypeOK, Threads
  <2>7. LockHolds' /\ FreezeHolds' /\ FlushHolds'
    BY <1>0, <2>2, <2>3
       DEF IInv, LockHolds, LockedSteps, FreezeHolds, FlushHolds, OldestImm, TypeOK
  <2> QED BY <2>2, <2>6, <2>7, TablesUnmoved DEF IInv
<1>2. CASE PutInsert(c)
  <2> DEFINE id == state.memtable
             key == op[c].key
  <2>1. /\ pc[c] = "logged" /\ pc' = [pc EXCEPT ![c] = "inserted"]
        /\ mem' = [mem EXCEPT ![op[c].into][op[c].key] = op[c].ent]
        /\ latest' = [latest EXCEPT ![op[c].key] = op[c].ent]
        /\ UNCHANGED <<state, sst, next_sst_id, state_lock, new_id, op>>
    BY <1>2 DEF PutInsert, diskVars
  <2>2. op[c].into = id /\ key \in Keys /\ op[c].ent # Absent
    BY <2>1 DEF IInv, PutHolds
  <2>3. mem \in [Ids -> [Keys -> Int]] /\ id \in Ids /\ latest \in [Keys -> Int]
    BY DEF TypeOK, Table, LsmStorageState
  <2>4. mem' = [mem EXCEPT ![id] = [mem[id] EXCEPT ![key] = op[c].ent]]
    BY <2>1, <2>2, <2>3
  <2>5. \A i \in Ids : i # id => mem'[i] = mem[i]
    BY <2>3, <2>4
  <2>6. IdsApart' /\ TablesOpen'
    BY <2>1 DEF IInv, IdsApart, TablesOpen
  <2>7. PutHolds' /\ LockHolds'
    BY <1>0, <2>1 DEF IInv, PutHolds, LockHolds, LockedSteps, TypeOK, Threads
  <2>8. FreezeHolds'
    BY <1>0, <2>1, <2>5 DEF IInv, FreezeHolds, TypeOK
  <2>9. FlushHolds'
    <3>1. ASSUME NEW t \in Threads, pc'[t] = "flush_swap"
          PROVE  /\ state'.imm_memtables # <<>> /\ new_id'[t] = OldestImm'
                 /\ sst'[new_id'[t]] = mem'[new_id'[t]]
      <4>1. pc[t] = "flush_swap"
        BY <1>0, <2>1, <3>1 DEF TypeOK
      <4>2. /\ state.imm_memtables # <<>> /\ new_id[t] = OldestImm
            /\ sst[new_id[t]] = mem[new_id[t]]
        BY <4>1 DEF IInv, FlushHolds
      <4>3. OldestImm # id /\ OldestImm \in Ids
        BY <4>2, OldestImmType DEF IInv, IdsApart, OldestImm
      <4> QED BY <2>1, <2>5, <4>2, <4>3 DEF OldestImm
    <3> QED BY <3>1 DEF FlushHolds
  <2>10. ASSUME NEW k \in Keys PROVE Seen(Entry(state, mem, k)') = Seen(latest'[k])
    <3>1. CASE k = key
      <4>1. mem'[id][k] = op[c].ent
        BY <2>3, <2>4, <3>1
      <4>2. Entry(state, mem, k)' = op[c].ent
        BY <2>1, <2>2, <4>1 DEF Entry, OrElse
      <4> QED BY <2>1, <2>3, <3>1, <4>2
    <3>2. CASE k # key
      <4>1. mem'[id][k] = mem[id][k]
        BY <2>3, <2>4, <3>2
      <4>2. \A i \in DOMAIN state.imm_memtables :
              mem'[state.imm_memtables[i]] = mem[state.imm_memtables[i]]
        <5>1. \A i \in DOMAIN state.imm_memtables :
                state.imm_memtables[i] # id /\ state.imm_memtables[i] \in Ids
          BY DEF IInv, IdsApart, TypeOK, LsmStorageState
        <5> QED BY <2>5, <5>1
      <4>3. Entry(state, mem, k)' = Entry(state, mem, k)
        BY <2>1, <4>1, <4>2, EntryUnmoved
      <4>4. latest'[k] = latest[k]
        BY <2>1, <2>3, <3>2
      <4> QED BY <4>3, <4>4 DEF IInv, EntryIsLatest
    <3> QED BY <3>1, <3>2
  <2> QED BY <2>6, <2>7, <2>8, <2>9, <2>10 DEF IInv, EntryIsLatest
<1>3. CASE PutCheck(c)
  <2>1. UNCHANGED <<state, mem, sst, next_sst_id, latest, state_lock, new_id>>
    BY <1>3 DEF PutCheck, stateVars, diskVars, ghostVars
  <2>2. PICK p \in {"freeze", "idle"} : pc' = [pc EXCEPT ![c] = p]
    BY <1>3 DEF PutCheck
  <2>3. \A d \in Clients : d # c => op'[d] = op[d]
    BY <1>3 DEF PutCheck, TypeOK
  <2>4. PutHolds'
    BY <2>1, <2>2, <2>3 DEF IInv, PutHolds, TypeOK, Threads
  <2>5. LockHolds' /\ FreezeHolds' /\ FlushHolds'
    BY <1>0, <2>1, <2>2
       DEF IInv, LockHolds, LockedSteps, FreezeHolds, FlushHolds, OldestImm, TypeOK
  <2> QED BY <2>1, <2>4, <2>5, TablesUnmoved DEF IInv
<1> QED BY <1>1, <1>2, <1>3

(* The steps that start a freeze or a flush, and sync(), touch no table. *)
LEMMA CallIInv ==
  ASSUME TypeOK, IInv, NEW t \in Threads,
         \/ ForceFreeze(t) \/ ForceFlush(t) \/ Sync(t)
         \/ t = FlushThread /\ TriggerFlush
  PROVE  IInv'
<1>1. UNCHANGED <<state, mem, sst, next_sst_id, latest, state_lock, new_id, op>>
  BY DEF ForceFreeze, ForceFlush, Sync, TriggerFlush, stateVars, diskVars,
         threadVars, ghostVars
<1>2. PICK p \in {"freeze", "flush", pc[t]} : pc' = [pc EXCEPT ![t] = p]
  BY DEF ForceFreeze, ForceFlush, Sync, TriggerFlush, threadVars, TypeOK
<1>3. PutHolds'
  BY <1>1, <1>2 DEF IInv, PutHolds, TypeOK, Threads
<1>4. LockHolds' /\ FreezeHolds' /\ FlushHolds'
  BY <1>1, <1>2 DEF IInv, LockHolds, LockedSteps, FreezeHolds, FlushHolds, OldestImm, TypeOK
<1> QED BY <1>1, <1>3, <1>4, TablesUnmoved DEF IInv

(* The steps of a freeze keep the invariant: the new MemTable is empty, so *)
(* reading it before the one it replaces makes no difference.              *)
LEMMA FreezeIInv ==
  ASSUME TypeOK, IInv, NEW c \in Clients, FreezeStep(c)
  PROVE  IInv'
<1>0. c \in Threads
  BY DEF Threads
<1>1. CASE FreezeBegin(c)
  <2>1. /\ state_lock = NoThread /\ state_lock' = c /\ next_sst_id <= MaxId
        /\ new_id' = [new_id EXCEPT ![c] = next_sst_id]
        /\ next_sst_id' = next_sst_id + 1
        /\ mem' = [mem EXCEPT ![next_sst_id] = EmptyTable]
        /\ pc' = [pc EXCEPT ![c] = "freeze_swap"]
        /\ UNCHANGED <<state, sst, op, latest>>
    BY <1>1 DEF FreezeBegin, ghostVars
  <2>2. next_sst_id \in Nat /\ next_sst_id \in Ids
    <3>1. next_sst_id \in Nat
      BY DEF TypeOK
    <3> QED BY <2>1, <3>1, BoundsAssumption DEF Ids
  <2>3. /\ state.memtable # next_sst_id /\ next_sst_id \notin state.sstables
        /\ \A i \in DOMAIN state.imm_memtables : state.imm_memtables[i] # next_sst_id
    <3>1. ~(next_sst_id < next_sst_id)
      BY <2>2
    <3> QED BY <3>1 DEF IInv, IdsApart
  <2>4. IdsApart'
    <3>1. \A id \in Ids : id < next_sst_id => id < next_sst_id'
      BY <2>1, <2>2 DEF Ids
    <3>2. /\ state.memtable \in Ids /\ state.sstables \subseteq Ids
          /\ \A i \in DOMAIN state.imm_memtables : state.imm_memtables[i] \in Ids
      BY DEF TypeOK, LsmStorageState
    <3> QED BY <2>1, <3>1, <3>2 DEF IInv, IdsApart
  <2>5. TablesOpen'
    BY <2>1 DEF IInv, TablesOpen
  <2>6. PutHolds'
    BY <2>1 DEF IInv, PutHolds, TypeOK, Threads
  <2>7. \A t \in Threads : t # c => pc[t] \notin LockedSteps
    BY <2>1, ThreadsAssumption DEF IInv, LockHolds, LockedSteps, Threads
  <2>8. LockHolds' /\ FlushHolds'
    BY <1>0, <2>1, <2>7 DEF LockHolds, LockedSteps, FlushHolds, TypeOK
  <2>9. FreezeHolds'
    <3>1. mem'[next_sst_id] = EmptyTable /\ new_id'[c] = next_sst_id
      BY <1>0, <2>1, <2>2 DEF TypeOK
    <3>2. next_sst_id < next_sst_id'
      BY <2>1, <2>2
    <3>3. \A t \in Threads : pc'[t] = "freeze_swap" => t = c
      BY <1>0, <2>1, <2>7 DEF LockedSteps, TypeOK
    <3> QED BY <2>1, <2>3, <3>1, <3>2, <3>3 DEF FreezeHolds
  <2>10. EntryIsLatest'
    <3>1. \A id \in Ids : id # next_sst_id => mem'[id] = mem[id]
      BY <2>1 DEF TypeOK
    <3>2. /\ mem'[state.memtable] = mem[state.memtable]
          /\ \A i \in DOMAIN state.imm_memtables :
               mem'[state.imm_memtables[i]] = mem[state.imm_memtables[i]]
      BY <2>3, <3>1, SMTT(30) DEF TypeOK, LsmStorageState
    <3>3. \A k \in Keys : Entry(state, mem, k)' = Entry(state, mem, k)
      BY <2>1, <3>2, EntryUnmoved
    <3> QED BY <2>1, <3>3 DEF IInv, EntryIsLatest
  <2> QED BY <2>4, <2>5, <2>6, <2>8, <2>9, <2>10 DEF IInv
<1>2. CASE FreezeSwap(c)
  <2> DEFINE imm == state.imm_memtables
             id  == new_id[c]
  <2>1. /\ pc[c] = "freeze_swap" /\ NoSharedHolder
        /\ pc' = [pc EXCEPT ![c] = "freeze_record"]
        /\ state' = [state EXCEPT !.memtable = id,
                                  !.imm_memtables = <<state.memtable>> \o imm]
        /\ UNCHANGED <<mem, sst, next_sst_id, state_lock, op, new_id, latest>>
    BY <1>2 DEF FreezeSwap, diskVars, ghostVars
  <2>2. /\ id < next_sst_id /\ id # state.memtable /\ id \notin state.sstables
        /\ \A i \in DOMAIN imm : id # imm[i]
        /\ mem[id] = EmptyTable
    BY <1>0, <2>1 DEF IInv, FreezeHolds
  <2>3. imm \in Seq(Ids) /\ Len(imm) \in Nat /\ DOMAIN imm = 1 .. Len(imm)
    BY DEF TypeOK, LsmStorageState
  <2>4. /\ state'.memtable = id /\ state'.imm_memtables = <<state.memtable>> \o imm
        /\ state'.l0_sstables = state.l0_sstables /\ state'.levels = state.levels
        /\ state'.sstables = state.sstables
    BY <2>1 DEF TypeOK, LsmStorageState
  <2>5. /\ DOMAIN state'.imm_memtables = 1 .. Len(imm) + 1
        /\ state'.imm_memtables[1] = state.memtable
        /\ \A i \in 1 .. Len(imm) : state'.imm_memtables[i + 1] = imm[i]
    BY <2>3, <2>4
  <2>6. \A i \in 2 .. Len(imm) + 1 :
          i - 1 \in 1 .. Len(imm) /\ state'.imm_memtables[i] = imm[i - 1]
    <3>1. ASSUME NEW i \in 2 .. Len(imm) + 1
          PROVE  i - 1 \in 1 .. Len(imm) /\ state'.imm_memtables[i] = imm[i - 1]
      <4>1. i - 1 \in 1 .. Len(imm) /\ (i - 1) + 1 = i
        BY <2>3
      <4> QED BY <2>5, <4>1
    <3> QED BY <3>1
  <2>7. IdsApart'
    <3>1. /\ state'.memtable < next_sst_id' /\ state'.memtable \notin state'.sstables
          /\ \A x \in state'.sstables : x < next_sst_id'
      BY <2>1, <2>2, <2>4 DEF IInv, IdsApart
    <3>2. ASSUME NEW i \in DOMAIN state'.imm_memtables
          PROVE  /\ state'.imm_memtables[i] < next_sst_id'
                 /\ state'.imm_memtables[i] # state'.memtable
                 /\ state'.imm_memtables[i] \notin state'.sstables
      <4>1. CASE i = 1
        BY <2>1, <2>2, <2>4, <2>5, <4>1 DEF IInv, IdsApart
      <4>2. CASE i # 1
        <5>1. i - 1 \in DOMAIN imm /\ state'.imm_memtables[i] = imm[i - 1]
          BY <2>3, <2>5, <2>6, <4>2
        <5> QED BY <2>1, <2>2, <2>4, <5>1 DEF IInv, IdsApart
      <4> QED BY <4>1, <4>2
    <3>3. ASSUME NEW i \in DOMAIN state'.imm_memtables, NEW j \in DOMAIN state'.imm_memtables,
                 state'.imm_memtables[i] = state'.imm_memtables[j]
          PROVE  i = j
      <4>1. ASSUME NEW x \in DOMAIN state'.imm_memtables, x # 1
            PROVE  /\ x - 1 \in DOMAIN imm /\ state'.imm_memtables[x] = imm[x - 1]
                   /\ state'.imm_memtables[x] # state.memtable
        <5>1. x - 1 \in DOMAIN imm /\ state'.imm_memtables[x] = imm[x - 1]
          BY <2>3, <2>5, <2>6, <4>1
        <5> QED BY <5>1 DEF IInv, IdsApart
      <4>2. CASE i = 1 \/ j = 1
        BY <2>5, <3>3, <4>1, <4>2
      <4>3. CASE i # 1 /\ j # 1
        <5>1. imm[i - 1] = imm[j - 1] /\ i - 1 \in DOMAIN imm /\ j - 1 \in DOMAIN imm
          BY <3>3, <4>1, <4>3
        <5>2. i - 1 = j - 1
          BY <5>1 DEF IInv, IdsApart
        <5> QED BY <2>3, <2>5, <5>2
      <4> QED BY <4>2, <4>3
    <3> QED BY <3>1, <3>2, <3>3 DEF IdsApart
  <2>8. TablesOpen'
    BY <2>4 DEF IInv, TablesOpen
  <2>9. PutHolds'
    <3>1. \A d \in Clients : d \in Threads /\ pc[d] # "logged"
      BY <2>1 DEF NoSharedHolder, SharedHolder, Threads
    <3> QED BY <1>0, <2>1, <3>1 DEF PutHolds, TypeOK
  <2>10. \A t \in Threads : t # c => pc[t] \notin LockedSteps
    BY <1>0, <2>1 DEF IInv, LockHolds, LockedSteps
  <2>11. LockHolds' /\ FreezeHolds' /\ FlushHolds'
    BY <1>0, <2>1, <2>10 DEF IInv, LockHolds, LockedSteps, FreezeHolds, FlushHolds, TypeOK
  <2>12. ASSUME NEW k \in Keys PROVE Seen(Entry(state, mem, k)') = Seen(latest'[k])
    <3> DEFINE old == [i \in DOMAIN imm |-> mem[imm[i]]]
               new == [i \in DOMAIN state'.imm_memtables |-> mem[state'.imm_memtables[i]]]
    <3>1. FirstHit(new, k) = OrElse(new[1][k], FirstHit(old, k))
      <4>1. DOMAIN old = 1 .. Len(imm) /\ DOMAIN new = 1 .. Len(imm) + 1
        BY <2>3, <2>5
      <4>2. \A i \in 1 .. Len(imm) : i + 1 \in 1 .. Len(imm) + 1
        BY <2>3
      <4>3. \A i \in 1 .. Len(imm) : new[i + 1] = old[i]
        BY <2>3, <2>5, <4>1, <4>2
      <4> HIDE DEF old, new
      <4> QED BY <2>3, <4>1, <4>3, FirstHitCons
    <3>2. new[1] = mem[state.memtable]
      BY <2>3, <2>5
    <3>3. mem[id][k] = Absent
      BY <2>2 DEF EmptyTable
    <3>4. SstEntry(state', sst, k) = SstEntry(state, sst, k)
      BY <2>4 DEF SstEntry, Handles, Handle
    <3>5. Entry(state, mem, k)' = OrElse(FirstHit(new, k), SstEntry(state', sst, k))
      <4>1. mem' = mem /\ sst' = sst /\ state'.memtable = id
        BY <2>1, <2>4
      <4>2. Entry(state, mem, k)' =
              OrElse(mem[id][k], OrElse(FirstHit(new, k), SstEntry(state', sst, k)))
        BY <4>1 DEF Entry
      <4> QED BY <3>3, <4>2 DEF OrElse
    <3>6. Entry(state, mem, k) =
            OrElse(mem[state.memtable][k], OrElse(FirstHit(old, k), SstEntry(state, sst, k)))
      BY DEF Entry
    <3>7. Entry(state, mem, k)' = Entry(state, mem, k)
      <4> HIDE DEF old, new
      <4> QED BY <3>1, <3>2, <3>4, <3>5, <3>6 DEF OrElse
    <3> QED BY <2>1, <3>7 DEF IInv, EntryIsLatest
  <2> QED BY <2>7, <2>8, <2>9, <2>11, <2>12 DEF IInv, EntryIsLatest
<1>3. CASE FreezeRecord(c)
  <2>1. /\ pc[c] = "freeze_record" /\ state_lock' = NoThread
        /\ pc' = [pc EXCEPT ![c] = "idle"] /\ op' = [op EXCEPT ![c] = NoOp]
        /\ UNCHANGED <<state, mem, sst, next_sst_id, latest>>
    BY <1>3 DEF FreezeRecord, stateVars, ghostVars
  <2>2. \A t \in Threads : t # c => pc[t] \notin LockedSteps
    BY <1>0, <2>1 DEF IInv, LockHolds, LockedSteps
  <2>3. LockHolds' /\ FreezeHolds' /\ FlushHolds'
    BY <1>0, <2>1, <2>2 DEF LockHolds, LockedSteps, FreezeHolds, FlushHolds, TypeOK
  <2>4. PutHolds'
    BY <2>1 DEF IInv, PutHolds, TypeOK, Threads
  <2> QED BY <2>1, <2>3, <2>4, TablesUnmoved DEF IInv
<1> QED BY <1>1, <1>2, <1>3 DEF FreezeStep

(* The elements of a sequence with one more in front. *)
LEMMA ConsElements ==
  ASSUME NEW S, NEW x \in S, NEW s \in Seq(S), NEW i \in DOMAIN (<<x>> \o s)
  PROVE  \/ (<<x>> \o s)[i] = x
         \/ \E m \in DOMAIN s : (<<x>> \o s)[i] = s[m]
<1>1. DOMAIN (<<x>> \o s) = 1 .. Len(s) + 1 /\ Len(s) \in Nat /\ DOMAIN s = 1 .. Len(s)
  OBVIOUS
<1>2. CASE i = 1
  BY <1>2
<1>3. CASE i # 1
  <2>1. i - 1 \in DOMAIN s
    BY <1>1, <1>3
  <2>2. (<<x>> \o s)[i] = s[i - 1]
    BY <1>1, <1>3
  <2> QED BY <2>1, <2>2
<1> QED BY <1>2, <1>3

(* A flushed table, in L0 or as the newest tier, is read before the other  *)
(* SSTables and hides nothing of them but its own keys.                    *)
LEMMA FlushedFirst ==
  ASSUME NEW st \in LsmStorageState, NEW id \in Ids, NEW st2, NEW f \in [Ids -> Table],
         NEW k \in Keys,
         st2.sstables = st.sstables \cup {id},
         FlushToL0 => /\ st2.l0_sstables = <<id>> \o st.l0_sstables
                      /\ st2.levels = st.levels,
         ~FlushToL0 => /\ st.l0_sstables = <<>> /\ st2.l0_sstables = <<>>
                       /\ st2.levels = <<[id |-> id, ssts |-> <<id>>]>> \o st.levels,
         \A i \in DOMAIN st.l0_sstables : st.l0_sstables[i] \in st.sstables,
         \A l \in DOMAIN st.levels : \A i \in DOMAIN st.levels[l].ssts :
           st.levels[l].ssts[i] \in st.sstables
  PROVE  SstEntry(st2, f, k) = OrElse(f[id][k], SstEntry(st, f, k))
<1> DEFINE l0  == st.l0_sstables
           lev == st.levels
           h   == Handles(st, f, l0)
           h2  == Handles(st2, f, st2.l0_sstables)
           v   == [i \in DOMAIN lev |-> Concat(Handles(st, f, lev[i].ssts))]
           v2  == [i \in DOMAIN st2.levels |-> Concat(Handles(st2, f, st2.levels[i].ssts))]
<1>1. /\ Handle(st2, f, id) = f[id]
      /\ \A x \in st.sstables : Handle(st2, f, x) = Handle(st, f, x)
  BY DEF Handle
<1>2. /\ l0 \in Seq(Ids) /\ Len(l0) \in Nat /\ DOMAIN l0 = 1 .. Len(l0)
      /\ lev \in Seq(Level) /\ Len(lev) \in Nat /\ DOMAIN lev = 1 .. Len(lev)
  BY DEF LsmStorageState
<1>3. \A l \in DOMAIN lev : Handles(st2, f, lev[l].ssts) = Handles(st, f, lev[l].ssts)
  BY <1>1 DEF Handles
<1>4. SstEntry(st, f, k) = OrElse(FirstHit(h, k), FirstHit(v, k))
  BY DEF SstEntry
<1>5. SstEntry(st2, f, k) = OrElse(FirstHit(h2, k), FirstHit(v2, k))
  BY DEF SstEntry
<1>6. CASE FlushToL0
  <2>1. v2 = v
    BY <1>3, <1>6
  <2>2. /\ st2.l0_sstables = <<id>> \o l0 /\ DOMAIN st2.l0_sstables = 1 .. Len(l0) + 1
        /\ st2.l0_sstables[1] = id
        /\ \A i \in 1 .. Len(l0) : st2.l0_sstables[i + 1] = l0[i]
    BY <1>2, <1>6
  <2>3. DOMAIN h = 1 .. Len(l0) /\ DOMAIN h2 = 1 .. Len(l0) + 1
    BY <1>2, <2>2 DEF Handles
  <2>4. ASSUME NEW i \in 1 .. Len(l0) PROVE h2[i + 1] = h[i]
    <3>1. i + 1 \in DOMAIN st2.l0_sstables /\ i \in DOMAIN l0
      BY <1>2, <2>2
    <3>2. h2[i + 1] = Handle(st2, f, l0[i]) /\ h[i] = Handle(st, f, l0[i])
      BY <2>2, <3>1 DEF Handles
    <3> QED BY <1>1, <3>1, <3>2
  <2>5. h2[1] = f[id]
    <3>1. 1 \in DOMAIN st2.l0_sstables
      BY <1>2, <2>2
    <3> QED BY <1>1, <2>2, <3>1 DEF Handles
  <2>6. FirstHit(h2, k) = OrElse(f[id][k], FirstHit(h, k))
    <3> HIDE DEF h, h2
    <3>1. \A i \in 1 .. Len(l0) : h2[i + 1] = h[i]
      BY <2>4
    <3>2. FirstHit(h2, k) = OrElse(h2[1][k], FirstHit(h, k))
      <4>1. Len(l0) \in Nat
        BY <1>2
      <4> HIDE DEF l0
      <4> QED BY <2>3, <3>1, <4>1, FirstHitCons
    <3> QED BY <2>5, <3>2
  <2> HIDE DEF h, h2, v, v2
  <2> QED BY <1>4, <1>5, <2>1, <2>6 DEF OrElse
<1>7. CASE ~FlushToL0
  <2>1. FirstHit(h, k) = Absent /\ FirstHit(h2, k) = Absent
    <3>1. DOMAIN h = {} /\ DOMAIN h2 = {}
      BY <1>7 DEF Handles
    <3> HIDE DEF h, h2
    <3> QED BY <3>1, FirstHitNone
  <2>2. /\ DOMAIN st2.levels = 1 .. Len(lev) + 1
        /\ st2.levels[1] = [id |-> id, ssts |-> <<id>>]
        /\ \A i \in 1 .. Len(lev) : st2.levels[i + 1] = lev[i]
    <3>1. [id |-> id, ssts |-> <<id>>] \in Level
      BY BoundsAssumption DEF Level, Ids
    <3>2. st2.levels = <<[id |-> id, ssts |-> <<id>>]>> \o lev
      BY <1>7
    <3> QED BY <1>2, <3>1, <3>2
  <2>3. DOMAIN v = 1 .. Len(lev) /\ DOMAIN v2 = 1 .. Len(lev) + 1
    BY <1>2, <2>2
  <2>4. ASSUME NEW i \in 1 .. Len(lev) PROVE v2[i + 1] = v[i]
    <3>1. i + 1 \in DOMAIN st2.levels /\ i \in DOMAIN lev
      BY <1>2, <2>2
    <3>2. v2[i + 1] = Concat(Handles(st2, f, lev[i].ssts))
      BY <2>2, <3>1
    <3>3. v[i] = Concat(Handles(st, f, lev[i].ssts))
      BY <3>1
    <3> QED BY <1>3, <3>1, <3>2, <3>3
  <2>5. v2[1][k] = f[id][k]
    <3>1. v2[1] = Concat(Handles(st2, f, <<id>>))
      <4>1. 1 \in DOMAIN st2.levels
        BY <1>2, <2>2
      <4>2. st2.levels[1].ssts = <<id>>
        BY <2>2
      <4>3. v2[1] = Concat(Handles(st2, f, st2.levels[1].ssts))
        BY <4>1
      <4> QED BY <4>2, <4>3
    <3>2. DOMAIN Handles(st2, f, <<id>>) = {1} /\ Handles(st2, f, <<id>>)[1] = f[id]
      BY <1>1 DEF Handles
    <3>3. LastHit(Handles(st2, f, <<id>>), k) = f[id][k]
      BY <3>2, LastHitSingle
    <3> HIDE DEF v2
    <3> QED BY <3>1, <3>3 DEF Concat
  <2>6. FirstHit(v2, k) = OrElse(v2[1][k], FirstHit(v, k))
    <3> HIDE DEF v, v2
    <3>1. \A i \in 1 .. Len(lev) : v2[i + 1] = v[i]
      BY <2>4
    <3>2. Len(lev) \in Nat
      BY <1>2
    <3> HIDE DEF lev
    <3> QED BY <2>3, <3>1, <3>2, FirstHitCons
  <2> HIDE DEF h, h2, v, v2
  <2> QED BY <1>4, <1>5, <2>1, <2>5, <2>6 DEF OrElse
<1> QED BY <1>6, <1>7

(* The steps of a flush keep the invariant: the SSTable is built of the    *)
(* oldest immutable MemTable, whose place in the order of reads it takes.  *)
LEMMA FlushIInv ==
  ASSUME TypeOK, IInv, NEW t \in Threads, FlushStep(t)
  PROVE  IInv'
<1> DEFINE imm == state.imm_memtables
<1>0. imm \in Seq(Ids) /\ Len(imm) \in Nat /\ DOMAIN imm = 1 .. Len(imm)
  BY DEF TypeOK, LsmStorageState
<1>1. CASE FlushBegin(t) /\ imm = <<>>
  <2>1. /\ pc' = [pc EXCEPT ![t] = "idle"]
        /\ UNCHANGED <<state, mem, sst, next_sst_id, latest, state_lock, new_id, op>>
    BY <1>1 DEF FlushBegin, stateVars, ghostVars
  <2>2. PutHolds'
    BY <2>1 DEF IInv, PutHolds, TypeOK, Threads
  <2>3. LockHolds' /\ FreezeHolds' /\ FlushHolds'
    BY <2>1 DEF IInv, LockHolds, LockedSteps, FreezeHolds, FlushHolds, OldestImm, TypeOK
  <2> QED BY <2>1, <2>2, <2>3, TablesUnmoved DEF IInv
<1>2. CASE FlushBegin(t) /\ imm # <<>>
  <2>1. /\ state_lock = NoThread /\ state_lock' = t
        /\ sst' = [sst EXCEPT ![OldestImm] = mem[OldestImm]]
        /\ new_id' = [new_id EXCEPT ![t] = OldestImm]
        /\ pc' = [pc EXCEPT ![t] = "flush_swap"]
        /\ UNCHANGED <<state, mem, next_sst_id, op, latest>>
    BY <1>2 DEF FlushBegin, stateVars, ghostVars
  <2>2. OldestImm \in Ids /\ OldestImm \notin state.sstables
    <3>1. Len(imm) \in DOMAIN imm /\ OldestImm \in Ids
      BY <1>0, <1>2, OldestImmType
    <3> QED BY <3>1 DEF OldestImm, IInv, IdsApart
  <2>3. IdsApart' /\ TablesOpen'
    BY <2>1 DEF IInv, IdsApart, TablesOpen
  <2>4. PutHolds'
    BY <2>1 DEF IInv, PutHolds, TypeOK, Threads
  <2>5. \A u \in Threads : u # t => pc[u] \notin LockedSteps
    BY <2>1, ThreadsAssumption DEF IInv, LockHolds, LockedSteps, Threads
  <2>6. LockHolds' /\ FreezeHolds'
    BY <2>1, <2>5 DEF LockHolds, LockedSteps, FreezeHolds, TypeOK
  <2>7. FlushHolds'
    <3>1. \A u \in Threads : pc'[u] = "flush_swap" => u = t
      BY <2>1, <2>5 DEF LockedSteps, TypeOK
    <3>2. new_id'[t] = OldestImm /\ sst'[OldestImm] = mem[OldestImm]
      BY <2>1, <2>2 DEF TypeOK
    <3> QED BY <1>2, <2>1, <3>1, <3>2 DEF FlushHolds, OldestImm
  <2>8. EntryIsLatest'
    <3>1. \A id \in state.sstables : sst'[id] = sst[id]
      BY <2>1, <2>2 DEF TypeOK, LsmStorageState
    <3>2. \A k \in Keys : Entry(state, mem, k)' = Entry(state, mem, k)
      BY <2>1, <3>1, EntryUnmoved
    <3> QED BY <2>1, <3>2 DEF IInv, EntryIsLatest
  <2> QED BY <2>3, <2>4, <2>6, <2>7, <2>8 DEF IInv
<1>3. CASE FlushEmpty(t)
  <2>1. /\ imm # <<>> /\ mem[OldestImm] = EmptyTable /\ state_lock = NoThread
        /\ sst' = [sst EXCEPT ![OldestImm] = EmptyTable]
        /\ UNCHANGED <<state, mem, next_sst_id, op, latest, pc, new_id, state_lock>>
    BY <1>3 DEF FlushEmpty, threadVars, ghostVars
  <2>2. OldestImm \in Ids /\ OldestImm \notin state.sstables
    <3>1. Len(imm) \in DOMAIN imm /\ OldestImm \in Ids
      BY <1>0, <2>1, OldestImmType
    <3> QED BY <3>1 DEF OldestImm, IInv, IdsApart
  <2>3. IdsApart' /\ TablesOpen'
    BY <2>1 DEF IInv, IdsApart, TablesOpen
  <2>4. PutHolds' /\ LockHolds' /\ FreezeHolds'
    BY <2>1 DEF IInv, PutHolds, LockHolds, LockedSteps, FreezeHolds
  <2>5. FlushHolds'
    <3>1. \A u \in Threads : pc[u] # "flush_swap"
      BY <2>1, ThreadsAssumption DEF IInv, LockHolds, LockedSteps, Threads
    <3> QED BY <2>1, <3>1 DEF FlushHolds
  <2>6. EntryIsLatest'
    <3>1. \A id \in state.sstables : sst'[id] = sst[id]
      BY <2>1, <2>2 DEF TypeOK, LsmStorageState
    <3>2. \A k \in Keys : Entry(state, mem, k)' = Entry(state, mem, k)
      BY <2>1, <3>1, EntryUnmoved
    <3> QED BY <2>1, <3>2 DEF IInv, EntryIsLatest
  <2> QED BY <2>3, <2>4, <2>5, <2>6 DEF IInv
<1>4. CASE FlushSwap(t)
  <2> DEFINE id == new_id[t]
             n  == Len(imm) - 1
  <2>1. /\ pc[t] = "flush_swap" /\ pc' = [pc EXCEPT ![t] = "flush_record"]
        /\ state' = [AddFlushed(state, id) EXCEPT
                       !.imm_memtables = SubSeq(@, 1, Len(@) - 1),
                       !.sstables = @ \cup {id}]
        /\ UNCHANGED <<mem, sst, next_sst_id, state_lock, op, new_id, latest>>
    BY <1>4 DEF FlushSwap, diskVars, ghostVars
  <2>2. imm # <<>> /\ id = imm[n + 1] /\ sst[id] = mem[id]
    BY <1>0, <2>1 DEF IInv, FlushHolds, OldestImm
  <2>3. n \in Nat /\ n + 1 = Len(imm) /\ n + 1 \in DOMAIN imm /\ id \in Ids
    BY <1>0, <2>2
  <2>4. /\ state'.memtable = state.memtable /\ state'.imm_memtables = SubSeq(imm, 1, n)
        /\ state'.sstables = state.sstables \cup {id}
        /\ FlushToL0 => /\ state'.l0_sstables = <<id>> \o state.l0_sstables
                        /\ state'.levels = state.levels
        /\ ~FlushToL0 => /\ state'.l0_sstables = state.l0_sstables
                         /\ state'.levels = <<[id |-> id, ssts |-> <<id>>]>> \o state.levels
    BY <2>1 DEF AddFlushed, TypeOK, LsmStorageState
  <2>5. /\ DOMAIN state'.imm_memtables = 1 .. n
        /\ \A i \in 1 .. n : i \in DOMAIN imm /\ state'.imm_memtables[i] = imm[i]
    BY <1>0, <2>3, <2>4
  <2>6. IdsApart'
    <3>1. id < next_sst_id /\ id # state.memtable
      BY <2>2, <2>3 DEF IInv, IdsApart
    <3>2. \A i \in 1 .. n : imm[i] # id
      <4>1. ASSUME NEW i \in 1 .. n, imm[i] = id PROVE FALSE
        <5>1. i = n + 1
          BY <2>2, <2>3, <2>5, <4>1 DEF IInv, IdsApart
        <5> QED BY <2>3, <5>1
      <4> QED BY <4>1
    <3>3. \A i \in DOMAIN state'.imm_memtables :
            /\ state'.imm_memtables[i] < next_sst_id'
            /\ state'.imm_memtables[i] # state'.memtable
            /\ state'.imm_memtables[i] \notin state'.sstables
            /\ \A j \in DOMAIN state'.imm_memtables :
                 state'.imm_memtables[i] = state'.imm_memtables[j] => i = j
      BY <2>1, <2>4, <2>5, <3>2 DEF IInv, IdsApart
    <3>4. /\ state'.memtable < next_sst_id' /\ state'.memtable \notin state'.sstables
          /\ \A x \in state'.sstables : x < next_sst_id'
      BY <2>1, <2>4, <3>1 DEF IInv, IdsApart
    <3> QED BY <3>3, <3>4 DEF IdsApart
  <2>7. /\ state.l0_sstables \in Seq(Ids) /\ state.levels \in Seq(Level)
        /\ [id |-> id, ssts |-> <<id>>] \in Level
    BY <2>3, BoundsAssumption DEF TypeOK, LsmStorageState, Level, Ids
  <2>8. TablesOpen'
    <3>1. CASE FlushToL0
      <4>1. \A i \in DOMAIN state'.l0_sstables : state'.l0_sstables[i] \in state'.sstables
        <5>1. ASSUME NEW i \in DOMAIN state'.l0_sstables
              PROVE  \/ state'.l0_sstables[i] = id
                     \/ \E m \in DOMAIN state.l0_sstables :
                          state'.l0_sstables[i] = state.l0_sstables[m]
          <6>1. state'.l0_sstables = <<id>> \o state.l0_sstables
            BY <2>4, <3>1
          <6> HIDE DEF id
          <6> QED BY <2>3, <2>7, <6>1, ConsElements
        <5>2. \A m \in DOMAIN state.l0_sstables : state.l0_sstables[m] \in state.sstables
          BY DEF IInv, TablesOpen
        <5> HIDE DEF id
        <5> QED BY <2>4, <5>1, <5>2
      <4> QED BY <2>4, <3>1, <4>1 DEF IInv, TablesOpen
    <3>2. CASE ~FlushToL0
      <4> DEFINE tier == [id |-> id, ssts |-> <<id>>]
      <4>1. state'.levels = <<tier>> \o state.levels
        BY <2>4, <3>2
      <4>2. ASSUME NEW l \in DOMAIN state'.levels
            PROVE  state'.levels[l] = tier \/ \E m \in DOMAIN state.levels :
                                                state'.levels[l] = state.levels[m]
        <5>1. tier \in Level
          BY <2>7
        <5> HIDE DEF tier
        <5> QED BY <2>7, <4>1, <5>1, ConsElements
      <4>3. \A l \in DOMAIN state'.levels : \A i \in DOMAIN state'.levels[l].ssts :
              state'.levels[l].ssts[i] \in state'.sstables
        <5> SUFFICES ASSUME NEW l \in DOMAIN state'.levels,
                            NEW i \in DOMAIN state'.levels[l].ssts
                     PROVE  state'.levels[l].ssts[i] \in state'.sstables
          OBVIOUS
        <5>1. CASE state'.levels[l] = tier
          <6>1. state'.levels[l].ssts = <<id>>
            BY <5>1
          <6>2. i = 1 /\ state'.levels[l].ssts[i] = id
            BY <6>1
          <6> QED BY <2>4, <6>2
        <5>2. ASSUME NEW m \in DOMAIN state.levels, state'.levels[l] = state.levels[m]
              PROVE  state'.levels[l].ssts[i] \in state'.sstables
          <6>1. state.levels[m].ssts[i] \in state.sstables
            BY <5>2 DEF IInv, TablesOpen
          <6> QED BY <2>4, <5>2, <6>1
        <5> QED BY <4>2, <5>1, <5>2
      <4> QED BY <2>4, <3>2, <4>3 DEF IInv, TablesOpen
    <3> QED BY <3>1, <3>2
  <2>9. PutHolds'
    BY <2>1, <2>4 DEF IInv, PutHolds, TypeOK, Threads
  <2>10. \A u \in Threads : u # t => pc[u] \notin LockedSteps
    BY <2>1 DEF IInv, LockHolds, LockedSteps
  <2>11. LockHolds' /\ FreezeHolds' /\ FlushHolds'
    BY <2>1, <2>10 DEF IInv, LockHolds, LockedSteps, FreezeHolds, FlushHolds, TypeOK
  <2>12. ASSUME NEW k \in Keys PROVE Seen(Entry(state, mem, k)') = Seen(latest'[k])
    <3> DEFINE old == [i \in DOMAIN imm |-> mem[imm[i]]]
               new == [i \in DOMAIN state'.imm_memtables |-> mem[state'.imm_memtables[i]]]
    <3>1. FirstHit(old, k) = OrElse(FirstHit(new, k), mem[id][k])
      <4>1. DOMAIN old = 1 .. n + 1 /\ DOMAIN new = 1 .. n
        BY <1>0, <2>3, <2>5
      <4>2. \A i \in 1 .. n : old[i] = new[i]
        BY <2>5
      <4>3. old[n + 1] = mem[id]
        BY <2>2, <2>3
      <4>4. FirstHit(old, k) = OrElse(FirstHit(new, k), old[n + 1][k])
        <5> HIDE DEF old, new, n
        <5> QED BY <2>3, <4>1, <4>2, FirstHitSnoc
      <4> QED BY <4>3, <4>4
    <3>2. SstEntry(state', sst, k) = OrElse(mem[id][k], SstEntry(state, sst, k))
      <4>1. state \in LsmStorageState /\ sst \in [Ids -> Table]
        BY DEF TypeOK
      <4>2. /\ \A i \in DOMAIN state.l0_sstables : state.l0_sstables[i] \in state.sstables
            /\ \A l \in DOMAIN state.levels : \A i \in DOMAIN state.levels[l].ssts :
                 state.levels[l].ssts[i] \in state.sstables
            /\ ~FlushToL0 => state.l0_sstables = <<>>
        BY DEF IInv, TablesOpen
      <4>3. SstEntry(state', sst, k) = OrElse(sst[id][k], SstEntry(state, sst, k))
        <5> DEFINE st2 == state'
        <5>1. /\ st2.sstables = state.sstables \cup {id}
              /\ FlushToL0 => /\ st2.l0_sstables = <<id>> \o state.l0_sstables
                              /\ st2.levels = state.levels
              /\ ~FlushToL0 => /\ state.l0_sstables = <<>> /\ st2.l0_sstables = <<>>
                               /\ st2.levels = <<[id |-> id, ssts |-> <<id>>]>> \o state.levels
          BY <2>4, <4>2
        <5>2. SstEntry(st2, sst, k) = OrElse(sst[id][k], SstEntry(state, sst, k))
          <6> HIDE DEF id, st2
          <6> QED BY <2>3, <4>1, <4>2, <5>1, FlushedFirst, Zenon
        <5> QED BY <5>2
      <4> QED BY <2>2, <4>3
    <3>3. Entry(state, mem, k) =
            OrElse(mem[state.memtable][k], OrElse(FirstHit(old, k), SstEntry(state, sst, k)))
      BY DEF Entry
    <3>4. Entry(state, mem, k)' =
            OrElse(mem[state.memtable][k], OrElse(FirstHit(new, k), SstEntry(state', sst, k)))
      <4>1. mem' = mem /\ sst' = sst /\ state'.memtable = state.memtable
        BY <2>1, <2>4
      <4> QED BY <4>1 DEF Entry
    <3>5. Entry(state, mem, k)' = Entry(state, mem, k)
      <4> HIDE DEF old, new, id
      <4> QED BY <3>1, <3>2, <3>3, <3>4 DEF OrElse
    <3> QED BY <2>1, <3>5 DEF IInv, EntryIsLatest
  <2> QED BY <2>6, <2>8, <2>9, <2>11, <2>12 DEF IInv, EntryIsLatest
<1>5. CASE FlushRecord(t)
  <2>1. /\ pc[t] = "flush_record" /\ state_lock' = NoThread
        /\ pc' = [pc EXCEPT ![t] = "idle"]
        /\ UNCHANGED <<state, mem, sst, next_sst_id, latest, op>>
    BY <1>5 DEF FlushRecord, stateVars
  <2>2. \A u \in Threads : u # t => pc[u] \notin LockedSteps
    BY <2>1 DEF IInv, LockHolds, LockedSteps
  <2>3. LockHolds' /\ FreezeHolds' /\ FlushHolds'
    BY <2>1, <2>2 DEF LockHolds, LockedSteps, FreezeHolds, FlushHolds, TypeOK
  <2>4. PutHolds'
    BY <2>1 DEF IInv, PutHolds, TypeOK, Threads
  <2> QED BY <2>1, <2>3, <2>4, TablesUnmoved DEF IInv
<1> QED BY <1>1, <1>2, <1>3, <1>4, <1>5 DEF FlushStep

(* Every step keeps the invariant. *)
LEMMA NextIInv == TypeOK /\ IInv /\ [Next]_wpVars => IInv'
<1> SUFFICES ASSUME TypeOK, IInv, [Next]_wpVars PROVE IInv'
  OBVIOUS
<1>1. ASSUME NEW c \in Clients, ClientStep(c) PROVE IInv'
  <2>1. c \in Threads
    BY DEF Threads
  <2> QED BY <1>1, <2>1, PutIInv, CallIInv, FreezeIInv, FlushIInv DEF ClientStep
<1>2. CASE FlushThreadStep
  <2>1. FlushThread \in Threads
    BY DEF Threads
  <2> QED BY <1>2, <2>1, CallIInv, FlushIInv DEF FlushThreadStep
<1>3. CASE UNCHANGED wpVars
  <2>1. UNCHANGED <<state, mem, sst, next_sst_id, latest, pc, op, new_id, state_lock>>
    BY <1>3 DEF wpVars, stateVars, diskVars, threadVars, ghostVars
  <2>2. PutHolds' /\ LockHolds' /\ FreezeHolds' /\ FlushHolds'
    BY <2>1 DEF IInv, PutHolds, LockHolds, LockedSteps, FreezeHolds, FlushHolds, OldestImm
  <2> QED BY <2>1, <2>2, TablesUnmoved DEF IInv
<1> QED BY <1>1, <1>2, <1>3 DEF Next

(* The invariant holds throughout. *)
THEOREM Invariance == Spec => []IInv
<1>1. Init => TypeOK /\ IInv
  BY InitTypeOK, InitIInv
<1>2. (TypeOK /\ IInv) /\ [Next]_wpVars => (TypeOK /\ IInv)'
  BY NextTypeOK, NextIInv
<1> QED BY <1>1, <1>2, PTL DEF Spec

(* get() of every key answers with the value put last, at every moment of  *)
(* every interleaving of puts, freezes and flushes.                        *)
THEOREM ReadsLatestCorrect == Spec => []ReadsLatest
<1>1. IInv => ReadsLatest
  BY DEF IInv, EntryIsLatest, ReadsLatest, Get
<1> QED BY <1>1, Invariance, PTL

-----------------------------------------------------------------------------
(* Frozen MemTables, and the refinement of KVStore *)

(* No step changes an immutable MemTable. *)
LEMMA StepFrozen ==
  ASSUME TypeOK, IInv, [Next]_wpVars
  PROVE  \A i \in DOMAIN state.imm_memtables :
           mem'[state.imm_memtables[i]] = mem[state.imm_memtables[i]]
<1>1. /\ next_sst_id \in Nat
      /\ \A i \in DOMAIN state.imm_memtables :
           /\ state.imm_memtables[i] \in Ids /\ state.imm_memtables[i] # state.memtable
           /\ state.imm_memtables[i] < next_sst_id
  BY DEF TypeOK, LsmStorageState, IInv, IdsApart
<1>2. ASSUME NEW c \in Clients, PutInsert(c)
      PROVE  \A i \in DOMAIN state.imm_memtables :
               mem'[state.imm_memtables[i]] = mem[state.imm_memtables[i]]
  <2>1. op[c].into = state.memtable
    BY <1>2 DEF IInv, PutHolds, PutInsert
  <2>2. mem' = [mem EXCEPT ![op[c].into][op[c].key] = op[c].ent]
    BY <1>2 DEF PutInsert
  <2> QED BY <1>1, <2>1, <2>2 DEF TypeOK
<1>3. ASSUME NEW c \in Clients, FreezeBegin(c)
      PROVE  \A i \in DOMAIN state.imm_memtables :
               mem'[state.imm_memtables[i]] = mem[state.imm_memtables[i]]
  <2>1. mem' = [mem EXCEPT ![next_sst_id] = EmptyTable]
    BY <1>3 DEF FreezeBegin
  <2>2. \A i \in DOMAIN state.imm_memtables : state.imm_memtables[i] # next_sst_id
    BY <1>1
  <2> QED BY <1>1, <2>1, <2>2 DEF TypeOK
<1>4. ASSUME NEW c \in Clients, ClientStep(c), ~PutInsert(c), ~FreezeBegin(c)
      PROVE  mem' = mem
  BY <1>4 DEF ClientStep, Put, PutLog, PutCheck, ForceFreeze, FreezeStep, FreezeSwap,
              FreezeRecord, ForceFlush, FlushStep, FlushBegin, FlushEmpty, FlushSwap,
              FlushRecord, Sync, stateVars
<1>5. CASE FlushThreadStep
  BY <1>5 DEF FlushThreadStep, TriggerFlush, FlushStep, FlushBegin, FlushEmpty,
              FlushSwap, FlushRecord, stateVars
<1>6. CASE UNCHANGED wpVars
  BY <1>6 DEF wpVars, stateVars
<1> QED BY <1>2, <1>3, <1>4, <1>5, <1>6 DEF Next

(* MemTable::put never reaches a frozen MemTable. *)
THEOREM FrozenUnchangedCorrect == Spec => FrozenUnchanged
<1>1. TypeOK /\ IInv /\ [Next]_wpVars =>
        [\A i \in DOMAIN state.imm_memtables :
           mem'[state.imm_memtables[i]] = mem[state.imm_memtables[i]]]_wpVars
  BY StepFrozen
<1> QED BY <1>1, TypeCorrect, Invariance, PTL DEF Spec, FrozenUnchanged

(* Clients that are not in a put() have no write under way. *)
LEMMA StepNoStray ==
  ASSUME TypeOK, NoStrayWrite, [Next]_wpVars
  PROVE  NoStrayWrite'
<1>0. \A c \in Clients : c \in Threads /\ c # FlushThread
  BY ThreadsAssumption DEF Threads
<1>1. ASSUME NEW c \in Clients, ClientStep(c) PROVE NoStrayWrite'
  <2>1. ASSUME NEW d \in Clients, d # c PROVE pc'[d] = pc[d] /\ op'[d] = op[d]
    BY <1>0, <1>1, <2>1
       DEF ClientStep, Put, PutLog, PutInsert, PutCheck, ForceFreeze, FreezeStep,
           FreezeBegin, FreezeSwap, FreezeRecord, ForceFlush, FlushStep, FlushBegin,
           FlushEmpty, FlushSwap, FlushRecord, Sync, threadVars, TypeOK
  <2>2. pc'[c] \in {"idle", "flush", "flush_swap", "flush_record"} => op'[c] = NoOp
    <3>1. CASE Put(c) \/ PutInsert(c) \/ PutCheck(c)
      BY <1>0, <3>1 DEF Put, PutLog, PutInsert, PutCheck, TypeOK
    <3>2. CASE ForceFreeze(c) \/ FreezeStep(c)
      BY <1>0, <3>2 DEF ForceFreeze, FreezeStep, FreezeBegin, FreezeSwap, FreezeRecord, TypeOK
    <3>3. CASE ForceFlush(c) \/ FlushStep(c) \/ Sync(c)
      BY <1>0, <3>3 DEF ForceFlush, FlushStep, FlushBegin, FlushEmpty, FlushSwap,
                        FlushRecord, Sync, threadVars, NoStrayWrite, TypeOK
    <3> QED BY <1>1, <3>1, <3>2, <3>3 DEF ClientStep
  <2> QED BY <2>1, <2>2 DEF NoStrayWrite
<1>2. CASE FlushThreadStep
  <2>1. \A d \in Clients : pc'[d] = pc[d] /\ op'[d] = op[d]
    BY <1>0, <1>2 DEF FlushThreadStep, TriggerFlush, FlushStep, FlushBegin, FlushEmpty,
                      FlushSwap, FlushRecord, threadVars, TypeOK
  <2> QED BY <2>1 DEF NoStrayWrite
<1>3. CASE UNCHANGED wpVars
  BY <1>3 DEF wpVars, threadVars, NoStrayWrite
<1> QED BY <1>1, <1>2, <1>3 DEF Next

(* The map is what the history of insertions says. *)
LEMMA StoreIsLatest == IInv => \A k \in Keys : Get(k) = Seen(latest[k])
BY DEF IInv, EntryIsLatest, Get

(* A step that inserts nothing and moves no client is invisible. *)
LEMMA Stutter ==
  ASSUME IInv, IInv', latest' = latest, \A c \in Clients : CallOf(c)' = CallOf(c)
  PROVE  UNCHANGED <<[k \in Keys |-> Get(k)], [c \in Clients |-> CallOf(c)]>>
<1>1. \A k \in Keys : Get(k)' = Get(k)
  BY DEF IInv, EntryIsLatest, Get
<1> QED BY <1>1

(* A step of put() is the call, the effect or the return of a write; the   *)
(* end of a freeze is the return of the write that asked for it.           *)
LEMMA WriteRefines ==
  ASSUME TypeOK, IInv, NoStrayWrite, IInv', NEW c \in Clients,
         Put(c) \/ PutInsert(c) \/ PutCheck(c) \/ FreezeRecord(c)
  PROVE  KV!Next \/ UNCHANGED <<[k \in Keys |-> Get(k)], [d \in Clients |-> CallOf(d)]>>
<1> DEFINE store == [k \in Keys |-> Get(k)]
           call  == [d \in Clients |-> CallOf(d)]
<1>0. c \in Threads
  BY DEF Threads
<1>1. \A k \in Keys : Get(k) = Seen(latest[k]) /\ Get(k)' = Seen(latest'[k])
  BY DEF IInv, EntryIsLatest, Get
<1>2. CASE Put(c)
  <2>1. PICK k \in KeysOf[c], sgn \in {1, -1} : PutLog(c, k, sgn)
    BY <1>2 DEF Put
  <2>2. /\ pc[c] = "idle" /\ pc' = [pc EXCEPT ![c] = "logged"] /\ latest' = latest
        /\ op' = [op EXCEPT ![c] = [key |-> k, ent |-> sgn * (writes + 1),
                                    into |-> state.memtable]]
    BY <2>1 DEF PutLog
  <2>3. k \in Keys /\ k # -1 /\ sgn * (writes + 1) \in Int
    BY KeysOfAssumption, KeysAssumption DEF TypeOK
  <2>4. CallOf(c) = [key |-> -1, ent |-> 0, done |-> TRUE]
    BY <2>2 DEF CallOf, NoStrayWrite
  <2>5. CallOf(c)' = [key |-> k, ent |-> sgn * (writes + 1), done |-> FALSE]
    <3>1. op'[c] = [key |-> k, ent |-> sgn * (writes + 1), into |-> state.memtable]
      BY <2>2 DEF TypeOK
    <3>2. op'[c] # NoOp
      BY <2>3, <3>1 DEF NoOp
    <3>3. pc'[c] = "logged"
      BY <1>0, <2>2 DEF TypeOK
    <3>4. (pc'[c] # "logged") = FALSE
      BY <3>3
    <3>5. op'[c].key = k /\ op'[c].ent = sgn * (writes + 1)
      BY <3>1
    <3>6. CallOf(c)' = [key |-> op'[c].key, ent |-> op'[c].ent, done |-> pc'[c] # "logged"]
      BY <3>2 DEF CallOf
    <3> QED BY <3>4, <3>5, <3>6
  <2>6. \A d \in Clients : d # c => CallOf(d)' = CallOf(d)
    BY <1>0, <2>2 DEF CallOf, TypeOK, Threads
  <2>7. store' = store
    BY <1>1, <2>2
  <2>8. call[c] = [key |-> -1, ent |-> 0, done |-> TRUE] /\ call'[c] = CallOf(c)'
    BY <2>4
  <2>9. call' = [call EXCEPT ![c] = call'[c]]
    BY <2>6
  <2>10. call'[c] \in [key : Keys, ent : Int, done : {FALSE}]
    <3> HIDE DEF call
    <3> QED BY <2>3, <2>5, <2>8
  <2>11. KV!Invoke(c)
    BY <2>7, <2>8, <2>9, <2>10 DEF KV!Invoke, KV!Idle, KV!Pending
  <2> QED BY <2>11 DEF KV!Next
<1>3. CASE PutInsert(c)
  <2>1. /\ pc[c] = "logged" /\ pc' = [pc EXCEPT ![c] = "inserted"] /\ op' = op
        /\ latest' = [latest EXCEPT ![op[c].key] = op[c].ent]
    BY <1>3 DEF PutInsert
  <2>2. op[c].key \in Keys /\ op[c].ent \in Int /\ op[c] # NoOp
    <3>1. op[c].key \in Keys
      BY <2>1 DEF IInv, PutHolds
    <3>2. op[c].key # -1
      BY <3>1, KeysAssumption
    <3>3. op[c].ent \in Int
      BY DEF TypeOK, Write
    <3> QED BY <3>1, <3>2, <3>3 DEF NoOp
  <2>3. CallOf(c) = [key |-> op[c].key, ent |-> op[c].ent, done |-> FALSE]
    BY <2>1, <2>2 DEF CallOf
  <2>4. CallOf(c)' = [key |-> op[c].key, ent |-> op[c].ent, done |-> TRUE]
    <3>1. pc'[c] = "inserted"
      BY <1>0, <2>1 DEF TypeOK
    <3> QED BY <2>1, <2>2, <3>1 DEF CallOf
  <2>5. \A d \in Clients : d # c => CallOf(d)' = CallOf(d)
    BY <1>0, <2>1 DEF CallOf, TypeOK, Threads
  <2>call. call[c] = [key |-> op[c].key, ent |-> op[c].ent, done |-> FALSE]
    BY <2>3
  <2>6. call' = [call EXCEPT ![c] = [key |-> op[c].key, ent |-> op[c].ent, done |-> TRUE]]
    BY <2>4, <2>5
  <2>7. call[c] \in [key : Keys, ent : Int, done : {FALSE}]
    <3> HIDE DEF call
    <3> QED BY <2>2, <2>call
  <2>8. call[c].key = op[c].key /\ call[c].ent = op[c].ent
    <3> HIDE DEF call
    <3> QED BY <2>call
  <2>9. store' = [store EXCEPT ![op[c].key] = IF op[c].ent > 0 THEN op[c].ent ELSE 0]
    <3>1. latest \in [Keys -> Int]
      BY DEF TypeOK
    <3>2. \A k \in Keys : latest'[k] = IF k = op[c].key THEN op[c].ent ELSE latest[k]
      BY <2>1, <2>2, <3>1
    <3>3. \A k \in Keys : Get(k)' = IF k = op[c].key
                                     THEN (IF op[c].ent > 0 THEN op[c].ent ELSE 0) ELSE Get(k)
      BY <1>1, <3>2 DEF Seen, Absent
    <3> QED BY <2>2, <3>3
  <2>10. KV!TakeEffect(c)
    BY <2>6, <2>7, <2>8, <2>9 DEF KV!TakeEffect, KV!Pending
  <2> QED BY <2>10 DEF KV!Next
<1>4. CASE PutCheck(c) \/ FreezeRecord(c)
  <2>1. /\ pc[c] # "logged" /\ latest' = latest
        /\ \/ op' = [op EXCEPT ![c] = NoOp]
           \/ op' = op /\ pc'[c] # "logged"
    BY <1>0, <1>4 DEF PutCheck, FreezeRecord, ghostVars, TypeOK
  <2>2. \A d \in Clients : d # c => pc'[d] = pc[d] /\ op'[d] = op[d]
    BY <1>0, <1>4 DEF PutCheck, FreezeRecord, TypeOK, Threads
  <2>3. \A d \in Clients : d # c => CallOf(d)' = CallOf(d)
    BY <2>2 DEF CallOf
  <2>4. store' = store
    BY <1>1, <2>1
  <2>5. CASE op' = op /\ pc'[c] # "logged"
    <3>1. CallOf(c)' = CallOf(c)
      BY <2>1, <2>5 DEF CallOf
    <3>2. call' = call
      BY <2>3, <3>1
    <3> QED BY <2>4, <3>2
  <2>6. CASE op' = [op EXCEPT ![c] = NoOp]
    <3>1. CallOf(c)' = [key |-> -1, ent |-> 0, done |-> TRUE]
      BY <2>6 DEF CallOf, TypeOK
    <3>2. CallOf(c).done = TRUE
      BY <2>1 DEF CallOf
    <3>3. call[c] = CallOf(c) /\ call' = [call EXCEPT ![c] = [key |-> -1, ent |-> 0, done |-> TRUE]]
      BY <2>3, <3>1
    <3>4. CASE CallOf(c) = [key |-> -1, ent |-> 0, done |-> TRUE]
      <4>1. CallOf(c)' = CallOf(c)
        BY <3>1, <3>4
      <4>2. call' = call
        BY <2>3, <4>1
      <4> QED BY <2>4, <4>2
    <3>5. CASE CallOf(c) # [key |-> -1, ent |-> 0, done |-> TRUE]
      <4>1. KV!Return(c)
        BY <2>4, <3>2, <3>3, <3>5 DEF KV!Return, KV!Idle
      <4> QED BY <4>1 DEF KV!Next
    <3> QED BY <3>4, <3>5
  <2> QED BY <2>1, <2>5, <2>6
<1> QED BY <1>2, <1>3, <1>4

(* Every other step is invisible to callers. *)
LEMMA NextRefines ==
  ASSUME TypeOK, IInv, NoStrayWrite, IInv', [Next]_wpVars
  PROVE  KV!Next \/ UNCHANGED <<[k \in Keys |-> Get(k)], [d \in Clients |-> CallOf(d)]>>
<1>0. \A c \in Clients : c \in Threads /\ c # FlushThread
  BY ThreadsAssumption DEF Threads
<1>1. ASSUME NEW c \in Clients, ClientStep(c)
      PROVE  KV!Next \/ UNCHANGED <<[k \in Keys |-> Get(k)], [d \in Clients |-> CallOf(d)]>>
  <2>1. CASE Put(c) \/ PutInsert(c) \/ PutCheck(c) \/ FreezeRecord(c)
    BY <2>1, WriteRefines
  <2>2. CASE \/ ForceFreeze(c) \/ FreezeBegin(c) \/ FreezeSwap(c)
             \/ ForceFlush(c) \/ FlushStep(c) \/ Sync(c)
    <3>1. /\ latest' = latest /\ op' = op /\ pc[c] # "logged" /\ pc'[c] # "logged"
          /\ \A d \in Clients : d # c => pc'[d] = pc[d]
      BY <1>0, <2>2
         DEF ForceFreeze, FreezeBegin, FreezeSwap, ForceFlush, FlushStep, FlushBegin,
             FlushEmpty, FlushSwap, FlushRecord, Sync, threadVars, ghostVars, TypeOK
    <3>2. \A d \in Clients : CallOf(d)' = CallOf(d)
      BY <3>1 DEF CallOf
    <3> QED BY <3>1, <3>2, Stutter
  <2> QED BY <1>1, <2>1, <2>2 DEF ClientStep, FreezeStep
<1>2. CASE FlushThreadStep
  <2>1. latest' = latest /\ op' = op /\ \A d \in Clients : pc'[d] = pc[d]
    BY <1>0, <1>2 DEF FlushThreadStep, TriggerFlush, FlushStep, FlushBegin, FlushEmpty,
                      FlushSwap, FlushRecord, threadVars, ghostVars, TypeOK
  <2>2. \A d \in Clients : CallOf(d)' = CallOf(d)
    BY <2>1 DEF CallOf
  <2> QED BY <2>1, <2>2, Stutter
<1>3. CASE UNCHANGED wpVars
  <2>1. latest' = latest /\ op' = op /\ pc' = pc
    BY <1>3 DEF wpVars, threadVars, ghostVars
  <2>2. \A d \in Clients : CallOf(d)' = CallOf(d)
    BY <2>1 DEF CallOf
  <2> QED BY <2>1, <2>2, Stutter
<1> QED BY <1>1, <1>2, <1>3 DEF Next

(* The write path, with its two locks, freezes and flushes, is a map whose *)
(* writes take effect one at a time between their calls and their returns. *)
THEOREM Refinement == Spec => ImplementsKV
<1>1. Init => KV!Init
  <2> SUFFICES ASSUME Init PROVE KV!Init
    OBVIOUS
  <2>1. \A k \in Keys : Get(k) = 0
    <3>1. \A k \in Keys : Get(k) = Seen(latest[k])
      BY InitIInv, StoreIsLatest
    <3> QED BY <3>1 DEF Init, Seen, Absent
  <2>2. \A c \in Clients : CallOf(c) = [key |-> -1, ent |-> 0, done |-> TRUE]
    BY DEF Init, CallOf
  <2> QED BY <2>1, <2>2 DEF KV!Init, KV!Idle
<1>2. Init => NoStrayWrite
  BY DEF Init, NoStrayWrite
<1>3. TypeOK /\ NoStrayWrite /\ [Next]_wpVars => NoStrayWrite'
  BY StepNoStray
<1>4. TypeOK /\ IInv /\ NoStrayWrite /\ IInv' /\ [Next]_wpVars =>
        [KV!Next]_<<[k \in Keys |-> Get(k)], [c \in Clients |-> CallOf(c)]>>
  BY NextRefines
<1> QED BY <1>1, <1>2, <1>3, <1>4, TypeCorrect, Invariance, PTL
       DEF Spec, ImplementsKV, KV!Spec

-----------------------------------------------------------------------------
(* Replaying the WALs rebuilds the MemTables, for every number of clients, *)
(* keys and writes: a write is in the log of the MemTable it will go to    *)
(* before it is in the MemTable, and no freeze comes between the two.      *)

(* Every MemTable in memory has its WAL, and so has the one a freeze is    *)
(* about to swap in, with nothing logged yet.                              *)
LogsOpen ==
  EnableWal =>
    /\ LiveMemtables \subseteq wal_open
    /\ \A t \in Threads : pc[t] = "freeze_swap" =>
         new_id[t] \in wal_open /\ wal[new_id[t]] = <<>>

(* What a put() between its WAL and its MemTable writes is the last frame  *)
(* of its key, if nobody else writes the key.                              *)
LoggedLast(c) ==
  /\ op[c].key \in KeysOf[c]
  /\ EnableWal /\ OneWriter(op[c].key) => Replayed(wal[op[c].into], op[c].key) = op[c].ent

(* The inductive invariant, added to IInv. *)
WalIInv ==
  /\ LogsOpen
  /\ \A c \in Clients : pc[c] = "logged" => LoggedLast(c)
  /\ WalMatchesMemtable

-----------------------------------------------------------------------------
(* Replaying *)

(* What is replayed is the entry of a frame after which no other has the   *)
(* key.                                                                    *)
LEMMA ReplayedIs ==
  ASSUME NEW fs \in Seq(Frame), NEW k, NEW i \in DOMAIN fs, fs[i].key = k,
         \A j \in DOMAIN fs : fs[j].key = k => j <= i
  PROVE  Replayed(fs, k) = fs[i].ent
<1> DEFINE at == {j \in DOMAIN fs : fs[j].key = k}
           c  == CHOOSE l \in at : \A j \in at : j <= l
<1>1. i \in at /\ at \subseteq DOMAIN fs
  OBVIOUS
<1>2. \E l \in at : \A j \in at : j <= l
  BY <1>1
<1>3. c \in at /\ \A j \in at : j <= c
  BY <1>2
<1>4. DOMAIN fs \subseteq Nat
  OBVIOUS
<1>5. Replayed(fs, k) = fs[c].ent
  BY <1>1 DEF Replayed
<1> HIDE DEF c
<1>6. c <= i /\ i <= c /\ c \in Nat /\ i \in Nat
  BY <1>1, <1>3, <1>4
<1>7. c = i
  BY ONLY <1>6
<1> QED BY <1>5, <1>7

(* One more frame decides what its key replays to, and leaves the others. *)
LEMMA ReplayedAppend ==
  ASSUME NEW fs \in Seq(Frame), NEW f \in Frame, NEW k
  PROVE  Replayed(Append(fs, f), k) = IF f.key = k THEN f.ent ELSE Replayed(fs, k)
<1> DEFINE gs == Append(fs, f)
           n  == Len(fs)
<1>1. /\ n \in Nat /\ DOMAIN fs = 1 .. n /\ DOMAIN gs = 1 .. n + 1 /\ gs \in Seq(Frame)
      /\ gs[n + 1] = f /\ \A j \in 1 .. n : gs[j] = fs[j]
  OBVIOUS
<1> HIDE DEF gs, n
<1>2. CASE f.key = k
  <2>1. n + 1 \in DOMAIN gs /\ \A j \in DOMAIN gs : j <= n + 1
    BY <1>1
  <2>2. Replayed(gs, k) = gs[n + 1].ent
    BY <1>1, <1>2, <2>1, ReplayedIs
  <2> QED BY <1>1, <1>2, <2>2 DEF gs
<1>3. CASE f.key # k
  <2> DEFINE at == {j \in DOMAIN fs : fs[j].key = k}
  <2>1. \A j \in DOMAIN gs : gs[j].key = k => j \in 1 .. n /\ fs[j].key = k
    <3>1. \A j \in 1 .. n + 1 : j = n + 1 \/ j \in 1 .. n
      BY <1>1
    <3> QED BY <1>1, <1>3, <3>1
  <2>2. CASE at = {}
    <3>1. {j \in DOMAIN gs : gs[j].key = k} = {}
      BY <1>1, <2>1, <2>2
    <3>2. Replayed(gs, k) = Absent /\ Replayed(fs, k) = Absent
      BY <2>2, <3>1 DEF Replayed
    <3> QED BY <1>3, <3>2 DEF gs
  <2>3. CASE at # {}
    <3>1. at \subseteq 1 .. n
      BY <1>1
    <3>2. PICK i \in at : \A j \in at : j <= i
      <4> HIDE DEF at
      <4> QED BY <1>1, <2>3, <3>1, GreatestIndex
    <3>3. i \in 1 .. n /\ fs[i].key = k /\ \A j \in DOMAIN fs : fs[j].key = k => j <= i
      BY <3>1, <3>2
    <3>4. Replayed(fs, k) = fs[i].ent
      BY <1>1, <3>3, ReplayedIs
    <3>5. i \in DOMAIN gs /\ gs[i] = fs[i]
      BY <1>1, <3>3
    <3>6. \A j \in DOMAIN gs : gs[j].key = k => j <= i
      BY <1>1, <2>1, <3>3
    <3>7. Replayed(gs, k) = gs[i].ent
      BY <1>1, <3>3, <3>5, <3>6, ReplayedIs
    <3> QED BY <1>3, <3>4, <3>5, <3>7 DEF gs
  <2> QED BY <2>2, <2>3
<1> QED BY <1>2, <1>3

(* An empty WAL replays to nothing. *)
LEMMA ReplayedEmpty == ASSUME NEW k PROVE Replayed(<<>>, k) = Absent
<1>1. DOMAIN <<>> = {}
  OBVIOUS
<1> QED BY <1>1 DEF Replayed

-----------------------------------------------------------------------------
(* The invariant *)

(* The database starts with one MemTable and its empty WAL. *)
LEMMA InitWal == Init => WalIInv
<1> SUFFICES ASSUME Init PROVE WalIInv
  OBVIOUS
<1>0. 0 \in Ids
  BY BoundsAssumption DEF Ids
<1>1. LiveMemtables = {0} /\ wal[0] = <<>> /\ mem[0] = EmptyTable
  <2>1. state.memtable = 0 /\ DOMAIN state.imm_memtables = {}
    BY DEF Init, CreateState
  <2> QED BY <1>0, <2>1 DEF LiveMemtables, Init
<1>2. LogsOpen
  BY <1>1 DEF LogsOpen, Init
<1>3. \A c \in Clients : pc[c] # "logged"
  BY DEF Init, Threads
<1>4. \A k \in Keys : Replayed(wal[0], k) = mem[0][k]
  BY <1>1, ReplayedEmpty DEF EmptyTable
<1>5. WalMatchesMemtable
  BY <1>1, <1>4 DEF WalMatchesMemtable, Replays
<1> QED BY <1>2, <1>3, <1>5 DEF WalIInv

(* A step that leaves the MemTables in memory, their WALs and the writes   *)
(* between the two alone.                                                  *)
LEMMA WalKept ==
  ASSUME WalIInv, PutHolds, life # "down",
         state'.memtable = state.memtable, LiveMemtables' \subseteq LiveMemtables,
         \A id \in LiveMemtables : mem'[id] = mem[id] /\ wal'[id] = wal[id],
         wal_open \subseteq wal_open',
         \A c \in Clients : /\ pc'[c] = "logged" <=> pc[c] = "logged"
                            /\ pc[c] = "logged" => op'[c] = op[c],
         EnableWal => \A t \in Threads : pc'[t] = "freeze_swap" =>
                        new_id'[t] \in wal_open' /\ wal'[new_id'[t]] = <<>>
  PROVE  WalIInv'
<1>1. LogsOpen'
  BY DEF LogsOpen, WalIInv
<1>2. state.memtable \in LiveMemtables
  BY DEF LiveMemtables
<1>3. ASSUME NEW c \in Clients, pc'[c] = "logged" PROVE LoggedLast(c)'
  <2>1. LoggedLast(c) /\ op'[c] = op[c] /\ op[c].into = state.memtable
    BY <1>3 DEF WalIInv, PutHolds
  <2>2. wal'[op[c].into] = wal[op[c].into]
    BY <1>2, <2>1
  <2> QED BY <2>1, <2>2 DEF LoggedLast, OneWriter
<1>4. ASSUME NEW k \in Keys, OneWriter(k) PROVE Replays(k)'
  <2> SUFFICES ASSUME EnableWal, NEW id \in LiveMemtables'
               PROVE  \/ Replayed(wal'[id], k) = mem'[id][k]
                      \/ id = state'.memtable /\ \E c \in Clients : pc'[c] = "logged" /\ op'[c].key = k
    BY DEF Replays
  <2>1. id \in LiveMemtables
    OBVIOUS
  <2>2. mem'[id] = mem[id] /\ wal'[id] = wal[id]
    BY <2>1
  <2>3. \/ Replayed(wal[id], k) = mem[id][k]
        \/ id = state.memtable /\ \E c \in Clients : pc[c] = "logged" /\ op[c].key = k
    BY <1>4, <2>1 DEF WalIInv, WalMatchesMemtable, Replays
  <2>4. CASE id = state.memtable /\ \E c \in Clients : pc[c] = "logged" /\ op[c].key = k
    <3>1. PICK c \in Clients : pc[c] = "logged" /\ op[c].key = k
      BY <2>4
    <3>2. pc'[c] = "logged" /\ op'[c].key = k
      BY <3>1
    <3> QED BY <2>4, <3>2
  <2> QED BY <2>2, <2>3, <2>4
<1>5. WalMatchesMemtable'
  BY <1>4 DEF WalMatchesMemtable, OneWriter
<1> QED BY <1>1, <1>3, <1>5 DEF WalIInv

(* The MemTables in memory have ids. *)
LEMMA LiveIds == ASSUME TypeOK PROVE LiveMemtables \subseteq Ids
<1>1. state.memtable \in Ids /\ state.imm_memtables \in Seq(Ids)
  BY DEF TypeOK, LsmStorageState
<1>2. \A i \in DOMAIN state.imm_memtables : state.imm_memtables[i] \in Ids
  BY <1>1
<1> QED BY <1>1, <1>2 DEF LiveMemtables

(* put() appends to the WAL of the active MemTable. *)
LEMMA PutLogWal ==
  ASSUME TypeOK, IInv, WalIInv, NEW c \in Clients, NEW k \in KeysOf[c], NEW sgn \in {1, -1},
         PutLog(c, k, sgn)
  PROVE  WalIInv'
<1> DEFINE e == sgn * (writes + 1)
           m == state.memtable
           f == [key |-> k, ent |-> e]
<1>0. c \in Threads /\ k \in Keys /\ e \in Int /\ m \in Ids
  BY KeysOfAssumption DEF Threads, TypeOK, LsmStorageState
<1>1. /\ life # "down" /\ pc[c] = "idle" /\ pc' = [pc EXCEPT ![c] = "logged"]
      /\ op' = [op EXCEPT ![c] = [key |-> k, ent |-> e, into |-> m]]
      /\ wal' = IF m \in wal_open THEN [wal EXCEPT ![m] = Append(@, f)] ELSE wal
      /\ UNCHANGED <<state, mem, wal_open, new_id>>
  BY DEF PutLog, stateVars
<1> HIDE DEF e
<1>2. f \in Frame /\ f.key = k /\ f.ent = e /\ wal[m] \in Seq(Frame)
  BY <1>0 DEF Frame, TypeOK
<1>3. LiveMemtables' = LiveMemtables /\ m \in LiveMemtables
  BY <1>1 DEF LiveMemtables
<1> HIDE DEF f
<1>4. /\ \A d \in Clients : d # c => pc'[d] = pc[d] /\ op'[d] = op[d]
      /\ pc'[c] = "logged" /\ op'[c] = [key |-> k, ent |-> e, into |-> m]
  BY <1>0, <1>1 DEF TypeOK, Threads
<1>5. /\ \A id \in Ids : id # m => wal'[id] = wal[id]
      /\ EnableWal => wal'[m] = Append(wal[m], f)
  <2>1. EnableWal => m \in wal_open
    BY <1>3 DEF WalIInv, LogsOpen
  <2> QED BY <1>0, <1>1, <2>1 DEF TypeOK
<1> HIDE DEF m
<1>6. EnableWal => \A j : Replayed(wal'[m], j) = IF k = j THEN e ELSE Replayed(wal[m], j)
  <2> SUFFICES ASSUME EnableWal, NEW j
               PROVE  Replayed(wal'[m], j) = IF k = j THEN e ELSE Replayed(wal[m], j)
    OBVIOUS
  <2>1. Replayed(Append(wal[m], f), j) = IF f.key = j THEN f.ent ELSE Replayed(wal[m], j)
    BY <1>2, ReplayedAppend
  <2>2. wal'[m] = Append(wal[m], f) /\ f.key = k /\ f.ent = e
    BY <1>2, <1>5
  <2> QED BY <2>1, <2>2, Zenon
<1>7. LogsOpen'
  <2> SUFFICES ASSUME EnableWal
               PROVE  /\ LiveMemtables' \subseteq wal_open'
                      /\ \A t \in Threads : pc'[t] = "freeze_swap" =>
                           new_id'[t] \in wal_open' /\ wal'[new_id'[t]] = <<>>
    BY DEF LogsOpen
  <2>1. LiveMemtables' \subseteq wal_open'
    BY <1>1, <1>3 DEF WalIInv, LogsOpen
  <2>2. ASSUME NEW t \in Threads, pc'[t] = "freeze_swap"
        PROVE  new_id'[t] \in wal_open' /\ wal'[new_id'[t]] = <<>>
    <3>1. pc[t] = "freeze_swap" /\ new_id[t] \in Ids
      BY <1>0, <1>1, <2>2 DEF TypeOK
    <3>2. new_id[t] # m
      BY <3>1 DEF IInv, FreezeHolds, m
    <3> QED BY <1>1, <1>5, <3>1, <3>2 DEF WalIInv, LogsOpen
  <2> QED BY <2>1, <2>2
<1>8. ASSUME NEW d \in Clients, pc'[d] = "logged" PROVE LoggedLast(d)'
  <2>1. CASE d = c
    <3>1. op'[d].key = k /\ op'[d].ent = e /\ op'[d].into = m
      BY <1>4, <2>1
    <3>2. EnableWal => Replayed(wal'[m], k) = e
      BY <1>6
    <3> QED BY <2>1, <3>1, <3>2 DEF LoggedLast
  <2>2. CASE d # c
    <3>1. pc[d] = "logged" /\ op'[d] = op[d] /\ op[d].into = m
      BY <1>4, <1>8, <2>2 DEF IInv, PutHolds, m
    <3>2. LoggedLast(d)
      BY <3>1 DEF WalIInv
    <3>3. OneWriter(op[d].key) => op[d].key # k
      BY <2>2, <3>2 DEF OneWriter, LoggedLast
    <3>4. EnableWal /\ OneWriter(op[d].key) =>
            Replayed(wal'[m], op[d].key) = Replayed(wal[m], op[d].key)
      BY <1>6, <3>3
    <3> QED BY <3>1, <3>2, <3>4 DEF LoggedLast, OneWriter
  <2> QED BY <2>1, <2>2
<1>9. ASSUME NEW j \in Keys, OneWriter(j) PROVE Replays(j)'
  <2> SUFFICES ASSUME EnableWal, NEW id \in LiveMemtables'
               PROVE  \/ Replayed(wal'[id], j) = mem'[id][j]
                      \/ id = state'.memtable /\ \E d \in Clients : pc'[d] = "logged" /\ op'[d].key = j
    BY DEF Replays
  <2>1. id \in LiveMemtables /\ mem'[id] = mem[id] /\ state'.memtable = m /\ id \in Ids
    BY <1>1, <1>3, LiveIds DEF m
  <2>2. \/ Replayed(wal[id], j) = mem[id][j]
        \/ id = m /\ \E d \in Clients : pc[d] = "logged" /\ op[d].key = j
    BY <1>1, <1>9, <2>1 DEF WalIInv, WalMatchesMemtable, Replays, m
  <2>3. CASE id = m /\ j = k
    <3>1. pc'[c] = "logged" /\ op'[c].key = j
      BY <1>4, <2>3
    <3> QED BY <2>1, <2>3, <3>1
  <2>4. CASE id = m /\ \E d \in Clients : pc[d] = "logged" /\ op[d].key = j
    <3>1. PICK d \in Clients : pc[d] = "logged" /\ op[d].key = j
      BY <2>4
    <3>2. pc'[d] = "logged" /\ op'[d].key = j
      BY <1>1, <1>4, <3>1
    <3> QED BY <2>1, <2>4, <3>2
  <2>5. CASE ~(id = m /\ j = k) /\ Replayed(wal[id], j) = mem[id][j]
    <3>1. Replayed(wal'[id], j) = Replayed(wal[id], j)
      BY <1>5, <1>6, <2>1, <2>5
    <3> QED BY <2>1, <2>5, <3>1
  <2> QED BY <2>2, <2>3, <2>4, <2>5
<1>10. WalMatchesMemtable'
  BY <1>9 DEF WalMatchesMemtable, OneWriter
<1> QED BY <1>7, <1>8, <1>10 DEF WalIInv

(* put() inserts what it has logged. *)
LEMMA PutInsertWal ==
  ASSUME TypeOK, IInv, WalIInv, NEW c \in Clients, PutInsert(c)
  PROVE  WalIInv'
<1> DEFINE m == state.memtable
           k == op[c].key
<1>0. c \in Threads /\ m \in Ids /\ m \in LiveMemtables
  BY DEF Threads, TypeOK, LsmStorageState, LiveMemtables
<1>1. /\ life # "down" /\ pc[c] = "logged" /\ pc' = [pc EXCEPT ![c] = "inserted"]
      /\ mem' = [mem EXCEPT ![op[c].into][op[c].key] = op[c].ent]
      /\ UNCHANGED <<state, wal, wal_open, op, new_id>>
  BY DEF PutInsert, diskVars
<1>2. op[c].into = m /\ k \in Keys /\ LoggedLast(c)
  BY <1>1 DEF IInv, PutHolds, WalIInv
<1>3. LiveMemtables' = LiveMemtables
  BY <1>1 DEF LiveMemtables
<1>4. /\ \A d \in Clients : d # c => pc'[d] = pc[d]
      /\ \A t \in Threads : pc'[t] = "freeze_swap" => pc[t] = "freeze_swap"
      /\ pc'[c] # "logged"
  BY <1>0, <1>1 DEF TypeOK, Threads
<1>5. /\ \A id \in Ids : id # m => mem'[id] = mem[id]
      /\ \A j \in Keys : mem'[m][j] = IF j = k THEN op[c].ent ELSE mem[m][j]
  BY <1>0, <1>1, <1>2 DEF TypeOK, Table
<1> HIDE DEF m, k
<1>6. LogsOpen'
  BY <1>1, <1>3, <1>4 DEF WalIInv, LogsOpen
<1>7. ASSUME NEW d \in Clients, pc'[d] = "logged" PROVE LoggedLast(d)'
  <2>1. LoggedLast(d)
    BY <1>4, <1>7 DEF WalIInv
  <2> QED BY <1>1, <2>1 DEF LoggedLast, OneWriter
<1>8. ASSUME NEW j \in Keys, OneWriter(j) PROVE Replays(j)'
  <2> SUFFICES ASSUME EnableWal, NEW id \in LiveMemtables'
               PROVE  \/ Replayed(wal'[id], j) = mem'[id][j]
                      \/ id = state'.memtable /\ \E d \in Clients : pc'[d] = "logged" /\ op'[d].key = j
    BY DEF Replays
  <2>1. id \in LiveMemtables /\ wal'[id] = wal[id] /\ state'.memtable = m /\ id \in Ids
    BY <1>1, <1>3, LiveIds DEF m
  <2>2. \/ Replayed(wal[id], j) = mem[id][j]
        \/ id = m /\ \E d \in Clients : pc[d] = "logged" /\ op[d].key = j
    BY <1>1, <1>8, <2>1 DEF WalIInv, WalMatchesMemtable, Replays, m
  <2>3. CASE id = m /\ j = k
    <3>1. Replayed(wal[m], k) = op[c].ent
      BY <1>2, <1>8, <2>3 DEF LoggedLast, k
    <3> QED BY <1>5, <2>1, <2>3, <3>1
  <2>4. CASE ~(id = m /\ j = k) /\ \E d \in Clients : id = m /\ pc[d] = "logged" /\ op[d].key = j
    <3>1. PICK d \in Clients : id = m /\ pc[d] = "logged" /\ op[d].key = j
      BY <2>4
    <3>2. d # c
      BY <2>4, <3>1 DEF k
    <3>3. pc'[d] = "logged" /\ op'[d].key = j
      BY <1>1, <1>4, <3>1, <3>2
    <3> QED BY <2>1, <3>1, <3>3
  <2>5. CASE ~(id = m /\ j = k) /\ Replayed(wal[id], j) = mem[id][j]
    <3>1. mem'[id][j] = mem[id][j]
      BY <1>5, <2>1, <2>5
    <3> QED BY <2>1, <2>5, <3>1
  <2> QED BY <2>2, <2>3, <2>4, <2>5
<1>9. WalMatchesMemtable'
  BY <1>8 DEF WalMatchesMemtable, OneWriter
<1> QED BY <1>6, <1>7, <1>9 DEF WalIInv

(* The swap of a freeze finds no put() in the middle, so what the frozen    *)
(* MemTable holds is what its WAL holds.                                   *)
LEMMA FreezeSwapWal ==
  ASSUME TypeOK, IInv, WalIInv, NEW c \in Clients, FreezeSwap(c)
  PROVE  WalIInv'
<1> DEFINE n == new_id[c]
<1>0. c \in Threads /\ state \in LsmStorageState /\ n \in Ids
  BY DEF Threads, TypeOK
<1>1. /\ life # "down" /\ pc[c] = "freeze_swap" /\ pc' = [pc EXCEPT ![c] = "freeze_record"]
      /\ \A d \in Clients : pc[d] # "logged"
      /\ UNCHANGED <<mem, wal, wal_open, op, new_id>>
  BY DEF FreezeSwap, NoSharedHolder, SharedHolder, diskVars, Threads
<1>2. /\ mem[n] = EmptyTable
      /\ EnableWal => n \in wal_open /\ wal[n] = <<>>
  BY <1>0, <1>1 DEF IInv, FreezeHolds, WalIInv, LogsOpen
<1>3. LiveMemtables' \subseteq LiveMemtables \cup {n}
  <2>1. /\ state'.memtable = n /\ state'.imm_memtables = <<state.memtable>> \o state.imm_memtables
        /\ state.memtable \in Ids /\ state.imm_memtables \in Seq(Ids)
    BY <1>0 DEF FreezeSwap, LsmStorageState
  <2>2. \A i \in DOMAIN state'.imm_memtables :
          \/ state'.imm_memtables[i] = state.memtable
          \/ \E j \in DOMAIN state.imm_memtables : state'.imm_memtables[i] = state.imm_memtables[j]
    BY <2>1, ConsElements
  <2> QED BY <2>1, <2>2 DEF LiveMemtables
<1>4. /\ \A d \in Clients : pc'[d] # "logged"
      /\ \A t \in Threads : pc'[t] = "freeze_swap" => pc[t] = "freeze_swap"
  BY <1>0, <1>1 DEF TypeOK, Threads
<1> HIDE DEF n
<1>5. LogsOpen'
  BY <1>1, <1>2, <1>3, <1>4 DEF WalIInv, LogsOpen
<1>6. ASSUME NEW k \in Keys, OneWriter(k) PROVE Replays(k)'
  <2> SUFFICES ASSUME EnableWal, NEW id \in LiveMemtables'
               PROVE  Replayed(wal'[id], k) = mem'[id][k]
    BY DEF Replays
  <2>1. CASE id = n
    BY <1>1, <1>2, <2>1, ReplayedEmpty DEF EmptyTable
  <2>2. CASE id \in LiveMemtables
    BY <1>1, <1>6, <2>2 DEF WalIInv, WalMatchesMemtable, Replays
  <2> QED BY <1>3, <2>1, <2>2
<1>7. WalMatchesMemtable'
  BY <1>6 DEF WalMatchesMemtable, OneWriter
<1> QED BY <1>4, <1>5, <1>7 DEF WalIInv

(* The other steps of a client or the flush thread move no write between   *)
(* a WAL and a MemTable.                                                   *)
LEMMA OtherWal ==
  ASSUME TypeOK, IInv, WalIInv, NEW t \in Threads,
         \/ t \in Clients /\ (PutCheck(t) \/ ForceFreeze(t) \/ FreezeBegin(t) \/ FreezeRecord(t)
                              \/ ForceFlush(t) \/ Sync(t))
         \/ FlushStep(t)
         \/ t = FlushThread /\ TriggerFlush
  PROVE  WalIInv'
<1>0. PutHolds /\ life # "down"
  BY DEF IInv, PutCheck, ForceFreeze, FreezeBegin, FreezeRecord, ForceFlush, Sync, FlushStep,
         FlushBegin, FlushEmpty, FlushSwap, FlushRecord, TriggerFlush
<1>1. /\ \A u \in Threads : u # t => pc'[u] = pc[u] /\ new_id'[u] = new_id[u]
      /\ \A u \in Clients : u # t => op'[u] = op[u]
      /\ pc[t] # "logged" /\ pc'[t] # "logged"
      /\ pc'[t] = "freeze_swap" => FreezeBegin(t)
  BY DEF TypeOK, Threads, PutCheck, ForceFreeze, FreezeBegin, FreezeRecord, ForceFlush, Sync,
         FlushStep, FlushBegin, FlushEmpty, FlushSwap, FlushRecord, TriggerFlush, threadVars
<1>2. \A c \in Clients : /\ pc'[c] = "logged" <=> pc[c] = "logged"
                         /\ pc[c] = "logged" => op'[c] = op[c]
  BY <1>1 DEF Threads
<1>3. state'.memtable = state.memtable /\ LiveMemtables' \subseteq LiveMemtables
  <2>1. CASE FlushSwap(t)
    <3>1. state \in LsmStorageState /\ new_id[t] \in Ids
      BY DEF TypeOK
    <3>2. /\ state'.memtable = state.memtable
          /\ state'.imm_memtables = SubSeq(state.imm_memtables, 1, Len(state.imm_memtables) - 1)
      BY <2>1, <3>1 DEF FlushSwap, AddFlushed, LsmStorageState
    <3>3. state.imm_memtables \in Seq(Ids)
      BY <3>1 DEF LsmStorageState
    <3>4. \A i \in DOMAIN state'.imm_memtables :
            i \in DOMAIN state.imm_memtables /\ state'.imm_memtables[i] = state.imm_memtables[i]
      BY <3>2, <3>3
    <3> QED BY <3>2, <3>4 DEF LiveMemtables
  <2>2. CASE state' = state
    BY <2>2 DEF LiveMemtables
  <2> QED BY <2>1, <2>2
       DEF PutCheck, ForceFreeze, FreezeBegin, FreezeRecord, ForceFlush, Sync,
           FlushStep, FlushBegin, FlushEmpty, FlushRecord, TriggerFlush, stateVars
<1>4. CASE FreezeBegin(t)
  <2>1. /\ new_id'[t] = next_sst_id /\ mem' = [mem EXCEPT ![next_sst_id] = EmptyTable]
        /\ next_sst_id \in Ids
        /\ EnableWal => /\ wal' = [wal EXCEPT ![next_sst_id] = <<>>]
                        /\ wal_open' = wal_open \cup {next_sst_id}
        /\ ~EnableWal => UNCHANGED <<wal, wal_open>>
        /\ state_lock = NoThread
    BY <1>4, BoundsAssumption DEF FreezeBegin, TypeOK, Ids
  <2>2. \A id \in LiveMemtables : id < next_sst_id /\ id \in Ids
    BY LiveIds DEF IInv, IdsApart, LiveMemtables
  <2>3. \A id \in LiveMemtables : id # next_sst_id
    <3>1. next_sst_id \in Nat
      BY DEF TypeOK
    <3> QED BY <2>2, <3>1
  <2>4. \A id \in LiveMemtables : mem'[id] = mem[id] /\ wal'[id] = wal[id]
    BY <2>1, <2>2, <2>3 DEF TypeOK
  <2>5. wal_open \subseteq wal_open'
    BY <2>1
  <2>6. \A u \in Threads : pc'[u] = "freeze_swap" => u = t
    <3>1. \A u \in Threads : pc[u] # "freeze_swap"
      BY <2>1, ThreadsAssumption DEF IInv, LockHolds, LockedSteps, Threads
    <3> QED BY <1>1, <3>1
  <2>7. EnableWal => \A u \in Threads : pc'[u] = "freeze_swap" =>
                       new_id'[u] \in wal_open' /\ wal'[new_id'[u]] = <<>>
    BY <2>1, <2>6 DEF TypeOK
  <2> QED BY <1>0, <1>2, <1>3, <2>4, <2>5, <2>7, WalKept
<1>5. CASE ~FreezeBegin(t)
  <2>1. UNCHANGED <<mem, wal, wal_open>>
    BY <1>5 DEF PutCheck, ForceFreeze, FreezeRecord, ForceFlush, Sync, FlushStep, FlushBegin,
                FlushEmpty, FlushSwap, FlushRecord, TriggerFlush, stateVars, diskVars
  <2>2. EnableWal => \A u \in Threads : pc'[u] = "freeze_swap" =>
                       new_id'[u] \in wal_open' /\ wal'[new_id'[u]] = <<>>
    BY <1>1, <1>5, <2>1 DEF WalIInv, LogsOpen
  <2> QED BY <1>0, <1>2, <1>3, <2>1, <2>2, WalKept
<1> QED BY <1>4, <1>5

(* Every step keeps the WALs and the MemTables together. *)
LEMMA NextWal == TypeOK /\ IInv /\ WalIInv /\ [Next]_wpVars => WalIInv'
<1> SUFFICES ASSUME TypeOK, IInv, WalIInv, [Next]_wpVars PROVE WalIInv'
  OBVIOUS
<1>1. ASSUME NEW c \in Clients, ClientStep(c) PROVE WalIInv'
  <2>1. c \in Threads
    BY DEF Threads
  <2>2. ASSUME NEW k \in KeysOf[c], NEW sgn \in {1, -1}, PutLog(c, k, sgn) PROVE WalIInv'
    BY <2>2, PutLogWal
  <2> QED BY <1>1, <2>1, <2>2, PutInsertWal, FreezeSwapWal, OtherWal DEF ClientStep, Put, FreezeStep
<1>2. CASE FlushThreadStep
  BY <1>2, OtherWal DEF FlushThreadStep, Threads
<1>3. CASE UNCHANGED wpVars
  BY <1>3 DEF wpVars, stateVars, diskVars, threadVars, ghostVars, WalIInv, LogsOpen, LoggedLast,
         LiveMemtables, WalMatchesMemtable, Replays, OneWriter
<1> QED BY <1>1, <1>2, <1>3 DEF Next

(* Replaying the WALs rebuilds every MemTable in memory, for the keys that *)
(* no two threads write and but for the writes put() has logged and not    *)
(* yet inserted: MemTable::put logs outside the MemTable's mutex.          *)
THEOREM WalMatchesMemtableCorrect == Spec => []WalMatchesMemtable
<1>1. Init => WalIInv
  BY InitWal
<1>2. TypeOK /\ IInv /\ WalIInv /\ [Next]_wpVars => WalIInv'
  BY NextWal
<1>3. WalIInv => WalMatchesMemtable
  BY DEF WalIInv
<1> QED BY <1>1, <1>2, <1>3, TypeCorrect, Invariance, PTL DEF Spec
=============================================================================
