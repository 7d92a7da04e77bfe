------------------------------ MODULE WritePath ------------------------------
(***************************************************************************)
(* The write path of LsmStorageInner, from put() to an SSTable in L0:      *)
(*                                                                         *)
(*    put -> WAL -> MemTable -> [freeze] -> immutable -> [flush] -> SST    *)
(*                                                                         *)
(* run by any number of client threads and the background flush thread,    *)
(* in one lifetime of the process.  LsmStorage adds compaction, close,     *)
(* crash and recovery to it.                                               *)
(*                                                                         *)
(* Locks.  state_mutex is a shared_mutex: put() holds it shared from the   *)
(* WAL append to the size check, every swap of `state' takes it            *)
(* exclusively.  A swap is one step here, so only the shared holders are   *)
(* tracked (by pc).  state_lock is a mutex that serialises freezes,        *)
(* flushes and compaction results; its holder is the variable state_lock.  *)
(***************************************************************************)
EXTENDS Tables, ManifestLog, Options

CONSTANTS
  Clients,            \* threads that call put, del, sync, force_freeze, force_flush
  FlushThread,        \* the thread spawn_flush_thread starts
  CompactionThread,   \* the thread spawn_compaction_thread starts
  NoThread,           \* state_lock is free
  KeysOf,             \* the keys each client writes
  Calls,              \* the calls clients make
  MaxWrites,          \* bound on the puts and deletes of a history
  MaxId               \* bound on table ids

ASSUME ThreadsAssumption ==
  /\ FlushThread \notin Clients /\ CompactionThread \notin Clients
  /\ FlushThread # CompactionThread
  /\ NoThread \notin Clients \cup {FlushThread, CompactionThread}
ASSUME BoundsAssumption == MaxWrites \in Nat /\ MaxId \in Nat
ASSUME CallsAssumption ==
  Calls \subseteq {"put", "del", "freeze", "flush", "sync", "compact", "close"}
ASSUME KeysOfAssumption == KeysOf \in [Clients -> SUBSET Keys]

Threads == Clients \cup {FlushThread, CompactionThread}
Ids     == 0 .. MaxId

VARIABLES
  life,          \* "up", "closing" (close() was called), "closed", "destroyed", "down"
  state,         \* the LsmStorageState that LsmStorageInner::state points to
  mem,           \* the map of every MemTable, by id
  approx_size,   \* approximate_size_ of the active MemTable
  sst,           \* the contents of every SSTable, by id
  files,         \* the ids that have a file .sst in the directory
  wal,           \* the frames written to every WAL, by id
  wal_open,      \* the MemTables that have a WAL
  synced,        \* how many frames of a WAL are certainly on disk
  manifest,      \* the manifest file and the offset of its descriptor
  next_sst_id,   \* the atomic counter
  state_lock,    \* who holds state_lock
  pc, op, new_id,  \* where every thread is, and its local variables
  writes,        \* history: how many writes were started
  latest,        \* history: the entry inserted last for every key
  durable        \* history: the newest entry sync() or a flush made durable

stateVars  == <<life, state, mem, approx_size, next_sst_id>>
diskVars   == <<sst, files, wal, wal_open, synced, manifest>>
threadVars == <<state_lock, pc, op, new_id>>
ghostVars  == <<writes, latest, durable>>
wpVars     == <<stateVars, diskVars, threadVars, ghostVars>>

(* A write under way: its key, its entry and the MemTable put() found. *)
NoOp == [key |-> -1, ent |-> Absent, into |-> 0]

-----------------------------------------------------------------------------
(* Reading *)

(* get(): the active MemTable, the immutable ones from the newest, then    *)
(* the SSTables.  get() keeps state_mutex shared to its end, so nothing it *)
(* reads after the active MemTable can change and it takes effect when it  *)
(* reads that one.  maps gives the MemTables' contents.                    *)
Entry(st, maps, k) ==
  OrElse(maps[st.memtable][k],
  OrElse(FirstHit([i \in DOMAIN st.imm_memtables |-> maps[st.imm_memtables[i]]], k),
         SstEntry(st, sst, k)))

Get(k) == Seen(Entry(state, mem, k))

-----------------------------------------------------------------------------
(* LsmStorageInner::open on an empty directory *)

Init ==
  /\ life = "up"
  /\ state = CreateState
  /\ mem = [i \in Ids |-> EmptyTable]
  /\ approx_size = 0
  /\ sst = [i \in Ids |-> EmptyTable]
  /\ files = {}
  /\ wal = [i \in Ids |-> <<>>]
  /\ wal_open = IF EnableWal THEN {0} ELSE {}
  /\ synced = [i \in Ids |-> 0]
  /\ manifest = AddRecord(ManifestCreate, NewMemtable(0))
  /\ next_sst_id = 1
  /\ state_lock = NoThread
  /\ pc = [t \in Threads |-> "idle"]
  /\ op = [c \in Clients |-> NoOp]
  /\ new_id = [t \in Threads |-> 0]
  /\ writes = 0
  /\ latest = [k \in Keys |-> Absent]
  /\ durable = [k \in Keys |-> Absent]

-----------------------------------------------------------------------------
(* put() and del() *)

(* Mutant: put() calls force_freeze_memtable with state_mutex held. *)
SharedHolderInFreeze(t) == pc[t] \in {"logged", "inserted", "freeze_swap"}

(* The threads that hold state_mutex shared. *)
SharedHolder(t) == pc[t] \in {"logged", "inserted"}
NoSharedHolder  == \A t \in Threads : ~SharedHolder(t)

(* MaxId, applied where an operation starts: the freezes and compactions   *)
(* that were already asked for still find their ids.                       *)
MaxOutputs == (Cardinality(Keys) + SstEntries - 1) \div SstEntries
IdsReserved ==
    Cardinality({t \in Threads : pc[t] \in {"logged", "inserted", "freeze"}})
  + Cardinality({t \in Threads : pc[t] = "compact"}) * MaxOutputs
IdsLeft(n) == next_sst_id + IdsReserved + n - 1 <= MaxId

(* put() takes state_mutex shared and MemTable::put appends to the WAL.    *)
(* sgn is 1 for put, -1 for del, which puts the empty value.               *)
PutLog(c, k, sgn) ==
  /\ life = "up" /\ pc[c] = "idle" /\ (IF sgn = 1 THEN "put" ELSE "del") \in Calls
  /\ writes < MaxWrites /\ IdsLeft(1)
  /\ LET e == sgn * (writes + 1) IN
     /\ op' = [op EXCEPT ![c] = [key |-> k, ent |-> e, into |-> state.memtable]]
     /\ wal' = IF state.memtable \in wal_open
                 THEN [wal EXCEPT ![state.memtable] = Append(@, [key |-> k, ent |-> e])]
                 ELSE wal
  /\ writes' = writes + 1
  /\ pc' = [pc EXCEPT ![c] = "logged"]
  /\ UNCHANGED <<stateVars, sst, files, wal_open, synced, manifest,
                 state_lock, new_id, latest, durable>>

(* Mutant: overwriting a key takes its entry off the size. *)
PutInsertShrinks(c) ==
  /\ life # "down" /\ pc[c] = "logged"
  /\ mem' = [mem EXCEPT ![op[c].into][op[c].key] = op[c].ent]
  /\ approx_size' = approx_size + (IF op[c].ent > 0 THEN 2 ELSE 1)
                                 * (IF mem[op[c].into][op[c].key] = Absent THEN 1 ELSE -1)
  /\ latest' = [latest EXCEPT ![op[c].key] = op[c].ent]
  /\ pc' = [pc EXCEPT ![c] = "inserted"]
  /\ UNCHANGED <<life, state, next_sst_id, diskVars, state_lock, op, new_id,
                 writes, durable>>

(* MemTable::put goes on under the MemTable's own mutex, after the WAL's   *)
(* was released, in the MemTable it was called on.  A key and a value      *)
(* count 1 each in approximate_size.                                       *)
PutInsert(c) ==
  /\ life # "down" /\ pc[c] = "logged"
  /\ mem' = [mem EXCEPT ![op[c].into][op[c].key] = op[c].ent]
  /\ approx_size' = approx_size + (IF op[c].ent > 0 THEN 2 ELSE 1)
  /\ latest' = [latest EXCEPT ![op[c].key] = op[c].ent]
  /\ pc' = [pc EXCEPT ![c] = "inserted"]
  /\ UNCHANGED <<life, state, next_sst_id, diskVars, state_lock, op, new_id,
                 writes, durable>>

(* put() reads the size, releases state_mutex and either returns or goes   *)
(* to force_freeze_memtable, which does not look at the size again.        *)
PutCheck(c) ==
  /\ life # "down" /\ pc[c] = "inserted"
  /\ IF approx_size >= TargetSstSize
       THEN /\ pc' = [pc EXCEPT ![c] = "freeze"]
            /\ UNCHANGED op
       ELSE /\ pc' = [pc EXCEPT ![c] = "idle"]
            /\ op' = [op EXCEPT ![c] = NoOp]
  /\ UNCHANGED <<stateVars, diskVars, state_lock, new_id, ghostVars>>

-----------------------------------------------------------------------------
(* force_freeze_memtable() *)

(* A client calls it directly. *)
ForceFreeze(c) ==
  /\ life = "up" /\ pc[c] = "idle" /\ "freeze" \in Calls /\ IdsLeft(1)
  /\ pc' = [pc EXCEPT ![c] = "freeze"]
  /\ UNCHANGED <<stateVars, diskVars, state_lock, op, new_id, ghostVars>>

(* Takes state_lock, an id and a new WAL file, truncated if it exists. *)
FreezeBegin(c) ==
  /\ life # "down" /\ pc[c] = "freeze"
  /\ state_lock = NoThread /\ next_sst_id <= MaxId
  /\ state_lock' = c
  /\ new_id' = [new_id EXCEPT ![c] = next_sst_id]
  /\ next_sst_id' = next_sst_id + 1
  /\ mem' = [mem EXCEPT ![next_sst_id] = EmptyTable]
  /\ IF EnableWal
       THEN /\ wal' = [wal EXCEPT ![next_sst_id] = <<>>]
            /\ synced' = [synced EXCEPT ![next_sst_id] = 0]
            /\ wal_open' = wal_open \cup {next_sst_id}
       ELSE UNCHANGED <<wal, synced, wal_open>>
  /\ pc' = [pc EXCEPT ![c] = "freeze_swap"]
  /\ UNCHANGED <<life, state, approx_size, sst, files, manifest, op, ghostVars>>

(* Mutant: the swap does not wait for the put() calls in the middle. *)
FreezeSwapUnlocked(c) ==
  /\ life # "down" /\ pc[c] = "freeze_swap"
  /\ state' = [state EXCEPT !.memtable = new_id[c],
                            !.imm_memtables = <<state.memtable>> \o @]
  /\ approx_size' = 0
  /\ pc' = [pc EXCEPT ![c] = "freeze_record"]
  /\ UNCHANGED <<life, mem, next_sst_id, diskVars, state_lock, op, new_id, ghostVars>>

(* Swaps in a state whose active MemTable is the new one. *)
FreezeSwap(c) ==
  /\ life # "down" /\ pc[c] = "freeze_swap" /\ NoSharedHolder
  /\ state' = [state EXCEPT !.memtable = new_id[c],
                            !.imm_memtables = <<state.memtable>> \o @]
  /\ approx_size' = 0
  /\ pc' = [pc EXCEPT ![c] = "freeze_record"]
  /\ UNCHANGED <<life, mem, next_sst_id, diskVars, state_lock, op, new_id, ghostVars>>

(* Only then is the new MemTable recorded in the manifest. *)
FreezeRecord(c) ==
  /\ life # "down" /\ pc[c] = "freeze_record"
  /\ manifest' = AddRecord(manifest, NewMemtable(new_id[c]))
  /\ state_lock' = NoThread
  /\ pc' = [pc EXCEPT ![c] = "idle"]
  /\ op' = [op EXCEPT ![c] = NoOp]
  /\ new_id' = [new_id EXCEPT ![c] = 0]
  /\ UNCHANGED <<stateVars, sst, files, wal, wal_open, synced, ghostVars>>

-----------------------------------------------------------------------------
(* force_flush_next_imm_memtable() *)

(* A client calls it directly ... *)
ForceFlush(c) ==
  /\ life = "up" /\ pc[c] = "idle" /\ "flush" \in Calls
  /\ pc' = [pc EXCEPT ![c] = "flush"]
  /\ UNCHANGED <<stateVars, diskVars, state_lock, op, new_id, ghostVars>>

(* Mutant: off by one. *)
TriggerFlushLate ==
  /\ life = "up" /\ pc[FlushThread] = "idle"
  /\ Len(state.imm_memtables) > NumMemtableLimit
  /\ pc' = [pc EXCEPT ![FlushThread] = "flush"]
  /\ UNCHANGED <<stateVars, diskVars, state_lock, op, new_id, ghostVars>>

(* ... and the flush thread when it sees enough immutable MemTables. *)
TriggerFlush ==
  /\ life = "up" /\ pc[FlushThread] = "idle"
  /\ Len(state.imm_memtables) >= NumMemtableLimit
  /\ pc' = [pc EXCEPT ![FlushThread] = "flush"]
  /\ UNCHANGED <<stateVars, diskVars, state_lock, op, new_id, ghostVars>>

OldestImm == state.imm_memtables[Len(state.imm_memtables)]

(* Takes state_lock and, if there is an immutable MemTable, builds the     *)
(* SSTable file of the oldest one, under the same id.                      *)
FlushBegin(t) ==
  /\ life # "down" /\ pc[t] = "flush" /\ state_lock = NoThread
  /\ IF state.imm_memtables = <<>>
       THEN /\ pc' = [pc EXCEPT ![t] = "idle"]
            /\ UNCHANGED <<sst, files, state_lock, new_id>>
       ELSE /\ mem[OldestImm] # EmptyTable
            /\ sst' = [sst EXCEPT ![OldestImm] = mem[OldestImm]]
            /\ files' = files \cup {OldestImm}
            /\ state_lock' = t
            /\ new_id' = [new_id EXCEPT ![t] = OldestImm]
            /\ pc' = [pc EXCEPT ![t] = "flush_swap"]
  /\ UNCHANGED <<stateVars, wal, wal_open, synced, manifest, op, ghostVars>>

(* An empty MemTable gives an SSTable without blocks, and SsTable::open    *)
(* takes block_meta.front() of an empty vector: undefined, the process     *)
(* dies.                                                                   *)
FlushEmpty(t) ==
  /\ life # "down" /\ pc[t] = "flush" /\ state_lock = NoThread
  /\ state.imm_memtables # <<>> /\ mem[OldestImm] = EmptyTable
  /\ life' = "down"
  /\ sst' = [sst EXCEPT ![OldestImm] = EmptyTable]
  /\ files' = files \cup {OldestImm}
  /\ UNCHANGED <<state, mem, approx_size, next_sst_id, wal, wal_open, synced,
                 manifest, threadVars, ghostVars>>

(* Mutant: the newest immutable MemTable goes instead of the oldest. *)
FlushSwapNewest(t) ==
  /\ life # "down" /\ pc[t] = "flush_swap" /\ NoSharedHolder
  /\ state' = [AddFlushed(state, new_id[t]) EXCEPT
                 !.imm_memtables = Tail(@), !.sstables = @ \cup {new_id[t]}]
  /\ pc' = [pc EXCEPT ![t] = "flush_record"]
  /\ UNCHANGED <<life, mem, approx_size, next_sst_id, diskVars, state_lock, op, new_id,
                 ghostVars>>

(* Swaps in a state with the SSTable in L0, or as a tier of its own,       *)
(* instead of the MemTable.  Its WAL's buffer is written out when the last *)
(* reference goes away, after the record or with a scan that began before: *)
(* from here on it may be on disk at any time, and `synced', which counts  *)
(* what certainly is, stays.                                               *)
FlushSwap(t) ==
  /\ life # "down" /\ pc[t] = "flush_swap" /\ NoSharedHolder
  /\ state' = [AddFlushed(state, new_id[t]) EXCEPT
                 !.imm_memtables = SubSeq(@, 1, Len(@) - 1),
                 !.sstables = @ \cup {new_id[t]}]
  /\ pc' = [pc EXCEPT ![t] = "flush_record"]
  /\ UNCHANGED <<life, mem, approx_size, next_sst_id, diskVars, state_lock, op, new_id,
                 ghostVars>>

LaterOf(a, b) == IF Stamp(a) > Stamp(b) THEN a ELSE b

(* The flush is recorded; from here on what was flushed survives a crash   *)
(* of the process.  The WAL file stays.                                    *)
FlushRecord(t) ==
  /\ life # "down" /\ pc[t] = "flush_record"
  /\ manifest' = AddRecord(manifest, Flush(new_id[t]))
  /\ durable' = [k \in Keys |-> LaterOf(durable[k], sst[new_id[t]][k])]
  /\ state_lock' = NoThread
  /\ pc' = [pc EXCEPT ![t] = "idle"]
  /\ new_id' = [new_id EXCEPT ![t] = 0]
  /\ UNCHANGED <<stateVars, sst, files, wal, wal_open, synced, op, writes, latest>>

-----------------------------------------------------------------------------
(* sync() *)

(* Mutant: replay keeps the first frame of a key. *)
ReplayedFirst(fs, k) ==
  LET at == {i \in DOMAIN fs : fs[i].key = k}
  IN  IF at = {} THEN Absent ELSE fs[CHOOSE i \in at : \A j \in at : i <= j].ent

(* The entry that replaying frames leaves for a key: the last one's. *)
Replayed(fs, k) ==
  LET at == {i \in DOMAIN fs : fs[i].key = k}
  IN  IF at = {} THEN Absent ELSE fs[CHOOSE i \in at : \A j \in at : j <= i].ent

(* Mutant: fsync without fflush. *)
SyncUnflushed(c) ==
  /\ life = "up" /\ pc[c] = "idle" /\ "sync" \in Calls
  /\ state.memtable \in wal_open
  /\ durable' = [k \in Keys |-> LaterOf(durable[k], Replayed(wal[state.memtable], k))]
  /\ UNCHANGED <<stateVars, sst, files, wal, wal_open, synced, manifest, threadVars,
                 writes, latest>>

(* fflush and fsync of the WAL of the active MemTable, and no other. *)
SyncActive ==
  /\ synced' = [synced EXCEPT ![state.memtable] = Len(wal[state.memtable])]
  /\ durable' = [k \in Keys |-> LaterOf(durable[k], Replayed(wal[state.memtable], k))]

Sync(c) ==
  /\ life = "up" /\ pc[c] = "idle" /\ "sync" \in Calls
  /\ state.memtable \in wal_open
  /\ SyncActive
  /\ UNCHANGED <<stateVars, sst, files, wal, wal_open, manifest, threadVars,
                 writes, latest>>

-----------------------------------------------------------------------------
Put(c)    == \E k \in KeysOf[c], sgn \in {1, -1} : PutLog(c, k, sgn)
FreezeStep(c) == FreezeBegin(c) \/ FreezeSwap(c) \/ FreezeRecord(c)
FlushStep(t)  == FlushBegin(t) \/ FlushEmpty(t) \/ FlushSwap(t) \/ FlushRecord(t)

ClientStep(c) ==
  \/ Put(c) \/ PutInsert(c) \/ PutCheck(c)
  \/ ForceFreeze(c) \/ FreezeStep(c)
  \/ ForceFlush(c) \/ FlushStep(c)
  \/ Sync(c)

FlushThreadStep == TriggerFlush \/ FlushStep(FlushThread)

Next == (\E c \in Clients : ClientStep(c)) \/ FlushThreadStep

Spec == Init /\ [][Next]_wpVars

-----------------------------------------------------------------------------
(* Properties *)

(* The steps of a compaction are those of LsmStorage. *)
CompactionSteps == {"compact", "apply", "compact_record", "remove"}

Steps == {"idle", "logged", "inserted", "freeze", "freeze_swap", "freeze_record",
          "flush", "flush_swap", "flush_record"} \cup CompactionSteps

Write == [key : Keys \cup {-1}, ent : Int, into : Ids]
Frame == [key : Keys, ent : Int]

Level == [id : Nat, ssts : Seq(Ids)]

LsmStorageState ==
  [memtable : Ids, imm_memtables : Seq(Ids), l0_sstables : Seq(Ids),
   levels : Seq(Level), sstables : SUBSET Ids]

(* Every variable has the type its declaration in lsm_storage.h, mem_table.h *)
(* or wal.h gives it. *)
TypeOK ==
  /\ life \in {"up", "closing", "closed", "destroyed", "down"}
  /\ state \in LsmStorageState
  /\ mem \in [Ids -> Table] /\ sst \in [Ids -> Table]
  /\ approx_size \in Nat
  /\ files \in SUBSET Ids /\ wal_open \in SUBSET Ids
  /\ wal \in [Ids -> Seq(Frame)]
  /\ synced \in [Ids -> Nat]
  /\ manifest = [open |-> manifest.open, file |-> manifest.file, pos |-> manifest.pos]
  /\ manifest.open \in BOOLEAN /\ manifest.pos \in Nat
  /\ next_sst_id \in Nat
  /\ state_lock \in Threads \cup {NoThread}
  /\ pc \in [Threads -> Steps]
  /\ op \in [Clients -> Write]
  /\ new_id \in [Threads -> Ids]
  /\ writes \in Nat /\ latest \in [Keys -> Int] /\ durable \in [Keys -> Int]

(* get() of every key answers with the value put last, whatever freezes    *)
(* and flushes are under way: no write is lost, and no older value comes   *)
(* back, while its entry moves from the MemTable to the SSTables.          *)
ReadsLatest == life # "down" => \A k \in Keys : Get(k) = Seen(latest[k])

(* MemTable::put never reaches a MemTable that was frozen, so the SSTable  *)
(* that force_flush_next_imm_memtable builds of it without state_mutex     *)
(* misses no write.                                                        *)
FrozenUnchanged ==
  [][\A i \in DOMAIN state.imm_memtables :
        mem'[state.imm_memtables[i]] = mem[state.imm_memtables[i]]]_wpVars

(* Why ReadsLatest is kept, as an inductive invariant.  The ids of the     *)
(* MemTables and of the SSTables never meet, though a flush gives its      *)
(* SSTable the MemTable's id, ...                                          *)
IdsApart ==
  LET imm == state.imm_memtables IN
  /\ state.memtable < next_sst_id /\ state.memtable \notin state.sstables
  /\ \A i \in DOMAIN imm : /\ imm[i] < next_sst_id /\ imm[i] # state.memtable
                            /\ imm[i] \notin state.sstables
                            /\ \A j \in DOMAIN imm : imm[i] = imm[j] => i = j
  /\ \A id \in state.sstables : id < next_sst_id

(* ... every table of L0 and the levels is open, and L0 is not used when   *)
(* flushes make tiers, ...                                                 *)
TablesOpen ==
  /\ \A i \in DOMAIN state.l0_sstables : state.l0_sstables[i] \in state.sstables
  /\ \A l \in DOMAIN state.levels : \A i \in DOMAIN state.levels[l].ssts :
        state.levels[l].ssts[i] \in state.sstables
  /\ ~FlushToL0 => state.l0_sstables = <<>>

(* ... a put() in the middle still has the active MemTable, ...             *)
PutHolds ==
  \A c \in Clients : pc[c] = "logged" =>
    op[c].into = state.memtable /\ op[c].key \in Keys /\ op[c].ent # Absent

(* ... a freeze, a flush or the result of a compaction in the middle has    *)
(* state_lock, ...                                                         *)
LockedSteps ==
  {"freeze_swap", "freeze_record", "flush_swap", "flush_record", "compact_record"}

LockHolds == \A t \in Threads : pc[t] \in LockedSteps => state_lock = t

(* ... the new MemTable of a freeze is unknown to the others and empty, ... *)
FreezeHolds ==
  \A t \in Threads : pc[t] = "freeze_swap" =>
    /\ new_id[t] < next_sst_id /\ new_id[t] # state.memtable
    /\ new_id[t] \notin state.sstables
    /\ \A i \in DOMAIN state.imm_memtables : new_id[t] # state.imm_memtables[i]
    /\ mem[new_id[t]] = EmptyTable

(* ... and the SSTable a flush has built is still the oldest immutable      *)
(* MemTable.                                                               *)
FlushHolds ==
  \A t \in Threads : pc[t] = "flush_swap" =>
    /\ state.imm_memtables # <<>> /\ new_id[t] = OldestImm
    /\ sst[new_id[t]] = mem[new_id[t]]

(* The entry get() finds is the one inserted last, or both are tombstones  *)
(* or missing: compaction to the bottom drops a tombstone.                 *)
EntryIsLatest == \A k \in Keys : Seen(Entry(state, mem, k)) = Seen(latest[k])

(* The conjunction is inductive: each part needs the others. *)
IInv ==
  /\ IdsApart /\ TablesOpen
  /\ PutHolds /\ LockHolds /\ FreezeHolds /\ FlushHolds
  /\ EntryIsLatest

(* The MemTables in memory: the active and the immutable ones. *)
LiveMemtables ==
  {state.memtable} \cup {state.imm_memtables[i] : i \in DOMAIN state.imm_memtables}

(* For key k MemTable::recover_from_wal would rebuild every MemTable in    *)
(* memory as it is, but for a write put() has logged and not yet inserted. *)
Replays(k) ==
  life # "down" /\ EnableWal =>
    \A id \in LiveMemtables :
      \/ Replayed(wal[id], k) = mem[id][k]
      \/ id = state.memtable /\ \E c \in Clients : pc[c] = "logged" /\ op[c].key = k

OneWriter(k) == \A c, d \in Clients : k \in KeysOf[c] \cap KeysOf[d] => c = d

(* Replaying the WALs rebuilds the MemTables, whatever MemTable a write    *)
(* found and however freezes come in between, for the keys that no two     *)
(* threads write.                                                          *)
WalMatchesMemtable == \A k \in Keys : OneWriter(k) => Replays(k)

(* Every call returns: no thread waits forever for state_lock or           *)
(* state_mutex.                                                            *)
CallsReturn == \A t \in Threads : pc[t] # "idle" ~> (pc[t] = "idle" \/ life = "down")

(* The flush thread keeps the list of immutable MemTables below the limit. *)
ImmDrained ==
  Len(state.imm_memtables) >= NumMemtableLimit
    ~> (Len(state.imm_memtables) < NumMemtableLimit \/ life = "down")

(* Operations that were started run on; whether new ones start is up to    *)
(* the callers, but the flush thread polls for ever.                       *)
Fairness ==
  /\ \A c \in Clients : /\ WF_wpVars(PutInsert(c)) /\ WF_wpVars(PutCheck(c))
                        /\ WF_wpVars(FreezeStep(c)) /\ WF_wpVars(FlushStep(c))
  /\ WF_wpVars(TriggerFlush) /\ WF_wpVars(FlushStep(FlushThread))

FairSpec == Spec /\ Fairness

-----------------------------------------------------------------------------
(* What the documentation says and the code does not do. *)

(* README: "When the buffer fills, it is flushed to an immutable on-disk   *)
(* file": no flush brings the process down.                                *)
FlushesSucceed == life # "down"
=============================================================================
