# A TLA+ model of mini-lsm-cpp

This directory specifies the storage engine of mini-lsm-cpp: how a write travels
from `put()` through the write-ahead log and the MemTables to SSTables, how
compaction reorganises those, and what survives `close()`, crashes and `open()`.
TLC checks the specifications on small instances; TLAPS proves, for every value
of the constants, the central results about the write path, the write-ahead log,
compaction beside it, the order of the levels, recovery, scans and iterators, and
reads of tables through the block cache.

    tlc -workers 2 -config lsm_simple.cfg MCLsmStorage     # one run
    tlapm LsmStorageProofs.tla                             # the proofs of one module

PROJECT.json lists the runs, the mutants that show each property can fail, the
source lines behind every definition, the findings and the hazards.

## 1. The system

| Component (src/) | State | Operations |
|---|---|---|
| `LsmStorageInner` (`src/lsm_storage.cpp`) | `state`, a shared pointer to an immutable-by-convention `LsmStorageState` (active MemTable, immutable MemTables, L0, levels or tiers, open tables); `next_sst_id`; `state_mutex` (shared), `state_lock` | `get`, `put`, `del`, `scan`, `force_freeze_memtable`, `force_flush_next_imm_memtable`, `sync`, `open` |
| `MemTable` (`src/mem_table.cpp`) | a sorted map, its size, its own shared mutex, maybe a WAL | `put`, `get`, `scan`, `flush`, `sync_wal`, `recover_from_wal` |
| `Wal` (`src/wal.cpp`) | a stdio file with its buffer, a mutex | `put`, `put_batch` (no caller), `sync`, `recover`, destructor |
| `Manifest` (`src/manifest.cpp`) | a file descriptor and its offset | `create`, `add_record`, `recover` |
| Compaction (`src/compact.cpp`, `src/compact/*.cpp`) | none of its own: works on copies of the state | `trigger_compaction`, `force_full_compaction`, `compact`; per strategy `generate_compaction_task`, `apply_compaction_result` |
| `MiniLsm` | a flush thread, a compaction thread, `stop_flag` | `open`, `close`, `force_flush`, ... |
| Iterators (`include/mini_lsm/iterators.h`, `src/iterators`) | cursors, a heap | `MergeIterator`, `TwoMergeIterator`, `SstConcatIterator`, `MemTableIterator`, `LsmIterator`, `FusedIterator` |
| `SsTable`, blocks, Bloom filter (`src/table`, `src/block`) | immutable files | build, open, seek, iterate |
| `BlockCache` (`src/block_cache.cpp`) | an LRU list and a map under a mutex | `get`, `insert` |
| CLI, benchmarks | | callers of `MiniLsm` |

**How they interact.** Client threads and the two background threads share one
`LsmStorageInner`. A `put()` holds `state_mutex` shared while `MemTable::put`
appends to the WAL (under the WAL's mutex) and then inserts into the map (under
the MemTable's mutex): two short critical sections, one after the other. Every
change of structure copies the state, changes the copy and swaps the pointer
under `state_mutex` held exclusively; `state_lock` serialises freezes, flushes
and the application of compaction results. The manifest record of a change is
written after the swap, still under `state_lock`. Compaction makes its task from
one copy of the state, does its I/O on a second one with no lock held, and
applies the result to a third.

**What is hard.** A freeze or flush that overtakes a write; a size check that is
stale when acted upon; a compaction task applied to a state that has moved on; a
crash between a swap, its manifest record and the removal of files; torn records;
repeated restarts; level sizes that grow and shrink over many rounds; threads
waiting for each other. PROJECT.json lists these as hazards at their lines.

**What makes each component correct.**

* Write path: a read answers the newest write whatever freezes and flushes are
  under way; a frozen MemTable never changes; to its callers the engine is one
  map; every call returns; immutable MemTables do not pile up.
* WAL: replay rebuilds the MemTable; what `sync()` covered is found after a crash.
* Manifest: replaying it gives the structure in memory; it never names a missing
  file.
* Compaction: no read changes; no input moves under a task; levels stay sorted;
  no open table is lost or left behind; it comes to rest.
* `close()` and `open()`: nothing is lost.
* Iterators: an iterator over several tables yields every key once, in order, with
  the entry of the first table that holds it; `scan()` is a snapshot of the store at
  one moment of its call, however late its iterator is read.
* SSTables: what was added is what is read, whatever blocks it falls into; a filter
  never rules out a key that is there.
* Block cache: it holds the blocks used last, and each one is its table's.

## 2. The modules

| Module | What it models |
|---|---|
| `Tables` | the contents of tables and how they are combined: merge, concatenation, the SSTable half of `get()`, splitting of compaction output |
| `Options` | `LsmStorageOptions`, `LsmStorageState::create`, `flush_to_l0`, tasks, the loops that leave compacted tables out of a list |
| `ManifestLog` | the manifest file: records as runs of cells at offsets, writing, tearing, reading back |
| `WritePath` | `put`, `del`, `get`, freeze, flush, `sync` and the flush thread, in one lifetime of the process |
| `KVStore` | the abstract promise: one map, writes that take effect between call and return |
| `WritePathKV` | the refinement mapping from `WritePath` to `KVStore` |
| `SimpleLeveled`, `Leveled`, `Tiered` | the three strategies as pure operators |
| `CompactionController` | dispatch, `compact()`, `ForceFull` |
| `CompactionLoop` | flushes and whole compactions in turn: many rounds of one strategy |
| `LsmStorage` | `WritePath` plus compaction step by step, I/O errors, `close()`, crashes and `open()` |
| `Iterators` | `MergeIterator`, `TwoMergeIterator`, `SstConcatIterator`, `LsmIterator` and how `get()`, `scan()` and `compact()` stack them, as operators from an iterator to the one it becomes |
| `IteratorStack` | those iterators at work on tables that do not change: `get()`, `scan()`, `compact_generate_sst_from_iter` |
| `Scan` | `scan()` and its iterator beside the whole engine (extends `LsmStorage` and `Iterators`) |
| `Block` | `BlockBuilder`, the encoded block, `BlockIterator` |
| `SsTable` | `SsTableBuilder`, block meta data, the Bloom filter, `read_block`, `find_block_idx` |
| `BlockCache` | the LRU list and its map |
| `TableReads` | threads with an `SsTableIterator` each and one `BlockCache` between them |
| `TablesProofs` | lemmas on reading lists of tables and on the iterators over them |
| `WritePathProofs` | theorems about `WritePath`, its refinement of `KVStore` and its WALs |
| `CompactionProofs` | lemmas on replacing tables of a state by their merge, on tasks from generation to application, and on levels in key order |
| `LsmStorageProofs` | theorems about `LsmStorage` until the directory is opened again |
| `RecoveryProofs` | theorems about what `LsmStorage` leaves on disk: manifest, SSTables and WALs |
| `ScanProofs` | theorems about `Scan` |
| `IteratorStackProofs` | theorems about `IteratorStack` |
| `TableReadsProofs` | theorems about tables and `BlockCache` as `TableReads` uses them |
| `MCWritePath`, `MCLsmStorage`, `MCCompactionLoop`, `MCScan`, `MCIteratorStack`, `MCTableReads` | small instances |

`LsmStorage` EXTENDS `WritePath` and `CompactionController` and so shares their
state; `CompactionLoop` INSTANCEs the controller with the options of the scenario
that the initial state picks.

**Data.** A table is a function from keys to integers: 0 is "no entry", `n` the
value stored by the `n`-th write, `-n` its tombstone. All values differ, so a
stale or resurrected value is always visible. Sizes are counted in entries
instead of bytes (`TargetSstSize`, `SstEntries`; `approximate_size` counts a key
and a value as 1 each, and like the code it only grows). In the engine's modules
Bloom filters and key ranges, which only skip tables that do not hold the key, are
left out; `Iterators` has the key ranges and lets the filter pass any further table,
and `SsTable` has the filter itself. In `Block` and `SsTable` keys are sequences of
bytes, because prefixes matter there, a value is its length, and a 16-bit field holds
its number modulo `FieldLimit`; `compact_generate_sst_from_iter` still cuts its output
by entries, while the code's estimate counts finished blocks only. A manifest record is a run of cells of a width that depends on its type, because which
records an overwrite destroys depends on their lengths; a cell is intact only as
part of its whole record, which is what length and CRC32 establish.

**Control.** `pc` says where a thread is; one action is one critical section or
one piece of I/O:

| Action of `WritePath` | Code |
|---|---|
| `PutLog`, `PutInsert`, `PutCheck` | `LsmStorageInner::put`: WAL append, insertion, size check and release of `state_mutex` |
| `FreezeBegin`, `FreezeSwap`, `FreezeRecord` | `force_freeze_memtable`: id and WAL file; swap; manifest record |
| `FlushBegin`, `FlushSwap`, `FlushRecord` | `force_flush_next_imm_memtable`: build the SST; swap; manifest record |
| `FlushEmpty` | the same on an empty MemTable: `SsTable::open` takes `front()` of an empty vector, and the process dies |
| `TriggerFlush`, `ForceFreeze`, `ForceFlush` | the callers |
| `Sync` (`SyncActive`) | `sync()`: `fflush` and `fsync` of the active MemTable's WAL, of no other |

| Action of `LsmStorage` | Code |
|---|---|
| `BeginCompaction` | the first half of `trigger_compaction()` or `force_full_compaction()`: the task (`TriggeredTasks`, `ForceFullTasks`), from a copy of the state |
| `Compact`, `CompactApply`, `CompactRecord`, `CompactRemove` | merge into new files; swap under both locks; record; removal of the input files |
| `FlushFails`, `CompactFails` | `FileObject::create` throws: a file is missing or unfinished, the thread loops catch the exception and try again |
| `CloseBegin`, `CloseFreeze`, `CloseFlush`, `CloseDone` | `MiniLsm::close`: without a WAL it freezes and flushes everything, with one it ends with `SyncActive` |
| `Destroy` | the closed object goes away, and `Wal::~Wal` writes out the buffers of all its WALs |
| `DestroyLate` | it goes away after the directory was opened again: the frames in `buffered` reach files that `open()` has read already |
| `Crash` | the process is killed: memory is lost, files stay, a WAL keeps at least what was synced, the manifest may end in a torn record |
| `Open` | `LsmStorageInner::open` on what is there |

| Action of `Scan` | Code |
|---|---|
| `ScanCall`, `ScanMemtables`, `ScanReturn` | `LsmStorageInner::scan`: the pointer under `state_mutex`; the copies of the MemTables; the iterators on tables |
| `ScanNext`, `ScanDone` | the caller reads on; the iterator is dropped |
| `EngineStep` | any step of `LsmStorage` |

| Action of `TableReads` | Code |
|---|---|
| `Create` | `create_and_seek_to_key`, `create_and_seek_to_first` |
| `GetHit`, `GetMiss`, `Load`, `Insert` | `read_block_cached`: `try_get_with` holds the mutex of the cache in `get` and in `insert`, not in between |
| `ReadNext`, `Done` | `SsTableIterator::next`, and its end |

A removed file stays readable through the descriptor a table holds (`FileObject`
shares it), so `Scan` reads `sst[id]` whether or not `id` is in `files`.
`synced` counts the frames of a WAL that are certainly in its file; after a crash, or
when the directory is opened next to an object that is closed and not destroyed, any
number of frames from there on may be (`Cuts`). A flush does not raise it: the buffer of
the flushed MemTable is written when the last reference goes away, and its WAL is not
read any more. `Compact` takes the ids of all its outputs in one step; in the code
another thread may take one in between, so that the outputs' ids have gaps.
`IteratorStack` has one action per call of an iterator and of the loop that fills
the output of a compaction.

`get()` is an operator: it holds `state_mutex` shared to its end, so nothing it
reads below the active MemTable can change, and it takes effect when it reads
that one. History variables record what properties compare with: `writes`
numbers the writes, `latest` is the entry inserted last for every key, `durable`
the newest entry that a `sync()` or a recorded flush covers; `stores` (`Scan`) has
the contents the store went through during a call of `scan()`, `recency`
(`BlockCache`) the blocks in the order of their last use, `entries` (`TableReads`)
what was added to every table.

Operators whose comment begins with "Mutant" are plausible mistakes in the
definition that follows them. Nothing uses them; substituting one for its original
must make the property named in PROJECT.json fail, which shows that the property
depends on that piece of code.

## 3. What is checked

| Run | Instance | Distinct states | Shows |
|---|---|---|---|
| `write_path` | 2 clients, 2 keys (key 1 has one writer, key 2 two), 3 writes, two freezes, WAL on, `sync` | 44 k | `TypeOK`; `ReadsLatest`; `IInv`, the invariant of the proofs; `WalMatchesMemtable`; `FrozenUnchanged`; `ImplementsKV`; under fairness `CallsReturn` and `ImmDrained` |
| `lsm_simple` | 1 client, flush and compaction threads, 2 keys, 3 writes or deletes, WAL, `sync`, `close`, the end of the closed object before or after the next `open()`, flushes and compactions that fail, crash, one reopening | 714 k | `LsmTypeOK`, `ReadsLatest`, `InputsUnmoved`, `TablesPresent`, `ManifestMatchesState`, `OpenSucceeds`, `DurableSurvives`, `CloseKeepsAll` |
| `lsm_leveled` | the same threads, 6 puts, MemTables of two entries | 265 k | `ReadsLatest`, `InputsUnmoved`, `LevelsSorted` |
| `lsm_tiered` | the same threads, 3 writes or deletes, `close` without a WAL, crashes that tear manifest records, one reopening | 116 k | `ReadsLatest`, `InputsUnmoved`, `CloseKeepsAll` |
| `scan` | a scan, a client that writes, deletes and calls `force_full_compaction`, the flush thread, 2 keys, MemTables of one value, flushes and compactions that fail | 612 k | `ReadsLatest`, `TablesPresent`, `SnapshotHeld`, `ScanIsSnapshot`, `OpenTablesImmutable` |
| `iterators` | 3 keys; up to 2 entries anywhere in 2 MemTables, 3 tables of L0 and 2 levels, or any entries in L0 and a level; scans with any bounds at the middle key; `get()` with any false positives; three kinds of compaction | 330 k | `ScanExact`, `GetExact`, `GenerateExact` |
| `table_reads` | one reader of every table over 5 keys with values that are empty, short, or longer than a block; two readers of two tables with room in the cache for 0 to 3 blocks | 197 k | `ReadsExact`, `FilterKeepsKeys`, `CacheIsLru` |
| `loop` | each strategy for 3 to 5 flushed tables over 2 or 3 keys | 21 k | `TypeOK`, `ReadsLatest`, `LevelsSorted`, `AssertionsHold`, `NoOrphans`, and under fairness `Settles` |

The remaining runs show that a sentence of the documentation does not hold of the
code; each is a finding in PROJECT.json.

| Run | Sentence | What happens |
|---|---|---|
| `clean_restarts` | "This means zero data loss across clean restarts." (README.md:354) | `Manifest::recover` leaves the descriptor at offset 0: the second process overwrites the oldest records, and the third forgets tables |
| `torn_manifest` | "The engine replays all valid records on startup. Corrupt records stop replay (rather than crashing)." (README.md:392) | a record cut short makes `recover()` fail as a whole, and `open()` goes on with an empty state |
| `empty_flush` | "When the buffer fills, it is flushed to an immutable on-disk file" (README.md:30) | two threads act on the same size check; the second freezes an empty MemTable, whose flush is undefined behaviour |
| `loop_leveled_shrink` | "Newer values always shadow older ones" (README.md:73) | the target sizes follow the bottom level's present size; when deletes shrink it, L0 is compacted below a level that holds older entries |

### Known limits of the properties

Some properties hold only under a condition that the runs' instances meet. The
conditions are part of the result:

* `DurableSurvives`, `OpenSucceeds`, `ManifestMatchesState` and `CloseKeepsAll`
  speak of the first lifetime of a directory (`opens = 1`): from the second on the
  manifest is overwritten from its start (`clean_restarts`).
* `CloseKeepsAll` with a WAL speaks of an object that was closed and destroyed. `close()`
  then calls `sync()` (`src/lsm_storage.cpp:443`), which is for the active MemTable's
  WAL; the last frames of immutable MemTables that were not flushed stay in stdio
  buffers until `Wal::~Wal`. An `open()` that comes before it may miss them, as after
  `db->close(); db = MiniLsm::open(...)` in `bin/mini_lsm_cli.cpp:32-37` if the directory
  is the same: the old object is destroyed by the assignment, when `open()` has returned.
  `DurableSurvives`, which covers what `sync()` and flushes promise, holds in these states,
  too. Without a WAL `close()` flushes everything and `CloseKeepsAll` needs no destructor.
* `InputsUnmoved` sees flushes come between a task and its result. Other compactions
  cannot: the compaction thread is alone, or there is none and clients call
  `force_full_compaction()`, whose task has no assertion.
* `DurableSurvives` is checked with one client. With a second one, a `put()` and
  `sync()` between `FreezeSwap` and `FreezeRecord` are durable in a WAL that the
  manifest does not name yet, and a crash there loses them.
* `DurableSurvives` speaks of `sync()` and flushes. A `put()` that merely returned
  is in the stdio buffer of its WAL and may be lost with the process.
* `WalMatchesMemtable` speaks of keys with one writer. Two threads that put the same
  key can take the WAL's mutex in one order and the MemTable's in the other
  (`src/mem_table.cpp:43`); replay then ends with a value `get()` no longer answered,
  although README.md:69 says "both logs replay to reconstruct exact pre-crash state".
  The second key of `write_path` has two writers and reaches such states.
* `ReadsLatest` in `scan` has one caller of `force_full_compaction()`. Two
  overlapping calls lose data: the later one finds the tables of its task no
  longer open, merges what is left and replaces L1 by it.
* `LevelsSorted` in `lsm_leveled` covers one lifetime: leveled recovery appends
  outputs to a level without sorting it.
* `ReadsLatest` for the leveled strategy is checked with puts, for deletes see
  `loop_leveled_shrink`; for the tiered strategy with `max_merge_width` unset. With it
  set to 2 in the `tiered` scenario of `MCCompactionLoop` and any tables over keys 1
  and 2, `ReadsLatest` fails: `bottom_tier_included` (`src/compact/tiered.cpp:50`)
  compares the wrong way, so a merge of the newest tiers drops tombstones above live
  values, and README.md:73 says they "are dropped only when compacting to the bottom
  level". Merges without output then also give several tiers the id 0, which fails
  the assertions of `apply_compaction_result`.
* I/O errors strike the files of SSTables only, and of those the ids in `IoErrors`.
  Errors of the WAL and of the manifest are ignored by the code, so no property
  could hold of them. An error in `close()` leaves the destructor and is left out.
* `ReadsExact` assumes keys and values shorter than `FieldLimit` and blocks of at most
  `FieldLimit` bytes (2^16 in the code, which checks neither). Checksums match.
* `scan` has one scan at a time and unbounded ones; bounds are the business of
  `iterators`. MemTables that are frozen when the scan starts are copied in one step
  with the active one: they no longer change (`FrozenUnchanged`, proved).

### Bounds

`MaxWrites` bounds the writes of a behaviour, `MaxId` the table ids, `MaxOpens` how
often the directory is opened, `MaxManifest` the length of the manifest when a
compaction starts, `flushes` in a scenario the tables flushed, `IoErrors` the ids
whose file may fail to be written (as often as it is tried), `MaxEntries` the entries
of a layout that uses all layers. `BlockSize`, `FieldLimit`, `HashLimit`, `RotateLimit`
and `MinBits` are the code's numbers scaled down: blocks take one to three entries,
and hashes wrap around. `MaxId` is applied
where an operation starts, and ids are reserved for what was already asked for
(`IdsReserved`), so that no operation is stuck half-way for want of an id. The
defaults are chosen so that the cases of interest happen: MemTables of one or two
entries freeze with nearly every write, `NumMemtableLimit = 1` keeps the flush
thread busy, an L0 trigger of 1 or 2 and output tables of one entry start a
compaction and split its result after two or three flushes, and there is room for
a second compaction, or a flush, while one is running. Three writes are enough for
an old and a new value of one key in two tables and another key beside them; two
suffice for `scan`, where each freezes a MemTable and a torn read would show the
second without the first. The
mutants confirm that the bounds reach what the properties are about.

Behaviours end when the bounds are used up and all threads are idle, as the real
system may rest; the runs therefore say `CHECK_DEADLOCK FALSE`. That no thread is
stuck in the middle of a call is `CallsReturn`.

### Fairness

`FairSpec` of `WritePath` is weakly fair to the steps of operations that were
started, since threads run on and mutexes are released, and to `TriggerFlush`, for
the flush thread polls in a loop; nobody has to start a call. Weak fairness
suffices for the locks because the number of writes is bounded: after the last
one, `state_mutex` and `state_lock` stay free until taken. Starvation of the
exclusive lock by an endless stream of shared holders, on which
`std::shared_mutex` promises nothing, is thus not covered. `FairSpec` of
`CompactionLoop` is weakly fair to `TriggerCompaction`, which the compaction thread
also calls in a loop.

## 4. What is proved

All of it for any finite set of keys, any clients, any options within the
assumptions, and any bounds.

| Module | Theorem | Statement |
|---|---|---|
| `WritePathProofs` | `TypeCorrect` | `Spec => []TypeOK` |
| | `Invariance` | `Spec => []IInv` |
| | `ReadsLatestCorrect` | `Spec => []ReadsLatest` |
| | `FrozenUnchangedCorrect` | `Spec => FrozenUnchanged` |
| | `Refinement` | `Spec => ImplementsKV` |
| | `WalMatchesMemtableCorrect` | `Spec => []WalMatchesMemtable` |
| `LsmStorageProofs` | `FirstLifeInvariant` | with `StrategyAssumed`: `LsmSpec /\ []OneCompaction => []FirstLife` |
| | `CompactionReadsLatest`, `CompactionInputsUnmoved`, `CompactionTablesPresent`, `CompactionTypes` | from it, while `opens = 1`: `ReadsLatest`, `InputsUnmoved`, `TablesPresent`, `LsmTypeOK` |
| | `CompactionsApart` | with any strategy, or a single client: `LsmSpec => []OneCompaction` |
| | `BackgroundCompaction` | the four properties for the simple and the tiered strategy, without `[]OneCompaction` |
| | `LeveledCompaction` | with the leveled strategy: `LsmSpec => [](opens = 1 => LevelsSorted /\ InputsUnmoved /\ TablesPresent)` |
| | `CompactionLevelsSorted` | with `StrategyAssumed`: `LsmSpec /\ []OneCompaction => [](opens = 1 => LevelsSorted)` |
| | `BackgroundLevelsSorted` | with any strategy but `NoCompaction`: `LsmSpec => [](opens = 1 => LevelsSorted)` (a tiered one as in `StrategyAssumed`) |
| `RecoveryProofs` | `ManifestFollowsState` | with `StrategyAssumed`: `LsmSpec /\ []OneCompaction => []ManifestMatchesState` |
| | `RecoveryOpens` | and no torn writes: `LsmSpec /\ []OneCompaction => []OpenSucceeds` |
| | `BackgroundRecovery` | both without `[]OneCompaction` when there is a compaction thread |
| | `CloseKeepsAllCorrect` | with `StrategyAssumed`, and one writer a key when there is a WAL: `LsmSpec /\ []OneCompaction => []CloseKeepsAll`; with a WAL the property is about the destroyed object (section 3) |
| | `DurableSurvivesCrash` | and no torn writes: `LsmSpec /\ []OneCompaction /\ [][SyncsRecorded]_vars => []DurableSurvives` |
| | `OneClientKeepsAll` | a single client, no torn writes: `ReadsLatest`, `InputsUnmoved`, `TablesPresent`, `OpenSucceeds`, `DurableSurvives` and `CloseKeepsAll`, with no temporal hypothesis |
| `ScanProofs` | `OpenTablesImmutableCorrect` | `ScanSpec /\ [](opens = 1) => OpenTablesImmutable`, any strategy |
| | `ScanSnapshot` | `ScanSpec /\ [](opens = 1 => ReadsLatest) => [](opens = 1 => SnapshotHeld)`, any strategy |
| | `ScanSnapshotCorrect` | the same without its hypothesis where `LsmStorageProofs` gives it |
| | `ScanIsSnapshotCorrect` | with `StrategyAssumed`: `ScanSpec /\ []OneCompaction => [](opens = 1 => ScanIsSnapshot)`, and without `[]OneCompaction` when there is a compaction thread |
| `IteratorStackProofs` | `ScanExactCorrect`, `GetExactCorrect`, `GenerateExactCorrect` | `Spec => []ScanExact`, `Spec => []GetExact`, `Spec => []GenerateExact` |
| `TableReadsProofs` | `CacheIsLruCorrect` | `Spec => []CacheIsLru` |
| | `CachedBlocksCorrect` | `Spec => []CachedBlocks` |
| | `FilterKeepsKeysCorrect` | `Spec => []FilterKeepsKeys` |
| | `ReadsExactCorrect` | `Spec => []ReadsExact` |

### Assumptions and hypotheses

The assumptions on constants are those of the modules, and TLC evaluates them in
every run: `KeysAssumption` (a finite set of naturals), `OptionsAssumption` (a
strategy with at least one level or tier), `ThreadsAssumption` (the background
threads are no clients and `NoThread` is no thread), `BoundsAssumption`,
`CallsAssumption`, `KeysOfAssumption`, `FaultsAssumption`. For tables,
`BlockAssumption`, `HashAssumption`, `ReadersAssumption` (keys are not empty and fit
their 16-bit length) and `ScenariosAssumption` (a table has entries, in key order and
with values that fit their length, and its blocks start where a 32-bit offset
reaches). For iterators, `LayoutsAssumption` (SSTables are not empty and no MemTables,
the tables of a level are in key order; there are at least two levels, which the
compactions among the calls need), `ScanBoundsAssumption` (also in `Scan`),
`SstEntriesAssumption`.
What `LayoutsAssumption` asks of the levels is what the theorems on `LevelsSorted`
prove of the engine.

Beyond these, the theorems about compaction have three hypotheses, each for a reason
in the code:

* **The first life of a directory** (`opens = 1`). From the second on the manifest is
  overwritten from its start, and what `open()` rebuilds need not be what there was
  (`clean_restarts`). Crashes are covered up to the moment the process is down.
* **`OneCompaction`**: no two compactions at a time. Without a strategy
  `force_full_compaction()` may be called by any client, nothing in it excludes a
  second call, and two that overlap lose data (section 3), so this is an obligation
  of the callers. With a strategy it is no hypothesis: `CompactionsApart` proves that
  the compaction thread alone compacts.
* **`StrategyAssumed`**: not the leveled strategy, and a tiered one without
  `max_merge_width`. `ReadsLatest` is false of the others (`loop_leveled_shrink`;
  tombstones dropped above older tiers).

`OpenTablesImmutableCorrect` and `ScanSnapshot` need neither of the last two, and
`LeveledCompaction` is about the leveled strategy alone: its reads may be stale, its
structure is in order.

The theorems about recovery add

* **`~TornWrites`**: a crash does not cut a manifest record short. With one that does,
  `recover()` fails as a whole (`torn_manifest`). `ManifestFollowsState` and
  `CloseKeepsAllCorrect`, which are not about crashes, do without.
* **one writer a key**, when there is a WAL. With two, the WAL may end with the older
  of their values (section 3).
* **`SyncsRecorded`**: no `sync()` between the swap of a freeze and its record
  (`src/lsm_storage.cpp:112`). The WAL it syncs then belongs to a MemTable that the
  manifest does not name yet.

`OneClientKeepsAll` derives the last two, and `OneCompaction`, from there being one
client.

### The arguments

**Write path.** `ReadsLatest` is not inductive: that a freeze or a flush leaves
reads alone depends on what the thread in the middle of it holds. `IInv` adds

* `IdsApart`: the ids of the MemTables and of the open tables never meet and are
  below `next_sst_id`, although a flushed SSTable takes its MemTable's id;
* `TablesOpen`: every table of L0 and the levels is open, and L0 is empty when
  flushes make tiers;
* `PutHolds`: a `put()` that has logged and not inserted still has the active
  MemTable. This is where holding `state_mutex` shared across both steps matters;
* `LockHolds`: a freeze or flush in the middle has `state_lock`;
* `FreezeHolds`: the new MemTable of a freeze is empty and nobody else's, so
  putting it in front changes no read;
* `FlushHolds`: the SSTable a flush built equals the oldest immutable MemTable, so
  moving it from the end of one list to the front of the next changes no read;
* `EntryIsLatest`: the entry found is the one inserted last. Both sides go through
  `Seen`, which takes a tombstone for nothing, because a compaction to the bottom
  drops tombstones.

The proof that a step keeps `IInv` has one lemma per group of actions and one step
per action. `Refinement` also needs `NoStrayWrite` (a client outside `put()` has no
write under way): insertion is then the step at which the write takes effect, every
other step is an invocation, a return or a stutter.

**Write-ahead log.** `WalIInv` adds `LogsOpen` (every MemTable in memory has its WAL,
and the one a freeze is about to swap in has an empty one) and `LoggedLast` (what a
`put()` between log and MemTable is about to insert is the last frame of its key). The
second is where the property would break for keys with two writers.

**Compaction.** `LsmIInv` is `IInv` and

* `StateHolds`: no table is in two places (`RefsApart`); the levels are as the
  strategy keeps them (`LevelsShape`: for tiers, each is named after its first table
  and only the last may be empty); id 0, the name of an empty tier, belongs to the
  oldest table (`ZeroOldest`); every open table has its file;
* `ThreadHolds` for every thread: the task of a compaction still fits the state its
  result will find (`TaskFits`), its output tables hold the merge of the inputs as
  they are now (`OutputHolds`), and tables that only a compaction knows, its output
  before and its input after the swap, have ids of their own (`HeldApart`).

`FirstLife` adds the types and `InputsUnmoved`, which hold of a process that went down
as well. The work is in two modules of lemmas.
`TablesProofs` reads lists of tables: `FirstHit` over a list taken apart
(`FirstHitCons`, `FirstHitSnoc`, `FirstHitConcat`, `FirstHitSegments`), with a part
replaced by its merge, tombstones kept or, at the end of the list, dropped
(`ReplacedPart`), and over the tables a sorted output is cut into (`SplitHit`).
`CompactionProofs` lifts that to a state in which the end of L0, a level or a run of
tiers is replaced (`L0Installed`, `LevelInstalled`, `TiersInstalled`), and
follows a task: generation makes one that fits (`GenerateFits`), flushes keep it
fitting (`FitsFlushed`), it then satisfies the assertions of
`apply_compaction_result` (`FitsAssert`), and applying its result leaves every reader
with what it saw (`FitsExchanges`).

**Levels in key order.** For the strategies of `StrategyAssumed` every level of a new
state is a part of an old one or the output as a whole (`LevelsFrom`), and the output
is cut from a merge in key order (`SplitInOrder`, `CutSorted`). `SortInv` therefore
only adds to `LsmIInv` that levels are in order, open tables not empty, and outputs not
yet applied in order (`OutputSorted`).

The leveled strategy replaces some tables of a level. `LeveledInv` has, of the state,
`Sound` (tables open, apart, not empty, levels in order) and, of a thread with a task,
`LeveledFits`: the inputs are still where they were, and each table of the lower level
that `find_overlapping_ssts` left out lies below or above all the inputs
(`LowerFits`). The output's keys come from the inputs (`FromInputs`), so what stays of
the lower level and the output are apart, and sorting them by first key gives a level
in order (`SortedInOrder`, `LeveledDone`). The proof groups the actions by what they do
to that: `Passes` (nothing), `Builds` (write tables nobody refers to), `Rearranges`
(swap the state).

**Recovery.** Reading a manifest and replaying it are recursive functions, and what
they compute is proved from the least counterexample. `Encodes(file, recs)` says that a
file holds records one after the other; then parsing gives those records back, and
`Applied` is what one record adds to what `open()` has. `ManifestHolds` states that the
replay of the manifest is the structure in memory (`Caught`) up to the one record that
the holder of `state_lock` has yet to write, and that all tables it names have their
files: this is why the order of swap, record and removal matters. `ManifestMatchesState`
and `OpenSucceeds` follow.

For contents, `open()` sees the MemTables as their WALs, newest first. `Ordered` says
that newer MemTables have greater ids, so that the order of ids in which `open()` lists
them is the order of age, and `TopIs` gives the entry a reader then finds
(`RecoveredTop`). `CloseKeepsAll` needs that `close()` leaves no thread in the middle of
anything, and without a WAL no entry in a MemTable (`Closed`), and that the destructors
leave no frame in a buffer (`WrittenOut`); `Lined` carries both. `DurableSurvives` follows a key through `Kept`: writes to newer
MemTables are newer (`Stamped`); what is durable is in a table that the manifest names
and all that is in MemTables is newer (`Stored`), or it is in the synced part of a WAL
that `open()` will read (`Logged`); and the record of a flush that is yet to be written
moves it from the second to the first (`Owes`). That a compaction on the way drops
tombstones changes nothing (`ReplacedPart`).

**Scans.** `EngineInv` is what survives without any assumption on the strategy or on
overlap: MemTables, open tables and outputs not yet applied have different ids below
the counter. Hence no step writes to a table that is open or that a scan holds
(`StepKeeps`), which is `OpenTablesImmutable`. `ScanInv` adds, for a scan that has the
pointer and not yet the copies of the MemTables, `ScanCalled`: as long as the MemTable
of its state is the active one, that state has the contents of now; once it is frozen,
it has those of an earlier moment of the call for good, since only the active MemTable
is written. `SnapshotHeld` follows when the copies are made, and stays because the
copies do not change and the tables are immutable. That it is the store that the scan
agrees with needs `ReadsLatest` at the moments of the call, which is why `ScanSnapshot`
has it as a hypothesis and `ScanSnapshotCorrect` takes it from `LsmStorageProofs`.

**Iterators.** An iterator is shown to be always in the one position that its tables and
a set of keys already passed determine: `RunAt` for the tables of a level, `MergeAt`,
`PairAt` and `StackAt` for the stack of `scan()`. A call of `next()` moves from the
position at some keys to the one with the least key of the rest passed too, which
covers the heap's order, the tables without that key and the change of table in a
level at once. `Reading` and `Listed` say of a scan that what it has yielded is what
the merge has up to there, between the bounds and without the deleted keys, and
`Written` says of `compact_generate_sst_from_iter` how many keys it has passed.

`ScanIsSnapshotCorrect` puts these together with `SnapshotHeld` and `SortInv`:
`ScanSound` says that the state a scan holds has tables that hold keys, in order in the
levels (`SnapshotSound`, taken from `SortInv` when the pointer is copied and kept because
those tables are immutable), that the copies of the MemTables are cut at the lower bound
(`CopiesSound`), and that the iterator is where `Reading` says (`ScanProceeds`).

**Tables.** Decoding a block gives the entries that were encoded, prefixes included;
the binary searches of `BlockIterator` and `find_block_idx` end at the first key not
below the one sought (least counterexample again, on the width of the interval). The
builder's loop keeps that its blocks, finished and not, are the entries added so far,
cut at some places (`Written`). `ReadsInv` then says of a reader where in the entries
it is (`Tracked`, `ReaderAt`), whatever the cache does in between.

**Block cache.** `CacheInv` has `CacheIsLru` place by place, and that no key is twice
in the order of use; then list and map have the same size, and eviction, which is
decided by the size of the map, removes the last element of the list exactly when the
order of use has one more key than the cache may hold. `BlocksInv` adds that a reader
about to insert still stands at the block it loaded.

TLC checked `IInv` (run `write_path`) and, outside the runs, `WalIInv`, `LsmIInv`,
`ScanInv` and `BlocksInv` as invariants of the same instances before they were proved;
of the other theorems it checked the properties themselves.

### Only model-checked

* Liveness (`CallsReturn`, `ImmDrained`, `Settles`): fairness and ENABLED are out of the
  prover's reach.
* The reads of the leveled strategy, which hold of some instances only.
* The second and later lives of a directory, and crashes that tear a manifest record:
  the findings show what goes wrong there, and what still holds is left to TLC
  (`lsm_simple` and `lsm_tiered` open the directory again).
* `CompactionLoop`, which adds many rounds and `NoOrphans` to what is proved of single
  compactions: it takes the controller by INSTANCE, with the options of a scenario that
  the initial state picks, where the lemmas have them as constants.

Induction over data is done by hand: the library's induction theorems have an operator
as a parameter, so a statement about a recursive function is proved from its least
counterexample.

## 5. What is not modelled, and the plan

Modelled: the write path, the manifest, the three strategies and full compaction,
background threads and their failures, `close()`, crashes and `open()`, scans and
iterators, the format of SSTables, Bloom filters and the block cache.

What is left is proof: `ReadsLatest` and `AssertionsHold` of `CompactionLoop` for the
scenarios of the simple and the tiered strategy from the lemmas of `CompactionProofs`,
and `NoOrphans`.

Not modelled:

* the bytes of WAL frames (a frame is whole or torn) and `Wal::put_batch`, which has
  no caller;
* JSON text and checksums, abstracted to "intact or not", and Snappy compression;
* reads that fail, and with them `FusedIterator::has_errored_`;
* errors of the WAL and of the manifest, which the code ignores;
* WAL files of flushed MemTables, which stay in the directory for ever;
* power failures that lose what was written and not fsynced: SSTable files are not
  fsynced at all and `sync_dir()` does nothing, so nothing could be promised;
* the CLI and the benchmarks, which are callers of the engine.
