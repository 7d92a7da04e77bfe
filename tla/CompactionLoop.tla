--------------------------- MODULE CompactionLoop ---------------------------
(***************************************************************************)
(* A compaction strategy at work: tables are flushed, and                  *)
(* trigger_compaction() runs to its end between flushes.  Without the      *)
(* interleavings of LsmStorage this reaches many more rounds, which is     *)
(* where levels grow, shrink and change their target sizes.                *)
(***************************************************************************)
EXTENDS Tables, SequencesExt

CONSTANTS
  SstEntries,    \* target_sst_size, for the tables compaction writes
  Scenarios,     \* by name: options, the shapes of flushed tables, how many
  MaxId          \* bound on table ids

(* A shape says what a flushed table holds of every key: 1 is a value, -1  *)
(* a tombstone, 0 nothing.                                                 *)
ASSUME LoopAssumption ==
  /\ MaxId \in Nat
  /\ \A s \in DOMAIN Scenarios :
       /\ Scenarios[s].flushes \in Nat
       /\ Scenarios[s].shapes \subseteq [Keys -> {-1, 0, 1}] \ {EmptyTable}

VARIABLES
  scenario,      \* which options the engine was opened with, and which workload
  st,            \* the LsmStorageState
  tables,        \* the contents of the open SSTables, by id
  next_sst_id,
  flushes,       \* history: how many tables were flushed
  latest         \* history: the entry written last for every key

vars == <<scenario, st, tables, next_sst_id, flushes, latest>>

(* The controller made for the options. *)
C == INSTANCE CompactionController WITH
       CompactionOptions <- Scenarios[scenario].options, EnableWal <- FALSE,
       TargetSstSize <- 0, NumMemtableLimit <- 0

Init ==
  /\ scenario \in DOMAIN Scenarios
  /\ st = C!CreateState
  /\ tables = [i \in {} |-> EmptyTable]
  /\ next_sst_id = 1
  /\ flushes = 0
  /\ latest = EmptyTable

(* The contents a flushed MemTable can have: the write number n, or its    *)
(* tombstone, for some keys.                                               *)
Batches(n) == {[k \in Keys |-> n * s[k]] : s \in Scenarios[scenario].shapes}

(* Mutant: the flushed table is not entered in the map of open tables. *)
FlushTableUnopened(b) ==
  /\ flushes < Scenarios[scenario].flushes /\ next_sst_id <= MaxId
  /\ tables' = (st.memtable :> b) @@ tables
  /\ st' = [C!AddFlushed(st, st.memtable) EXCEPT !.memtable = next_sst_id]
  /\ next_sst_id' = next_sst_id + 1
  /\ flushes' = flushes + 1
  /\ latest' = [k \in Keys |-> OrElse(b[k], latest[k])]
  /\ UNCHANGED scenario

(* The active MemTable is frozen and flushed: the SSTable keeps its id, the *)
(* next MemTable takes a new one.                                          *)
FlushTable(b) ==
  /\ flushes < Scenarios[scenario].flushes /\ next_sst_id <= MaxId
  /\ tables' = (st.memtable :> b) @@ tables
  /\ st' = [C!AddFlushed(st, st.memtable) EXCEPT
              !.sstables = @ \cup {st.memtable}, !.memtable = next_sst_id]
  /\ next_sst_id' = next_sst_id + 1
  /\ flushes' = flushes + 1
  /\ latest' = [k \in Keys |-> OrElse(b[k], latest[k])]
  /\ UNCHANGED scenario

(* trigger_compaction() *)
TriggerCompaction ==
  \E task \in {C!GenerateCompactionTask(st, tables)} \ {C!NoTask} :
  \E new \in {C!CompactOutput(st, tables, task)} :
    LET ids    == [i \in DOMAIN new |-> next_sst_id + i - 1]
        opened == [st EXCEPT !.sstables = @ \cup ToSet(ids)]
        gone   == C!FilesToRemove(opened, task)
    IN  /\ next_sst_id + Len(new) - 1 <= MaxId
        /\ \E written \in {tables @@ [i \in ToSet(ids) |-> new[i - next_sst_id + 1]]} :
             /\ st' = [C!ApplyCompactionResult(opened, written, task, ids, FALSE) EXCEPT
                         !.sstables = @ \ gone]
             /\ tables' = Restrict(written, opened.sstables \ gone)
        /\ next_sst_id' = next_sst_id + Len(new)
        /\ UNCHANGED <<scenario, flushes, latest>>

Next == (\E b \in Batches(flushes + 1) : FlushTable(b)) \/ TriggerCompaction

Spec == Init /\ [][Next]_vars
(* The compaction thread polls for ever. *)
FairSpec == Spec /\ WF_vars(TriggerCompaction)

-----------------------------------------------------------------------------
(* The tables, their ids and the history have their types. *)
TypeOK ==
  /\ C!Referenced(st) \subseteq 0 .. MaxId /\ st.sstables \subseteq 0 .. MaxId
  /\ tables \in [st.sstables -> Table]
  /\ next_sst_id \in 0 .. MaxId + 1
  /\ latest \in Table

(* No compaction changes what get() answers: an older value never comes    *)
(* back, and a tombstone is dropped only when nothing older is left below. *)
ReadsLatest == \A k \in Keys : Seen(SstEntry(st, tables, k)) = Seen(latest[k])

(* The levels are sorted, as SstConcatIterator asserts. *)
LevelsSorted == C!SortedLevels(st, tables)

(* The assertions of apply_compaction_result hold for the next task. *)
AssertionsHold ==
  LET task == C!GenerateCompactionTask(st, tables)
  IN  task # C!NoTask => C!ApplyAssert(st, task)

(* Every table that is open is in L0 or a level, once, and none is missing: *)
(* the ids listed there are those of the open tables, and as many.         *)
NoOrphans ==
  LET listed == Len(st.l0_sstables)
                + SumFunction([l \in DOMAIN st.levels |-> Len(st.levels[l].ssts)])
  IN  st.sstables = C!Referenced(st) /\ listed = Cardinality(st.sstables)

(* When no more tables are flushed, compaction comes to rest. *)
Settles == <>[](C!GenerateCompactionTask(st, tables) = C!NoTask)
=============================================================================
