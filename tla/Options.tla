------------------------------- MODULE Options -------------------------------
(***************************************************************************)
(* LsmStorageOptions and the compaction options.  Sizes are counted in     *)
(* entries instead of bytes.                                               *)
(***************************************************************************)
EXTENDS Integers, Sequences, FiniteSets

CONSTANTS
  CompactionOptions,  \* a record: type and the fields of that strategy
  EnableWal,          \* enable_wal
  TargetSstSize,      \* target_sst_size, for the active MemTable
  SstEntries,         \* target_sst_size, for the tables compaction writes
  NumMemtableLimit    \* num_memtable_limit

ASSUME OptionsAssumption ==
  /\ CompactionOptions.type \in {"NoCompaction", "Simple", "Leveled", "Tiered"}
  /\ CompactionOptions.type \in {"Simple", "Leveled"} =>
       CompactionOptions.max_levels \in Nat \ {0}
  /\ CompactionOptions.type = "Tiered" =>
       CompactionOptions.num_tiers \in Nat \ {0} /\ CompactionOptions.max_merge_width \in Nat
  /\ EnableWal \in BOOLEAN
  /\ TargetSstSize \in Nat /\ SstEntries \in Nat \ {0}
  /\ NumMemtableLimit \in Nat

(* CompactionController::flush_to_l0 *)
FlushToL0 == CompactionOptions.type \in {"Leveled", "Simple", "NoCompaction"}

(* LsmStorageState::create *)
CreateLevels ==
  CASE CompactionOptions.type \in {"Leveled", "Simple"} ->
         [l \in 1 .. CompactionOptions.max_levels |-> [id |-> l, ssts |-> <<>>]]
    [] CompactionOptions.type = "Tiered" -> <<>>
    [] CompactionOptions.type = "NoCompaction" -> <<[id |-> 1, ssts |-> <<>>]>>

CreateState ==
  [memtable |-> 0, imm_memtables |-> <<>>, l0_sstables |-> <<>>,
   levels |-> CreateLevels, sstables |-> {}]

(* Mutant: the flushed table goes to the end of L0, where the oldest are. *)
AddFlushedLast(st, id) ==
  IF FlushToL0
    THEN [st EXCEPT !.l0_sstables = Append(@, id)]
    ELSE [st EXCEPT !.levels = Append(@, [id |-> id, ssts |-> <<id>>])]

(* Mutant: only the two newest tables stay. *)
AddFlushedOfTwo(st, id) ==
  LET cut(ts) == SubSeq(ts, 1, IF Len(ts) < 2 THEN Len(ts) ELSE 2)
  IN  IF FlushToL0
        THEN [st EXCEPT !.l0_sstables = cut(<<id>> \o @)]
        ELSE [st EXCEPT !.levels = cut(<<[id |-> id, ssts |-> <<id>>]>> \o @)]

(* A flushed table becomes the newest of L0, or the newest tier. *)
AddFlushed(st, id) ==
  IF FlushToL0
    THEN [st EXCEPT !.l0_sstables = <<id>> \o @]
    ELSE [st EXCEPT !.levels = <<[id |-> id, ssts |-> <<id>>]>> \o @]

(* The elements of a sequence at a set of its indices, in their order. *)
Pick(s, at) ==
  LET nth(j) == CHOOSE i \in at : Cardinality({m \in at : m <= i}) = j
  IN  [j \in 1 .. Cardinality(at) |-> s[nth(j)]]

(* The loops of apply_compaction_result that copy a list of ids and leave  *)
(* out those that were compacted.                                          *)
Without(s, compacted) == Pick(s, {i \in DOMAIN s : s[i] \notin compacted})

(* generate_compaction_task returned std::nullopt *)
NoTask == [type |-> "None"]

(* The task of the leveled strategies; upper_level 0 stands for nullopt,   *)
(* that is L0.                                                             *)
LevelTask(type, upper_level, upper, lower_level, lower) ==
  [type |-> type, upper_level |-> upper_level, upper_level_sst_ids |-> upper,
   lower_level |-> lower_level, lower_level_sst_ids |-> lower,
   bottom |-> lower_level = CompactionOptions.max_levels]
=============================================================================
