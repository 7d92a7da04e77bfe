------------------------- MODULE CompactionController -------------------------
(***************************************************************************)
(* CompactionController: dispatches to the strategy of the options, and    *)
(* handles the strategy-independent ForceFull task itself.                 *)
(***************************************************************************)
EXTENDS SimpleLeveled, Tiered, Leveled

(* force_full_compaction: everything in L0 and L1 *)
ForceFullTask(st) ==
  [type |-> "ForceFull", l0_sstables |-> st.l0_sstables,
   l1_sstables |-> IF st.levels = <<>> THEN <<>> ELSE st.levels[1].ssts]

(* Mutant: L0 is cleared, with what was flushed since the task was made. *)
ForceFullApplyClears(st, task, output) ==
  [st EXCEPT !.levels = IF @ = <<>> THEN <<[id |-> 1, ssts |-> output]>>
                        ELSE [@ EXCEPT ![1].ssts = output],
             !.l0_sstables = <<>>]

ForceFullApply(st, task, output) ==
  [st EXCEPT !.levels = IF @ = <<>> THEN <<[id |-> 1, ssts |-> output]>>
                        ELSE [@ EXCEPT ![1].ssts = output],
             !.l0_sstables = Without(@, ToSet(task.l0_sstables))]

GenerateCompactionTask(st, tables) ==
  CASE CompactionOptions.type = "Leveled" -> LeveledGenerate(st, tables)
    [] CompactionOptions.type = "Tiered" -> TieredGenerate(st)
    [] CompactionOptions.type = "Simple" -> SimpleGenerate(st)
    [] CompactionOptions.type = "NoCompaction" -> NoTask

ApplyCompactionResult(st, tables, task, output, in_recovery) ==
  CASE task.type = "ForceFull" -> ForceFullApply(st, task, output)
    [] task.type = "Leveled" -> LeveledApply(st, tables, task, output, in_recovery)
    [] task.type = "Tiered" -> TieredApply(st, task, output)
    [] task.type = "Simple" -> SimpleApply(st, task, output)

(* Mutant: force_full_compaction removes what L0 holds now. *)
FilesToRemoveNow(st, task) ==
  CASE task.type = "ForceFull" -> ToSet(st.l0_sstables) \cup ToSet(task.l1_sstables)
    [] task.type = "Leveled" -> LeveledRemoved(task)
    [] task.type = "Tiered" -> TieredRemoved(st, task)
    [] task.type = "Simple" -> SimpleRemoved(st, task)

(* files_to_remove *)
FilesToRemove(st, task) ==
  CASE task.type = "ForceFull" -> ToSet(task.l0_sstables) \cup ToSet(task.l1_sstables)
    [] task.type = "Leveled" -> LeveledRemoved(task)
    [] task.type = "Tiered" -> TieredRemoved(st, task)
    [] task.type = "Simple" -> SimpleRemoved(st, task)

(* The assertions of apply_compaction_result. *)
ApplyAssert(st, task) ==
  CASE task.type = "ForceFull" -> TRUE
    [] task.type = "Leveled" -> LeveledAssert(st, task)
    [] task.type = "Tiered" -> TieredAssert(st, task)
    [] task.type = "Simple" -> SimpleAssert(st, task)

(* Mutant: tombstones are dropped at every level. *)
CompactToBottomAlways(task) == task.type \in {"ForceFull", "Leveled", "Tiered", "Simple"}

(* CompactionTask::compact_to_bottom_level *)
CompactToBottomLevel(task) == task.type = "ForceFull" \/ task.bottom

(* Mutant: the lower level wins over the upper one. *)
CompactInputLowerFirst(st, tables, task) ==
  LET run(ids) == Concat(Handles(st, tables, ids)) IN
  CASE task.type = "ForceFull" ->
         Merge(<<run(task.l1_sstables)>> \o Handles(st, tables, task.l0_sstables))
    [] task.type \in {"Simple", "Leveled"} ->
         Merge(<<run(task.lower_level_sst_ids)>>
               \o Handles(st, tables, task.upper_level_sst_ids))
    [] task.type = "Tiered" ->
         Merge([i \in DOMAIN task.tiers |-> run(task.tiers[Len(task.tiers) + 1 - i].ssts)])

(* compact(): the merge of the task's tables, found by their ids in the    *)
(* state as it is now.                                                     *)
CompactInput(st, tables, task) ==
  LET run(ids) == Concat(Handles(st, tables, ids)) IN
  CASE task.type = "ForceFull" ->
         Merge(Handles(st, tables, task.l0_sstables) \o <<run(task.l1_sstables)>>)
    [] task.type \in {"Simple", "Leveled"} ->
         Merge((IF task.upper_level # 0 THEN <<run(task.upper_level_sst_ids)>>
                ELSE Handles(st, tables, task.upper_level_sst_ids))
               \o <<run(task.lower_level_sst_ids)>>)
    [] task.type = "Tiered" ->
         Merge([i \in DOMAIN task.tiers |-> run(task.tiers[i].ssts)])

(* compact_generate_sst_from_iter() *)
CompactOutput(st, tables, task) ==
  LET merged == CompactInput(st, tables, task)
  IN  Split(IF CompactToBottomLevel(task) THEN DropTombstones(merged) ELSE merged,
            SstEntries)

(* The tables a state names in L0 and the levels. *)
Referenced(st) ==
  ToSet(st.l0_sstables) \cup UNION {ToSet(st.levels[i].ssts) : i \in DOMAIN st.levels}

(* The tables of a level are in ascending order and disjoint. *)
SortedLevels(st, tables) ==
  \A l \in DOMAIN st.levels : \A i \in 1 .. Len(st.levels[l].ssts) - 1 :
    LastKey(tables[st.levels[l].ssts[i]]) < FirstKey(tables[st.levels[l].ssts[i + 1]])
=============================================================================
