---------------------------- MODULE SimpleLeveled ----------------------------
(***************************************************************************)
(* SimpleLeveledCompactionController: whole levels are merged downwards.   *)
(***************************************************************************)
EXTENDS Options, Sequences, SequencesExt

(* The number of tables of level l; level 0 is L0. *)
SimpleSize(st, l) == IF l = 0 THEN Len(st.l0_sstables) ELSE Len(st.levels[l].ssts)

(* Mutant: an empty level is not too small for an empty level. *)
SimpleRatioAtMost(st, i) ==
  /\ i + 1 <= Len(st.levels)
  /\ SimpleSize(st, i + 1) * 100 <= CompactionOptions.size_ratio_percent * SimpleSize(st, i)

(* Level i is compacted when the level below is too small in proportion.   *)
SimpleRatioLow(st, i) ==
  /\ i + 1 <= Len(st.levels)
  /\ SimpleSize(st, i) # 0
  /\ SimpleSize(st, i + 1) * 100 < CompactionOptions.size_ratio_percent * SimpleSize(st, i)

SimpleGenerate(st) ==
  LET low == {i \in 1 .. CompactionOptions.max_levels - 1 : SimpleRatioLow(st, i)}
      i   == CHOOSE l \in low : \A m \in low : l <= m
  IN  IF SimpleSize(st, 0) >= CompactionOptions.level0_trigger
        THEN LevelTask("Simple", 0, st.l0_sstables, 1, st.levels[1].ssts)
      ELSE IF low # {}
        THEN LevelTask("Simple", i, st.levels[i].ssts, i + 1, st.levels[i + 1].ssts)
      ELSE NoTask

(* The assertions of apply_compaction_result: the levels of the task are   *)
(* as they were when it was generated.                                     *)
SimpleAssert(st, task) ==
  /\ IF task.upper_level # 0
       THEN task.upper_level_sst_ids = st.levels[task.upper_level].ssts
       ELSE ToSet(task.upper_level_sst_ids) \subseteq ToSet(st.l0_sstables)
  /\ task.lower_level_sst_ids = st.levels[task.lower_level].ssts

(* Mutant: L0 is cleared, with what was flushed since the task was made. *)
SimpleApplyClears(st, task, output) ==
  LET upperless ==
        IF task.upper_level # 0
          THEN [st EXCEPT !.levels[task.upper_level].ssts = <<>>]
          ELSE [st EXCEPT !.l0_sstables = <<>>]
  IN  [upperless EXCEPT !.levels[task.lower_level].ssts = output]

SimpleApply(st, task, output) ==
  LET compacted == ToSet(task.upper_level_sst_ids)
      upperless ==
        IF task.upper_level # 0
          THEN [st EXCEPT !.levels[task.upper_level].ssts = <<>>]
          ELSE [st EXCEPT !.l0_sstables = Without(@, compacted)]
  IN  [upperless EXCEPT !.levels[task.lower_level].ssts = output]

(* Mutant: of L0, what is there now. *)
SimpleRemovedNow(st, task) ==
  (IF task.upper_level # 0 THEN ToSet(st.levels[task.upper_level].ssts)
                           ELSE ToSet(st.l0_sstables))
    \cup ToSet(st.levels[task.lower_level].ssts)

(* Mutant: the replaced tables of the lower level are kept. *)
SimpleRemovedUpper(st, task) ==
  IF task.upper_level # 0 THEN ToSet(st.levels[task.upper_level].ssts)
                          ELSE ToSet(task.upper_level_sst_ids)

(* files_to_remove names what the levels hold now, for L0 what the task    *)
(* names.                                                                  *)
SimpleRemoved(st, task) ==
  (IF task.upper_level # 0 THEN ToSet(st.levels[task.upper_level].ssts)
                           ELSE ToSet(task.upper_level_sst_ids))
    \cup ToSet(st.levels[task.lower_level].ssts)
=============================================================================
