------------------------------- MODULE Leveled -------------------------------
(***************************************************************************)
(* LeveledCompactionController: levels have target sizes, one table at a   *)
(* time moves down with the tables it overlaps.                            *)
(***************************************************************************)
EXTENDS Options, Tables, SequencesExt

(* tables maps the ids to the SSTables' contents. *)
RealSize(st, tables, l) ==
  FoldSet(LAMBDA id, n : Cardinality(KeysOfTable(tables[id])) + n, 0,
          ToSet(st.levels[l].ssts) \cap st.sstables)

(* The bottom level's target is its size, at least the base size; a level  *)
(* above one that outgrew the base size gets its share of it, the others   *)
(* have target 0.                                                          *)
TargetSizes(st, tables) ==
  LET o == CompactionOptions
      T[l \in 1 .. o.max_levels] ==
        IF l = o.max_levels
          THEN LET real == RealSize(st, tables, l)
               IN  IF real > o.base_level_size THEN real ELSE o.base_level_size
        ELSE IF T[l + 1] > o.base_level_size
          THEN T[l + 1] \div o.level_size_multiplier
        ELSE 0
  IN  T

(* The level L0 is compacted to: the first that has a target. *)
BaseLevel(targets) ==
  LET L  == CompactionOptions.max_levels
      ls == {L} \cup {l \in 1 .. L - 1 : targets[l] > 0}
  IN  CHOOSE l \in ls : \A m \in ls : l <= m

(* Mutant: a table that starts at the last key of the range is missed. *)
FindOverlappingStrict(st, tables, ids, level) ==
  LET known == ToSet(ids) \cap st.sstables
      ssts  == IF level \in DOMAIN st.levels THEN st.levels[level].ssts ELSE <<>>
      overlapping == {x \in Nat : /\ x \in st.sstables
                                  /\ \E i \in known : FirstKey(tables[i]) <= LastKey(tables[x])
                                  /\ \E i \in known : FirstKey(tables[x]) < LastKey(tables[i])}
  IN  Filtered(ssts, overlapping)

(* The tables of a level that overlap the range of keys from the first of  *)
(* the tables ids to their last.                                           *)
FindOverlappingSsts(st, tables, ids, level) ==
  LET known == ToSet(ids) \cap st.sstables
      ssts  == IF level \in DOMAIN st.levels THEN st.levels[level].ssts ELSE <<>>
      overlapping == {x \in Nat : /\ x \in st.sstables
                                  /\ \E i \in known : FirstKey(tables[i]) <= LastKey(tables[x])
                                  /\ \E i \in known : FirstKey(tables[x]) <= LastKey(tables[i])}
  IN  Filtered(ssts, overlapping)

LeveledGenerate(st, tables) ==
  LET targets == TargetSizes(st, tables)
      real(l) == RealSize(st, tables, l)
      base    == BaseLevel(targets)
      over    == {l \in 1 .. CompactionOptions.max_levels : targets[l] > 0 /\ real(l) > targets[l]}
      \* the level with the highest ratio, the first of those
      worst   == CHOOSE l \in over : \A m \in over :
                   \/ real(l) * targets[m] > real(m) * targets[l]
                   \/ real(l) * targets[m] = real(m) * targets[l] /\ l <= m
      ids     == ToSet(st.levels[worst].ssts)
      oldest  == CHOOSE i \in ids : \A j \in ids : i <= j
  IN  IF Len(st.l0_sstables) >= CompactionOptions.level0_trigger
        THEN LevelTask("Leveled", 0, st.l0_sstables, base,
                       FindOverlappingSsts(st, tables, st.l0_sstables, base))
      ELSE IF over # {} /\ worst \in DOMAIN st.levels /\ ids # {}
        THEN LevelTask("Leveled", worst, <<oldest>>, worst + 1,
                       FindOverlappingSsts(st, tables, <<oldest>>, worst + 1))
      ELSE NoTask

(* The assertions: every input is still where the task found it. *)
LeveledAssert(st, task) ==
  /\ ToSet(task.upper_level_sst_ids) \subseteq
       ToSet(IF task.upper_level # 0 THEN st.levels[task.upper_level].ssts
                                     ELSE st.l0_sstables)
  /\ ToSet(task.lower_level_sst_ids) \subseteq ToSet(st.levels[task.lower_level].ssts)

LeveledUpperless(st, task) ==
  LET upper == ToSet(task.upper_level_sst_ids)
  IN  IF task.upper_level # 0
        THEN [st EXCEPT !.levels[task.upper_level].ssts = Without(@, upper)]
        ELSE [st EXCEPT !.l0_sstables = Without(@, upper)]

(* Mutant: the new tables follow the old ones, unsorted. *)
LeveledApplyUnsorted(st, tables, task, output, in_recovery) ==
  LET lower == ToSet(task.lower_level_sst_ids)
  IN  [LeveledUpperless(st, task) EXCEPT !.levels[task.lower_level].ssts =
         Without(@, lower) \o output]

(* std::sort of a list of tables by their first keys *)
SortByFirstKey(ids, tables) ==
  LET before(x, y) ==
        \/ FirstKey(tables[x]) < FirstKey(tables[y])
        \/ FirstKey(tables[x]) = FirstKey(tables[y]) /\ x < y
      nth(n) == CHOOSE x \in ids : Cardinality({y \in ids : before(y, x)}) = n - 1
  IN  [n \in 1 .. Cardinality(ids) |-> nth(n)]

(* The lower level is sorted by first key, but not in recovery, when the   *)
(* tables are not open yet.                                                *)
LeveledApply(st, tables, task, output, in_recovery) ==
  LET lower == ToSet(task.lower_level_sst_ids)
      upperless == LeveledUpperless(st, task)
      joined == Without(upperless.levels[task.lower_level].ssts, lower) \o output
  IN  [upperless EXCEPT !.levels[task.lower_level].ssts =
         IF in_recovery THEN joined
         ELSE SortByFirstKey(ToSet(joined), tables)]

LeveledRemoved(task) ==
  ToSet(task.upper_level_sst_ids) \cup ToSet(task.lower_level_sst_ids)
=============================================================================
