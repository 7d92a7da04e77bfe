------------------------------- MODULE Tiered -------------------------------
(***************************************************************************)
(* TieredCompactionController: every flush is a tier of its own, tiers are *)
(* merged from the newest on.  levels holds the tiers, newest first.       *)
(***************************************************************************)
EXTENDS Options, Sequences, SequencesExt

(* The number of tables in the n newest tiers. *)
TierSizes(st, n) ==
  SumFunctionOnSet([i \in DOMAIN st.levels |-> Len(st.levels[i].ssts)], 1 .. n)

TierTask(tiers, bottom) == [type |-> "Tiered", tiers |-> tiers, bottom |-> bottom]

(* The three triggers, in order: space amplification, size ratio, and the  *)
(* number of sorted runs.  Ratios of sizes are compared in double, where   *)
(* a positive size over an empty tier is infinite and 0/0 is NaN: no       *)
(* comparison with it holds.  max_merge_width 0 stands for nullopt.        *)
TieredGenerate(st) ==
  LET n     == Len(st.levels)
      o     == CompactionOptions
      size(i) == Len(st.levels[i].ssts)
      above == TierSizes(st, n - 1)
      amplified ==
        IF size(n) = 0 THEN above > 0
        ELSE above * 100 >= o.max_size_amplification_percent * size(n)
      ratio(i) ==
        /\ IF TierSizes(st, i) = 0 THEN size(i + 1) > 0
           ELSE size(i + 1) * 100 > (100 + o.size_ratio) * TierSizes(st, i)
        /\ i >= o.min_merge_width
      wide == {i \in 1 .. n - 1 : ratio(i)}
      take == IF o.max_merge_width # 0 /\ o.max_merge_width < n
                THEN o.max_merge_width ELSE n
  IN  IF n < o.num_tiers THEN NoTask
      ELSE IF amplified THEN TierTask(st.levels, TRUE)
      ELSE IF wide # {}
        THEN TierTask(SubSeq(st.levels, 1, CHOOSE i \in wide : \A j \in wide : i <= j), FALSE)
      ELSE TierTask(SubSeq(st.levels, 1, take), n >= take)

TierIds(tiers) == {tiers[i].id : i \in DOMAIN tiers}

(* tier_to_remove finds a tier by its id, the last of the task's tiers     *)
(* with that id, and finds it once.                                        *)
TierMatched(st, task, i) ==
  /\ st.levels[i].id \in TierIds(task.tiers)
  /\ \A j \in 1 .. i - 1 : st.levels[j].id # st.levels[i].id

TierFiles(task, id) ==
  LET at == {i \in DOMAIN task.tiers : task.tiers[i].id = id}
  IN  task.tiers[CHOOSE i \in at : \A j \in at : j <= i].ssts

(* "should not add l0 ssts in tiered compaction", "file changed after      *)
(* issuing compaction task" and "some tiers not found"                     *)
TieredAssert(st, task) ==
  /\ st.l0_sstables = <<>>
  /\ \A i \in DOMAIN st.levels :
       TierMatched(st, task, i) => TierFiles(task, st.levels[i].id) = st.levels[i].ssts
  /\ TierIds(task.tiers) \subseteq TierIds(st.levels)

(* Mutant: the new tier comes first, before what was flushed meanwhile. *)
TieredApplyFirst(st, task, output) ==
  LET new == [id |-> IF output = <<>> THEN 0 ELSE output[1], ssts |-> output]
  IN  [st EXCEPT !.levels =
         <<new>> \o Pick(@, {i \in DOMAIN @ : ~TierMatched(st, task, i)})]

(* Mutant: the new tier takes the place of each. *)
TiersReplacedEach(st, task, new) ==
  [i \in DOMAIN st.levels |-> IF TierMatched(st, task, i) THEN new ELSE st.levels[i]]

(* The matched tiers go; the new tier takes the place of the last of them, *)
(* if all were found.                                                      *)
TiersReplaced(st, task, new) ==
  LET matched == {i \in DOMAIN st.levels : TierMatched(st, task, i)}
      found   == TierIds(task.tiers) \subseteq TierIds(st.levels)
      kept    == {i \in DOMAIN st.levels : i \in matched => found /\ \A j \in matched : j <= i}
  IN  Pick([i \in DOMAIN st.levels |-> IF i \in matched THEN new ELSE st.levels[i]], kept)

(* Mutant: the new tier gets an id that a flush can still get. *)
TieredApplyIdTaken(st, task, output) ==
  [st EXCEPT !.levels =
     TiersReplaced(st, task, [id |-> IF output = <<>> THEN 0 ELSE output[1] - 1, ssts |-> output])]

(* An empty output makes a tier with id 0. *)
TieredApply(st, task, output) ==
  [st EXCEPT !.levels =
     TiersReplaced(st, task, [id |-> IF output = <<>> THEN 0 ELSE output[1], ssts |-> output])]

TieredRemoved(st, task) ==
  UNION {ToSet(TierFiles(task, st.levels[i].id)) :
           i \in {j \in DOMAIN st.levels : TierMatched(st, task, j)}}
=============================================================================
