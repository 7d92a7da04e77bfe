-------------------------- MODULE MCCompactionLoop --------------------------
(* Small instances of CompactionLoop. *)
EXTENDS CompactionLoop

(* Tables that hold any of the keys ks, as values or as tombstones. *)
AnyShape(ks) ==
  {s \in [Keys -> {-1, 0, 1}] : KeysOfTable(s) \subseteq ks} \ {EmptyTable}
PutShapes == [Keys -> {0, 1}] \ {EmptyTable}

(* Key 1 or 2 written or deleted, or all keys written. *)
NarrowShapes ==
  {s \in AnyShape({1, 2}) : Cardinality(KeysOfTable(s)) = 1} \cup {[k \in Keys |-> 1]}

SimpleOptions ==
  [type |-> "Simple", size_ratio_percent |-> 200, level0_trigger |-> 2, max_levels |-> 3]

LeveledOptions ==
  [type |-> "Leveled", level_size_multiplier |-> 2, level0_trigger |-> 1,
   max_levels |-> 2, base_level_size |-> 1]

TieredOptions ==
  [type |-> "Tiered", num_tiers |-> 3, max_size_amplification_percent |-> 300,
   size_ratio |-> 1, min_merge_width |-> 2, max_merge_width |-> 0]

Scenario(o, ts, n) == [options |-> o, shapes |-> ts, flushes |-> n]

AllStrategies ==
  [simple  |-> Scenario(SimpleOptions, AnyShape({1, 2}), 4),
   leveled |-> Scenario(LeveledOptions, PutShapes, 3),
   tiered  |-> Scenario(TieredOptions, NarrowShapes, 5)]

LeveledDeletes == [leveled |-> Scenario(LeveledOptions, AnyShape({1, 2}), 4)]
=============================================================================
