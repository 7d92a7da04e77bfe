---------------------------- MODULE MCLsmStorage ----------------------------
(* Small instances of LsmStorage. *)
EXTENDS LsmStorage

SharedKeys == [c \in Clients |-> Keys]

NoCompaction == [type |-> "NoCompaction"]

SimpleOptions ==
  [type |-> "Simple", size_ratio_percent |-> 200, level0_trigger |-> 2, max_levels |-> 2]

LeveledOptions ==
  [type |-> "Leveled", level_size_multiplier |-> 2, level0_trigger |-> 1,
   max_levels |-> 2, base_level_size |-> 1]

TieredOptions ==
  [type |-> "Tiered", num_tiers |-> 2, max_size_amplification_percent |-> 200,
   size_ratio |-> 1, min_merge_width |-> 2, max_merge_width |-> 0]
=============================================================================
