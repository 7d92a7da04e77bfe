--------------------------- MODULE MCIteratorStack ---------------------------
(* Small instances of IteratorStack. *)
EXTENDS IteratorStack

CONSTANT MaxEntries    \* bound on the entries of a layout that uses all layers

(* Two MemTables, three tables of L0, two levels with a table per key.  An *)
(* entry of layer n is n or -n: it shows where it came from.               *)
Layers == 1 .. 7

LayerContents(present, dead) ==
  [l \in Layers |-> [k \in Keys |->
     IF <<l, k>> \notin present THEN Absent ELSE IF <<l, k>> \in dead THEN -l ELSE l]]

(* All ways to spread a few entries over all layers, and ... *)
Wide ==
  UNION {UNION {{LayerContents(present, dead) : dead \in SUBSET present} :
           present \in kSubset(n, Layers \X Keys)} : n \in 0 .. MaxEntries}

(* ... all ways to fill L0 and one level, with two kinds of tombstones. *)
Deep ==
  {LayerContents(present, dead) :
     present \in SUBSET ((3 .. 6) \X Keys), dead \in {{3} \X Keys, {<<3, 2>>, <<4, 1>>, <<4, 2>>}}}

(* Handles 1 to 5 are the MemTables and L0, 10 * n + i is table i of level n. *)
LayoutOf(f) ==
  LET l0       == SelectSeq(<<3, 4, 5>>, LAMBDA l : f[l] # EmptyTable)
      runs     == [n \in 1 .. 2 |-> Split(f[n + 5], 1)]
      level(n) == [i \in DOMAIN runs[n] |-> 10 * n + i]
      hs       == {1, 2} \cup ToSet(l0) \cup ToSet(level(1)) \cup ToSet(level(2))
  IN  [mems |-> <<1, 2>>, l0 |-> l0, levels |-> <<level(1), level(2)>>,
       src |-> [h \in hs |-> IF h < 10 THEN f[h] ELSE runs[h \div 10][h % 10]]]

AllLayouts == {LayoutOf(f) : f \in Wide \cup Deep}

(* No bound, or one at the key in the middle. *)
MiddleBounds ==
  LET ends == {Unbounded, Included(2), Excluded(2)} IN [lower : ends, upper : ends]
=============================================================================
