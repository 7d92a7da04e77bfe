---------------------------- MODULE IteratorStack ----------------------------
(***************************************************************************)
(* The iterators at work on tables that do not change: a scan that is read *)
(* key by key, a get(), and compact_generate_sst_from_iter, which writes   *)
(* what an iterator yields to new tables.  The other modules use the       *)
(* operators of Tables for reads and merges; here the iterators are shown  *)
(* to compute them.                                                        *)
(***************************************************************************)
EXTENDS Iterators

CONSTANTS
  Layouts,       \* the layouts of tables to read
  ScanBounds,    \* the bounds of scans
  SstEntries     \* target_sst_size, in entries

(* The SSTables of a layout. *)
SstHandles(l) == ToSet(l.l0) \cup UNION {ToSet(l.levels[i]) : i \in DOMAIN l.levels}

(* What the engine's state holds: tables by handle, SSTables that are not  *)
(* MemTables and not empty, and in a level one after the other in the      *)
(* order of their keys.                                                    *)
IsLayout(l) ==
  /\ l.src \in [DOMAIN l.src -> Table]
  /\ l.mems \in Seq(DOMAIN l.src) /\ l.l0 \in Seq(DOMAIN l.src)
  /\ l.levels \in Seq(Seq(DOMAIN l.src)) /\ Len(l.levels) >= 2
  /\ \A h \in SstHandles(l) : h \notin ToSet(l.mems) /\ KeysOfTable(l.src[h]) # {}
  /\ \A n \in DOMAIN l.levels : \A i, j \in DOMAIN l.levels[n] : i < j =>
       \A a \in KeysOfTable(l.src[l.levels[n][i]]), b \in KeysOfTable(l.src[l.levels[n][j]]) : a < b

ASSUME LayoutsAssumption == \A l \in Layouts : IsLayout(l)

ASSUME ScanBoundsAssumption == ScanBounds \subseteq [lower : Bounds, upper : Bounds]

ASSUME SstEntriesAssumption == SstEntries \in Nat \ {0}

VARIABLES
  layout,        \* handles of the MemTables, L0 and the levels; their contents
  call,          \* the call under way and its arguments
  it,            \* its iterator
  yielded,       \* what it has answered
  builder,       \* the table that compact_generate_sst_from_iter fills
  output         \* the tables it has finished

vars == <<layout, call, it, yielded, builder, output>>

src == layout.src

-----------------------------------------------------------------------------
(* A compaction merges runs of tables, upper ones over lower ones: L0 into *)
(* L1, a level into the next, or tiers.                                    *)
Tasks(l) ==
  {[upper |-> [i \in DOMAIN l.l0 |-> <<l.l0[i]>>], lower |-> <<l.levels[1]>>],
   [upper |-> <<l.levels[1]>>, lower |-> <<l.levels[2]>>],
   [upper |-> l.levels, lower |-> <<>>]}

(* compact(): TwoMergeIterator of MergeIterators, of which those over a    *)
(* single run stand for the run's SstConcatIterator, and an empty one for  *)
(* no second half at all.                                                  *)
CompactCreate(task) ==
  LET iters(runs) == MergeCreate([i \in DOMAIN runs |-> SeekToFirst(src, runs[i])])
  IN  PairCreate(src, iters(task.upper), iters(task.lower))

Idle == [type |-> "idle"]

Init ==
  /\ layout \in Layouts
  /\ call = Idle /\ it = NoIter
  /\ yielded = <<>> /\ builder = EmptyTable /\ output = <<>>

(* The MemTableIterators' copies end at the bounds. *)
scanned(lower, upper) ==
  [h \in DOMAIN src |-> IF h \in ToSet(layout.mems)
                          THEN ScanMemtable(src[h], lower, upper) ELSE src[h]]

Scan(lower, upper) ==
  /\ call = Idle
  /\ call' = [type |-> "scan", lower |-> lower, upper |-> upper]
  /\ it' = ScanCreate(scanned(lower, upper), layout.mems, layout.l0, layout.levels, lower, upper)
  /\ UNCHANGED <<layout, yielded, builder, output>>

Compact(task, bottom) ==
  /\ call = Idle
  /\ call' = [type |-> "compact", task |-> task, bottom |-> bottom]
  /\ it' = CompactCreate(task)
  /\ UNCHANGED <<layout, yielded, builder, output>>

(* Get by the iterators over L0 and the levels. *)
Get(k, maybe) ==
  /\ call = Idle
  /\ call' = [type |-> "get", key |-> k]
  /\ yielded' = <<GetFromTables(src, layout.l0, layout.levels, k, maybe)>>
  /\ UNCHANGED <<layout, it, builder, output>>

(* The caller reads the entry the scan is at and calls next(). *)
ScanNext ==
  /\ call.type = "scan" /\ it.valid
  /\ LET tables == scanned(call.lower, call.upper) IN
     /\ yielded' = Append(yielded, [key |-> StackKey(it.inner), ent |-> StackEntry(tables, it.inner)])
     /\ it' = LsmIteratorNext(tables, it)
  /\ UNCHANGED <<layout, call, builder, output>>

BuilderSize(b) == Cardinality(KeysOfTable(b))

(* One turn of compact_generate_sst_from_iter: a tombstone that reaches    *)
(* the bottom is dropped; a table that has become large enough is built.   *)
GenerateNext ==
  /\ call.type = "compact" /\ PairKey(it) # NoKey
  /\ LET e     == PairEntry(src, it)
         added == [builder EXCEPT ![PairKey(it)] = IF call.bottom /\ e < 0 THEN Absent ELSE e]
     IN  IF BuilderSize(added) >= SstEntries
           THEN builder' = EmptyTable /\ output' = Append(output, added)
           ELSE builder' = added /\ UNCHANGED output
  /\ it' = PairNext(src, it)
  /\ UNCHANGED <<layout, call, yielded>>

(* What is left becomes the last table. *)
GenerateEnd ==
  /\ call.type = "compact" /\ PairKey(it) = NoKey /\ builder # EmptyTable
  /\ output' = Append(output, builder)
  /\ builder' = EmptyTable
  /\ UNCHANGED <<layout, call, it, yielded>>

Next ==
  \/ \E k \in Keys, maybe \in SUBSET SstHandles(layout) : Get(k, maybe)
  \/ \E b \in ScanBounds : Scan(b.lower, b.upper)
  \/ ScanNext
  \/ \E task \in Tasks(layout), bottom \in BOOLEAN : Compact(task, bottom)
  \/ GenerateNext \/ GenerateEnd

Spec == Init /\ [][Next]_vars

-----------------------------------------------------------------------------
(* Properties *)

Contents(tables) == [i \in DOMAIN tables |-> src[tables[i]]]

Runs(rs) == [i \in DOMAIN rs |-> Concat(Contents(rs[i]))]

(* The whole layout as one table. *)
Everything == Merge(Contents(layout.mems \o layout.l0) \o Runs(layout.levels))

(* A scan yields, in ascending order and once each, the keys within the    *)
(* bounds whose newest entry is a value, with that value, and ends after   *)
(* the last one.                                                           *)
ScanExact ==
  call.type = "scan" => Lists(yielded, Everything, call.lower, call.upper, ~it.valid)

(* get() through the iterators answers what the newest table that holds    *)
(* the key says, whichever other tables pass their Bloom filters.          *)
GetExact ==
  call.type = "get" =>
    yielded = <<Seen(OrElse(FirstHit(Contents(layout.l0), call.key),
                            FirstHit(Runs(layout.levels), call.key)))>>

(* compact_generate_sst_from_iter writes the merge of the task's tables,   *)
(* cut into tables of the target size.                                     *)
GenerateExact ==
  call.type = "compact" /\ PairKey(it) = NoKey /\ builder = EmptyTable =>
    LET merged == Merge(Runs(call.task.upper \o call.task.lower))
    IN  output = Split(IF call.bottom THEN DropTombstones(merged) ELSE merged, SstEntries)
=============================================================================
