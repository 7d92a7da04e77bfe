------------------------------ MODULE Iterators ------------------------------
(***************************************************************************)
(* The iterators that get(), scan() and compact() read tables through:     *)
(*                                                                         *)
(*   FusedIterator(LsmIterator(TwoMerge(TwoMerge(Merge(MemTableIterator),  *)
(*                                               Merge(SsTableIterator)),  *)
(*                                      Merge(SstConcatIterator))))        *)
(*                                                                         *)
(* An iterator is a record; next() is an operator from the iterator to the *)
(* one it becomes.  Iterators hold tables by handle and look them up when  *)
(* they move, as the code reads blocks when it reaches them: src maps the  *)
(* handles to the tables' contents.  key() of an iterator that is not      *)
(* valid is NoKey here.                                                    *)
(***************************************************************************)
EXTENDS Tables, SequencesExt

NoKey == -1

-----------------------------------------------------------------------------
(* Bounds *)

Unbounded   == [type |-> "Unbounded", key |-> NoKey]
Included(k) == [type |-> "Included", key |-> k]
Excluded(k) == [type |-> "Excluded", key |-> k]

Bounds == {Unbounded} \cup {Included(k) : k \in Keys} \cup {Excluded(k) : k \in Keys}

AboveLower(k, lower) ==
  CASE lower.type = "Unbounded" -> TRUE
    [] lower.type = "Included" -> k >= lower.key
    [] lower.type = "Excluded" -> k > lower.key

BelowUpper(k, upper) ==
  CASE upper.type = "Unbounded" -> TRUE
    [] upper.type = "Included" -> k <= upper.key
    [] upper.type = "Excluded" -> k < upper.key

(* MemTable::scan: MemTableIterator copies the entries within the bounds. *)
ScanMemtable(map, lower, upper) ==
  [k \in Keys |-> IF AboveLower(k, lower) /\ BelowUpper(k, upper) THEN map[k] ELSE Absent]

(* scan() leaves out the tables whose keys are all beyond a bound. *)
RangeOverlap(t, lower, upper) ==
  AboveLower(LastKey(t), lower) /\ BelowUpper(FirstKey(t), upper)

-----------------------------------------------------------------------------
(* One table, and SstConcatIterator over the tables of a level.  The       *)
(* iterator of a single table, MemTableIterator or SsTableIterator, is a   *)
(* concatenation of one.                                                   *)

NoIter == [tables |-> <<>>, current |-> 0, key |-> NoKey]

(* The first key of a table from k on: where a seek to k, or next() from   *)
(* the key before, leaves the iterator of the table.                       *)
SeekKey(t, k) ==
  LET ahead == {j \in KeysOfTable(t) : j >= k} IN IF ahead = {} THEN NoKey ELSE Min(ahead)

(* Table i is at key k; if that is its end, the next tables follow. *)
MoveUntilValid(src, tables, i, k) ==
  LET later == {j \in DOMAIN tables : j > i /\ KeysOfTable(src[tables[j]]) # {}}
  IN  IF k # NoKey THEN [tables |-> tables, current |-> i, key |-> k]
      ELSE IF later = {} THEN NoIter
      ELSE [tables |-> tables, current |-> Min(later), key |-> FirstKey(src[tables[Min(later)]])]

SeekToFirst(src, tables) == MoveUntilValid(src, tables, 0, NoKey)

(* Mutant: the table before the partition point is forgotten. *)
SeekToKeyBeyond(src, tables, k) ==
  LET part == {p \in DOMAIN tables : \A q \in 1 .. p : FirstKey(src[tables[q]]) <= k}
      idx  == Cardinality(part) + 1
  IN  IF idx > Len(tables) THEN NoIter
      ELSE MoveUntilValid(src, tables, idx, SeekKey(src[tables[idx]], k))

(* The last table that starts at or before k, or the first one. *)
SeekToKey(src, tables, k) ==
  LET part == {p \in DOMAIN tables : \A q \in 1 .. p : FirstKey(src[tables[q]]) <= k}
      idx  == IF part = {} THEN 1 ELSE Cardinality(part)
  IN  IF idx > Len(tables) THEN NoIter
      ELSE MoveUntilValid(src, tables, idx, SeekKey(src[tables[idx]], k))

ConcatNext(src, c) ==
  MoveUntilValid(src, c.tables, c.current, SeekKey(src[c.tables[c.current]], c.key + 1))

ConcatKey(c)        == c.key
ConcatEntry(src, c) == src[c.tables[c.current]][c.key]

-----------------------------------------------------------------------------
(* MergeIterator: the iterator that is ahead, and the others in a heap     *)
(* with the least key on top, and of equal keys the one listed first.      *)

Precedes(v, w) == v.iter.key < w.iter.key \/ (v.iter.key = w.iter.key /\ v.index < w.index)

HeapFront(heap) == CHOOSE w \in heap : \A v \in heap \ {w} : Precedes(w, v)

PopHeap(heap) ==
  IF heap = {} THEN [current |-> [index |-> 0, iter |-> NoIter], heap |-> {}]
  ELSE [current |-> HeapFront(heap), heap |-> heap \ {HeapFront(heap)}]

MergeCreate(iters) ==
  PopHeap({[index |-> i, iter |-> iters[i]] : i \in {j \in DOMAIN iters : iters[j].key # NoKey}})

Advance(src, w) == [w EXCEPT !.iter = ConcatNext(src, @)]

(* Mutant: the current iterator stays ahead as long as it is valid. *)
MergeNextStays(src, m) ==
  LET k     == m.current.iter.key
      equal == {w \in m.heap : w.iter.key = k}
      rest  == (m.heap \ equal) \cup {w \in {Advance(src, v) : v \in equal} : w.iter.key # NoKey}
      cur   == Advance(src, m.current)
  IN  IF cur.iter.key = NoKey THEN PopHeap(rest) ELSE [current |-> cur, heap |-> rest]

(* next(): as long as the top of the heap has the current key it is        *)
(* advanced, then the current iterator, which is exchanged for the top     *)
(* when that is now ahead of it.                                           *)
MergeNext(src, m) ==
  LET k     == m.current.iter.key
      equal == IF m.heap # {} /\ HeapFront(m.heap).iter.key = k
                 THEN {w \in m.heap : w.iter.key = k} ELSE {}
      rest  == (m.heap \ equal) \cup {w \in {Advance(src, v) : v \in equal} : w.iter.key # NoKey}
      cur   == Advance(src, m.current)
  IN  IF cur.iter.key = NoKey THEN PopHeap(rest)
      ELSE IF rest # {} /\ Precedes(HeapFront(rest), cur)
        THEN [current |-> HeapFront(rest), heap |-> (rest \ {HeapFront(rest)}) \cup {cur}]
      ELSE [current |-> cur, heap |-> rest]

MergeKey(m)        == m.current.iter.key
MergeEntry(src, m) == ConcatEntry(src, m.current.iter)

-----------------------------------------------------------------------------
(* TwoMergeIterator, over any two kinds of iterators: a wins over b.       *)

SkipB(a, b, KeyA(_), KeyB(_), NextB(_)) ==
  IF KeyA(a) # NoKey /\ KeyB(b) = KeyA(a) THEN NextB(b) ELSE b

ChooseA(a, b, KeyA(_), KeyB(_)) ==
  KeyA(a) # NoKey /\ (KeyB(b) = NoKey \/ KeyA(a) < KeyB(b))

TwoMerge(a, b, KeyA(_), KeyB(_), NextB(_)) ==
  LET c == SkipB(a, b, KeyA, KeyB, NextB)
  IN  [a |-> a, b |-> c, first |-> ChooseA(a, c, KeyA, KeyB)]

TwoNext(t, KeyA(_), NextA(_), KeyB(_), NextB(_)) ==
  IF t.first THEN TwoMerge(NextA(t.a), t.b, KeyA, KeyB, NextB)
  ELSE TwoMerge(t.a, NextB(t.b), KeyA, KeyB, NextB)

(* Two MergeIterators: L0 over the levels in get(), MemTables over L0 in   *)
(* scan().                                                                 *)
PairCreate(src, a, b) == TwoMerge(a, b, MergeKey, MergeKey, LAMBDA m : MergeNext(src, m))

PairNext(src, t) ==
  TwoNext(t, MergeKey, LAMBDA m : MergeNext(src, m), MergeKey, LAMBDA m : MergeNext(src, m))

PairKey(t)        == IF t.first THEN MergeKey(t.a) ELSE MergeKey(t.b)
PairEntry(src, t) == IF t.first THEN MergeEntry(src, t.a) ELSE MergeEntry(src, t.b)

(* The stack of scan(): such a pair over the levels. *)
StackCreate(src, a, b) == TwoMerge(a, b, PairKey, MergeKey, LAMBDA m : MergeNext(src, m))

StackNext(src, t) ==
  TwoNext(t, PairKey, LAMBDA p : PairNext(src, p), MergeKey, LAMBDA m : MergeNext(src, m))

StackKey(t)        == IF t.first THEN PairKey(t.a) ELSE MergeKey(t.b)
StackEntry(src, t) == IF t.first THEN PairEntry(src, t.a) ELSE MergeEntry(src, t.b)

-----------------------------------------------------------------------------
(* LsmIterator: stops at the upper bound and passes over tombstones.       *)
(* FusedIterator adds that an invalid iterator is not moved.               *)

MatchEndBound(it) == [it EXCEPT !.valid = @ /\ BelowUpper(StackKey(it.inner), it.end)]

NextInner(src, it) ==
  LET inner == StackNext(src, it.inner) IN
  IF StackKey(inner) = NoKey THEN [it EXCEPT !.inner = inner, !.valid = FALSE]
  ELSE MatchEndBound([it EXCEPT !.inner = inner])

(* Mutant: one tombstone is passed over, not a run of them. *)
MoveOverOneDelete(src, it) ==
  IF it.valid /\ StackEntry(src, it.inner) < 0 THEN NextInner(src, it) ELSE it

(* The loop ends: every turn of it passes a key. *)
MoveToNonDelete(src, it) ==
  LET moved[turn \in 0 .. Cardinality(Keys)] ==
        IF turn = 0 THEN it
        ELSE LET i == moved[turn - 1]
             IN  IF i.valid /\ StackEntry(src, i.inner) < 0 THEN NextInner(src, i) ELSE i
  IN  moved[Cardinality(Keys)]

LsmIteratorCreate(src, inner, upper) ==
  LET it == [inner |-> inner, end |-> upper, valid |-> StackKey(inner) # NoKey]
  IN  IF it.valid THEN MoveToNonDelete(src, MatchEndBound(it)) ELSE it

LsmIteratorNext(src, it) == MoveToNonDelete(src, NextInner(src, it))

-----------------------------------------------------------------------------
(* The readers *)

(* Where scan() starts the iterator of a table or a level. *)
SeekLower(src, tables, lower) ==
  IF lower.type = "Unbounded" THEN SeekToFirst(src, tables)
  ELSE LET it == SeekToKey(src, tables, lower.key)
       IN  IF lower.type = "Excluded" /\ it.key = lower.key THEN ConcatNext(src, it) ELSE it

(* scan(): mems are the handles of the MemTableIterators' copies. *)
ScanCreate(src, mems, l0, levels, lower, upper) ==
  LET In(tables) == Filtered(tables, {h \in ToSet(tables) : RangeOverlap(src[h], lower, upper)})
      MemIters   == MergeCreate([i \in DOMAIN mems |-> SeekToFirst(src, <<mems[i]>>)])
      L0Iters    == MergeCreate([i \in DOMAIN In(l0) |-> SeekLower(src, <<In(l0)[i]>>, lower)])
      LevelIters == MergeCreate([i \in DOMAIN levels |-> SeekLower(src, In(levels[i]), lower)])
  IN  LsmIteratorCreate(src, StackCreate(src, PairCreate(src, MemIters, L0Iters), LevelIters), upper)

(* The part of get() that reads SSTables.  keep_table skips a table by its *)
(* key range and its Bloom filter; maybe are the tables that pass the      *)
(* filter without holding the key.                                         *)
GetFromTables(src, l0, levels, k, maybe) ==
  LET Keep(tables) == Filtered(tables, {h \in ToSet(tables) :
                        /\ FirstKey(src[h]) <= k /\ k <= LastKey(src[h])
                        /\ src[h][k] # Absent \/ h \in maybe})
      L0Iters    == MergeCreate([i \in DOMAIN Keep(l0) |-> SeekToKey(src, <<Keep(l0)[i]>>, k)])
      LevelIters == MergeCreate([i \in DOMAIN levels |-> SeekToKey(src, Keep(levels[i]), k)])
      it         == PairCreate(src, L0Iters, LevelIters)
  IN  IF PairKey(it) = k THEN Seen(PairEntry(src, it)) ELSE Absent

-----------------------------------------------------------------------------
(* What a reader may see of a table between two bounds: the keys that have *)
(* a value, from the first one on and in order, and all of them when it is *)
(* at the end.                                                             *)
Lists(yielded, t, lower, upper, ended) ==
  LET live == {k \in Keys : AboveLower(k, lower) /\ BelowUpper(k, upper) /\ t[k] > 0} IN
  /\ \A i \in DOMAIN yielded : yielded[i].key \in live /\ yielded[i].ent = t[yielded[i].key]
  /\ \A i, j \in DOMAIN yielded : i < j => yielded[i].key < yielded[j].key
  /\ \A k \in live : ended \/ (\E i \in DOMAIN yielded : k <= yielded[i].key) =>
                      \E i \in DOMAIN yielded : yielded[i].key = k
=============================================================================
