------------------------------- MODULE Tables -------------------------------
(***************************************************************************)
(* The contents of the engine's tables, and how tables are combined.       *)
(*                                                                         *)
(* A MemTable and an SSTable both hold a sorted map from keys to values,   *)
(* in which the empty value is a tombstone.  Here a table is a function    *)
(* from Keys to entries, and an entry is an integer:                       *)
(*     0    the table has no entry for the key,                            *)
(*     n    the value stored by the n-th write of the history,             *)
(*    -n    the tombstone stored by the n-th write of the history.         *)
(* Naming values by the write that stored them keeps all values distinct,  *)
(* which is what the properties compare; bytes are left out.               *)
(***************************************************************************)
EXTENDS Integers, Sequences, FiniteSets

CONSTANT Keys          \* the keys; integers, because tables are sorted

ASSUME KeysAssumption == Keys \subseteq Nat /\ IsFiniteSet(Keys)

Absent == 0

Table == [Keys -> Int]

EmptyTable == [k \in Keys |-> Absent]

KeysOfTable(t) == {k \in Keys : t[k] # Absent}

(* What a caller of get() or scan() sees of an entry: a tombstone and a    *)
(* missing entry are both the empty answer.                                *)
Seen(e) == IF e > 0 THEN e ELSE Absent

(* The write that stored an entry. *)
Stamp(e) == IF e < 0 THEN -e ELSE e

OrElse(a, b) == IF a # Absent THEN a ELSE b

(* MergeIterator and TwoMergeIterator: of the tables that hold the key the *)
(* one that comes first in the list wins.                                  *)
FirstHit(ts, k) ==
  LET hits == {i \in DOMAIN ts : ts[i][k] # Absent}
  IN  IF hits = {} THEN Absent
      ELSE ts[CHOOSE i \in hits : \A j \in hits : i <= j][k]

Merge(ts) == [k \in Keys |-> FirstHit(ts, k)]

(* SstConcatIterator, sought to a key: create_and_seek_to_key picks the    *)
(* last table whose first key is not beyond the key, so in a sorted run of *)
(* disjoint tables the only one that can hold it.                          *)
LastHit(ts, k) ==
  LET hits == {i \in DOMAIN ts : ts[i][k] # Absent}
  IN  IF hits = {} THEN Absent
      ELSE ts[CHOOSE i \in hits : \A j \in hits : j <= i][k]

Concat(ts) == [k \in Keys |-> LastHit(ts, k)]

(* The state maps the ids of the open tables to them, here by a set of ids *)
(* and the tables' contents; get(), scan() and compact() skip an id that   *)
(* is not in the map.                                                      *)
Handle(st, tables, id) == IF id \in st.sstables THEN tables[id] ELSE EmptyTable

Handles(st, tables, ids) == [i \in DOMAIN ids |-> Handle(st, tables, ids[i])]

(* The part of get() that looks into SSTables: L0 from the newest merged   *)
(* over the levels from the first.  Bloom filters and key ranges only skip *)
(* tables that do not hold the key.                                        *)
SstEntry(st, tables, k) ==
  OrElse(FirstHit(Handles(st, tables, st.l0_sstables), k),
         FirstHit([i \in DOMAIN st.levels |->
                     Concat(Handles(st, tables, st.levels[i].ssts))], k))

FirstKey(t) == CHOOSE k \in KeysOfTable(t) : \A j \in KeysOfTable(t) : k <= j
LastKey(t)  == CHOOSE k \in KeysOfTable(t) : \A j \in KeysOfTable(t) : j <= k

(* compact_generate_sst_from_iter drops tombstones only when it compacts   *)
(* to the bottom level ...                                                 *)
DropTombstones(t) == [k \in Keys |-> Seen(t[k])]

(* ... and starts a new SSTable whenever the current one is full, here     *)
(* after n entries.                                                        *)
Split(t, n) ==
  LET Rank(k) == Cardinality({j \in KeysOfTable(t) : j < k}) \div n
  IN  [i \in 1 .. (Cardinality(KeysOfTable(t)) + n - 1) \div n |->
         [k \in Keys |-> IF t[k] # Absent /\ Rank(k) = i - 1 THEN t[k] ELSE Absent]]

(* The tables that pass, one after the other. *)
Filtered(tables, passing) ==
  LET kept[n \in 0 .. Len(tables)] ==
        IF n = 0 THEN <<>>
        ELSE IF tables[n] \in passing THEN Append(kept[n - 1], tables[n]) ELSE kept[n - 1]
  IN  kept[Len(tables)]
=============================================================================
