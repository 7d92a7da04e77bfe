------------------------------ MODULE TableReads ------------------------------
(***************************************************************************)
(* Threads that read SSTables through SsTableIterator and the one cache of *)
(* blocks they share.  read_block_cached() asks the cache, reads the block *)
(* from the file without a lock and inserts it: other readers come in      *)
(* between.                                                                *)
(***************************************************************************)
EXTENDS SsTable, BlockCache

CONSTANTS
  Readers,       \* the threads
  KeySet,        \* the keys
  Scenarios      \* the tables' entries, the readers at work and the capacity

ASSUME ReadersAssumption ==
  \A k \in KeySet : k \in Seq(Nat) /\ k # <<>> /\ Len(k) < FieldLimit

(* A table has entries, in the order of their keys, and its blocks start   *)
(* where an offset of 32 bits reaches.                                     *)
ASSUME ScenariosAssumption ==
  \A s \in Scenarios : \A id \in DOMAIN s.entries :
    LET es == s.entries[id] IN
    /\ es # <<>> /\ es \in Seq([key : KeySet, value : 0 .. FieldLimit - 1])
    /\ \A i, j \in DOMAIN es : i < j => KeyLess(es[i].key, es[j].key)
    /\ \A b \in ToSet(Build(es).data) : b.at < FieldLimit * FieldLimit

VARIABLES
  entries,       \* history: what was added to the table of each id
  tables,        \* the open tables
  reader         \* every reader's iterator and where it is in its calls

readVars == <<entries, tables, reader, cacheVars>>

NoBlock == [data |-> <<>>, offsets |-> <<>>]

Idle == [pc |-> "idle"]

CacheKey(r) == [sst_id |-> reader[r].id, block_idx |-> reader[r].blk_idx]

Init ==
  \E s \in Scenarios :
    /\ entries = s.entries
    /\ tables = [id \in DOMAIN s.entries |-> Build(s.entries[id])]
    /\ reader = [r \in Readers |-> IF r \in s.readers THEN Idle ELSE [pc |-> "done"]]
    /\ capacity = s.capacity /\ CacheInit

-----------------------------------------------------------------------------
(* create_and_seek_to_key, or create_and_seek_to_first when the target is  *)
(* the empty key.                                                          *)
Create(r, id, target) ==
  /\ reader[r].pc = "idle"
  /\ reader' = [reader EXCEPT ![r] =
                  [pc |-> "get", id |-> id, target |-> target, seek |-> target,
                   blk_idx |-> IF target = <<>> THEN 0 ELSE FindBlockIdx(tables[id], target),
                   block |-> NoBlock, idx |-> 0, read |-> <<>>]]
  /\ UNCHANGED <<entries, tables, cacheVars>>

(* Mutant: the first key beyond a block's last one is not looked for. *)
ArriveInBlock(it, block) ==
  LET idx == IF it.seek = <<>> THEN 0 ELSE BlockSeek(block, it.seek)
  IN  [it EXCEPT !.pc = IF InBlock(block, idx) THEN "at" ELSE "end", !.block = block, !.idx = idx]

(* The block is there and its iterator is moved to the key.  When the key  *)
(* is beyond the block, the next block follows, from its first entry on.   *)
Arrive(it, block) ==
  LET idx == IF it.seek = <<>> THEN 0 ELSE BlockSeek(block, it.seek)
  IN  IF InBlock(block, idx) THEN [it EXCEPT !.pc = "at", !.block = block, !.idx = idx]
      ELSE IF it.blk_idx + 1 < NumBlocks(tables[it.id])
        THEN [it EXCEPT !.pc = "get", !.seek = <<>>, !.blk_idx = @ + 1]
      ELSE [it EXCEPT !.pc = "end", !.blk_idx = @ + 1]

(* BlockCache::try_get_with *)
GetHit(r) ==
  /\ reader[r].pc = "get" /\ CacheHit(CacheKey(r))
  /\ reader' = [reader EXCEPT ![r] = Arrive(@, list[PlaceOf(CacheKey(r))].block)]
  /\ UNCHANGED <<entries, tables>>

GetMiss(r) ==
  /\ reader[r].pc = "get" /\ CacheMiss(CacheKey(r))
  /\ reader' = [reader EXCEPT ![r].pc = "load"]
  /\ UNCHANGED <<entries, tables>>

Load(r) ==
  /\ reader[r].pc = "load"
  /\ reader' = [reader EXCEPT ![r].pc = "insert",
                              ![r].block = ReadBlock(tables[reader[r].id], reader[r].blk_idx)]
  /\ UNCHANGED <<entries, tables, cacheVars>>

Insert(r) ==
  /\ reader[r].pc = "insert" /\ CacheInsert(CacheKey(r), reader[r].block)
  /\ reader' = [reader EXCEPT ![r] = Arrive(@, reader[r].block)]
  /\ UNCHANGED <<entries, tables>>

(* The caller takes key() and value() and calls next(). *)
ReadNext(r) ==
  /\ reader[r].pc = "at"
  /\ LET it   == reader[r]
         seen == [it EXCEPT !.read = Append(@, [key |-> KeyAt(it.block, it.idx),
                                                value |-> ValueAt(it.block, it.idx)])]
     IN reader' = [reader EXCEPT ![r] =
                     IF InBlock(it.block, it.idx + 1) THEN [seen EXCEPT !.idx = @ + 1]
                     ELSE IF it.blk_idx + 1 < NumBlocks(tables[it.id])
                       THEN [seen EXCEPT !.pc = "get", !.seek = <<>>, !.blk_idx = @ + 1]
                     ELSE [seen EXCEPT !.pc = "end", !.blk_idx = @ + 1]]
  /\ UNCHANGED <<entries, tables, cacheVars>>

Done(r) ==
  /\ reader[r].pc = "end"
  /\ reader' = [reader EXCEPT ![r] = [pc |-> "done"]]
  /\ UNCHANGED <<entries, tables, cacheVars>>

Next ==
  \E r \in Readers :
    \/ \E id \in DOMAIN tables, target \in KeySet \cup {<<>>} : Create(r, id, target)
    \/ GetHit(r) \/ GetMiss(r) \/ Load(r) \/ Insert(r) \/ ReadNext(r) \/ Done(r)

Spec == Init /\ [][Next]_readVars

-----------------------------------------------------------------------------
(* Properties *)

(* The entries of a table from a target on. *)
From(es, target) ==
  LET least == {i \in 1 .. Len(es) + 1 : i <= Len(es) => ~KeyLess(es[i].key, target)}
  IN  SubSeq(es, Min(least), Len(es))

(* An iterator yields the entries that were added to its table from its    *)
(* target on, every one and in order, with the key and the value they were *)
(* added with: however the entries fall into blocks, whatever prefix they  *)
(* share, and whichever blocks come out of the cache.                      *)
ReadsExact ==
  \A r \in Readers : reader[r].pc \notin {"idle", "done"} =>
    LET it       == reader[r]
        expected == From(entries[it.id], it.target)
    IN  /\ IsPrefix(it.read, expected)
        /\ it.pc = "at" => Len(it.read) < Len(expected)
        /\ it.pc = "end" => it.read = expected

(* get() never skips a table that holds its key: neither the key range nor *)
(* the Bloom filter rules it out.                                          *)
FilterKeepsKeys ==
  \A id \in DOMAIN tables : \A e \in ToSet(entries[id]) : KeepTable(tables[id], e.key)
=============================================================================
