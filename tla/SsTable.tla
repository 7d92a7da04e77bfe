------------------------------- MODULE SsTable -------------------------------
(***************************************************************************)
(* The file of an SSTable: SsTableBuilder, its blocks, their meta data and *)
(* the Bloom filter of its keys.  Checksums are taken to match and blocks  *)
(* are not compressed.                                                     *)
(***************************************************************************)
EXTENDS Block, FiniteSetsExt

CONSTANTS
  Hash(_),       \* farmhash_fingerprint32
  HashLimit,     \* 2^32
  RotateLimit,   \* 2^15: how far a hash is rotated for the next probe
  MinBits        \* the least size of a filter, 64

ASSUME HashAssumption ==
  /\ HashLimit \in Nat \ {0} /\ RotateLimit \in Nat \ {0} /\ HashLimit % RotateLimit = 0
  /\ MinBits \in Nat \ {0} /\ MinBits % 8 = 0

-----------------------------------------------------------------------------
(* Bloom *)

BitsPerKey == 10                          \* bloom_bits_per_key(n, 0.01)
Probes     == (BitsPerKey * 69) \div 100

FilterBits(n) == 8 * ((Max({n * BitsPerKey, MinBits}) + 7) \div 8)

(* Double hashing: the hash, and then Probes - 1 times the rotated one     *)
(* added to it.                                                            *)
ProbedBits(h, nbits) ==
  LET delta == ((h * RotateLimit) % HashLimit) + h \div (HashLimit \div RotateLimit)
  IN  {((h + i * delta) % HashLimit) % nbits : i \in 0 .. Probes - 1}

BuildFilter(hashes) ==
  LET nbits == FilterBits(Len(hashes))
  IN  [nbits |-> nbits, bits |-> UNION {ProbedBits(h, nbits) : h \in ToSet(hashes)}]

MayContain(bloom, h) == ProbedBits(h, bloom.nbits) \subseteq bloom.bits

-----------------------------------------------------------------------------
(* SsTableBuilder *)

NewBuilder == [builder |-> NewBlock, first_key |-> <<>>, last_key |-> <<>>,
               data |-> <<>>, size |-> 0, meta |-> <<>>, key_hashes |-> <<>>]

(* A flag byte, the block and a checksum of 4 bytes.  The keys are moved   *)
(* out of the builder.                                                     *)
FinishBlock(b) ==
  LET block == Encode(b.builder) IN
  IF b.builder = NewBlock THEN b
  ELSE [b EXCEPT !.builder = NewBlock, !.first_key = <<>>, !.last_key = <<>>,
                 !.data = Append(@, [at |-> b.size, block |-> block]),
                 !.size = @ + 1 + EncodedSize(block) + 4,
                 !.meta = Append(@, [offset |-> b.size,
                                     first_key |-> b.first_key, last_key |-> b.last_key])]

(* Mutant: the hash of a key that starts a block is forgotten. *)
TableAddUnhashed(b, key, value) ==
  LET done == FinishBlock(b) IN
  IF Fits(b.builder, key, value)
    THEN [b EXCEPT !.first_key = IF @ = <<>> THEN key ELSE @, !.last_key = key,
                   !.key_hashes = Append(@, Hash(key)), !.builder = BlockAdd(@, key, value)]
    ELSE [done EXCEPT !.builder = BlockAdd(@, key, value), !.first_key = key, !.last_key = key]

TableAdd(b, key, value) ==
  LET hashed == [b EXCEPT !.first_key = IF @ = <<>> THEN key ELSE @,
                          !.key_hashes = Append(@, Hash(key))]
      done   == FinishBlock(hashed)
  IN  IF Fits(b.builder, key, value)
        THEN [hashed EXCEPT !.builder = BlockAdd(@, key, value), !.last_key = key]
        ELSE [done EXCEPT !.builder = BlockAdd(@, key, value),
                          !.first_key = key, !.last_key = key]

(* encode_block_meta and decode_block_meta: an offset has 32 bits, the     *)
(* length of a key 16.                                                     *)
CodedBlockMeta(meta) ==
  LET Coded(key) == SubSeq(key, 1, Len(key) % FieldLimit) IN
  [i \in DOMAIN meta |-> [offset    |-> meta[i].offset % (FieldLimit * FieldLimit),
                          first_key |-> Coded(meta[i].first_key),
                          last_key  |-> Coded(meta[i].last_key)]]

(* build() and SsTable::open on the file it wrote; entries is what a flush *)
(* or a compaction adds, in the order of the keys.                         *)
Build(entries) ==
  LET added[n \in 0 .. Len(entries)] ==
        IF n = 0 THEN NewBuilder ELSE TableAdd(added[n - 1], entries[n].key, entries[n].value)
      b    == FinishBlock(added[Len(entries)])
      meta == CodedBlockMeta(b.meta)
  IN  [data |-> b.data, block_meta |-> meta,
       first_key |-> Head(meta).first_key, last_key |-> Last(meta).last_key,
       bloom |-> BuildFilter(b.key_hashes)]

-----------------------------------------------------------------------------
(* Reading; blocks are numbered from 0. *)

NumBlocks(table) == Len(table.block_meta)

ReadBlock(table, idx) ==
  LET at == table.block_meta[idx + 1].offset
  IN  Decode((CHOOSE b \in ToSet(table.data) : b.at = at).block)

(* The last block that starts at or before the key, or the first one. *)
FindBlockIdx(table, key) ==
  LET beyond == {i \in DOMAIN table.block_meta : KeyLess(key, table.block_meta[i].first_key)}
      upper  == IF beyond = {} THEN NumBlocks(table) ELSE Min(beyond) - 1
  IN  IF upper > 0 THEN upper - 1 ELSE 0

(* keep_table of get() *)
KeepTable(table, key) ==
  /\ ~KeyLess(key, table.first_key) /\ ~KeyLess(table.last_key, key)
  /\ MayContain(table.bloom, Hash(key))
=============================================================================
