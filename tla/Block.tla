-------------------------------- MODULE Block --------------------------------
(***************************************************************************)
(* Blocks of an SSTable: BlockBuilder, the encoded block and BlockIterator.*)
(*                                                                         *)
(* A key is a sequence of bytes and a value is its length, 0 for a         *)
(* tombstone.  The bytes of a block are kept as the entries they encode,   *)
(* each at the position where it starts.  A field of 16 bits holds its     *)
(* number modulo FieldLimit.                                               *)
(***************************************************************************)
EXTENDS Naturals, SequencesExt

CONSTANTS
  BlockSize,     \* options.block_size
  FieldLimit     \* 2^16

ASSUME BlockAssumption == FieldLimit \in Nat \ {0} /\ BlockSize \in 0 .. FieldLimit

(* KeySlice::compare *)
KeyLess(a, b) ==
  \/ IsStrictPrefix(a, b)
  \/ \E i \in DOMAIN a \cap DOMAIN b : a[i] < b[i] /\ \A j \in 1 .. i - 1 : a[j] = b[j]

-----------------------------------------------------------------------------
(* BlockBuilder *)

NewBlock == [data |-> <<>>, offsets |-> <<>>, first_key |-> <<>>]

DataSize(b) == IF b.data = <<>> THEN 0 ELSE Last(b.data).at + Last(b.data).size

(* The estimate that refuses an entry.  The first one is always taken. *)
Fits(b, key, value) ==
  \/ b.offsets = <<>>
  \/ 2 + 2 * Len(b.offsets) + DataSize(b) + Len(key) + value + 6 <= BlockSize

(* compute_overlap *)
Overlap(first, key) == Len(LongestCommonPrefix({first, key}))

(* An entry is what its key does not share with the first one, and its     *)
(* value, with three lengths.                                              *)
BlockAdd(b, key, value) ==
  LET shared == Overlap(b.first_key, key)
      entry  == [at |-> DataSize(b), size |-> 6 + Len(key) - shared + value,
                 overlap |-> shared % FieldLimit,
                 rest |-> SubSeq(key, shared + 1, Len(key)),
                 value |-> value % FieldLimit]
  IN  [data      |-> Append(b.data, entry),
       offsets   |-> Append(b.offsets, DataSize(b) % FieldLimit),
       first_key |-> IF b.first_key = <<>> THEN key ELSE b.first_key]

-----------------------------------------------------------------------------
(* Block::encode and decode: the offsets and their number follow the data. *)

Encode(b) == [data |-> b.data, offsets |-> b.offsets, num |-> Len(b.offsets) % FieldLimit]

EncodedSize(e) == DataSize(e) + 2 * Len(e.offsets) + 2

Decode(e) ==
  [data |-> e.data, offsets |-> SubSeq(e.offsets, Len(e.offsets) - e.num + 1, Len(e.offsets))]

-----------------------------------------------------------------------------
(* BlockIterator, at an entry by its number from 0 *)

(* What is read where no entry starts. *)
Garbage == [overlap |-> 0, rest |-> <<>>, value |-> 0]

EntryAt(block, offset) ==
  LET there == {e \in ToSet(block.data) : e.at = offset}
  IN  IF there = {} THEN Garbage ELSE CHOOSE e \in there : TRUE

(* is_valid() *)
InBlock(block, idx) == idx < Len(block.offsets)

(* seek_to_offset; the iterator took the first key from the first entry. *)
KeyAt(block, idx) ==
  LET e == EntryAt(block, block.offsets[idx + 1])
  IN  SubSeq(block.data[1].rest, 1, e.overlap) \o e.rest

ValueAt(block, idx) == EntryAt(block, block.offsets[idx + 1]).value

(* seek_to_key: the binary search, which leaves the iterator at the target *)
(* or at the first key beyond it.                                          *)
BlockSeek(block, target) ==
  LET n == Len(block.offsets)
      search[range \in (0 .. n) \X (0 .. n)] ==
        LET low  == range[1]
            high == range[2]
            mid  == low + (high - low) \div 2
        IN  IF low >= high THEN low
            ELSE IF KeyLess(KeyAt(block, mid), target) THEN search[<<mid + 1, high>>]
            ELSE IF KeyLess(target, KeyAt(block, mid)) THEN search[<<low, mid>>]
            ELSE mid
  IN  search[<<0, n>>]
=============================================================================
