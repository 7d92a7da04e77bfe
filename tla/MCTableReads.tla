---------------------------- MODULE MCTableReads ----------------------------
(* Small instances of TableReads. *)
EXTENDS TableReads

(* The keys in order: prefixes of each other, and not. *)
KeySeq == << <<1>>, <<1, 2>>, <<1, 2, 1>>, <<1, 3>>, <<2>> >>
AllKeys == ToSet(KeySeq)

KeyHash(k) == FoldLeft(LAMBDA h, byte : (h * 41 + byte * 67) % HashLimit, 7, k)

(* The entries of a table by the lengths of its values; NoValue where the  *)
(* key is not there.                                                       *)
NoValue == 99
Entries(f) ==
  SelectSeq([i \in DOMAIN KeySeq |-> [key |-> KeySeq[i], value |-> f[i]]],
            LAMBDA e : e.value # NoValue)

(* One reader of one table: tombstones, short values, and values that fill *)
(* a block and more.                                                       *)
AnyTable ==
  {[entries |-> <<Entries(f)>>, readers |-> {CHOOSE r \in Readers : TRUE}, capacity |-> 1] :
     f \in [DOMAIN KeySeq -> {0, 3, FieldLimit - 1, NoValue}] \ {[i \in DOMAIN KeySeq |-> NoValue]}}

(* All readers, on tables of two and of three blocks, with caches for less *)
(* than all of them.                                                       *)
SharedCache ==
  {[entries |-> <<Entries(<<3, 0, 20, NoValue, 1>>), Entries(<<NoValue, 25, 2, 28, NoValue>>)>>,
    readers |-> Readers, capacity |-> n] : n \in 0 .. 3}

AllScenarios == AnyTable \cup SharedCache
=============================================================================
