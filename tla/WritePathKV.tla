----------------------------- MODULE WritePathKV -----------------------------
(***************************************************************************)
(* WritePath implements KVStore: the map is what get() answers for every   *)
(* key, and a write takes effect when MemTable::put inserts it.            *)
(***************************************************************************)
EXTENDS WritePath

CallOf(c) ==
  IF op[c] = NoOp THEN [key |-> -1, ent |-> 0, done |-> TRUE]
  ELSE [key |-> op[c].key, ent |-> op[c].ent, done |-> pc[c] # "logged"]

(* A client that is not in a put() has no write under way; the refinement   *)
(* needs this besides IInv.                                                *)
NoStrayWrite ==
  \A c \in Clients :
    pc[c] \in {"idle", "flush", "flush_swap", "flush_record"} => op[c] = NoOp

KV == INSTANCE KVStore WITH
        store <- [k \in Keys |-> Get(k)],
        call  <- [c \in Clients |-> CallOf(c)]

(* Every behaviour of the write path, with its freezes, flushes and two    *)
(* locks, is one of a single map to callers of get(), put() and del().     *)
ImplementsKV == KV!Spec
=============================================================================
