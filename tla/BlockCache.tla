----------------------------- MODULE BlockCache -----------------------------
(***************************************************************************)
(* BlockCache: a list of blocks, the one used last in front, and a map     *)
(* from the key of a block, its table's id and its number, to the list.    *)
(* Every step holds the cache's mutex.                                     *)
(***************************************************************************)
EXTENDS Naturals, SequencesExt

VARIABLES
  capacity,      \* the number of blocks the cache may hold
  list,          \* list_: keys and blocks
  map,           \* map_: the keys that have a place in the list
  recency        \* history: every key ever used, the one used last in front

cacheVars == <<capacity, list, map, recency>>

CacheKeys(entries) == [i \in DOMAIN entries |-> entries[i].key]

Used(order, k) == <<k>> \o RemoveFirst(order, k)

(* The place of a key that is in the map. *)
PlaceOf(k) == CHOOSE i \in DOMAIN list : list[i].key = k

(* list_.splice *)
ToFront(entry, i) == <<entry>> \o RemoveAt(list, i)

CacheInit ==
  /\ capacity \in Nat
  /\ list = <<>> /\ map = {} /\ recency = <<>>

(* get() finds the block and moves it to the front ... *)
CacheHit(k) ==
  /\ k \in map
  /\ list' = ToFront(list[PlaceOf(k)], PlaceOf(k))
  /\ recency' = Used(recency, k)
  /\ UNCHANGED <<capacity, map>>

(* ... or does not. *)
CacheMiss(k) == k \notin map /\ UNCHANGED cacheVars

(* Mutant: insert() does not look whether another reader was faster. *)
CacheInsertAgain(k, block) ==
  /\ LET full == capacity > 0 /\ Cardinality(map) >= capacity
         kept == IF full THEN Front(list) ELSE list
     IN /\ list' = IF capacity = 0 THEN list ELSE <<[key |-> k, block |-> block]>> \o kept
        /\ map' = IF capacity = 0 THEN map
                  ELSE (IF full THEN map \ {Last(list).key} ELSE map) \cup {k}
  /\ recency' = Used(recency, k)
  /\ UNCHANGED capacity

(* insert() replaces the block, or puts it in front and drops the last one *)
(* when the cache is full.                                                 *)
CacheInsert(k, block) ==
  /\ LET entry == [key |-> k, block |-> block] IN
     \/ capacity = 0 /\ UNCHANGED <<list, map>>
     \/ capacity > 0 /\ k \in map /\ list' = ToFront(entry, PlaceOf(k)) /\ UNCHANGED map
     \/ /\ capacity > 0 /\ k \notin map /\ Cardinality(map) >= capacity
        /\ list' = <<entry>> \o Front(list)
        /\ map' = (map \ {Last(list).key}) \cup {k}
     \/ /\ capacity > 0 /\ k \notin map /\ Cardinality(map) < capacity
        /\ list' = <<entry>> \o list
        /\ map' = map \cup {k}
  /\ recency' = Used(recency, k)
  /\ UNCHANGED capacity

-----------------------------------------------------------------------------
(* Properties *)

(* The cache is a least-recently-used cache whatever the threads do        *)
(* between a miss and the insertion it leads to: it holds exactly the      *)
(* blocks used last, as many as it may, in the order of use, each one      *)
(* once, and the map knows just those.                                     *)
CacheIsLru ==
  /\ CacheKeys(list) = SubSeq(recency, 1, IF Len(recency) < capacity THEN Len(recency) ELSE capacity)
  /\ map = ToSet(CacheKeys(list))
=============================================================================
