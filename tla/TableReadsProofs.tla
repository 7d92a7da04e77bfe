-------------------------- MODULE TableReadsProofs --------------------------
(***************************************************************************)
(* What threads read from SSTables, for any tables, keys, size of blocks,  *)
(* capacity of the cache and number of readers: the cache is a             *)
(* least-recently-used one and holds blocks of the tables it names, the    *)
(* filter of a table lets its keys through, and an iterator yields exactly *)
(* the entries of its table from its target on.                            *)
(***************************************************************************)
(* The argument goes from the bottom up: the order of keys; a block holds  *)
(* what was added to it and gives it back, and the search in it ends at    *)
(* the first key that is not before the target; a table is its entries cut *)
(* into blocks; an iterator has read the entries from its target up to the *)
(* one it stands at.  A recursive function is followed by its least        *)
(* counterexample.                                                         *)
(***************************************************************************)
EXTENDS TableReads, FiniteSetTheorems, WellFoundedInduction, TLAPS

-----------------------------------------------------------------------------
(* Lists *)

(* Two lists one after the other. *)
LEMMA JoinedIs ==
  ASSUME NEW S, NEW a \in Seq(S), NEW b \in Seq(S)
  PROVE  a \o b = [j \in 1 .. Len(a) + Len(b) |-> IF j <= Len(a) THEN a[j] ELSE b[j - Len(a)]]
<1>1. a \o b \in Seq(S) /\ Len(a \o b) = Len(a) + Len(b)
  OBVIOUS
<1>2. \A j \in 1 .. Len(a) + Len(b) :
        (a \o b)[j] = IF j <= Len(a) THEN a[j] ELSE b[j - Len(a)]
  OBVIOUS
<1>3. \A s \in Seq(S) : s = [j \in 1 .. Len(s) |-> s[j]]
  OBVIOUS
<1>4. a \o b = [j \in 1 .. Len(a) + Len(b) |-> (a \o b)[j]]
  BY <1>1, <1>3
<1> QED BY <1>2, <1>4

(* A list without one of its elements. *)
LEMMA RemoveAtIs ==
  ASSUME NEW S, NEW s \in Seq(S), NEW i \in 1 .. Len(s)
  PROVE  RemoveAt(s, i) = [j \in 1 .. Len(s) - 1 |-> IF j < i THEN s[j] ELSE s[j + 1]]
<1>1. PICK a : a = SubSeq(s, 1, i - 1)
  OBVIOUS
<1>2. PICK b : b = SubSeq(s, i + 1, Len(s))
  OBVIOUS
<1>3. a \in Seq(S) /\ Len(a) = i - 1 /\ \A j \in 1 .. i - 1 : a[j] = s[j]
  BY <1>1
<1>4. b \in Seq(S) /\ Len(b) = Len(s) - i /\ \A j \in 1 .. Len(s) - i : b[j] = s[i + j]
  BY <1>2
<1>5. a \o b = [j \in 1 .. Len(a) + Len(b) |-> IF j <= Len(a) THEN a[j] ELSE b[j - Len(a)]]
  <2>1. a \in Seq(S) /\ b \in Seq(S)
    BY <1>3, <1>4
  <2> QED BY ONLY <2>1, JoinedIs
<1>6. Len(a) + Len(b) = Len(s) - 1
  BY <1>3, <1>4
<1>7. \A j \in 1 .. Len(s) - 1 :
        (IF j <= Len(a) THEN a[j] ELSE b[j - Len(a)]) = IF j < i THEN s[j] ELSE s[j + 1]
  BY <1>3, <1>4
<1>8. a \o b = [j \in 1 .. Len(s) - 1 |-> IF j < i THEN s[j] ELSE s[j + 1]]
  BY <1>5, <1>6, <1>7
<1> QED BY <1>1, <1>2, <1>8 DEF RemoveAt

(* A function on the first numbers is a list. *)
LEMMA FunctionIsList ==
  ASSUME NEW S, NEW n \in Nat, NEW f \in [1 .. n -> S]
  PROVE  f \in Seq(S) /\ Len(f) = n
OBVIOUS

(* A list with an element in front. *)
LEMMA ConsIs ==
  ASSUME NEW S, NEW s \in Seq(S), NEW x \in S
  PROVE  /\ <<x>> \o s \in Seq(S) /\ Len(<<x>> \o s) = Len(s) + 1
         /\ <<x>> \o s = [j \in 1 .. Len(s) + 1 |-> IF j = 1 THEN x ELSE s[j - 1]]
OBVIOUS

Moved(s, x, i) ==
  [j \in 1 .. Len(s) |-> IF j = 1 THEN x ELSE IF j <= i THEN s[j - 1] ELSE s[j]]

(* A list with one of its elements moved to the front, or another element  *)
(* in its stead.                                                           *)
LEMMA MovedIs ==
  ASSUME NEW S, NEW s \in Seq(S), NEW x \in S, NEW i \in 1 .. Len(s)
  PROVE  /\ <<x>> \o RemoveAt(s, i) = Moved(s, x, i)
         /\ Moved(s, x, i) \in Seq(S) /\ Len(Moved(s, x, i)) = Len(s)
<1> DEFINE r == [j \in 1 .. Len(s) - 1 |-> IF j < i THEN s[j] ELSE s[j + 1]]
<1>1. RemoveAt(s, i) = r
  BY RemoveAtIs
<1>2. r \in [1 .. Len(s) - 1 -> S] /\ Len(s) - 1 \in Nat
  OBVIOUS
<1>3. r \in Seq(S) /\ Len(r) = Len(s) - 1
  BY <1>2, FunctionIsList
<1>4. \A j \in 1 .. Len(s) : (IF j = 1 THEN x ELSE r[j - 1]) =
                             (IF j = 1 THEN x ELSE IF j <= i THEN s[j - 1] ELSE s[j])
  OBVIOUS
<1> HIDE DEF r
<1>5. /\ <<x>> \o r \in Seq(S) /\ Len(<<x>> \o r) = Len(s)
      /\ <<x>> \o r = [j \in 1 .. Len(s) |-> IF j = 1 THEN x ELSE r[j - 1]]
  BY <1>3, ConsIs
<1> QED BY <1>1, <1>4, <1>5 DEF Moved

(* It is as long as before. *)
LEMMA MovedLen ==
  ASSUME NEW s, NEW x, NEW i, Len(s) \in Nat
  PROVE  Len(Moved(s, x, i)) = Len(s)
BY DEF Moved

(* The first elements of a list. *)
LEMMA PrefixIs ==
  ASSUME NEW S, NEW s \in Seq(S), NEW n \in 0 .. Len(s)
  PROVE  SubSeq(s, 1, n) = [i \in 1 .. n |-> s[i]]
OBVIOUS

(* Every list is one of its own elements. *)
LEMMA OwnElements ==
  ASSUME NEW S, NEW s \in Seq(S)
  PROVE  s \in Seq(ToSet(s)) /\ ToSet(s) \subseteq S
BY DEF ToSet

(* A key that was used: its place in the order, if it has one, becomes the *)
(* first.                                                                  *)
LEMMA UsedIs ==
  ASSUME NEW S, NEW s \in Seq(S), NEW k \in S, IsInjective(s)
  PROVE  /\ Used(s, k) \in Seq(S) /\ IsInjective(Used(s, k))
         /\ \A p \in 1 .. Len(s) : s[p] = k => Used(s, k) = Moved(s, k, p)
         /\ k \notin ToSet(s) => Used(s, k) = <<k>> \o s
<1>1. CASE k \notin ToSet(s)
  <2>1. ~ \E i \in 1 .. Len(s) : s[i] = k
    BY <1>1 DEF ToSet
  <2>2. Used(s, k) = <<k>> \o s
    BY <2>1 DEF Used, RemoveFirst
  <2>3. IsInjective(<<k>> \o s)
    <3>1. \A i, j \in 1 .. Len(s) : s[i] = s[j] => i = j
      BY DEF IsInjective
    <3> QED BY <2>1, <3>1, ConsIs DEF IsInjective
  <2> QED BY <1>1, <2>1, <2>2, <2>3, ConsIs
<1>2. CASE k \in ToSet(s)
  <2>1. PICK p \in 1 .. Len(s) : s[p] = k
    BY <1>2 DEF ToSet
  <2>2. \A i \in 1 .. Len(s) : s[i] = k => i = p
    BY <2>1 DEF IsInjective
  <2>3. {i \in 1 .. Len(s) : s[i] = k} = {p}
    BY <2>1, <2>2
  <2>4. Min({p}) = p
    BY DEF Min
  <2>5. RemoveFirst(s, k) = RemoveAt(s, p)
    <3>1. SelectInSeq(s, LAMBDA v : v = k) = p
      BY <2>3, <2>4 DEF SelectInSeq
    <3> QED BY <2>1, <3>1 DEF RemoveFirst
  <2>6. Used(s, k) = <<k>> \o RemoveAt(s, p)
    BY <2>5 DEF Used
  <2> DEFINE u == Used(s, k)
  <2>7. u \in Seq(S) /\ Len(u) = Len(s) /\ u = Moved(s, k, p)
    <3>1. p \in 1 .. Len(s)
      BY <2>1
    <3>2. /\ <<k>> \o RemoveAt(s, p) = Moved(s, k, p)
          /\ Moved(s, k, p) \in Seq(S) /\ Len(Moved(s, k, p)) = Len(s)
      BY <3>1, MovedIs, ZenonT(30)
    <3> QED BY <2>6, <3>2
  <2> HIDE DEF u
  <2>8. IsInjective(u)
    <3>1. \A i, j \in 1 .. Len(s) : s[i] = s[j] => i = j
      BY DEF IsInjective
    <3>2. DOMAIN u = 1 .. Len(s)
      BY <2>7
    <3> SUFFICES ASSUME NEW i \in 1 .. Len(s), NEW j \in 1 .. Len(s), u[i] = u[j] PROVE i = j
      BY <3>2 DEF IsInjective
    <3> QED BY <2>1, <2>7, <3>1 DEF Moved
  <2> QED BY <1>2, <2>2, <2>7, <2>8 DEF u
<1> QED BY <1>1, <1>2

-----------------------------------------------------------------------------
(* The cache *)

(* A list of blocks and an order of use, each a list, and no key twice in  *)
(* the order.                                                              *)
Lists(l, r, c) ==
  c \in Nat /\ l \in Seq(ToSet(l)) /\ r \in Seq(ToSet(r)) /\ IsInjective(r)

(* CacheIsLru, place by place. *)
Lru(l, m, r, c) ==
  /\ Len(l) = IF Len(r) < c THEN Len(r) ELSE c
  /\ \A i \in 1 .. Len(l) : l[i].key = r[i]
  /\ m = {l[i].key : i \in 1 .. Len(l)}

(* The inductive invariant of the cache. *)
CacheInv == Lists(list, recency, capacity) /\ Lru(list, map, recency, capacity)

(* It is what CacheIsLru says. *)
LEMMA LruIs == CacheInv => CacheIsLru
<1> SUFFICES ASSUME CacheInv PROVE CacheIsLru
  OBVIOUS
<1> DEFINE n == IF Len(recency) < capacity THEN Len(recency) ELSE capacity
<1>1. Len(recency) \in Nat /\ capacity \in Nat /\ Len(list) = n
  BY DEF CacheInv, Lists, Lru
<1>2. n \in 0 .. Len(recency)
  BY <1>1
<1>3. DOMAIN list = 1 .. n
  BY <1>1 DEF CacheInv, Lists
<1>4. CacheKeys(list) = [i \in 1 .. n |-> recency[i]]
  BY <1>1, <1>3 DEF CacheInv, Lru, CacheKeys
<1> HIDE DEF n
<1>5. SubSeq(recency, 1, n) = [i \in 1 .. n |-> recency[i]]
  BY <1>2, PrefixIs DEF CacheInv, Lists
<1>6. map = ToSet(CacheKeys(list))
  BY <1>1, <1>3 DEF CacheInv, Lru, CacheKeys, ToSet
<1> QED BY <1>4, <1>5, <1>6 DEF CacheIsLru, n

(* The map has as many keys as the list. *)
LEMMA MapSize ==
  ASSUME NEW l, NEW m, NEW r, NEW c, Lists(l, r, c), Lru(l, m, r, c)
  PROVE  Cardinality(m) = Len(l)
<1>1. Len(l) \in Nat /\ Len(l) <= Len(r)
  BY DEF Lists, Lru
<1> DEFINE f == [i \in 1 .. Len(l) |-> l[i].key]
<1>2. f \in [1 .. Len(l) -> m] /\ \A x \in m : \E i \in 1 .. Len(l) : f[i] = x
  BY DEF Lru
<1>3. \A i, j \in 1 .. Len(l) : f[i] = f[j] => i = j
  BY <1>1 DEF Lists, Lru, IsInjective
<1>4. f \in Bijection(1 .. Len(l), m)
  BY <1>2, <1>3 DEF Bijection, Injection, Surjection, IsInjective
<1>5. IsFiniteSet(1 .. Len(l)) /\ Cardinality(1 .. Len(l)) = Len(l)
  <2>1. 1 \in Int /\ Len(l) \in Int
    BY <1>1
  <2>2. Cardinality(1 .. Len(l)) = IF 1 > Len(l) THEN 0 ELSE Len(l) - 1 + 1
    BY <2>1, FS_Interval
  <2>3. IsFiniteSet(1 .. Len(l))
    BY <2>1, FS_Interval
  <2> QED BY <1>1, <2>2, <2>3
<1>6. ExistsBijection(1 .. Len(l), m)
  BY <1>4 DEF ExistsBijection
<1> QED BY <1>5, <1>6, FS_Bijection

(* A block of the cache moves to the front. *)
LEMMA MovedLru ==
  ASSUME NEW l, NEW m, NEW r, NEW c, Lists(l, r, c), Lru(l, m, r, c),
         NEW e, NEW p \in 1 .. Len(l), l[p].key = e.key
  PROVE  /\ Lists(<<e>> \o RemoveAt(l, p), Used(r, e.key), c)
         /\ Lru(<<e>> \o RemoveAt(l, p), m, Used(r, e.key), c)
<1> DEFINE n == Len(l)
           E == ToSet(l) \cup {e}
           K == ToSet(r)
<1>1. n \in Nat /\ n <= Len(r) /\ Len(r) \in Nat
  BY DEF Lists, Lru
<1>2. r[p] = e.key /\ p \in 1 .. Len(r) /\ e.key \in K
  BY <1>1 DEF Lists, Lru, ToSet
<1>3. l \in Seq(E) /\ r \in Seq(K) /\ e \in E
  BY DEF Lists
<1>4. /\ <<e>> \o RemoveAt(l, p) = Moved(l, e, p)
      /\ Moved(l, e, p) \in Seq(E) /\ Len(Moved(l, e, p)) = n
  <2> HIDE DEF n, E, K
  <2>1. p \in 1 .. Len(l)
    OBVIOUS
  <2>2. Len(Moved(l, e, p)) = n
    BY <1>1, MovedLen DEF n
  <2> QED BY ONLY <1>3, <2>1, <2>2, MovedIs
<1>5. /\ Used(r, e.key) = Moved(r, e.key, p) /\ Len(Moved(r, e.key, p)) = Len(r)
      /\ Used(r, e.key) \in Seq(K) /\ IsInjective(Used(r, e.key))
  <2>1. IsInjective(r)
    BY DEF Lists
  <2>2. Len(Moved(r, e.key, p)) = Len(r)
    BY <1>1, MovedLen
  <2> QED BY <1>2, <1>3, <2>1, <2>2, UsedIs, Zenon
<1>6. Lists(Moved(l, e, p), Used(r, e.key), c)
  BY <1>4, <1>5, OwnElements DEF Lists
<1>7. \A i \in 1 .. n : Moved(l, e, p)[i].key = Moved(r, e.key, p)[i]
  <2> SUFFICES ASSUME NEW i \in 1 .. n PROVE Moved(l, e, p)[i].key = Moved(r, e.key, p)[i]
    OBVIOUS
  <2>1. Moved(l, e, p)[i] = IF i = 1 THEN e ELSE IF i <= p THEN l[i - 1] ELSE l[i]
    BY DEF Moved
  <2>2. Moved(r, e.key, p)[i] = IF i = 1 THEN e.key ELSE IF i <= p THEN r[i - 1] ELSE r[i]
    BY <1>1 DEF Moved
  <2> QED BY <1>1, <2>1, <2>2 DEF Lru
<1>8. m = {Moved(l, e, p)[i].key : i \in 1 .. n}
  <2>1. \A i \in 1 .. n : Moved(l, e, p)[i].key \in m
    BY <1>1 DEF Moved, Lru
  <2>2. ASSUME NEW i \in 1 .. n
        PROVE  \E j \in 1 .. n : Moved(l, e, p)[j].key = l[i].key
    <3>1. CASE i = p
      <4>1. 1 \in 1 .. n /\ Moved(l, e, p)[1] = e
        BY <1>1 DEF Moved
      <4> QED BY <3>1, <4>1
    <3>2. CASE i < p
      <4>1. i + 1 \in 1 .. n /\ Moved(l, e, p)[i + 1] = l[i]
        BY <1>1, <3>2 DEF Moved
      <4> QED BY <4>1
    <3>3. CASE i > p
      <4>1. Moved(l, e, p)[i] = l[i]
        BY <1>1, <3>3 DEF Moved
      <4> QED BY <4>1
    <3> QED BY <1>1, <3>1, <3>2, <3>3
  <2>3. m = {l[i].key : i \in 1 .. n}
    BY DEF Lru
  <2>4. \A x \in m : x \in {Moved(l, e, p)[i].key : i \in 1 .. n}
    <3> SUFFICES ASSUME NEW x \in m PROVE \E j \in 1 .. n : x = Moved(l, e, p)[j].key
      OBVIOUS
    <3>1. PICK i \in 1 .. n : x = l[i].key
      BY <2>3
    <3> QED BY <2>2, <3>1
  <2>5. \A x : x \in {Moved(l, e, p)[i].key : i \in 1 .. n} => x \in m
    BY <2>1
  <2> QED BY <2>4, <2>5
<1>9. Lru(Moved(l, e, p), m, Moved(r, e.key, p), c)
  BY <1>4, <1>5, <1>7, <1>8 DEF Lru
<1> QED BY <1>4, <1>5, <1>6, <1>9

(* A block comes in, and the last one goes when there is no room. *)
LEMMA NewLru ==
  ASSUME NEW l, NEW m, NEW r, NEW c, Lists(l, r, c), Lru(l, m, r, c),
         NEW e, e.key \notin m, NEW n \in 0 .. Len(l), n + 1 <= c,
         n = IF Len(l) < c THEN Len(l) ELSE c - 1,
         NEW kept, kept = [i \in 1 .. n |-> l[i]]
  PROVE  /\ Lists(<<e>> \o kept, Used(r, e.key), c)
         /\ Lru(<<e>> \o kept, {l[i].key : i \in 1 .. n} \cup {e.key}, Used(r, e.key), c)
<1> DEFINE E == ToSet(l) \cup {e}
           K == ToSet(r) \cup {e.key}
           l2 == <<e>> \o kept
           r2 == Used(r, e.key)
<1>1. n \in Nat /\ n <= Len(l) /\ Len(l) <= Len(r) /\ Len(r) \in Nat /\ Len(l) \in Nat /\ c \in Nat
  BY DEF Lists, Lru
<1>2. kept \in Seq(E) /\ Len(kept) = n
  <2>1. kept \in [1 .. n -> E]
    BY <1>1 DEF Lists, ToSet
  <2> QED BY <1>1, <2>1, FunctionIsList
<1>3. /\ l2 \in Seq(E) /\ Len(l2) = n + 1
      /\ l2 = [j \in 1 .. n + 1 |-> IF j = 1 THEN e ELSE kept[j - 1]]
  BY <1>2, ConsIs
<1>4. r \in Seq(K) /\ e.key \in K
  BY DEF Lists
<1>5. /\ r2 \in Seq(K) /\ IsInjective(r2)
      /\ \A p \in 1 .. Len(r) : r[p] = e.key => r2 = Moved(r, e.key, p) /\ Len(r2) = Len(r)
      /\ e.key \notin ToSet(r) =>
           /\ Len(r2) = Len(r) + 1
           /\ r2 = [j \in 1 .. Len(r) + 1 |-> IF j = 1 THEN e.key ELSE r[j - 1]]
  <2>1. IsInjective(r)
    BY DEF Lists
  <2>2. /\ r2 \in Seq(K) /\ IsInjective(r2)
        /\ \A p \in 1 .. Len(r) : r[p] = e.key => r2 = Moved(r, e.key, p)
        /\ e.key \notin ToSet(r) => r2 = <<e.key>> \o r
    BY <1>4, <2>1, UsedIs, Zenon
  <2>3. \A p \in 1 .. Len(r) : Len(Moved(r, e.key, p)) = Len(r)
    BY <1>1, MovedLen
  <2>4. /\ Len(<<e.key>> \o r) = Len(r) + 1
        /\ <<e.key>> \o r = [j \in 1 .. Len(r) + 1 |-> IF j = 1 THEN e.key ELSE r[j - 1]]
    BY <1>4, ConsIs
  <2> QED BY <2>2, <2>3, <2>4, Zenon
<1> HIDE DEF l2, r2
<1>6. Lists(l2, r2, c)
  <2>1. l2 \in Seq(ToSet(l2)) /\ r2 \in Seq(ToSet(r2))
    BY <1>3, <1>5, OwnElements
  <2> QED BY <1>1, <1>5, <2>1 DEF Lists
<1>7. /\ n + 1 = IF Len(r2) < c THEN Len(r2) ELSE c
      /\ \A i \in 1 .. n + 1 : r2[i] = IF i = 1 THEN e.key ELSE r[i - 1]
  <2>1. CASE e.key \notin ToSet(r)
    BY <1>1, <1>5, <2>1 DEF Lru
  <2>2. CASE e.key \in ToSet(r)
    <3>1. PICK p \in 1 .. Len(r) : r[p] = e.key
      <4>1. DOMAIN r = 1 .. Len(r)
        BY <1>4
      <4> QED BY <2>2, <4>1 DEF ToSet
    <3>2. p > Len(l)
      BY <1>1, <3>1 DEF Lru
    <3>3. r2 = Moved(r, e.key, p) /\ Len(r2) = Len(r)
      BY <1>5, <3>1
    <3>4. Len(l) = c /\ n = c - 1
      BY <1>1, <3>1, <3>2 DEF Lru
    <3> QED BY <1>1, <3>1, <3>2, <3>3, <3>4 DEF Moved
  <2> QED BY <2>1, <2>2
<1>8. \A i \in 1 .. n + 1 : l2[i].key = r2[i]
  BY <1>1, <1>3, <1>7 DEF Lru
<1>9. {l[i].key : i \in 1 .. n} \cup {e.key} = {l2[i].key : i \in 1 .. n + 1}
  <2>1. l2[1] = e /\ \A i \in 1 .. n : l2[i + 1] = l[i]
    BY <1>1, <1>3
  <2>2. \A i \in 1 .. n + 1 : i = 1 \/ (i - 1 \in 1 .. n /\ l2[i] = l[i - 1])
    BY <1>1, <1>3
  <2>3. 1 \in 1 .. n + 1 /\ \A i \in 1 .. n : i + 1 \in 1 .. n + 1
    BY <1>1
  <2>4. \A i \in 1 .. n + 1 : l2[i].key \in {l[j].key : j \in 1 .. n} \cup {e.key}
    BY <2>1, <2>2
  <2>5. e.key \in {l2[i].key : i \in 1 .. n + 1}
    BY <2>1, <2>3
  <2>6. \A i \in 1 .. n : l[i].key \in {l2[j].key : j \in 1 .. n + 1}
    BY <2>1, <2>3
  <2>7. \A x : x \in {l2[i].key : i \in 1 .. n + 1} => x \in {l[i].key : i \in 1 .. n} \cup {e.key}
    BY <2>4
  <2>8. \A x : x \in {l[i].key : i \in 1 .. n} \cup {e.key} => x \in {l2[i].key : i \in 1 .. n + 1}
    BY <2>5, <2>6
  <2> QED BY <2>7, <2>8
<1>10. Lru(l2, {l[i].key : i \in 1 .. n} \cup {e.key}, r2, c)
  BY <1>3, <1>7, <1>8, <1>9 DEF Lru
<1> QED BY <1>6, <1>10 DEF l2, r2

-----------------------------------------------------------------------------
(* The steps *)

(* A key of the map has its place in the list. *)
LEMMA PlaceOfKey ==
  ASSUME CacheInv, NEW k \in map
  PROVE  PlaceOf(k) \in 1 .. Len(list) /\ list[PlaceOf(k)].key = k
<1>1. DOMAIN list = 1 .. Len(list)
  BY DEF CacheInv, Lists
<1>2. \E i \in DOMAIN list : list[i].key = k
  BY <1>1 DEF CacheInv, Lru
<1> QED BY <1>1, <1>2 DEF PlaceOf

(* get() keeps the invariant. *)
LEMMA HitKeeps ==
  ASSUME CacheInv, NEW k, CacheHit(k)
  PROVE  CacheInv'
<1>1. PlaceOf(k) \in 1 .. Len(list) /\ list[PlaceOf(k)].key = k
  BY PlaceOfKey DEF CacheHit
<1> DEFINE e == list[PlaceOf(k)]
           p == PlaceOf(k)
<1>2. /\ list' = <<e>> \o RemoveAt(list, p) /\ map' = map /\ capacity' = capacity
      /\ recency' = Used(recency, e.key)
  BY <1>1 DEF CacheHit, ToFront
<1>3. list[p].key = e.key /\ p \in 1 .. Len(list)
  BY <1>1
<1> HIDE DEF e, p
<1>4. /\ Lists(<<e>> \o RemoveAt(list, p), Used(recency, e.key), capacity)
      /\ Lru(<<e>> \o RemoveAt(list, p), map, Used(recency, e.key), capacity)
  BY <1>3, MovedLru DEF CacheInv
<1> QED BY <1>2, <1>4 DEF CacheInv

(* insert() keeps the invariant. *)
LEMMA InsertKeeps ==
  ASSUME CacheInv, NEW k, NEW block, CacheInsert(k, block)
  PROVE  CacheInv'
<1> DEFINE e == [key |-> k, block |-> block]
<1>1. e.key = k /\ recency' = Used(recency, e.key) /\ capacity' = capacity /\ capacity \in Nat
  BY DEF CacheInsert, CacheInv, Lists
<1>2. Cardinality(map) = Len(list) /\ Len(list) \in Nat /\ Len(list) <= capacity
  BY MapSize DEF CacheInv, Lists, Lru
<1>3. \/ capacity = 0 /\ UNCHANGED <<list, map>>
      \/ capacity > 0 /\ k \in map /\ list' = ToFront(e, PlaceOf(k)) /\ UNCHANGED map
      \/ /\ capacity > 0 /\ k \notin map /\ Cardinality(map) >= capacity
         /\ list' = <<e>> \o Front(list)
         /\ map' = (map \ {Last(list).key}) \cup {k}
      \/ /\ capacity > 0 /\ k \notin map /\ Cardinality(map) < capacity
         /\ list' = <<e>> \o list
         /\ map' = map \cup {k}
  BY DEF CacheInsert
<1> HIDE DEF e
<1>4. CASE capacity = 0 /\ UNCHANGED <<list, map>>
  <2> DEFINE K == ToSet(recency) \cup {k}
  <2>1. recency \in Seq(K) /\ k \in K /\ IsInjective(recency)
    BY DEF CacheInv, Lists
  <2>2. Used(recency, k) \in Seq(K) /\ IsInjective(Used(recency, k))
    BY <2>1, UsedIs, Zenon
  <2>3. Lists(list, Used(recency, k), 0)
    BY <1>4, <2>2, OwnElements DEF CacheInv, Lists
  <2>4. Lru(list, map, Used(recency, k), 0)
    BY <1>1, <1>2, <1>4, <2>2 DEF CacheInv, Lru
  <2> QED BY <1>1, <1>4, <2>3, <2>4 DEF CacheInv
<1>5. CASE capacity > 0 /\ k \in map /\ list' = ToFront(e, PlaceOf(k)) /\ UNCHANGED map
  <2> DEFINE p == PlaceOf(k)
  <2>1. list[p].key = e.key /\ p \in 1 .. Len(list)
    BY <1>1, <1>5, PlaceOfKey
  <2>2. list' = <<e>> \o RemoveAt(list, p)
    BY <1>5 DEF ToFront
  <2> HIDE DEF p
  <2>3. /\ Lists(<<e>> \o RemoveAt(list, p), Used(recency, e.key), capacity)
        /\ Lru(<<e>> \o RemoveAt(list, p), map, Used(recency, e.key), capacity)
    BY <2>1, MovedLru DEF CacheInv
  <2> QED BY <1>1, <1>5, <2>2, <2>3 DEF CacheInv
<1>6. CASE /\ capacity > 0 /\ k \notin map /\ Cardinality(map) >= capacity
           /\ list' = <<e>> \o Front(list)
           /\ map' = (map \ {Last(list).key}) \cup {k}
  <2> DEFINE n == capacity - 1
  <2>1. Len(list) = capacity /\ n \in 0 .. Len(list) /\ n + 1 <= capacity
        /\ n = IF Len(list) < capacity THEN Len(list) ELSE capacity - 1
    BY <1>1, <1>2, <1>6
  <2>2. Front(list) = [i \in 1 .. n |-> list[i]]
    <3>1. list \in Seq(ToSet(list)) /\ Len(list) - 1 = n
      BY <2>1 DEF CacheInv, Lists
    <3> QED BY <2>1, <3>1, PrefixIs DEF Front
  <2>3. (map \ {Last(list).key}) = {list[i].key : i \in 1 .. n}
    <3>1. Last(list) = list[n + 1] /\ 1 .. Len(list) = 1 .. n + 1 /\ n \in Nat
      BY <1>1, <2>1, <1>6 DEF Last
    <3>2. \A i \in 1 .. n + 1 : i \in 1 .. n \/ i = n + 1
      BY <3>1
    <3>3. \A i \in 1 .. n : list[i].key # list[n + 1].key /\ i \in 1 .. n + 1
      <4>1. \A i \in 1 .. n + 1 : list[i].key = recency[i] /\ i \in DOMAIN recency
        BY <2>1, <3>1 DEF CacheInv, Lru, Lists
      <4>2. n + 1 \in 1 .. n + 1 /\ \A i \in 1 .. n : i \in 1 .. n + 1 /\ i # n + 1
        BY <3>1
      <4> QED BY <4>1, <4>2 DEF CacheInv, Lists, IsInjective
    <3>4. map = {list[i].key : i \in 1 .. n + 1}
      BY <3>1 DEF CacheInv, Lru
    <3> HIDE DEF n
    <3>5. \A x : x \in map \ {Last(list).key} => x \in {list[i].key : i \in 1 .. n}
      BY <3>1, <3>2, <3>4
    <3>6. \A x : x \in {list[i].key : i \in 1 .. n} => x \in map \ {Last(list).key}
      BY <3>1, <3>3, <3>4
    <3> QED BY <3>5, <3>6
  <2>4. e.key \notin map
    BY <1>1, <1>6
  <2> HIDE DEF n
  <2>5. /\ Lists(<<e>> \o Front(list), Used(recency, e.key), capacity)
        /\ Lru(<<e>> \o Front(list), {list[i].key : i \in 1 .. n} \cup {e.key},
               Used(recency, e.key), capacity)
    <3>1. Lists(list, recency, capacity) /\ Lru(list, map, recency, capacity)
      BY DEF CacheInv
    <3>2. n \in 0 .. Len(list) /\ n + 1 <= capacity
      BY <2>1
    <3>3. n = IF Len(list) < capacity THEN Len(list) ELSE capacity - 1
      BY <2>1
    <3>4. PICK kept : kept = Front(list)
      OBVIOUS
    <3>5. kept = [i \in 1 .. n |-> list[i]]
      BY <2>2, <3>4
    <3>6. /\ Lists(<<e>> \o kept, Used(recency, e.key), capacity)
          /\ Lru(<<e>> \o kept, {list[i].key : i \in 1 .. n} \cup {e.key},
                 Used(recency, e.key), capacity)
      BY <2>4, <3>1, <3>2, <3>3, <3>5, NewLru
    <3> QED BY <3>4, <3>6
  <2> QED BY <1>1, <1>6, <2>3, <2>5 DEF CacheInv
<1>7. CASE /\ capacity > 0 /\ k \notin map /\ Cardinality(map) < capacity
           /\ list' = <<e>> \o list
           /\ map' = map \cup {k}
  <2> DEFINE n == Len(list)
  <2>1. n \in 0 .. Len(list) /\ n + 1 <= capacity
        /\ n = IF Len(list) < capacity THEN Len(list) ELSE capacity - 1
    BY <1>1, <1>2, <1>7
  <2>2. list = [i \in 1 .. n |-> list[i]]
    BY DEF CacheInv, Lists
  <2>3. map = {list[i].key : i \in 1 .. n}
    BY DEF CacheInv, Lru
  <2>4. e.key \notin map
    BY <1>1, <1>7
  <2> HIDE DEF n
  <2>5. /\ Lists(<<e>> \o list, Used(recency, e.key), capacity)
        /\ Lru(<<e>> \o list, {list[i].key : i \in 1 .. n} \cup {e.key},
               Used(recency, e.key), capacity)
    BY <2>1, <2>2, <2>4, NewLru DEF CacheInv
  <2> QED BY <1>1, <1>7, <2>3, <2>5 DEF CacheInv
<1> QED BY <1>3, <1>4, <1>5, <1>6, <1>7

(* Every step of the readers keeps the invariant of the cache. *)
LEMMA CacheStep == CacheInv /\ [Next]_readVars => CacheInv'
<1> SUFFICES ASSUME CacheInv, [Next]_readVars PROVE CacheInv'
  OBVIOUS
<1>1. ASSUME UNCHANGED cacheVars PROVE CacheInv'
  BY <1>1 DEF cacheVars, CacheInv
<1>2. ASSUME NEW r \in Readers, GetHit(r) PROVE CacheInv'
  BY <1>2, HitKeeps DEF GetHit
<1>3. ASSUME NEW r \in Readers, Insert(r) PROVE CacheInv'
  BY <1>3, InsertKeeps DEF Insert
<1>4. ASSUME NEW r \in Readers,
             \/ \E id \in DOMAIN tables, target \in KeySet \cup {<<>>} : Create(r, id, target)
             \/ GetMiss(r) \/ Load(r) \/ ReadNext(r) \/ Done(r)
      PROVE  UNCHANGED cacheVars
  BY <1>4 DEF Create, GetMiss, CacheMiss, Load, ReadNext, Done
<1>5. UNCHANGED readVars => UNCHANGED cacheVars
  BY DEF readVars
<1> QED BY <1>1, <1>2, <1>3, <1>4, <1>5 DEF Next

(* The cache starts empty. *)
LEMMA CacheStart == Init => CacheInv
<1> SUFFICES ASSUME Init PROVE CacheInv
  OBVIOUS
<1>1. capacity \in Nat /\ list = <<>> /\ map = {} /\ recency = <<>>
  BY DEF Init, CacheInit
<1>2. Lists(list, recency, capacity)
  BY <1>1 DEF Lists, IsInjective, ToSet
<1>3. Lru(list, map, recency, capacity)
  BY <1>1 DEF Lru
<1> QED BY <1>2, <1>3 DEF CacheInv

(* The cache holds the blocks used last, as many as it may and in the      *)
(* order of their use, and the map knows just those, for any number of     *)
(* readers that miss, read and insert in any order, and for any capacity.  *)
THEOREM CacheIsLruCorrect == Spec => []CacheIsLru
BY CacheStart, CacheStep, LruIs, PTL DEF Spec

-----------------------------------------------------------------------------
(* The blocks in the cache *)

(* A reader in the middle of its calls has all of its fields. *)
ReaderRecord(it) ==
  it = [pc |-> it.pc, id |-> it.id, target |-> it.target, seek |-> it.seek,
        blk_idx |-> it.blk_idx, block |-> it.block, idx |-> it.idx, read |-> it.read]

(* The block of a key is its table's. *)
IsBlockOf(block, key) == block = ReadBlock(tables[key.sst_id], key.block_idx)

CachedBlocks == \A i \in DOMAIN list : IsBlockOf(list[i].block, list[i].key)

(* A reader about to insert has read the block of the key it will insert   *)
(* it under, and nothing it does meanwhile moves it on.                    *)
BlocksInv ==
  /\ CacheInv /\ CachedBlocks
  /\ reader = [r \in Readers |-> reader[r]]
  /\ \A r \in Readers : reader[r].pc \notin {"idle", "done"} => ReaderRecord(reader[r])
  /\ \A r \in Readers : reader[r].pc = "insert" => IsBlockOf(reader[r].block, CacheKey(r))

(* Wherever an iterator arrives, it keeps its fields and is not about to   *)
(* insert.                                                                 *)
LEMMA ArriveIs ==
  ASSUME NEW it, NEW block, ReaderRecord(it)
  PROVE  ReaderRecord(Arrive(it, block)) /\ Arrive(it, block).pc \in {"at", "get", "end"}
BY DEF ReaderRecord, Arrive

(* A reader moves, and none of its calls is about to insert a block. *)
LEMMA ReaderMoves ==
  ASSUME BlocksInv, NEW r \in Readers, NEW it, reader' = [reader EXCEPT ![r] = it],
         it.pc # "insert", it.pc \notin {"idle", "done"} => ReaderRecord(it),
         UNCHANGED tables, CacheInv', CachedBlocks'
  PROVE  BlocksInv'
<1>1. \A s \in Readers : reader'[s] = IF s = r THEN it ELSE reader[s]
  BY DEF BlocksInv
<1>2. reader' = [s \in Readers |-> reader'[s]]
  BY DEF BlocksInv
<1>3. \A s \in Readers : reader'[s].pc = "insert" =>
        IsBlockOf(reader[s].block, CacheKey(s)) /\ reader'[s] = reader[s]
  BY <1>1 DEF BlocksInv
<1>4. \A s \in Readers : reader'[s].pc = "insert" => IsBlockOf(reader[s].block, CacheKey(s))'
  BY <1>3 DEF IsBlockOf, CacheKey
<1>5. \A s \in Readers : reader'[s].pc \notin {"idle", "done"} => ReaderRecord(reader'[s])
  BY <1>1 DEF BlocksInv
<1> QED BY <1>2, <1>4, <1>5 DEF BlocksInv

(* The list after get() and insert() has old blocks, and the new one. *)
LEMMA ListHolds ==
  ASSUME BlocksInv, UNCHANGED tables, NEW k, NEW block, IsBlockOf(block, k),
         CacheHit(k) \/ CacheInsert(k, block)
  PROVE  CachedBlocks'
<1> DEFINE Old(e) == \E i \in 1 .. Len(list) : e = list[i]
<1>1. DOMAIN list = 1 .. Len(list) /\ Len(list) \in Nat /\ list \in Seq(ToSet(list))
  BY DEF BlocksInv, CacheInv, Lists
<1>2. \A e : Old(e) => IsBlockOf(e.block, e.key)
  BY <1>1 DEF BlocksInv, CachedBlocks
<1>3. \A i \in DOMAIN list' : Old(list'[i]) \/ list'[i] = [key |-> k, block |-> block]
  <2>1. ASSUME NEW e, Old(e) \/ e = [key |-> k, block |-> block],
               NEW p \in 1 .. Len(list), list' = ToFront(e, p)
        PROVE  \A i \in DOMAIN list' : Old(list'[i]) \/ list'[i] = [key |-> k, block |-> block]
    <3> DEFINE E == ToSet(list) \cup {e}
    <3>1. list \in Seq(E) /\ e \in E
      BY <1>1
    <3>2. list' = Moved(list, e, p)
      BY <2>1, <3>1, MovedIs DEF ToFront
    <3>3. DOMAIN list' = 1 .. Len(list) /\ \A i \in 1 .. Len(list) :
            list'[i] = e \/ (i \in 2 .. p /\ list'[i] = list[i - 1]) \/ list'[i] = list[i]
      BY <1>1, <3>2 DEF Moved
    <3>4. \A i \in 2 .. p : i - 1 \in 1 .. Len(list)
      BY <1>1
    <3> QED BY <2>1, <3>3, <3>4
  <2>2. ASSUME NEW n \in 0 .. Len(list), NEW kept, kept = [i \in 1 .. n |-> list[i]],
               NEW e, e = [key |-> k, block |-> block], list' = <<e>> \o kept
        PROVE  \A i \in DOMAIN list' : Old(list'[i]) \/ list'[i] = [key |-> k, block |-> block]
    <3> DEFINE E == ToSet(list) \cup {e}
    <3>1. e \in E /\ kept \in [1 .. n -> E] /\ n \in Nat
      BY <1>1, <2>2 DEF ToSet
    <3>2. kept \in Seq(E) /\ Len(kept) = n
      BY <3>1, FunctionIsList
    <3>3. list' = [j \in 1 .. n + 1 |-> IF j = 1 THEN e ELSE kept[j - 1]]
      BY <2>2, <3>1, <3>2, ConsIs
    <3>4. \A i \in 1 .. n + 1 : i = 1 \/ (i - 1 \in 1 .. n /\ i - 1 \in 1 .. Len(list))
      BY <1>1
    <3>5. \A i \in 1 .. n + 1 :
            list'[i] = e \/ (i - 1 \in 1 .. Len(list) /\ list'[i] = list[i - 1])
      BY <2>2, <3>3, <3>4
    <3> QED BY <2>2, <3>3, <3>5
  <2>3. CASE CacheHit(k)
    <3>1. k \in map /\ list' = ToFront(list[PlaceOf(k)], PlaceOf(k))
      BY <2>3 DEF CacheHit
    <3>2. PlaceOf(k) \in 1 .. Len(list)
      BY <3>1, PlaceOfKey DEF BlocksInv
    <3>3. Old(list[PlaceOf(k)])
      BY <3>2
    <3> HIDE DEF Old
    <3> QED BY <2>1, <3>1, <3>2, <3>3
  <2>4. CASE CacheInsert(k, block)
    <3>1. PICK e : e = [key |-> k, block |-> block]
      OBVIOUS
    <3>2. \/ UNCHANGED list
          \/ k \in map /\ list' = ToFront(e, PlaceOf(k))
          \/ capacity > 0 /\ Cardinality(map) >= capacity /\ list' = <<e>> \o Front(list)
          \/ list' = <<e>> \o list
      BY <2>4, <3>1 DEF CacheInsert
    <3>3. CASE UNCHANGED list
      BY <1>1, <3>3
    <3>4. CASE k \in map /\ list' = ToFront(e, PlaceOf(k))
      <4>1. PlaceOf(k) \in 1 .. Len(list)
        BY <3>4, PlaceOfKey DEF BlocksInv
      <4> HIDE DEF Old
      <4> QED BY <2>1, <3>1, <3>4, <4>1
    <3>5. CASE capacity > 0 /\ Cardinality(map) >= capacity /\ list' = <<e>> \o Front(list)
      <4>1. Len(list) - 1 \in 0 .. Len(list)
        <5>1. Cardinality(map) = Len(list) /\ capacity \in Nat
          BY MapSize DEF BlocksInv, CacheInv, Lists
        <5> QED BY <1>1, <3>5, <5>1
      <4>2. Front(list) = [i \in 1 .. Len(list) - 1 |-> list[i]]
        BY <1>1, <4>1, PrefixIs DEF Front
      <4> HIDE DEF Old
      <4> QED BY <2>2, <3>1, <3>5, <4>1, <4>2
    <3>6. CASE list' = <<e>> \o list
      <4>1. list = [i \in 1 .. Len(list) |-> list[i]] /\ Len(list) \in 0 .. Len(list)
        BY <1>1
      <4> HIDE DEF Old
      <4> QED BY <2>2, <3>1, <3>6, <4>1
    <3> QED BY <3>2, <3>3, <3>4, <3>5, <3>6
  <2> QED BY <2>3, <2>4
<1>4. \A i \in DOMAIN list' : IsBlockOf(list'[i].block, list'[i].key)
  BY <1>2, <1>3
<1> QED BY <1>4 DEF CachedBlocks, IsBlockOf

(* Every step of the readers keeps the blocks where they belong. *)
LEMMA BlocksStep == BlocksInv /\ [Next]_readVars => BlocksInv'
<1> SUFFICES ASSUME BlocksInv, [Next]_readVars PROVE BlocksInv'
  OBVIOUS
<1>1. CacheInv'
  BY CacheStep DEF BlocksInv
<1>2. ASSUME UNCHANGED <<tables, cacheVars>> PROVE CachedBlocks'
  BY <1>2 DEF cacheVars, BlocksInv, CachedBlocks, IsBlockOf
<1>3. ASSUME NEW r \in Readers, NEW id \in DOMAIN tables, NEW target, Create(r, id, target)
      PROVE  BlocksInv'
  <2> DEFINE it == [pc |-> "get", id |-> id, target |-> target, seek |-> target,
                    blk_idx |-> IF target = <<>> THEN 0 ELSE FindBlockIdx(tables[id], target),
                    block |-> NoBlock, idx |-> 0, read |-> <<>>]
  <2>1. reader' = [reader EXCEPT ![r] = it] /\ UNCHANGED <<tables, cacheVars>>
    BY <1>3 DEF Create
  <2>2. it.pc = "get" /\ ReaderRecord(it)
    BY DEF ReaderRecord
  <2> HIDE DEF it
  <2> QED BY <1>1, <1>2, <2>1, <2>2, ReaderMoves
<1>4. ASSUME NEW r \in Readers, GetHit(r) PROVE BlocksInv'
  <2>1. /\ reader[r].pc = "get" /\ CacheHit(CacheKey(r)) /\ UNCHANGED tables
        /\ reader' = [reader EXCEPT ![r] = Arrive(reader[r], list[PlaceOf(CacheKey(r))].block)]
    BY <1>4 DEF GetHit, BlocksInv
  <2>2. ReaderRecord(reader[r])
    BY <2>1 DEF BlocksInv
  <2>3. CachedBlocks'
    <3>1. PICK block : IsBlockOf(block, CacheKey(r))
      BY DEF IsBlockOf
    <3> QED BY <2>1, <3>1, ListHolds
  <2> QED BY <1>1, <2>1, <2>2, <2>3, ArriveIs, ReaderMoves
<1>5. ASSUME NEW r \in Readers, GetMiss(r) PROVE BlocksInv'
  <2>1. PICK it : it = [reader[r] EXCEPT !.pc = "load"]
    OBVIOUS
  <2>2. /\ reader[r].pc = "get" /\ UNCHANGED <<tables, cacheVars>>
        /\ reader' = [reader EXCEPT ![r] = it]
    BY <1>5, <2>1 DEF GetMiss, CacheMiss, BlocksInv
  <2>3. ReaderRecord(reader[r])
    BY <2>2 DEF BlocksInv
  <2>4. ReaderRecord(it) /\ it.pc = "load"
    BY <2>1, <2>3 DEF ReaderRecord
  <2> QED BY <1>1, <1>2, <2>2, <2>4, ReaderMoves
<1>6. ASSUME NEW r \in Readers, Load(r) PROVE BlocksInv'
  <2>1. PICK block : block = ReadBlock(tables[reader[r].id], reader[r].blk_idx)
    OBVIOUS
  <2>2. PICK it : it = [reader[r] EXCEPT !.pc = "insert", !.block = block]
    OBVIOUS
  <2>3. /\ reader[r].pc = "load" /\ UNCHANGED <<tables, cacheVars>>
        /\ reader' = [reader EXCEPT ![r] = it]
    BY <1>6, <2>1, <2>2 DEF Load, BlocksInv
  <2>4. ReaderRecord(reader[r])
    BY <2>3 DEF BlocksInv
  <2>5. /\ ReaderRecord(it) /\ it.pc = "insert" /\ it.block = block
        /\ it.id = reader[r].id /\ it.blk_idx = reader[r].blk_idx
    BY <2>2, <2>4 DEF ReaderRecord
  <2>6. \A s \in Readers : reader'[s] = IF s = r THEN it ELSE reader[s]
    BY <2>3 DEF BlocksInv
  <2>7. reader' = [s \in Readers |-> reader'[s]]
    BY <2>3 DEF BlocksInv
  <2>8. \A s \in Readers : reader'[s].pc \notin {"idle", "done"} => ReaderRecord(reader'[s])
    BY <2>5, <2>6 DEF BlocksInv
  <2>9. \A s \in Readers : reader'[s].pc = "insert" => IsBlockOf(reader[s].block, CacheKey(s))'
    BY <2>1, <2>3, <2>5, <2>6 DEF IsBlockOf, CacheKey, BlocksInv
  <2> QED BY <1>1, <1>2, <2>3, <2>7, <2>8, <2>9 DEF BlocksInv
<1>7. ASSUME NEW r \in Readers, Insert(r) PROVE BlocksInv'
  <2>1. /\ reader[r].pc = "insert" /\ CacheInsert(CacheKey(r), reader[r].block) /\ UNCHANGED tables
        /\ reader' = [reader EXCEPT ![r] = Arrive(reader[r], reader[r].block)]
    BY <1>7 DEF Insert, BlocksInv
  <2>2. ReaderRecord(reader[r]) /\ IsBlockOf(reader[r].block, CacheKey(r))
    BY <2>1 DEF BlocksInv
  <2>3. CachedBlocks'
    BY <2>1, <2>2, ListHolds
  <2> QED BY <1>1, <2>1, <2>2, <2>3, ArriveIs, ReaderMoves
<1>8. ASSUME NEW r \in Readers, ReadNext(r) PROVE BlocksInv'
  <2>1. ReaderRecord(reader[r]) /\ reader[r].pc = "at"
    BY <1>8 DEF ReadNext, BlocksInv
  <2> DEFINE at   == reader[r]
             seen == [at EXCEPT !.read = Append(@, [key |-> KeyAt(at.block, at.idx),
                                                    value |-> ValueAt(at.block, at.idx)])]
             it   == IF InBlock(at.block, at.idx + 1) THEN [seen EXCEPT !.idx = @ + 1]
                     ELSE IF at.blk_idx + 1 < NumBlocks(tables[at.id])
                       THEN [seen EXCEPT !.pc = "get", !.seek = <<>>, !.blk_idx = @ + 1]
                     ELSE [seen EXCEPT !.pc = "end", !.blk_idx = @ + 1]
  <2>2. reader' = [reader EXCEPT ![r] = it] /\ UNCHANGED <<tables, cacheVars>>
    BY <1>8 DEF ReadNext
  <2>3. ReaderRecord(seen) /\ seen.pc = "at"
    <3>1. PICK read : seen = [at EXCEPT !.read = read]
      OBVIOUS
    <3> HIDE DEF seen, at
    <3>2. ReaderRecord(at) /\ at.pc = "at"
      BY <2>1 DEF at
    <3> QED BY <3>1, <3>2 DEF ReaderRecord
  <2> HIDE DEF seen
  <2>4. ReaderRecord(it) /\ it.pc \in {"at", "get", "end"}
    BY <2>3 DEF ReaderRecord
  <2> HIDE DEF it
  <2> QED BY <1>1, <1>2, <2>2, <2>4, ReaderMoves
<1>9. ASSUME NEW r \in Readers, Done(r) PROVE BlocksInv'
  <2>1. PICK it : it = [pc |-> "done"]
    OBVIOUS
  <2>2. reader' = [reader EXCEPT ![r] = it] /\ it.pc = "done" /\ UNCHANGED <<tables, cacheVars>>
    BY <1>9, <2>1 DEF Done
  <2> QED BY <1>1, <1>2, <2>2, ReaderMoves
<1>10. ASSUME UNCHANGED readVars PROVE BlocksInv'
  BY <1>1, <1>2, <1>10 DEF readVars, BlocksInv, IsBlockOf, CacheKey
<1> QED BY <1>3, <1>4, <1>5, <1>6, <1>7, <1>8, <1>9, <1>10 DEF Next

(* The blocks are where they belong at first: there are none. *)
LEMMA BlocksStart == Init => BlocksInv
<1> SUFFICES ASSUME Init PROVE BlocksInv
  OBVIOUS
<1>1. capacity \in Nat /\ list = <<>> /\ map = {} /\ recency = <<>>
  BY DEF Init, CacheInit
<1>2. CacheInv
  BY CacheStart
<1>3. CachedBlocks
  BY <1>1 DEF CachedBlocks
<1>4. /\ reader = [r \in Readers |-> reader[r]]
      /\ \A r \in Readers : reader[r].pc \in {"idle", "done"}
  BY DEF Init, Idle
<1> QED BY <1>2, <1>3, <1>4 DEF BlocksInv

(* A block in the cache is the one its table has under that number, and so *)
(* get() hands out no other, however late a reader inserts what it read.   *)
THEOREM CachedBlocksCorrect == Spec => []CachedBlocks
<1>1. BlocksInv => CachedBlocks
  BY DEF BlocksInv
<1> QED BY <1>1, BlocksStart, BlocksStep, PTL DEF Spec

-----------------------------------------------------------------------------
(* The order of keys *)

(* Every non-empty set of numbers has a least one. *)
LEMMA LeastOf ==
  ASSUME NEW S \in SUBSET Nat, S # {}
  PROVE  \E i \in S : \A j \in S : i <= j
<1> DEFINE R == OpToRel(<, Nat)
<1>1. IsWellFoundedOn(R, Nat)
  BY NatLessThanWellFounded
<1>2. PICK i \in S : \A j \in S : ~(<<j, i>> \in R)
  <2> HIDE DEF R
  <2> QED BY <1>1, WFMin
<1>3. ASSUME NEW j \in S PROVE i <= j
  <2>1. i \in Nat /\ j \in Nat
    OBVIOUS
  <2>2. ~(<<j, i>> \in R)
    BY <1>2
  <2>3. <<j, i>> \in Nat \X Nat
    BY <2>1
  <2>4. ~(j < i)
    BY <2>2, <2>3 DEF OpToRel
  <2> QED BY <2>1, <2>4
<1> QED BY <1>3

(* The keys agree before place i, where a ends or has the lesser byte. *)
Differs(a, b, i) ==
  /\ i \in 1 .. Len(b) /\ i <= Len(a) + 1
  /\ \A j \in 1 .. i - 1 : a[j] = b[j]
  /\ i <= Len(a) => a[i] < b[i]

(* The order is decided at one place. *)
LEMMA KeyLessIs ==
  ASSUME NEW a \in Seq(Nat), NEW b \in Seq(Nat)
  PROVE  KeyLess(a, b) <=> \E i \in Nat : Differs(a, b, i)
<1>1. Len(a) \in Nat /\ Len(b) \in Nat /\ DOMAIN a = 1 .. Len(a) /\ DOMAIN b = 1 .. Len(b)
  OBVIOUS
<1>2. ASSUME IsStrictPrefix(a, b) PROVE \E i \in Nat : Differs(a, b, i)
  <2>1. Len(a) <= Len(b) /\ SubSeq(a, 1, Len(a)) = SubSeq(b, 1, Len(a)) /\ a # b
    BY <1>2 DEF IsStrictPrefix, IsPrefix
  <2>2. \A j \in 1 .. Len(a) : a[j] = b[j]
    <3>1. \A j \in 1 .. Len(a) : SubSeq(a, 1, Len(a))[j] = a[j] /\ SubSeq(b, 1, Len(a))[j] = b[j]
      BY <1>1, <2>1
    <3> QED BY <2>1, <3>1
  <2>3. Len(a) # Len(b)
    <3> SUFFICES ASSUME Len(a) = Len(b) PROVE a = b
      BY <2>1
    <3> QED BY <2>2, <1>1
  <2>4. Differs(a, b, Len(a) + 1)
    <3>1. Len(a) \in Nat /\ Len(b) \in Nat /\ Len(a) <= Len(b) /\ Len(a) # Len(b)
      BY <1>1, <2>1, <2>3
    <3>2. /\ Len(a) + 1 \in 1 .. Len(b) /\ Len(a) + 1 <= Len(a) + 1
          /\ ~(Len(a) + 1 <= Len(a)) /\ (Len(a) + 1) - 1 = Len(a)
      BY ONLY <3>1
    <3> QED BY ONLY <2>2, <3>2 DEF Differs
  <2> QED BY <1>1, <2>4
<1>3. ASSUME NEW i \in DOMAIN a \cap DOMAIN b, a[i] < b[i], \A j \in 1 .. i - 1 : a[j] = b[j]
      PROVE  \E n \in Nat : Differs(a, b, n)
  <2>1. Differs(a, b, i) /\ i \in Nat
    BY <1>1, <1>3 DEF Differs
  <2> QED BY <2>1
<1>4. ASSUME NEW i \in Nat, Differs(a, b, i) PROVE KeyLess(a, b)
  <2>1. CASE i <= Len(a)
    BY <1>1, <1>4, <2>1 DEF Differs, KeyLess
  <2>2. CASE i = Len(a) + 1
    <3>1. Len(a) < Len(b) /\ \A j \in 1 .. Len(a) : a[j] = b[j]
      BY <1>1, <1>4, <2>2 DEF Differs
    <3>2. SubSeq(a, 1, Len(a)) = SubSeq(b, 1, Len(a))
      <4>1. SubSeq(a, 1, Len(a)) = [j \in 1 .. Len(a) |-> a[j]]
        BY <1>1, PrefixIs
      <4>2. SubSeq(b, 1, Len(a)) = [j \in 1 .. Len(a) |-> b[j]]
        BY <1>1, <3>1, PrefixIs
      <4> QED BY <3>1, <4>1, <4>2
    <3> QED BY <1>1, <3>1, <3>2 DEF KeyLess, IsStrictPrefix, IsPrefix
  <2> QED BY <1>1, <1>4, <2>1, <2>2 DEF Differs
<1> QED BY <1>2, <1>3, <1>4 DEF KeyLess

(* No two keys are each before the other. *)
LEMMA KeyAsymmetric ==
  ASSUME NEW a \in Seq(Nat), NEW b \in Seq(Nat), KeyLess(a, b)
  PROVE  ~KeyLess(b, a)
<1> SUFFICES ASSUME NEW i \in Nat, NEW j \in Nat, Differs(a, b, i), Differs(b, a, j)
             PROVE  FALSE
  BY KeyLessIs
<1>1. /\ Len(a) \in Nat /\ Len(b) \in Nat /\ i \in 1 .. Len(b) /\ j \in 1 .. Len(a)
      /\ \A n \in 1 .. Len(a) : a[n] \in Nat
      /\ \A n \in 1 .. Len(b) : b[n] \in Nat
  <2>1. i \in 1 .. Len(b) /\ j \in 1 .. Len(a)
    BY DEF Differs
  <2> QED BY <2>1
<1>2. CASE i < j
  <2>1. i \in 1 .. j - 1 /\ i <= Len(a) /\ i \in 1 .. Len(a)
    BY <1>1, <1>2
  <2>2. b[i] = a[i] /\ a[i] < b[i]
    BY <2>1 DEF Differs
  <2> QED BY <1>1, <2>1, <2>2
<1>3. CASE j < i
  <2>1. j \in 1 .. i - 1 /\ j <= Len(b) /\ j \in 1 .. Len(b)
    BY <1>1, <1>3
  <2>2. a[j] = b[j] /\ b[j] < a[j]
    BY <2>1 DEF Differs
  <2> QED BY <1>1, <2>1, <2>2
<1>4. CASE i = j
  <2>1. i \in 1 .. Len(a) /\ i <= Len(a) /\ i <= Len(b)
    BY <1>1, <1>4
  <2>2. a[i] < b[i] /\ b[i] < a[i]
    BY <1>4, <2>1 DEF Differs
  <2> QED BY <1>1, <2>1, <2>2
<1> QED BY <1>2, <1>3, <1>4

(* The order is transitive. *)
LEMMA KeyTransitive ==
  ASSUME NEW a \in Seq(Nat), NEW b \in Seq(Nat), NEW c \in Seq(Nat),
         KeyLess(a, b), KeyLess(b, c)
  PROVE  KeyLess(a, c)
<1> SUFFICES ASSUME NEW i \in Nat, NEW j \in Nat, Differs(a, b, i), Differs(b, c, j)
             PROVE  \E n \in Nat : Differs(a, c, n)
  BY KeyLessIs
<1>1. /\ Len(a) \in Nat /\ Len(b) \in Nat /\ Len(c) \in Nat
      /\ i \in 1 .. Len(b) /\ i <= Len(a) + 1 /\ j \in 1 .. Len(c) /\ j <= Len(b) + 1
      /\ \A n \in 1 .. Len(a) : a[n] \in Nat
      /\ \A n \in 1 .. Len(b) : b[n] \in Nat
      /\ \A n \in 1 .. Len(c) : c[n] \in Nat
  <2>1. i \in 1 .. Len(b) /\ i <= Len(a) + 1 /\ j \in 1 .. Len(c) /\ j <= Len(b) + 1
    BY DEF Differs
  <2>2. ASSUME NEW k \in Seq(Nat) PROVE Len(k) \in Nat /\ \A n \in 1 .. Len(k) : k[n] \in Nat
    OBVIOUS
  <2> QED BY <2>1, <2>2
<1>2. /\ \A n \in 1 .. i - 1 : a[n] = b[n]
      /\ \A n \in 1 .. j - 1 : b[n] = c[n]
      /\ i <= Len(a) => a[i] < b[i]
      /\ j <= Len(b) => b[j] < c[j]
  BY DEF Differs
<1>3. CASE i < j
  <2>1. i \in 1 .. j - 1 /\ i \in 1 .. Len(c) /\ \A n \in 1 .. i - 1 : n \in 1 .. j - 1
    BY <1>1, <1>3
  <2>2. b[i] = c[i] /\ \A n \in 1 .. i - 1 : a[n] = c[n]
    BY <1>2, <2>1
  <2>3. Differs(a, c, i)
    BY <1>1, <1>2, <2>1, <2>2 DEF Differs
  <2> QED BY <2>3
<1>4. CASE j < i
  <2>1. /\ j \in 1 .. i - 1 /\ j \in 1 .. Len(a) /\ j \in 1 .. Len(b) /\ j <= Len(b)
        /\ \A n \in 1 .. j - 1 : n \in 1 .. i - 1
    <3>1. /\ i \in Nat /\ j \in Nat /\ i >= 1 /\ j >= 1 /\ i <= Len(b) /\ i <= Len(a) + 1
          /\ Len(a) \in Nat /\ Len(b) \in Nat
      BY <1>1
    <3> QED BY ONLY <1>4, <3>1
  <2>2. a[j] = b[j] /\ b[j] < c[j] /\ \A n \in 1 .. j - 1 : a[n] = c[n]
    BY <1>2, <2>1
  <2>3. j <= Len(a) => a[j] < c[j]
    BY <2>2
  <2>4. Differs(a, c, j)
    <3>1. j \in 1 .. Len(c) /\ j <= Len(a) + 1
      BY ONLY <1>1, <2>1
    <3> QED BY ONLY <2>2, <2>3, <3>1 DEF Differs
  <2> QED BY <2>4
<1>5. CASE i = j
  <2>1. j <= Len(b) /\ j \in 1 .. Len(b)
    BY <1>1, <1>5
  <2>2. b[i] < c[i] /\ \A n \in 1 .. i - 1 : a[n] = c[n]
    BY <1>2, <1>5, <2>1
  <2>3. i <= Len(a) => a[i] < c[i]
    <3> SUFFICES ASSUME i <= Len(a) PROVE a[i] < c[i]
      OBVIOUS
    <3>1. i \in 1 .. Len(a) /\ i \in 1 .. Len(c) /\ i \in 1 .. Len(b)
      BY <1>1, <1>5
    <3>2. a[i] \in Nat /\ b[i] \in Nat /\ c[i] \in Nat /\ a[i] < b[i]
      BY <1>1, <1>2, <3>1
    <3> QED BY ONLY <2>2, <3>2
  <2> QED BY <1>1, <1>5, <2>2, <2>3 DEF Differs
<1> QED BY <1>3, <1>4, <1>5

(* Two keys with neither before the other are the same. *)
LEMMA KeyTotal ==
  ASSUME NEW a \in Seq(Nat), NEW b \in Seq(Nat), ~KeyLess(a, b), ~KeyLess(b, a)
  PROVE  a = b
<1> DEFINE S == {i \in Nat \ {0} : i > Len(a) \/ i > Len(b) \/ a[i] # b[i]}
<1>1. Len(a) \in Nat /\ Len(b) \in Nat
      /\ (\A n \in 1 .. Len(a) : a[n] \in Nat) /\ (\A n \in 1 .. Len(b) : b[n] \in Nat)
  OBVIOUS
<1>2. PICK i \in S : \A j \in S : i <= j
  <2>1. S \in SUBSET Nat /\ Len(a) + 1 \in S
    BY <1>1
  <2> HIDE DEF S
  <2> QED BY <2>1, LeastOf
<1>3. \A j \in 1 .. i - 1 : j <= Len(a) /\ j <= Len(b) /\ a[j] = b[j]
  <2> SUFFICES ASSUME NEW j \in 1 .. i - 1 PROVE j \notin S
    BY <1>1
  <2>1. j \in Nat /\ i \in Nat /\ ~(i <= j)
    OBVIOUS
  <2> HIDE DEF S
  <2> QED BY <1>2, <2>1
<1>4. i \in Nat \ {0} /\ i <= Len(a) + 1 /\ i <= Len(b) + 1
  <2>1. i \in Nat \ {0}
    OBVIOUS
  <2>2. CASE i = 1
    BY <1>1, <2>2
  <2>3. CASE i # 1
    <3>1. i - 1 \in 1 .. i - 1
      BY <2>1, <2>3
    <3> QED BY <1>1, <1>3, <2>1, <3>1
  <2> QED BY <2>1, <2>2, <2>3
<1>5. ~Differs(a, b, i) /\ ~Differs(b, a, i)
  BY <1>4, KeyLessIs
<1>6. ASSUME i <= Len(a), i <= Len(b) PROVE FALSE
  <2>1. a[i] # b[i] /\ a[i] \in Nat /\ b[i] \in Nat /\ i \in 1 .. Len(a) /\ i \in 1 .. Len(b)
    BY <1>1, <1>4, <1>6
  <2>2. a[i] < b[i] \/ b[i] < a[i]
    BY <2>1
  <2> HIDE DEF S
  <2> QED BY <1>1, <1>3, <1>4, <1>5, <2>1, <2>2 DEF Differs
<1>7. Len(a) = Len(b)
  <2> HIDE DEF S
  <2>1. CASE Len(a) < Len(b)
    <3>1. i = Len(a) + 1 /\ i \in 1 .. Len(b)
      BY <1>1, <1>4, <1>6, <2>1
    <3> QED BY <1>1, <1>3, <1>4, <1>5, <3>1 DEF Differs
  <2>2. CASE Len(b) < Len(a)
    <3>1. i = Len(b) + 1 /\ i \in 1 .. Len(a)
      BY <1>1, <1>4, <1>6, <2>2
    <3> QED BY <1>1, <1>3, <1>4, <1>5, <3>1 DEF Differs
  <2> QED BY <1>1, <2>1, <2>2
<1>8. i = Len(a) + 1
  BY <1>1, <1>4, <1>6, <1>7
<1> HIDE DEF S
<1>9. \A j \in 1 .. Len(a) : a[j] = b[j]
  BY <1>1, <1>3, <1>8
<1> QED BY <1>7, <1>9

-----------------------------------------------------------------------------
(* Blocks *)

(* A field holds a number below its limit. *)
LEMMA FieldHolds ==
  ASSUME NEW m \in Nat \ {0}, NEW n \in Nat, n < m
  PROVE  n % m = n
OBVIOUS

(* What compute_overlap counts is shared. *)
LEMMA OverlapIs ==
  ASSUME NEW a \in Seq(Nat), NEW b \in Seq(Nat)
  PROVE  /\ Overlap(a, b) \in Nat /\ Overlap(a, b) <= Len(a) /\ Overlap(a, b) <= Len(b)
         /\ \A j \in 1 .. Overlap(a, b) : a[j] = b[j]
<1> DEFINE S == CommonPrefixes({a, b})
           D == {n \in Nat : \E p \in S : Len(p) + n = Len(a)}
<1>1. ASSUME NEW p \in S
      PROVE  p \in Seq(Nat) /\ Len(p) \in Nat /\ IsPrefix(p, a) /\ IsPrefix(p, b)
  <2>1. p \in UNION {Prefixes(s) : s \in {a, b}} /\ IsPrefix(p, a) /\ IsPrefix(p, b)
    BY DEF CommonPrefixes
  <2>2. PICK s \in {a, b} : p \in Prefixes(s)
    BY <2>1
  <2>3. PICK l \in 0 .. Len(s) : p = SubSeq(s, 1, l)
    BY <2>2 DEF Prefixes
  <2>4. s \in Seq(Nat)
    OBVIOUS
  <2>5. p \in Seq(Nat) /\ Len(p) \in Nat
    BY ONLY <2>3, <2>4
  <2> QED BY <2>1, <2>5
<1>2. <<>> \in S
  <2>1. SubSeq(a, 1, 0) = <<>> /\ SubSeq(b, 1, 0) = <<>> /\ 0 \in 0 .. Len(a)
    OBVIOUS
  <2>2. <<>> \in Prefixes(a)
    BY <2>1 DEF Prefixes
  <2>3. Len(<<>>) = 0 /\ SubSeq(<<>>, 1, 0) = <<>> /\ 0 <= Len(a) /\ 0 <= Len(b)
    OBVIOUS
  <2>4. IsPrefix(<<>>, a) /\ IsPrefix(<<>>, b)
    BY <2>1, <2>3 DEF IsPrefix
  <2> QED BY <2>2, <2>4 DEF CommonPrefixes
<1> HIDE DEF S
<1>3. PICK n \in D : \A o \in D : n <= o
  <2>1. Len(a) \in D
    BY <1>2
  <2>2. D \in SUBSET Nat
    OBVIOUS
  <2> HIDE DEF D
  <2> QED BY <2>1, <2>2, LeastOf
<1>4. PICK p \in S : Len(p) + n = Len(a)
  OBVIOUS
<1>5. \A q \in S : Len(q) <= Len(p)
  <2> SUFFICES ASSUME NEW q \in S PROVE Len(q) <= Len(p)
    OBVIOUS
  <2>1. Len(q) \in Nat /\ Len(p) \in Nat /\ Len(a) \in Nat /\ Len(q) <= Len(a)
    BY <1>1 DEF IsPrefix
  <2>2. Len(a) - Len(q) \in D
    BY <2>1
  <2>3. n <= Len(a) - Len(q) /\ n \in Nat
    BY <1>3, <2>2
  <2> QED BY ONLY <1>4, <2>1, <2>3
<1>6. PICK q \in S : q = LongestCommonPrefix({a, b})
  BY <1>5 DEF LongestCommonPrefix, S
<1>7. /\ q \in Seq(Nat) /\ Len(q) \in Nat /\ Len(q) <= Len(a) /\ Len(q) <= Len(b)
      /\ SubSeq(q, 1, Len(q)) = SubSeq(a, 1, Len(q))
      /\ SubSeq(q, 1, Len(q)) = SubSeq(b, 1, Len(q))
  BY <1>1 DEF IsPrefix
<1>8. \A j \in 1 .. Len(q) : a[j] = b[j]
  <2>1. /\ SubSeq(a, 1, Len(q)) = [j \in 1 .. Len(q) |-> a[j]]
        /\ SubSeq(b, 1, Len(q)) = [j \in 1 .. Len(q) |-> b[j]]
    BY <1>7, PrefixIs
  <2> QED BY <1>7, <2>1
<1> QED BY <1>6, <1>7, <1>8 DEF Overlap

(* What a table is built from. *)
Added == [key : KeySet, value : 0 .. FieldLimit - 1]

(* An entry of a block, as its bytes say it. *)
Coded == [at : Nat, size : Nat \ {0}, overlap : Nat, rest : Seq(Nat), value : Nat]

(* The entry d of a block stands for e, given the block's first key. *)
StandsFor(d, first, e) ==
  /\ d.overlap <= Len(first) /\ d.overlap <= Len(e.key)
  /\ \A j \in 1 .. d.overlap : first[j] = e.key[j]
  /\ d.rest = SubSeq(e.key, d.overlap + 1, Len(e.key)) /\ d.value = e.value

(* The block holds the entries of es after the first lo, up to number hi.  *)
(* No field of 16 bits has overflown.                                      *)
Holds(b, es, lo, hi) ==
  /\ b.data \in Seq(Coded) /\ Len(b.data) = hi - lo
  /\ b.offsets \in Seq(Nat) /\ Len(b.offsets) = hi - lo /\ hi - lo < FieldLimit
  /\ hi = lo => b = NewBlock
  /\ hi # lo => b.first_key = es[lo + 1].key /\ b.data[1].overlap = 0
  /\ \A j \in 1 .. hi - lo : /\ StandsFor(b.data[j], es[lo + 1].key, es[lo + j])
                             /\ b.offsets[j] = b.data[j].at
  /\ \A i, j \in 1 .. hi - lo : i < j => b.data[i].at + b.data[i].size <= b.data[j].at

(* The keys fit their fields. *)
LEMMA KeysFit ==
  ASSUME NEW k \in KeySet
  PROVE  k \in Seq(Nat) /\ Len(k) \in Nat /\ Len(k) # 0 /\ Len(k) < FieldLimit /\ FieldLimit \in Nat \ {0}
<1>1. k \in Seq(Nat) /\ k # <<>> /\ Len(k) < FieldLimit
  BY ReadersAssumption
<1>2. FieldLimit \in Nat \ {0}
  BY BlockAssumption
<1> QED BY <1>1, <1>2

(* The data of a block ends after all of its entries. *)
LEMMA DataEnds ==
  ASSUME NEW b, NEW es, NEW lo \in Nat, NEW hi \in Nat, lo <= hi, Holds(b, es, lo, hi)
  PROVE  /\ DataSize(b) \in Nat /\ (hi = lo => DataSize(b) = 0)
         /\ \A j \in 1 .. hi - lo : b.data[j].at + b.data[j].size <= DataSize(b)
<1> DEFINE m == hi - lo
<1>1. m \in Nat /\ b.data \in Seq(Coded) /\ Len(b.data) = m /\ (hi = lo <=> m = 0)
  BY DEF Holds
<1>2. \A i, j \in 1 .. m : i < j => b.data[i].at + b.data[i].size <= b.data[j].at
  BY DEF Holds
<1> HIDE DEF m
<1>3. \A j \in 1 .. m : b.data[j] \in Coded
  BY <1>1
<1>4. \A j \in 1 .. m : b.data[j].at \in Nat /\ b.data[j].size \in Nat
  BY <1>3 DEF Coded
<1>5. CASE m = 0
  BY <1>1, <1>5 DEF DataSize, m
<1>6. CASE m # 0
  <2>1. DataSize(b) = b.data[m].at + b.data[m].size /\ m \in 1 .. m
    BY <1>1, <1>6 DEF DataSize, Last
  <2>2. ASSUME NEW j \in 1 .. m PROVE b.data[j].at + b.data[j].size <= DataSize(b)
    <3>1. CASE j = m
      BY <1>4, <2>1, <3>1
    <3>2. CASE j < m
      <4>1. b.data[j].at + b.data[j].size <= b.data[m].at
        BY <1>2, <2>1, <3>2
      <4>2. b.data[j].at \in Nat /\ b.data[j].size \in Nat /\ b.data[m].at \in Nat
            /\ b.data[m].size \in Nat
        BY <1>4, <2>1
      <4> QED BY ONLY <2>1, <4>1, <4>2
    <3> QED BY <1>1, <3>1, <3>2
  <2>3. DataSize(b) \in Nat
    <3>1. b.data[m].at \in Nat /\ b.data[m].size \in Nat
      BY <1>4, <2>1
    <3> QED BY ONLY <2>1, <3>1
  <2>4. hi # lo
    BY ONLY <1>1, <1>6
  <2> QED BY <2>2, <2>3, <2>4 DEF m
<1> QED BY <1>5, <1>6

(* An entry that is taken keeps the block sound. *)
LEMMA BlockAddHolds ==
  ASSUME NEW es \in Seq(Added), NEW lo \in Nat, NEW hi \in Nat, lo <= hi, hi < Len(es),
         NEW b, Holds(b, es, lo, hi), Fits(b, es[hi + 1].key, es[hi + 1].value)
  PROVE  Holds(BlockAdd(b, es[hi + 1].key, es[hi + 1].value), es, lo, hi + 1)
<1> DEFINE m == hi - lo
           key == es[hi + 1].key
           value == es[hi + 1].value
           shared == Overlap(b.first_key, key)
           D == DataSize(b)
           new == [at |-> D, size |-> 6 + Len(key) - shared + value, overlap |-> shared % FieldLimit,
                   rest |-> SubSeq(key, shared + 1, Len(key)), value |-> value % FieldLimit]
           data == Append(b.data, new)
           offsets == Append(b.offsets, D % FieldLimit)
           r == BlockAdd(b, key, value)
<1>1. /\ r.data = data /\ r.offsets = offsets
      /\ r.first_key = IF b.first_key = <<>> THEN key ELSE b.first_key
  BY DEF BlockAdd
<1>2. key \in KeySet /\ value \in 0 .. FieldLimit - 1
  <2>1. hi + 1 \in 1 .. Len(es)
    OBVIOUS
  <2>2. es[hi + 1] \in Added
    BY <2>1
  <2> QED BY <2>2 DEF Added
<1>3. /\ key \in Seq(Nat) /\ Len(key) \in Nat /\ Len(key) # 0 /\ Len(key) < FieldLimit
      /\ FieldLimit \in Nat \ {0} /\ value \in Nat /\ value < FieldLimit
      /\ BlockSize \in Nat /\ BlockSize <= FieldLimit
  BY <1>2, KeysFit, BlockAssumption
<1>4. /\ m \in Nat /\ m < FieldLimit
      /\ b.data \in Seq(Coded) /\ Len(b.data) = m /\ b.offsets \in Seq(Nat) /\ Len(b.offsets) = m
      /\ hi = lo + m /\ (hi = lo <=> m = 0) /\ hi + 1 - lo = m + 1
      /\ lo + (m + 1) = hi + 1 /\ lo + 1 \in Nat
  BY DEF Holds
<1>5. /\ m = 0 => b = NewBlock /\ lo + 1 = hi + 1
      /\ m # 0 => b.first_key = es[lo + 1].key /\ b.data[1].overlap = 0
      /\ \A j \in 1 .. m : StandsFor(b.data[j], es[lo + 1].key, es[lo + j])
                           /\ b.offsets[j] = b.data[j].at
      /\ \A i, j \in 1 .. m : i < j => b.data[i].at + b.data[i].size <= b.data[j].at
  BY <1>4 DEF Holds
<1>6. /\ D \in Nat /\ (m = 0 => D = 0)
      /\ \A j \in 1 .. m : b.data[j].at + b.data[j].size <= D
  BY <1>4, DataEnds
<1>7. b.first_key \in Seq(Nat) /\ (m = 0 => b.first_key = <<>>) /\ (m # 0 => b.first_key # <<>>)
  <2>1. CASE m = 0
    <3>1. b = NewBlock
      BY <1>5, <2>1
    <3>2. b.first_key = <<>>
      BY <3>1 DEF NewBlock
    <3> HIDE DEF m
    <3> QED BY <2>1, <3>2
  <2>2. CASE m # 0
    <3>1. lo + 1 \in 1 .. Len(es)
      BY <1>4, <2>2
    <3>2. es[lo + 1] \in Added
      BY <3>1
    <3>3. es[lo + 1].key \in KeySet
      BY <3>2 DEF Added
    <3>4. es[lo + 1].key \in Seq(Nat) /\ Len(es[lo + 1].key) # 0
      BY <3>3, KeysFit
    <3> HIDE DEF m
    <3> QED BY <1>5, <2>2, <3>4
  <2> QED BY <2>1, <2>2
<1>8. /\ shared \in Nat /\ shared <= Len(b.first_key) /\ shared <= Len(key)
      /\ \A j \in 1 .. shared : b.first_key[j] = key[j]
  BY <1>3, <1>7, OverlapIs
<1>9. m = 0 => shared = 0
  <2>1. m = 0 => Len(b.first_key) = 0
    BY <1>7
  <2> HIDE DEF m, shared
  <2> QED BY <1>8, <2>1
<1>10. m # 0 => D < FieldLimit /\ m + 1 < FieldLimit
  <2> SUFFICES ASSUME m # 0 PROVE D < FieldLimit /\ m + 1 < FieldLimit
    OBVIOUS
  <2>1. b.offsets # <<>>
    BY <1>4
  <2>2. 2 + 2 * m + D + Len(key) + value + 6 <= BlockSize
    BY <1>4, <2>1 DEF Fits
  <2> HIDE DEF m, D, key, value
  <2> QED BY ONLY <1>3, <1>4, <1>6, <2>2
<1>11. D < FieldLimit /\ m + 1 < FieldLimit
  <2> HIDE DEF m, D, key
  <2> QED BY <1>3, <1>6, <1>10
<1>12. D % FieldLimit = D /\ value % FieldLimit = value /\ shared % FieldLimit = shared
  <2> HIDE DEF D, value, shared, key
  <2>1. shared < FieldLimit
    BY <1>3, <1>8
  <2> QED BY <1>3, <1>6, <1>8, <1>11, <2>1, FieldHolds
<1>13. new = [at |-> D, size |-> 6 + Len(key) - shared + value, overlap |-> shared,
              rest |-> SubSeq(key, shared + 1, Len(key)), value |-> value]
  BY <1>12
<1>14. 6 + Len(key) - shared + value \in Nat \ {0} /\ SubSeq(key, shared + 1, Len(key)) \in Seq(Nat)
  <2> HIDE DEF value, shared, key
  <2>1. 6 + Len(key) - shared + value \in Nat \ {0}
    BY ONLY <1>3, <1>8
  <2>2. SubSeq(key, shared + 1, Len(key)) \in Seq(Nat)
    BY ONLY <1>3, <1>8
  <2> QED BY <2>1, <2>2
<1> HIDE DEF m, D, key, value, shared, new
<1>15. /\ new \in Coded /\ new.at = D /\ new.overlap = shared /\ new.value = value
       /\ new.rest = SubSeq(key, shared + 1, Len(key))
  BY <1>3, <1>6, <1>8, <1>13, <1>14 DEF Coded
<1>16. /\ data \in Seq(Coded) /\ Len(data) = m + 1 /\ data[m + 1] = new
       /\ \A j \in 1 .. m : data[j] = b.data[j]
  BY <1>4, <1>15
<1>17. /\ offsets \in Seq(Nat) /\ Len(offsets) = m + 1 /\ offsets[m + 1] = D
       /\ \A j \in 1 .. m : offsets[j] = b.offsets[j]
  <2>1. offsets = Append(b.offsets, D)
    BY <1>12
  <2>2. b.offsets \in Seq(Nat) /\ Len(b.offsets) = m /\ D \in Nat
    BY <1>4, <1>6
  <2> HIDE DEF offsets
  <2> QED BY ONLY <2>1, <2>2
<1>18. r.first_key = es[lo + 1].key
  BY <1>1, <1>4, <1>5, <1>7 DEF key
<1>19. StandsFor(new, es[lo + 1].key, es[hi + 1])
  <2>1. CASE m = 0
    <3>1. es[lo + 1].key = key /\ shared = 0
      BY <1>5, <1>9, <2>1 DEF key
    <3> QED BY <1>3, <1>15, <3>1 DEF StandsFor, key, value
  <2>2. CASE m # 0
    <3>1. b.first_key = es[lo + 1].key
      BY <1>5, <2>2
    <3> QED BY <1>8, <1>15, <3>1 DEF StandsFor, key, value
  <2> QED BY <2>1, <2>2
<1> HIDE DEF data, offsets, r
<1>20. \A j \in 1 .. m + 1 : StandsFor(data[j], es[lo + 1].key, es[lo + j]) /\ offsets[j] = data[j].at
  <2> SUFFICES ASSUME NEW j \in 1 .. m + 1
               PROVE  StandsFor(data[j], es[lo + 1].key, es[lo + j]) /\ offsets[j] = data[j].at
    OBVIOUS
  <2>1. CASE j = m + 1
    <3>1. es[lo + j] = es[hi + 1]
      BY <1>4, <2>1
    <3> QED BY <1>15, <1>16, <1>17, <1>19, <2>1, <3>1
  <2>2. CASE j \in 1 .. m
    BY <1>5, <1>16, <1>17, <2>2
  <2> QED BY <1>4, <2>1, <2>2
<1>21. \A i, j \in 1 .. m + 1 : i < j => data[i].at + data[i].size <= data[j].at
  <2> SUFFICES ASSUME NEW i \in 1 .. m + 1, NEW j \in 1 .. m + 1, i < j
               PROVE  data[i].at + data[i].size <= data[j].at
    OBVIOUS
  <2>1. i \in 1 .. m
    BY <1>4
  <2>2. CASE j = m + 1
    BY <1>6, <1>15, <1>16, <2>1, <2>2
  <2>3. CASE j \in 1 .. m
    BY <1>5, <1>16, <2>1, <2>3
  <2> QED BY <1>4, <2>2, <2>3
<1>22. data[1].overlap = 0
  <2>1. CASE m = 0
    BY <1>9, <1>15, <1>16, <2>1
  <2>2. CASE m # 0
    <3>1. 1 \in 1 .. m
      BY <1>4, <2>2
    <3> QED BY <1>5, <1>16, <2>2, <3>1
  <2> QED BY <2>1, <2>2
<1>23. hi + 1 # lo
  BY <1>4
<1>24. Holds(r, es, lo, hi + 1)
  BY ONLY <1>1, <1>4, <1>11, <1>16, <1>17, <1>18, <1>20, <1>21, <1>22, <1>23 DEF Holds
<1> QED BY <1>24 DEF r, key, value

(* A key put together from what it shares and the rest. *)
LEMMA KeyJoined ==
  ASSUME NEW a \in Seq(Nat), NEW k \in Seq(Nat), NEW o \in Nat, o <= Len(a), o <= Len(k),
         \A j \in 1 .. o : a[j] = k[j]
  PROVE  SubSeq(a, 1, o) \o SubSeq(k, o + 1, Len(k)) = k
<1>1. PICK x : x = SubSeq(a, 1, o)
  OBVIOUS
<1>2. PICK y : y = SubSeq(k, o + 1, Len(k))
  OBVIOUS
<1>3. x \in Seq(Nat) /\ Len(x) = o /\ \A j \in 1 .. o : x[j] = a[j]
  BY <1>1
<1>4. y \in Seq(Nat) /\ Len(y) = Len(k) - o /\ \A j \in 1 .. Len(k) - o : y[j] = k[o + j]
  BY <1>2
<1>5. x \o y = [j \in 1 .. Len(x) + Len(y) |-> IF j <= Len(x) THEN x[j] ELSE y[j - Len(x)]]
  BY ONLY <1>3, <1>4, JoinedIs
<1>6. Len(x) + Len(y) = Len(k)
  BY <1>3, <1>4
<1>7. ASSUME NEW j \in 1 .. Len(k)
      PROVE  (IF j <= Len(x) THEN x[j] ELSE y[j - Len(x)]) = k[j]
  <2>1. CASE j <= o
    <3>1. j \in 1 .. o
      BY <2>1
    <3> QED BY <1>3, <2>1, <3>1
  <2>2. CASE ~(j <= o)
    <3>1. j - o \in 1 .. Len(k) - o /\ o + (j - o) = j
      BY <2>2
    <3> QED BY <1>3, <1>4, <2>2, <3>1
  <2> QED BY <2>1, <2>2
<1>8. k = [j \in 1 .. Len(k) |-> k[j]]
  OBVIOUS
<1> QED BY <1>1, <1>2, <1>5, <1>6, <1>7, <1>8

(* Reading the block gives the entries of es after the first lo, up to     *)
(* number hi.                                                              *)
Reads(block, es, lo, hi) ==
  /\ Len(block.offsets) = hi - lo
  /\ \A i \in 0 .. hi - lo - 1 : /\ KeyAt(block, i) = es[lo + i + 1].key
                                 /\ ValueAt(block, i) = es[lo + i + 1].value

(* What was put into a block is read from it. *)
LEMMA DecodeReads ==
  ASSUME NEW es \in Seq(Added), NEW lo \in Nat, NEW hi \in Nat, lo < hi, hi <= Len(es),
         NEW b, Holds(b, es, lo, hi)
  PROVE  Reads(Decode(Encode(b)), es, lo, hi)
<1> DEFINE m == hi - lo
           block == Decode(Encode(b))
           first == es[lo + 1].key
<1>1. /\ m \in Nat \ {0} /\ m < FieldLimit /\ FieldLimit \in Nat \ {0} /\ 1 \in 1 .. m
      /\ b.data \in Seq(Coded) /\ Len(b.data) = m /\ b.offsets \in Seq(Nat) /\ Len(b.offsets) = m
  BY BlockAssumption DEF Holds
<1>2. /\ \A j \in 1 .. m : StandsFor(b.data[j], first, es[lo + j]) /\ b.offsets[j] = b.data[j].at
      /\ \A i, j \in 1 .. m : i < j => b.data[i].at + b.data[i].size <= b.data[j].at
      /\ b.data[1].overlap = 0
  BY DEF Holds
<1>3. \A j \in 1 .. m : lo + j \in 1 .. Len(es)
  OBVIOUS
<1> HIDE DEF m
<1>4. m % FieldLimit = m
  BY <1>1, FieldHolds
<1>5. SubSeq(b.offsets, m - m + 1, m) = b.offsets
  <2>1. m - m + 1 = 1
    BY <1>1
  <2>2. SubSeq(b.offsets, 1, m) = [i \in 1 .. m |-> b.offsets[i]]
    BY <1>1, PrefixIs
  <2>3. b.offsets = [i \in 1 .. m |-> b.offsets[i]]
    BY <1>1
  <2> QED BY <2>1, <2>2, <2>3
<1>6. block.data = b.data /\ block.offsets = b.offsets
  <2>1. Encode(b) = [data |-> b.data, offsets |-> b.offsets, num |-> m]
    BY <1>1, <1>4 DEF Encode
  <2> QED BY <1>1, <1>5, <2>1 DEF Decode
<1> HIDE DEF block
<1>7. \A j \in 1 .. m : /\ b.data[j] \in Coded /\ b.data[j].at \in Nat
                        /\ b.data[j].size \in Nat \ {0} /\ b.data[j].overlap \in Nat
  <2>1. \A j \in 1 .. m : b.data[j] \in Coded
    BY <1>1
  <2> QED BY <2>1 DEF Coded
<1>8. \A j \in 1 .. m : es[lo + j].key \in Seq(Nat) /\ Len(es[lo + j].key) \in Nat
  <2> SUFFICES ASSUME NEW j \in 1 .. m PROVE es[lo + j].key \in KeySet
    BY KeysFit
  <2>1. es[lo + j] \in Added
    BY <1>3
  <2> QED BY <2>1 DEF Added
<1>9. first \in Seq(Nat) /\ Len(first) \in Nat
  BY <1>1, <1>8
<1> HIDE DEF first
<1>10. b.data[1].rest = first
  <2>1. b.data[1].rest = SubSeq(es[lo + 1].key, 0 + 1, Len(es[lo + 1].key))
    BY <1>1, <1>2 DEF StandsFor
  <2>2. b.data[1].rest = SubSeq(first, 1, Len(first))
    BY <2>1 DEF first
  <2> QED BY <1>9, <2>2
<1>11. ASSUME NEW i \in 1 .. m, NEW j \in 1 .. m, b.data[i].at = b.data[j].at PROVE i = j
  <2>1. CASE i < j
    <3>1. b.data[i].at + b.data[i].size <= b.data[j].at
      BY <1>2, <2>1
    <3>2. b.data[i].at \in Nat /\ b.data[j].at \in Nat /\ b.data[i].size \in Nat \ {0}
      BY <1>7
    <3> QED BY ONLY <1>11, <3>1, <3>2
  <2>2. CASE j < i
    <3>1. b.data[j].at + b.data[j].size <= b.data[i].at
      BY <1>2, <2>2
    <3>2. b.data[j].at \in Nat /\ b.data[i].at \in Nat /\ b.data[j].size \in Nat \ {0}
      BY <1>7
    <3> QED BY ONLY <1>11, <3>1, <3>2
  <2> QED BY <2>1, <2>2
<1>12. ASSUME NEW j \in 1 .. m PROVE EntryAt(block, b.offsets[j]) = b.data[j]
  <2> DEFINE there == {e \in ToSet(block.data) : e.at = b.offsets[j]}
  <2>1. DOMAIN b.data = 1 .. m
    BY <1>1
  <2>2. b.offsets[j] = b.data[j].at
    BY <1>2
  <2>3. there = {b.data[j]}
    BY <1>6, <1>11, <2>1, <2>2 DEF ToSet
  <2> QED BY <2>3 DEF EntryAt
<1>13. ASSUME NEW i \in 0 .. m - 1
       PROVE  KeyAt(block, i) = es[lo + i + 1].key /\ ValueAt(block, i) = es[lo + i + 1].value
  <2> DEFINE d == b.data[i + 1]
             key == es[lo + i + 1].key
  <2>1. i + 1 \in 1 .. m /\ lo + (i + 1) = lo + i + 1
    BY <1>1
  <2>2. EntryAt(block, block.offsets[i + 1]) = d
    BY <1>6, <1>12, <2>1
  <2>3. StandsFor(d, first, es[lo + i + 1]) /\ d.overlap \in Nat /\ key \in Seq(Nat)
    BY <1>2, <1>7, <1>8, <2>1
  <2>4. KeyAt(block, i) = SubSeq(first, 1, d.overlap) \o d.rest /\ ValueAt(block, i) = d.value
    BY <1>6, <1>10, <2>2 DEF KeyAt, ValueAt
  <2> HIDE DEF d
  <2>5. /\ d.overlap <= Len(first) /\ d.overlap <= Len(key) /\ d.value = es[lo + i + 1].value
        /\ \A j \in 1 .. d.overlap : first[j] = key[j]
        /\ d.rest = SubSeq(key, d.overlap + 1, Len(key))
    BY <2>3 DEF StandsFor
  <2> HIDE DEF key
  <2>6. SubSeq(first, 1, d.overlap) \o d.rest = key
    <3>1. PICK o \in Nat : o = d.overlap
      BY <2>3
    <3>2. key \in Seq(Nat)
      BY <2>3
    <3>3. SubSeq(first, 1, o) \o SubSeq(key, o + 1, Len(key)) = key
      BY ONLY <1>9, <2>5, <3>1, <3>2, KeyJoined
    <3> QED BY <2>5, <3>1, <3>3
  <2> QED BY <2>4, <2>5, <2>6 DEF key
<1> QED BY <1>1, <1>6, <1>13 DEF Reads, block, m

-----------------------------------------------------------------------------
(* The search in a block *)

Sorted(es) == \A i, j \in DOMAIN es : i < j => KeyLess(es[i].key, es[j].key)

(* The middle of a range that is not empty lies in it. *)
LEMMA MiddleIn ==
  ASSUME NEW n \in Nat, NEW low \in 0 .. n, NEW high \in 0 .. n, low < high
  PROVE  LET mid == low + (high - low) \div 2
         IN  mid \in 0 .. n - 1 /\ low <= mid /\ mid < high /\ mid + 1 \in 0 .. n /\ mid \in 0 .. n
<1>1. \A d \in Nat \ {0} : d \div 2 \in Nat /\ d \div 2 < d
  OBVIOUS
<1>2. high - low \in Nat \ {0}
  OBVIOUS
<1>3. PICK h : h = (high - low) \div 2
  OBVIOUS
<1>4. h \in Nat /\ h < high - low
  BY <1>1, <1>2, <1>3
<1> QED BY <1>3, <1>4

(* One round of the search, with f for the next. *)
SearchStep(f, block, target, low, high) ==
  LET mid == low + (high - low) \div 2
  IN  IF low >= high THEN low
      ELSE IF KeyLess(KeyAt(block, mid), target) THEN f[<<mid + 1, high>>]
      ELSE IF KeyLess(target, KeyAt(block, mid)) THEN f[<<low, mid>>]
      ELSE mid

(* The number of a place within a range. *)
Within(r, low, high) ==
  IF low >= high \/ r < low THEN low ELSE IF r > high THEN high ELSE r

(* Place r is the first of n that is not before the target. *)
FirstPlace(block, target, n, r) ==
  /\ n \in Nat /\ r \in 0 .. n
  /\ \A i \in 0 .. n - 1 :
       /\ KeyLess(KeyAt(block, i), target) <=> i < r
       /\ KeyLess(target, KeyAt(block, i)) => i >= r
       /\ ~KeyLess(KeyAt(block, i), target) /\ ~KeyLess(target, KeyAt(block, i)) => i = r

(* The next rounds find that place in every smaller range. *)
RightBelow(f, n, r, low, high) ==
  \A l, h \in 0 .. n : low <= l /\ l <= h /\ h <= high /\ h - l < high - low =>
    f[<<l, h>>] = Within(r, l, h)

(* A round keeps that place in the range. *)
LEMMA SearchRound ==
  ASSUME NEW block, NEW target, NEW n, NEW r, FirstPlace(block, target, n, r),
         NEW f, NEW low \in 0 .. n, NEW high \in 0 .. n,
         RightBelow(f, n, r, low, high)
  PROVE  SearchStep(f, block, target, low, high) = Within(r, low, high)
<1>1. n \in Nat /\ r \in 0 .. n
  BY DEF FirstPlace
<1>2. CASE low >= high
  BY <1>2 DEF SearchStep, Within
<1>3. CASE low < high
  <2>1. PICK mid : mid = low + (high - low) \div 2
    OBVIOUS
  <2> DEFINE L == KeyLess(KeyAt(block, mid), target)
             G == KeyLess(target, KeyAt(block, mid))
  <2>2. mid \in 0 .. n - 1 /\ low <= mid /\ mid < high /\ mid + 1 \in 0 .. n /\ mid \in 0 .. n
    BY <1>1, <1>3, <2>1, MiddleIn
  <2>3. (L <=> mid < r) /\ (G => mid >= r) /\ (~L /\ ~G => mid = r)
    BY <2>2 DEF FirstPlace
  <2>4. ~(low >= high)
    BY <1>1, <1>3
  <2>5. SearchStep(f, block, target, low, high) =
          IF L THEN f[<<mid + 1, high>>] ELSE IF G THEN f[<<low, mid>>] ELSE mid
    BY ONLY <2>1, <2>4 DEF SearchStep
  <2> HIDE DEF L, G
  <2>6. f[<<mid + 1, high>>] = Within(r, mid + 1, high)
    <3>1. low <= mid + 1 /\ mid + 1 <= high /\ high <= high /\ high - (mid + 1) < high - low
      BY <1>1, <2>2
    <3> QED BY <2>2, <3>1 DEF RightBelow
  <2>7. f[<<low, mid>>] = Within(r, low, mid)
    <3>1. low <= low /\ low <= mid /\ mid <= high /\ mid - low < high - low
      BY <1>1, <2>2
    <3> QED BY <2>2, <3>1 DEF RightBelow
  <2>8. CASE L
    BY <1>1, <1>3, <2>2, <2>3, <2>5, <2>6, <2>8 DEF Within
  <2>9. CASE ~L /\ G
    BY <1>1, <1>3, <2>2, <2>3, <2>5, <2>7, <2>9 DEF Within
  <2>10. CASE ~L /\ ~G
    BY <1>1, <1>3, <2>2, <2>3, <2>5, <2>10 DEF Within
  <2> QED BY <2>8, <2>9, <2>10
<1> QED BY <1>1, <1>2, <1>3

(* So the search ends there. *)
LEMMA SearchEnds ==
  ASSUME NEW block, NEW target, NEW r, FirstPlace(block, target, Len(block.offsets), r)
  PROVE  BlockSeek(block, target) = r
<1> DEFINE n == Len(block.offsets)
           W == (0 .. n) \X (0 .. n)
           Search(f) == f = [w \in W |-> SearchStep(f, block, target, w[1], w[2])]
           search == CHOOSE f : Search(f)
           g == [w \in W |-> Within(r, w[1], w[2])]
<1>1. BlockSeek(block, target) = search[<<0, n>>]
  BY DEF BlockSeek, SearchStep
<1>2. n \in Nat /\ r \in 0 .. n
  BY DEF FirstPlace
<1>3. \A l, h \in 0 .. n : <<l, h>> \in W /\ <<l, h>>[1] = l /\ <<l, h>>[2] = h
  OBVIOUS
<1>4. \A w \in W : w[1] \in 0 .. n /\ w[2] \in 0 .. n
  OBVIOUS
<1>5. FirstPlace(block, target, n, r)
  OBVIOUS
<1> HIDE DEF n, W
<1>6. Search(g)
  <2>1. \A l, h \in 0 .. n : g[<<l, h>>] = Within(r, l, h)
    BY <1>3
  <2> HIDE DEF g
  <2>2. ASSUME NEW low \in 0 .. n, NEW high \in 0 .. n
        PROVE  SearchStep(g, block, target, low, high) = Within(r, low, high)
    <3>1. RightBelow(g, n, r, low, high)
      BY <2>1 DEF RightBelow
    <3> QED BY <1>5, <3>1, SearchRound
  <2>3. \A w \in W : SearchStep(g, block, target, w[1], w[2]) = Within(r, w[1], w[2])
    BY <1>4, <2>2
  <2>4. g = [w \in W |-> Within(r, w[1], w[2])]
    BY DEF g
  <2> QED BY ONLY <2>3, <2>4
<1>7. Search(search)
  <2> HIDE DEF Search
  <2> QED BY <1>6
<1> HIDE DEF search
<1>8. \A low, high \in 0 .. n : search[<<low, high>>] = SearchStep(search, block, target, low, high)
  <2>1. \A w \in W : search[w] = SearchStep(search, block, target, w[1], w[2])
    BY <1>7
  <2> SUFFICES ASSUME NEW low \in 0 .. n, NEW high \in 0 .. n
               PROVE  search[<<low, high>>] = SearchStep(search, block, target, low, high)
    OBVIOUS
  <2>2. PICK w \in W : w = <<low, high>> /\ w[1] = low /\ w[2] = high
    BY <1>3
  <2>3. search[w] = SearchStep(search, block, target, low, high)
    BY <2>1, <2>2
  <2> QED BY <2>2, <2>3
<1> DEFINE Wrong(l, h) == search[<<l, h>>] # Within(r, l, h)
           S == {d \in 0 .. n : \E l, h \in 0 .. n : h - l = d /\ Wrong(l, h)}
<1> HIDE DEF Wrong
<1>9. S = {}
  <2> SUFFICES ASSUME S # {} PROVE FALSE
    OBVIOUS
  <2>1. S \in SUBSET Nat
    BY <1>2
  <2>2. PICK d \in S : \A e \in S : d <= e
    <3> HIDE DEF S
    <3> QED BY <2>1, LeastOf
  <2>3. PICK l \in 0 .. n, h \in 0 .. n : h - l = d /\ Wrong(l, h)
    OBVIOUS
  <2>4. ASSUME NEW x \in 0 .. n, NEW y \in 0 .. n, l <= x, x <= y, y <= h, y - x < h - l
        PROVE  ~Wrong(x, y)
    <3> SUFFICES ASSUME Wrong(x, y) PROVE FALSE
      OBVIOUS
    <3>1. y - x \in 0 .. n
      BY ONLY <1>2, <2>4
    <3>2. y - x \in S
      BY <3>1
    <3>3. d <= y - x
      BY <2>2, <3>2
    <3> HIDE DEF S
    <3>4. ~(h - l <= y - x)
      BY ONLY <1>2, <2>4
    <3> QED BY ONLY <2>3, <3>3, <3>4
  <2> HIDE DEF S
  <2>5. SearchStep(search, block, target, l, h) = Within(r, l, h)
    <3>1. RightBelow(search, n, r, l, h)
      BY <2>4 DEF RightBelow, Wrong
    <3> QED BY <1>5, <3>1, SearchRound
  <2> QED BY <1>8, <2>3, <2>5 DEF Wrong
<1>10. search[<<0, n>>] = Within(r, 0, n)
  <2>1. n \in 0 .. n /\ 0 \in 0 .. n /\ n - 0 = n
    BY <1>2
  <2>2. ~Wrong(0, n)
    BY <1>9, <2>1
  <2> QED BY <2>2 DEF Wrong
<1>11. Within(r, 0, n) = r
  BY <1>2 DEF Within
<1> QED BY <1>1, <1>10, <1>11

(* The first s entries, and no others, come before the target. *)
Before(es, target, s) == \A i \in 1 .. Len(es) : KeyLess(es[i].key, target) <=> i <= s

(* The keys of a table are lists of bytes. *)
LEMMA AddedKey ==
  ASSUME NEW es \in Seq(Added), NEW i \in 1 .. Len(es)
  PROVE  es[i] \in Added /\ es[i].key \in KeySet /\ es[i].key \in Seq(Nat)
<1>1. es[i] \in Added
  OBVIOUS
<1>2. es[i].key \in KeySet
  BY <1>1 DEF Added
<1> QED BY <1>1, <1>2, KeysFit

(* In a sorted table there is such a number, and From starts after it. *)
LEMMA StartOf ==
  ASSUME NEW es \in Seq(Added), Sorted(es), NEW target \in Seq(Nat)
  PROVE  \E s \in 0 .. Len(es) : /\ Before(es, target, s)
                                 /\ From(es, target) = SubSeq(es, s + 1, Len(es))
<1> DEFINE n == Len(es)
           least == {i \in 1 .. n + 1 : i <= n => ~KeyLess(es[i].key, target)}
           m == Min(least)
<1>1. n \in Nat /\ DOMAIN es = 1 .. n
  OBVIOUS
<1>2. PICK f \in least : \A j \in least : f <= j
  <2>1. least \in SUBSET Nat /\ n + 1 \in least
    BY <1>1
  <2> HIDE DEF least
  <2> QED BY <2>1, LeastOf
<1>3. m \in least /\ \A j \in least : m <= j
  <2> HIDE DEF least
  <2> QED BY <1>2 DEF Min
<1>4. m \in 1 .. n + 1 /\ (m <= n => ~KeyLess(es[m].key, target))
  BY <1>3
<1>5. ASSUME NEW i \in 1 .. n, i < m PROVE KeyLess(es[i].key, target)
  <2> SUFFICES ASSUME ~KeyLess(es[i].key, target) PROVE FALSE
    OBVIOUS
  <2>1. i \in least
    BY <1>1
  <2>2. m <= i
    BY <1>3, <2>1
  <2> HIDE DEF m, least
  <2> QED BY <1>1, <1>4, <1>5, <2>2
<1> HIDE DEF n, m, least
<1>6. ASSUME NEW i \in 1 .. n, m <= i PROVE ~KeyLess(es[i].key, target)
  <2>1. m \in 1 .. n /\ m <= n
    BY <1>1, <1>4, <1>6
  <2>2. CASE i = m
    BY <1>4, <2>1, <2>2
  <2>3. CASE i # m
    <3>1. m < i
      BY <1>1, <1>6, <2>1, <2>3
    <3>2. KeyLess(es[m].key, es[i].key)
      BY <1>1, <2>1, <3>1 DEF Sorted
    <3>3. es[m].key \in Seq(Nat) /\ es[i].key \in Seq(Nat)
      BY <2>1, AddedKey DEF n
    <3> QED BY <1>4, <2>1, <3>2, <3>3, KeyTransitive
  <2> QED BY <2>2, <2>3
<1>7. m - 1 \in 0 .. n /\ m - 1 + 1 = m
  BY <1>1, <1>4
<1>8. Before(es, target, m - 1)
  <2> SUFFICES ASSUME NEW i \in 1 .. n PROVE KeyLess(es[i].key, target) <=> i <= m - 1
    BY DEF Before, n
  <2>1. i <= m - 1 <=> i < m
    BY <1>1, <1>4
  <2>2. i < m \/ m <= i
    BY <1>1, <1>4
  <2>3. ~(i < m /\ m <= i)
    BY <1>1, <1>4
  <2> QED BY <1>5, <1>6, <2>1, <2>2, <2>3
<1>9. From(es, target) = SubSeq(es, m - 1 + 1, n)
  BY <1>7 DEF From, m, least, n
<1> QED BY <1>7, <1>8, <1>9 DEF n

(* There is only one. *)
LEMMA StartUnique ==
  ASSUME NEW es, Len(es) \in Nat, NEW target, NEW s \in 0 .. Len(es), NEW t \in 0 .. Len(es),
         Before(es, target, s), Before(es, target, t)
  PROVE  s = t
<1>1. s \in Nat /\ t \in Nat
  OBVIOUS
<1>2. CASE s < t
  <2>1. t \in 1 .. Len(es) /\ t <= t /\ ~(t <= s)
    BY <1>1, <1>2
  <2> QED BY <2>1 DEF Before
<1>3. CASE t < s
  <2>1. s \in 1 .. Len(es) /\ s <= s /\ ~(s <= t)
    BY <1>1, <1>3
  <2> QED BY <2>1 DEF Before
<1> QED BY <1>1, <1>2, <1>3

(* Nothing comes before the empty key. *)
LEMMA NothingBefore ==
  ASSUME NEW es \in Seq(Added)
  PROVE  Before(es, <<>>, 0)
<1> SUFFICES ASSUME NEW i \in 1 .. Len(es) PROVE ~KeyLess(es[i].key, <<>>) /\ ~(i <= 0)
  BY DEF Before
<1>1. es[i].key \in Seq(Nat) /\ <<>> \in Seq(Nat) /\ Len(<<>>) = 0
  BY AddedKey
<1>2. ASSUME NEW j \in Nat, Differs(es[i].key, <<>>, j) PROVE FALSE
  BY <1>1, <1>2 DEF Differs
<1>3. ~KeyLess(es[i].key, <<>>)
  <2>1. KeyLess(es[i].key, <<>>) <=> \E j \in Nat : Differs(es[i].key, <<>>, j)
    BY ONLY <1>1, KeyLessIs
  <2> QED BY <1>2, <2>1
<1> QED BY <1>3

(* A search in a block finds the first entry of it from the target on. *)
LEMMA SeekFinds ==
  ASSUME NEW es \in Seq(Added), Sorted(es), NEW lo \in Nat, NEW hi \in Nat, lo < hi,
         hi <= Len(es), NEW block, Reads(block, es, lo, hi), NEW target \in Seq(Nat),
         NEW s \in Nat, lo <= s, s <= hi, Before(es, target, s)
  PROVE  BlockSeek(block, target) = s - lo
<1> DEFINE m == hi - lo
           r == s - lo
<1>1. m \in Nat /\ r \in 0 .. m /\ Len(block.offsets) = m
  BY DEF Reads
<1>2. ASSUME NEW i \in 0 .. m - 1
      PROVE  /\ KeyLess(KeyAt(block, i), target) <=> i < r
             /\ KeyLess(target, KeyAt(block, i)) => i >= r
             /\ ~KeyLess(KeyAt(block, i), target) /\ ~KeyLess(target, KeyAt(block, i)) => i = r
  <2> DEFINE p == lo + i + 1
             key == es[p].key
  <2>1. p \in 1 .. Len(es) /\ (p <= s <=> i < r) /\ i \in Nat
    OBVIOUS
  <2>2. KeyAt(block, i) = key
    BY DEF Reads
  <2>3. key \in Seq(Nat)
    BY <2>1, AddedKey
  <2>4. KeyLess(key, target) <=> i < r
    BY <2>1 DEF Before
  <2>5. KeyLess(target, key) => i >= r
    <3>1. KeyLess(target, key) => ~KeyLess(key, target)
      BY <2>3, KeyAsymmetric
    <3> HIDE DEF r, key
    <3> QED BY <1>1, <2>1, <2>4, <3>1
  <2>6. ASSUME ~KeyLess(key, target), ~KeyLess(target, key), i # r PROVE FALSE
    <3>1. key = target
      BY <2>3, <2>6, KeyTotal
    <3>2. s < p - 1 /\ s + 1 \in 1 .. Len(es) /\ s + 1 < p
      <4>1. ~(i < r)
        BY <2>4, <2>6
      <4> QED BY <2>1, <2>6, <4>1
    <3>3. KeyLess(es[s + 1].key, key)
      <4>1. DOMAIN es = 1 .. Len(es)
        OBVIOUS
      <4> QED BY <2>1, <3>2, <4>1 DEF Sorted
    <3>4. s + 1 <= s
      BY <3>1, <3>2, <3>3 DEF Before
    <3> QED BY <3>4
  <2> HIDE DEF r, key
  <2> QED BY <2>2, <2>4, <2>5, <2>6
<1> HIDE DEF m, r
<1>3. FirstPlace(block, target, m, r)
  BY <1>1, <1>2 DEF FirstPlace
<1> QED BY <1>1, <1>3, SearchEnds DEF r

-----------------------------------------------------------------------------
(* Tables *)

Metas == [offset : Nat, first_key : KeySet, last_key : KeySet]

Chunks == [at : Nat, block : [data : Seq(Coded), offsets : Seq(Nat), num : Nat]]

(* A block of a file gives the entries after the first lo, up to number    *)
(* hi, and its meta data says where it is and which keys it starts and     *)
(* ends with.                                                              *)
Written(d, meta, es, lo, hi) ==
  /\ Reads(Decode(d.block), es, lo, hi)
  /\ meta.offset = d.at /\ meta.first_key = es[lo + 1].key /\ meta.last_key = es[hi].key

(* The blocks that are written cut the entries at c, one after the other   *)
(* in the file.                                                            *)
Pieces(b, es, n, c) ==
  LET B == Len(b.meta) IN
  /\ b.meta \in Seq(Metas) /\ b.data \in Seq(Chunks) /\ Len(b.data) = B /\ b.size \in Nat
  /\ c \in [0 .. B -> 0 .. n] /\ c[0] = 0
  /\ \A i, j \in 0 .. B : i < j => c[i] < c[j]
  /\ \A i \in 1 .. B : Written(b.data[i], b.meta[i], es, c[i - 1], c[i]) /\ b.data[i].at < b.size
  /\ \A i, j \in 1 .. B : i < j => b.data[i].at < b.data[j].at

(* The entries after the last cut are in the block that is being built. *)
OpenBlock(b, es, n, c) ==
  LET lo == c[Len(b.meta)] IN
  /\ Holds(b.builder, es, lo, n)
  /\ n = 0 => b.first_key = <<>> /\ b.meta = <<>>
  /\ n # 0 => lo < n /\ b.first_key = es[lo + 1].key /\ b.last_key = es[n].key

BuilderFields(b) ==
  b = [builder |-> b.builder, first_key |-> b.first_key, last_key |-> b.last_key,
       data |-> b.data, size |-> b.size, meta |-> b.meta, key_hashes |-> b.key_hashes]

(* The cuts with one more at the end. *)
OneMore(c, B, n) == [i \in 0 .. B + 1 |-> IF i = B + 1 THEN n ELSE c[i]]

(* finish_block() writes the open block. *)
LEMMA FinishPieces ==
  ASSUME NEW es \in Seq(Added), NEW n \in 1 .. Len(es), NEW b, NEW c,
         BuilderFields(b), Pieces(b, es, n, c), OpenBlock(b, es, n, c)
  PROVE  /\ BuilderFields(FinishBlock(b)) /\ FinishBlock(b).builder = NewBlock
         /\ FinishBlock(b).key_hashes = b.key_hashes
         /\ Len(FinishBlock(b).meta) = Len(b.meta) + 1
         /\ Pieces(FinishBlock(b), es, n, OneMore(c, Len(b.meta), n))
<1> DEFINE B == Len(b.meta)
           lo == c[B]
           block == Encode(b.builder)
           d == [at |-> b.size, block |-> block]
           mt == [offset |-> b.size, first_key |-> b.first_key, last_key |-> b.last_key]
           size == b.size + 1 + EncodedSize(block) + 4
           f == FinishBlock(b)
           cuts == OneMore(c, B, n)
<1>1. /\ B \in Nat /\ b.meta \in Seq(Metas) /\ b.data \in Seq(Chunks) /\ Len(b.data) = B
      /\ b.size \in Nat /\ c \in [0 .. B -> 0 .. n] /\ c[0] = 0
      /\ \A i, j \in 0 .. B : i < j => c[i] < c[j]
      /\ \A i \in 1 .. B : Written(b.data[i], b.meta[i], es, c[i - 1], c[i]) /\ b.data[i].at < b.size
      /\ \A i, j \in 1 .. B : i < j => b.data[i].at < b.data[j].at
  BY DEF Pieces
<1>2. /\ Holds(b.builder, es, lo, n) /\ lo < n
      /\ b.first_key = es[lo + 1].key /\ b.last_key = es[n].key
  BY DEF OpenBlock
<1>3. n \in Nat /\ n <= Len(es) /\ lo \in 0 .. n /\ lo \in Nat /\ lo + 1 \in 1 .. Len(es)
  <2>1. B \in 0 .. B
    BY <1>1
  <2>2. lo \in 0 .. n
    BY <1>1, <2>1
  <2> HIDE DEF lo
  <2> QED BY <1>2, <2>2
<1> HIDE DEF lo, B
<1>4. b.builder # NewBlock
  <2>1. Len(b.builder.offsets) = n - lo /\ n - lo # 0
    BY <1>2, <1>3 DEF Holds
  <2> QED BY <2>1 DEF NewBlock
<1>5. /\ b.builder.data \in Seq(Coded) /\ b.builder.offsets \in Seq(Nat)
      /\ block = [data |-> b.builder.data, offsets |-> b.builder.offsets,
                  num |-> Len(b.builder.offsets) % FieldLimit]
      /\ Len(b.builder.offsets) \in Nat /\ Len(b.builder.offsets) % FieldLimit \in Nat
  <2>1. b.builder.data \in Seq(Coded) /\ b.builder.offsets \in Seq(Nat)
        /\ Len(b.builder.offsets) = n - lo /\ n - lo < FieldLimit /\ n - lo \in Nat
    BY <1>2, <1>3 DEF Holds
  <2>2. (n - lo) % FieldLimit = n - lo
    BY <2>1, BlockAssumption, FieldHolds
  <2> QED BY <2>1, <2>2 DEF Encode
<1>6. EncodedSize(block) \in Nat
  <2>1. DataSize(b.builder) \in Nat
    <3>1. PICK x : x = b.builder
      OBVIOUS
    <3>2. Holds(x, es, lo, n) /\ lo <= n
      BY <1>2, <1>3, <3>1
    <3>3. DataSize(x) \in Nat
      BY <1>3, <3>2, DataEnds
    <3> QED BY <3>1, <3>3
  <2>2. block.data = b.builder.data /\ block.offsets = b.builder.offsets
    BY <1>5
  <2>3. DataSize(block) = DataSize(b.builder)
    BY <2>2 DEF DataSize
  <2>4. DataSize(block) \in Nat /\ Len(block.offsets) \in Nat
    BY <1>5, <2>1, <2>2, <2>3
  <2> HIDE DEF block
  <2> QED BY <2>4 DEF EncodedSize
<1>7. Written(d, mt, es, lo, n)
  <2>1. Reads(Decode(block), es, lo, n)
    BY <1>2, <1>3, DecodeReads
  <2> HIDE DEF block
  <2> QED BY <1>2, <2>1 DEF Written
<1>8. d \in Chunks
  <2>1. block \in [data : Seq(Coded), offsets : Seq(Nat), num : Nat]
    BY <1>5
  <2> HIDE DEF block
  <2> QED BY <1>1, <2>1 DEF Chunks
<1>9. mt \in Metas
  <2>1. es[lo + 1].key \in KeySet /\ es[n].key \in KeySet
    BY <1>3, AddedKey
  <2> QED BY <1>1, <1>2, <2>1 DEF Metas
<1>10. f = [builder |-> NewBlock, first_key |-> <<>>, last_key |-> <<>>, data |-> Append(b.data, d),
            size |-> size, meta |-> Append(b.meta, mt), key_hashes |-> b.key_hashes]
  <2>1. f = [b EXCEPT !.builder = NewBlock, !.first_key = <<>>, !.last_key = <<>>,
                      !.data = Append(@, d), !.size = size, !.meta = Append(@, mt)]
    BY <1>4 DEF FinishBlock
  <2> HIDE DEF f, d, size, mt
  <2> QED BY <2>1 DEF BuilderFields
<1>11. size \in Nat /\ b.size < size
  <2> HIDE DEF block
  <2> QED BY <1>1, <1>6
<1> HIDE DEF d, size, mt, f, block
<1>12. /\ f.builder = NewBlock /\ f.key_hashes = b.key_hashes /\ BuilderFields(f)
       /\ f.data = Append(b.data, d) /\ f.meta = Append(b.meta, mt) /\ f.size = size
  BY <1>10 DEF BuilderFields
<1>13. /\ f.meta \in Seq(Metas) /\ f.data \in Seq(Chunks)
       /\ Len(f.meta) = B + 1 /\ Len(f.data) = B + 1
       /\ f.data[B + 1] = d /\ f.meta[B + 1] = mt
       /\ \A i \in 1 .. B : f.data[i] = b.data[i] /\ f.meta[i] = b.meta[i]
  BY <1>1, <1>8, <1>9, <1>12 DEF B
<1>14. /\ \A i \in 0 .. B : cuts[i] = c[i] /\ cuts[i] \in 0 .. n
       /\ cuts[B + 1] = n /\ cuts[0] = 0 /\ cuts \in [0 .. B + 1 -> 0 .. n]
       /\ \A i \in 0 .. B + 1 : i = B + 1 \/ i \in 0 .. B
       /\ \A i \in 1 .. B + 1 : i = B + 1 \/ (i \in 1 .. B /\ i - 1 \in 0 .. B)
       /\ B \in 0 .. B /\ B + 1 - 1 = B
  <2>1. \A i \in 0 .. B : i # B + 1 /\ i \in 0 .. B + 1
    BY <1>1
  <2>2. /\ \A i \in 0 .. B + 1 : i = B + 1 \/ i \in 0 .. B
        /\ \A i \in 1 .. B + 1 : i = B + 1 \/ (i \in 1 .. B /\ i - 1 \in 0 .. B)
        /\ B \in 0 .. B /\ B + 1 - 1 = B /\ 0 \in 0 .. B /\ B + 1 \in 0 .. B + 1
    BY <1>1
  <2>3. n \in 0 .. n
    BY <1>3
  <2>4. \A i \in 0 .. B : cuts[i] = c[i] /\ cuts[i] \in 0 .. n
    BY <1>1, <2>1 DEF OneMore
  <2>5. cuts[B + 1] = n /\ cuts[0] = 0
    BY <1>1, <2>2, <2>4 DEF OneMore
  <2>6. cuts \in [0 .. B + 1 -> 0 .. n]
    BY <1>1, <2>2, <2>3 DEF OneMore
  <2> QED BY <2>2, <2>4, <2>5, <2>6
<1> HIDE DEF cuts
<1>15. \A i, j \in 0 .. B + 1 : i < j => cuts[i] < cuts[j]
  <2> SUFFICES ASSUME NEW i \in 0 .. B + 1, NEW j \in 0 .. B + 1, i < j PROVE cuts[i] < cuts[j]
    OBVIOUS
  <2>1. i \in 0 .. B
    BY <1>1
  <2>2. CASE j = B + 1
    <3>1. cuts[i] <= lo
      <4>1. i = B \/ i < B
        BY <1>1, <2>1
      <4>2. cuts[i] = c[i] /\ cuts[i] \in Nat
        BY <1>14, <2>1
      <4>3. i < B => c[i] < c[B]
        BY <1>1, <1>14, <2>1
      <4> QED BY <1>3, <4>1, <4>2, <4>3 DEF lo
    <3>2. cuts[i] \in Nat
      BY <1>14, <2>1
    <3> QED BY <1>2, <1>3, <1>14, <2>2, <3>1, <3>2
  <2>3. CASE j \in 0 .. B
    BY <1>1, <1>14, <2>1, <2>3
  <2> QED BY <1>14, <2>2, <2>3
<1>16. ASSUME NEW i \in 1 .. B + 1
       PROVE  Written(f.data[i], f.meta[i], es, cuts[i - 1], cuts[i]) /\ f.data[i].at < f.size
  <2>1. CASE i = B + 1
    <3>1. cuts[i - 1] = lo /\ cuts[i] = n
      BY <1>14, <2>1 DEF lo
    <3>2. f.data[i] = d /\ f.meta[i] = mt
      BY <1>13, <2>1
    <3>3. d.at = b.size
      BY DEF d
    <3> QED BY <1>7, <1>11, <1>12, <3>1, <3>2, <3>3
  <2>2. CASE i \in 1 .. B /\ i - 1 \in 0 .. B
    <3>1. cuts[i - 1] = c[i - 1] /\ cuts[i] = c[i]
      <4>1. i \in 0 .. B
        BY <2>2
      <4> QED BY <1>14, <2>2, <4>1
    <3>2. f.data[i] = b.data[i] /\ f.meta[i] = b.meta[i]
      BY <1>13, <2>2
    <3>3. Written(b.data[i], b.meta[i], es, c[i - 1], c[i]) /\ b.data[i].at < b.size
      BY <1>1, <2>2
    <3>4. b.data[i].at \in Nat
      <4>1. b.data[i] \in Chunks
        BY <1>1, <2>2
      <4> QED BY <4>1 DEF Chunks
    <3>5. f.data[i].at < f.size
      <4>1. b.data[i].at < size
        <5>1. b.data[i].at < b.size /\ b.size \in Nat
          BY <1>1, <3>3
        <5> QED BY ONLY <1>11, <3>4, <5>1
      <4> QED BY <1>12, <3>2, <4>1
    <3> QED BY <3>1, <3>2, <3>3, <3>5
  <2> QED BY <1>14, <2>1, <2>2
<1>17. ASSUME NEW i \in 1 .. B + 1, NEW j \in 1 .. B + 1, i < j PROVE f.data[i].at < f.data[j].at
  <2>1. i \in 1 .. B
    BY <1>1, <1>17
  <2>2. CASE j = B + 1
    <3>1. f.data[j].at = b.size
      BY <1>13, <2>2 DEF d
    <3> QED BY <1>1, <1>13, <2>1, <3>1
  <2>3. CASE j \in 1 .. B
    BY <1>1, <1>13, <1>17, <2>1, <2>3
  <2> QED BY <1>14, <2>2, <2>3
<1>18. Pieces(f, es, n, cuts)
  BY <1>11, <1>12, <1>13, <1>14, <1>15, <1>16, <1>17 DEF Pieces
<1> QED BY <1>12, <1>13, <1>18 DEF f, cuts, B

(* A table under construction after its first n entries. *)
Builder(b, es, n, c) ==
  /\ BuilderFields(b) /\ Pieces(b, es, n, c) /\ OpenBlock(b, es, n, c)
  /\ b.key_hashes = [i \in 1 .. n |-> Hash(es[i].key)]

(* What is written stays when more entries come. *)
LEMMA PiecesStay ==
  ASSUME NEW es, NEW n \in Nat, NEW k \in Nat, n <= k, NEW b, NEW r, NEW c, Pieces(b, es, n, c),
         r.meta = b.meta, r.data = b.data, r.size = b.size
  PROVE  Pieces(r, es, k, c)
<1> DEFINE B == Len(b.meta)
<1>1. c \in [0 .. B -> 0 .. n]
  BY DEF Pieces
<1>2. 0 .. n \subseteq 0 .. k
  OBVIOUS
<1>3. c \in [0 .. B -> 0 .. k]
  BY <1>1, <1>2
<1> QED BY <1>3 DEF Pieces

(* The list of hashes with one more. *)
LEMMA HashesGrow ==
  ASSUME NEW es, NEW n \in Nat
  PROVE  Append([i \in 1 .. n |-> Hash(es[i].key)], Hash(es[n + 1].key)) =
           [i \in 1 .. n + 1 |-> Hash(es[i].key)]
<1> DEFINE S == {Hash(es[i].key) : i \in 1 .. n + 1}
           h == [i \in 1 .. n |-> Hash(es[i].key)]
           x == Hash(es[n + 1].key)
<1>1. /\ \A i \in 1 .. n : i \in 1 .. n + 1
      /\ \A i \in 1 .. n + 1 : i \in 1 .. n \/ i = n + 1
      /\ n + 1 \in 1 .. n + 1 /\ n + 1 \notin 1 .. n
  OBVIOUS
<1>2. h \in [1 .. n -> S] /\ x \in S
  BY <1>1
<1>3. h \in Seq(S) /\ Len(h) = n
  BY <1>2, FunctionIsList
<1>4. \A i \in 1 .. n : h[i] = Hash(es[i].key)
  OBVIOUS
<1> HIDE DEF h, S, x
<1>5. Append(h, x) = [i \in 1 .. n + 1 |-> IF i = n + 1 THEN x ELSE h[i]]
  <2>1. /\ Append(h, x) \in Seq(S) /\ Len(Append(h, x)) = n + 1
        /\ \A i \in 1 .. n + 1 : Append(h, x)[i] = IF i = n + 1 THEN x ELSE h[i]
    BY <1>2, <1>3
  <2>2. \A s \in Seq(S) : s = [j \in 1 .. Len(s) |-> s[j]]
    OBVIOUS
  <2>3. Append(h, x) = [j \in 1 .. n + 1 |-> Append(h, x)[j]]
    BY <2>1, <2>2
  <2> QED BY <2>1, <2>3
<1>6. \A i \in 1 .. n + 1 : (IF i = n + 1 THEN x ELSE h[i]) = Hash(es[i].key)
  BY <1>1, <1>4 DEF x
<1>7. Append(h, x) = [i \in 1 .. n + 1 |-> Hash(es[i].key)]
  BY <1>5, <1>6
<1> QED BY <1>7 DEF h, x

(* An entry goes into the open block, or closes it and starts the next. *)
LEMMA AddBuilds ==
  ASSUME NEW es \in Seq(Added), NEW n \in Nat, n < Len(es), NEW b, NEW c, Builder(b, es, n, c)
  PROVE  \E z : Builder(TableAdd(b, es[n + 1].key, es[n + 1].value), es, n + 1, z)
<1> DEFINE key == es[n + 1].key
           value == es[n + 1].value
           B == Len(b.meta)
           lo == c[B]
           first == IF b.first_key = <<>> THEN key ELSE b.first_key
           hashes == Append(b.key_hashes, Hash(key))
           hashed == [b EXCEPT !.first_key = IF @ = <<>> THEN key ELSE @,
                               !.key_hashes = Append(@, Hash(key))]
           done == FinishBlock(hashed)
           r == TableAdd(b, key, value)
<1>1. /\ BuilderFields(b) /\ Pieces(b, es, n, c) /\ OpenBlock(b, es, n, c)
      /\ hashes = [i \in 1 .. n + 1 |-> Hash(es[i].key)]
  BY HashesGrow DEF Builder
<1>2. /\ Holds(b.builder, es, lo, n) /\ (n = 0 => b.first_key = <<>> /\ b.meta = <<>>)
      /\ n # 0 => lo < n /\ b.first_key = es[lo + 1].key /\ b.last_key = es[n].key
  BY <1>1 DEF OpenBlock
<1>3. /\ B \in Nat /\ c \in [0 .. B -> 0 .. n] /\ c[0] = 0 /\ lo \in 0 .. n /\ lo \in Nat /\ lo <= n
      /\ (n = 0 => lo = 0)
  <2>1. B \in Nat /\ c \in [0 .. B -> 0 .. n] /\ c[0] = 0
    BY <1>1 DEF Pieces
  <2>2. B \in 0 .. B
    BY <2>1
  <2>3. lo \in 0 .. n
    BY <2>1, <2>2
  <2> HIDE DEF lo, B
  <2> QED BY <2>1, <2>3
<1>4. n + 1 \in 1 .. Len(es) /\ n + 1 # 0 /\ n + 1 \in Nat
  OBVIOUS
<1>5. key # <<>> /\ key \in KeySet
  <2>1. key \in KeySet
    BY <1>4, AddedKey
  <2> QED BY <2>1, ReadersAssumption
<1>6. n # 0 => b.first_key # <<>>
  <2> SUFFICES ASSUME n # 0 PROVE es[lo + 1].key # <<>>
    BY <1>2
  <2>1. lo + 1 \in 1 .. Len(es)
    BY <1>2, <1>3
  <2> QED BY <2>1, AddedKey, ReadersAssumption
<1>7. first = es[lo + 1].key
  <2>1. CASE n = 0
    BY <1>2, <1>3, <2>1
  <2>2. CASE n # 0
    BY <1>2, <1>6, <2>2
  <2> QED BY <2>1, <2>2
<1>8. hashed = [builder |-> b.builder, first_key |-> first, last_key |-> b.last_key, data |-> b.data,
                size |-> b.size, meta |-> b.meta, key_hashes |-> hashes]
  <2>1. hashed = [b EXCEPT !.first_key = first, !.key_hashes = hashes]
    OBVIOUS
  <2>2. BuilderFields(b)
    BY <1>1
  <2> HIDE DEF first, hashes, hashed
  <2> QED BY ONLY <2>1, <2>2 DEF BuilderFields
<1>9. r = IF Fits(b.builder, key, value)
            THEN [hashed EXCEPT !.builder = BlockAdd(@, key, value), !.last_key = key]
            ELSE [done EXCEPT !.builder = BlockAdd(@, key, value), !.first_key = key, !.last_key = key]
  BY DEF TableAdd
<1> HIDE DEF first, hashes, hashed, r, B
<1>10. CASE Fits(b.builder, key, value)
  <2> DEFINE new == BlockAdd(b.builder, key, value)
  <2>1. r = [builder |-> new, first_key |-> first, last_key |-> key, data |-> b.data,
             size |-> b.size, meta |-> b.meta, key_hashes |-> hashes]
    <3> HIDE DEF key, value
    <3> QED BY <1>8, <1>9, <1>10
  <2>2. PICK x : x = b.builder
    OBVIOUS
  <2>3. Holds(x, es, lo, n) /\ Fits(x, key, value)
    BY <1>2, <1>10, <2>2
  <2>4. Holds(new, es, lo, n + 1)
    <3> HIDE DEF lo
    <3> QED BY <1>3, <2>2, <2>3, BlockAddHolds
  <2> HIDE DEF new, key, value
  <2>5. /\ r.builder = new /\ r.first_key = first /\ r.last_key = key /\ r.data = b.data
        /\ r.size = b.size /\ r.meta = b.meta /\ r.key_hashes = hashes /\ BuilderFields(r)
    BY <2>1 DEF BuilderFields
  <2>6. Pieces(r, es, n + 1, c)
    <3>1. n <= n + 1
      OBVIOUS
    <3> QED BY <1>1, <1>4, <2>5, <3>1, PiecesStay
  <2>7. OpenBlock(r, es, n + 1, c)
    <3>1. c[Len(r.meta)] = lo
      BY <2>5 DEF B
    <3> HIDE DEF lo
    <3>2. lo < n + 1
      BY <1>3
    <3> QED BY <1>4, <1>7, <2>4, <2>5, <3>1, <3>2 DEF OpenBlock, key
  <2>8. Builder(r, es, n + 1, c)
    BY <1>1, <2>5, <2>6, <2>7 DEF Builder
  <2> QED BY <2>8 DEF r, key, value
<1>11. CASE ~Fits(b.builder, key, value)
  <2>1. n # 0
    <3> SUFFICES ASSUME n = 0 PROVE FALSE
      OBVIOUS
    <3>1. Len(b.builder.offsets) = 0 /\ b.builder.offsets \in Seq(Nat)
      BY <1>2, <1>3 DEF Holds
    <3> QED BY <1>11, <3>1 DEF Fits
  <2>2. /\ hashed.builder = b.builder /\ hashed.first_key = first /\ hashed.last_key = b.last_key
        /\ hashed.data = b.data /\ hashed.size = b.size /\ hashed.meta = b.meta
        /\ hashed.key_hashes = hashes /\ BuilderFields(hashed)
    BY <1>8 DEF BuilderFields
  <2>3. Pieces(hashed, es, n, c)
    <3>1. n <= n
      OBVIOUS
    <3> QED BY <1>1, <2>2, <3>1, PiecesStay
  <2>4. OpenBlock(hashed, es, n, c)
    <3>1. c[Len(hashed.meta)] = lo
      BY <2>2 DEF B
    <3> HIDE DEF lo
    <3> QED BY <1>2, <1>7, <2>1, <2>2, <3>1 DEF OpenBlock
  <2>5. PICK z : z = OneMore(c, B, n)
    OBVIOUS
  <2>6. /\ BuilderFields(done) /\ done.builder = NewBlock /\ done.key_hashes = hashes
        /\ Len(done.meta) = B + 1 /\ Pieces(done, es, n, z)
    <3>1. n \in 1 .. Len(es)
      BY <2>1
    <3>2. Len(hashed.meta) = B
      BY <2>2 DEF B
    <3> QED BY <2>2, <2>3, <2>4, <2>5, <3>1, <3>2, FinishPieces
  <2> DEFINE new == BlockAdd(NewBlock, key, value)
  <2> HIDE DEF done
  <2>7. r = [builder |-> new, first_key |-> key, last_key |-> key, data |-> done.data,
             size |-> done.size, meta |-> done.meta, key_hashes |-> hashes]
    <3> HIDE DEF key, value
    <3> QED BY <1>9, <1>11, <2>6 DEF BuilderFields
  <2>8. Holds(NewBlock, es, n, n)
    <3>1. n - n = 0 /\ FieldLimit \in Nat \ {0} /\ 1 .. 0 = {}
      BY BlockAssumption
    <3> QED BY <3>1 DEF Holds, NewBlock
  <2>9. Holds(new, es, n, n + 1)
    <3>1. Fits(NewBlock, key, value) /\ n <= n
      BY DEF Fits, NewBlock
    <3> QED BY <2>8, <3>1, BlockAddHolds
  <2> HIDE DEF new, key, value
  <2>10. /\ r.builder = new /\ r.first_key = key /\ r.last_key = key /\ r.data = done.data
         /\ r.size = done.size /\ r.meta = done.meta /\ r.key_hashes = hashes /\ BuilderFields(r)
    BY <2>7 DEF BuilderFields
  <2>11. Pieces(r, es, n + 1, z)
    <3>1. n <= n + 1
      OBVIOUS
    <3> QED BY <1>4, <2>6, <2>10, <3>1, PiecesStay
  <2>12. OpenBlock(r, es, n + 1, z)
    <3>1. z[Len(r.meta)] = n
      <4>1. Len(r.meta) = B + 1 /\ B + 1 \in 0 .. B + 1
        BY <1>3, <2>6, <2>10
      <4> QED BY <2>5, <4>1 DEF OneMore
    <3>2. n < n + 1
      OBVIOUS
    <3> QED BY <1>4, <2>9, <2>10, <3>1, <3>2 DEF OpenBlock, key
  <2>13. Builder(r, es, n + 1, z)
    BY <1>1, <2>10, <2>11, <2>12 DEF Builder
  <2> QED BY <2>13 DEF r, key, value
<1> QED BY <1>10, <1>11

(* The builder after each of the first n entries. *)
RunTo(es, n, g) ==
  g = [i \in 0 .. n |-> IF i = 0 THEN NewBuilder ELSE TableAdd(g[i - 1], es[i].key, es[i].value)]

(* The run can always go on. *)
LEMMA RunsOn ==
  ASSUME NEW es, NEW n \in Nat, NEW g, RunTo(es, n, g)
  PROVE  \E f : RunTo(es, n + 1, f)
<1> DEFINE add(x, i) == TableAdd(x, es[i].key, es[i].value)
           f == [i \in 0 .. n + 1 |-> IF i = n + 1 THEN add(g[n], i) ELSE g[i]]
<1>1. \A i \in 0 .. n : g[i] = IF i = 0 THEN NewBuilder ELSE add(g[i - 1], i)
  BY DEF RunTo
<1> HIDE DEF add
<1>2. ASSUME NEW i \in 0 .. n + 1
      PROVE  f[i] = IF i = 0 THEN NewBuilder ELSE add(f[i - 1], i)
  <2>1. CASE i = n + 1
    <3>1. i # 0 /\ i - 1 = n /\ n \in 0 .. n + 1 /\ n # n + 1
      BY <2>1
    <3>2. f[i] = add(g[n], i) /\ f[i - 1] = g[n]
      BY <2>1, <3>1
    <3> HIDE DEF f
    <3> QED BY <3>1, <3>2
  <2>2. CASE i = 0
    <3>1. i \in 0 .. n /\ i # n + 1
      BY <2>2
    <3>2. f[i] = g[i]
      BY <3>1
    <3> HIDE DEF f
    <3> QED BY <1>1, <2>2, <3>1, <3>2
  <2>3. CASE i \in 1 .. n
    <3>1. i \in 0 .. n /\ i # 0 /\ i # n + 1 /\ i - 1 \in 0 .. n + 1 /\ i - 1 # n + 1
      BY <2>3
    <3>2. f[i] = g[i] /\ f[i - 1] = g[i - 1]
      BY <3>1
    <3> HIDE DEF f
    <3> QED BY <1>1, <3>1, <3>2
  <2> QED BY <2>1, <2>2, <2>3
<1>3. f = [i \in 0 .. n + 1 |-> f[i]]
  OBVIOUS
<1> HIDE DEF f
<1>4. RunTo(es, n + 1, f)
  BY <1>2, <1>3 DEF RunTo, add
<1> QED BY <1>4

(* So there is one for all entries. *)
LEMMA RunsThrough ==
  ASSUME NEW es, NEW n \in Nat
  PROVE  \E g : RunTo(es, n, g)
<1> DEFINE S == {m \in Nat : ~\E g : RunTo(es, m, g)}
<1> SUFFICES ASSUME S # {} PROVE FALSE
  OBVIOUS
<1>1. PICK m \in S : \A k \in S : m <= k
  <2>1. S \in SUBSET Nat
    OBVIOUS
  <2> HIDE DEF S
  <2> QED BY <2>1, LeastOf
<1>2. m \in Nat /\ ~\E g : RunTo(es, m, g)
  OBVIOUS
<1>3. CASE m = 0
  <2> DEFINE g == [i \in 0 .. 0 |-> NewBuilder]
  <2>1. \A i \in 0 .. 0 : i = 0
    OBVIOUS
  <2>2. RunTo(es, 0, g)
    BY <2>1 DEF RunTo
  <2> QED BY <1>2, <1>3, <2>2
<1>4. CASE m # 0
  <2>1. m - 1 \in Nat /\ ~(m <= m - 1) /\ m - 1 + 1 = m
    BY <1>2, <1>4
  <2>2. m - 1 \notin S
    <3> HIDE DEF S
    <3> QED BY <1>1, <2>1
  <2>3. PICK g : RunTo(es, m - 1, g)
    BY <2>1, <2>2
  <2>4. \E f : RunTo(es, m - 1 + 1, f)
    BY <2>1, <2>3, RunsOn
  <2> QED BY <1>2, <2>1, <2>4
<1> QED BY <1>3, <1>4

(* A builder is sound after every entry. *)
LEMMA RunBuilds ==
  ASSUME NEW es \in Seq(Added), NEW g, RunTo(es, Len(es), g), NEW n \in 0 .. Len(es)
  PROVE  \E c : Builder(g[n], es, n, c)
<1> DEFINE S == {m \in 0 .. Len(es) : ~\E c : Builder(g[m], es, m, c)}
<1> SUFFICES ASSUME S # {} PROVE FALSE
  OBVIOUS
<1>1. PICK m \in S : \A k \in S : m <= k
  <2>1. S \in SUBSET Nat
    OBVIOUS
  <2> HIDE DEF S
  <2> QED BY <2>1, LeastOf
<1>2. m \in 0 .. Len(es) /\ m \in Nat /\ ~\E c : Builder(g[m], es, m, c)
  OBVIOUS
<1>3. g[m] = IF m = 0 THEN NewBuilder ELSE TableAdd(g[m - 1], es[m].key, es[m].value)
  BY <1>2 DEF RunTo
<1>4. CASE m = 0
  <2> DEFINE c == [i \in 0 .. 0 |-> 0]
             b == NewBuilder
  <2>1. /\ b.meta = <<>> /\ b.data = <<>> /\ b.size = 0 /\ b.builder = NewBlock
        /\ b.first_key = <<>> /\ b.key_hashes = <<>> /\ BuilderFields(b)
    BY DEF NewBuilder, BuilderFields
  <2> HIDE DEF b
  <2>2. Len(b.meta) = 0 /\ c[0] = 0 /\ c \in [0 .. 0 -> 0 .. 0] /\ 1 .. 0 = {}
        /\ \A i, j \in 0 .. 0 : ~(i < j)
    BY <2>1
  <2>3. Pieces(b, es, 0, c)
    BY <2>1, <2>2 DEF Pieces
  <2>4. Holds(NewBlock, es, 0, 0)
    <3>1. 0 - 0 = 0 /\ FieldLimit \in Nat \ {0} /\ 1 .. 0 = {}
      BY BlockAssumption
    <3> QED BY <3>1 DEF Holds, NewBlock
  <2>5. OpenBlock(b, es, 0, c)
    BY <2>1, <2>2, <2>4 DEF OpenBlock
  <2>6. b.key_hashes = [i \in 1 .. 0 |-> Hash(es[i].key)]
    BY <2>1
  <2>7. Builder(b, es, 0, c)
    BY <2>1, <2>3, <2>5, <2>6 DEF Builder
  <2> QED BY <1>2, <1>3, <1>4, <2>7 DEF b
<1>5. CASE m # 0
  <2>1. m - 1 \in Nat /\ ~(m <= m - 1) /\ m - 1 + 1 = m /\ m - 1 < Len(es) /\ m - 1 \in 0 .. Len(es)
    BY <1>2, <1>5
  <2>2. m - 1 \notin S
    <3> HIDE DEF S
    <3> QED BY <1>1, <2>1
  <2>3. PICK c : Builder(g[m - 1], es, m - 1, c)
    BY <2>1, <2>2
  <2>4. \E z : Builder(TableAdd(g[m - 1], es[m - 1 + 1].key, es[m - 1 + 1].value), es, m - 1 + 1, z)
    BY <2>1, <2>3, AddBuilds
  <2> QED BY <1>2, <1>3, <1>5, <2>1, <2>4
<1> QED BY <1>4, <1>5

(* The file of a table: its blocks give its entries, cut at c. *)
IsTable(table, es, c) ==
  LET B == Len(table.block_meta)
      n == Len(es) IN
  /\ B \in Nat \ {0} /\ DOMAIN table.block_meta = 1 .. B
  /\ c \in [0 .. B -> 0 .. n] /\ c[0] = 0 /\ c[B] = n
  /\ \A i, j \in 0 .. B : i < j => c[i] < c[j]
  /\ \A i \in 1 .. B : /\ table.block_meta[i].first_key = es[c[i - 1] + 1].key
                       /\ Reads(ReadBlock(table, i - 1), es, c[i - 1], c[i])
  /\ table.first_key = es[1].key /\ table.last_key = es[n].key
  /\ table.bloom = BuildFilter([i \in 1 .. n |-> Hash(es[i].key)])

(* The meta data survives its encoding. *)
LEMMA MetaCoded ==
  ASSUME NEW meta \in Seq(Metas), \A i \in DOMAIN meta : meta[i].offset < FieldLimit * FieldLimit
  PROVE  CodedBlockMeta(meta) = meta
<1> DEFINE L == FieldLimit * FieldLimit
<1>1. L \in Nat \ {0}
  BY BlockAssumption
<1>2. ASSUME NEW k \in KeySet PROVE SubSeq(k, 1, Len(k) % FieldLimit) = k
  <2>1. k \in Seq(Nat) /\ Len(k) \in Nat /\ Len(k) < FieldLimit /\ FieldLimit \in Nat \ {0}
    BY KeysFit
  <2>2. Len(k) % FieldLimit = Len(k)
    BY <2>1, FieldHolds
  <2> QED BY <2>1, <2>2
<1> HIDE DEF L
<1>3. ASSUME NEW i \in DOMAIN meta
      PROVE  [offset |-> meta[i].offset % L,
              first_key |-> SubSeq(meta[i].first_key, 1, Len(meta[i].first_key) % FieldLimit),
              last_key |-> SubSeq(meta[i].last_key, 1, Len(meta[i].last_key) % FieldLimit)] = meta[i]
  <2>1. meta[i] \in Metas
    OBVIOUS
  <2>2. meta[i].offset \in Nat /\ meta[i].first_key \in KeySet /\ meta[i].last_key \in KeySet
    BY <2>1 DEF Metas
  <2>3. meta[i].offset % L = meta[i].offset
    <3>1. meta[i].offset < L
      BY DEF L
    <3> QED BY <1>1, <2>2, <3>1, FieldHolds
  <2>4. meta[i] = [offset |-> meta[i].offset, first_key |-> meta[i].first_key,
                   last_key |-> meta[i].last_key]
    BY <2>1 DEF Metas
  <2> QED BY <1>2, <2>2, <2>3, <2>4
<1>4. meta = [i \in DOMAIN meta |-> meta[i]]
  OBVIOUS
<1> QED BY <1>3, <1>4 DEF CodedBlockMeta, L

(* build() makes such a file, and SsTable::open reads it so. *)
LEMMA BuildIs ==
  ASSUME NEW es \in Seq(Added), es # <<>>,
         \A d \in ToSet(Build(es).data) : d.at < FieldLimit * FieldLimit
  PROVE  \E c : IsTable(Build(es), es, c)
<1> DEFINE n == Len(es)
           g == CHOOSE f : RunTo(es, n, f)
           b == FinishBlock(g[n])
           T == Build(es)
<1>1. /\ T.data = b.data /\ T.block_meta = CodedBlockMeta(b.meta)
      /\ T.first_key = Head(CodedBlockMeta(b.meta)).first_key
      /\ T.last_key = Last(CodedBlockMeta(b.meta)).last_key
      /\ T.bloom = BuildFilter(b.key_hashes)
  BY DEF Build, RunTo
<1>2. n \in Nat /\ n # 0 /\ n \in 0 .. n /\ n \in 1 .. n /\ 1 \in 1 .. n
  OBVIOUS
<1>3. RunTo(es, n, g)
  <2>1. \E f : RunTo(es, n, f)
    BY <1>2, RunsThrough
  <2> QED BY <2>1
<1> HIDE DEF g, T
<1>4. PICK c : Builder(g[n], es, n, c)
  BY <1>2, <1>3, RunBuilds
<1>5. PICK x : x = g[n]
  OBVIOUS
<1>6. BuilderFields(x) /\ Pieces(x, es, n, c) /\ OpenBlock(x, es, n, c)
      /\ x.key_hashes = [i \in 1 .. n |-> Hash(es[i].key)]
  BY <1>4, <1>5 DEF Builder
<1>7. PICK B : B = Len(x.meta) + 1
  OBVIOUS
<1>8. PICK z : z = OneMore(c, Len(x.meta), n)
  OBVIOUS
<1>9. /\ b.key_hashes = [i \in 1 .. n |-> Hash(es[i].key)]
      /\ Len(b.meta) = B /\ Pieces(b, es, n, z)
  BY <1>2, <1>5, <1>6, <1>7, <1>8, FinishPieces
<1>10. B \in Nat \ {0} /\ z[B] = n
  <2>1. Len(x.meta) \in Nat
    BY <1>6 DEF Pieces
  <2>2. B \in Nat \ {0} /\ B \in 0 .. B
    BY <1>7, <2>1
  <2> QED BY <1>7, <1>8, <2>2 DEF OneMore
<1> HIDE DEF b
<1>11. /\ b.meta \in Seq(Metas) /\ b.data \in Seq(Chunks) /\ Len(b.data) = B
       /\ z \in [0 .. B -> 0 .. n] /\ z[0] = 0
       /\ \A i, j \in 0 .. B : i < j => z[i] < z[j]
       /\ \A i \in 1 .. B : Written(b.data[i], b.meta[i], es, z[i - 1], z[i])
       /\ \A i, j \in 1 .. B : i < j => b.data[i].at < b.data[j].at
  BY <1>9 DEF Pieces
<1>12. DOMAIN b.meta = 1 .. B /\ DOMAIN b.data = 1 .. B
  BY <1>9, <1>11
<1>13. \A i \in 1 .. B : /\ b.meta[i].offset = b.data[i].at /\ b.data[i].at \in Nat
                         /\ b.meta[i].first_key = es[z[i - 1] + 1].key
                         /\ b.meta[i].last_key = es[z[i]].key
                         /\ Reads(Decode(b.data[i].block), es, z[i - 1], z[i])
  <2>1. \A i \in 1 .. B : b.data[i] \in Chunks
    BY <1>11
  <2>2. \A i \in 1 .. B : b.data[i].at \in Nat
    BY <2>1 DEF Chunks
  <2> QED BY <1>11, <2>2 DEF Written
<1>14. \A i \in DOMAIN b.meta : b.meta[i].offset < FieldLimit * FieldLimit
  <2> SUFFICES ASSUME NEW i \in 1 .. B PROVE b.data[i].at < FieldLimit * FieldLimit
    BY <1>12, <1>13
  <2>1. b.data[i] \in ToSet(b.data)
    BY <1>12 DEF ToSet
  <2>2. b.data[i] \in ToSet(Build(es).data)
    BY <1>1, <2>1 DEF T
  <2> QED BY <2>2
<1>15. CodedBlockMeta(b.meta) = b.meta
  BY <1>11, <1>14, MetaCoded
<1>16. T.block_meta = b.meta /\ T.data = b.data /\ T.bloom = BuildFilter(b.key_hashes)
       /\ T.first_key = b.meta[1].first_key /\ T.last_key = b.meta[B].last_key
  <2>1. Head(b.meta) = b.meta[1] /\ Last(b.meta) = b.meta[B]
    BY <1>9, <1>10, <1>11 DEF Last
  <2> QED BY <1>1, <1>15, <2>1
<1>17. ASSUME NEW i \in 1 .. B PROVE ReadBlock(T, i - 1) = Decode(b.data[i].block)
  <2>1. i - 1 + 1 = i
    OBVIOUS
  <2>2. T.block_meta[i - 1 + 1].offset = b.data[i].at
    BY <1>13, <1>16, <2>1
  <2>3. ASSUME NEW d \in ToSet(b.data), d.at = b.data[i].at PROVE d = b.data[i]
    <3>1. PICK j \in 1 .. B : d = b.data[j]
      BY <1>12 DEF ToSet
    <3>2. b.data[j].at = b.data[i].at /\ b.data[i].at \in Nat
      BY <1>13, <2>3, <3>1
    <3>3. ~(i < j) /\ ~(j < i)
      BY <1>11, <3>2
    <3>4. i = j
      BY <1>10, <3>3
    <3> QED BY <3>1, <3>4
  <2>4. b.data[i] \in ToSet(b.data)
    BY <1>12 DEF ToSet
  <2>5. (CHOOSE d \in ToSet(b.data) : d.at = b.data[i].at) = b.data[i]
    BY <2>3, <2>4
  <2> QED BY <1>16, <2>2, <2>5 DEF ReadBlock
<1>18. T.first_key = es[1].key /\ T.last_key = es[n].key
  <2>1. 1 \in 1 .. B /\ B \in 1 .. B /\ 1 - 1 = 0 /\ 0 + 1 = 1
    BY <1>10
  <2>2. T.first_key = es[z[1 - 1] + 1].key /\ T.last_key = es[z[B]].key
    BY <1>13, <1>16, <2>1
  <2>3. z[1 - 1] + 1 = 1 /\ z[B] = n
    BY <1>10, <1>11, <2>1
  <2> HIDE DEF n
  <2> QED BY <2>2, <2>3
<1>19. \A i \in 1 .. B : /\ T.block_meta[i].first_key = es[z[i - 1] + 1].key
                         /\ Reads(ReadBlock(T, i - 1), es, z[i - 1], z[i])
  BY <1>13, <1>16, <1>17
<1>20. /\ Len(T.block_meta) = B /\ DOMAIN T.block_meta = 1 .. B
       /\ T.bloom = BuildFilter([i \in 1 .. n |-> Hash(es[i].key)])
  BY <1>9, <1>12, <1>16
<1>21. IsTable(T, es, z)
  BY <1>10, <1>11, <1>18, <1>19, <1>20 DEF IsTable
<1> QED BY <1>21 DEF T

(* keep_table lets the key of every entry through. *)
LEMMA KeptKeys ==
  ASSUME NEW es \in Seq(Added), Sorted(es), NEW table, NEW c, IsTable(table, es, c),
         NEW i \in 1 .. Len(es)
  PROVE  KeepTable(table, es[i].key)
<1> DEFINE n == Len(es)
           key == es[i].key
           hashes == [j \in 1 .. n |-> Hash(es[j].key)]
<1>1. /\ table.first_key = es[1].key /\ table.last_key = es[n].key
      /\ table.bloom = BuildFilter(hashes)
  BY DEF IsTable
<1>2. /\ n \in Nat /\ 1 \in 1 .. n /\ n \in 1 .. n /\ DOMAIN es = 1 .. n
      /\ (1 < i \/ i = 1) /\ (i < n \/ i = n)
  OBVIOUS
<1>3. key \in Seq(Nat) /\ es[1].key \in Seq(Nat) /\ es[n].key \in Seq(Nat)
  BY <1>2, AddedKey
<1>4. ASSUME NEW k \in Seq(Nat) PROVE ~KeyLess(k, k)
  BY KeyAsymmetric
<1>5. ~KeyLess(key, es[1].key)
  <2>1. 1 < i => KeyLess(es[1].key, key)
    BY <1>2 DEF Sorted
  <2> HIDE DEF n
  <2>2. CASE i = 1
    BY <1>3, <1>4, <2>2
  <2>3. CASE 1 < i
    BY <1>3, <2>1, <2>3, KeyAsymmetric
  <2> QED BY <1>2, <2>2, <2>3
<1>6. ~KeyLess(es[n].key, key)
  <2>1. i < n => KeyLess(key, es[n].key)
    BY <1>2 DEF Sorted
  <2> HIDE DEF n
  <2>2. CASE i = n
    BY <1>3, <1>4, <2>2
  <2>3. CASE i < n
    BY <1>3, <2>1, <2>3, KeyAsymmetric
  <2> QED BY <1>2, <2>2, <2>3
<1>7. MayContain(table.bloom, Hash(key))
  <2>1. Hash(key) \in ToSet(hashes)
    BY <1>2 DEF ToSet
  <2> HIDE DEF hashes
  <2> QED BY <1>1, <2>1 DEF MayContain, BuildFilter
<1> QED BY <1>1, <1>5, <1>6, <1>7 DEF KeepTable

(* The tables are what was built of their entries. *)
TablesBuilt ==
  /\ DOMAIN entries = DOMAIN tables
  /\ \A id \in DOMAIN tables :
       /\ entries[id] \in Seq(Added) /\ entries[id] # <<>> /\ Sorted(entries[id])
       /\ \E c : IsTable(tables[id], entries[id], c)

(* Nothing changes them. *)
LEMMA TablesStay == Init => TablesBuilt
<1> SUFFICES ASSUME Init PROVE TablesBuilt
  OBVIOUS
<1>1. PICK s \in Scenarios : /\ entries = s.entries
                             /\ tables = [id \in DOMAIN s.entries |-> Build(s.entries[id])]
  BY DEF Init
<1>2. ASSUME NEW id \in DOMAIN s.entries
      PROVE  /\ s.entries[id] \in Seq(Added) /\ s.entries[id] # <<>> /\ Sorted(s.entries[id])
             /\ \E c : IsTable(Build(s.entries[id]), s.entries[id], c)
  <2>1. PICK es : es = s.entries[id]
    OBVIOUS
  <2>2. /\ es # <<>> /\ es \in Seq(Added) /\ Sorted(es)
        /\ \A b \in ToSet(Build(es).data) : b.at < FieldLimit * FieldLimit
    BY <2>1, ScenariosAssumption DEF Added, Sorted
  <2>3. \E c : IsTable(Build(es), es, c)
    BY <2>2, BuildIs
  <2> QED BY <2>1, <2>2, <2>3
<1> QED BY <1>1, <1>2 DEF TablesBuilt

(* Reading changes neither the tables nor the history of what they hold. *)
LEMMA ReadersOnlyRead == [Next]_readVars => UNCHANGED <<entries, tables>>
BY DEF Next, Create, GetHit, GetMiss, Load, Insert, ReadNext, Done, readVars

(* get() never skips a table that holds its key: whatever is added to a    *)
(* table, in whatever blocks it ends up, the range of keys that open() has *)
(* decoded and the Bloom filter keep the table for each of its keys, for   *)
(* any hash function and any size of blocks.                               *)
THEOREM FilterKeepsKeysCorrect == Spec => []FilterKeepsKeys
<1>1. TablesBuilt /\ [Next]_readVars => TablesBuilt'
  <2> SUFFICES ASSUME TablesBuilt, UNCHANGED <<entries, tables>> PROVE TablesBuilt'
    BY ReadersOnlyRead
  <2> QED BY DEF TablesBuilt
<1>2. TablesBuilt => FilterKeepsKeys
  <2> SUFFICES ASSUME TablesBuilt, NEW id \in DOMAIN tables, NEW e \in ToSet(entries[id])
               PROVE  KeepTable(tables[id], e.key)
    BY DEF FilterKeepsKeys
  <2>1. PICK es : es = entries[id]
    OBVIOUS
  <2>2. es \in Seq(Added) /\ Sorted(es)
    BY <2>1 DEF TablesBuilt
  <2>3. PICK c : IsTable(tables[id], es, c)
    BY <2>1 DEF TablesBuilt
  <2>4. PICK i \in 1 .. Len(es) : e = es[i]
    BY <2>1, <2>2 DEF ToSet
  <2> QED BY <2>2, <2>3, <2>4, KeptKeys
<1> QED BY <1>1, <1>2, TablesStay, PTL DEF Spec

-----------------------------------------------------------------------------
(* The readers *)

(* A block that starts beyond the target starts no earlier than the search *)
(* ends, and any other block no later.                                     *)
LEMMA BlockStarts ==
  ASSUME NEW es \in Seq(Added), Sorted(es), NEW target \in Seq(Nat), NEW s \in Nat,
         Before(es, target, s), NEW p \in 1 .. Len(es)
  PROVE  /\ KeyLess(target, es[p].key) => s < p
         /\ ~KeyLess(target, es[p].key) => p <= s + 1
<1>1. es[p].key \in Seq(Nat) /\ p \in Nat /\ Len(es) \in Nat /\ DOMAIN es = 1 .. Len(es)
  BY AddedKey
<1>2. KeyLess(es[p].key, target) <=> p <= s
  BY DEF Before
<1>3. KeyLess(target, es[p].key) => s < p
  <2>1. KeyLess(target, es[p].key) => ~KeyLess(es[p].key, target)
    BY <1>1, KeyAsymmetric
  <2> QED BY <1>1, <1>2, <2>1
<1>4. ASSUME ~KeyLess(target, es[p].key), ~(p <= s + 1) PROVE FALSE
  <2>1. ~(p <= s) /\ s + 1 < p /\ s + 1 \in 1 .. Len(es)
    BY <1>1, <1>4
  <2>2. es[p].key = target
    BY <1>1, <1>2, <1>4, <2>1, KeyTotal
  <2>3. KeyLess(es[s + 1].key, target)
    BY <1>1, <2>1, <2>2 DEF Sorted
  <2>4. s + 1 <= s
    BY <2>1, <2>3 DEF Before
  <2> QED BY <2>4
<1> QED BY <1>3, <1>4

(* find_block_idx gives the block in which the target's place is, or after *)
(* which it is.                                                            *)
LEMMA FindsBlock ==
  ASSUME NEW es \in Seq(Added), Sorted(es), NEW T, NEW c, IsTable(T, es, c),
         NEW target \in Seq(Nat), NEW s \in 0 .. Len(es), Before(es, target, s)
  PROVE  LET q == FindBlockIdx(T, target)
         IN  /\ q \in 0 .. NumBlocks(T) - 1
             /\ c[q] <= s /\ s <= c[q + 1]
<1> DEFINE B == NumBlocks(T)
           q == FindBlockIdx(T, target)
           beyond == {i \in 1 .. B : KeyLess(target, T.block_meta[i].first_key)}
           upper == IF beyond = {} THEN B ELSE Min(beyond) - 1
<1>1. /\ B \in Nat \ {0} /\ DOMAIN T.block_meta = 1 .. B
      /\ c \in [0 .. B -> 0 .. Len(es)] /\ c[0] = 0 /\ c[B] = Len(es)
      /\ \A i, j \in 0 .. B : i < j => c[i] < c[j]
      /\ \A i \in 1 .. B : T.block_meta[i].first_key = es[c[i - 1] + 1].key
  BY DEF IsTable, NumBlocks
<1>2. s \in Nat /\ Len(es) \in Nat /\ s <= Len(es)
  OBVIOUS
<1>3. q = IF upper > 0 THEN upper - 1 ELSE 0
  BY <1>1 DEF FindBlockIdx, NumBlocks
<1> HIDE DEF B, q
<1>4. ASSUME NEW i \in 1 .. B
      PROVE  /\ c[i - 1] \in Nat /\ c[i] \in Nat /\ c[i - 1] < c[i]
             /\ i \in beyond => s <= c[i - 1]
             /\ i \notin beyond => c[i - 1] <= s
  <2>1. i \in 0 .. B /\ i - 1 \in 0 .. B /\ i - 1 < i
    BY <1>1
  <2>2. c[i - 1] \in 0 .. Len(es) /\ c[i] \in 0 .. Len(es) /\ c[i - 1] < c[i]
    BY <1>1, <2>1
  <2>3. PICK a \in Nat : a = c[i - 1]
    BY <2>2
  <2>4. a + 1 \in 1 .. Len(es)
    BY <1>2, <2>2, <2>3
  <2>5. i \in beyond <=> KeyLess(target, es[a + 1].key)
    BY <1>1, <2>3
  <2>6. /\ KeyLess(target, es[a + 1].key) => s < a + 1
        /\ ~KeyLess(target, es[a + 1].key) => a + 1 <= s + 1
    BY <1>2, <2>4, BlockStarts
  <2> HIDE DEF beyond
  <2>7. (i \in beyond => s <= a) /\ (i \notin beyond => a <= s)
    BY <1>2, <2>5, <2>6
  <2> QED BY <2>2, <2>3, <2>7
<1>5. beyond \in SUBSET (1 .. B)
  OBVIOUS
<1>6. CASE beyond = {}
  <2>1. q = B - 1
    BY <1>1, <1>3, <1>6
  <2> HIDE DEF beyond
  <2>2. B \in 1 .. B /\ B - 1 + 1 = B /\ B - 1 \in 0 .. B - 1
    BY <1>1
  <2>3. c[B - 1] <= s
    BY <1>4, <1>6, <2>2
  <2> QED BY <1>1, <1>2, <2>1, <2>2, <2>3 DEF q, B
<1>7. CASE beyond # {}
  <2> DEFINE m == Min(beyond)
  <2>1. m \in beyond /\ \A j \in beyond : m <= j
    <3>1. beyond \in SUBSET Nat
      BY <1>1, <1>5
    <3> HIDE DEF beyond
    <3>2. PICK f \in beyond : \A j \in beyond : f <= j
      BY <1>7, <3>1, LeastOf
    <3> QED BY <3>2 DEF Min
  <2>2. m \in 1 .. B /\ upper = m - 1
    BY <1>5, <1>7, <2>1
  <2> HIDE DEF beyond, m, upper
  <2>3. m \in Nat /\ m >= 1 /\ m <= B
    BY <1>1, <2>2
  <2>4. s <= c[m - 1]
    BY <1>4, <2>1, <2>2
  <2>5. CASE m = 1
    <3>1. q = 0 /\ 1 - 1 = 0 /\ 0 + 1 = 1 /\ 0 \in 0 .. B - 1
      BY <1>1, <1>3, <2>2, <2>5
    <3>2. c[1] \in Nat /\ s <= 0
      BY <1>1, <1>4, <2>2, <2>4, <2>5, <3>1
    <3>3. 0 <= s /\ s <= c[1]
      BY <1>2, <3>2
    <3> QED BY <1>1, <3>1, <3>3 DEF q, B
  <2>6. CASE m # 1
    <3>1. q = m - 2 /\ m - 2 \in 0 .. B - 1 /\ m - 2 + 1 = m - 1 /\ m - 1 - 1 = m - 2
      BY <1>1, <1>3, <2>2, <2>3, <2>6
    <3>2. m - 1 \in 1 .. B /\ ~(m <= m - 1)
      BY <1>1, <2>3, <2>6
    <3>3. m - 1 \notin beyond
      BY <2>1, <3>2
    <3>4. c[m - 2] <= s
      BY <1>4, <3>1, <3>2, <3>3
    <3> QED BY <2>4, <3>1, <3>4 DEF q, B
  <2> QED BY <2>5, <2>6
<1> QED BY <1>6, <1>7

(* A part of a list, and that it grows at its end. *)
LEMMA PartIs ==
  ASSUME NEW es \in Seq(Added), NEW s \in Nat, NEW p \in Nat, s <= p, p <= Len(es)
  PROVE  /\ SubSeq(es, s + 1, p) \in Seq(Added) /\ Len(SubSeq(es, s + 1, p)) = p - s
         /\ \A j \in 1 .. p - s : SubSeq(es, s + 1, p)[j] = es[s + j]
         /\ p < Len(es) => Append(SubSeq(es, s + 1, p), es[p + 1]) = SubSeq(es, s + 1, p + 1)
<1>1. ASSUME NEW q \in Nat, s <= q, q <= Len(es)
      PROVE  /\ SubSeq(es, s + 1, q) \in Seq(Added) /\ Len(SubSeq(es, s + 1, q)) = q - s
             /\ \A j \in 1 .. q - s : SubSeq(es, s + 1, q)[j] = es[s + j]
  BY <1>1
<1>2. ASSUME p < Len(es)
      PROVE  Append(SubSeq(es, s + 1, p), es[p + 1]) = SubSeq(es, s + 1, p + 1)
  <2>1. PICK a \in Seq(Added) : a = SubSeq(es, s + 1, p)
    BY <1>1
  <2>2. PICK b \in Seq(Added) : b = SubSeq(es, s + 1, p + 1)
    <3>1. p + 1 \in Nat /\ s <= p + 1 /\ p + 1 <= Len(es)
      BY <1>2
    <3> QED BY <1>1, <3>1
  <2>3. PICK e \in Added : e = es[p + 1]
    BY <1>2
  <2>4. Len(a) = p - s /\ \A j \in 1 .. p - s : a[j] = es[s + j]
    BY <1>1, <2>1
  <2>5. Len(b) = p - s + 1 /\ \A j \in 1 .. p - s + 1 : b[j] = es[s + j]
    <3>1. p + 1 \in Nat /\ s <= p + 1 /\ p + 1 <= Len(es) /\ p + 1 - s = p - s + 1
      BY <1>2
    <3> QED BY <1>1, <2>2, <3>1
  <2>6. /\ Append(a, e) \in Seq(Added) /\ Len(Append(a, e)) = p - s + 1
        /\ \A j \in 1 .. p - s + 1 : Append(a, e)[j] = IF j = p - s + 1 THEN e ELSE a[j]
    <3>1. /\ Append(a, e) \in Seq(Added) /\ Len(Append(a, e)) = Len(a) + 1
          /\ \A j \in 1 .. Len(a) + 1 : Append(a, e)[j] = IF j = Len(a) + 1 THEN e ELSE a[j]
      OBVIOUS
    <3> QED BY <2>4, <3>1
  <2>7. \A j \in 1 .. p - s + 1 : Append(a, e)[j] = b[j]
    <3> SUFFICES ASSUME NEW j \in 1 .. p - s + 1 PROVE Append(a, e)[j] = b[j]
      OBVIOUS
    <3>1. CASE j = p - s + 1
      <4>1. s + j = p + 1
        BY <3>1
      <4> QED BY <2>3, <2>5, <2>6, <3>1, <4>1
    <3>2. CASE j # p - s + 1
      <4>1. j \in 1 .. p - s
        BY <3>2
      <4> QED BY <2>4, <2>5, <2>6, <3>2, <4>1
    <3> QED BY <3>1, <3>2
  <2>8. ASSUME NEW l \in Seq(Added), Len(l) = p - s + 1
        PROVE  l = [j \in 1 .. p - s + 1 |-> l[j]]
    BY <2>8
  <2>9. /\ Append(a, e) = [j \in 1 .. p - s + 1 |-> Append(a, e)[j]]
        /\ b = [j \in 1 .. p - s + 1 |-> b[j]]
    BY <2>5, <2>6, <2>8
  <2>10. Append(a, e) = b
    BY <2>7, <2>9
  <2> QED BY <2>1, <2>2, <2>3, <2>10
<1> QED BY <1>1, <1>2

(* Where an iterator stands that has read the entries after the first s,   *)
(* up to number p: the entry after them is the next one, and it starts the *)
(* block it waits for, or it is in it, or after it, when the key was not   *)
(* yet searched for.                                                       *)
ReaderAt(it, T, es, c, s, p) ==
  LET q == it.blk_idx IN
  /\ p \in Nat /\ s <= p /\ p <= Len(es) /\ it.read = SubSeq(es, s + 1, p)
  /\ it.pc # "end" => q \in 0 .. NumBlocks(T) - 1
  /\ it.pc \in {"get", "load", "insert"} =>
       \/ it.seek = <<>> /\ p = c[q]
       \/ it.seek = it.target /\ it.seek # <<>> /\ p = s /\ c[q] <= s /\ s <= c[q + 1]
  /\ it.pc = "at" => /\ it.block = ReadBlock(T, q) /\ it.idx \in Nat
                     /\ p = c[q] + it.idx /\ p < c[q + 1]
  /\ it.pc = "end" => p = Len(es)

(* Such an iterator reads its table from its target on. *)
Tracked(it, tb, en) ==
  /\ ReaderRecord(it) /\ it.pc \in {"get", "load", "insert", "at", "end"}
  /\ it.id \in DOMAIN tb /\ it.target \in KeySet \cup {<<>>}
  /\ \E c, s, p : /\ IsTable(tb[it.id], en[it.id], c) /\ s \in 0 .. Len(en[it.id])
                  /\ Before(en[it.id], it.target, s)
                  /\ ReaderAt(it, tb[it.id], en[it.id], c, s, p)

(* The block of a number, and where it begins and ends. *)
LEMMA BlockOf ==
  ASSUME NEW es \in Seq(Added), NEW T, NEW c, IsTable(T, es, c), NEW q \in 0 .. NumBlocks(T) - 1
  PROVE  /\ NumBlocks(T) \in Nat /\ q \in Nat /\ c[q] \in Nat /\ c[q + 1] \in Nat
         /\ c[q] < c[q + 1] /\ c[q + 1] <= Len(es)
         /\ Reads(ReadBlock(T, q), es, c[q], c[q + 1])
         /\ q + 1 < NumBlocks(T) \/ c[q + 1] = Len(es)
<1> DEFINE B == NumBlocks(T)
<1>1. /\ B \in Nat \ {0} /\ c \in [0 .. B -> 0 .. Len(es)] /\ c[B] = Len(es)
      /\ \A i, j \in 0 .. B : i < j => c[i] < c[j]
      /\ \A i \in 1 .. B : Reads(ReadBlock(T, i - 1), es, c[i - 1], c[i])
  BY DEF IsTable, NumBlocks
<1> HIDE DEF B
<1>2. q \in 0 .. B - 1
  BY DEF B
<1>3. /\ q \in Nat /\ q \in 0 .. B /\ q + 1 \in 0 .. B /\ q < q + 1 /\ q + 1 \in 1 .. B
      /\ q + 1 - 1 = q /\ (q + 1 < B \/ q + 1 = B)
  BY <1>1, <1>2
<1>4. Reads(ReadBlock(T, q), es, c[q], c[q + 1])
  BY <1>1, <1>3
<1>5. c[q] \in 0 .. Len(es) /\ c[q + 1] \in 0 .. Len(es) /\ c[q] < c[q + 1]
  BY <1>1, <1>3
<1>6. c[q] \in Nat /\ c[q + 1] \in Nat /\ c[q + 1] <= Len(es)
  BY <1>5
<1> QED BY <1>1, <1>3, <1>4, <1>5, <1>6 DEF B

(* An iterator of a table T whose block is there. *)
Arriving(it, T, es, c, s, p, block) ==
  /\ es \in Seq(Added) /\ Sorted(es) /\ IsTable(T, es, c)
  /\ ReaderRecord(it) /\ it.pc \in {"get", "insert"} /\ it.target \in KeySet \cup {<<>>}
  /\ s \in 0 .. Len(es) /\ Before(es, it.target, s) /\ ReaderAt(it, T, es, c, s, p)
  /\ block = ReadBlock(T, it.blk_idx)

(* Arriving in its block, an iterator stands at the next entry, or goes on *)
(* to the block that the next entry starts, or has read all.               *)
LEMMA ArriveTracks ==
  ASSUME NEW it, NEW es, NEW c, NEW s, NEW p, NEW block,
         Arriving(it, tables[it.id], es, c, s, p, block)
  PROVE  /\ ReaderAt(Arrive(it, block), tables[it.id], es, c, s, p)
         /\ Arrive(it, block).id = it.id /\ Arrive(it, block).target = it.target
<1>0. /\ es \in Seq(Added) /\ Sorted(es) /\ IsTable(tables[it.id], es, c)
      /\ ReaderRecord(it) /\ it.pc \in {"get", "insert"} /\ it.target \in KeySet \cup {<<>>}
      /\ s \in 0 .. Len(es) /\ Before(es, it.target, s) /\ ReaderAt(it, tables[it.id], es, c, s, p)
      /\ block = ReadBlock(tables[it.id], it.blk_idx)
  BY DEF Arriving
<1>1. PICK T : T = tables[it.id]
  OBVIOUS
<1>2. PICK q : q = it.blk_idx
  OBVIOUS
<1>3. PICK lo : lo = c[q]
  OBVIOUS
<1>4. PICK hi : hi = c[q + 1]
  OBVIOUS
<1>5. /\ p \in Nat /\ s <= p /\ p <= Len(es) /\ it.read = SubSeq(es, s + 1, p)
      /\ q \in 0 .. NumBlocks(T) - 1
      /\ \/ it.seek = <<>> /\ p = lo
         \/ it.seek = it.target /\ it.seek # <<>> /\ p = s /\ lo <= s /\ s <= hi
  BY <1>0, <1>1, <1>2, <1>3, <1>4 DEF ReaderAt
<1>6. /\ NumBlocks(T) \in Nat /\ q \in Nat /\ lo \in Nat /\ hi \in Nat
      /\ lo < hi /\ hi <= Len(es) /\ Reads(block, es, lo, hi)
      /\ q + 1 < NumBlocks(T) \/ hi = Len(es)
  <2>1. q \in 0 .. NumBlocks(T) - 1 /\ IsTable(T, es, c) /\ es \in Seq(Added)
    BY <1>0, <1>1, <1>5
  <2>2. block = ReadBlock(T, q)
    BY <1>0, <1>1, <1>2
  <2> QED BY ONLY <1>3, <1>4, <2>1, <2>2, BlockOf
<1>7. PICK idx : idx = IF it.seek = <<>> THEN 0 ELSE BlockSeek(block, it.seek)
  OBVIOUS
<1>8. idx = p - lo /\ lo <= p /\ p <= hi
  <2>1. CASE it.seek = <<>> /\ p = lo
    BY <1>6, <1>7, <2>1
  <2>2. CASE it.seek = it.target /\ it.seek # <<>> /\ p = s /\ lo <= s /\ s <= hi
    <3>1. it.target \in Seq(Nat)
      BY <1>0, <2>2, KeysFit
    <3>2. s \in Nat
      BY <1>0
    <3>3. BlockSeek(block, it.target) = s - lo
      BY <1>0, <1>6, <2>2, <3>1, <3>2, SeekFinds
    <3> QED BY <1>7, <2>2, <3>3
  <2> QED BY <1>5, <2>1, <2>2
<1>9. InBlock(block, idx) <=> p < hi
  <2>1. Len(block.offsets) = hi - lo
    BY <1>6 DEF Reads
  <2> QED BY <1>5, <1>6, <1>8, <2>1 DEF InBlock
<1>10. PICK x : x = Arrive(it, block)
  OBVIOUS
<1>11. /\ ReaderRecord(x) /\ x.read = it.read /\ x.id = it.id /\ x.target = it.target
       /\ \/ p < hi /\ x.pc = "at" /\ x.block = block /\ x.idx = idx /\ x.blk_idx = q
          \/ ~(p < hi) /\ q + 1 < NumBlocks(T) /\ x.pc = "get" /\ x.seek = <<>> /\ x.blk_idx = q + 1
          \/ ~(p < hi) /\ ~(q + 1 < NumBlocks(T)) /\ x.pc = "end"
  <2>1. x = IF p < hi THEN [it EXCEPT !.pc = "at", !.block = block, !.idx = idx]
            ELSE IF q + 1 < NumBlocks(T)
              THEN [it EXCEPT !.pc = "get", !.seek = <<>>, !.blk_idx = q + 1]
            ELSE [it EXCEPT !.pc = "end", !.blk_idx = q + 1]
    BY <1>1, <1>2, <1>7, <1>9, <1>10 DEF Arrive
  <2>2. CASE p < hi
    BY ONLY <1>0, <1>2, <2>1, <2>2 DEF ReaderRecord
  <2>3. CASE ~(p < hi) /\ q + 1 < NumBlocks(T)
    BY ONLY <1>0, <1>2, <2>1, <2>3 DEF ReaderRecord
  <2>4. CASE ~(p < hi) /\ ~(q + 1 < NumBlocks(T))
    BY ONLY <1>0, <1>2, <2>1, <2>4 DEF ReaderRecord
  <2> QED BY <2>2, <2>3, <2>4
<1>12. ReaderAt(x, T, es, c, s, p)
  <2>1. CASE p < hi /\ x.pc = "at" /\ x.block = block /\ x.idx = idx /\ x.blk_idx = q
    <3>1. idx \in Nat /\ p = lo + idx
      BY <1>5, <1>6, <1>8
    <3> QED BY <1>0, <1>1, <1>2, <1>3, <1>4, <1>5, <1>11, <2>1, <3>1 DEF ReaderAt
  <2>2. CASE /\ ~(p < hi) /\ q + 1 < NumBlocks(T)
             /\ x.pc = "get" /\ x.seek = <<>> /\ x.blk_idx = q + 1
    <3>1. p = c[q + 1] /\ q + 1 \in 0 .. NumBlocks(T) - 1
      <4>1. p = hi
        BY ONLY <1>5, <1>6, <1>8, <2>2
      <4>2. q + 1 \in 0 .. NumBlocks(T) - 1
        BY ONLY <1>6, <2>2
      <4> QED BY <1>4, <4>1, <4>2
    <3> QED BY <1>5, <1>11, <2>2, <3>1 DEF ReaderAt
  <2>3. CASE ~(p < hi) /\ ~(q + 1 < NumBlocks(T)) /\ x.pc = "end"
    <3>1. p = Len(es)
      BY <1>5, <1>6, <1>8, <2>3
    <3> QED BY <1>5, <1>11, <2>3, <3>1 DEF ReaderAt
  <2> QED BY <1>11, <2>1, <2>2, <2>3
<1> QED BY <1>1, <1>10, <1>11, <1>12

(* The iterator with the entry that its caller takes, and after next(). *)
Taking(it) == [it EXCEPT !.read = Append(@, [key |-> KeyAt(it.block, it.idx),
                                             value |-> ValueAt(it.block, it.idx)])]

Moving(it, T) ==
  IF InBlock(it.block, it.idx + 1) THEN [Taking(it) EXCEPT !.idx = @ + 1]
  ELSE IF it.blk_idx + 1 < NumBlocks(T)
    THEN [Taking(it) EXCEPT !.pc = "get", !.seek = <<>>, !.blk_idx = @ + 1]
  ELSE [Taking(it) EXCEPT !.pc = "end", !.blk_idx = @ + 1]

(* What the caller takes is the next entry, and next() moves on by one. *)
LEMMA NextTracks ==
  ASSUME NEW es \in Seq(Added), NEW it, NEW T, NEW c, IsTable(T, es, c),
         ReaderRecord(it), it.pc = "at", NEW s \in 0 .. Len(es), NEW p,
         ReaderAt(it, T, es, c, s, p), NEW x, x = Moving(it, T)
  PROVE  /\ ReaderRecord(x) /\ x.pc \in {"at", "get", "end"} /\ x.id = it.id
         /\ x.target = it.target /\ ReaderAt(x, T, es, c, s, p + 1)
<1>1. PICK q : q = it.blk_idx
  OBVIOUS
<1>2. PICK lo : lo = c[q]
  OBVIOUS
<1>3. PICK hi : hi = c[q + 1]
  OBVIOUS
<1>4. PICK block : block = it.block
  OBVIOUS
<1>5. PICK idx : idx = it.idx
  OBVIOUS
<1>6. /\ p \in Nat /\ s <= p /\ p <= Len(es) /\ it.read = SubSeq(es, s + 1, p)
      /\ q \in 0 .. NumBlocks(T) - 1 /\ block = ReadBlock(T, q)
      /\ idx \in Nat /\ p = lo + idx /\ p < hi
  BY <1>1, <1>2, <1>3, <1>4, <1>5 DEF ReaderAt
<1>7. /\ NumBlocks(T) \in Nat /\ q \in Nat /\ lo \in Nat /\ hi \in Nat
      /\ lo < hi /\ hi <= Len(es) /\ Reads(block, es, lo, hi)
      /\ q + 1 < NumBlocks(T) \/ hi = Len(es)
  <2>1. q \in 0 .. NumBlocks(T) - 1 /\ IsTable(T, es, c) /\ es \in Seq(Added)
    BY <1>6
  <2> QED BY ONLY <1>2, <1>3, <1>6, <2>1, BlockOf
<1>8. [key |-> KeyAt(block, idx), value |-> ValueAt(block, idx)] = es[p + 1]
  <2>1. idx \in 0 .. hi - lo - 1 /\ lo + idx + 1 = p + 1 /\ p + 1 \in 1 .. Len(es)
    BY <1>6, <1>7
  <2>2. KeyAt(block, idx) = es[p + 1].key /\ ValueAt(block, idx) = es[p + 1].value
    BY <1>7, <2>1 DEF Reads
  <2>3. es[p + 1] \in Added
    BY <2>1
  <2> QED BY <2>2, <2>3 DEF Added
<1>9. p + 1 \in Nat /\ s <= p + 1 /\ p + 1 <= Len(es) /\ s \in Nat /\ p < Len(es)
  BY <1>6, <1>7
<1>10. Append(it.read, es[p + 1]) = SubSeq(es, s + 1, p + 1)
  <2>1. p \in Nat /\ s <= p /\ p <= Len(es)
    BY <1>6
  <2>2. Append(SubSeq(es, s + 1, p), es[p + 1]) = SubSeq(es, s + 1, p + 1)
    BY ONLY <1>9, <2>1, es \in Seq(Added), PartIs
  <2> QED BY <1>6, <2>2
<1>11. InBlock(block, idx + 1) <=> p + 1 < hi
  <2>1. Len(block.offsets) = hi - lo
    BY <1>7 DEF Reads
  <2> QED BY <1>6, <1>7, <2>1 DEF InBlock
<1>12. PICK read : read = SubSeq(es, s + 1, p + 1)
  OBVIOUS
<1> DEFINE seen == Taking(it)
<1>13. seen = [it EXCEPT !.read = read]
  BY <1>4, <1>5, <1>8, <1>10, <1>12 DEF Taking
<1> HIDE DEF seen
<1>14. /\ ReaderRecord(seen) /\ seen.pc = "at" /\ seen.id = it.id /\ seen.target = it.target
       /\ seen.read = read /\ seen.blk_idx = q /\ seen.block = block /\ seen.idx = idx
  BY ONLY <1>1, <1>4, <1>5, <1>13, ReaderRecord(it), it.pc = "at" DEF ReaderRecord
<1>15. x = IF p + 1 < hi THEN [seen EXCEPT !.idx = idx + 1]
           ELSE IF q + 1 < NumBlocks(T)
             THEN [seen EXCEPT !.pc = "get", !.seek = <<>>, !.blk_idx = q + 1]
           ELSE [seen EXCEPT !.pc = "end", !.blk_idx = q + 1]
  BY <1>1, <1>4, <1>5, <1>11, <1>14 DEF Moving, seen
<1>16. /\ ReaderRecord(x) /\ x.read = read /\ x.id = it.id /\ x.target = it.target
       /\ \/ p + 1 < hi /\ x.pc = "at" /\ x.block = block /\ x.idx = idx + 1 /\ x.blk_idx = q
          \/ /\ ~(p + 1 < hi) /\ q + 1 < NumBlocks(T)
             /\ x.pc = "get" /\ x.seek = <<>> /\ x.blk_idx = q + 1
          \/ ~(p + 1 < hi) /\ ~(q + 1 < NumBlocks(T)) /\ x.pc = "end"
  <2>1. CASE p + 1 < hi
    BY ONLY <1>14, <1>15, <2>1 DEF ReaderRecord
  <2>2. CASE ~(p + 1 < hi) /\ q + 1 < NumBlocks(T)
    BY ONLY <1>14, <1>15, <2>2 DEF ReaderRecord
  <2>3. CASE ~(p + 1 < hi) /\ ~(q + 1 < NumBlocks(T))
    BY ONLY <1>14, <1>15, <2>3 DEF ReaderRecord
  <2> QED BY <2>1, <2>2, <2>3
<1>17. ReaderAt(x, T, es, c, s, p + 1)
  <2>1. CASE p + 1 < hi /\ x.pc = "at" /\ x.block = block /\ x.idx = idx + 1 /\ x.blk_idx = q
    <3>1. idx + 1 \in Nat /\ p + 1 = lo + (idx + 1)
      BY <1>6, <1>7
    <3> QED BY <1>2, <1>3, <1>6, <1>9, <1>12, <1>16, <2>1, <3>1 DEF ReaderAt
  <2>2. CASE /\ ~(p + 1 < hi) /\ q + 1 < NumBlocks(T)
             /\ x.pc = "get" /\ x.seek = <<>> /\ x.blk_idx = q + 1
    <3>1. p + 1 = c[q + 1] /\ q + 1 \in 0 .. NumBlocks(T) - 1
      <4>1. p + 1 = hi
        <5>1. p \in Nat /\ hi \in Nat /\ p < hi
          BY <1>6, <1>7
        <5> QED BY ONLY <2>2, <5>1
      <4>2. q + 1 \in 0 .. NumBlocks(T) - 1
        BY ONLY <1>7, <2>2
      <4> QED BY <1>3, <4>1, <4>2
    <3> QED BY <1>9, <1>12, <1>16, <2>2, <3>1 DEF ReaderAt
  <2>3. CASE ~(p + 1 < hi) /\ ~(q + 1 < NumBlocks(T)) /\ x.pc = "end"
    <3>1. p + 1 = Len(es)
      BY <1>6, <1>7, <2>3
    <3> QED BY <1>9, <1>12, <1>16, <2>3, <3>1 DEF ReaderAt
  <2> QED BY <1>16, <2>1, <2>2, <2>3
<1> QED BY <1>16, <1>17

(* What an iterator that is tracked has read, and when it has read all. *)
LEMMA TrackedExact ==
  ASSUME TablesBuilt, NEW it, Tracked(it, tables, entries)
  PROVE  LET expected == From(entries[it.id], it.target)
         IN  /\ IsPrefix(it.read, expected)
             /\ it.pc = "at" => Len(it.read) < Len(expected)
             /\ it.pc = "end" => it.read = expected
<1>1. PICK es : es = entries[it.id]
  OBVIOUS
<1>2. PICK T : T = tables[it.id]
  OBVIOUS
<1>3. es \in Seq(Added) /\ Sorted(es)
  BY <1>1 DEF TablesBuilt, Tracked
<1>4. it.target \in Seq(Nat)
  <2>1. it.target \in KeySet \/ it.target = <<>>
    BY DEF Tracked
  <2>2. <<>> \in Seq(Nat)
    OBVIOUS
  <2> QED BY <2>1, <2>2, KeysFit
<1>5. PICK c, s, p : /\ IsTable(T, es, c) /\ s \in 0 .. Len(es) /\ Before(es, it.target, s)
                     /\ ReaderAt(it, T, es, c, s, p)
  BY <1>1, <1>2 DEF Tracked
<1>6. PICK n \in Nat : n = Len(es)
  BY <1>3
<1>7. From(es, it.target) = SubSeq(es, s + 1, n)
  <2>1. PICK t \in 0 .. Len(es) : /\ Before(es, it.target, t)
                                  /\ From(es, it.target) = SubSeq(es, t + 1, Len(es))
    BY <1>3, <1>4, StartOf
  <2>2. t = s
    BY <1>3, <1>5, <2>1, StartUnique
  <2> QED BY <1>6, <2>1, <2>2
<1>8. /\ p \in Nat /\ s \in Nat /\ s <= p /\ p <= n /\ s <= n /\ it.read = SubSeq(es, s + 1, p)
      /\ it.pc = "end" => p = n
  BY <1>5, <1>6 DEF ReaderAt
<1>9. it.pc = "at" => p < n
  <2> SUFFICES ASSUME it.pc = "at" PROVE p < n
    OBVIOUS
  <2>1. PICK q : q = it.blk_idx
    OBVIOUS
  <2>2. q \in 0 .. NumBlocks(T) - 1 /\ p < c[q + 1]
    BY <1>5, <2>1 DEF ReaderAt
  <2>3. c[q + 1] \in Nat /\ c[q + 1] <= n
    BY <1>3, <1>5, <1>6, <2>2, BlockOf
  <2> QED BY <1>8, <2>2, <2>3
<1>10. PICK a : a = SubSeq(es, s + 1, p)
  OBVIOUS
<1>11. PICK b : b = SubSeq(es, s + 1, n)
  OBVIOUS
<1>12. a \in Seq(Added) /\ Len(a) = p - s /\ \A j \in 1 .. p - s : a[j] = es[s + j]
  BY ONLY <1>3, <1>6, <1>8, <1>10, PartIs
<1>13. b \in Seq(Added) /\ Len(b) = n - s /\ \A j \in 1 .. n - s : b[j] = es[s + j]
  BY ONLY <1>3, <1>6, <1>8, <1>11, PartIs
<1>14. IsPrefix(a, b)
  <2>1. Len(a) <= Len(b) /\ Len(a) \in 0 .. Len(a) /\ Len(a) \in 0 .. Len(b)
    BY <1>6, <1>8, <1>12, <1>13
  <2>2. \A j \in 1 .. Len(a) : a[j] = b[j]
    BY <1>6, <1>8, <1>12, <1>13
  <2>3. SubSeq(a, 1, Len(a)) = [j \in 1 .. Len(a) |-> a[j]]
    BY <1>12, <2>1, PrefixIs
  <2>4. SubSeq(b, 1, Len(a)) = [j \in 1 .. Len(a) |-> b[j]]
    BY <1>13, <2>1, PrefixIs
  <2> QED BY <2>1, <2>2, <2>3, <2>4 DEF IsPrefix
<1>15. it.pc = "at" => Len(a) < Len(b)
  BY <1>6, <1>8, <1>9, <1>12, <1>13
<1>16. it.pc = "end" => a = b
  BY <1>8, <1>10, <1>11
<1> QED BY <1>1, <1>7, <1>8, <1>10, <1>11, <1>14, <1>15, <1>16

(* Every iterator in the middle of its calls is tracked. *)
ReadsInv ==
  /\ TablesBuilt /\ BlocksInv
  /\ \A r \in Readers : reader[r].pc \notin {"idle", "done"} =>
       Tracked(reader[r], tables, entries)

(* A reader moves, and is still tracked. *)
LEMMA ReaderTracked ==
  ASSUME ReadsInv, NEW r \in Readers, NEW it, reader' = [reader EXCEPT ![r] = it],
         it.pc \notin {"idle", "done"} => Tracked(it, tables, entries),
         UNCHANGED <<entries, tables>>, BlocksInv'
  PROVE  ReadsInv'
<1>1. \A t \in Readers : reader'[t] = IF t = r THEN it ELSE reader[t]
  BY DEF ReadsInv, BlocksInv
<1>2. TablesBuilt'
  BY DEF ReadsInv, TablesBuilt
<1>3. \A t \in Readers : reader'[t].pc \notin {"idle", "done"} =>
        Tracked(reader'[t], tables, entries)
  BY <1>1 DEF ReadsInv
<1> QED BY <1>2, <1>3 DEF ReadsInv

(* It arrives in a block of its table, out of the cache or out of the file. *)
LEMMA ArrivalTracked ==
  ASSUME TablesBuilt, NEW it, Tracked(it, tables, entries), it.pc \in {"get", "insert"},
         NEW block, block = ReadBlock(tables[it.id], it.blk_idx)
  PROVE  Tracked(Arrive(it, block), tables, entries)
<1>1. PICK es : es = entries[it.id]
  OBVIOUS
<1>2. /\ es \in Seq(Added) /\ Sorted(es) /\ ReaderRecord(it)
      /\ it.id \in DOMAIN tables /\ it.target \in KeySet \cup {<<>>}
  BY <1>1 DEF TablesBuilt, Tracked
<1>3. PICK c, s, p : /\ IsTable(tables[it.id], es, c) /\ s \in 0 .. Len(es)
                     /\ Before(es, it.target, s) /\ ReaderAt(it, tables[it.id], es, c, s, p)
  BY <1>1 DEF Tracked
<1>4. PICK x : x = Arrive(it, block)
  OBVIOUS
<1>5. ReaderAt(x, tables[it.id], es, c, s, p) /\ x.id = it.id /\ x.target = it.target
  <2>1. Arriving(it, tables[it.id], es, c, s, p, block)
    BY <1>2, <1>3 DEF Arriving
  <2> QED BY ONLY <1>4, <2>1, ArriveTracks
<1>6. ReaderRecord(x) /\ x.pc \in {"at", "get", "end"}
  BY <1>2, <1>4, ArriveIs
<1>7. Tracked(x, tables, entries)
  BY <1>1, <1>2, <1>3, <1>5, <1>6 DEF Tracked
<1> QED BY <1>4, <1>7

(* Only its program counter and its block change. *)
LEMMA WaitsTracked ==
  ASSUME NEW tb, NEW en, NEW it, Tracked(it, tb, en), it.pc \in {"get", "load"},
         NEW x, ReaderRecord(x), x.pc \in {"load", "insert"}, x.id = it.id,
         x.target = it.target, x.seek = it.seek, x.blk_idx = it.blk_idx, x.read = it.read
  PROVE  Tracked(x, tb, en)
<1>1. PICK es : es = en[it.id]
  OBVIOUS
<1>2. PICK T : T = tb[it.id]
  OBVIOUS
<1>3. PICK c, s, p : /\ IsTable(T, es, c) /\ s \in 0 .. Len(es) /\ Before(es, it.target, s)
                     /\ ReaderAt(it, T, es, c, s, p)
  BY <1>1, <1>2 DEF Tracked
<1>4. ReaderAt(x, T, es, c, s, p)
  BY <1>3 DEF ReaderAt
<1> QED BY <1>1, <1>2, <1>3, <1>4 DEF Tracked

(* A new iterator has read nothing and waits for the block to search in. *)
LEMMA CreateTracked ==
  ASSUME TablesBuilt, NEW id \in DOMAIN tables, NEW target \in KeySet \cup {<<>>}, NEW it,
         it = [pc |-> "get", id |-> id, target |-> target, seek |-> target,
               blk_idx |-> IF target = <<>> THEN 0 ELSE FindBlockIdx(tables[id], target),
               block |-> NoBlock, idx |-> 0, read |-> <<>>]
  PROVE  Tracked(it, tables, entries)
<1>1. PICK es : es = entries[id]
  OBVIOUS
<1>2. PICK T : T = tables[id]
  OBVIOUS
<1>3. es \in Seq(Added) /\ Sorted(es) /\ Len(es) \in Nat
  BY <1>1 DEF TablesBuilt
<1>4. PICK c : IsTable(T, es, c)
  BY <1>1, <1>2 DEF TablesBuilt
<1>5. PICK q : q = IF target = <<>> THEN 0 ELSE FindBlockIdx(T, target)
  OBVIOUS
<1>6. /\ ReaderRecord(it) /\ it.pc = "get" /\ it.id = id /\ it.target = target
      /\ it.seek = target /\ it.blk_idx = q /\ it.read = <<>>
  BY <1>2, <1>5 DEF ReaderRecord
<1>7. \E s \in 0 .. Len(es) : /\ Before(es, target, s) /\ q \in 0 .. NumBlocks(T) - 1
                              /\ \/ target = <<>> /\ s = c[q]
                                 \/ target # <<>> /\ c[q] <= s /\ s <= c[q + 1]
  <2>1. CASE target = <<>>
    <3>1. NumBlocks(T) \in Nat \ {0} /\ c[0] = 0
      BY <1>4 DEF IsTable, NumBlocks
    <3>2. 0 \in 0 .. NumBlocks(T) - 1 /\ 0 \in 0 .. Len(es)
      BY <1>3, <3>1
    <3>3. Before(es, target, 0)
      BY <1>3, <2>1, NothingBefore
    <3> QED BY <1>5, <2>1, <3>1, <3>2, <3>3
  <2>2. CASE target # <<>>
    <3>1. target \in Seq(Nat)
      BY <2>2, KeysFit
    <3>2. PICK s \in 0 .. Len(es) : Before(es, target, s)
      BY <1>3, <3>1, StartOf
    <3>3. q \in 0 .. NumBlocks(T) - 1 /\ c[q] <= s /\ s <= c[q + 1]
      BY <1>3, <1>4, <1>5, <2>2, <3>1, <3>2, FindsBlock
    <3> QED BY <2>2, <3>2, <3>3
  <2> QED BY <2>1, <2>2
<1>8. PICK s \in 0 .. Len(es) : /\ Before(es, target, s) /\ q \in 0 .. NumBlocks(T) - 1
                                /\ \/ target = <<>> /\ s = c[q]
                                   \/ target # <<>> /\ c[q] <= s /\ s <= c[q + 1]
  BY <1>7
<1>9. ReaderAt(it, T, es, c, s, s)
  <2>1. s \in Nat /\ s <= s /\ s <= Len(es)
    BY <1>3
  <2>2. SubSeq(es, s + 1, s) = <<>>
    <3>1. SubSeq(es, s + 1, s) \in Seq(Added) /\ Len(SubSeq(es, s + 1, s)) = s - s
      BY ONLY <1>3, <2>1, PartIs
    <3>2. s - s = 0
      BY <2>1
    <3>3. ASSUME NEW l \in Seq(Added), Len(l) = 0 PROVE l = <<>>
      BY <3>3
    <3> QED BY <3>1, <3>2, <3>3
  <2> QED BY <1>6, <1>8, <2>1, <2>2 DEF ReaderAt
<1> QED BY <1>1, <1>2, <1>4, <1>6, <1>8, <1>9 DEF Tracked

(* A reader that takes an entry is still tracked. *)
LEMMA MovingTracked ==
  ASSUME NEW tb, NEW en, NEW it, Tracked(it, tb, en), it.pc = "at", en[it.id] \in Seq(Added)
  PROVE  Tracked(Moving(it, tb[it.id]), tb, en)
<1>1. PICK es : es = en[it.id]
  OBVIOUS
<1>2. PICK T : T = tb[it.id]
  OBVIOUS
<1>3. PICK c, s, p : /\ IsTable(T, es, c) /\ s \in 0 .. Len(es) /\ Before(es, it.target, s)
                     /\ ReaderAt(it, T, es, c, s, p)
  BY <1>1, <1>2 DEF Tracked
<1>4. PICK x : x = Moving(it, T)
  OBVIOUS
<1>5. ReaderRecord(it) /\ es \in Seq(Added)
  BY <1>1 DEF Tracked
<1>6. /\ ReaderRecord(x) /\ x.pc \in {"at", "get", "end"} /\ x.id = it.id
      /\ x.target = it.target /\ ReaderAt(x, T, es, c, s, p + 1)
  BY <1>3, <1>4, <1>5, NextTracks
<1>7. Tracked(x, tb, en)
  BY <1>1, <1>2, <1>3, <1>6 DEF Tracked
<1> QED BY <1>2, <1>4, <1>7

(* Every step of the readers keeps every iterator tracked. *)
LEMMA ReadsStep == ReadsInv /\ [Next]_readVars => ReadsInv'
<1> SUFFICES ASSUME ReadsInv, [Next]_readVars PROVE ReadsInv'
  OBVIOUS
<1>1. BlocksInv /\ TablesBuilt /\ CacheInv /\ CachedBlocks
  BY DEF ReadsInv, BlocksInv
<1>2. UNCHANGED <<entries, tables>> /\ BlocksInv'
  BY <1>1, BlocksStep, ReadersOnlyRead
<1>3. ASSUME NEW r \in Readers, reader[r].pc \notin {"idle", "done"}
      PROVE  Tracked(reader[r], tables, entries) /\ ReaderRecord(reader[r])
  BY <1>3 DEF ReadsInv, Tracked
<1>4. ASSUME NEW r \in Readers, NEW id \in DOMAIN tables, NEW target \in KeySet \cup {<<>>},
             Create(r, id, target)
      PROVE  ReadsInv'
  <2>1. PICK it : it = [pc |-> "get", id |-> id, target |-> target, seek |-> target,
                        blk_idx |-> IF target = <<>> THEN 0 ELSE FindBlockIdx(tables[id], target),
                        block |-> NoBlock, idx |-> 0, read |-> <<>>]
    OBVIOUS
  <2>2. reader' = [reader EXCEPT ![r] = it]
    BY <1>4, <2>1 DEF Create
  <2>3. Tracked(it, tables, entries)
    BY <1>1, <2>1, CreateTracked
  <2> QED BY <1>2, <2>2, <2>3, ReaderTracked
<1>5. ASSUME NEW r \in Readers, GetHit(r) PROVE ReadsInv'
  <2>1. PICK block : block = list[PlaceOf(CacheKey(r))].block
    OBVIOUS
  <2>2. /\ reader[r].pc = "get" /\ CacheKey(r) \in map
        /\ reader' = [reader EXCEPT ![r] = Arrive(reader[r], block)]
    BY <1>5, <2>1 DEF GetHit, CacheHit
  <2>3. /\ PlaceOf(CacheKey(r)) \in DOMAIN list
        /\ list[PlaceOf(CacheKey(r))].key = CacheKey(r)
    <3>1. DOMAIN list = 1 .. Len(list)
      BY <1>1 DEF CacheInv, Lists
    <3> QED BY <1>1, <2>2, <3>1, PlaceOfKey
  <2>4. block = ReadBlock(tables[reader[r].id], reader[r].blk_idx)
    BY <1>1, <2>1, <2>3 DEF CachedBlocks, IsBlockOf, CacheKey
  <2>5. PICK it : it = Arrive(reader[r], block)
    OBVIOUS
  <2>6. Tracked(it, tables, entries)
    BY <1>1, <1>3, <2>2, <2>4, <2>5, ArrivalTracked
  <2> QED BY <1>2, <2>2, <2>5, <2>6, ReaderTracked
<1>6. ASSUME NEW r \in Readers, GetMiss(r) PROVE ReadsInv'
  <2>1. PICK it : it = [reader[r] EXCEPT !.pc = "load"]
    OBVIOUS
  <2>2. reader[r].pc = "get" /\ reader' = [reader EXCEPT ![r] = it]
    BY <1>6, <2>1 DEF GetMiss
  <2>3. Tracked(reader[r], tables, entries) /\ ReaderRecord(reader[r])
    BY <1>3, <2>2
  <2>4. /\ ReaderRecord(it) /\ it.pc = "load" /\ it.id = reader[r].id
        /\ it.target = reader[r].target /\ it.seek = reader[r].seek
        /\ it.blk_idx = reader[r].blk_idx /\ it.read = reader[r].read
    BY ONLY <2>1, <2>3 DEF ReaderRecord
  <2>5. Tracked(it, tables, entries)
    BY <2>2, <2>3, <2>4, WaitsTracked
  <2> QED BY <1>2, <2>2, <2>5, ReaderTracked
<1>7. ASSUME NEW r \in Readers, Load(r) PROVE ReadsInv'
  <2>1. PICK block : block = ReadBlock(tables[reader[r].id], reader[r].blk_idx)
    OBVIOUS
  <2>2. PICK it : it = [reader[r] EXCEPT !.pc = "insert", !.block = block]
    OBVIOUS
  <2>3. reader[r].pc = "load" /\ reader' = [reader EXCEPT ![r] = it]
    BY <1>1, <1>7, <2>1, <2>2 DEF Load, BlocksInv
  <2>4. Tracked(reader[r], tables, entries) /\ ReaderRecord(reader[r])
    BY <1>3, <2>3
  <2>5. /\ ReaderRecord(it) /\ it.pc = "insert" /\ it.id = reader[r].id
        /\ it.target = reader[r].target /\ it.seek = reader[r].seek
        /\ it.blk_idx = reader[r].blk_idx /\ it.read = reader[r].read
    BY ONLY <2>2, <2>4 DEF ReaderRecord
  <2>6. Tracked(it, tables, entries)
    BY <2>3, <2>4, <2>5, WaitsTracked
  <2> QED BY <1>2, <2>3, <2>6, ReaderTracked
<1>8. ASSUME NEW r \in Readers, Insert(r) PROVE ReadsInv'
  <2>1. PICK block : block = reader[r].block
    OBVIOUS
  <2>2. reader[r].pc = "insert" /\ reader' = [reader EXCEPT ![r] = Arrive(reader[r], block)]
    BY <1>8, <2>1 DEF Insert
  <2>3. block = ReadBlock(tables[reader[r].id], reader[r].blk_idx)
    BY <1>1, <2>1, <2>2 DEF BlocksInv, IsBlockOf, CacheKey
  <2>4. PICK it : it = Arrive(reader[r], block)
    OBVIOUS
  <2>5. Tracked(it, tables, entries)
    BY <1>1, <1>3, <2>2, <2>3, <2>4, ArrivalTracked
  <2> QED BY <1>2, <2>2, <2>4, <2>5, ReaderTracked
<1>9. ASSUME NEW r \in Readers, ReadNext(r) PROVE ReadsInv'
  <2>1. reader[r].pc = "at"
    BY <1>9 DEF ReadNext
  <2>2. PICK it : it = Moving(reader[r], tables[reader[r].id])
    OBVIOUS
  <2>3. reader' = [reader EXCEPT ![r] = it]
    BY <1>9, <2>2 DEF ReadNext, Moving, Taking
  <2>4. Tracked(reader[r], tables, entries)
    BY <1>3, <2>1
  <2>5. entries[reader[r].id] \in Seq(Added)
    BY <1>1, <2>4 DEF Tracked, TablesBuilt
  <2>6. Tracked(it, tables, entries)
    BY <2>1, <2>2, <2>4, <2>5, MovingTracked
  <2> QED BY <1>2, <2>3, <2>6, ReaderTracked
<1>10. ASSUME NEW r \in Readers, Done(r) PROVE ReadsInv'
  <2>1. PICK it : it = [pc |-> "done"]
    OBVIOUS
  <2>2. reader' = [reader EXCEPT ![r] = it] /\ it.pc = "done"
    BY <1>10, <2>1 DEF Done
  <2> QED BY <1>2, <2>2, ReaderTracked
<1>11. ASSUME UNCHANGED readVars PROVE ReadsInv'
  <2>1. UNCHANGED reader
    BY <1>11 DEF readVars
  <2> QED BY <1>2, <2>1 DEF ReadsInv, TablesBuilt
<1> QED BY <1>4, <1>5, <1>6, <1>7, <1>8, <1>9, <1>10, <1>11 DEF Next

(* An iterator yields the entries that were added to its table from its    *)
(* target on, every one, in order and as they were added, for any tables,  *)
(* any size of blocks, any capacity of the cache and any readers that      *)
(* share it.                                                               *)
THEOREM ReadsExactCorrect == Spec => []ReadsExact
<1>1. Init => ReadsInv
  <2> SUFFICES ASSUME Init PROVE ReadsInv
    OBVIOUS
  <2>1. \A r \in Readers : reader[r].pc \in {"idle", "done"}
    BY DEF Init, Idle
  <2> QED BY <2>1, TablesStay, BlocksStart DEF ReadsInv
<1>2. ReadsInv => ReadsExact
  <2> SUFFICES ASSUME ReadsInv, NEW r \in Readers, reader[r].pc \notin {"idle", "done"}
               PROVE  LET it       == reader[r]
                          expected == From(entries[it.id], it.target)
                      IN  /\ IsPrefix(it.read, expected)
                          /\ it.pc = "at" => Len(it.read) < Len(expected)
                          /\ it.pc = "end" => it.read = expected
    BY DEF ReadsExact
  <2>1. TablesBuilt /\ Tracked(reader[r], tables, entries)
    BY DEF ReadsInv
  <2> QED BY <2>1, TrackedExact
<1> QED BY <1>1, <1>2, ReadsStep, PTL DEF Spec
=============================================================================
