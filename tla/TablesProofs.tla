---------------------------- MODULE TablesProofs ----------------------------
(***************************************************************************)
(* Facts about tables, which the other proofs rest on: the lookup of a key *)
(* in a list of tables; the list with a part of it merged, or merged and   *)
(* cut; and the iterators.  Each kind of iterator has a canonical position *)
(* for every key that comes next (RunAt, MergeAt, PairAt, StackAt): its    *)
(* operations go from one such position to another, and the entry it shows *)
(* there is the one of the first table that holds the key.                 *)
(***************************************************************************)
EXTENDS Iterators, FiniteSetTheorems, WellFoundedInduction, TLAPS

(* Every non-empty set of indices has a least one. *)
LEMMA LeastIndex ==
  ASSUME NEW S \in SUBSET Nat, S # {}
  PROVE  \E i \in S : \A j \in S : i <= j
<1> DEFINE R == OpToRel(<, Nat)
<1>1. IsWellFoundedOn(R, Nat)
  BY NatLessThanWellFounded
<1>2. PICK i \in S : \A j \in S : ~(<<j, i>> \in R)
  <2> HIDE DEF R
  <2> QED BY <1>1, WFMin
<1>3. ASSUME NEW j \in S PROVE i <= j
  <2>1. i \in Nat /\ j \in Nat
    OBVIOUS
  <2>2. ~(<<j, i>> \in R)
    BY <1>2
  <2>3. <<j, i>> \in Nat \X Nat
    BY <2>1
  <2>4. ~(j < i)
    BY <2>2, <2>3 DEF OpToRel
  <2> QED BY <2>1, <2>4
<1> QED BY <1>3

(* A list of tables that hold nothing for the key gives nothing. *)
LEMMA FirstHitNone ==
  ASSUME NEW ts, NEW k, \A i \in DOMAIN ts : ts[i][k] = Absent
  PROVE  FirstHit(ts, k) = Absent
BY DEF FirstHit

(* The first table that holds the key decides. *)
LEMMA FirstHitAt ==
  ASSUME NEW ts, NEW k, DOMAIN ts \in SUBSET Nat, NEW i \in DOMAIN ts,
         ts[i][k] # Absent,
         \A j \in DOMAIN ts : j < i => ts[j][k] = Absent
  PROVE  FirstHit(ts, k) = ts[i][k]
<1> DEFINE hits == {j \in DOMAIN ts : ts[j][k] # Absent}
           least(x) == x \in hits /\ \A j \in hits : x <= j
<1>1. least(i)
  OBVIOUS
<1>2. ASSUME NEW x, least(x) PROVE x = i
  BY <1>1, <1>2
<1>3. (CHOOSE x \in hits : \A j \in hits : x <= j) = i
  BY <1>1, <1>2
<1> QED BY <1>1, <1>3 DEF FirstHit

(* Either no table of a list holds the key, or there is a first one. *)
LEMMA FirstHitCases ==
  ASSUME NEW ts, NEW k, DOMAIN ts \in SUBSET Nat
  PROVE  \/ \A i \in DOMAIN ts : ts[i][k] = Absent
         \/ \E i \in DOMAIN ts : /\ ts[i][k] # Absent
                                 /\ \A j \in DOMAIN ts : j < i => ts[j][k] = Absent
<1> DEFINE hits == {j \in DOMAIN ts : ts[j][k] # Absent}
<1>1. CASE hits = {}
  BY <1>1
<1>2. CASE hits # {}
  <2>1. PICK i \in hits : \A j \in hits : i <= j
    BY <1>2, LeastIndex
  <2>2. \A j \in DOMAIN ts : j < i => ts[j][k] = Absent
    BY <2>1
  <2> QED BY <2>1, <2>2
<1> QED BY <1>1, <1>2

(* A table put in front of a list shadows the rest of it. *)
LEMMA FirstHitCons ==
  ASSUME NEW n \in Nat, NEW k, NEW ts, NEW us,
         DOMAIN ts = 1 .. n, DOMAIN us = 1 .. n + 1,
         \A i \in 1 .. n : us[i + 1] = ts[i]
  PROVE  FirstHit(us, k) = OrElse(us[1][k], FirstHit(ts, k))
<1>1. DOMAIN us \in SUBSET Nat /\ DOMAIN ts \in SUBSET Nat /\ 1 \in DOMAIN us
  OBVIOUS
<1>2. CASE us[1][k] # Absent
  <2>1. \A j \in DOMAIN us : j < 1 => us[j][k] = Absent
    OBVIOUS
  <2>2. FirstHit(us, k) = us[1][k]
    BY <1>1, <1>2, <2>1, FirstHitAt
  <2> QED BY <1>2, <2>2 DEF OrElse
<1>3. CASE us[1][k] = Absent
  <2>1. CASE \A i \in DOMAIN ts : ts[i][k] = Absent
    <3>1. ASSUME NEW i \in DOMAIN us PROVE us[i][k] = Absent
      <4>1. CASE i = 1
        BY <1>3, <4>1
      <4>2. CASE i # 1
        <5>1. i - 1 \in 1 .. n /\ (i - 1) + 1 = i
          BY <4>2
        <5> QED BY <2>1, <5>1
      <4> QED BY <4>1, <4>2
    <3>2. FirstHit(us, k) = Absent
      BY <3>1, FirstHitNone
    <3>3. FirstHit(ts, k) = Absent
      BY <2>1, FirstHitNone
    <3> QED BY <1>3, <3>2, <3>3 DEF OrElse
  <2>2. ASSUME NEW i \in DOMAIN ts, ts[i][k] # Absent,
               \A j \in DOMAIN ts : j < i => ts[j][k] = Absent
        PROVE  FirstHit(us, k) = OrElse(us[1][k], FirstHit(ts, k))
    <3>1. FirstHit(ts, k) = ts[i][k]
      BY <1>1, <2>2, FirstHitAt
    <3>2. i + 1 \in DOMAIN us /\ us[i + 1] = ts[i]
      OBVIOUS
    <3>3. ASSUME NEW j \in DOMAIN us, j < i + 1 PROVE us[j][k] = Absent
      <4>1. CASE j = 1
        BY <1>3, <4>1
      <4>2. CASE j # 1
        <5>1. j - 1 \in 1 .. n /\ (j - 1) + 1 = j /\ j - 1 < i
          BY <3>3, <4>2
        <5> QED BY <2>2, <5>1
      <4> QED BY <4>1, <4>2
    <3>4. us[i + 1][k] # Absent
      BY <2>2, <3>2
    <3>5. FirstHit(us, k) = us[i + 1][k]
      BY <1>1, <3>2, <3>3, <3>4, FirstHitAt
    <3> QED BY <1>3, <3>1, <3>2, <3>5 DEF OrElse
  <2> QED BY <1>1, <2>1, <2>2, FirstHitCases
<1> QED BY <1>2, <1>3

(* A table put at the end of a list counts only if no other one does. *)
LEMMA FirstHitSnoc ==
  ASSUME NEW n \in Nat, NEW k, NEW ts, NEW us,
         DOMAIN ts = 1 .. n, DOMAIN us = 1 .. n + 1,
         \A i \in 1 .. n : us[i] = ts[i]
  PROVE  FirstHit(us, k) = OrElse(FirstHit(ts, k), us[n + 1][k])
<1>1. DOMAIN us \in SUBSET Nat /\ DOMAIN ts \in SUBSET Nat
  OBVIOUS
<1>2. CASE \A i \in DOMAIN ts : ts[i][k] = Absent
  <2>1. FirstHit(ts, k) = Absent
    BY <1>2, FirstHitNone
  <2>2. \A i \in DOMAIN us : i < n + 1 => us[i][k] = Absent
    BY <1>2
  <2>3. CASE us[n + 1][k] = Absent
    <3>1. \A i \in DOMAIN us : us[i][k] = Absent
      BY <2>2, <2>3
    <3>2. FirstHit(us, k) = Absent
      BY <3>1, FirstHitNone
    <3> QED BY <2>1, <2>3, <3>2 DEF OrElse
  <2>4. CASE us[n + 1][k] # Absent
    <3>1. n + 1 \in DOMAIN us
      OBVIOUS
    <3>2. FirstHit(us, k) = us[n + 1][k]
      BY <1>1, <2>2, <2>4, <3>1, FirstHitAt
    <3> QED BY <2>1, <3>2 DEF OrElse
  <2> QED BY <2>3, <2>4
<1>3. ASSUME NEW i \in DOMAIN ts, ts[i][k] # Absent,
             \A j \in DOMAIN ts : j < i => ts[j][k] = Absent
      PROVE  FirstHit(us, k) = OrElse(FirstHit(ts, k), us[n + 1][k])
  <2>1. FirstHit(ts, k) = ts[i][k]
    BY <1>1, <1>3, FirstHitAt
  <2>2. i \in DOMAIN us /\ us[i] = ts[i]
    OBVIOUS
  <2>3. \A j \in DOMAIN us : j < i => us[j][k] = Absent
    BY <1>3
  <2>4. FirstHit(us, k) = us[i][k]
    BY <1>1, <1>3, <2>2, <2>3, FirstHitAt
  <2> QED BY <1>3, <2>1, <2>2, <2>4 DEF OrElse
<1> QED BY <1>1, <1>2, <1>3, FirstHitCases

(* Lists that agree on the key give the same entry. *)
LEMMA FirstHitSame ==
  ASSUME NEW k, NEW ts, NEW us, DOMAIN ts \in SUBSET Nat, DOMAIN us = DOMAIN ts,
         \A i \in DOMAIN ts : us[i][k] = ts[i][k]
  PROVE  FirstHit(us, k) = FirstHit(ts, k)
<1>1. CASE \A i \in DOMAIN ts : ts[i][k] = Absent
  <2>1. FirstHit(ts, k) = Absent
    BY <1>1, FirstHitNone
  <2>2. \A i \in DOMAIN us : us[i][k] = Absent
    BY <1>1
  <2>3. FirstHit(us, k) = Absent
    BY <2>2, FirstHitNone
  <2> QED BY <2>1, <2>3
<1>2. ASSUME NEW i \in DOMAIN ts, ts[i][k] # Absent,
             \A j \in DOMAIN ts : j < i => ts[j][k] = Absent
      PROVE  FirstHit(us, k) = FirstHit(ts, k)
  <2>1. FirstHit(ts, k) = ts[i][k]
    BY <1>2, FirstHitAt
  <2>2. /\ i \in DOMAIN us /\ us[i][k] # Absent
        /\ \A j \in DOMAIN us : j < i => us[j][k] = Absent
    BY <1>2
  <2>3. FirstHit(us, k) = us[i][k]
    BY <2>2, FirstHitAt
  <2> QED BY <2>1, <2>3
<1>3. \/ \A i \in DOMAIN ts : ts[i][k] = Absent
      \/ \E i \in DOMAIN ts : /\ ts[i][k] # Absent
                              /\ \A j \in DOMAIN ts : j < i => ts[j][k] = Absent
  BY FirstHitCases, SMTT(30)
<1> QED BY <1>1, <1>2, <1>3

(* A level of one table reads like that table. *)
LEMMA LastHitSingle ==
  ASSUME NEW k, NEW ts, DOMAIN ts = {1}
  PROVE  LastHit(ts, k) = ts[1][k]
BY DEF LastHit

(* At key k, vs lists the n tables of ts and then the m tables of us. *)
RowsJoin(n, m, k, ts, us, vs) ==
  /\ n \in Nat /\ m \in Nat
  /\ DOMAIN ts = 1 .. n /\ DOMAIN us = 1 .. m /\ DOMAIN vs = 1 .. n + m
  /\ \A i \in 1 .. n : vs[i][k] = ts[i][k]
  /\ \A i \in 1 .. m : vs[n + i][k] = us[i][k]

(* Of two lists one after the other the first decides, if it can. *)
LEMMA FirstHitConcat ==
  ASSUME NEW n, NEW m, NEW k, NEW ts, NEW us, NEW vs, RowsJoin(n, m, k, ts, us, vs)
  PROVE  FirstHit(vs, k) = OrElse(FirstHit(ts, k), FirstHit(us, k))
<1> USE DEF RowsJoin
<1>1. /\ DOMAIN ts \in SUBSET Nat /\ DOMAIN us \in SUBSET Nat /\ DOMAIN vs \in SUBSET Nat
      /\ \A i \in DOMAIN vs : i \in 1 .. n \/ (i - n \in 1 .. m /\ i = n + (i - n))
  OBVIOUS
<1>2. ASSUME NEW i \in DOMAIN ts, ts[i][k] # Absent,
             \A j \in DOMAIN ts : j < i => ts[j][k] = Absent
      PROVE  FirstHit(vs, k) = OrElse(FirstHit(ts, k), FirstHit(us, k))
  <2>1. FirstHit(ts, k) = ts[i][k]
    BY ONLY <1>1, <1>2, FirstHitAt
  <2>2. /\ i \in DOMAIN vs /\ vs[i][k] # Absent /\ vs[i][k] = ts[i][k]
        /\ \A j \in DOMAIN vs : j < i => vs[j][k] = Absent
    BY <1>2, SMTT(30)
  <2>3. FirstHit(vs, k) = vs[i][k]
    BY ONLY <1>1, <2>2, FirstHitAt
  <2> QED BY <1>2, <2>1, <2>2, <2>3 DEF OrElse
<1>3. CASE \A i \in DOMAIN ts : ts[i][k] = Absent
  <2>1. FirstHit(ts, k) = Absent
    BY <1>3, FirstHitNone
  <2>2. \A i \in 1 .. n : vs[i][k] = Absent
    BY <1>3
  <2>3. CASE \A i \in DOMAIN us : us[i][k] = Absent
    <3>1. \A i \in DOMAIN vs : vs[i][k] = Absent
      BY <1>1, <2>2, <2>3
    <3>2. FirstHit(us, k) = Absent /\ FirstHit(vs, k) = Absent
      BY <2>3, <3>1, FirstHitNone
    <3> QED BY <2>1, <3>2 DEF OrElse
  <2>4. ASSUME NEW i \in DOMAIN us, us[i][k] # Absent,
               \A j \in DOMAIN us : j < i => us[j][k] = Absent
        PROVE  FirstHit(vs, k) = OrElse(FirstHit(ts, k), FirstHit(us, k))
    <3>1. FirstHit(us, k) = us[i][k]
      BY ONLY <1>1, <2>4, FirstHitAt
    <3>2. n + i \in DOMAIN vs /\ vs[n + i][k] = us[i][k]
      OBVIOUS
    <3>3. ASSUME NEW j \in DOMAIN vs, j < n + i PROVE vs[j][k] = Absent
      <4>1. CASE j \in 1 .. n
        BY <2>2, <4>1
      <4>2. CASE j - n \in 1 .. m /\ j = n + (j - n)
        <5>1. j - n < i /\ vs[j][k] = us[j - n][k]
          BY <3>3, <4>2
        <5> QED BY <2>4, <4>2, <5>1
      <4> QED BY <1>1, <4>1, <4>2
    <3>4. vs[n + i][k] # Absent
      BY <2>4, <3>2
    <3>5. FirstHit(vs, k) = vs[n + i][k]
      BY ONLY <1>1, <3>2, <3>3, <3>4, FirstHitAt
    <3> QED BY <2>1, <3>1, <3>2, <3>5 DEF OrElse
  <2>5. \/ \A i \in DOMAIN us : us[i][k] = Absent
        \/ \E i \in DOMAIN us : /\ us[i][k] # Absent
                                /\ \A j \in DOMAIN us : j < i => us[j][k] = Absent
    BY ONLY <1>1, FirstHitCases
  <2> QED BY <2>3, <2>4, <2>5
<1>4. \/ \A i \in DOMAIN ts : ts[i][k] = Absent
      \/ \E i \in DOMAIN ts : /\ ts[i][k] # Absent
                              /\ \A j \in DOMAIN ts : j < i => ts[j][k] = Absent
  BY ONLY <1>1, FirstHitCases
<1> QED BY <1>2, <1>3, <1>4

(* A list of one table reads like that table. *)
LEMMA FirstHitSingle ==
  ASSUME NEW k, NEW ts, DOMAIN ts = {1}
  PROVE  FirstHit(ts, k) = ts[1][k]
BY DEF FirstHit

(* The part of a list after position a up to position b. *)
Segment(ts, a, b) == [i \in 1 .. b - a |-> ts[a + i]]

(* A list read in three parts. *)
LEMMA FirstHitSegments ==
  ASSUME NEW n \in Nat, NEW a \in 0 .. n, NEW b \in a .. n, NEW k, NEW ts,
         DOMAIN ts = 1 .. n
  PROVE  FirstHit(ts, k) =
           OrElse(FirstHit(Segment(ts, 0, a), k),
                  OrElse(FirstHit(Segment(ts, a, b), k), FirstHit(Segment(ts, b, n), k)))
<1>1. a \in Nat /\ b - a \in Nat /\ n - b \in Nat /\ n - a \in Nat
      /\ n = a + (n - a) /\ n - a = (b - a) + (n - b)
  OBVIOUS
<1>2. FirstHit(Segment(ts, a, n), k) =
        OrElse(FirstHit(Segment(ts, a, b), k), FirstHit(Segment(ts, b, n), k))
  <2> DEFINE us == Segment(ts, a, b)  ws == Segment(ts, b, n)  vs == Segment(ts, a, n)
  <2>1. DOMAIN us = 1 .. b - a /\ DOMAIN ws = 1 .. n - b /\ DOMAIN vs = 1 .. (b - a) + (n - b)
    BY <1>1 DEF Segment
  <2>2. \A i \in 1 .. b - a : vs[i][k] = us[i][k]
    BY <1>1 DEF Segment
  <2>3. ASSUME NEW i \in 1 .. n - b PROVE vs[(b - a) + i][k] = ws[i][k]
    <3>1. (b - a) + i \in 1 .. n - a /\ a + ((b - a) + i) = b + i
      BY <1>1
    <3> QED BY <3>1 DEF Segment
  <2> HIDE DEF us, ws, vs
  <2>4. FirstHit(vs, k) = OrElse(FirstHit(us, k), FirstHit(ws, k))
    <3>1. RowsJoin(b - a, n - b, k, us, ws, vs)
      BY <1>1, <2>1, <2>2, <2>3 DEF RowsJoin
    <3> QED BY <3>1, FirstHitConcat
  <2> QED BY <2>4 DEF us, ws, vs
<1>3. FirstHit(ts, k) = OrElse(FirstHit(Segment(ts, 0, a), k), FirstHit(Segment(ts, a, n), k))
  <2> DEFINE us == Segment(ts, 0, a)  ws == Segment(ts, a, n)
  <2>1. DOMAIN us = 1 .. a /\ DOMAIN ws = 1 .. n - a /\ DOMAIN ts = 1 .. a + (n - a)
    BY <1>1 DEF Segment
  <2>2. /\ \A i \in 1 .. a : ts[i][k] = us[i][k]
        /\ \A i \in 1 .. n - a : ts[a + i][k] = ws[i][k]
    BY <1>1 DEF Segment
  <2> HIDE DEF us, ws
  <2>3. FirstHit(ts, k) = OrElse(FirstHit(us, k), FirstHit(ws, k))
    <3>1. RowsJoin(a, n - a, k, us, ws, ts)
      BY <1>1, <2>1, <2>2 DEF RowsJoin
    <3> QED BY <3>1, FirstHitConcat
  <2> QED BY <2>3 DEF us, ws
<1> QED BY <1>2, <1>3

(* What a compaction may do to the entry found for a key: a tombstone may  *)
(* be dropped.                                                             *)
Purged(new, old) == new = old \/ (old \in Int /\ old < 0 /\ new = Absent)

(* When the table that replaces a part of a list holds what the part gave, *)
(* or what a reader sees of it where nothing lies below, every reader      *)
(* still sees the same.                                                    *)
LEMMA ReplacedPart ==
  ASSUME NEW above \in Int, NEW part \in Int, NEW new \in Int, NEW below \in Int,
         new = part \/ (new = Seen(part) /\ below = Absent)
  PROVE  Purged(OrElse(above, OrElse(new, below)), OrElse(above, OrElse(part, below)))
BY DEF Purged, Seen, OrElse, Absent

(* Every non-empty set of indices of a list has a greatest one. *)
LEMMA GreatestIndex ==
  ASSUME NEW n \in Nat, NEW S \in SUBSET (1 .. n), S # {}
  PROVE  \E i \in S : \A j \in S : j <= i
<1> DEFINE back == {n - i : i \in S}
<1>1. back \in SUBSET Nat /\ back # {}
  <2>1. \A i \in S : n - i \in Nat
    OBVIOUS
  <2>2. PICK i \in S : TRUE
    OBVIOUS
  <2>3. n - i \in back
    BY <2>2
  <2> QED BY <2>1, <2>3
<1>2. PICK b \in back : \A d \in back : b <= d
  BY <1>1, LeastIndex
<1>3. PICK i \in S : b = n - i
  OBVIOUS
<1>4. ASSUME NEW j \in S PROVE j <= i
  <2>1. n - i <= n - j
    BY <1>2, <1>3
  <2> QED BY <2>1
<1> QED BY <1>4

(* What a level holds for a key is an entry, and one of its tables' own. *)
LEMMA LastHitIn ==
  ASSUME NEW n \in Nat, NEW k, NEW ts, DOMAIN ts = 1 .. n
  PROVE  \/ LastHit(ts, k) = Absent /\ \A i \in 1 .. n : ts[i][k] = Absent
         \/ \E i \in 1 .. n : LastHit(ts, k) = ts[i][k] /\ ts[i][k] # Absent
<1> DEFINE hits == {i \in DOMAIN ts : ts[i][k] # Absent}
<1>1. CASE hits = {}
  BY <1>1 DEF LastHit
<1>2. CASE hits # {}
  <2>1. \E i \in hits : \A j \in hits : j <= i
    BY <1>2, GreatestIndex
  <2>2. (CHOOSE i \in hits : \A j \in hits : j <= i) \in hits
    BY <2>1
  <2> QED BY <1>2, <2>2 DEF LastHit
<1> QED BY <1>1, <1>2

(* Where no table of a level holds the key, there is nothing to find. *)
LEMMA LastHitNone ==
  ASSUME NEW ts, NEW k, \A i \in DOMAIN ts : ts[i][k] = Absent
  PROVE  LastHit(ts, k) = Absent
BY DEF LastHit

(* Where the tables of a level are disjoint, the one that holds the key    *)
(* decides.                                                                *)
LEMMA LastHitOnly ==
  ASSUME NEW n \in Nat, NEW k, NEW ts, DOMAIN ts = 1 .. n, NEW i \in 1 .. n,
         \A j \in 1 .. n : j # i => ts[j][k] = Absent
  PROVE  LastHit(ts, k) = ts[i][k]
BY LastHitIn

(* Lists of tables that agree on the key give the same entry. *)
LEMMA LastHitSame ==
  ASSUME NEW n \in Nat, NEW k, NEW ts, NEW us, DOMAIN ts = 1 .. n, DOMAIN us = 1 .. n,
         \A i \in 1 .. n : us[i][k] = ts[i][k]
  PROVE  LastHit(us, k) = LastHit(ts, k)
<1> DEFINE hits(vs) == {i \in DOMAIN vs : vs[i][k] # Absent}
           last(S) == CHOOSE i \in S : \A j \in S : j <= i
<1>1. hits(us) = hits(ts)
  OBVIOUS
<1>2. CASE hits(ts) = {}
  BY <1>1, <1>2 DEF LastHit
<1>3. CASE hits(ts) # {}
  <2>1. LastHit(ts, k) = ts[last(hits(ts))][k] /\ LastHit(us, k) = us[last(hits(ts))][k]
    BY <1>1, <1>3 DEF LastHit
  <2>2. last(hits(ts)) \in hits(ts)
    <3>1. \E i \in hits(ts) : \A j \in hits(ts) : j <= i
      BY <1>3, GreatestIndex
    <3> QED BY <3>1
  <2> QED BY <2>1, <2>2
<1> QED BY <1>2, <1>3

(* A number of entries below the count of all of them belongs to one of    *)
(* the tables that many entries are cut into.                              *)
LEMMA RankInRange ==
  ASSUME NEW n \in Nat \ {0}, NEW c \in Nat, NEW b \in Nat, b < c
  PROVE  (b \div n) + 1 \in 1 .. (c + n - 1) \div n
<1> DEFINE q == b \div n  p == (c + n - 1) \div n
<1>1. q \in Nat /\ p \in Nat
  OBVIOUS
<1>2. n * q <= b /\ c + n - 1 < n * p + n
  OBVIOUS
<1>3. n * q < n * p
  BY <1>1, <1>2
<1>4. q < p
  <2> HIDE DEF q, p
  <2> QED BY <1>1, <1>3
<1> QED BY <1>1, <1>4

(* The entries of a table are finitely many, and fewer lie below a key     *)
(* that the table holds.                                                   *)
LEMMA BelowFewer ==
  ASSUME NEW t, NEW k \in KeysOfTable(t)
  PROVE  LET below == {j \in KeysOfTable(t) : j < k}
         IN  /\ Cardinality(KeysOfTable(t)) \in Nat /\ Cardinality(below) \in Nat
             /\ Cardinality(below) < Cardinality(KeysOfTable(t))
<1> DEFINE S == KeysOfTable(t)  below == {j \in S : j < k}
<1>1. IsFiniteSet(S)
  <2>1. S \in SUBSET Keys
    BY DEF KeysOfTable
  <2> HIDE DEF S
  <2> QED BY <2>1, KeysAssumption, FS_Subset
<1>2. k \notin below
  <2>1. k \in Nat
    BY KeysAssumption DEF KeysOfTable
  <2> QED BY <2>1
<1> HIDE DEF S
<1>3. below \in SUBSET S /\ below # S
  BY <1>2 DEF S
<1>4. IsFiniteSet(below) /\ Cardinality(below) <= Cardinality(S)
      /\ Cardinality(below) # Cardinality(S)
  BY <1>1, <1>3, FS_Subset
<1>5. Cardinality(S) \in Nat /\ Cardinality(below) \in Nat
  BY <1>1, <1>4, FS_CardinalityType
<1> QED BY <1>4, <1>5 DEF S

(* compact_generate_sst_from_iter loses no entry and adds none: the tables *)
(* it cuts the merge into hold together what the merge held.               *)
LEMMA SplitHit ==
  ASSUME NEW t \in Table, NEW n \in Nat \ {0}, NEW k \in Keys
  PROVE  LastHit(Split(t, n), k) = t[k]
<1> DEFINE S == KeysOfTable(t)
           Rank(x) == Cardinality({j \in S : j < x}) \div n
           c == (Cardinality(S) + n - 1) \div n
<1>1. DOMAIN Split(t, n) = 1 .. c
  BY DEF Split
<1>2. \A i \in 1 .. c : Split(t, n)[i][k] =
                         IF t[k] # Absent /\ Rank(k) = i - 1 THEN t[k] ELSE Absent
  BY DEF Split
<1>3. CASE t[k] = Absent
  <2>1. \A i \in DOMAIN Split(t, n) : Split(t, n)[i][k] = Absent
    BY <1>1, <1>2, <1>3
  <2> QED BY <1>3, <2>1 DEF LastHit
<1>4. CASE t[k] # Absent
  <2>1. k \in S
    BY <1>4 DEF KeysOfTable
  <2>2. /\ Cardinality(S) \in Nat /\ Cardinality({j \in S : j < k}) \in Nat
        /\ Cardinality({j \in S : j < k}) < Cardinality(S)
    BY <2>1, BelowFewer
  <2>3. Rank(k) + 1 \in 1 .. c /\ c \in Nat /\ Rank(k) \in Nat
    BY <2>2, RankInRange
  <2> HIDE DEF c, Rank, S
  <2>4. Split(t, n)[Rank(k) + 1][k] = t[k]
    BY <1>2, <1>4, <2>3
  <2>5. \A j \in 1 .. c : j # Rank(k) + 1 => Split(t, n)[j][k] = Absent
    BY <1>2, <2>3
  <2>6. LastHit(Split(t, n), k) = Split(t, n)[Rank(k) + 1][k]
    BY <1>1, <2>3, <2>5, LastHitOnly
  <2> QED BY <2>4, <2>6
<1> QED BY <1>3, <1>4

(* A function on the first numbers is a sequence. *)
LEMMA FunctionIsSeq ==
  ASSUME NEW S, NEW n \in Nat, NEW f, f = [i \in 1 .. n |-> f[i]], \A i \in 1 .. n : f[i] \in S
  PROVE  f \in Seq(S) /\ Len(f) = n /\ DOMAIN f = 1 .. n
OBVIOUS

(* They are finitely many tables. *)
LEMMA SplitType ==
  ASSUME NEW t \in Table, NEW n \in Nat \ {0}
  PROVE  Split(t, n) \in Seq(Table)
<1> DEFINE c == (Cardinality(KeysOfTable(t)) + n - 1) \div n
<1>1. KeysOfTable(t) \in SUBSET Keys
  BY DEF KeysOfTable
<1>2. Cardinality(KeysOfTable(t)) \in Nat
  BY <1>1, KeysAssumption, FS_Subset, FS_CardinalityType
<1>3. c \in Nat
  BY <1>2
<1>4. DOMAIN Split(t, n) = 1 .. c
  BY DEF Split
<1>5. ASSUME NEW i \in 1 .. c PROVE Split(t, n)[i] \in Table
  BY DEF Split, Table, Absent
<1>6. Split(t, n) = [i \in 1 .. c |-> Split(t, n)[i]]
  BY DEF Split
<1> HIDE DEF c
<1> QED BY <1>3, <1>5, <1>6, FunctionIsSeq

-----------------------------------------------------------------------------
(* The iterator of a table, and of the tables of a level *)

(* No key is NoKey. *)
LEMMA NoKeyIs == NoKey \notin Nat /\ NoKey \notin Keys /\ NoKey \in Int
BY KeysAssumption DEF NoKey

(* k is the first key of a table from f on, or there is none. *)
Leads(t, f, k) ==
  \/ k = NoKey /\ \A j \in KeysOfTable(t) : j < f
  \/ k \in KeysOfTable(t) /\ f <= k /\ \A j \in KeysOfTable(t) : j < f \/ k <= j

(* There is one such key, and a seek finds it. *)
LEMMA SeekLeads ==
  ASSUME NEW t, NEW f \in Nat
  PROVE  Leads(t, f, SeekKey(t, f)) /\ \A k : Leads(t, f, k) => k = SeekKey(t, f)
<1> DEFINE S == KeysOfTable(t)
           ahead == {j \in S : j >= f}
<1>1. S \in SUBSET Keys /\ S \in SUBSET Nat /\ \A k \in S : k # NoKey
  BY KeysAssumption, NoKeyIs DEF KeysOfTable
<1>2. SeekKey(t, f) = IF ahead = {} THEN NoKey ELSE Min(ahead)
  BY DEF SeekKey
<1> HIDE DEF S
<1>3. \A j \in S : j \notin ahead <=> j < f
  BY <1>1
<1>4. CASE ahead = {}
  <2>1. \A j \in S : j < f
    BY <1>3, <1>4
  <2>2. ASSUME NEW k \in S PROVE ~(f <= k)
    BY <1>1, <2>1
  <2> QED BY <1>2, <1>4, <2>1, <2>2 DEF Leads, S
<1>5. CASE ahead # {}
  <2>1. ahead \in SUBSET Nat
    BY <1>1
  <2>2. ahead \in SUBSET S /\ \A j \in ahead : f <= j
    BY <1>1
  <2> HIDE DEF ahead
  <2>3. PICK m \in ahead : \A j \in ahead : m <= j
    BY <1>5, <2>1, LeastIndex
  <2>4. Min(ahead) \in ahead /\ \A j \in ahead : Min(ahead) <= j
    BY <2>3 DEF Min
  <2>5. PICK a : a = Min(ahead)
    OBVIOUS
  <2>6. a \in S /\ f <= a /\ \A j \in S : j < f \/ a <= j
    BY <1>3, <2>2, <2>4, <2>5
  <2>7. ASSUME NEW k, Leads(t, f, k) PROVE k = a
    <3>1. k \in S /\ f <= k /\ \A j \in S : j < f \/ k <= j
      <4>1. ~(a < f)
        BY <1>1, <2>6
      <4> QED BY <2>6, <2>7, <4>1 DEF Leads, S
    <3>2. k \in Nat /\ a \in Nat /\ (a < f \/ k <= a) /\ (k < f \/ a <= k)
      BY <1>1, <2>6, <3>1
    <3> QED BY <2>6, <3>1, <3>2
  <2> QED BY <1>2, <1>5, <2>5, <2>6, <2>7 DEF Leads, S
<1> QED BY <1>4, <1>5

(* Tables in the order of their keys, as in a level, and what they hold    *)
(* together.                                                               *)
InOrder(src, run) ==
  /\ Len(run) \in Nat /\ DOMAIN run = 1 .. Len(run)
  /\ \A i \in DOMAIN run : src[run[i]] \in Table
  /\ \A i, j \in DOMAIN run : i < j =>
       \A a \in KeysOfTable(src[run[i]]), b \in KeysOfTable(src[run[j]]) : a < b

RunTable(src, run) == Concat([i \in DOMAIN run |-> src[run[i]]])

(* The iterator of a level that stands at the first key from f on. *)
RunAt(src, run, f) ==
  LET ahead == {i \in DOMAIN run : SeekKey(src[run[i]], f) # NoKey}
  IN  IF ahead = {} THEN NoIter
      ELSE [tables |-> run, current |-> Min(ahead), key |-> SeekKey(src[run[Min(ahead)]], f)]

(* All of it is behind, or table i is the first that is not. *)
LEMMA RunAtIs ==
  ASSUME NEW src, NEW run, InOrder(src, run), NEW f \in Nat
  PROVE  \/ /\ RunAt(src, run, f) = NoIter
            /\ \A i \in DOMAIN run : \A a \in KeysOfTable(src[run[i]]) : a < f
         \/ \E i \in DOMAIN run :
              LET k == SeekKey(src[run[i]], f) IN
              /\ RunAt(src, run, f) = [tables |-> run, current |-> i, key |-> k]
              /\ k \in KeysOfTable(src[run[i]]) /\ k # NoKey /\ f <= k
              /\ \A a \in KeysOfTable(src[run[i]]) : a < f \/ k <= a
              /\ \A j \in DOMAIN run : j < i => \A a \in KeysOfTable(src[run[j]]) : a < f
<1> DEFINE K(i) == SeekKey(src[run[i]], f)
           ahead == {i \in DOMAIN run : K(i) # NoKey}
<1>1. RunAt(src, run, f) = IF ahead = {} THEN NoIter
                           ELSE [tables |-> run, current |-> Min(ahead), key |-> K(Min(ahead))]
  BY DEF RunAt
<1>2. ASSUME NEW i PROVE Leads(src[run[i]], f, K(i))
  BY SeekLeads
<1> HIDE DEF K
<1>3. ASSUME NEW i, K(i) = NoKey PROVE \A a \in KeysOfTable(src[run[i]]) : a < f
  BY <1>2, <1>3, NoKeyIs DEF Leads, KeysOfTable
<1>4. ASSUME NEW i, K(i) # NoKey
      PROVE  /\ K(i) \in KeysOfTable(src[run[i]]) /\ f <= K(i)
             /\ \A a \in KeysOfTable(src[run[i]]) : a < f \/ K(i) <= a
  BY <1>2, <1>4 DEF Leads
<1>5. CASE ahead = {}
  BY <1>1, <1>3, <1>5
<1>6. CASE ahead # {}
  <2>1. ahead \in SUBSET Nat /\ ahead \in SUBSET DOMAIN run
    BY DEF InOrder
  <2>2. \A i \in DOMAIN run : i \in ahead <=> K(i) # NoKey
    OBVIOUS
  <2> HIDE DEF ahead
  <2>3. PICK m \in ahead : \A j \in ahead : m <= j
    BY <1>6, <2>1, LeastIndex
  <2>4. PICK i : i = Min(ahead)
    OBVIOUS
  <2>5. i \in ahead /\ \A j \in ahead : i <= j
    BY <2>3, <2>4 DEF Min
  <2>6. i \in DOMAIN run /\ K(i) # NoKey
    BY <2>1, <2>2, <2>5
  <2>7. ASSUME NEW j \in DOMAIN run, j < i PROVE K(j) = NoKey
    <3>1. i \in Nat /\ j \in Nat
      BY <2>6 DEF InOrder
    <3> QED BY <2>2, <2>5, <2>7, <3>1
  <2>8. RunAt(src, run, f) = [tables |-> run, current |-> i, key |-> K(i)]
    BY <1>1, <1>6, <2>4
  <2> QED BY <1>3, <1>4, <2>6, <2>7, <2>8 DEF K
<1> QED BY <1>5, <1>6

(* No other iterator stands there. *)
LEMMA RunAtOnly ==
  ASSUME NEW src, NEW run, InOrder(src, run), NEW f \in Nat
  PROVE  /\ (\A i \in DOMAIN run : \A a \in KeysOfTable(src[run[i]]) : a < f) =>
              RunAt(src, run, f) = NoIter
         /\ \A i \in DOMAIN run : \A k :
              /\ k \in KeysOfTable(src[run[i]]) /\ f <= k
              /\ \A a \in KeysOfTable(src[run[i]]) : a < f \/ k <= a
              /\ \A j \in DOMAIN run : j < i => \A a \in KeysOfTable(src[run[j]]) : a < f
              => RunAt(src, run, f) = [tables |-> run, current |-> i, key |-> k]
<1>1. ASSUME NEW a \in Nat PROVE ~(a < f /\ f <= a)
  OBVIOUS
<1>2. \A i : KeysOfTable(src[run[i]]) \in SUBSET Nat
  BY KeysAssumption DEF KeysOfTable
<1>3. ASSUME \A i \in DOMAIN run : \A a \in KeysOfTable(src[run[i]]) : a < f
      PROVE  RunAt(src, run, f) = NoIter
  BY <1>1, <1>2, <1>3, RunAtIs
<1>4. ASSUME NEW i \in DOMAIN run, NEW k, k \in KeysOfTable(src[run[i]]), f <= k,
             \A a \in KeysOfTable(src[run[i]]) : a < f \/ k <= a,
             \A j \in DOMAIN run : j < i => \A a \in KeysOfTable(src[run[j]]) : a < f
      PROVE  RunAt(src, run, f) = [tables |-> run, current |-> i, key |-> k]
  <2>1. k \in Nat /\ ~(k < f)
    BY <1>1, <1>2, <1>4
  <2>2. PICK h, m :
          /\ h \in DOMAIN run /\ RunAt(src, run, f) = [tables |-> run, current |-> h, key |-> m]
          /\ m \in KeysOfTable(src[run[h]]) /\ f <= m
          /\ \A a \in KeysOfTable(src[run[h]]) : a < f \/ m <= a
          /\ \A j \in DOMAIN run : j < h => \A a \in KeysOfTable(src[run[j]]) : a < f
    BY <1>4, <2>1, RunAtIs
  <2>3. m \in Nat /\ ~(m < f) /\ h \in Nat /\ i \in Nat
    BY <1>1, <1>2, <2>2 DEF InOrder
  <2>4. ~(h < i) /\ ~(i < h)
    BY <1>4, <2>1, <2>2, <2>3
  <2>5. h = i
    BY <2>3, <2>4
  <2>6. k <= m /\ m <= k
    BY <1>4, <2>1, <2>2, <2>3, <2>5
  <2> QED BY <2>1, <2>2, <2>3, <2>5, <2>6
<1> QED BY <1>3, <1>4

(* create_and_seek_to_first stands at the first key of all. *)
LEMMA SeekToFirstIs ==
  ASSUME NEW src, NEW run, InOrder(src, run)
  PROVE  SeekToFirst(src, run) = RunAt(src, run, 0)
<1>1. ASSUME NEW t PROVE /\ KeysOfTable(t) \in SUBSET Nat
                         /\ KeysOfTable(t) # {} <=> SeekKey(t, 0) # NoKey
                         /\ KeysOfTable(t) # {} => FirstKey(t) = SeekKey(t, 0)
  <2>1. Leads(t, 0, SeekKey(t, 0)) /\ \A k : Leads(t, 0, k) => k = SeekKey(t, 0)
    BY SeekLeads
  <2>2. KeysOfTable(t) \in SUBSET Nat /\ NoKey \notin KeysOfTable(t)
    BY KeysAssumption, NoKeyIs DEF KeysOfTable
  <2>3. ASSUME NEW k \in KeysOfTable(t) PROVE ~(k < 0) /\ 0 <= k
    BY <2>2
  <2>4. KeysOfTable(t) # {} <=> SeekKey(t, 0) # NoKey
    BY <2>1, <2>2, <2>3 DEF Leads
  <2>5. ASSUME KeysOfTable(t) # {} PROVE FirstKey(t) = SeekKey(t, 0)
    <3>1. \E k \in KeysOfTable(t) : \A j \in KeysOfTable(t) : k <= j
      BY <2>2, <2>5, LeastIndex
    <3>2. FirstKey(t) \in KeysOfTable(t) /\ \A j \in KeysOfTable(t) : FirstKey(t) <= j
      BY <3>1 DEF FirstKey
    <3>3. Leads(t, 0, FirstKey(t))
      BY <2>3, <3>2 DEF Leads
    <3> QED BY <2>1, <3>3
  <2> QED BY <2>2, <2>4, <2>5
<1> DEFINE later == {j \in DOMAIN run : j > 0 /\ KeysOfTable(src[run[j]]) # {}}
           ahead == {i \in DOMAIN run : SeekKey(src[run[i]], 0) # NoKey}
<1>2. later = ahead
  <2>1. \A j \in DOMAIN run : j > 0
    BY DEF InOrder
  <2> QED BY <1>1, <2>1
<1>3. SeekToFirst(src, run) =
        IF later = {} THEN NoIter
        ELSE [tables |-> run, current |-> Min(later), key |-> FirstKey(src[run[Min(later)]])]
  BY DEF SeekToFirst, MoveUntilValid
<1>4. RunAt(src, run, 0) =
        IF ahead = {} THEN NoIter
        ELSE [tables |-> run, current |-> Min(ahead), key |-> SeekKey(src[run[Min(ahead)]], 0)]
  BY DEF RunAt
<1>5. ASSUME later # {} PROVE Min(later) \in later
  <2>1. later \in SUBSET Nat
    BY DEF InOrder
  <2> HIDE DEF later
  <2>2. PICK m \in later : \A j \in later : m <= j
    BY <1>5, <2>1, LeastIndex
  <2> QED BY <2>2 DEF Min
<1>6. ASSUME later # {}
      PROVE  FirstKey(src[run[Min(later)]]) = SeekKey(src[run[Min(later)]], 0)
  BY <1>1, <1>5, <1>6
<1> HIDE DEF later, ahead
<1> QED BY <1>2, <1>3, <1>4, <1>6

(* An iterator that stands beyond g stands where a seek to g ends. *)
LEMMA RunStays ==
  ASSUME NEW src, NEW run, InOrder(src, run), NEW f \in Nat, NEW g \in Nat, f <= g,
         LET k == RunAt(src, run, f).key IN k = NoKey \/ g <= k
  PROVE  RunAt(src, run, g) = RunAt(src, run, f)
<1>1. \A i : KeysOfTable(src[run[i]]) \in SUBSET Nat
  BY KeysAssumption DEF KeysOfTable
<1>2. ASSUME NEW a \in Nat, a < f PROVE a < g
  BY <1>2
<1>3. CASE /\ RunAt(src, run, f) = NoIter
           /\ \A i \in DOMAIN run : \A a \in KeysOfTable(src[run[i]]) : a < f
  BY <1>1, <1>2, <1>3, RunAtOnly
<1>4. ASSUME NEW i \in DOMAIN run, NEW k,
             RunAt(src, run, f) = [tables |-> run, current |-> i, key |-> k],
             k \in KeysOfTable(src[run[i]]), k # NoKey, f <= k,
             \A a \in KeysOfTable(src[run[i]]) : a < f \/ k <= a,
             \A j \in DOMAIN run : j < i => \A a \in KeysOfTable(src[run[j]]) : a < f
      PROVE  RunAt(src, run, g) = RunAt(src, run, f)
  <2>1. g <= k
    BY <1>4
  <2>2. \A a \in KeysOfTable(src[run[i]]) : a < g \/ k <= a
    BY <1>1, <1>2, <1>4
  <2>3. \A j \in DOMAIN run : j < i => \A a \in KeysOfTable(src[run[j]]) : a < g
    BY <1>1, <1>2, <1>4
  <2> QED BY <1>4, <2>1, <2>2, <2>3, RunAtOnly
<1> QED BY <1>3, <1>4, RunAtIs

(* next() goes to the next key, in the same table or in a later one. *)
LEMMA ConcatNextIs ==
  ASSUME NEW src, NEW run, InOrder(src, run), NEW f \in Nat, NEW c, c = RunAt(src, run, f),
         c.key # NoKey
  PROVE  ConcatNext(src, c) = RunAt(src, run, c.key + 1)
<1> DEFINE S(i) == KeysOfTable(src[run[i]])
<1>1. \A i : S(i) \in SUBSET Nat
  BY KeysAssumption DEF KeysOfTable
<1>2. PICK i, k :
        /\ i \in DOMAIN run /\ c = [tables |-> run, current |-> i, key |-> k]
        /\ k \in S(i) /\ f <= k /\ \A j \in DOMAIN run : j < i => \A a \in S(j) : a < f
  <2>1. c # NoIter
    BY DEF NoIter
  <2> QED BY <2>1, RunAtIs
<1>3. /\ k \in Nat /\ k + 1 \in Nat /\ i \in Nat /\ \A j \in DOMAIN run : j \in Nat
      /\ \A a \in Nat : a < f => a < k + 1
  BY <1>1, <1>2 DEF InOrder
<1>4. PICK m : m = SeekKey(src[run[i]], k + 1)
  OBVIOUS
<1>5. Leads(src[run[i]], k + 1, m)
  BY <1>3, <1>4, SeekLeads
<1> DEFINE later == {j \in DOMAIN run : j > i /\ S(j) # {}}
<1>6. ConcatNext(src, c) =
        IF m # NoKey THEN [tables |-> run, current |-> i, key |-> m]
        ELSE IF later = {} THEN NoIter
        ELSE [tables |-> run, current |-> Min(later), key |-> FirstKey(src[run[Min(later)]])]
  BY <1>2, <1>4 DEF ConcatNext, MoveUntilValid
<1>7. \A j \in DOMAIN run : j < i => \A a \in S(j) : a < k + 1
  BY <1>1, <1>2, <1>3
<1>8. \A j \in DOMAIN run : i < j => \A a \in S(j) : k + 1 <= a
  <2> SUFFICES ASSUME NEW j \in DOMAIN run, i < j, NEW a \in S(j) PROVE k + 1 <= a
    OBVIOUS
  <2>1. k < a
    BY <1>2 DEF InOrder
  <2>2. a \in Nat
    BY <1>1
  <2> QED BY <1>3, <2>1, <2>2
<1>9. CASE m # NoKey
  <2>1. m \in S(i) /\ k + 1 <= m /\ \A a \in S(i) : a < k + 1 \/ m <= a
    BY <1>5, <1>9 DEF Leads
  <2>2. RunAt(src, run, k + 1) = [tables |-> run, current |-> i, key |-> m]
    <3> HIDE DEF S
    <3> QED BY <1>2, <1>3, <1>7, <2>1, RunAtOnly DEF S
  <2> QED BY <1>2, <1>6, <1>9, <2>2
<1>10. CASE m = NoKey
  <2>1. \A a \in S(i) : a < k + 1
    BY <1>1, <1>5, <1>10, NoKeyIs DEF Leads
  <2>2. \A j \in DOMAIN run : j <= i => \A a \in S(j) : a < k + 1
    <3> SUFFICES ASSUME NEW j \in DOMAIN run, j <= i PROVE \A a \in S(j) : a < k + 1
      OBVIOUS
    <3>1. j = i \/ j < i
      BY <1>3
    <3> QED BY <1>7, <2>1, <3>1
  <2>3. CASE later = {}
    <3>1. \A j \in DOMAIN run : \A a \in S(j) : a < k + 1
      <4> SUFFICES ASSUME NEW j \in DOMAIN run, NEW a \in S(j) PROVE a < k + 1
        OBVIOUS
      <4>1. j <= i
        BY <1>3, <2>3
      <4> QED BY <2>2, <4>1
    <3>2. RunAt(src, run, k + 1) = NoIter
      BY <1>3, <3>1, RunAtOnly
    <3> QED BY <1>2, <1>6, <1>10, <2>3, <3>2
  <2>4. CASE later # {}
    <3>1. later \in SUBSET Nat /\ \A j \in DOMAIN run : j \in later <=> i < j /\ S(j) # {}
      BY <1>3
    <3>2. PICK h : h = Min(later)
      OBVIOUS
    <3>3. h \in later /\ \A j \in later : h <= j
      <4> HIDE DEF later
      <4>1. PICK x \in later : \A j \in later : x <= j
        BY <2>4, <3>1, LeastIndex
      <4> QED BY <3>2, <4>1 DEF Min
    <3>4. h \in DOMAIN run /\ i < h /\ S(h) # {} /\ h \in Nat
      BY <3>1, <3>3
    <3>5. PICK n : n = FirstKey(src[run[h]])
      OBVIOUS
    <3>6. n \in S(h) /\ \A j \in S(h) : n <= j
      <4>1. \E x \in S(h) : \A j \in S(h) : x <= j
        BY <1>1, <3>4, LeastIndex
      <4> QED BY <3>5, <4>1 DEF FirstKey
    <3> HIDE DEF later
    <3>7. \A j \in DOMAIN run : j < h => \A a \in S(j) : a < k + 1
      <4> SUFFICES ASSUME NEW j \in DOMAIN run, j < h, NEW a \in S(j) PROVE a < k + 1
        OBVIOUS
      <4>1. j \notin later
        BY <1>3, <3>3, <3>4
      <4>2. j <= i
        BY <1>3, <3>1, <4>1
      <4> QED BY <2>2, <4>2
    <3>8. k + 1 <= n
      BY <1>8, <3>4, <3>6
    <3>9. RunAt(src, run, k + 1) = [tables |-> run, current |-> h, key |-> n]
      <4> HIDE DEF S
      <4> QED BY <1>3, <3>4, <3>6, <3>7, <3>8, RunAtOnly DEF S
    <3> QED BY <1>2, <1>6, <1>10, <2>4, <3>2, <3>5, <3>9
  <2> QED BY <2>3, <2>4
<1> QED BY <1>9, <1>10

(* It reads the tables as if they were one. *)
LEMMA RunReads ==
  ASSUME NEW src, NEW run, InOrder(src, run), NEW f \in Nat, NEW c, c = RunAt(src, run, f)
  PROVE  /\ Leads(RunTable(src, run), f, c.key)
         /\ c.key # NoKey => ConcatEntry(src, c) = RunTable(src, run)[c.key]
<1> DEFINE ts == [i \in DOMAIN run |-> src[run[i]]]
           S(i) == KeysOfTable(src[run[i]])
           T == RunTable(src, run)
<1>1. /\ Len(run) \in Nat /\ DOMAIN ts = 1 .. Len(run) /\ DOMAIN run = 1 .. Len(run)
      /\ \A i \in DOMAIN run : ts[i] = src[run[i]]
  BY DEF InOrder
<1>2. \A i : S(i) \in SUBSET Nat /\ S(i) \in SUBSET Keys
  BY KeysAssumption DEF KeysOfTable
<1>3. \A k \in Keys : T[k] = LastHit(ts, k)
  BY DEF RunTable, Concat
<1>4. ASSUME NEW i \in DOMAIN run, NEW k \in S(i) PROVE k \in Keys /\ T[k] = src[run[i]][k]
  <2>1. k \in Keys /\ k \in Nat
    BY <1>2
  <2>2. \A j \in DOMAIN run : j # i => src[run[j]][k] = Absent
    <3> SUFFICES ASSUME NEW j \in DOMAIN run, j # i, k \in S(j) PROVE FALSE
      BY <2>1 DEF KeysOfTable
    <3>1. j < i \/ i < j
      BY <1>1
    <3>2. k < k
      BY <3>1 DEF InOrder
    <3> QED BY <2>1, <3>2
  <2>3. \A j \in 1 .. Len(run) : j # i => ts[j][k] = Absent
    BY <1>1, <2>2
  <2> HIDE DEF ts
  <2> QED BY <1>1, <1>3, <2>1, <2>3, LastHitOnly
<1>5. \A k \in KeysOfTable(T) : k \in Keys /\ \E i \in DOMAIN run : k \in S(i)
  <2> SUFFICES ASSUME NEW k \in Keys, LastHit(ts, k) # Absent
               PROVE  \E i \in DOMAIN run : src[run[i]][k] # Absent
    BY <1>3 DEF KeysOfTable
  <2> HIDE DEF ts
  <2> QED BY <1>1, LastHitIn
<1>6. \A i \in DOMAIN run : \A k \in S(i) : k \in KeysOfTable(T)
  BY <1>4 DEF KeysOfTable
<1> HIDE DEF ts, T
<1>7. CASE /\ RunAt(src, run, f) = NoIter /\ \A i \in DOMAIN run : \A a \in S(i) : a < f
  BY <1>5, <1>7 DEF Leads, NoIter, T
<1>8. ASSUME NEW i \in DOMAIN run, NEW k,
             RunAt(src, run, f) = [tables |-> run, current |-> i, key |-> k],
             k \in S(i), f <= k, \A a \in S(i) : a < f \/ k <= a,
             \A j \in DOMAIN run : j < i => \A a \in S(j) : a < f
      PROVE  Leads(T, f, k) /\ ConcatEntry(src, c) = T[k]
  <2>1. ASSUME NEW j \in DOMAIN run, NEW a \in S(j) PROVE a < f \/ k <= a
    <3>1. CASE j = i
      BY <1>8, <3>1
    <3>2. CASE j < i
      BY <1>8, <3>2
    <3>3. CASE i < j
      <4>1. k < a
        BY <1>8, <3>3 DEF InOrder
      <4> QED BY <1>2, <1>8, <4>1
    <3> QED BY <1>1, <3>1, <3>2, <3>3
  <2>2. Leads(T, f, k)
    BY <1>5, <1>6, <1>8, <2>1 DEF Leads
  <2>3. ConcatEntry(src, c) = src[run[i]][k]
    BY <1>8 DEF ConcatEntry
  <2> QED BY <1>4, <1>8, <2>2, <2>3
<1> QED BY <1>7, <1>8, RunAtIs DEF NoIter, T

(* A finite set of naturals has a bound. *)
LEMMA FiniteBounded ==
  ASSUME NEW S, S \in SUBSET Nat, IsFiniteSet(S)
  PROVE  \E n \in Nat : \A j \in S : j <= n
<1> DEFINE Bounded(T) == \E n \in Nat : \A j \in T : j <= n
           bad == {c \in Nat : \E T \in SUBSET S : Cardinality(T) = c /\ ~Bounded(T)}
<1>1. \A T \in SUBSET S : IsFiniteSet(T) /\ Cardinality(T) \in Nat
  BY FS_Subset, FS_CardinalityType
<1>2. bad = {}
  <2> SUFFICES ASSUME bad # {} PROVE FALSE
    OBVIOUS
  <2>1. PICK c \in bad : \A d \in bad : c <= d
    <3>1. bad \in SUBSET Nat
      OBVIOUS
    <3> HIDE DEF bad
    <3> QED BY <3>1, LeastIndex
  <2>2. PICK T \in SUBSET S : Cardinality(T) = c /\ ~Bounded(T)
    OBVIOUS
  <2>3. T # {}
    BY <2>2
  <2>4. PICK x \in T : TRUE
    BY <2>3
  <2>5. Cardinality(T \ {x}) = c - 1 /\ c - 1 \in Nat /\ T \ {x} \in SUBSET S
    <3>1. IsFiniteSet(T) /\ T \ {x} \in SUBSET S
      BY <1>1
    <3>2. Cardinality(T \ {x}) = Cardinality(T) - 1
      BY <2>4, <3>1, FS_RemoveElement
    <3>3. Cardinality(T \ {x}) \in Nat
      BY <1>1, <3>1
    <3> QED BY <2>2, <3>1, <3>2, <3>3
  <2>6. c - 1 \notin bad
    <3>1. c \in Nat /\ ~(c <= c - 1)
      OBVIOUS
    <3> HIDE DEF bad
    <3> QED BY <2>1, <3>1
  <2>7. Bounded(T \ {x})
    BY <2>5, <2>6
  <2>8. PICK n \in Nat : \A j \in T \ {x} : j <= n
    BY <2>7
  <2>9. x \in Nat /\ \A j \in T : j \in Nat
    OBVIOUS
  <2>10. n + x \in Nat /\ \A j \in T : j <= n + x
    BY ONLY <2>8, <2>9, n \in Nat
  <2> QED BY <2>2, <2>10
<1>3. Cardinality(S) \in Nat /\ S \in SUBSET S
  BY <1>1
<1> QED BY <1>2, <1>3

(* The first and the last key of a table that is not empty. *)
LEMMA FirstLast ==
  ASSUME NEW t, KeysOfTable(t) # {}
  PROVE  /\ FirstKey(t) \in KeysOfTable(t) /\ \A j \in KeysOfTable(t) : FirstKey(t) <= j
         /\ LastKey(t) \in KeysOfTable(t) /\ \A j \in KeysOfTable(t) : j <= LastKey(t)
<1> DEFINE S == KeysOfTable(t)
<1>1. S \in SUBSET Nat /\ IsFiniteSet(S)
  <2>1. S \in SUBSET Keys
    BY DEF KeysOfTable
  <2> QED BY <2>1, KeysAssumption, FS_Subset
<1>2. \E k \in S : \A j \in S : k <= j
  BY <1>1, LeastIndex
<1>3. \E k \in S : \A j \in S : j <= k
  <2>1. PICK n \in Nat : \A j \in S : j <= n
    BY <1>1, FiniteBounded
  <2>2. PICK d \in Nat : /\ \E j \in S : n - j = d
                         /\ \A e \in Nat : (\E j \in S : n - j = e) => d <= e
    <3> DEFINE D == {n - j : j \in S}
    <3>1. D \in SUBSET Nat /\ D # {}
      BY <1>1, <2>1
    <3>2. PICK d \in D : \A e \in D : d <= e
      BY <3>1, LeastIndex
    <3> QED BY <3>1, <3>2
  <2>3. PICK k \in S : n - k = d
    BY <2>2
  <2>4. ASSUME NEW j \in S PROVE j <= k
    <3>1. j \in Nat /\ k \in Nat /\ j <= n /\ k <= n
      BY <1>1, <2>1
    <3>2. n - j \in Nat
      BY <3>1
    <3>3. d <= n - j
      BY <2>2, <3>2
    <3> QED BY <2>3, <3>1, <3>3
  <2> QED BY <2>4
<1> QED BY <1>2, <1>3 DEF FirstKey, LastKey

(* create_and_seek_to_key stands at the first key from k on. *)
LEMMA SeekToKeyIs ==
  ASSUME NEW src, NEW run, InOrder(src, run), NEW k \in Nat,
         \A i \in DOMAIN run : KeysOfTable(src[run[i]]) # {}
  PROVE  SeekToKey(src, run, k) = RunAt(src, run, k)
<1> DEFINE S(i) == KeysOfTable(src[run[i]])
           F(i) == FirstKey(src[run[i]])
           n == Len(run)
           part == {p \in DOMAIN run : \A q \in 1 .. p : F(q) <= k}
<1>1. /\ n \in Nat /\ DOMAIN run = 1 .. n
      /\ \A i \in 1 .. n : F(i) \in S(i) /\ F(i) \in Nat /\ \A j \in S(i) : F(i) <= j
      /\ \A i : S(i) \in SUBSET Nat
  <2>1. \A i : S(i) \in SUBSET Nat
    BY KeysAssumption DEF KeysOfTable
  <2>2. \A i \in DOMAIN run : F(i) \in S(i) /\ \A j \in S(i) : F(i) <= j
    BY FirstLast
  <2>3. n \in Nat /\ DOMAIN run = 1 .. n
    BY DEF InOrder
  <2> HIDE DEF F, S
  <2> QED BY <2>1, <2>2, <2>3
<1>2. \A i, j \in 1 .. n : i < j => \A a \in S(i), b \in S(j) : a < b
  BY <1>1 DEF InOrder
<1> HIDE DEF n
<1>3. \E m \in 0 .. n : /\ \A q \in 1 .. m : F(q) <= k
                        /\ m < n => ~(F(m + 1) <= k)
  <2> DEFINE B == {q \in 1 .. n : ~(F(q) <= k)}
  <2>1. CASE B = {}
    <3>1. n \in 0 .. n /\ ~(n < n)
      BY <1>1
    <3>2. \A q \in 1 .. n : F(q) <= k
      BY <2>1
    <3> QED BY <3>1, <3>2
  <2>2. CASE B # {}
    <3>1. B \in SUBSET Nat
      BY <1>1
    <3>2. PICK q0 \in B : \A q \in B : q0 <= q
      BY <2>2, <3>1, LeastIndex
    <3>3. q0 \in 1 .. n /\ ~(F(q0) <= k)
      OBVIOUS
    <3>4. q0 - 1 \in 0 .. n /\ q0 - 1 + 1 = q0
      BY <1>1, <3>3
    <3>5. \A q \in 1 .. q0 - 1 : F(q) <= k
      <4> SUFFICES ASSUME NEW q \in 1 .. q0 - 1, ~(F(q) <= k) PROVE FALSE
        OBVIOUS
      <4>1. q \in B /\ ~(q0 <= q)
        BY <1>1, <3>3
      <4> QED BY <3>2, <4>1
    <3> HIDE DEF B
    <3> QED BY <3>3, <3>4, <3>5
  <2> QED BY <2>1, <2>2
<1>4. PICK m \in 0 .. n : (\A q \in 1 .. m : F(q) <= k) /\ (m < n => ~(F(m + 1) <= k))
  BY <1>3
<1>5. part = 1 .. m /\ m \in Nat
  <2>1. ASSUME NEW p \in 1 .. m PROVE p \in part
    <3>1. p \in 1 .. n /\ \A q \in 1 .. p : q \in 1 .. m
      BY <1>1
    <3> QED BY <1>1, <1>4, <3>1
  <2>2. ASSUME NEW p \in part PROVE p \in 1 .. m
    <3>1. p \in 1 .. n /\ \A q \in 1 .. p : F(q) <= k
      BY <1>1
    <3> SUFFICES ASSUME p \notin 1 .. m PROVE FALSE
      OBVIOUS
    <3>2. m < n /\ m + 1 \in 1 .. p
      BY <1>1, <3>1
    <3> QED BY <1>4, <3>1, <3>2
  <2>3. m \in Nat
    BY <1>1
  <2> HIDE DEF part
  <2> QED BY <2>1, <2>2, <2>3
<1> HIDE DEF part
<1>6. Cardinality(part) = m
  <2>1. 1 \in Int /\ m \in Int
    BY <1>5
  <2>2. Cardinality(1 .. m) = IF 1 > m THEN 0 ELSE m - 1 + 1
    BY ONLY <2>1, FS_Interval
  <2> QED BY ONLY <1>5, <2>2
<1>7. PICK idx : idx = IF part = {} THEN 1 ELSE Cardinality(part)
  OBVIOUS
<1>8. SeekToKey(src, run, k) = IF idx > n THEN NoIter
                               ELSE MoveUntilValid(src, run, idx, SeekKey(src[run[idx]], k))
  BY <1>7 DEF SeekToKey, n, part
<1>9. (m = 0 => idx = 1) /\ (m # 0 => idx = m)
  <2>1. m # 0 => part # {}
    BY <1>5
  <2>2. m = 0 => part = {}
    BY <1>5
  <2> QED BY <1>6, <1>7, <2>1, <2>2
<1> HIDE DEF S, F
<1>10. CASE n = 0
  <2>1. idx > n /\ DOMAIN run = {}
    BY <1>1, <1>9, <1>10
  <2>2. RunAt(src, run, k) = NoIter
    BY <2>1 DEF RunAt
  <2> QED BY <1>8, <2>1, <2>2
<1>11. CASE n # 0
  <2>1. idx \in 1 .. n /\ ~(idx > n) /\ idx \in Nat
    BY <1>1, <1>9, <1>11
  <2>2. ASSUME NEW j \in 1 .. n, j < idx PROVE \A a \in S(j) : a < k
    <3>1. idx = m /\ m \in 1 .. m /\ F(idx) <= k
      BY <1>4, <1>5, <1>9, <2>1, <2>2
    <3>2. F(idx) \in S(idx) /\ F(idx) \in Nat
      BY <1>1, <2>1
    <3> SUFFICES ASSUME NEW a \in S(j) PROVE a < k
      OBVIOUS
    <3>3. a < F(idx) /\ a \in Nat
      BY <1>1, <1>2, <2>1, <2>2, <3>2
    <3> QED BY <3>1, <3>2, <3>3
  <2>3. ASSUME NEW j \in 1 .. n, idx < j PROVE \A a \in S(j) : k <= a /\ k < a
    <3>1. m < n /\ m + 1 \in 1 .. n /\ (m + 1 = j \/ m + 1 < j)
      BY <1>1, <1>5, <1>9, <2>1, <2>3
    <3>2. ~(F(m + 1) <= k) /\ F(m + 1) \in Nat /\ F(m + 1) \in S(m + 1)
      BY <1>1, <1>4, <3>1
    <3> SUFFICES ASSUME NEW a \in S(j) PROVE k <= a /\ k < a
      OBVIOUS
    <3>3. a \in Nat /\ (F(m + 1) <= a \/ F(m + 1) < a)
      BY <1>1, <1>2, <3>1, <3>2
    <3> QED BY <3>2, <3>3
  <2>4. PICK s : s = SeekKey(src[run[idx]], k)
    OBVIOUS
  <2>5. Leads(src[run[idx]], k, s)
    BY <2>4, SeekLeads
  <2> DEFINE later == {j \in 1 .. n : j > idx /\ S(j) # {}}
  <2>6. SeekToKey(src, run, k) =
          IF s # NoKey THEN [tables |-> run, current |-> idx, key |-> s]
          ELSE IF later = {} THEN NoIter
          ELSE [tables |-> run, current |-> Min(later), key |-> F(Min(later))]
    BY <1>1, <1>8, <2>1, <2>4 DEF MoveUntilValid, S, F
  <2>7. CASE s # NoKey
    <3>1. s \in S(idx) /\ k <= s /\ \A a \in S(idx) : a < k \/ s <= a
      BY <2>5, <2>7 DEF Leads, S
    <3>2. RunAt(src, run, k) = [tables |-> run, current |-> idx, key |-> s]
      BY <1>1, <2>1, <2>2, <3>1, RunAtOnly DEF S
    <3> QED BY <2>6, <2>7, <3>2
  <2>8. CASE s = NoKey
    <3>1. \A a \in S(idx) : a < k
      <4>1. NoKey \notin S(idx)
        BY NoKeyIs DEF KeysOfTable, S
      <4> QED BY <2>5, <2>8, <4>1 DEF Leads, S
    <3>2. ASSUME NEW j \in 1 .. n, j <= idx PROVE \A a \in S(j) : a < k
      <4>1. j = idx \/ j < idx
        BY <2>1, <3>2
      <4> QED BY <2>2, <3>1, <4>1
    <3>3. CASE later = {}
      <4>1. \A j \in 1 .. n : j <= idx
        <5> SUFFICES ASSUME NEW j \in 1 .. n, j > idx PROVE FALSE
          BY <1>1, <2>1
        <5> QED BY <1>1, <3>3
      <4>2. RunAt(src, run, k) = NoIter
        BY <1>1, <3>2, <4>1, RunAtOnly DEF S
      <4> QED BY <2>6, <2>8, <3>3, <4>2
    <3>4. CASE later # {}
      <4>1. later \in SUBSET Nat /\ \A j \in 1 .. n : j \in later <=> idx < j
        BY <1>1, <2>1
      <4>2. PICK h : h = Min(later)
        OBVIOUS
      <4>3. h \in later /\ \A j \in later : h <= j
        <5> HIDE DEF later
        <5>1. PICK x \in later : \A j \in later : x <= j
          BY <3>4, <4>1, LeastIndex
        <5> QED BY <4>2, <5>1 DEF Min
      <4>4. h \in 1 .. n /\ idx < h /\ h \in Nat
        BY <4>1, <4>3
      <4> HIDE DEF later
      <4>5. ASSUME NEW j \in 1 .. n, j < h PROVE \A a \in S(j) : a < k
        <5>1. j \notin later
          BY <4>3, <4>4, <4>5
        <5>2. j <= idx
          BY <2>1, <4>1, <5>1
        <5> QED BY <3>2, <5>2
      <4>6. F(h) \in S(h) /\ k <= F(h) /\ \A a \in S(h) : a < k \/ F(h) <= a
        BY <1>1, <2>3, <4>4
      <4>7. RunAt(src, run, k) = [tables |-> run, current |-> h, key |-> F(h)]
        <5>1. PICK x : x = F(h)
          OBVIOUS
        <5>2. /\ h \in DOMAIN run /\ x \in KeysOfTable(src[run[h]]) /\ k <= x
              /\ \A a \in KeysOfTable(src[run[h]]) : a < k \/ x <= a
              /\ \A j \in DOMAIN run : j < h => \A a \in KeysOfTable(src[run[j]]) : a < k
          BY <1>1, <4>4, <4>5, <4>6, <5>1 DEF S
        <5>3. RunAt(src, run, k) = [tables |-> run, current |-> h, key |-> x]
          BY <5>2, RunAtOnly
        <5> QED BY <5>1, <5>3
      <4> QED BY <2>6, <2>8, <3>4, <4>2, <4>7
    <3> QED BY <3>3, <3>4
  <2> QED BY <2>7, <2>8
<1> QED BY <1>10, <1>11

-----------------------------------------------------------------------------
(* MergeIterator *)

(* Iterators that stand at keys, each listed once. *)
Waiting(heap) ==
  /\ \A w \in heap : w.index \in Nat /\ w.iter.key \in Nat
  /\ \A v, w \in heap : v.index = w.index => v = w

(* Of two of them one comes first. *)
LEMMA PrecedesOrder ==
  ASSUME NEW heap, Waiting(heap), NEW u \in heap, NEW v \in heap, NEW w \in heap
  PROVE  /\ u # v => Precedes(u, v) \/ Precedes(v, u)
         /\ ~(Precedes(u, v) /\ Precedes(v, u))
         /\ Precedes(u, v) /\ Precedes(v, w) => Precedes(u, w)
<1>1. /\ \A x \in {u, v, w} : x.index \in Nat /\ x.iter.key \in Nat
      /\ u # v => u.index # v.index
  BY DEF Waiting
<1> QED BY <1>1 DEF Precedes

(* The top of the heap is the one that comes first. *)
LEMMA HeapFrontIs ==
  ASSUME NEW heap, Waiting(heap), heap # {}
  PROVE  /\ HeapFront(heap) \in heap
         /\ \A v \in heap \ {HeapFront(heap)} : Precedes(HeapFront(heap), v)
         /\ \A w \in heap : (\A v \in heap \ {w} : Precedes(w, v)) => w = HeapFront(heap)
<1> DEFINE ks == {w.iter.key : w \in heap}
<1>1. ks \in SUBSET Nat /\ ks # {}
  BY DEF Waiting
<1>2. PICK k \in ks : \A j \in ks : k <= j
  BY <1>1, LeastIndex
<1> DEFINE is == {w.index : w \in {v \in heap : v.iter.key = k}}
<1>3. is \in SUBSET Nat /\ is # {}
  BY DEF Waiting
<1>4. PICK i \in is : \A j \in is : i <= j
  BY <1>3, LeastIndex
<1>5. PICK x \in heap : x.iter.key = k /\ x.index = i
  OBVIOUS
<1>6. ASSUME NEW v \in heap \ {x} PROVE Precedes(x, v)
  <2>1. v.iter.key \in ks /\ k <= v.iter.key
    BY <1>2
  <2>2. v.iter.key = k => v.index \in is /\ i <= v.index
    BY <1>4
  <2>3. v.index # x.index
    BY DEF Waiting
  <2>4. x.index \in Nat /\ v.index \in Nat /\ v.iter.key \in Nat /\ x.iter.key \in Nat
    BY DEF Waiting
  <2> QED BY ONLY <1>5, <2>1, <2>2, <2>3, <2>4 DEF Precedes
<1>7. HeapFront(heap) \in heap /\ \A v \in heap \ {HeapFront(heap)} : Precedes(HeapFront(heap), v)
  BY <1>6 DEF HeapFront
<1>8. PICK h : h = HeapFront(heap)
  OBVIOUS
<1>9. ASSUME NEW w \in heap, \A v \in heap \ {w} : Precedes(w, v) PROVE w = h
  <2> SUFFICES ASSUME w # h PROVE FALSE
    OBVIOUS
  <2>1. Precedes(w, h) /\ Precedes(h, w) /\ h \in heap
    BY <1>7, <1>8, <1>9
  <2> QED BY <2>1, PrecedesOrder
<1> QED BY <1>7, <1>8, <1>9

(* Runs of tables, and what they hold together, the first one over the     *)
(* others.                                                                 *)
RunsInOrder(src, runs) ==
  Len(runs) \in Nat /\ DOMAIN runs = 1 .. Len(runs) /\ \A i \in DOMAIN runs : InOrder(src, runs[i])

MergeTable(src, runs) == Merge([i \in DOMAIN runs |-> RunTable(src, runs[i])])

(* The merge of iterators that stand at the first key of their run from f  *)
(* on.                                                                     *)
HeapAt(src, runs, f) ==
  {[index |-> i, iter |-> RunAt(src, runs[i], f)] :
     i \in {j \in DOMAIN runs : RunAt(src, runs[j], f).key # NoKey}}

MergeAt(src, runs, f) == PopHeap(HeapAt(src, runs, f))

(* A run ends at no key or stands at a key. *)
LEMMA RunAtKey ==
  ASSUME NEW src, NEW run, InOrder(src, run), NEW f \in Nat
  PROVE  LET k == RunAt(src, run, f).key IN k = NoKey \/ (k \in Keys /\ k \in Nat /\ f <= k)
<1>1. PICK c : c = RunAt(src, run, f)
  OBVIOUS
<1>2. Leads(RunTable(src, run), f, c.key)
  BY <1>1, RunReads
<1>3. c.key = NoKey \/ (c.key \in KeysOfTable(RunTable(src, run)) /\ f <= c.key)
  BY <1>2 DEF Leads
<1> QED BY <1>1, <1>3, KeysAssumption DEF KeysOfTable

(* The members of the heap. *)
LEMMA HeapAtIs ==
  ASSUME NEW src, NEW runs, RunsInOrder(src, runs), NEW f \in Nat
  PROVE  /\ Waiting(HeapAt(src, runs, f))
         /\ \A w : w \in HeapAt(src, runs, f) <=>
                     \E i \in DOMAIN runs : /\ w = [index |-> i, iter |-> RunAt(src, runs[i], f)]
                                            /\ RunAt(src, runs[i], f).key # NoKey
<1>1. \A w : w \in HeapAt(src, runs, f) <=>
               \E i \in DOMAIN runs : /\ w = [index |-> i, iter |-> RunAt(src, runs[i], f)]
                                      /\ RunAt(src, runs[i], f).key # NoKey
  BY DEF HeapAt
<1>2. ASSUME NEW i \in DOMAIN runs, RunAt(src, runs[i], f).key # NoKey
      PROVE  i \in Nat /\ RunAt(src, runs[i], f).key \in Nat
  <2>1. i \in Nat /\ InOrder(src, runs[i])
    BY DEF RunsInOrder
  <2> QED BY <1>2, <2>1, RunAtKey
<1> QED BY <1>1, <1>2 DEF Waiting

(* The merge is created from the iterators of the runs. *)
LEMMA MergeCreateIs ==
  ASSUME NEW src, NEW runs, NEW f, NEW iters, DOMAIN iters = DOMAIN runs,
         \A i \in DOMAIN runs : iters[i] = RunAt(src, runs[i], f)
  PROVE  MergeCreate(iters) = MergeAt(src, runs, f)
<1> DEFINE h == {[index |-> i, iter |-> iters[i]] : i \in {j \in DOMAIN iters : iters[j].key # NoKey}}
<1>1. h = HeapAt(src, runs, f)
  BY DEF HeapAt
<1>2. MergeCreate(iters) = PopHeap(h)
  BY DEF MergeCreate
<1> HIDE DEF h
<1> QED BY <1>1, <1>2 DEF MergeAt

(* The merge reads the runs as if they were one table. *)
LEMMA MergeReads ==
  ASSUME NEW src, NEW runs, RunsInOrder(src, runs), NEW f \in Nat, NEW m, m = MergeAt(src, runs, f)
  PROVE  /\ Leads(MergeTable(src, runs), f, MergeKey(m))
         /\ MergeKey(m) # NoKey => MergeEntry(src, m) = MergeTable(src, runs)[MergeKey(m)]
<1> DEFINE ts == [i \in DOMAIN runs |-> RunTable(src, runs[i])]
           R(i) == RunAt(src, runs[i], f)
           T == MergeTable(src, runs)
           H == HeapAt(src, runs, f)
<1>1. /\ DOMAIN runs \in SUBSET Nat /\ DOMAIN ts = DOMAIN runs
      /\ \A i \in DOMAIN runs : ts[i] = RunTable(src, runs[i])
  BY DEF RunsInOrder
<1>2. \A i \in DOMAIN runs : /\ Leads(ts[i], f, R(i).key)
                             /\ R(i).key # NoKey => ConcatEntry(src, R(i)) = ts[i][R(i).key]
  <2> SUFFICES ASSUME NEW i \in DOMAIN runs
               PROVE  /\ Leads(RunTable(src, runs[i]), f, R(i).key)
                      /\ R(i).key # NoKey =>
                           ConcatEntry(src, R(i)) = RunTable(src, runs[i])[R(i).key]
    BY <1>1
  <2>1. InOrder(src, runs[i])
    BY DEF RunsInOrder
  <2> QED BY <2>1, RunReads
<1>3. \A k \in Keys : T[k] = FirstHit(ts, k)
  BY DEF MergeTable, Merge
<1>4. /\ Waiting(H)
      /\ \A w : w \in H <=> \E i \in DOMAIN runs : w = [index |-> i, iter |-> R(i)] /\ R(i).key # NoKey
  BY HeapAtIs
<1>5. m = PopHeap(H)
  BY DEF MergeAt
<1> HIDE DEF ts, R, T, H
<1>6. ASSUME NEW k, k \in KeysOfTable(T)
      PROVE  \E i \in DOMAIN runs : k \in KeysOfTable(ts[i])
  <2>1. k \in Keys /\ FirstHit(ts, k) # Absent
    BY <1>3, <1>6 DEF KeysOfTable
  <2>2. \E i \in DOMAIN ts : ts[i][k] # Absent
    BY <2>1, FirstHitNone
  <2> QED BY <1>1, <2>1, <2>2 DEF KeysOfTable
<1>7. CASE H = {}
  <2>1. MergeKey(m) = NoKey
    BY <1>5, <1>7 DEF PopHeap, MergeKey, NoIter
  <2>2. ASSUME NEW i \in DOMAIN runs, NEW a \in KeysOfTable(ts[i]) PROVE a < f
    <3>1. R(i).key = NoKey
      BY <1>4, <1>7
    <3>2. NoKey \notin KeysOfTable(ts[i])
      BY NoKeyIs DEF KeysOfTable
    <3> QED BY <1>2, <3>1, <3>2 DEF Leads
  <2>3. \A a \in KeysOfTable(T) : a < f
    BY <1>6, <2>2
  <2> QED BY <2>1, <2>3 DEF Leads, T
<1>8. CASE H # {}
  <2>1. PICK w : w = HeapFront(H)
    OBVIOUS
  <2>2. w \in H /\ \A v \in H \ {w} : Precedes(w, v)
    BY <1>4, <1>8, <2>1, HeapFrontIs
  <2>3. m.current = w
    BY <1>5, <1>8, <2>1 DEF PopHeap
  <2>4. PICK i \in DOMAIN runs : w = [index |-> i, iter |-> R(i)] /\ R(i).key # NoKey
    BY <1>4, <2>2
  <2>5. PICK k : k = R(i).key
    OBVIOUS
  <2>6. MergeKey(m) = k /\ MergeEntry(src, m) = ts[i][k]
    BY <1>2, <2>3, <2>4, <2>5 DEF MergeKey, MergeEntry
  <2>7. k \in KeysOfTable(ts[i]) /\ f <= k /\ k # NoKey
    BY <1>2, <2>4, <2>5 DEF Leads
  <2>8. k \in Keys /\ k \in Nat /\ ts[i][k] # Absent /\ i \in Nat
    BY <1>1, <2>7, KeysAssumption DEF KeysOfTable
  <2>9. ASSUME NEW j \in DOMAIN runs, NEW a \in KeysOfTable(ts[j]), ~(a < f)
        PROVE  k <= a /\ (j < i => k < a)
    <3>1. a \in Nat /\ R(j).key \in KeysOfTable(ts[j]) /\ R(j).key <= a
      <4>1. a \in Nat
        BY KeysAssumption DEF KeysOfTable
      <4> QED BY <1>2, <2>9, <4>1 DEF Leads
    <3>2. R(j).key \in Nat /\ R(j).key # NoKey
      BY <3>1, KeysAssumption, NoKeyIs DEF KeysOfTable
    <3>3. [index |-> j, iter |-> R(j)] \in H
      BY <1>4, <3>2
    <3>4. j \in Nat
      BY <1>1
    <3>5. CASE j = i
      <4>1. R(j).key = k
        BY <2>5, <3>5
      <4> QED BY ONLY <2>8, <3>1, <3>2, <3>4, <3>5, <4>1
    <3>6. CASE j # i
      <4>1. PICK v : v = [index |-> j, iter |-> R(j)]
        OBVIOUS
      <4>2. v.index = j /\ v.iter.key = R(j).key /\ w.index = i /\ w.iter.key = k
        BY <2>4, <2>5, <4>1
      <4>3. Precedes(w, v)
        BY <2>2, <3>3, <3>6, <4>1, <4>2
      <4>4. k < R(j).key \/ (k = R(j).key /\ i < j)
        BY <4>2, <4>3 DEF Precedes
      <4> QED BY ONLY <2>8, <3>1, <3>2, <3>4, <4>4
    <3> QED BY <3>5, <3>6
  <2>10. T[k] = ts[i][k] /\ k \in KeysOfTable(T)
    <3>1. ASSUME NEW j \in DOMAIN ts, j < i PROVE ts[j][k] = Absent
      <4> SUFFICES ASSUME ts[j][k] # Absent PROVE FALSE
        OBVIOUS
      <4>1. k \in KeysOfTable(ts[j]) /\ ~(k < f) /\ j \in DOMAIN runs
        BY <1>1, <2>7, <2>8 DEF KeysOfTable
      <4>2. k < k
        BY <2>9, <3>1, <4>1
      <4> QED BY <2>8, <4>2
    <3>2. FirstHit(ts, k) = ts[i][k]
      BY <1>1, <2>8, <3>1, FirstHitAt
    <3> QED BY <1>3, <2>8, <3>2 DEF KeysOfTable
  <2>11. ASSUME NEW a \in KeysOfTable(T) PROVE a < f \/ k <= a
    BY <1>6, <2>9
  <2> QED BY <2>6, <2>7, <2>10, <2>11 DEF Leads, T
<1> QED BY <1>7, <1>8

(* Each iterator of a merge is at its end or not before the merge. *)
LEMMA MergeBehind ==
  ASSUME NEW src, NEW runs, RunsInOrder(src, runs), NEW f \in Nat,
         NEW k, k = MergeKey(MergeAt(src, runs, f)), NEW i \in DOMAIN runs
  PROVE  \/ RunAt(src, runs[i], f).key = NoKey
         \/ k \in Nat /\ k <= RunAt(src, runs[i], f).key
<1> DEFINE H == HeapAt(src, runs, f)
<1> SUFFICES ASSUME RunAt(src, runs[i], f).key # NoKey
             PROVE  k \in Nat /\ k <= RunAt(src, runs[i], f).key
  OBVIOUS
<1>1. PICK v : v = [index |-> i, iter |-> RunAt(src, runs[i], f)]
  OBVIOUS
<1>2. v \in H /\ Waiting(H)
  BY <1>1, HeapAtIs
<1>3. MergeAt(src, runs, f) = PopHeap(H)
  BY DEF MergeAt
<1> HIDE DEF H
<1>4. PICK w : w = HeapFront(H)
  OBVIOUS
<1>5. w \in H /\ \A x \in H \ {w} : Precedes(w, x)
  BY <1>2, <1>4, HeapFrontIs
<1>6. k = w.iter.key
  BY <1>2, <1>3, <1>4 DEF PopHeap, MergeKey
<1>7. v.iter.key \in Nat /\ w.iter.key \in Nat
  BY <1>2, <1>5 DEF Waiting
<1>8. v = w \/ Precedes(w, v)
  BY <1>2, <1>5
<1>9. w.iter.key <= v.iter.key
  BY ONLY <1>7, <1>8 DEF Precedes
<1> QED BY <1>1, <1>6, <1>7, <1>9

(* A merge that stands beyond g stands where a seek to g ends. *)
LEMMA MergeStays ==
  ASSUME NEW src, NEW runs, RunsInOrder(src, runs), NEW f \in Nat, NEW g \in Nat, f <= g,
         NEW k, k = MergeKey(MergeAt(src, runs, f)), k = NoKey \/ g <= k
  PROVE  MergeAt(src, runs, g) = MergeAt(src, runs, f)
<1>1. ASSUME NEW i \in DOMAIN runs PROVE RunAt(src, runs[i], g) = RunAt(src, runs[i], f)
  <2>1. InOrder(src, runs[i])
    BY DEF RunsInOrder
  <2>2. PICK r : r = RunAt(src, runs[i], f).key
    OBVIOUS
  <2>3. r = NoKey \/ (k \in Nat /\ k <= r)
    BY <2>2, MergeBehind
  <2>4. r = NoKey \/ (r \in Nat /\ f <= r)
    BY <2>1, <2>2, RunAtKey
  <2>5. r = NoKey \/ g <= r
    <3>1. k \in Nat => k # NoKey
      BY NoKeyIs
    <3> QED BY <2>3, <2>4, <3>1
  <2> QED BY <2>1, <2>2, <2>5, RunStays
<1>2. HeapAt(src, runs, g) = HeapAt(src, runs, f)
  BY <1>1 DEF HeapAt
<1> QED BY <1>2 DEF MergeAt

(* A heap and one more iterator: the top of the larger heap. *)
LEMMA FrontOfMore ==
  ASSUME NEW rest, NEW cur, cur \notin rest, NEW all, all = rest \cup {cur}, Waiting(all)
  PROVE  PopHeap(all) =
           IF rest # {} /\ Precedes(HeapFront(rest), cur)
             THEN [current |-> HeapFront(rest), heap |-> (rest \ {HeapFront(rest)}) \cup {cur}]
             ELSE [current |-> cur, heap |-> rest]
<1>1. PICK a, h : a = HeapFront(all) /\ h = HeapFront(rest)
  OBVIOUS
<1>2. PopHeap(all) = [current |-> a, heap |-> all \ {a}]
  BY <1>1 DEF PopHeap
<1>3. a \in all /\ \A w \in all : (\A v \in all \ {w} : Precedes(w, v)) => w = a
  BY <1>1, HeapFrontIs
<1>4. rest # {} => h \in rest /\ \A v \in rest \ {h} : Precedes(h, v)
  <2>1. Waiting(rest)
    BY DEF Waiting
  <2> QED BY <1>1, <2>1, HeapFrontIs
<1>5. CASE rest # {} /\ Precedes(h, cur)
  <2>1. h = a
    BY <1>3, <1>4, <1>5
  <2>2. all \ {h} = (rest \ {h}) \cup {cur}
    BY <1>4, <1>5
  <2> QED BY <1>1, <1>2, <1>5, <2>1, <2>2
<1>6. CASE rest = {}
  <2>1. cur = a /\ all \ {cur} = rest
    BY <1>3, <1>6
  <2> QED BY <1>2, <1>6, <2>1
<1>7. CASE rest # {} /\ ~Precedes(h, cur)
  <2>1. h \in all /\ cur \in all /\ h # cur
    BY <1>4, <1>7
  <2>2. Precedes(cur, h)
    BY <1>7, <2>1, PrecedesOrder
  <2>3. ASSUME NEW v \in rest PROVE Precedes(cur, v)
    <3>1. v = h \/ Precedes(h, v)
      BY <1>4
    <3>2. v \in all
      OBVIOUS
    <3> QED BY <2>1, <2>2, <3>1, <3>2, PrecedesOrder
  <2>4. cur = a /\ all \ {cur} = rest
    <3>1. all \ {cur} = rest
      OBVIOUS
    <3> QED BY <1>3, <2>1, <2>3, <3>1
  <2> QED BY <1>1, <1>2, <1>7, <2>4
<1> QED BY <1>5, <1>6, <1>7

(* next() of a merge passes the key in all of its iterators. *)
LEMMA MergeNextIs ==
  ASSUME NEW src, NEW runs, RunsInOrder(src, runs), NEW f \in Nat, NEW m, m = MergeAt(src, runs, f),
         NEW k, k = MergeKey(m), k # NoKey
  PROVE  MergeNext(src, m) = MergeAt(src, runs, k + 1)
<1> DEFINE R(i) == RunAt(src, runs[i], f)
           N(i) == RunAt(src, runs[i], k + 1)
           H == HeapAt(src, runs, f)
           G == HeapAt(src, runs, k + 1)
<1>1. k \in Nat /\ k + 1 \in Nat /\ f <= k /\ f <= k + 1
  <2>1. Leads(MergeTable(src, runs), f, k)
    BY MergeReads
  <2>2. k \in KeysOfTable(MergeTable(src, runs)) /\ f <= k
    BY <2>1 DEF Leads
  <2>3. k \in Nat
    BY <2>2, KeysAssumption DEF KeysOfTable
  <2> QED BY <2>2, <2>3
<1>2. /\ Waiting(H)
      /\ \A w : w \in H <=> \E i \in DOMAIN runs : w = [index |-> i, iter |-> R(i)] /\ R(i).key # NoKey
  BY HeapAtIs
<1>3. /\ Waiting(G)
      /\ \A w : w \in G <=> \E i \in DOMAIN runs : w = [index |-> i, iter |-> N(i)] /\ N(i).key # NoKey
  BY <1>1, HeapAtIs
<1>4. ASSUME NEW i \in DOMAIN runs
      PROVE  /\ R(i).key = NoKey => N(i) = R(i)
             /\ R(i).key = k => N(i) = ConcatNext(src, R(i))
             /\ R(i).key # k => N(i) = R(i)
  <2>1. InOrder(src, runs[i])
    BY DEF RunsInOrder
  <2>2. PICK c : c = R(i)
    OBVIOUS
  <2>3. c.key = NoKey \/ (k <= c.key /\ c.key \in Nat)
    BY <2>1, <2>2, MergeBehind, RunAtKey
  <2>4. CASE c.key = k
    <3>1. ConcatNext(src, c) = RunAt(src, runs[i], c.key + 1)
      BY <2>1, <2>2, <2>4, ConcatNextIs
    <3> QED BY <2>2, <2>4, <3>1
  <2>5. CASE c.key # k
    <3>1. c.key = NoKey \/ k + 1 <= c.key
      BY <1>1, <2>3, <2>5
    <3>2. RunAt(src, runs[i], k + 1) = RunAt(src, runs[i], f)
      BY <1>1, <2>1, <2>2, <3>1, RunStays
    <3> QED BY <2>2, <2>5, <3>2
  <2> QED BY <2>2, <2>4, <2>5
<1>5. m = PopHeap(H) /\ MergeAt(src, runs, k + 1) = PopHeap(G)
  BY DEF MergeAt
<1> HIDE DEF R, N, H, G
<1>6. H # {}
  BY <1>5 DEF PopHeap, MergeKey, NoIter
<1>7. PICK w : w = HeapFront(H)
  OBVIOUS
<1>8. w \in H /\ \A v \in H \ {w} : Precedes(w, v)
  BY <1>2, <1>6, <1>7, HeapFrontIs
<1>9. m.current = w /\ m.heap = H \ {w} /\ w.iter.key = k
  BY <1>5, <1>6, <1>7 DEF PopHeap, MergeKey
<1>10. PICK heap : heap = H \ {w}
  OBVIOUS
<1> DEFINE same == {v \in heap : v.iter.key = k}
           equal == IF heap # {} /\ HeapFront(heap).iter.key = k THEN same ELSE {}
<1>11. equal = same
  <2> SUFFICES ASSUME NEW v \in heap, v.iter.key = k PROVE HeapFront(heap).iter.key = k
    OBVIOUS
  <2>1. Waiting(heap)
    BY <1>2, <1>10 DEF Waiting
  <2>2. PICK h : h = HeapFront(heap)
    OBVIOUS
  <2>3. h \in heap /\ (v = h \/ Precedes(h, v))
    BY <2>1, <2>2, HeapFrontIs
  <2>4. Precedes(w, h)
    BY <1>8, <1>10, <2>3
  <2>5. h.iter.key \in Nat /\ v.iter.key \in Nat
    BY <2>1, <2>3 DEF Waiting
  <2> QED BY <1>1, <1>9, <2>2, <2>3, <2>4, <2>5 DEF Precedes
<1> DEFINE moved == {x \in {Advance(src, v) : v \in same} : x.iter.key # NoKey}
           rest == (heap \ same) \cup moved
<1>12. PICK cur : cur = Advance(src, w)
  OBVIOUS
<1>13. MergeNext(src, m) =
         IF cur.iter.key = NoKey THEN PopHeap(rest)
         ELSE IF rest # {} /\ Precedes(HeapFront(rest), cur)
           THEN [current |-> HeapFront(rest), heap |-> (rest \ {HeapFront(rest)}) \cup {cur}]
         ELSE [current |-> cur, heap |-> rest]
  <2>1. MergeNext(src, m) =
          LET r == (heap \ equal) \cup {x \in {Advance(src, v) : v \in equal} : x.iter.key # NoKey}
          IN  IF cur.iter.key = NoKey THEN PopHeap(r)
              ELSE IF r # {} /\ Precedes(HeapFront(r), cur)
                THEN [current |-> HeapFront(r), heap |-> (r \ {HeapFront(r)}) \cup {cur}]
              ELSE [current |-> cur, heap |-> r]
    BY <1>9, <1>10, <1>12 DEF MergeNext
  <2> HIDE DEF equal
  <2> QED BY <1>11, <2>1
<1>14. \A v \in H : \E i \in DOMAIN runs :
         /\ v = [index |-> i, iter |-> R(i)] /\ R(i).key # NoKey
         /\ v.iter.key = k => Advance(src, v) = [index |-> i, iter |-> N(i)]
         /\ v.iter.key # k => v = [index |-> i, iter |-> N(i)]
  <2> SUFFICES ASSUME NEW v \in H, NEW i \in DOMAIN runs,
                      v = [index |-> i, iter |-> R(i)], R(i).key # NoKey
               PROVE  /\ v.iter.key = k => Advance(src, v) = [index |-> i, iter |-> N(i)]
                      /\ v.iter.key # k => v = [index |-> i, iter |-> N(i)]
    BY <1>2
  <2> QED BY <1>4 DEF Advance
<1>15. PICK iw \in DOMAIN runs : w = [index |-> iw, iter |-> R(iw)] /\ cur = [index |-> iw, iter |-> N(iw)]
  BY <1>8, <1>9, <1>12, <1>14
<1>16. ASSUME NEW x PROVE x \in rest <=> x \in G /\ x.index # iw
  <2>1. ASSUME x \in rest PROVE x \in G /\ x.index # iw
    <3>1. PICK v \in heap : \/ v.iter.key # k /\ x = v
                            \/ v.iter.key = k /\ x = Advance(src, v) /\ x.iter.key # NoKey
      BY <2>1
    <3>2. v \in H /\ v # w
      BY <1>10, <3>1
    <3>3. PICK i \in DOMAIN runs :
            /\ v = [index |-> i, iter |-> R(i)] /\ R(i).key # NoKey
            /\ v.iter.key = k => Advance(src, v) = [index |-> i, iter |-> N(i)]
            /\ v.iter.key # k => v = [index |-> i, iter |-> N(i)]
      BY <1>14, <3>2
    <3>4. i # iw
      BY <1>15, <3>2, <3>3
    <3>5. x = [index |-> i, iter |-> N(i)] /\ x.iter.key # NoKey
      BY <3>1, <3>3
    <3>6. x.index = i /\ N(i).key # NoKey
      BY <3>5
    <3> QED BY <1>3, <3>4, <3>5, <3>6
  <2>2. ASSUME x \in G, x.index # iw PROVE x \in rest
    <3>1. PICK i \in DOMAIN runs : x = [index |-> i, iter |-> N(i)] /\ N(i).key # NoKey
      BY <1>3, <2>2
    <3>2. i # iw
      BY <2>2, <3>1
    <3>3. R(i).key # NoKey
      BY <1>4, <3>1
    <3>4. PICK v : v = [index |-> i, iter |-> R(i)]
      OBVIOUS
    <3>5. v \in H /\ v.index = i /\ v # w /\ v \in heap /\ v.iter = R(i)
      BY <1>2, <1>10, <1>15, <3>2, <3>3, <3>4
    <3>6. CASE R(i).key = k
      <4>1. Advance(src, v) = x
        BY <1>4, <3>1, <3>4, <3>6 DEF Advance
      <4>2. v \in same /\ x.iter.key # NoKey
        BY <3>1, <3>5, <3>6
      <4> QED BY <4>1, <4>2
    <3>7. CASE R(i).key # k
      <4>1. x = v
        BY <1>4, <3>1, <3>4, <3>7
      <4> QED BY <3>5, <3>7, <4>1
    <3> QED BY <3>6, <3>7
  <2> QED BY <2>1, <2>2
<1> HIDE DEF rest
<1>17. cur.index = iw /\ cur.iter = N(iw) /\ cur \notin rest
  BY <1>15, <1>16
<1>18. \A x \in G : x.index = iw => x = cur
  BY <1>3, <1>15
<1>19. CASE cur.iter.key = NoKey
  <2>1. cur \notin G
    BY <1>3, <1>15, <1>19
  <2>2. G = rest
    BY <1>16, <1>18, <2>1
  <2> QED BY <1>5, <1>13, <1>19, <2>2
<1>20. CASE cur.iter.key # NoKey
  <2>1. cur \in G
    BY <1>3, <1>15, <1>17, <1>20
  <2>2. G = rest \cup {cur}
    BY <1>16, <1>18, <2>1
  <2>3. PopHeap(G) = IF rest # {} /\ Precedes(HeapFront(rest), cur)
           THEN [current |-> HeapFront(rest), heap |-> (rest \ {HeapFront(rest)}) \cup {cur}]
           ELSE [current |-> cur, heap |-> rest]
    BY <1>3, <1>17, <2>2, FrontOfMore
  <2> QED BY <1>5, <1>13, <1>20, <2>3
<1> QED BY <1>19, <1>20

-----------------------------------------------------------------------------
(* TwoMergeIterator *)

(* A table over another one. *)
Over(t, u) == [k \in Keys |-> OrElse(t[k], u[k])]

(* Of two iterators at a and b the first one leads when its key is not the *)
(* larger one, and the second one when its key is smaller.                 *)
OverAt(t, u, f, a, b) ==
  /\ a = NoKey \/ (a \in Nat /\ f <= a /\ a \in KeysOfTable(t))
  /\ b = NoKey \/ (b \in Nat /\ f <= b /\ b \in KeysOfTable(u))
  /\ a # NoKey /\ (b = NoKey \/ a <= b) => Leads(Over(t, u), f, a) /\ Over(t, u)[a] = t[a]
  /\ b # NoKey /\ (a = NoKey \/ b < a) => Leads(Over(t, u), f, b) /\ Over(t, u)[b] = u[b]
  /\ a = NoKey /\ b = NoKey => Leads(Over(t, u), f, NoKey)

(* So it is with iterators that stand at the first key from f on. *)
LEMMA OverLeads ==
  ASSUME NEW t, NEW u, NEW f \in Nat, NEW a, NEW b, Leads(t, f, a), Leads(u, f, b)
  PROVE  OverAt(t, u, f, a, b)
<1> DEFINE S == KeysOfTable(t)
           U == KeysOfTable(u)
           V == KeysOfTable(Over(t, u))
<1>1. S \in SUBSET Nat /\ U \in SUBSET Nat /\ NoKey \notin S /\ NoKey \notin U
  BY KeysAssumption, NoKeyIs DEF KeysOfTable
<1>2. /\ \A k : k \in V <=> k \in S \/ k \in U
      /\ \A k \in S : Over(t, u)[k] = t[k]
      /\ \A k \in U : k \notin S => Over(t, u)[k] = u[k]
  BY DEF KeysOfTable, Over, OrElse, Absent
<1>3. /\ (a = NoKey /\ \A j \in S : j < f) \/ (a \in S /\ f <= a /\ \A j \in S : j < f \/ a <= j)
      /\ (b = NoKey /\ \A j \in U : j < f) \/ (b \in U /\ f <= b /\ \A j \in U : j < f \/ b <= j)
  BY DEF Leads
<1> HIDE DEF S, U, V
<1>4. a = NoKey \/ (a \in Nat /\ f <= a /\ a \in S)
  BY <1>1, <1>3
<1>5. b = NoKey \/ (b \in Nat /\ f <= b /\ b \in U)
  BY <1>1, <1>3
<1>6. ASSUME a # NoKey, b = NoKey \/ a <= b
      PROVE  Leads(Over(t, u), f, a) /\ Over(t, u)[a] = t[a]
  <2>1. a \in S /\ f <= a /\ \A j \in S : j < f \/ a <= j
    BY <1>3, <1>6
  <2>2. ASSUME NEW j \in U PROVE j < f \/ a <= j
    <3>1. j \in Nat /\ a \in Nat
      BY <1>1, <2>1
    <3>2. j < f \/ (b \in Nat /\ b # NoKey /\ b <= j)
      BY <1>1, <1>3
    <3> QED BY <1>6, <3>1, <3>2
  <2>3. a \in V /\ \A j \in V : j < f \/ a <= j
    BY <1>2, <2>1, <2>2
  <2> QED BY <1>2, <2>1, <2>3 DEF Leads, V
<1>7. ASSUME b # NoKey, a = NoKey \/ b < a
      PROVE  Leads(Over(t, u), f, b) /\ Over(t, u)[b] = u[b]
  <2>1. b \in U /\ f <= b /\ \A j \in U : j < f \/ b <= j
    BY <1>3, <1>7
  <2>2. ASSUME NEW j \in S PROVE j < f \/ b < j
    <3>1. j \in Nat /\ b \in Nat
      BY <1>1, <2>1
    <3>2. j < f \/ (a \in Nat /\ a # NoKey /\ a <= j)
      BY <1>1, <1>3
    <3> QED BY <1>7, <3>1, <3>2
  <2>3. b \notin S
    <3>1. b \in Nat /\ ~(b < f) /\ ~(b < b)
      BY <1>1, <2>1
    <3> QED BY <2>2, <3>1
  <2>4. ASSUME NEW j \in S PROVE j < f \/ b <= j
    <3>1. j \in Nat /\ b \in Nat
      BY <1>1, <2>1
    <3> QED BY <2>2, <3>1
  <2>5. b \in V /\ \A j \in V : j < f \/ b <= j
    BY <1>2, <2>1, <2>4
  <2> QED BY <1>2, <2>1, <2>3, <2>5 DEF Leads, V
<1>8. ASSUME a = NoKey, b = NoKey PROVE Leads(Over(t, u), f, NoKey)
  <2>1. \A j \in V : j < f
    BY <1>1, <1>2, <1>3, <1>8
  <2> QED BY <2>1 DEF Leads, V
<1> QED BY <1>4, <1>5, <1>6, <1>7, <1>8 DEF S, U, OverAt

(* The merge of two merges that stand at the first key from f on. *)
PairAt(src, as, bs, f) == PairCreate(src, MergeAt(src, as, f), MergeAt(src, bs, f))

PairTable(src, as, bs) == Over(MergeTable(src, as), MergeTable(src, bs))

(* Which half is read: the first at a, the second at b. *)
Halves(a, b, p, pa, pb) ==
  \/ /\ p.first /\ a # NoKey /\ (b = NoKey \/ a <= b) /\ pa = a
  \/ /\ ~p.first /\ b # NoKey /\ (a = NoKey \/ b < a) /\ pb = b
  \/ /\ ~p.first /\ a = NoKey /\ b = NoKey /\ pb = NoKey

(* A pair p whose halves stand at a and b: when both have the same key,    *)
(* the second one has passed it.                                           *)
PairIs(src, as, bs, f, a, b, p) ==
  /\ p.a = MergeAt(src, as, f)
  /\ p.b = IF a # NoKey /\ b = a THEN MergeAt(src, bs, a + 1) ELSE MergeAt(src, bs, f)
  /\ Halves(a, b, p, MergeKey(p.a), MergeKey(p.b))

(* So is the pair that stands at the first key from f on. *)
LEMMA PairAtIs ==
  ASSUME NEW src, NEW as, NEW bs, RunsInOrder(src, as), RunsInOrder(src, bs), NEW f \in Nat
  PROVE  PairIs(src, as, bs, f, MergeKey(MergeAt(src, as, f)), MergeKey(MergeAt(src, bs, f)),
                PairAt(src, as, bs, f))
<1>0. PICK a, b, p : /\ a = MergeKey(MergeAt(src, as, f)) /\ b = MergeKey(MergeAt(src, bs, f))
                     /\ p = PairAt(src, as, bs, f)
  OBVIOUS
<1> DEFINE A == MergeAt(src, as, f)
           B == MergeAt(src, bs, f)
           C == IF a # NoKey /\ b = a THEN MergeNext(src, B) ELSE B
<1>1. p = [a |-> A, b |-> C, first |-> a # NoKey /\ (MergeKey(C) = NoKey \/ a < MergeKey(C))]
  BY <1>0 DEF PairAt, PairCreate, TwoMerge, SkipB, ChooseA
<1>2. Leads(MergeTable(src, as), f, a) /\ Leads(MergeTable(src, bs), f, b)
  BY <1>0, MergeReads
<1>3. (a = NoKey \/ (a \in Nat /\ f <= a)) /\ (b = NoKey \/ (b \in Nat /\ f <= b))
  <2>1. OverAt(MergeTable(src, as), MergeTable(src, bs), f, a, b)
    BY <1>2, OverLeads
  <2> QED BY <2>1 DEF OverAt
<1>4. a # NoKey /\ b = a => MergeNext(src, B) = MergeAt(src, bs, a + 1)
  <2> SUFFICES ASSUME a # NoKey, b = a PROVE MergeNext(src, B) = MergeAt(src, bs, a + 1)
    OBVIOUS
  <2>1. PICK m : m = MergeAt(src, bs, f)
    OBVIOUS
  <2>2. a = MergeKey(m)
    BY <1>0, <2>1
  <2>3. MergeNext(src, m) = MergeAt(src, bs, a + 1)
    BY <2>1, <2>2, MergeNextIs
  <2> QED BY <2>1, <2>3
<1>5. C = IF a # NoKey /\ b = a THEN MergeAt(src, bs, a + 1) ELSE B
  BY <1>4
<1>6. PICK d : d = MergeKey(C)
  OBVIOUS
<1>7. a # NoKey /\ b = a => d = NoKey \/ (d \in Nat /\ a < d)
  <2> SUFFICES ASSUME a # NoKey, b = a PROVE d = NoKey \/ (d \in Nat /\ a < d)
    OBVIOUS
  <2>0. a \in Nat /\ C = MergeAt(src, bs, a + 1)
    BY <1>3, <1>5
  <2> HIDE DEF C
  <2>1. a + 1 \in Nat /\ d = MergeKey(MergeAt(src, bs, a + 1))
    BY <1>6, <2>0
  <2>2. Leads(MergeTable(src, bs), a + 1, d)
    BY <2>1, MergeReads
  <2>3. d = NoKey \/ (d \in Nat /\ a + 1 <= d)
    BY <2>1, <2>2, KeysAssumption DEF Leads, KeysOfTable
  <2> QED BY <2>0, <2>3
<1>8. ~(a # NoKey /\ b = a) => d = b
  BY <1>0, <1>6
<1> HIDE DEF C
<1>9. p.a = A /\ p.b = C /\ (p.first <=> a # NoKey /\ (d = NoKey \/ a < d))
  <2>1. p.a = A /\ p.b = C /\ p.first = (a # NoKey /\ (MergeKey(C) = NoKey \/ a < MergeKey(C)))
    BY <1>1
  <2> QED BY <1>6, <2>1, Zenon
<1>10. MergeKey(p.a) = a /\ MergeKey(p.b) = d
  BY <1>0, <1>6, <1>9
<1>11. Halves(a, b, p, a, d)
  <2>1. NoKey \notin Nat
    BY NoKeyIs
  <2>2. CASE a # NoKey /\ b = a
    BY ONLY <1>3, <1>7, <1>9, <2>1, <2>2 DEF Halves
  <2>3. CASE ~(a # NoKey /\ b = a)
    BY ONLY <1>3, <1>8, <1>9, <2>1, <2>3 DEF Halves
  <2> QED BY <2>2, <2>3
<1>12. PairIs(src, as, bs, f, a, b, p)
  BY <1>5, <1>9, <1>10, <1>11 DEF PairIs
<1> QED BY <1>0, <1>12

(* An iterator at key k with entry e reads a table from f on. *)
ReadsAs(t, f, k, e) == Leads(t, f, k) /\ (k # NoKey => e = t[k])

(* A pair reads the first half over the second one. *)
LEMMA PairReads ==
  ASSUME NEW src, NEW as, NEW bs, RunsInOrder(src, as), RunsInOrder(src, bs), NEW f \in Nat,
         NEW p, p = PairAt(src, as, bs, f)
  PROVE  ReadsAs(PairTable(src, as, bs), f, PairKey(p), PairEntry(src, p))
<1> DEFINE A == MergeAt(src, as, f)
           B == MergeAt(src, bs, f)
<1>1. PICK a, b : a = MergeKey(A) /\ b = MergeKey(B)
  OBVIOUS
<1>2. /\ p.a = A
      /\ p.b = IF a # NoKey /\ b = a THEN MergeAt(src, bs, a + 1) ELSE B
      /\ Halves(a, b, p, MergeKey(p.a), MergeKey(p.b))
  <2>1. PairIs(src, as, bs, f, a, b, p)
    BY <1>1, PairAtIs
  <2> QED BY <2>1 DEF PairIs
<1>3. /\ Leads(MergeTable(src, as), f, a) /\ Leads(MergeTable(src, bs), f, b)
      /\ a # NoKey => MergeEntry(src, A) = MergeTable(src, as)[a]
      /\ b # NoKey => MergeEntry(src, B) = MergeTable(src, bs)[b]
  BY <1>1, MergeReads
<1> HIDE DEF A, B
<1>4. PICK t, u : t = MergeTable(src, as) /\ u = MergeTable(src, bs)
  OBVIOUS
<1>5. Leads(t, f, a) /\ Leads(u, f, b) /\ PairTable(src, as, bs) = Over(t, u)
  BY <1>3, <1>4 DEF PairTable
<1>6. OverAt(t, u, f, a, b)
  BY <1>5, OverLeads
<1>7. CASE p.first /\ a # NoKey /\ (b = NoKey \/ a <= b) /\ MergeKey(p.a) = a
  <2>1. PairKey(p) = a /\ PairEntry(src, p) = MergeTable(src, as)[a]
    BY <1>2, <1>3, <1>7 DEF PairKey, PairEntry
  <2> QED BY <1>7, <1>4, <1>5, <1>6, <2>1 DEF OverAt, ReadsAs
<1>8. CASE ~p.first /\ b # NoKey /\ (a = NoKey \/ b < a) /\ MergeKey(p.b) = b
  <2>1. ~(a # NoKey /\ b = a)
    <3>1. a = NoKey \/ a \in Nat
      BY <1>6 DEF OverAt, ReadsAs
    <3> QED BY <1>8, <3>1
  <2>2. PairKey(p) = b /\ PairEntry(src, p) = MergeTable(src, bs)[b]
    BY <1>2, <1>3, <1>8, <2>1 DEF PairKey, PairEntry
  <2> QED BY <1>8, <1>4, <1>5, <1>6, <2>2 DEF OverAt, ReadsAs
<1>9. CASE ~p.first /\ a = NoKey /\ b = NoKey /\ MergeKey(p.b) = NoKey
  <2>1. PairKey(p) = NoKey
    BY <1>9 DEF PairKey
  <2> QED BY <1>9, <1>4, <1>5, <1>6, <2>1 DEF OverAt, ReadsAs
<1> QED BY <1>2, <1>7, <1>8, <1>9 DEF Halves

(* k is the smaller one of two keys from f on. *)
Behind(f, a, b, k) ==
  /\ a = NoKey \/ (a \in Nat /\ f <= a /\ k \in Nat /\ k <= a)
  /\ b = NoKey \/ (b \in Nat /\ f <= b /\ k \in Nat /\ k <= b)
  /\ k = a \/ k = b

(* So is the key of a pair. *)
LEMMA PairBehind ==
  ASSUME NEW src, NEW as, NEW bs, RunsInOrder(src, as), RunsInOrder(src, bs), NEW f \in Nat
  PROVE  Behind(f, MergeKey(MergeAt(src, as, f)), MergeKey(MergeAt(src, bs, f)),
                PairKey(PairAt(src, as, bs, f)))
<1>1. PICK p : p = PairAt(src, as, bs, f)
  OBVIOUS
<1>8. PICK a, b, k : /\ a = MergeKey(MergeAt(src, as, f)) /\ b = MergeKey(MergeAt(src, bs, f))
                     /\ k = PairKey(p)
  OBVIOUS
<1>2. Halves(a, b, p, MergeKey(p.a), MergeKey(p.b))
  <2>1. PairIs(src, as, bs, f, a, b, p)
    BY <1>1, <1>8, PairAtIs
  <2> QED BY <2>1 DEF PairIs
<1>3. k = IF p.first THEN MergeKey(p.a) ELSE MergeKey(p.b)
  BY <1>8 DEF PairKey
<1>4. Leads(MergeTable(src, as), f, a) /\ Leads(MergeTable(src, bs), f, b)
  BY <1>8, MergeReads
<1>5. OverAt(MergeTable(src, as), MergeTable(src, bs), f, a, b)
  BY <1>4, OverLeads
<1>6. (a = NoKey \/ (a \in Nat /\ f <= a)) /\ (b = NoKey \/ (b \in Nat /\ f <= b))
  BY <1>5 DEF OverAt
<1>7. NoKey \notin Nat
  BY NoKeyIs
<1>9. Behind(f, a, b, k)
  BY ONLY <1>2, <1>3, <1>6, <1>7 DEF Halves, Behind
<1> QED BY <1>1, <1>8, <1>9

(* A pair that stands beyond g stands where a seek to g ends. *)
LEMMA PairStays ==
  ASSUME NEW src, NEW as, NEW bs, RunsInOrder(src, as), RunsInOrder(src, bs), NEW f \in Nat,
         NEW g \in Nat, f <= g,
         NEW k, k = PairKey(PairAt(src, as, bs, f)), k = NoKey \/ g <= k
  PROVE  PairAt(src, as, bs, g) = PairAt(src, as, bs, f)
<1>1. PICK a, b : a = MergeKey(MergeAt(src, as, f)) /\ b = MergeKey(MergeAt(src, bs, f))
  OBVIOUS
<1>2. Behind(f, a, b, k)
  BY <1>1, PairBehind
<1>3. k \in Nat => g <= k
  BY NoKeyIs
<1>4. (a = NoKey \/ g <= a) /\ (b = NoKey \/ g <= b)
  BY ONLY <1>2, <1>3, g \in Nat DEF Behind
<1>5. MergeAt(src, as, g) = MergeAt(src, as, f) /\ MergeAt(src, bs, g) = MergeAt(src, bs, f)
  BY <1>1, <1>4, MergeStays
<1> QED BY <1>5 DEF PairAt

(* next() of a pair passes the key in both halves. *)
LEMMA PairNextIs ==
  ASSUME NEW src, NEW as, NEW bs, RunsInOrder(src, as), RunsInOrder(src, bs), NEW f \in Nat,
         NEW p, p = PairAt(src, as, bs, f), NEW k, k = PairKey(p), k # NoKey
  PROVE  PairNext(src, p) = PairAt(src, as, bs, k + 1)
<1>1. PICK a, b : a = MergeKey(MergeAt(src, as, f)) /\ b = MergeKey(MergeAt(src, bs, f))
  OBVIOUS
<1>2. /\ p.a = MergeAt(src, as, f)
      /\ p.b = IF a # NoKey /\ b = a THEN MergeAt(src, bs, a + 1) ELSE MergeAt(src, bs, f)
      /\ Halves(a, b, p, MergeKey(p.a), MergeKey(p.b))
  <2>1. PairIs(src, as, bs, f, a, b, p)
    BY <1>1, PairAtIs
  <2> QED BY <2>1 DEF PairIs
<1>3. /\ a = NoKey \/ (a \in Nat /\ f <= a /\ k \in Nat /\ k <= a)
      /\ b = NoKey \/ (b \in Nat /\ f <= b /\ k \in Nat /\ k <= b)
      /\ k = a \/ k = b
  <2>1. Behind(f, a, b, k)
    BY <1>1, PairBehind
  <2> QED BY <2>1 DEF Behind
<1>4. k \in Nat /\ k + 1 \in Nat /\ f <= k + 1 /\ NoKey \notin Nat
  <2>1. k \in Nat /\ f <= k
    BY <1>3
  <2> QED BY ONLY <2>1, f \in Nat, NoKeyIs
<1>5. PairNext(src, p) = IF p.first THEN PairCreate(src, MergeNext(src, p.a), p.b)
                         ELSE PairCreate(src, p.a, MergeNext(src, p.b))
  BY DEF PairNext, PairCreate, TwoNext
<1>6. CASE p.first
  <2>1. a # NoKey /\ (b = NoKey \/ a <= b) /\ k = a
    BY <1>1, <1>2, <1>6 DEF Halves, PairKey
  <2>2. MergeNext(src, MergeAt(src, as, f)) = MergeAt(src, as, k + 1)
    BY <1>1, <2>1, MergeNextIs
  <2>3. p.b = MergeAt(src, bs, k + 1)
    <3>1. CASE b = a
      BY <1>2, <2>1, <3>1
    <3>2. CASE b # a
      <4>1. b = NoKey \/ k + 1 <= b
        BY <1>3, <1>4, <2>1, <3>2
      <4>2. MergeAt(src, bs, k + 1) = MergeAt(src, bs, f)
        BY <1>1, <1>4, <4>1, MergeStays
      <4> QED BY <1>2, <3>2, <4>2
    <3> QED BY <3>1, <3>2
  <2> QED BY <1>2, <1>5, <1>6, <2>2, <2>3 DEF PairAt
<1>7. CASE ~p.first
  <2>1. b # NoKey /\ (a = NoKey \/ b < a) /\ k = b
    BY <1>2, <1>7 DEF Halves, PairKey
  <2>2. b # a
    BY <1>3, <2>1
  <2>3. p.b = MergeAt(src, bs, f)
    BY <1>2, <2>2
  <2>4. MergeNext(src, p.b) = MergeAt(src, bs, k + 1)
    BY <1>1, <2>1, <2>3, MergeNextIs
  <2>5. MergeAt(src, as, k + 1) = MergeAt(src, as, f)
    <3>1. a = NoKey \/ k + 1 <= a
      BY <1>3, <1>4, <2>1
    <3> QED BY <1>1, <1>4, <3>1, MergeStays
  <2> QED BY <1>2, <1>5, <1>7, <2>4, <2>5 DEF PairAt
<1> QED BY <1>6, <1>7

-----------------------------------------------------------------------------
(* The iterators of scan(): a pair over a merge, by the same arguments.    *)

(* The stack that stands at the first key from f on. *)
StackAt(src, as, bs, cs, f) == StackCreate(src, PairAt(src, as, bs, f), MergeAt(src, cs, f))

StackTable(src, as, bs, cs) == Over(PairTable(src, as, bs), MergeTable(src, cs))

(* A stack p whose pair stands at a and whose merge at b. *)
StackIs(src, as, bs, cs, f, a, b, p) ==
  /\ p.a = PairAt(src, as, bs, f)
  /\ p.b = IF a # NoKey /\ b = a THEN MergeAt(src, cs, a + 1) ELSE MergeAt(src, cs, f)
  /\ Halves(a, b, p, PairKey(p.a), MergeKey(p.b))

(* So is the stack that stands at the first key from f on. *)
LEMMA StackAtIs ==
  ASSUME NEW src, NEW as, NEW bs, NEW cs, RunsInOrder(src, as), RunsInOrder(src, bs),
         RunsInOrder(src, cs), NEW f \in Nat
  PROVE  StackIs(src, as, bs, cs, f, PairKey(PairAt(src, as, bs, f)),
                 MergeKey(MergeAt(src, cs, f)), StackAt(src, as, bs, cs, f))
<1>0. PICK a, b, p : /\ a = PairKey(PairAt(src, as, bs, f)) /\ b = MergeKey(MergeAt(src, cs, f))
                     /\ p = StackAt(src, as, bs, cs, f)
  OBVIOUS
<1> DEFINE A == PairAt(src, as, bs, f)
           B == MergeAt(src, cs, f)
           C == IF a # NoKey /\ b = a THEN MergeNext(src, B) ELSE B
<1>1. p = [a |-> A, b |-> C, first |-> a # NoKey /\ (MergeKey(C) = NoKey \/ a < MergeKey(C))]
  BY <1>0 DEF StackAt, StackCreate, TwoMerge, SkipB, ChooseA
<1>2. Leads(PairTable(src, as, bs), f, a) /\ Leads(MergeTable(src, cs), f, b)
  BY <1>0, PairReads, MergeReads DEF ReadsAs
<1>3. (a = NoKey \/ (a \in Nat /\ f <= a)) /\ (b = NoKey \/ (b \in Nat /\ f <= b))
  <2>1. OverAt(PairTable(src, as, bs), MergeTable(src, cs), f, a, b)
    BY <1>2, OverLeads
  <2> QED BY <2>1 DEF OverAt
<1>4. a # NoKey /\ b = a => MergeNext(src, B) = MergeAt(src, cs, a + 1)
  BY <1>0, MergeNextIs
<1>5. C = IF a # NoKey /\ b = a THEN MergeAt(src, cs, a + 1) ELSE B
  BY <1>4
<1>6. PICK d : d = MergeKey(C)
  OBVIOUS
<1>7. a # NoKey /\ b = a => d = NoKey \/ (d \in Nat /\ a < d)
  <2> SUFFICES ASSUME a # NoKey, b = a PROVE d = NoKey \/ (d \in Nat /\ a < d)
    OBVIOUS
  <2>0. a \in Nat /\ C = MergeAt(src, cs, a + 1)
    BY <1>3, <1>5
  <2> HIDE DEF C
  <2>1. a + 1 \in Nat /\ d = MergeKey(MergeAt(src, cs, a + 1))
    BY <1>6, <2>0
  <2>2. Leads(MergeTable(src, cs), a + 1, d)
    BY <2>1, MergeReads
  <2>3. d = NoKey \/ (d \in Nat /\ a + 1 <= d)
    BY <2>1, <2>2, KeysAssumption DEF Leads, KeysOfTable
  <2> QED BY <2>0, <2>3
<1>8. ~(a # NoKey /\ b = a) => d = b
  BY <1>0, <1>6
<1> HIDE DEF C
<1>9. p.a = A /\ p.b = C /\ (p.first <=> a # NoKey /\ (d = NoKey \/ a < d))
  <2>1. p.a = A /\ p.b = C /\ p.first = (a # NoKey /\ (MergeKey(C) = NoKey \/ a < MergeKey(C)))
    BY <1>1
  <2> QED BY <1>6, <2>1, Zenon
<1>10. PairKey(p.a) = a /\ MergeKey(p.b) = d
  BY <1>0, <1>6, <1>9
<1>11. Halves(a, b, p, a, d)
  <2>1. NoKey \notin Nat
    BY NoKeyIs
  <2>2. CASE a # NoKey /\ b = a
    BY ONLY <1>3, <1>7, <1>9, <2>1, <2>2 DEF Halves
  <2>3. CASE ~(a # NoKey /\ b = a)
    BY ONLY <1>3, <1>8, <1>9, <2>1, <2>3 DEF Halves
  <2> QED BY <2>2, <2>3
<1>12. StackIs(src, as, bs, cs, f, a, b, p)
  BY <1>5, <1>9, <1>10, <1>11 DEF StackIs
<1> QED BY <1>0, <1>12

(* A stack reads the pair over the merge. *)
LEMMA StackReads ==
  ASSUME NEW src, NEW as, NEW bs, NEW cs, RunsInOrder(src, as), RunsInOrder(src, bs),
         RunsInOrder(src, cs), NEW f \in Nat,
         NEW p, p = StackAt(src, as, bs, cs, f)
  PROVE  ReadsAs(StackTable(src, as, bs, cs), f, StackKey(p), StackEntry(src, p))
<1> DEFINE A == PairAt(src, as, bs, f)
           B == MergeAt(src, cs, f)
<1>1. PICK a, b : a = PairKey(A) /\ b = MergeKey(B)
  OBVIOUS
<1>2. /\ p.a = A
      /\ p.b = IF a # NoKey /\ b = a THEN MergeAt(src, cs, a + 1) ELSE B
      /\ Halves(a, b, p, PairKey(p.a), MergeKey(p.b))
  <2>1. StackIs(src, as, bs, cs, f, a, b, p)
    BY <1>1, StackAtIs
  <2> QED BY <2>1 DEF StackIs
<1>3. /\ Leads(PairTable(src, as, bs), f, a) /\ Leads(MergeTable(src, cs), f, b)
      /\ a # NoKey => PairEntry(src, A) = PairTable(src, as, bs)[a]
      /\ b # NoKey => MergeEntry(src, B) = MergeTable(src, cs)[b]
  <2>1. PICK x, y : x = A /\ y = B
    OBVIOUS
  <2>2. ReadsAs(PairTable(src, as, bs), f, PairKey(x), PairEntry(src, x))
    BY <2>1, PairReads
  <2>3. /\ Leads(MergeTable(src, cs), f, MergeKey(y))
        /\ MergeKey(y) # NoKey => MergeEntry(src, y) = MergeTable(src, cs)[MergeKey(y)]
    BY <2>1, MergeReads
  <2> HIDE DEF A, B
  <2> QED BY ONLY <1>1, <2>1, <2>2, <2>3 DEF ReadsAs
<1> HIDE DEF A, B
<1>4. PICK t, u : t = PairTable(src, as, bs) /\ u = MergeTable(src, cs)
  OBVIOUS
<1>5. Leads(t, f, a) /\ Leads(u, f, b) /\ StackTable(src, as, bs, cs) = Over(t, u)
  BY <1>3, <1>4 DEF StackTable
<1>6. OverAt(t, u, f, a, b)
  BY <1>5, OverLeads
<1>7. CASE p.first /\ a # NoKey /\ (b = NoKey \/ a <= b) /\ PairKey(p.a) = a
  <2>1. StackKey(p) = a /\ StackEntry(src, p) = PairTable(src, as, bs)[a]
    BY <1>2, <1>3, <1>7 DEF StackKey, StackEntry
  <2> QED BY <1>7, <1>4, <1>5, <1>6, <2>1 DEF OverAt, ReadsAs
<1>8. CASE ~p.first /\ b # NoKey /\ (a = NoKey \/ b < a) /\ MergeKey(p.b) = b
  <2>1. ~(a # NoKey /\ b = a)
    <3>1. a = NoKey \/ a \in Nat
      BY <1>6 DEF OverAt, ReadsAs
    <3> QED BY <1>8, <3>1
  <2>2. StackKey(p) = b /\ StackEntry(src, p) = MergeTable(src, cs)[b]
    BY <1>2, <1>3, <1>8, <2>1 DEF StackKey, StackEntry
  <2> QED BY <1>8, <1>4, <1>5, <1>6, <2>2 DEF OverAt, ReadsAs
<1>9. CASE ~p.first /\ a = NoKey /\ b = NoKey /\ MergeKey(p.b) = NoKey
  <2>1. StackKey(p) = NoKey
    BY <1>9 DEF StackKey
  <2> QED BY <1>9, <1>4, <1>5, <1>6, <2>1 DEF OverAt, ReadsAs
<1> QED BY <1>2, <1>7, <1>8, <1>9 DEF Halves

(* The key of a stack is the smaller one of the keys of its parts. *)
LEMMA StackBehind ==
  ASSUME NEW src, NEW as, NEW bs, NEW cs, RunsInOrder(src, as), RunsInOrder(src, bs),
         RunsInOrder(src, cs), NEW f \in Nat
  PROVE  Behind(f, PairKey(PairAt(src, as, bs, f)), MergeKey(MergeAt(src, cs, f)),
                StackKey(StackAt(src, as, bs, cs, f)))
<1>1. PICK p : p = StackAt(src, as, bs, cs, f)
  OBVIOUS
<1>8. PICK a, b, k : /\ a = PairKey(PairAt(src, as, bs, f)) /\ b = MergeKey(MergeAt(src, cs, f))
                     /\ k = StackKey(p)
  OBVIOUS
<1>2. Halves(a, b, p, PairKey(p.a), MergeKey(p.b))
  <2>1. StackIs(src, as, bs, cs, f, a, b, p)
    BY <1>1, <1>8, StackAtIs
  <2> QED BY <2>1 DEF StackIs
<1>3. k = IF p.first THEN PairKey(p.a) ELSE MergeKey(p.b)
  BY <1>8 DEF StackKey
<1>4. Leads(PairTable(src, as, bs), f, a) /\ Leads(MergeTable(src, cs), f, b)
  BY <1>8, PairReads, MergeReads DEF ReadsAs
<1>5. OverAt(PairTable(src, as, bs), MergeTable(src, cs), f, a, b)
  BY <1>4, OverLeads
<1>6. (a = NoKey \/ (a \in Nat /\ f <= a)) /\ (b = NoKey \/ (b \in Nat /\ f <= b))
  BY <1>5 DEF OverAt
<1>7. NoKey \notin Nat
  BY NoKeyIs
<1>9. Behind(f, a, b, k)
  BY ONLY <1>2, <1>3, <1>6, <1>7 DEF Halves, Behind
<1> QED BY <1>1, <1>8, <1>9

(* A stack that stands beyond g stands where a seek to g ends. *)
LEMMA StackStays ==
  ASSUME NEW src, NEW as, NEW bs, NEW cs, RunsInOrder(src, as), RunsInOrder(src, bs),
         RunsInOrder(src, cs), NEW f \in Nat,
         NEW g \in Nat, f <= g,
         NEW k, k = StackKey(StackAt(src, as, bs, cs, f)), k = NoKey \/ g <= k
  PROVE  StackAt(src, as, bs, cs, g) = StackAt(src, as, bs, cs, f)
<1>1. PICK a, b : a = PairKey(PairAt(src, as, bs, f)) /\ b = MergeKey(MergeAt(src, cs, f))
  OBVIOUS
<1>2. Behind(f, a, b, k)
  BY <1>1, StackBehind
<1>3. k \in Nat => g <= k
  BY NoKeyIs
<1>4. (a = NoKey \/ g <= a) /\ (b = NoKey \/ g <= b)
  BY ONLY <1>2, <1>3, g \in Nat DEF Behind
<1>5. PairAt(src, as, bs, g) = PairAt(src, as, bs, f) /\ MergeAt(src, cs, g) = MergeAt(src, cs, f)
  BY <1>1, <1>4, PairStays, MergeStays
<1> QED BY <1>5 DEF StackAt

(* next() of a stack passes the key in both parts. *)
LEMMA StackNextIs ==
  ASSUME NEW src, NEW as, NEW bs, NEW cs, RunsInOrder(src, as), RunsInOrder(src, bs),
         RunsInOrder(src, cs), NEW f \in Nat, StackKey(StackAt(src, as, bs, cs, f)) # NoKey
  PROVE  StackNext(src, StackAt(src, as, bs, cs, f)) =
           StackAt(src, as, bs, cs, StackKey(StackAt(src, as, bs, cs, f)) + 1)
<1>a. PICK p : p = StackAt(src, as, bs, cs, f)
  OBVIOUS
<1>b. PICK k : k = StackKey(p)
  OBVIOUS
<1>0. p = StackAt(src, as, bs, cs, f) /\ k = StackKey(p) /\ k # NoKey
  BY <1>a, <1>b
<1> SUFFICES StackNext(src, p) = StackAt(src, as, bs, cs, k + 1)
  BY <1>0
<1>1. PICK a, b : a = PairKey(PairAt(src, as, bs, f)) /\ b = MergeKey(MergeAt(src, cs, f))
  OBVIOUS
<1>2. /\ p.a = PairAt(src, as, bs, f)
      /\ p.b = IF a # NoKey /\ b = a THEN MergeAt(src, cs, a + 1) ELSE MergeAt(src, cs, f)
      /\ Halves(a, b, p, PairKey(p.a), MergeKey(p.b))
  <2>1. StackIs(src, as, bs, cs, f, a, b, p)
    BY <1>0, <1>1, StackAtIs
  <2> QED BY <2>1 DEF StackIs
<1>3. /\ a = NoKey \/ (a \in Nat /\ f <= a /\ k \in Nat /\ k <= a)
      /\ b = NoKey \/ (b \in Nat /\ f <= b /\ k \in Nat /\ k <= b)
      /\ k = a \/ k = b
  <2>1. Behind(f, a, b, k)
    BY <1>0, <1>1, StackBehind
  <2> QED BY <2>1 DEF Behind
<1>4. k \in Nat /\ k + 1 \in Nat /\ f <= k + 1 /\ NoKey \notin Nat
  <2>1. k \in Nat /\ f <= k
    BY <1>0, <1>3
  <2> QED BY ONLY <2>1, f \in Nat, NoKeyIs
<1>5. StackNext(src, p) = IF p.first THEN StackCreate(src, PairNext(src, p.a), p.b)
                         ELSE StackCreate(src, p.a, MergeNext(src, p.b))
  BY DEF StackNext, StackCreate, TwoNext
<1>6. CASE p.first
  <2>1. a # NoKey /\ (b = NoKey \/ a <= b) /\ k = a
    BY <1>0, <1>1, <1>2, <1>6 DEF Halves, StackKey
  <2>2. PairNext(src, PairAt(src, as, bs, f)) = PairAt(src, as, bs, k + 1)
    <3>1. PICK x : x = PairAt(src, as, bs, f)
      OBVIOUS
    <3>2. k = PairKey(x) /\ k # NoKey
      BY <1>1, <2>1, <3>1
    <3>3. PairNext(src, x) = PairAt(src, as, bs, k + 1)
      BY ONLY <3>1, <3>2, f \in Nat, RunsInOrder(src, as), RunsInOrder(src, bs), PairNextIs, Zenon
    <3> QED BY <3>1, <3>3
  <2>3. p.b = MergeAt(src, cs, k + 1)
    <3>1. CASE b = a
      BY <1>2, <2>1, <3>1
    <3>2. CASE b # a
      <4>1. b = NoKey \/ k + 1 <= b
        BY <1>3, <1>4, <2>1, <3>2
      <4>2. MergeAt(src, cs, k + 1) = MergeAt(src, cs, f)
        BY <1>1, <1>4, <4>1, MergeStays
      <4> QED BY <1>2, <3>2, <4>2
    <3> QED BY <3>1, <3>2
  <2> QED BY <1>2, <1>5, <1>6, <2>2, <2>3 DEF StackAt
<1>7. CASE ~p.first
  <2>1. b # NoKey /\ (a = NoKey \/ b < a) /\ k = b
    BY <1>0, <1>2, <1>7 DEF Halves, StackKey
  <2>2. b # a
    BY <1>3, <2>1
  <2>3. p.b = MergeAt(src, cs, f)
    BY <1>2, <2>2
  <2>4. MergeNext(src, p.b) = MergeAt(src, cs, k + 1)
    BY <1>1, <2>1, <2>3, MergeNextIs
  <2>5. PairAt(src, as, bs, k + 1) = PairAt(src, as, bs, f)
    <3>1. a = NoKey \/ k + 1 <= a
      BY <1>3, <1>4, <2>1
    <3> QED BY <1>1, <1>4, <3>1, PairStays
  <2> QED BY <1>2, <1>5, <1>7, <2>4, <2>5 DEF StackAt
<1> QED BY <1>6, <1>7

-----------------------------------------------------------------------------
(* The tables that scan() and get() leave out *)

(* The recursion of Filtered over the first n tables. *)
KeptTo(tables, passing, n, g) ==
  g = [i \in 0 .. n |-> IF i = 0 THEN <<>>
                        ELSE IF tables[i] \in passing THEN Append(g[i - 1], tables[i]) ELSE g[i - 1]]

(* It can be followed to the end. *)
LEMMA KeptExists ==
  ASSUME NEW tables, NEW passing, NEW n \in Nat
  PROVE  \E g : KeptTo(tables, passing, n, g)
<1> DEFINE step(x, i) == IF tables[i] \in passing THEN Append(x, tables[i]) ELSE x
           S == {m \in Nat : ~\E g : KeptTo(tables, passing, m, g)}
<1>1. ASSUME NEW m, NEW g
      PROVE  KeptTo(tables, passing, m, g) <=>
               g = [i \in 0 .. m |-> IF i = 0 THEN <<>> ELSE step(g[i - 1], i)]
  BY DEF KeptTo
<1> HIDE DEF step
<1> SUFFICES ASSUME S # {} PROVE FALSE
  OBVIOUS
<1>2. PICK m \in S : \A k \in S : m <= k
  <2>1. S \in SUBSET Nat
    OBVIOUS
  <2> HIDE DEF S
  <2> QED BY <2>1, LeastIndex
<1>3. m \in Nat /\ ~\E g : KeptTo(tables, passing, m, g)
  OBVIOUS
<1>4. CASE m = 0
  <2> DEFINE g == [i \in 0 .. 0 |-> <<>>]
  <2>1. \A i \in 0 .. 0 : i = 0
    OBVIOUS
  <2>2. g = [i \in 0 .. 0 |-> IF i = 0 THEN <<>> ELSE step(g[i - 1], i)]
    BY <2>1
  <2> HIDE DEF g
  <2> QED BY <1>1, <1>3, <1>4, <2>2
<1>5. CASE m # 0
  <2>1. PICK n0 \in Nat : n0 + 1 = m
    <3>1. m - 1 \in Nat /\ m - 1 + 1 = m
      BY <1>3, <1>5
    <3> QED BY <3>1
  <2>2. n0 \notin S
    <3>1. ~(m <= n0)
      BY <2>1
    <3> HIDE DEF S
    <3> QED BY <1>2, <3>1
  <2>3. PICK g : KeptTo(tables, passing, n0, g)
    BY <2>2
  <2>4. g = [i \in 0 .. n0 |-> IF i = 0 THEN <<>> ELSE step(g[i - 1], i)]
    BY <1>1, <2>3
  <2>5. \A i \in 0 .. n0 : g[i] = IF i = 0 THEN <<>> ELSE step(g[i - 1], i)
    BY <2>4
  <2> DEFINE f == [i \in 0 .. m |-> IF i = m THEN step(g[n0], i) ELSE g[i]]
  <2>6. ASSUME NEW i \in 0 .. m PROVE f[i] = IF i = 0 THEN <<>> ELSE step(f[i - 1], i)
    <3>1. CASE i = m
      <4>1. i # 0 /\ i - 1 = n0 /\ n0 \in 0 .. m /\ n0 # m
        BY <2>1, <3>1
      <4>2. f[i] = step(g[n0], i) /\ f[i - 1] = g[n0]
        BY <3>1, <4>1
      <4> HIDE DEF f
      <4> QED BY <4>1, <4>2
    <3>2. CASE i = 0
      <4>1. i \in 0 .. n0 /\ i # m
        BY <2>1, <3>2
      <4>2. f[i] = g[i]
        BY <4>1
      <4> HIDE DEF f
      <4> QED BY <2>5, <3>2, <4>1, <4>2
    <3>3. CASE i \in 1 .. n0
      <4>1. i \in 0 .. n0 /\ i # 0 /\ i # m /\ i - 1 \in 0 .. m /\ i - 1 # m
        BY <2>1, <3>3
      <4>2. f[i] = g[i] /\ f[i - 1] = g[i - 1]
        BY <4>1
      <4> HIDE DEF f
      <4> QED BY <2>5, <4>1, <4>2
    <3> QED BY <1>3, <2>1, <3>1, <3>2, <3>3
  <2>7. f = [i \in 0 .. m |-> f[i]]
    OBVIOUS
  <2> HIDE DEF f
  <2>8. f = [i \in 0 .. m |-> IF i = 0 THEN <<>> ELSE step(f[i - 1], i)]
    BY <2>6, <2>7
  <2> QED BY <1>1, <1>3, <2>8
<1> QED BY <1>4, <1>5

(* r lists tables m[1], m[2], ... of the first n, those that pass. *)
Picks(tables, passing, n, r, m) ==
  /\ Len(r) \in Nat /\ DOMAIN r = 1 .. Len(r) /\ m \in [1 .. Len(r) -> 1 .. n]
  /\ \A i, j \in 1 .. Len(r) : i < j => m[i] < m[j]
  /\ \A i \in 1 .. Len(r) : r[i] = tables[m[i]] /\ r[i] \in passing
  /\ \A j \in 1 .. n : tables[j] \in passing => \E i \in 1 .. Len(r) : m[i] = j

(* So does Filtered. *)
LEMMA FilteredPicks ==
  ASSUME NEW H, NEW tables \in Seq(H), NEW passing
  PROVE  /\ Filtered(tables, passing) \in Seq(H)
         /\ \E m : Picks(tables, passing, Len(tables), Filtered(tables, passing), m)
<1> DEFINE N == Len(tables)
           kept == CHOOSE g : KeptTo(tables, passing, N, g)
<1>1. Filtered(tables, passing) = kept[N]
  BY DEF Filtered, KeptTo
<1>2. N \in Nat /\ DOMAIN tables = 1 .. N /\ N \in 0 .. N
  OBVIOUS
<1>3. KeptTo(tables, passing, N, kept)
  BY <1>2, KeptExists
<1> HIDE DEF kept
<1>4. \A i \in 0 .. N : kept[i] = IF i = 0 THEN <<>>
                                  ELSE IF tables[i] \in passing THEN Append(kept[i - 1], tables[i])
                                  ELSE kept[i - 1]
  BY <1>3 DEF KeptTo
<1> DEFINE Good(n) == kept[n] \in Seq(H) /\ \E m : Picks(tables, passing, n, kept[n], m)
           S == {n \in 0 .. N : ~Good(n)}
<1> SUFFICES ASSUME S # {} PROVE FALSE
  BY <1>1, <1>2
<1>5. PICK n \in S : \A k \in S : n <= k
  <2>1. S \in SUBSET Nat
    BY <1>2
  <2> HIDE DEF S
  <2> QED BY <2>1, LeastIndex
<1>6. n \in 0 .. N /\ ~Good(n) /\ n \in Nat
  BY <1>2
<1>7. CASE n = 0
  <2>1. kept[0] = <<>>
    BY <1>2, <1>4
  <2> DEFINE m == [i \in 1 .. 0 |-> 1]
  <2>2. <<>> \in Seq(H) /\ Len(<<>>) = 0 /\ DOMAIN <<>> = 1 .. 0 /\ 1 .. 0 = {} /\ m \in [1 .. 0 -> 1 .. 0]
    OBVIOUS
  <2> HIDE DEF m
  <2>3. Picks(tables, passing, 0, <<>>, m)
    BY <2>2 DEF Picks
  <2> QED BY <1>6, <1>7, <2>1, <2>2, <2>3
<1>8. CASE n # 0
  <2>1. n - 1 \in 0 .. N /\ ~(n <= n - 1) /\ n - 1 \in Nat /\ n \in 1 .. N /\ n - 1 < n
    BY <1>2, <1>6, <1>8
  <2>2. n - 1 \notin S
    <3> HIDE DEF S
    <3> QED BY <1>5, <2>1
  <2>3. Good(n - 1)
    BY <2>1, <2>2
  <2>4. PICK r : r = kept[n - 1]
    OBVIOUS
  <2>5. r \in Seq(H)
    BY <2>3, <2>4
  <2>6. PICK m : Picks(tables, passing, n - 1, r, m)
    BY <2>3, <2>4
  <2>7. tables[n] \in H
    BY <1>2, <2>1
  <2>8. PICK L : L = Len(r)
    OBVIOUS
  <2>9. /\ L \in Nat /\ DOMAIN r = 1 .. L /\ m \in [1 .. L -> 1 .. n - 1]
        /\ \A i, j \in 1 .. L : i < j => m[i] < m[j]
        /\ \A i \in 1 .. L : r[i] = tables[m[i]] /\ r[i] \in passing
        /\ \A j \in 1 .. n - 1 : tables[j] \in passing => \E i \in 1 .. L : m[i] = j
    BY <2>6, <2>8 DEF Picks
  <2>10. \A i \in 1 .. L : m[i] \in 1 .. n - 1 /\ m[i] \in 1 .. n /\ m[i] < n /\ m[i] \in Nat
    BY <2>1, <2>9
  <2>11. CASE tables[n] \in passing
    <3>1. PICK q : q = Append(r, tables[n])
      OBVIOUS
    <3>2. kept[n] = q
      BY <1>4, <1>6, <1>8, <2>4, <2>11, <3>1
    <3>3. /\ q \in Seq(H) /\ Len(q) = L + 1 /\ DOMAIN q = 1 .. L + 1
          /\ q[L + 1] = tables[n] /\ \A i \in 1 .. L : q[i] = r[i]
      BY <2>5, <2>7, <2>8, <3>1
    <3> DEFINE o == [i \in 1 .. L + 1 |-> IF i = L + 1 THEN n ELSE m[i]]
    <3>4. /\ \A i \in 1 .. L + 1 : i \in 1 .. L \/ i = L + 1
          /\ L + 1 \in 1 .. L + 1 /\ \A i \in 1 .. L : i \in 1 .. L + 1 /\ i # L + 1
      BY <2>9
    <3>5. o[L + 1] = n /\ \A i \in 1 .. L : o[i] = m[i]
      BY <3>4
    <3>6. o \in [1 .. L + 1 -> 1 .. n]
      BY <2>1, <2>10, <3>4
    <3> HIDE DEF o
    <3>7. ASSUME NEW i \in 1 .. L + 1, NEW j \in 1 .. L + 1, i < j PROVE o[i] < o[j]
      <4>1. i \in 1 .. L
        BY <2>9, <3>7
      <4>2. CASE j \in 1 .. L
        BY <2>9, <3>5, <3>7, <4>1, <4>2
      <4>3. CASE j = L + 1
        BY <2>10, <3>5, <4>1, <4>3
      <4> QED BY <3>4, <4>2, <4>3
    <3>8. \A i \in 1 .. L + 1 : q[i] = tables[o[i]] /\ q[i] \in passing
      BY <2>9, <2>11, <3>3, <3>4, <3>5
    <3>9. ASSUME NEW j \in 1 .. n, tables[j] \in passing PROVE \E i \in 1 .. L + 1 : o[i] = j
      <4>1. j = n \/ j \in 1 .. n - 1
        BY <2>1
      <4> QED BY <2>9, <3>4, <3>5, <3>9, <4>1
    <3>10. Picks(tables, passing, n, q, o)
      <4>1. L + 1 \in Nat
        BY <2>9
      <4> QED BY <3>3, <3>6, <3>7, <3>8, <3>9, <4>1 DEF Picks
    <3> QED BY <1>6, <3>2, <3>3, <3>10
  <2>12. CASE tables[n] \notin passing
    <3>1. kept[n] = r
      BY <1>4, <1>6, <1>8, <2>4, <2>12
    <3>2. m \in [1 .. L -> 1 .. n]
      BY <2>9, <2>10
    <3>3. ASSUME NEW j \in 1 .. n, tables[j] \in passing PROVE \E i \in 1 .. L : m[i] = j
      <4>1. j \in 1 .. n - 1
        BY <2>1, <2>12, <3>3
      <4> QED BY <2>9, <3>3, <4>1
    <3>4. Picks(tables, passing, n, r, m)
      BY <2>8, <2>9, <3>2, <3>3 DEF Picks
    <3> QED BY <1>6, <2>5, <3>1, <3>4
  <2> QED BY <2>11, <2>12
<1> QED BY <1>7, <1>8

(* Leaving out tables that do not hold the key changes nothing. *)
LEMMA FirstHitPicked ==
  ASSUME NEW tables, NEW passing, NEW n \in Nat, NEW r, NEW m, Picks(tables, passing, n, r, m),
         NEW k, NEW ts, NEW us, DOMAIN ts = 1 .. n, DOMAIN us = 1 .. Len(r),
         \A i \in 1 .. Len(r) : us[i][k] = ts[m[i]][k],
         \A j \in 1 .. n : tables[j] \notin passing => ts[j][k] = Absent
  PROVE  FirstHit(us, k) = FirstHit(ts, k)
<1>1. PICK L : L = Len(r)
  OBVIOUS
<1>2. /\ L \in Nat /\ m \in [1 .. L -> 1 .. n] /\ DOMAIN us = 1 .. L
      /\ \A i, j \in 1 .. L : i < j => m[i] < m[j]
      /\ \A j \in 1 .. n : tables[j] \in passing => \E i \in 1 .. L : m[i] = j
      /\ \A i \in 1 .. L : us[i][k] = ts[m[i]][k]
  BY <1>1 DEF Picks
<1>3. DOMAIN us \in SUBSET Nat /\ DOMAIN ts \in SUBSET Nat
  BY <1>2
<1>4. CASE \A i \in DOMAIN us : us[i][k] = Absent
  <2>1. ASSUME NEW j \in DOMAIN ts PROVE ts[j][k] = Absent
    BY <1>2, <1>4
  <2> QED BY <1>4, <2>1, FirstHitNone
<1>5. ASSUME NEW i \in DOMAIN us, us[i][k] # Absent, \A j \in DOMAIN us : j < i => us[j][k] = Absent
      PROVE  FirstHit(us, k) = FirstHit(ts, k)
  <2>1. FirstHit(us, k) = us[i][k]
    BY <1>3, <1>5, FirstHitAt, SMTT(30)
  <2>2. m[i] \in DOMAIN ts /\ ts[m[i]][k] = us[i][k]
    BY <1>2, <1>5
  <2>3. ASSUME NEW j \in DOMAIN ts, j < m[i] PROVE ts[j][k] = Absent
    <3> SUFFICES ASSUME ts[j][k] # Absent PROVE FALSE
      OBVIOUS
    <3>1. PICK h \in 1 .. L : m[h] = j
      BY <1>2
    <3>2. us[h][k] # Absent
      BY <1>2, <3>1
    <3>3. ~(h < i)
      BY <1>2, <1>5, <3>2
    <3>4. i = h \/ m[i] < m[h]
      BY <1>2, <3>3
    <3>5. m[i] \in Nat /\ j \in Nat
      BY <1>2, <2>2
    <3> QED BY <2>3, <3>1, <3>4, <3>5
  <2>4. PICK x : x = m[i]
    OBVIOUS
  <2>5. x \in DOMAIN ts /\ ts[x][k] # Absent /\ \A j \in DOMAIN ts : j < x => ts[j][k] = Absent
    BY <1>5, <2>2, <2>3, <2>4
  <2>6. FirstHit(ts, k) = ts[x][k]
    BY ONLY <1>3, <2>5, FirstHitAt
  <2> QED BY <2>1, <2>2, <2>4, <2>6
<1>6. \/ \A i \in DOMAIN us : us[i][k] = Absent
      \/ \E i \in DOMAIN us : /\ us[i][k] # Absent
                              /\ \A j \in DOMAIN us : j < i => us[j][k] = Absent
  BY ONLY <1>3, FirstHitCases
<1> QED BY <1>4, <1>5, <1>6

(* The tables of a level that pass, and what they hold. *)
LEMMA FilteredRun ==
  ASSUME NEW H, NEW src, NEW run \in Seq(H), InOrder(src, run), NEW passing,
         NEW r, r = Filtered(run, passing)
  PROVE  /\ InOrder(src, r) /\ r \in Seq(H)
         /\ \A i \in DOMAIN r : r[i] \in passing /\ \E j \in DOMAIN run : r[i] = run[j]
         /\ \A k \in Keys : (\A j \in DOMAIN run : run[j] \notin passing => src[run[j]][k] = Absent) =>
                              RunTable(src, r)[k] = RunTable(src, run)[k]
<1>1. r \in Seq(H)
  BY FilteredPicks
<1>2. PICK m : Picks(run, passing, Len(run), r, m)
  BY FilteredPicks
<1>3. PICK L, n : L = Len(r) /\ n = Len(run)
  OBVIOUS
<1>4. /\ L \in Nat /\ n \in Nat /\ m \in [1 .. L -> 1 .. n] /\ DOMAIN r = 1 .. L
      /\ DOMAIN run = 1 .. n
      /\ \A i, j \in 1 .. L : i < j => m[i] < m[j]
      /\ \A i \in 1 .. L : r[i] = run[m[i]] /\ r[i] \in passing
      /\ \A j \in 1 .. n : run[j] \in passing => \E i \in 1 .. L : m[i] = j
  BY <1>2, <1>3 DEF Picks
<1>5. \A i \in DOMAIN r : r[i] \in passing /\ \E j \in DOMAIN run : r[i] = run[j]
  BY <1>4
<1>6. InOrder(src, r)
  <2>1. \A i \in DOMAIN r : src[r[i]] \in Table
    BY <1>5 DEF InOrder
  <2>2. ASSUME NEW i \in DOMAIN r, NEW j \in DOMAIN r, i < j
        PROVE  \A a \in KeysOfTable(src[r[i]]), b \in KeysOfTable(src[r[j]]) : a < b
    <3>1. m[i] \in DOMAIN run /\ m[j] \in DOMAIN run /\ m[i] < m[j]
      BY <1>4, <2>2
    <3>2. \A a \in KeysOfTable(src[run[m[i]]]), b \in KeysOfTable(src[run[m[j]]]) : a < b
      BY <3>1 DEF InOrder
    <3> QED BY <1>4, <3>2
  <2> QED BY <1>3, <1>4, <2>1, <2>2 DEF InOrder
<1>7. ASSUME NEW k \in Keys, \A j \in DOMAIN run : run[j] \notin passing => src[run[j]][k] = Absent
      PROVE  RunTable(src, r)[k] = RunTable(src, run)[k]
  <2> DEFINE ts == [i \in DOMAIN run |-> src[run[i]]]
             us == [i \in DOMAIN r |-> src[r[i]]]
  <2>1. RunTable(src, run)[k] = LastHit(ts, k) /\ RunTable(src, r)[k] = LastHit(us, k)
    BY DEF RunTable, Concat
  <2>2. /\ DOMAIN ts = 1 .. n /\ DOMAIN us = 1 .. L
        /\ \A j \in 1 .. n : ts[j] = src[run[j]] /\ (run[j] \notin passing => ts[j][k] = Absent)
        /\ \A i \in 1 .. L : us[i] = ts[m[i]]
    BY <1>4, <1>7
  <2> HIDE DEF ts, us
  <2>3. CASE \A j \in 1 .. n : ts[j][k] = Absent
    <3>1. LastHit(ts, k) = Absent
      <4>1. \A j \in DOMAIN ts : ts[j][k] = Absent
        BY <2>2, <2>3
      <4> QED BY ONLY <4>1, LastHitNone
    <3>2. \A i \in 1 .. L : us[i][k] = Absent
      BY <1>4, <2>2, <2>3
    <3>3. LastHit(us, k) = Absent
      <4>1. \A i \in DOMAIN us : us[i][k] = Absent
        BY <2>2, <3>2
      <4> QED BY ONLY <4>1, LastHitNone
    <3> QED BY <2>1, <3>1, <3>3
  <2>4. ASSUME NEW j \in 1 .. n, ts[j][k] # Absent PROVE LastHit(us, k) = LastHit(ts, k)
    <3>1. PICK i \in 1 .. L : m[i] = j
      BY <1>4, <2>2, <2>4
    <3>2. ASSUME NEW h \in 1 .. n, h # j PROVE ts[h][k] = Absent
      <4> SUFFICES ASSUME ts[h][k] # Absent PROVE FALSE
        OBVIOUS
      <4>1. k \in KeysOfTable(src[run[h]]) /\ k \in KeysOfTable(src[run[j]])
        BY <2>2, <2>4 DEF KeysOfTable
      <4>2. h < j \/ j < h
        BY <1>4, <3>2
      <4>3. k < k
        BY <1>4, <4>1, <4>2 DEF InOrder
      <4>4. k \in Nat
        BY KeysAssumption
      <4> QED BY <4>3, <4>4
    <3>3. LastHit(ts, k) = ts[j][k]
      BY <1>4, <2>2, <3>2, LastHitOnly
    <3>4. ASSUME NEW h \in 1 .. L, h # i PROVE us[h][k] = Absent
      <4>1. m[h] # j /\ m[h] \in 1 .. n
        <5>1. h < i \/ i < h
          BY <1>4, <3>4
        <5>2. m[h] \in Nat /\ m[i] \in Nat /\ m[h] \in 1 .. n
          BY <1>4
        <5>3. m[h] < m[i] \/ m[i] < m[h]
          BY <1>4, <5>1
        <5> QED BY <3>1, <5>2, <5>3
      <4> QED BY <2>2, <3>2, <4>1
    <3>5. LastHit(us, k) = us[i][k]
      <4>1. L \in Nat /\ DOMAIN us = 1 .. L /\ \A h \in 1 .. L : h # i => us[h][k] = Absent
        BY <1>4, <2>2, <3>4
      <4> QED BY ONLY <4>1, i \in 1 .. L, LastHitOnly
    <3> QED BY <2>2, <3>1, <3>3, <3>5
  <2> QED BY <2>1, <2>3, <2>4
<1> QED BY <1>1, <1>5, <1>6, <1>7

(* Tables that are runs of their own, as MemTables and those of L0. *)
Singles(tables) == [i \in DOMAIN tables |-> <<tables[i]>>]

(* They are in order, and the first one that holds a key decides. *)
LEMMA SinglesRead ==
  ASSUME NEW H, NEW tables \in Seq(H), NEW src, \A h \in H : src[h] \in Table
  PROVE  /\ RunsInOrder(src, Singles(tables))
         /\ \A k \in Keys : MergeTable(src, Singles(tables))[k] =
                              FirstHit([i \in DOMAIN tables |-> src[tables[i]]], k)
<1> DEFINE runs == Singles(tables)
           n == Len(tables)
<1>1. /\ n \in Nat /\ DOMAIN tables = 1 .. n /\ \A i \in 1 .. n : tables[i] \in H
      /\ DOMAIN runs = 1 .. n /\ \A i \in 1 .. n : runs[i] = <<tables[i]>>
      /\ Len(runs) = n
  BY DEF Singles
<1> HIDE DEF runs, n
<1>2. ASSUME NEW h \in H
      PROVE  InOrder(src, <<h>>) /\ \A k \in Keys : RunTable(src, <<h>>)[k] = src[h][k]
  <2>1. Len(<<h>>) = 1 /\ DOMAIN <<h>> = 1 .. 1 /\ 1 .. 1 = {1} /\ <<h>>[1] = h /\ 1 \in Nat
    OBVIOUS
  <2>2. InOrder(src, <<h>>)
    BY <2>1 DEF InOrder
  <2> DEFINE ts == [i \in DOMAIN <<h>> |-> src[<<h>>[i]]]
  <2>3. DOMAIN ts = {1} /\ ts[1] = src[h]
    BY <2>1
  <2>4. ASSUME NEW k \in Keys PROVE RunTable(src, <<h>>)[k] = src[h][k]
    <3>1. RunTable(src, <<h>>)[k] = LastHit(ts, k)
      BY DEF RunTable, Concat
    <3> HIDE DEF ts
    <3> QED BY <2>3, <3>1, LastHitSingle
  <2> QED BY <2>2, <2>4
<1>3. RunsInOrder(src, runs)
  BY <1>1, <1>2 DEF RunsInOrder
<1>4. ASSUME NEW k \in Keys
      PROVE  MergeTable(src, runs)[k] = FirstHit([i \in DOMAIN tables |-> src[tables[i]]], k)
  <2> DEFINE us == [i \in DOMAIN runs |-> RunTable(src, runs[i])]
             ts == [i \in DOMAIN tables |-> src[tables[i]]]
  <2>1. MergeTable(src, runs)[k] = FirstHit(us, k)
    BY DEF MergeTable, Merge
  <2>2. DOMAIN us = 1 .. n /\ DOMAIN ts = 1 .. n /\ \A i \in 1 .. n : us[i][k] = ts[i][k]
    <3>1. DOMAIN us = 1 .. n /\ DOMAIN ts = 1 .. n
      BY <1>1
    <3>2. ASSUME NEW i \in 1 .. n PROVE us[i][k] = ts[i][k]
      <4>1. runs[i] = <<tables[i]>> /\ tables[i] \in H
        BY <1>1
      <4>2. us[i] = RunTable(src, <<tables[i]>>) /\ ts[i] = src[tables[i]]
        BY <1>1, <3>1, <3>2, <4>1
      <4> HIDE DEF us, ts
      <4> QED BY <1>2, <4>1, <4>2
    <3> QED BY <3>1, <3>2
  <2> HIDE DEF us, ts
  <2>3. FirstHit(us, k) = FirstHit(ts, k)
    BY <1>1, <2>2, FirstHitSame
  <2> QED BY <2>1, <2>3 DEF ts
<1> QED BY <1>3, <1>4 DEF runs

(* Where scan() starts: the first key that is above the lower bound. *)
FromKey(lower) ==
  IF lower.type = "Unbounded" THEN 0 ELSE IF lower.type = "Included" THEN lower.key ELSE lower.key + 1

(* The keys from there on are the keys above the bound. *)
LEMMA BoundsSplit ==
  ASSUME NEW b \in Bounds
  PROVE  /\ FromKey(b) \in Nat /\ b.type \in {"Unbounded", "Included", "Excluded"}
         /\ b.type # "Unbounded" => b.key \in Nat
         /\ \A k \in Nat : AboveLower(k, b) <=> FromKey(b) <= k
         /\ \A j, k \in Nat : BelowUpper(k, b) /\ j <= k => BelowUpper(j, b)
<1>1. \/ b.type = "Unbounded"
      \/ b.type = "Included" /\ b.key \in Nat
      \/ b.type = "Excluded" /\ b.key \in Nat
  <2>1. b = Unbounded \/ (\E k \in Keys : b = Included(k)) \/ (\E k \in Keys : b = Excluded(k))
    BY DEF Bounds
  <2>2. \A k \in Keys : k \in Nat
    BY KeysAssumption
  <2>3. CASE b = Unbounded
    BY <2>3 DEF Unbounded
  <2>4. ASSUME NEW k \in Keys, b = Included(k) PROVE b.type = "Included" /\ b.key \in Nat
    BY <2>2, <2>4 DEF Included
  <2>5. ASSUME NEW k \in Keys, b = Excluded(k) PROVE b.type = "Excluded" /\ b.key \in Nat
    BY <2>2, <2>5 DEF Excluded
  <2> QED BY <2>1, <2>3, <2>4, <2>5
<1>2. CASE b.type = "Unbounded"
  BY <1>2 DEF FromKey, AboveLower, BelowUpper
<1>3. CASE b.type = "Included" /\ b.key \in Nat
  BY <1>3 DEF FromKey, AboveLower, BelowUpper
<1>4. CASE b.type = "Excluded" /\ b.key \in Nat
  BY <1>4 DEF FromKey, AboveLower, BelowUpper
<1> QED BY <1>1, <1>2, <1>3, <1>4

(* The iterator of a level starts there. *)
LEMMA SeekLowerIs ==
  ASSUME NEW src, NEW run, InOrder(src, run), NEW lower \in Bounds,
         \A i \in DOMAIN run : KeysOfTable(src[run[i]]) # {}
  PROVE  SeekLower(src, run, lower) = RunAt(src, run, FromKey(lower))
<1>1. FromKey(lower) \in Nat /\ lower.type \in {"Unbounded", "Included", "Excluded"}
      /\ (lower.type # "Unbounded" => lower.key \in Nat)
  BY BoundsSplit
<1>2. CASE lower.type = "Unbounded"
  BY <1>2, SeekToFirstIs DEF SeekLower, FromKey
<1>3. CASE lower.type # "Unbounded"
  <2>1. PICK k : k = lower.key
    OBVIOUS
  <2>2. k \in Nat /\ k + 1 \in Nat /\ k <= k + 1
    BY <1>1, <1>3, <2>1
  <2>3. PICK c : c = RunAt(src, run, k)
    OBVIOUS
  <2>4. SeekToKey(src, run, k) = c
    BY <2>2, <2>3, SeekToKeyIs
  <2>5. SeekLower(src, run, lower) =
          IF lower.type = "Excluded" /\ c.key = k THEN ConcatNext(src, c) ELSE c
    BY <1>3, <2>1, <2>4 DEF SeekLower
  <2>6. CASE lower.type = "Included"
    BY <2>1, <2>3, <2>5, <2>6 DEF FromKey
  <2>7. CASE lower.type = "Excluded"
    <3>1. FromKey(lower) = k + 1
      BY <2>1, <2>7 DEF FromKey
    <3>2. CASE c.key = k
      <4>1. c.key # NoKey
        BY <2>2, <3>2, NoKeyIs
      <4>2. ConcatNext(src, c) = RunAt(src, run, c.key + 1)
        BY <2>2, <2>3, <4>1, ConcatNextIs
      <4> QED BY <2>5, <2>7, <3>1, <3>2, <4>2
    <3>3. CASE c.key # k
      <4>1. c.key = NoKey \/ (c.key \in Nat /\ k <= c.key)
        BY <2>2, <2>3, RunAtKey
      <4>2. c.key = NoKey \/ k + 1 <= c.key
        BY <2>2, <3>3, <4>1
      <4>3. RunAt(src, run, k + 1) = RunAt(src, run, k)
        BY <2>2, <2>3, <4>2, RunStays
      <4> QED BY <2>3, <2>5, <3>1, <3>3, <4>3
    <3> QED BY <3>2, <3>3
  <2> QED BY <1>1, <1>3, <2>6, <2>7
<1> QED BY <1>2, <1>3

(* What tables in order hold together is a table. *)
LEMMA RunTableType ==
  ASSUME NEW src, NEW run, InOrder(src, run)
  PROVE  RunTable(src, run) \in Table
<1> DEFINE ts == [i \in DOMAIN run |-> src[run[i]]]
<1>1. Len(run) \in Nat /\ DOMAIN ts = 1 .. Len(run) /\ \A i \in 1 .. Len(run) : ts[i] \in Table
  BY DEF InOrder
<1> HIDE DEF ts
<1>2. ASSUME NEW k \in Keys PROVE LastHit(ts, k) \in Int
  <2>1. \A i \in 1 .. Len(run) : ts[i][k] \in Int
    BY <1>1 DEF Table
  <2>2. LastHit(ts, k) = Absent \/ \E i \in 1 .. Len(run) : LastHit(ts, k) = ts[i][k]
    BY <1>1, LastHitIn
  <2> QED BY <2>1, <2>2 DEF Absent
<1> QED BY <1>2 DEF RunTable, Concat, Table, ts

(* So is the merge of runs, ... *)
LEMMA MergeTableType ==
  ASSUME NEW src, NEW runs, RunsInOrder(src, runs)
  PROVE  MergeTable(src, runs) \in Table
<1> DEFINE ts == [i \in DOMAIN runs |-> RunTable(src, runs[i])]
<1>1. DOMAIN ts \in SUBSET Nat /\ \A i \in DOMAIN ts : ts[i] \in Table
  BY RunTableType DEF RunsInOrder
<1> HIDE DEF ts
<1>2. ASSUME NEW k \in Keys PROVE FirstHit(ts, k) \in Int
  <2>1. \A i \in DOMAIN ts : ts[i][k] \in Int
    BY <1>1 DEF Table
  <2>2. \/ \A i \in DOMAIN ts : ts[i][k] = Absent
        \/ \E i \in DOMAIN ts : /\ ts[i][k] # Absent
                                /\ \A j \in DOMAIN ts : j < i => ts[j][k] = Absent
    BY ONLY <1>1, FirstHitCases
  <2>3. CASE \A i \in DOMAIN ts : ts[i][k] = Absent
    BY <2>3, FirstHitNone DEF Absent
  <2>4. ASSUME NEW i \in DOMAIN ts, ts[i][k] # Absent,
               \A j \in DOMAIN ts : j < i => ts[j][k] = Absent
        PROVE  FirstHit(ts, k) \in Int
    BY <1>1, <2>1, <2>4, FirstHitAt
  <2> QED BY <2>2, <2>3, <2>4
<1> QED BY <1>2 DEF MergeTable, Merge, Table, ts

(* ... and one table over another. *)
LEMMA OverType ==
  ASSUME NEW t \in Table, NEW u \in Table
  PROVE  Over(t, u) \in Table
BY DEF Over, OrElse, Table

-----------------------------------------------------------------------------
(* LsmIterator *)

(* The recursion of MoveToNonDelete over n turns. *)
TurnOf(src, i) == IF i.valid /\ StackEntry(src, i.inner) < 0 THEN NextInner(src, i) ELSE i

MovedTo(src, it, n, g) ==
  g = [turn \in 0 .. n |-> IF turn = 0 THEN it ELSE TurnOf(src, g[turn - 1])]

(* It can be followed to the end. *)
LEMMA MovedExists ==
  ASSUME NEW src, NEW it, NEW n \in Nat
  PROVE  \E g : MovedTo(src, it, n, g)
<1> DEFINE S == {m \in Nat : ~\E g : MovedTo(src, it, m, g)}
<1> SUFFICES ASSUME S # {} PROVE FALSE
  OBVIOUS
<1>2. PICK m \in S : \A k \in S : m <= k
  <2>1. S \in SUBSET Nat
    OBVIOUS
  <2> HIDE DEF S
  <2> QED BY <2>1, LeastIndex
<1>3. m \in Nat /\ ~\E g : MovedTo(src, it, m, g)
  OBVIOUS
<1>4. CASE m = 0
  <2> DEFINE g == [i \in 0 .. 0 |-> it]
  <2>1. \A i \in 0 .. 0 : i = 0
    OBVIOUS
  <2>2. g = [i \in 0 .. 0 |-> IF i = 0 THEN it ELSE TurnOf(src, g[i - 1])]
    BY <2>1
  <2> HIDE DEF g
  <2> QED BY <1>3, <1>4, <2>2 DEF MovedTo
<1>5. CASE m # 0
  <2>1. PICK n0 \in Nat : n0 + 1 = m
    <3>1. m - 1 \in Nat /\ m - 1 + 1 = m
      BY <1>3, <1>5
    <3> QED BY <3>1
  <2>2. n0 \notin S
    <3>1. ~(m <= n0)
      BY <2>1
    <3> HIDE DEF S
    <3> QED BY <1>2, <3>1
  <2>3. PICK g : MovedTo(src, it, n0, g)
    BY <2>2
  <2>4. \A i \in 0 .. n0 : g[i] = IF i = 0 THEN it ELSE TurnOf(src, g[i - 1])
    BY <2>3 DEF MovedTo
  <2> DEFINE f == [i \in 0 .. m |-> IF i = m THEN TurnOf(src, g[n0]) ELSE g[i]]
  <2>5. ASSUME NEW i \in 0 .. m PROVE f[i] = IF i = 0 THEN it ELSE TurnOf(src, f[i - 1])
    <3>1. CASE i = m
      <4>1. i # 0 /\ i - 1 = n0 /\ n0 \in 0 .. m /\ n0 # m
        BY <2>1, <3>1
      <4>2. f[i] = TurnOf(src, g[n0]) /\ f[i - 1] = g[n0]
        BY <3>1, <4>1
      <4> HIDE DEF f
      <4> QED BY <4>1, <4>2
    <3>2. CASE i = 0
      <4>1. i \in 0 .. n0 /\ i # m
        BY <2>1, <3>2
      <4>2. f[i] = g[i]
        BY <4>1
      <4> HIDE DEF f
      <4> QED BY <2>4, <3>2, <4>1, <4>2
    <3>3. CASE i \in 1 .. n0
      <4>1. i \in 0 .. n0 /\ i # 0 /\ i # m /\ i - 1 \in 0 .. m /\ i - 1 # m
        BY <2>1, <3>3
      <4>2. f[i] = g[i] /\ f[i - 1] = g[i - 1]
        BY <4>1
      <4> HIDE DEF f
      <4> QED BY <2>4, <4>1, <4>2
    <3> QED BY <1>3, <2>1, <3>1, <3>2, <3>3
  <2>6. f = [i \in 0 .. m |-> f[i]]
    OBVIOUS
  <2> HIDE DEF f
  <2>7. MovedTo(src, it, m, f)
    BY <2>5, <2>6 DEF MovedTo
  <2> QED BY <1>3, <2>7
<1> QED BY <1>4, <1>5

(* The iterators of a scan, and what they read. *)
ScanStack(src, as, bs, cs) == RunsInOrder(src, as) /\ RunsInOrder(src, bs) /\ RunsInOrder(src, cs)

(* An LsmIterator that stands at the first key from f on: it is valid when *)
(* there is one and the upper bound lets it pass.                          *)
IterAt(src, as, bs, cs, upper, it, f) ==
  /\ it = [inner |-> it.inner, end |-> it.end, valid |-> it.valid]
  /\ f \in Nat /\ it.inner = StackAt(src, as, bs, cs, f) /\ it.end = upper
  /\ it.valid <=> StackKey(it.inner) # NoKey /\ BelowUpper(StackKey(it.inner), upper)

(* Its key and entry. *)
Finds(T, f, k, e) ==
  /\ T \in Table /\ Leads(T, f, k) /\ (k # NoKey => e = T[k])
  /\ k # NoKey => k \in Keys /\ k \in Nat /\ f <= k /\ T[k] \in Int /\ T[k] # Absent

(* They are those of the first key from f on. *)
LEMMA IterReads ==
  ASSUME NEW src, NEW as, NEW bs, NEW cs, ScanStack(src, as, bs, cs), NEW upper, NEW it, NEW f,
         IterAt(src, as, bs, cs, upper, it, f)
  PROVE  Finds(StackTable(src, as, bs, cs), f, StackKey(it.inner), StackEntry(src, it.inner))
<1>0. PICK T, k : T = StackTable(src, as, bs, cs) /\ k = StackKey(it.inner)
  OBVIOUS
<1>1. ReadsAs(T, f, k, StackEntry(src, it.inner))
  <2>1. f \in Nat /\ it.inner = StackAt(src, as, bs, cs, f)
    BY DEF IterAt
  <2> QED BY <1>0, <2>1, StackReads DEF ScanStack
<1>2. Leads(T, f, k) /\ (k # NoKey => StackEntry(src, it.inner) = T[k])
  BY <1>1 DEF ReadsAs
<1>3. T \in Table
  <2>1. MergeTable(src, as) \in Table /\ MergeTable(src, bs) \in Table /\ MergeTable(src, cs) \in Table
    BY MergeTableType DEF ScanStack
  <2> QED BY <1>0, <2>1, OverType DEF StackTable, PairTable
<1>4. k # NoKey => k \in KeysOfTable(T) /\ f <= k
  BY <1>2 DEF Leads
<1>5. k # NoKey => k \in Keys /\ k \in Nat /\ T[k] # Absent
  BY <1>4, KeysAssumption DEF KeysOfTable
<1>6. k # NoKey => T[k] \in Int
  BY <1>3, <1>5 DEF Table
<1> QED BY <1>0, <1>2, <1>3, <1>4, <1>5, <1>6 DEF Finds

(* next_inner goes past the key. *)
LEMMA NextInnerIs ==
  ASSUME NEW src, NEW as, NEW bs, NEW cs, ScanStack(src, as, bs, cs), NEW upper, NEW it, NEW f,
         IterAt(src, as, bs, cs, upper, it, f), it.valid
  PROVE  IterAt(src, as, bs, cs, upper, NextInner(src, it), StackKey(it.inner) + 1)
<1>1. PICK p, k : p = it.inner /\ k = StackKey(p)
  OBVIOUS
<1>9. PICK v : v = it.valid
  OBVIOUS
<1>2. /\ f \in Nat /\ p = StackAt(src, as, bs, cs, f) /\ k # NoKey
      /\ it = [inner |-> p, end |-> upper, valid |-> v]
  BY <1>1, <1>9 DEF IterAt
<1>3. k \in Nat /\ k + 1 \in Nat
  <2>1. Finds(StackTable(src, as, bs, cs), f, StackKey(it.inner), StackEntry(src, it.inner))
    BY IterReads
  <2>2. k \in Nat
    BY <1>1, <1>2, <2>1 DEF Finds
  <2> QED BY <2>2
<1>4. PICK q : q = StackNext(src, p)
  OBVIOUS
<1>5. q = StackAt(src, as, bs, cs, k + 1)
  <2>1. RunsInOrder(src, as) /\ RunsInOrder(src, bs) /\ RunsInOrder(src, cs)
    BY DEF ScanStack
  <2>2. f \in Nat /\ p = StackAt(src, as, bs, cs, f) /\ k = StackKey(p) /\ k # NoKey
    BY <1>1, <1>2
  <2>3. StackNext(src, p) = StackAt(src, as, bs, cs, k + 1)
    BY <2>1, <2>2, StackNextIs
  <2> QED BY <1>4, <2>3
<1>6. PICK r : r = NextInner(src, it)
  OBVIOUS
<1>7. CASE StackKey(q) = NoKey
  <2>1. r = [it EXCEPT !.inner = q, !.valid = FALSE]
    BY <1>1, <1>4, <1>6, <1>7 DEF NextInner
  <2>2. r = [inner |-> q, end |-> upper, valid |-> FALSE]
    BY <1>2, <2>1
  <2>3. r.inner = q /\ r.end = upper /\ ~r.valid /\ r = [inner |-> r.inner, end |-> r.end, valid |-> r.valid]
    BY <2>2
  <2>4. IterAt(src, as, bs, cs, upper, r, k + 1)
    BY <1>3, <1>5, <1>7, <2>3 DEF IterAt
  <2> QED BY <1>1, <1>6, <2>4
<1>8. CASE StackKey(q) # NoKey
  <2>1. PICK i : i = [it EXCEPT !.inner = q]
    OBVIOUS
  <2>2. i = [inner |-> q, end |-> upper, valid |-> v]
    BY <1>2, <2>1
  <2>3. r = [i EXCEPT !.valid = @ /\ BelowUpper(StackKey(i.inner), i.end)]
    BY <1>1, <1>4, <1>6, <1>8, <2>1 DEF NextInner, MatchEndBound
  <2>4. r.inner = q /\ r.end = upper /\ r = [inner |-> r.inner, end |-> r.end, valid |-> r.valid]
    BY <2>2, <2>3
  <2>5. r.valid = (v /\ BelowUpper(StackKey(q), upper))
    BY <2>2, <2>3
  <2>6. r.valid <=> BelowUpper(StackKey(q), upper)
    BY <1>9, <2>5, Zenon
  <2>7. IterAt(src, as, bs, cs, upper, r, k + 1)
    BY <1>3, <1>5, <1>8, <2>4, <2>6 DEF IterAt
  <2> QED BY <1>1, <1>6, <2>7
<1> QED BY <1>7, <1>8

(* The keys below a key are fewer than all of them, and fewer than those   *)
(* below a larger one.                                                     *)
LEMMA KeysBelow ==
  ASSUME NEW p \in Nat, NEW k \in Keys, p <= k
  PROVE  LET B(x) == {j \in Keys : j < x} IN
         /\ Cardinality(B(p)) \in Nat /\ Cardinality(B(k + 1)) \in Nat /\ Cardinality(Keys) \in Nat
         /\ Cardinality(B(p)) + 1 <= Cardinality(B(k + 1))
         /\ Cardinality(B(p)) + 1 <= Cardinality(Keys)
<1> DEFINE B(x) == {j \in Keys : j < x}
<1>1. IsFiniteSet(Keys) /\ k \in Nat /\ \A j \in Keys : j \in Nat
  BY KeysAssumption
<1>2. /\ k \notin B(p) /\ B(p) \cup {k} \in SUBSET B(k + 1) /\ B(k + 1) \in SUBSET Keys
      /\ B(p) \cup {k} \in SUBSET Keys /\ B(p) \in SUBSET Keys
  <2>1. B(p) \in SUBSET Keys /\ B(k + 1) \in SUBSET Keys
    OBVIOUS
  <2>2. \A j \in Keys : (j < p => j < k + 1) /\ k < k + 1 /\ ~(k < p)
    BY <1>1
  <2>3. \A x : \A j : j \in B(x) <=> j \in Keys /\ j < x
    OBVIOUS
  <2> HIDE DEF B
  <2>4. k \notin B(p) /\ k \in B(k + 1) /\ \A j \in B(p) : j \in B(k + 1)
    BY <2>2, <2>3
  <2> QED BY <2>1, <2>4
<1> HIDE DEF B
<1>3. /\ IsFiniteSet(B(p)) /\ IsFiniteSet(B(k + 1)) /\ IsFiniteSet(B(p) \cup {k})
      /\ Cardinality(B(p)) \in Nat /\ Cardinality(B(k + 1)) \in Nat /\ Cardinality(Keys) \in Nat
  BY <1>1, <1>2, FS_Subset, FS_CardinalityType
<1>4. Cardinality(B(p) \cup {k}) = Cardinality(B(p)) + 1
  BY <1>2, <1>3, FS_AddElement
<1>5. /\ Cardinality(B(p) \cup {k}) <= Cardinality(B(k + 1))
      /\ Cardinality(B(p) \cup {k}) <= Cardinality(Keys)
  BY <1>1, <1>2, <1>3, FS_Subset
<1> QED BY <1>3, <1>4, <1>5 DEF B

(* The keys from f to g have tombstones. *)
Passed(T, f, g) == \A j \in KeysOfTable(T) : f <= j /\ j < g => T[j] < 0

(* It does not stand at a tombstone. *)
Settled(src, it) == ~(it.valid /\ StackEntry(src, it.inner) < 0)

(* move_to_non_delete passes tombstones, until there is none. *)
LEMMA MoveIs ==
  ASSUME NEW src, NEW as, NEW bs, NEW cs, ScanStack(src, as, bs, cs), NEW upper, NEW it, NEW f,
         IterAt(src, as, bs, cs, upper, it, f)
  PROVE  \E g \in Nat : /\ f <= g /\ Passed(StackTable(src, as, bs, cs), f, g)
                        /\ IterAt(src, as, bs, cs, upper, MoveToNonDelete(src, it), g)
                        /\ Settled(src, MoveToNonDelete(src, it))
<1> DEFINE N == Cardinality(Keys)
           T == StackTable(src, as, bs, cs)
           moved == CHOOSE g : MovedTo(src, it, N, g)
           At(i, p) == IterAt(src, as, bs, cs, upper, i, p)
           B(p) == {j \in Keys : j < p}
           Good(n, p) == /\ p \in Nat /\ At(moved[n], p) /\ f <= p /\ Passed(T, f, p)
                         /\ Settled(src, moved[n]) \/ n <= Cardinality(B(p))
<1>1. MoveToNonDelete(src, it) = moved[N]
  BY DEF MoveToNonDelete, MovedTo, TurnOf
<1>2. N \in Nat /\ N \in 0 .. N
  BY KeysAssumption, FS_CardinalityType
<1>3. MovedTo(src, it, N, moved)
  BY <1>2, MovedExists
<1> HIDE DEF moved, N
<1>4. \A n \in 0 .. N : moved[n] = IF n = 0 THEN it ELSE TurnOf(src, moved[n - 1])
  BY <1>3 DEF MovedTo
<1> HIDE DEF T, At, B
<1>5. \A i, p : At(i, p) => Finds(T, p, StackKey(i.inner), StackEntry(src, i.inner))
  BY IterReads DEF At, T
<1>6. \A i, p : At(i, p) /\ i.valid => At(NextInner(src, i), StackKey(i.inner) + 1)
  BY NextInnerIs DEF At
<1>7. f \in Nat /\ At(it, f)
  BY DEF IterAt, At
<1>8. \A i, p : At(i, p) => p \in Nat /\ (i.valid => StackKey(i.inner) # NoKey)
  BY DEF IterAt, At
<1>9. \A n \in 0 .. N : \E p : Good(n, p)
  <2> DEFINE S == {n \in 0 .. N : ~\E p : Good(n, p)}
  <2> SUFFICES ASSUME S # {} PROVE FALSE
    OBVIOUS
  <2>1. PICK n \in S : \A j \in S : n <= j
    <3>1. S \in SUBSET Nat
      BY <1>2
    <3> HIDE DEF S
    <3> QED BY <3>1, LeastIndex
  <2>2. n \in 0 .. N /\ n \in Nat /\ ~\E p : Good(n, p)
    BY <1>2
  <2>3. CASE n = 0
    <3>1. moved[0] = it
      BY <1>4, <2>2, <2>3
    <3>2. Passed(T, f, f)
      <4>1. \A j \in KeysOfTable(T) : j \in Nat
        BY KeysAssumption DEF KeysOfTable
      <4> QED BY <1>7, <4>1 DEF Passed
    <3>3. 0 <= Cardinality(B(f))
      <4>1. IsFiniteSet(B(f))
        <5>1. B(f) \in SUBSET Keys
          BY DEF B
        <5> QED BY <5>1, KeysAssumption, FS_Subset
      <4>2. Cardinality(B(f)) \in Nat
        BY <4>1, FS_CardinalityType
      <4> QED BY <4>2
    <3> QED BY <1>7, <2>2, <2>3, <3>1, <3>2, <3>3
  <2>4. CASE n # 0
    <3>1. n - 1 \in 0 .. N /\ ~(n <= n - 1) /\ n - 1 \in Nat
      BY <1>2, <2>2, <2>4
    <3>2. n - 1 \notin S
      <4> HIDE DEF S
      <4> QED BY <2>1, <3>1
    <3>3. PICK p : Good(n - 1, p)
      BY <3>1, <3>2
    <3>4. PICK i : i = moved[n - 1]
      OBVIOUS
    <3>5. /\ p \in Nat /\ At(i, p) /\ f <= p /\ Passed(T, f, p)
          /\ Settled(src, i) \/ n - 1 <= Cardinality(B(p))
      BY <3>3, <3>4
    <3>6. moved[n] = TurnOf(src, i)
      BY <1>4, <2>2, <2>4, <3>4
    <3>7. CASE Settled(src, i)
      <4>1. moved[n] = i
        BY <3>6, <3>7 DEF TurnOf, Settled
      <4>2. Good(n, p)
        BY <3>5, <3>7, <4>1
      <4> QED BY <2>2, <4>2
    <3>8. CASE ~Settled(src, i)
      <4>1. i.valid /\ StackEntry(src, i.inner) < 0
        BY <3>8 DEF Settled
      <4>2. PICK k : k = StackKey(i.inner)
        OBVIOUS
      <4>3. moved[n] = NextInner(src, i)
        BY <3>6, <4>1 DEF TurnOf
      <4>4. At(moved[n], k + 1) /\ k # NoKey
        BY <1>6, <1>8, <3>5, <4>1, <4>2, <4>3
      <4>5. Finds(T, p, k, StackEntry(src, i.inner))
        BY <1>5, <3>5, <4>2
      <4>6. k \in Keys /\ k \in Nat /\ p <= k /\ Leads(T, p, k) /\ T[k] < 0
        BY <4>1, <4>4, <4>5 DEF Finds
      <4>7. \A j \in KeysOfTable(T) : j < p \/ k <= j
        BY <4>4, <4>6 DEF Leads
      <4>8. Passed(T, f, k + 1)
        <5> SUFFICES ASSUME NEW j \in KeysOfTable(T), f <= j, j < k + 1 PROVE T[j] < 0
          BY DEF Passed
        <5>1. j \in Nat
          BY KeysAssumption DEF KeysOfTable
        <5>2. j < p \/ j = k
          BY <4>6, <4>7, <5>1
        <5> QED BY <3>5, <4>6, <5>2 DEF Passed
      <4>9. n <= Cardinality(B(k + 1))
        <5>1. /\ Cardinality(B(p)) \in Nat /\ Cardinality(B(k + 1)) \in Nat
              /\ Cardinality(B(p)) + 1 <= Cardinality(B(k + 1))
          BY <3>5, <4>6, KeysBelow DEF B
        <5>2. n - 1 <= Cardinality(B(p))
          BY <3>5, <3>8
        <5> QED BY <2>2, <5>1, <5>2
      <4>10. k + 1 \in Nat /\ f <= k + 1
        BY <1>7, <3>5, <4>6
      <4>11. Good(n, k + 1)
        BY <4>4, <4>8, <4>9, <4>10
      <4> QED BY <2>2, <4>11
    <3> QED BY <3>7, <3>8
  <2> QED BY <2>3, <2>4
<1>10. PICK p : Good(N, p)
  BY <1>2, <1>9
<1>11. PICK i : i = moved[N]
  OBVIOUS
<1>12. /\ p \in Nat /\ At(i, p) /\ f <= p /\ Passed(T, f, p)
       /\ Settled(src, i) \/ N <= Cardinality(B(p))
  BY <1>10, <1>11
<1>13. Settled(src, i)
  <2> SUFFICES ASSUME ~Settled(src, i) PROVE FALSE
    OBVIOUS
  <2>1. i.valid
    BY DEF Settled
  <2>2. PICK k : k = StackKey(i.inner)
    OBVIOUS
  <2>3. k # NoKey /\ Finds(T, p, k, StackEntry(src, i.inner))
    BY <1>5, <1>8, <1>12, <2>1, <2>2
  <2>4. k \in Keys /\ p <= k
    BY <2>3 DEF Finds
  <2>5. Cardinality(B(p)) \in Nat /\ Cardinality(B(p)) + 1 <= N
    BY <1>12, <2>4, KeysBelow DEF B, N
  <2> QED BY <1>2, <1>12, <2>5
<1> QED BY <1>1, <1>11, <1>12, <1>13 DEF At, T

(* The keys between two bounds that have a value. *)
LiveIn(T, lower, upper) == {k \in Keys : AboveLower(k, lower) /\ BelowUpper(k, upper) /\ T[k] > 0}

Answer == [key : Keys, ent : Int]

(* A reader that has read those below g, in order. *)
Listed(yielded, T, lower, upper, g) ==
  /\ yielded \in Seq(Answer)
  /\ \A i \in DOMAIN yielded : /\ yielded[i].key \in LiveIn(T, lower, upper) /\ yielded[i].key < g
                               /\ yielded[i].ent = T[yielded[i].key]
  /\ \A i, j \in DOMAIN yielded : i < j => yielded[i].key < yielded[j].key
  /\ \A k \in LiveIn(T, lower, upper) : k < g => \E i \in DOMAIN yielded : yielded[i].key = k

(* Such a reader at the iterator it, which has read as far. *)
Reading(src, as, bs, cs, lower, upper, it, yielded) ==
  \E g \in Nat : /\ IterAt(src, as, bs, cs, upper, it, g) /\ FromKey(lower) <= g /\ Settled(src, it)
                 /\ Listed(yielded, StackTable(src, as, bs, cs), lower, upper, g)

(* It lists the table, all of it when the iterator has become invalid. *)
LEMMA ReadingLists ==
  ASSUME NEW src, NEW as, NEW bs, NEW cs, ScanStack(src, as, bs, cs), NEW lower, NEW upper \in Bounds,
         NEW it, NEW yielded, Reading(src, as, bs, cs, lower, upper, it, yielded)
  PROVE  Lists(yielded, StackTable(src, as, bs, cs), lower, upper, ~it.valid)
<1>1. PICK T : T = StackTable(src, as, bs, cs)
  OBVIOUS
<1>2. PICK g \in Nat : /\ IterAt(src, as, bs, cs, upper, it, g)
                       /\ Listed(yielded, T, lower, upper, g)
  BY <1>1 DEF Reading
<1>3. PICK L : L = LiveIn(T, lower, upper)
  OBVIOUS
<1>4. /\ \A i \in DOMAIN yielded : /\ yielded[i].key \in L /\ yielded[i].key < g
                                   /\ yielded[i].ent = T[yielded[i].key]
      /\ \A i, j \in DOMAIN yielded : i < j => yielded[i].key < yielded[j].key
      /\ \A k \in L : k < g => \E i \in DOMAIN yielded : yielded[i].key = k
  BY <1>2, <1>3 DEF Listed
<1>5. \A k \in L : k \in Nat /\ k \in KeysOfTable(T) /\ BelowUpper(k, upper)
  BY <1>3, KeysAssumption DEF LiveIn, KeysOfTable, Absent
<1>6. ASSUME NEW k \in L, ~it.valid PROVE k < g
  <2>1. PICK q : q = StackKey(it.inner)
    OBVIOUS
  <2>2. q = NoKey \/ ~BelowUpper(q, upper)
    BY <1>2, <1>6, <2>1 DEF IterAt
  <2>3. Finds(T, g, q, StackEntry(src, it.inner))
    BY <1>1, <1>2, <2>1, IterReads
  <2>4. Leads(T, g, q) /\ (q # NoKey => q \in Nat)
    BY <2>3 DEF Finds
  <2>5. CASE q = NoKey
    <3>1. NoKey \notin KeysOfTable(T)
      BY NoKeyIs DEF KeysOfTable
    <3> QED BY <1>5, <2>4, <2>5, <3>1 DEF Leads
  <2>6. CASE q # NoKey
    <3>1. k < g \/ q <= k
      BY <1>5, <2>4, <2>6 DEF Leads
    <3>2. ~(q <= k)
      BY <1>5, <2>2, <2>4, <2>6, BoundsSplit
    <3> QED BY <3>1, <3>2
  <2> QED BY <2>5, <2>6
<1>7. ASSUME NEW k \in L, NEW i \in DOMAIN yielded, k <= yielded[i].key PROVE k < g
  <2>1. k \in Nat /\ yielded[i].key \in Nat /\ yielded[i].key < g
    BY <1>4, <1>5
  <2> QED BY <1>7, <2>1
<1>8. \A k \in L : ~it.valid \/ (\E i \in DOMAIN yielded : k <= yielded[i].key) =>
                     \E i \in DOMAIN yielded : yielded[i].key = k
  BY <1>4, <1>6, <1>7
<1> QED BY <1>1, <1>3, <1>4, <1>8 DEF Lists, LiveIn

(* Nothing is read before the first value. *)
LEMMA ListedStarts ==
  ASSUME NEW T \in Table, NEW lower \in Bounds, NEW upper, NEW g \in Nat, Passed(T, FromKey(lower), g)
  PROVE  Listed(<<>>, T, lower, upper, g)
<1>1. ASSUME NEW k \in LiveIn(T, lower, upper) PROVE ~(k < g)
  <2>1. k \in Keys /\ k \in Nat /\ AboveLower(k, lower) /\ T[k] > 0 /\ T[k] \in Int
    BY KeysAssumption DEF LiveIn, Table
  <2>2. k \in KeysOfTable(T) /\ ~(T[k] < 0)
    BY <2>1 DEF KeysOfTable, Absent
  <2>3. FromKey(lower) <= k
    BY <2>1, BoundsSplit
  <2> QED BY <2>2, <2>3 DEF Passed
<1>2. <<>> \in Seq(Answer) /\ DOMAIN <<>> = {}
  OBVIOUS
<1> QED BY <1>1, <1>2 DEF Listed

(* Reading the entry at the iterator and moving on. *)
LEMMA ReadingNext ==
  ASSUME NEW src, NEW as, NEW bs, NEW cs, ScanStack(src, as, bs, cs), NEW lower \in Bounds,
         NEW upper \in Bounds, NEW it, NEW yielded,
         Reading(src, as, bs, cs, lower, upper, it, yielded), it.valid
  PROVE  Reading(src, as, bs, cs, lower, upper, LsmIteratorNext(src, it),
                 Append(yielded, [key |-> StackKey(it.inner), ent |-> StackEntry(src, it.inner)]))
<1>1. PICK T : T = StackTable(src, as, bs, cs)
  OBVIOUS
<1>2. PICK g \in Nat : /\ IterAt(src, as, bs, cs, upper, it, g) /\ FromKey(lower) <= g
                       /\ Settled(src, it) /\ Listed(yielded, T, lower, upper, g)
  BY <1>1 DEF Reading
<1>3. PICK q, e : q = StackKey(it.inner) /\ e = StackEntry(src, it.inner)
  OBVIOUS
<1>4. q # NoKey /\ BelowUpper(q, upper)
  BY <1>2, <1>3 DEF IterAt
<1>5. Finds(T, g, q, e)
  BY <1>1, <1>2, <1>3, IterReads
<1>6. /\ q \in Keys /\ q \in Nat /\ g <= q /\ T[q] \in Int /\ T[q] # Absent /\ e = T[q]
      /\ Leads(T, g, q) /\ T \in Table
  BY <1>4, <1>5 DEF Finds
<1>7. T[q] > 0
  <2>1. ~(e < 0)
    BY <1>2, <1>3 DEF Settled
  <2> QED BY <1>6, <2>1 DEF Absent
<1>8. IterAt(src, as, bs, cs, upper, NextInner(src, it), q + 1)
  BY <1>2, <1>3, NextInnerIs
<1>9. PICK n : n = LsmIteratorNext(src, it)
  OBVIOUS
<1>10. n = MoveToNonDelete(src, NextInner(src, it))
  BY <1>9 DEF LsmIteratorNext
<1>11. PICK h \in Nat : /\ q + 1 <= h /\ Passed(T, q + 1, h)
                        /\ IterAt(src, as, bs, cs, upper, n, h) /\ Settled(src, n)
  BY <1>1, <1>8, <1>10, MoveIs
<1>12. PICK L : L = LiveIn(T, lower, upper)
  OBVIOUS
<1>13. \A k \in L : k \in Nat /\ k \in KeysOfTable(T) /\ T[k] > 0 /\ T[k] \in Int
  <2>1. \A k \in L : k \in Keys /\ k \in Nat /\ T[k] > 0
    BY <1>12, KeysAssumption DEF LiveIn
  <2>2. \A k \in L : T[k] \in Int
    BY <1>6, <2>1 DEF Table
  <2> QED BY <2>1, <2>2 DEF KeysOfTable, Absent
<1>14. q \in L
  <2>1. FromKey(lower) \in Nat /\ FromKey(lower) <= q
    <3>1. FromKey(lower) \in Nat
      BY BoundsSplit
    <3> QED BY <1>2, <1>6, <3>1
  <2>2. AboveLower(q, lower)
    BY <1>6, <2>1, BoundsSplit
  <2> QED BY <1>4, <1>6, <1>7, <1>12, <2>2 DEF LiveIn
<1>15. PICK w : w = Append(yielded, [key |-> q, ent |-> e])
  OBVIOUS
<1>16. PICK m : m = Len(yielded)
  OBVIOUS
<1>17. /\ m \in Nat /\ w \in Seq(Answer) /\ DOMAIN yielded = 1 .. m /\ DOMAIN w = 1 .. m + 1
       /\ w[m + 1].key = q /\ w[m + 1].ent = e /\ \A i \in 1 .. m : w[i] = yielded[i]
  <2>1. yielded \in Seq(Answer)
    BY <1>2 DEF Listed
  <2>2. [key |-> q, ent |-> e] \in Answer
    BY <1>6 DEF Answer
  <2> QED BY <1>15, <1>16, <2>1, <2>2
<1>18. /\ \A i \in 1 .. m : /\ w[i].key \in L /\ w[i].key < g /\ w[i].ent = T[w[i].key]
       /\ \A i, j \in 1 .. m : i < j => w[i].key < w[j].key
       /\ \A k \in L : k < g => \E i \in 1 .. m : w[i].key = k
  BY <1>2, <1>12, <1>17 DEF Listed
<1>19. \A i \in 1 .. m + 1 : i \in 1 .. m \/ i = m + 1
  BY <1>17
<1>20. \A i \in 1 .. m : w[i].key < q /\ w[i].key < h
  <2> SUFFICES ASSUME NEW i \in 1 .. m PROVE w[i].key < q /\ w[i].key < h
    OBVIOUS
  <2>1. w[i].key \in Nat /\ w[i].key < g
    BY <1>13, <1>18
  <2> QED BY <1>6, <1>11, <2>1
<1>21. q < h
  BY <1>6, <1>11
<1>22. Listed(w, T, lower, upper, h)
  <2>1. \A i \in 1 .. m + 1 : w[i].key \in L /\ w[i].key < h /\ w[i].ent = T[w[i].key]
    BY <1>6, <1>14, <1>17, <1>18, <1>19, <1>20, <1>21
  <2>2. ASSUME NEW i \in 1 .. m + 1, NEW j \in 1 .. m + 1, i < j PROVE w[i].key < w[j].key
    <3>1. i \in 1 .. m
      BY <1>17, <2>2
    <3> QED BY <1>17, <1>18, <1>19, <1>20, <2>2, <3>1
  <2>3. ASSUME NEW k \in L, k < h PROVE \E i \in 1 .. m + 1 : w[i].key = k
    <3>1. 1 .. m \in SUBSET 1 .. m + 1 /\ m + 1 \in 1 .. m + 1
      BY <1>17
    <3>2. CASE k < g
      BY <1>18, <3>1, <3>2
    <3>3. CASE ~(k < g)
      <4>1. q <= k
        BY <1>4, <1>6, <1>13, <3>3 DEF Leads
      <4>2. ~(q + 1 <= k)
        <5>1. ~(T[k] < 0)
          BY <1>13
        <5> QED BY <1>11, <1>13, <2>3, <5>1 DEF Passed
      <4>3. k = q
        BY <1>6, <1>13, <4>1, <4>2
      <4> QED BY <1>17, <3>1, <4>3
    <3> QED BY <3>2, <3>3
  <2> QED BY <1>12, <1>17, <2>1, <2>2, <2>3 DEF Listed
<1>23. FromKey(lower) <= h
  <2>1. FromKey(lower) \in Nat
    BY BoundsSplit
  <2> QED BY <1>2, <1>6, <1>11, <2>1
<1>24. Reading(src, as, bs, cs, lower, upper, n, w)
  BY <1>1, <1>11, <1>22, <1>23 DEF Reading
<1> QED BY <1>3, <1>9, <1>15, <1>24

(* Of tables in which the same values are seen between the bounds the same *)
(* is listed.                                                              *)
LEMMA ListsSame ==
  ASSUME NEW T \in Table, NEW U \in Table, NEW lower, NEW upper, NEW yielded, NEW ended,
         Lists(yielded, T, lower, upper, ended),
         \A k \in Keys : AboveLower(k, lower) /\ BelowUpper(k, upper) => Seen(T[k]) = Seen(U[k])
  PROVE  Lists(yielded, U, lower, upper, ended)
<1>1. ASSUME NEW k \in Keys, AboveLower(k, lower), BelowUpper(k, upper)
      PROVE  (T[k] > 0 <=> U[k] > 0) /\ (T[k] > 0 => T[k] = U[k])
  <2>1. T[k] \in Int /\ U[k] \in Int /\ Seen(T[k]) = Seen(U[k])
    BY <1>1 DEF Table
  <2> QED BY <2>1 DEF Seen, Absent
<1>2. LiveIn(T, lower, upper) = LiveIn(U, lower, upper)
  BY <1>1 DEF LiveIn
<1>3. \A k \in LiveIn(T, lower, upper) : T[k] = U[k]
  BY <1>1 DEF LiveIn
<1> QED BY <1>2, <1>3 DEF Lists, LiveIn

-----------------------------------------------------------------------------
(* scan() *)

(* What scan() is given: MemTables cut at the lower bound, and SSTables    *)
(* that are not empty, in order in the levels.                             *)
ScanInput(H, src, mems, l0, levels, lower, upper) ==
  /\ \A h \in H : src[h] \in Table
  /\ mems \in Seq(H) /\ l0 \in Seq(H) /\ lower \in Bounds /\ upper \in Bounds
  /\ Len(levels) \in Nat /\ DOMAIN levels = 1 .. Len(levels)
  /\ \A i \in DOMAIN levels : levels[i] \in Seq(H) /\ InOrder(src, levels[i])
  /\ \A i \in DOMAIN mems : \A k \in KeysOfTable(src[mems[i]]) : FromKey(lower) <= k
  /\ \A i \in DOMAIN l0 : KeysOfTable(src[l0[i]]) # {}
  /\ \A i \in DOMAIN levels : \A j \in DOMAIN levels[i] : KeysOfTable(src[levels[i][j]]) # {}

(* What it is to read for a key. *)
ScanTable(src, mems, l0, levels, k) ==
  OrElse(OrElse(FirstHit([i \in DOMAIN mems |-> src[mems[i]]], k),
                FirstHit([i \in DOMAIN l0 |-> src[l0[i]]], k)),
         FirstHit([i \in DOMAIN levels |-> RunTable(src, levels[i])], k))

(* The tables that are not beyond a bound. *)
InRange(src, tables, lower, upper) ==
  Filtered(tables, {h \in ToSet(tables) : RangeOverlap(src[h], lower, upper)})

(* The others hold no key between the bounds. *)
LEMMA OutOfRange ==
  ASSUME NEW t, KeysOfTable(t) # {}, NEW lower \in Bounds, NEW upper \in Bounds,
         ~RangeOverlap(t, lower, upper), NEW k \in Keys, AboveLower(k, lower), BelowUpper(k, upper)
  PROVE  t[k] = Absent
<1> SUFFICES ASSUME k \in KeysOfTable(t) PROVE FALSE
  BY DEF KeysOfTable
<1>1. PICK a, b : a = FirstKey(t) /\ b = LastKey(t)
  OBVIOUS
<1>2. a <= k /\ k <= b /\ a \in KeysOfTable(t) /\ b \in KeysOfTable(t)
  BY <1>1, FirstLast
<1>3. a \in Nat /\ b \in Nat /\ k \in Nat /\ FromKey(lower) \in Nat
  BY <1>2, KeysAssumption, BoundsSplit DEF KeysOfTable
<1>4. FromKey(lower) <= k
  BY <1>3, BoundsSplit
<1>5. FromKey(lower) <= b
  BY <1>2, <1>3, <1>4
<1>6. AboveLower(b, lower) /\ BelowUpper(a, upper)
  BY <1>2, <1>3, <1>5, BoundsSplit
<1> QED BY <1>1, <1>6 DEF RangeOverlap

(* What is left of a list of tables reads as the list between the bounds. *)
LeftOf(H, src, tables, lower, upper, r) ==
  /\ r \in Seq(H)
  /\ \A i \in DOMAIN r : KeysOfTable(src[r[i]]) # {}
  /\ InOrder(src, tables) => InOrder(src, r)
  /\ \A k \in Keys : AboveLower(k, lower) /\ BelowUpper(k, upper) =>
       /\ FirstHit([i \in DOMAIN r |-> src[r[i]]], k) =
            FirstHit([i \in DOMAIN tables |-> src[tables[i]]], k)
       /\ InOrder(src, tables) => RunTable(src, r)[k] = RunTable(src, tables)[k]

(* So does what scan() leaves. *)
LEMMA InRangeIs ==
  ASSUME NEW H, NEW src, \A h \in H : src[h] \in Table, NEW tables \in Seq(H),
         \A i \in DOMAIN tables : KeysOfTable(src[tables[i]]) # {},
         NEW lower \in Bounds, NEW upper \in Bounds
  PROVE  LeftOf(H, src, tables, lower, upper, InRange(src, tables, lower, upper))
<1>0. PICK r : r = InRange(src, tables, lower, upper)
  OBVIOUS
<1> DEFINE passing == {h \in ToSet(tables) : RangeOverlap(src[h], lower, upper)}
<1>1. PICK ps : ps = passing
  OBVIOUS
<1>2. r = Filtered(tables, ps)
  BY <1>0, <1>1 DEF InRange
<1>3. \A j \in DOMAIN tables : tables[j] \notin ps => ~RangeOverlap(src[tables[j]], lower, upper)
  BY <1>1 DEF ToSet
<1> HIDE DEF passing
<1>4. r \in Seq(H)
  BY <1>2, FilteredPicks
<1>5. PICK m : Picks(tables, ps, Len(tables), r, m)
  BY <1>2, FilteredPicks
<1>6. /\ Len(r) \in Nat /\ DOMAIN r = 1 .. Len(r) /\ Len(tables) \in Nat
      /\ DOMAIN tables = 1 .. Len(tables)
      /\ \A i \in 1 .. Len(r) : m[i] \in DOMAIN tables /\ r[i] = tables[m[i]]
  BY <1>5 DEF Picks
<1>7. \A i \in DOMAIN r : KeysOfTable(src[r[i]]) # {}
  BY <1>6
<1>8. InOrder(src, tables) => InOrder(src, r)
  BY <1>2, FilteredRun
<1>9. ASSUME NEW k \in Keys, AboveLower(k, lower), BelowUpper(k, upper)
      PROVE  /\ FirstHit([i \in DOMAIN r |-> src[r[i]]], k) =
                  FirstHit([i \in DOMAIN tables |-> src[tables[i]]], k)
             /\ InOrder(src, tables) => RunTable(src, r)[k] = RunTable(src, tables)[k]
  <2>1. \A j \in DOMAIN tables : tables[j] \notin ps => src[tables[j]][k] = Absent
    BY <1>3, <1>9, OutOfRange
  <2> DEFINE us == [i \in DOMAIN r |-> src[r[i]]]
             ts == [i \in DOMAIN tables |-> src[tables[i]]]
  <2>2. /\ DOMAIN us = 1 .. Len(r) /\ DOMAIN ts = 1 .. Len(tables)
        /\ \A i \in 1 .. Len(r) : us[i][k] = ts[m[i]][k]
        /\ \A j \in 1 .. Len(tables) : tables[j] \notin ps => ts[j][k] = Absent
    BY <1>6, <2>1
  <2> HIDE DEF us, ts
  <2>3. FirstHit(us, k) = FirstHit(ts, k)
    BY <1>5, <1>6, <2>2, FirstHitPicked
  <2>4. InOrder(src, tables) => RunTable(src, r)[k] = RunTable(src, tables)[k]
    BY <1>2, <2>1, FilteredRun
  <2> QED BY <2>3, <2>4 DEF us, ts
<1>10. LeftOf(H, src, tables, lower, upper, r)
  BY <1>4, <1>7, <1>8, <1>9 DEF LeftOf
<1> QED BY <1>0, <1>10

(* An LsmIterator is created at the first value from f on. *)
LEMMA LsmIteratorStarts ==
  ASSUME NEW src, NEW as, NEW bs, NEW cs, ScanStack(src, as, bs, cs), NEW lower \in Bounds,
         NEW upper \in Bounds
  PROVE  Reading(src, as, bs, cs, lower, upper,
                 LsmIteratorCreate(src, StackAt(src, as, bs, cs, FromKey(lower)), upper), <<>>)
<1>1. PICK T, f : T = StackTable(src, as, bs, cs) /\ f = FromKey(lower)
  OBVIOUS
<1>2. f \in Nat
  BY <1>1, BoundsSplit
<1>3. T \in Table
  <2>1. MergeTable(src, as) \in Table /\ MergeTable(src, bs) \in Table /\ MergeTable(src, cs) \in Table
    BY MergeTableType DEF ScanStack
  <2> QED BY <1>1, <2>1, OverType DEF StackTable, PairTable
<1>4. PICK p, k : p = StackAt(src, as, bs, cs, f) /\ k = StackKey(p)
  OBVIOUS
<1> DEFINE it == [inner |-> p, end |-> upper, valid |-> k # NoKey]
<1>5. PICK c : c = LsmIteratorCreate(src, p, upper)
  OBVIOUS
<1>6. CASE k = NoKey
  <2>1. c = [inner |-> p, end |-> upper, valid |-> FALSE]
    BY <1>4, <1>5, <1>6 DEF LsmIteratorCreate
  <2>2. /\ c = [inner |-> c.inner, end |-> c.end, valid |-> c.valid]
        /\ c.inner = p /\ c.end = upper /\ ~c.valid
    BY <2>1
  <2>3. IterAt(src, as, bs, cs, upper, c, f) /\ Settled(src, c)
    BY <1>2, <1>4, <1>6, <2>2 DEF IterAt, Settled
  <2>4. Passed(T, f, f)
    <3>1. \A j \in KeysOfTable(T) : j \in Nat
      BY KeysAssumption DEF KeysOfTable
    <3> QED BY <1>2, <3>1 DEF Passed
  <2>5. Listed(<<>>, T, lower, upper, f) /\ FromKey(lower) <= f
    <3>1. f <= f /\ Passed(T, FromKey(lower), f)
      BY <1>1, <1>2, <2>4
    <3>2. Listed(<<>>, T, lower, upper, f)
      BY <1>2, <1>3, <3>1, ListedStarts
    <3> QED BY <1>1, <3>1, <3>2
  <2> QED BY <1>1, <1>2, <1>4, <1>5, <2>3, <2>5 DEF Reading
<1>7. CASE k # NoKey
  <2>1. PICK i : i = [inner |-> p, end |-> upper, valid |-> TRUE]
    OBVIOUS
  <2>2. c = MoveToNonDelete(src, MatchEndBound(i))
    BY <1>4, <1>5, <1>7, <2>1 DEF LsmIteratorCreate
  <2>3. PICK j : j = MatchEndBound(i)
    OBVIOUS
  <2>4. PICK v : v = BelowUpper(k, upper)
    OBVIOUS
  <2>5. j = [i EXCEPT !.valid = @ /\ BelowUpper(k, upper)]
    BY <1>4, <2>1, <2>3 DEF MatchEndBound
  <2>6. /\ j = [inner |-> j.inner, end |-> j.end, valid |-> j.valid]
        /\ j.inner = p /\ j.end = upper /\ j.valid = (TRUE /\ BelowUpper(k, upper))
    BY <2>1, <2>5
  <2>7. j.valid <=> BelowUpper(k, upper)
    BY <2>6, Zenon
  <2>8. IterAt(src, as, bs, cs, upper, j, f)
    BY <1>2, <1>4, <1>7, <2>6, <2>7 DEF IterAt
  <2>9. PICK g \in Nat : /\ f <= g /\ Passed(T, f, g) /\ IterAt(src, as, bs, cs, upper, c, g)
                         /\ Settled(src, c)
    BY <1>1, <2>2, <2>3, <2>8, MoveIs
  <2>10. Listed(<<>>, T, lower, upper, g)
    BY <1>1, <1>3, <2>9, ListedStarts
  <2> QED BY <1>1, <1>4, <1>5, <2>9, <2>10 DEF Reading
<1> QED BY <1>6, <1>7

(* scan() returns an iterator that is about to read what the tables hold   *)
(* between the bounds.                                                     *)
ScanReads(src, mems, l0, levels, lower, upper, it, yielded, as, bs, cs) ==
  /\ ScanStack(src, as, bs, cs) /\ Reading(src, as, bs, cs, lower, upper, it, yielded)
  /\ \A k \in Keys : AboveLower(k, lower) /\ BelowUpper(k, upper) =>
                       StackTable(src, as, bs, cs)[k] = ScanTable(src, mems, l0, levels, k)

(* So it does. *)
LEMMA ScanStarts ==
  ASSUME NEW H, NEW src, NEW mems, NEW l0, NEW levels, NEW lower, NEW upper,
         ScanInput(H, src, mems, l0, levels, lower, upper)
  PROVE  \E as, bs, cs : ScanReads(src, mems, l0, levels, lower, upper,
                                   ScanCreate(src, mems, l0, levels, lower, upper), <<>>, as, bs, cs)
<1> DEFINE f == FromKey(lower)
           Lefts(tables) == InRange(src, tables, lower, upper)
           as == Singles(mems)
           bs == Singles(Lefts(l0))
           cs == [i \in DOMAIN levels |-> Lefts(levels[i])]
<1>1. /\ \A h \in H : src[h] \in Table
      /\ mems \in Seq(H) /\ l0 \in Seq(H) /\ lower \in Bounds /\ upper \in Bounds
      /\ Len(levels) \in Nat /\ DOMAIN levels = 1 .. Len(levels)
      /\ \A i \in DOMAIN levels : levels[i] \in Seq(H) /\ InOrder(src, levels[i])
      /\ \A i \in DOMAIN mems : \A k \in KeysOfTable(src[mems[i]]) : f <= k
      /\ \A i \in DOMAIN l0 : KeysOfTable(src[l0[i]]) # {}
      /\ \A i \in DOMAIN levels : \A j \in DOMAIN levels[i] : KeysOfTable(src[levels[i][j]]) # {}
  BY DEF ScanInput
<1>2. f \in Nat
  BY <1>1, BoundsSplit
<1> HIDE DEF f
<1>3. PICK l : l = Lefts(l0)
  OBVIOUS
<1>4. /\ l \in Seq(H) /\ \A i \in DOMAIN l : KeysOfTable(src[l[i]]) # {}
      /\ \A k \in Keys : AboveLower(k, lower) /\ BelowUpper(k, upper) =>
           FirstHit([i \in DOMAIN l |-> src[l[i]]], k) = FirstHit([i \in DOMAIN l0 |-> src[l0[i]]], k)
  <2>1. LeftOf(H, src, l0, lower, upper, l)
    BY <1>1, <1>3, InRangeIs
  <2> QED BY <2>1 DEF LeftOf
<1>5. ASSUME NEW i \in DOMAIN levels
      PROVE  /\ Lefts(levels[i]) \in Seq(H) /\ InOrder(src, Lefts(levels[i]))
             /\ \A j \in DOMAIN Lefts(levels[i]) : KeysOfTable(src[Lefts(levels[i])[j]]) # {}
             /\ \A k \in Keys : AboveLower(k, lower) /\ BelowUpper(k, upper) =>
                  RunTable(src, Lefts(levels[i]))[k] = RunTable(src, levels[i])[k]
  <2>1. PICK t, r : t = levels[i] /\ r = Lefts(t)
    OBVIOUS
  <2>2. t \in Seq(H) /\ InOrder(src, t) /\ \A j \in DOMAIN t : KeysOfTable(src[t[j]]) # {}
    BY <1>1, <2>1
  <2>3. /\ r \in Seq(H) /\ InOrder(src, r) /\ \A j \in DOMAIN r : KeysOfTable(src[r[j]]) # {}
        /\ \A k \in Keys : AboveLower(k, lower) /\ BelowUpper(k, upper) =>
             RunTable(src, r)[k] = RunTable(src, t)[k]
    <3>1. LeftOf(H, src, t, lower, upper, r)
      BY <1>1, <2>1, <2>2, InRangeIs
    <3> QED BY <2>2, <3>1 DEF LeftOf
  <2> QED BY <2>1, <2>3
<1> HIDE DEF Lefts
<1>6. RunsInOrder(src, as) /\ RunsInOrder(src, bs)
  <2>1. RunsInOrder(src, Singles(mems))
    BY <1>1, SinglesRead
  <2>2. RunsInOrder(src, Singles(l))
    BY <1>1, <1>4, SinglesRead
  <2> QED BY <1>3, <2>1, <2>2
<1>7. RunsInOrder(src, cs)
  <2>1. Len(cs) = Len(levels) /\ DOMAIN cs = 1 .. Len(levels)
    BY <1>1
  <2> QED BY <1>1, <1>5, <2>1 DEF RunsInOrder
<1>8. ScanStack(src, as, bs, cs)
  BY <1>6, <1>7 DEF ScanStack
<1>9. ASSUME NEW k \in Keys, AboveLower(k, lower), BelowUpper(k, upper)
      PROVE  StackTable(src, as, bs, cs)[k] = ScanTable(src, mems, l0, levels, k)
  <2>1. MergeTable(src, as)[k] = FirstHit([i \in DOMAIN mems |-> src[mems[i]]], k)
    BY <1>1, SinglesRead
  <2>2. MergeTable(src, bs)[k] = FirstHit([i \in DOMAIN l0 |-> src[l0[i]]], k)
    <3>1. MergeTable(src, Singles(l))[k] = FirstHit([i \in DOMAIN l |-> src[l[i]]], k)
      BY <1>1, <1>4, SinglesRead
    <3> QED BY <1>3, <1>4, <1>9, <3>1
  <2>3. MergeTable(src, cs)[k] = FirstHit([i \in DOMAIN levels |-> RunTable(src, levels[i])], k)
    <3> DEFINE us == [i \in DOMAIN cs |-> RunTable(src, cs[i])]
               ts == [i \in DOMAIN levels |-> RunTable(src, levels[i])]
    <3>1. /\ DOMAIN us = DOMAIN ts /\ DOMAIN ts \in SUBSET Nat
          /\ \A i \in DOMAIN ts : us[i][k] = ts[i][k]
      BY <1>1, <1>5, <1>9
    <3>2. MergeTable(src, cs)[k] = FirstHit(us, k)
      BY DEF MergeTable, Merge
    <3> HIDE DEF us, ts
    <3>3. FirstHit(us, k) = FirstHit(ts, k)
      BY <3>1, FirstHitSame
    <3> QED BY <3>2, <3>3 DEF ts
  <2> HIDE DEF as, bs, cs
  <2>4. StackTable(src, as, bs, cs)[k] =
          OrElse(OrElse(MergeTable(src, as)[k], MergeTable(src, bs)[k]), MergeTable(src, cs)[k])
    BY DEF StackTable, PairTable, Over
  <2> QED BY <2>1, <2>2, <2>3, <2>4 DEF ScanTable
<1>10. MergeCreate([i \in DOMAIN mems |-> SeekToFirst(src, <<mems[i]>>)]) = MergeAt(src, as, f)
  <2> DEFINE iters == [i \in DOMAIN mems |-> SeekToFirst(src, <<mems[i]>>)]
  <2>1. ASSUME NEW i \in DOMAIN mems PROVE SeekToFirst(src, <<mems[i]>>) = RunAt(src, <<mems[i]>>, f)
    <3>1. PICK run : run = <<mems[i]>>
      OBVIOUS
    <3>2. InOrder(src, run)
      <4>1. as[i] = run /\ i \in DOMAIN as
        BY <3>1 DEF Singles
      <4> HIDE DEF as
      <4> QED BY <1>6, <4>1 DEF RunsInOrder
    <3>3. SeekToFirst(src, run) = RunAt(src, run, 0)
      BY <3>2, SeekToFirstIs
    <3>4. PICK r : r = RunAt(src, run, 0)
      OBVIOUS
    <3>5. r.key = NoKey \/ f <= r.key
      <4>1. r.key = NoKey \/ \E j \in DOMAIN run : r.key \in KeysOfTable(src[run[j]])
        BY <3>2, <3>4, RunAtIs DEF NoIter
      <4>2. \A j \in DOMAIN run : run[j] = mems[i]
        BY <3>1
      <4> QED BY <1>1, <4>1, <4>2
    <3>6. RunAt(src, run, f) = RunAt(src, run, 0)
      <4>1. 0 <= f /\ 0 \in Nat
        BY <1>2
      <4> QED BY <1>2, <3>2, <3>4, <3>5, <4>1, RunStays
    <3> QED BY <3>1, <3>3, <3>6
  <2>2. DOMAIN iters = DOMAIN as /\ \A i \in DOMAIN as : iters[i] = RunAt(src, as[i], f)
    BY <2>1 DEF Singles
  <2> HIDE DEF iters, as
  <2>3. MergeCreate(iters) = MergeAt(src, as, f)
    BY <2>2, MergeCreateIs
  <2> QED BY <2>3 DEF iters
<1>11. MergeCreate([i \in DOMAIN l |-> SeekLower(src, <<l[i]>>, lower)]) = MergeAt(src, bs, f)
  <2> DEFINE iters == [i \in DOMAIN l |-> SeekLower(src, <<l[i]>>, lower)]
  <2>1. ASSUME NEW i \in DOMAIN l PROVE SeekLower(src, <<l[i]>>, lower) = RunAt(src, <<l[i]>>, f)
    <3>1. PICK run : run = <<l[i]>>
      OBVIOUS
    <3>2. InOrder(src, run)
      <4>1. bs[i] = run /\ i \in DOMAIN bs
        BY <1>3, <3>1 DEF Singles
      <4> HIDE DEF bs
      <4> QED BY <1>6, <4>1 DEF RunsInOrder
    <3>3. \A j \in DOMAIN run : KeysOfTable(src[run[j]]) # {}
      <4>1. \A j \in DOMAIN run : run[j] = l[i]
        BY <3>1
      <4> QED BY <1>4, <4>1
    <3>4. SeekLower(src, run, lower) = RunAt(src, run, f)
      BY <1>1, <3>2, <3>3, SeekLowerIs DEF f
    <3> QED BY <3>1, <3>4
  <2>2. DOMAIN iters = DOMAIN bs /\ \A i \in DOMAIN bs : iters[i] = RunAt(src, bs[i], f)
    BY <1>3, <2>1 DEF Singles
  <2> HIDE DEF iters, bs
  <2>3. MergeCreate(iters) = MergeAt(src, bs, f)
    BY <2>2, MergeCreateIs
  <2> QED BY <2>3 DEF iters
<1>12. MergeCreate([i \in DOMAIN levels |-> SeekLower(src, Lefts(levels[i]), lower)]) = MergeAt(src, cs, f)
  <2> DEFINE iters == [i \in DOMAIN levels |-> SeekLower(src, Lefts(levels[i]), lower)]
  <2>1. ASSUME NEW i \in DOMAIN levels
        PROVE  SeekLower(src, Lefts(levels[i]), lower) = RunAt(src, Lefts(levels[i]), f)
    <3>1. PICK run : run = Lefts(levels[i])
      OBVIOUS
    <3>2. InOrder(src, run) /\ \A j \in DOMAIN run : KeysOfTable(src[run[j]]) # {}
      BY <1>5, <3>1
    <3>3. SeekLower(src, run, lower) = RunAt(src, run, f)
      BY <1>1, <3>2, SeekLowerIs DEF f
    <3> QED BY <3>1, <3>3
  <2>2. DOMAIN iters = DOMAIN cs /\ \A i \in DOMAIN cs : iters[i] = RunAt(src, cs[i], f)
    BY <2>1
  <2> HIDE DEF iters, cs
  <2>3. MergeCreate(iters) = MergeAt(src, cs, f)
    BY <2>2, MergeCreateIs
  <2> QED BY <2>3 DEF iters
<1>13. ScanCreate(src, mems, l0, levels, lower, upper) =
         LsmIteratorCreate(src, StackAt(src, as, bs, cs, f), upper)
  <2>1. ScanCreate(src, mems, l0, levels, lower, upper) =
          LET A == MergeCreate([i \in DOMAIN mems |-> SeekToFirst(src, <<mems[i]>>)])
              B == MergeCreate([i \in DOMAIN l |-> SeekLower(src, <<l[i]>>, lower)])
              C == MergeCreate([i \in DOMAIN levels |-> SeekLower(src, Lefts(levels[i]), lower)])
          IN  LsmIteratorCreate(src, StackCreate(src, PairCreate(src, A, B), C), upper)
    BY <1>3 DEF ScanCreate, Lefts, InRange
  <2> HIDE DEF as, bs, cs
  <2> QED BY <1>10, <1>11, <1>12, <2>1 DEF StackAt, PairAt
<1> HIDE DEF as, bs, cs
<1>14. Reading(src, as, bs, cs, lower, upper, ScanCreate(src, mems, l0, levels, lower, upper), <<>>)
  BY <1>1, <1>8, <1>13, LsmIteratorStarts DEF f
<1>15. ScanReads(src, mems, l0, levels, lower, upper,
                 ScanCreate(src, mems, l0, levels, lower, upper), <<>>, as, bs, cs)
  BY <1>8, <1>9, <1>14 DEF ScanReads
<1> QED BY <1>15

-----------------------------------------------------------------------------
(* get() *)

(* The SSTables get() is given: none is empty, and they are in order in    *)
(* the levels.                                                             *)
GetInput(H, src, l0, levels) ==
  /\ \A h \in H : src[h] \in Table
  /\ l0 \in Seq(H) /\ Len(levels) \in Nat /\ DOMAIN levels = 1 .. Len(levels)
  /\ \A i \in DOMAIN levels : levels[i] \in Seq(H) /\ InOrder(src, levels[i])
  /\ \A i \in DOMAIN l0 : KeysOfTable(src[l0[i]]) # {}
  /\ \A i \in DOMAIN levels : \A j \in DOMAIN levels[i] : KeysOfTable(src[levels[i][j]]) # {}

(* r reads as the list of tables for key k. *)
KeepsFor(H, src, tables, k, r) ==
  /\ r \in Seq(H)
  /\ \A i \in DOMAIN r : KeysOfTable(src[r[i]]) # {}
  /\ InOrder(src, tables) => InOrder(src, r)
  /\ FirstHit([i \in DOMAIN r |-> src[r[i]]], k) = FirstHit([i \in DOMAIN tables |-> src[tables[i]]], k)
  /\ InOrder(src, tables) => RunTable(src, r)[k] = RunTable(src, tables)[k]

(* So does the list without tables that do not hold the key. *)
LEMMA FilteredKeeps ==
  ASSUME NEW H, NEW src, \A h \in H : src[h] \in Table, NEW tables \in Seq(H), NEW ps,
         \A i \in DOMAIN tables : KeysOfTable(src[tables[i]]) # {}, NEW k \in Keys,
         \A j \in DOMAIN tables : tables[j] \notin ps => src[tables[j]][k] = Absent
  PROVE  KeepsFor(H, src, tables, k, Filtered(tables, ps))
<1>1. PICK r : r = Filtered(tables, ps)
  OBVIOUS
<1>2. r \in Seq(H)
  BY <1>1, FilteredPicks
<1>3. PICK m : Picks(tables, ps, Len(tables), r, m)
  BY <1>1, FilteredPicks
<1>4. /\ Len(r) \in Nat /\ DOMAIN r = 1 .. Len(r) /\ Len(tables) \in Nat
      /\ DOMAIN tables = 1 .. Len(tables)
      /\ \A i \in 1 .. Len(r) : m[i] \in DOMAIN tables /\ r[i] = tables[m[i]]
  BY <1>3 DEF Picks
<1>5. \A i \in DOMAIN r : KeysOfTable(src[r[i]]) # {}
  BY <1>4
<1>6. InOrder(src, tables) => InOrder(src, r) /\ RunTable(src, r)[k] = RunTable(src, tables)[k]
  BY <1>1, FilteredRun
<1> DEFINE us == [i \in DOMAIN r |-> src[r[i]]]
           ts == [i \in DOMAIN tables |-> src[tables[i]]]
<1>7. /\ DOMAIN us = 1 .. Len(r) /\ DOMAIN ts = 1 .. Len(tables)
      /\ \A i \in 1 .. Len(r) : us[i][k] = ts[m[i]][k]
      /\ \A j \in 1 .. Len(tables) : tables[j] \notin ps => ts[j][k] = Absent
  BY <1>4
<1> HIDE DEF us, ts
<1>8. FirstHit(us, k) = FirstHit(ts, k)
  BY <1>3, <1>4, <1>7, FirstHitPicked
<1>9. KeepsFor(H, src, tables, k, r)
  BY <1>2, <1>5, <1>6, <1>8 DEF KeepsFor, us, ts
<1> QED BY <1>1, <1>9

(* The tables keep_table leaves. *)
KeepTables(src, tables, k, maybe) ==
  Filtered(tables, {h \in ToSet(tables) : /\ FirstKey(src[h]) <= k /\ k <= LastKey(src[h])
                                          /\ src[h][k] # Absent \/ h \in maybe})

(* The others do not hold the key. *)
LEMMA KeepTablesIs ==
  ASSUME NEW H, NEW src, \A h \in H : src[h] \in Table, NEW tables \in Seq(H), NEW maybe,
         \A i \in DOMAIN tables : KeysOfTable(src[tables[i]]) # {}, NEW k \in Keys
  PROVE  KeepsFor(H, src, tables, k, KeepTables(src, tables, k, maybe))
<1>1. PICK ps : ps = {h \in ToSet(tables) : /\ FirstKey(src[h]) <= k /\ k <= LastKey(src[h])
                                            /\ src[h][k] # Absent \/ h \in maybe}
  OBVIOUS
<1>2. ASSUME NEW j \in DOMAIN tables, tables[j] \notin ps PROVE src[tables[j]][k] = Absent
  <2> SUFFICES ASSUME src[tables[j]][k] # Absent PROVE FALSE
    OBVIOUS
  <2>1. PICK t : t = src[tables[j]]
    OBVIOUS
  <2>2. k \in KeysOfTable(t)
    BY <2>1 DEF KeysOfTable
  <2>3. FirstKey(t) <= k /\ k <= LastKey(t)
    BY <2>2, FirstLast
  <2>4. tables[j] \in ToSet(tables)
    BY DEF ToSet
  <2> QED BY <1>1, <1>2, <2>1, <2>3, <2>4
<1>3. KeepsFor(H, src, tables, k, Filtered(tables, ps))
  BY <1>2, FilteredKeeps
<1> QED BY <1>1, <1>3 DEF KeepTables

(* get() answers what the first table that holds the key says. *)
LEMMA GetReads ==
  ASSUME NEW H, NEW src, NEW l0, NEW levels, GetInput(H, src, l0, levels), NEW k \in Keys, NEW maybe
  PROVE  GetFromTables(src, l0, levels, k, maybe) =
           Seen(OrElse(FirstHit([i \in DOMAIN l0 |-> src[l0[i]]], k),
                       FirstHit([i \in DOMAIN levels |-> RunTable(src, levels[i])], k)))
<1> DEFINE Keep(tables) == KeepTables(src, tables, k, maybe)
<1>1. /\ \A h \in H : src[h] \in Table
      /\ l0 \in Seq(H) /\ Len(levels) \in Nat /\ DOMAIN levels = 1 .. Len(levels)
      /\ \A i \in DOMAIN levels : levels[i] \in Seq(H) /\ InOrder(src, levels[i])
      /\ \A i \in DOMAIN l0 : KeysOfTable(src[l0[i]]) # {}
      /\ \A i \in DOMAIN levels : \A j \in DOMAIN levels[i] : KeysOfTable(src[levels[i][j]]) # {}
  BY DEF GetInput
<1>2. k \in Nat
  BY KeysAssumption
<1>3. PICK l, ls : l = Keep(l0) /\ ls = [i \in DOMAIN levels |-> Keep(levels[i])]
  OBVIOUS
<1>4. KeepsFor(H, src, l0, k, l)
  BY <1>1, <1>3, KeepTablesIs
<1>5. ASSUME NEW i \in DOMAIN levels PROVE KeepsFor(H, src, levels[i], k, ls[i])
  <2>1. PICK t : t = levels[i]
    OBVIOUS
  <2>2. t \in Seq(H) /\ \A j \in DOMAIN t : KeysOfTable(src[t[j]]) # {}
    BY <1>1, <2>1
  <2>3. KeepsFor(H, src, t, k, KeepTables(src, t, k, maybe))
    BY <1>1, <2>2, KeepTablesIs
  <2> QED BY <1>3, <2>1, <2>3
<1>6. GetFromTables(src, l0, levels, k, maybe) =
        LET p == PairCreate(src, MergeCreate([i \in DOMAIN l |-> SeekToKey(src, <<l[i]>>, k)]),
                            MergeCreate([i \in DOMAIN levels |-> SeekToKey(src, ls[i], k)]))
        IN  IF PairKey(p) = k THEN Seen(PairEntry(src, p)) ELSE Absent
  BY <1>3 DEF GetFromTables, KeepTables
<1> HIDE DEF Keep
<1>7. PICK as : as = Singles(l)
  OBVIOUS
<1>8. RunsInOrder(src, as) /\ MergeTable(src, as)[k] = FirstHit([i \in DOMAIN l |-> src[l[i]]], k)
  BY <1>1, <1>4, <1>7, SinglesRead DEF KeepsFor
<1>9. RunsInOrder(src, ls)
  <2>1. Len(ls) = Len(levels) /\ DOMAIN ls = 1 .. Len(levels)
    BY <1>1, <1>3
  <2>2. \A i \in DOMAIN levels : InOrder(src, ls[i])
    BY <1>1, <1>5 DEF KeepsFor
  <2> QED BY <1>1, <2>1, <2>2 DEF RunsInOrder
<1>10. MergeTable(src, ls)[k] = FirstHit([i \in DOMAIN levels |-> RunTable(src, levels[i])], k)
  <2> DEFINE us == [i \in DOMAIN ls |-> RunTable(src, ls[i])]
             ts == [i \in DOMAIN levels |-> RunTable(src, levels[i])]
  <2>0. \A i \in DOMAIN levels : RunTable(src, ls[i])[k] = RunTable(src, levels[i])[k]
    BY <1>1, <1>5 DEF KeepsFor
  <2>1. /\ DOMAIN us = DOMAIN ts /\ DOMAIN ts \in SUBSET Nat
        /\ \A i \in DOMAIN ts : us[i][k] = ts[i][k]
    BY <1>1, <1>3, <2>0
  <2>2. MergeTable(src, ls)[k] = FirstHit(us, k)
    BY DEF MergeTable, Merge
  <2> HIDE DEF us, ts
  <2>3. FirstHit(us, k) = FirstHit(ts, k)
    BY <2>1, FirstHitSame
  <2> QED BY <2>2, <2>3 DEF ts
<1>11. MergeCreate([i \in DOMAIN l |-> SeekToKey(src, <<l[i]>>, k)]) = MergeAt(src, as, k)
  <2> DEFINE iters == [i \in DOMAIN l |-> SeekToKey(src, <<l[i]>>, k)]
  <2>1. ASSUME NEW i \in DOMAIN l PROVE SeekToKey(src, <<l[i]>>, k) = RunAt(src, <<l[i]>>, k)
    <3>1. PICK run : run = <<l[i]>>
      OBVIOUS
    <3>2. InOrder(src, run)
      <4>1. as[i] = run /\ i \in DOMAIN as
        BY <1>7, <3>1 DEF Singles
      <4> QED BY <1>8, <4>1 DEF RunsInOrder
    <3>3. \A j \in DOMAIN run : KeysOfTable(src[run[j]]) # {}
      <4>1. \A j \in DOMAIN run : run[j] = l[i]
        BY <3>1
      <4> QED BY <1>4, <4>1 DEF KeepsFor
    <3>4. SeekToKey(src, run, k) = RunAt(src, run, k)
      BY <1>2, <3>2, <3>3, SeekToKeyIs
    <3> QED BY <3>1, <3>4
  <2>2. DOMAIN iters = DOMAIN as /\ \A i \in DOMAIN as : iters[i] = RunAt(src, as[i], k)
    BY <1>7, <2>1 DEF Singles
  <2> HIDE DEF iters
  <2>3. MergeCreate(iters) = MergeAt(src, as, k)
    BY <2>2, MergeCreateIs
  <2> QED BY <2>3 DEF iters
<1>12. MergeCreate([i \in DOMAIN levels |-> SeekToKey(src, ls[i], k)]) = MergeAt(src, ls, k)
  <2> DEFINE iters == [i \in DOMAIN levels |-> SeekToKey(src, ls[i], k)]
  <2>1. ASSUME NEW i \in DOMAIN levels PROVE SeekToKey(src, ls[i], k) = RunAt(src, ls[i], k)
    <3>1. PICK run : run = ls[i]
      OBVIOUS
    <3>2. InOrder(src, run) /\ \A j \in DOMAIN run : KeysOfTable(src[run[j]]) # {}
      BY <1>1, <1>5, <3>1 DEF KeepsFor
    <3>3. SeekToKey(src, run, k) = RunAt(src, run, k)
      BY <1>2, <3>2, SeekToKeyIs
    <3> QED BY <3>1, <3>3
  <2>2. DOMAIN iters = DOMAIN ls /\ \A i \in DOMAIN ls : iters[i] = RunAt(src, ls[i], k)
    BY <1>3, <2>1
  <2> HIDE DEF iters
  <2>3. MergeCreate(iters) = MergeAt(src, ls, k)
    BY <2>2, MergeCreateIs
  <2> QED BY <2>3 DEF iters
<1>13. PICK p : p = PairAt(src, as, ls, k)
  OBVIOUS
<1>14. GetFromTables(src, l0, levels, k, maybe) =
         IF PairKey(p) = k THEN Seen(PairEntry(src, p)) ELSE Absent
  BY <1>6, <1>11, <1>12, <1>13 DEF PairAt
<1>15. PICK T : T = PairTable(src, as, ls)
  OBVIOUS
<1>16. T[k] = OrElse(FirstHit([i \in DOMAIN l0 |-> src[l0[i]]], k),
                     FirstHit([i \in DOMAIN levels |-> RunTable(src, levels[i])], k))
  BY <1>4, <1>8, <1>10, <1>15 DEF KeepsFor, PairTable, Over
<1>17. ReadsAs(T, k, PairKey(p), PairEntry(src, p))
  BY <1>2, <1>8, <1>9, <1>13, <1>15, PairReads
<1>18. PICK d, e : d = PairKey(p) /\ e = PairEntry(src, p)
  OBVIOUS
<1>19. IF d = k THEN e = T[k] ELSE T[k] = Absent
  <2>1. Leads(T, k, d) /\ (d # NoKey => e = T[d]) /\ k # NoKey
    BY <1>2, <1>17, <1>18, NoKeyIs DEF ReadsAs
  <2>2. CASE d = k
    BY <2>1, <2>2
  <2>3. CASE d # k
    <3> SUFFICES ASSUME k \in KeysOfTable(T) PROVE FALSE
      BY <2>3 DEF KeysOfTable
    <3>1. d \in KeysOfTable(T) /\ k <= d /\ d <= k
      BY <1>2, <2>1 DEF Leads
    <3>2. d \in Nat
      BY <3>1, KeysAssumption DEF KeysOfTable
    <3> QED BY <1>2, <2>3, <3>1, <3>2
  <2> QED BY <2>2, <2>3
<1>20. Seen(Absent) = Absent
  BY DEF Seen, Absent
<1> QED BY <1>14, <1>16, <1>18, <1>19, <1>20
=============================================================================
