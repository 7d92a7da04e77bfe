-------------------------- MODULE CompactionProofs --------------------------
(***************************************************************************)
(* What applying the result of a compaction does to L0 and the levels, for *)
(* force_full_compaction(), the simple leveled and the tiered strategy:    *)
(* readers see the same, and the lists of tables keep their shape.         *)
(* A task that was made of a state still fits the state after more         *)
(* flushes, and applying its result leaves every reader with what it saw.  *)
(***************************************************************************)
EXTENDS CompactionController, TablesProofs

(* LsmStorageState and its levels over a set of table ids. *)
LevelOver(S) == [id : Nat, ssts : Seq(S)]

StateOver(S) ==
  [memtable : S, imm_memtables : Seq(S), l0_sstables : Seq(S),
   levels : Seq(LevelOver(S)), sstables : SUBSET S]

-----------------------------------------------------------------------------
(* Lists with some elements left out *)

(* The size of an interval. *)
LEMMA IntervalSize ==
  ASSUME NEW a \in Int, NEW b \in Int, a <= b + 1
  PROVE  IsFiniteSet(a .. b) /\ Cardinality(a .. b) = b - a + 1
<1>1. IsFiniteSet(a .. b) /\ Cardinality(a .. b) = IF a > b THEN 0 ELSE b - a + 1
  BY FS_Interval
<1> QED BY <1>1

Outside(n, m, l) == {i \in 1 .. n : i <= m \/ l <= i}

CutOut(s, n, m, l) ==
  [j \in 1 .. m + (n + 1 - l) |-> IF j <= m THEN s[j] ELSE s[j + (l - 1 - m)]]

(* Leaving out the elements between m and l moves those from l on down. *)
LEMMA PickSegment ==
  ASSUME NEW s, NEW n \in Nat, NEW m \in 0 .. n, NEW l \in m + 1 .. n + 1
  PROVE  Pick(s, Outside(n, m, l)) = CutOut(s, n, m, l)
<1> USE DEF Outside
<1> DEFINE at == Outside(n, m, l)
           upto(i) == {x \in at : x <= i}
           nth(j) == CHOOSE i \in at : Cardinality(upto(i)) = j
<1>0. m \in Int /\ l \in Int /\ 1 <= m + 1
  OBVIOUS
<1>1. ASSUME NEW i \in 1 .. m PROVE Cardinality(upto(i)) = i
  <2>1. upto(i) = 1 .. i
    OBVIOUS
  <2>2. Cardinality(1 .. i) = i - 1 + 1
    BY IntervalSize
  <2>3. Cardinality(upto(i)) = Cardinality(1 .. i)
    BY <2>1, Zenon
  <2> QED BY <2>2, <2>3
<1>2. ASSUME NEW i \in l .. n PROVE Cardinality(upto(i)) = m + (i - l + 1)
  <2>1. upto(i) = (1 .. m) \cup (l .. i) /\ (1 .. m) \cap (l .. i) = {}
    OBVIOUS
  <2>2. IsFiniteSet(1 .. m) /\ Cardinality(1 .. m) = m - 1 + 1
    BY <1>0, IntervalSize
  <2>3. IsFiniteSet(l .. i) /\ Cardinality(l .. i) = i - l + 1
    BY <1>0, IntervalSize
  <2>4. Cardinality((1 .. m) \cap (l .. i)) = 0
    BY <2>1, FS_EmptySet
  <2>5. Cardinality((1 .. m) \cup (l .. i)) =
          Cardinality(1 .. m) + Cardinality(l .. i) - Cardinality((1 .. m) \cap (l .. i))
    BY <2>2, <2>3, FS_Union
  <2>6. Cardinality(upto(i)) = Cardinality((1 .. m) \cup (l .. i))
    BY <2>1, Zenon
  <2> QED BY <1>0, <2>2, <2>3, <2>4, <2>5, <2>6
<1>3. Cardinality(at) = m + (n + 1 - l)
  <2>1. CASE l <= n
    <3>1. at = upto(n) /\ n \in l .. n
      BY <2>1
    <3> QED BY <1>2, <3>1
  <2>2. CASE l > n
    <3>1. l = n + 1 /\ at = 1 .. m
      BY <2>2
    <3>2. Cardinality(1 .. m) = m - 1 + 1
      BY <1>0, IntervalSize
    <3>3. Cardinality(at) = Cardinality(1 .. m)
      BY <3>1, Zenon
    <3> QED BY <1>0, <3>1, <3>2, <3>3
  <2> QED BY <2>1, <2>2
<1>4. ASSUME NEW j \in 1 .. m + (n + 1 - l)
      PROVE  nth(j) = IF j <= m THEN j ELSE j + (l - 1 - m)
  <2> DEFINE e == IF j <= m THEN j ELSE j + (l - 1 - m)
  <2>1. e \in at /\ (j <= m => e \in 1 .. m) /\ (j > m => e \in l .. n)
    OBVIOUS
  <2>2. Cardinality(upto(e)) = j
    <3>1. CASE j <= m
      <4>1. e = j /\ e \in 1 .. m
        BY <3>1
      <4> QED BY <1>1, <4>1
    <3>2. CASE j > m
      <4>1. e \in l .. n /\ m + (e - l + 1) = j
        BY <2>1, <3>2
      <4> QED BY <1>2, <4>1
    <3> QED BY <3>1, <3>2
  <2>3. ASSUME NEW i \in at, Cardinality(upto(i)) = j PROVE i = e
    <3>1. CASE i \in 1 .. m
      BY <1>1, <2>3, <3>1
    <3>2. CASE i \in l .. n
      BY <1>2, <2>3, <3>2
    <3> QED BY <3>1, <3>2
  <2> HIDE DEF e, upto
  <2>4. nth(j) = e
    BY <2>1, <2>2, <2>3
  <2> QED BY <2>4 DEF e
<1>5. Pick(s, at) = [j \in 1 .. Cardinality(at) |-> s[nth(j)]]
  BY DEF Pick
<1> HIDE DEF nth
<1> QED BY <1>3, <1>4, <1>5 DEF CutOut

(* u is the end of the list s: what was put before it came later. *)
Oldest(u, s) ==
  /\ Len(u) <= Len(s)
  /\ \A i \in 1 .. Len(u) : u[i] = s[Len(s) - Len(u) + i]

(* Leaving out the end of a list without repetitions leaves what comes     *)
(* before it.                                                              *)
LEMMA WithoutOldest ==
  ASSUME NEW S, NEW s \in Seq(S), NEW u \in Seq(S), Oldest(u, s),
         \A i, j \in DOMAIN s : s[i] = s[j] => i = j
  PROVE  Without(s, ToSet(u)) = [i \in 1 .. Len(s) - Len(u) |-> s[i]]
<1> DEFINE n == Len(s)  m == Len(s) - Len(u)
           at == {i \in DOMAIN s : s[i] \notin ToSet(u)}
<1>1. n \in Nat /\ Len(u) \in Nat /\ m \in 0 .. n /\ DOMAIN s = 1 .. n /\ DOMAIN u = 1 .. Len(u)
  BY DEF Oldest
<1>2. ASSUME NEW i \in 1 .. n PROVE s[i] \notin ToSet(u) <=> i <= m
  <2>1. CASE i <= m
    <3>1. ASSUME NEW j \in 1 .. Len(u) PROVE s[i] # u[j]
      <4>1. u[j] = s[m + j] /\ m + j \in 1 .. n /\ m + j # i
        BY <1>1, <2>1 DEF Oldest
      <4> QED BY <1>1, <4>1
    <3> QED BY <1>1, <2>1, <3>1 DEF ToSet
  <2>2. CASE i > m
    <3>1. i - m \in 1 .. Len(u) /\ u[i - m] = s[m + (i - m)] /\ m + (i - m) = i
      BY <1>1, <2>2, SMTT(30) DEF Oldest
    <3> QED BY <1>1, <2>2, <3>1, SMTT(30) DEF ToSet
  <2> QED BY <1>1, <2>1, <2>2
<1>3. at = Outside(n, m, n + 1)
  <2> HIDE DEF m
  <2> QED BY <1>1, <1>2 DEF Outside
<1>4. Without(s, ToSet(u)) = Pick(s, at)
  BY DEF Without
<1>5. n + 1 \in m + 1 .. n + 1
  BY <1>1
<1> HIDE DEF n, m, at
<1>6. Pick(s, Outside(n, m, n + 1)) = CutOut(s, n, m, n + 1)
  BY ONLY <1>1, <1>5, PickSegment
<1>7. m + (n + 1 - (n + 1)) = m /\ \A j \in 1 .. m : j <= m
  BY <1>1
<1>8. Pick(s, at) = [j \in 1 .. m |-> s[j]]
  BY <1>3, <1>6, <1>7 DEF CutOut
<1> QED BY <1>4, <1>8 DEF m

-----------------------------------------------------------------------------
(* The entry of a key in lists of open tables *)

Contents(tables, ids) == [i \in DOMAIN ids |-> tables[ids[i]]]

Runs(tables, levels) == [l \in DOMAIN levels |-> Concat(Contents(tables, levels[l].ssts))]

(* Every table of L0 and the levels is open. *)
RefsOpen(st) ==
  /\ \A i \in DOMAIN st.l0_sstables : st.l0_sstables[i] \in st.sstables
  /\ \A l \in DOMAIN st.levels : \A i \in DOMAIN st.levels[l].ssts :
        st.levels[l].ssts[i] \in st.sstables

(* The handles of open tables are their contents. *)
LEMMA HandlesOpen ==
  ASSUME NEW st, NEW tables, NEW ids, \A i \in DOMAIN ids : ids[i] \in st.sstables
  PROVE  Handles(st, tables, ids) = Contents(tables, ids)
BY DEF Handles, Handle, Contents

(* Where every table is open, get() depends on the lists only. *)
LEMMA SstEntryOpen ==
  ASSUME NEW st, NEW tables, NEW k, RefsOpen(st)
  PROVE  SstEntry(st, tables, k) =
           OrElse(FirstHit(Contents(tables, st.l0_sstables), k),
                  FirstHit(Runs(tables, st.levels), k))
<1>1. Handles(st, tables, st.l0_sstables) = Contents(tables, st.l0_sstables)
  BY HandlesOpen DEF RefsOpen
<1>2. ASSUME NEW l \in DOMAIN st.levels
      PROVE  Handles(st, tables, st.levels[l].ssts) = Contents(tables, st.levels[l].ssts)
  BY HandlesOpen DEF RefsOpen
<1>3. [l \in DOMAIN st.levels |-> Concat(Handles(st, tables, st.levels[l].ssts))]
        = Runs(tables, st.levels)
  BY <1>2 DEF Runs
<1> QED BY <1>1, <1>3 DEF SstEntry

(* The contents of a list of tables. *)
LEMMA ContentsType ==
  ASSUME NEW S, NEW tables \in [S -> Table], NEW ids \in Seq(S)
  PROVE  /\ Contents(tables, ids) \in Seq(Table)
         /\ Len(Contents(tables, ids)) = Len(ids)
         /\ DOMAIN Contents(tables, ids) = 1 .. Len(ids)
<1>1. DOMAIN ids = 1 .. Len(ids) /\ Len(ids) \in Nat
  OBVIOUS
<1>2. /\ Contents(tables, ids) = [i \in 1 .. Len(ids) |-> Contents(tables, ids)[i]]
      /\ \A i \in 1 .. Len(ids) : Contents(tables, ids)[i] \in Table
  BY <1>1 DEF Contents
<1> HIDE DEF Contents
<1> QED BY <1>1, <1>2, FunctionIsSeq

(* What tables hold for a key is an entry. *)
LEMMA HitType ==
  ASSUME NEW ts \in Seq(Table), NEW k \in Keys
  PROVE  /\ FirstHit(ts, k) \in Int /\ LastHit(ts, k) \in Int
         /\ Merge(ts) \in Table /\ Concat(ts) \in Table
         /\ Merge(ts)[k] = FirstHit(ts, k) /\ Concat(ts)[k] = LastHit(ts, k)
<1> DEFINE n == Len(ts)
<1>1. n \in Nat /\ DOMAIN ts = 1 .. n /\ \A i \in 1 .. n : \A x \in Keys : ts[i][x] \in Int
  BY DEF Table
<1>2. ASSUME NEW x \in Keys PROVE FirstHit(ts, x) \in Int
  <2>1. CASE \A i \in DOMAIN ts : ts[i][x] = Absent
    BY <2>1, FirstHitNone DEF Absent
  <2>2. CASE \E i \in DOMAIN ts : /\ ts[i][x] # Absent
                                  /\ \A j \in DOMAIN ts : j < i => ts[j][x] = Absent
    <3>1. PICK i \in DOMAIN ts : /\ ts[i][x] # Absent
                                 /\ \A j \in DOMAIN ts : j < i => ts[j][x] = Absent
      BY <2>2
    <3>2. FirstHit(ts, x) = ts[i][x]
      <4>1. DOMAIN ts \in SUBSET Nat
        BY <1>1
      <4> QED BY ONLY <3>1, <4>1, FirstHitAt
    <3> QED BY <1>1, <3>2
  <2>3. DOMAIN ts \in SUBSET Nat
    BY <1>1
  <2> QED BY ONLY <2>1, <2>2, <2>3, FirstHitCases
<1>3. ASSUME NEW x \in Keys PROVE LastHit(ts, x) \in Int
  <2>1. \/ LastHit(ts, x) = Absent
        \/ \E i \in 1 .. n : LastHit(ts, x) = ts[i][x]
    BY <1>1, LastHitIn
  <2> QED BY <1>1, <2>1 DEF Absent
<1> QED BY <1>2, <1>3 DEF Merge, Concat, Table

(* The runs of the levels are tables, one for every level. *)
LEMMA RunsType ==
  ASSUME NEW S, NEW tables \in [S -> Table], NEW levels \in Seq(LevelOver(S))
  PROVE  /\ Runs(tables, levels) \in Seq(Table)
         /\ Len(Runs(tables, levels)) = Len(levels)
         /\ DOMAIN Runs(tables, levels) = 1 .. Len(levels)
         /\ \A l \in 1 .. Len(levels) :
              Runs(tables, levels)[l] = Concat(Contents(tables, levels[l].ssts))
<1>1. DOMAIN levels = 1 .. Len(levels) /\ Len(levels) \in Nat
  OBVIOUS
<1>2. ASSUME NEW l \in 1 .. Len(levels)
      PROVE  Concat(Contents(tables, levels[l].ssts)) \in Table
  <2>1. levels[l].ssts \in Seq(S)
    <3>1. levels[l] \in LevelOver(S)
      BY <1>1
    <3> QED BY <3>1 DEF LevelOver
  <2>2. Contents(tables, levels[l].ssts) \in Seq(Table)
    BY <2>1, ContentsType
  <2> QED BY <2>2, HitType DEF Concat, Table
<1>3. Runs(tables, levels) = [l \in 1 .. Len(levels) |-> Runs(tables, levels)[l]]
  BY <1>1 DEF Runs
<1>4. \A l \in 1 .. Len(levels) :
        Runs(tables, levels)[l] = Concat(Contents(tables, levels[l].ssts))
  BY <1>1 DEF Runs
<1> QED BY <1>1, <1>2, <1>3, <1>4, FunctionIsSeq

-----------------------------------------------------------------------------
(* Replacing a part of the lists by its merge *)

(* A part of a list of segments is a list of tables. *)
LEMMA SegmentType ==
  ASSUME NEW ts \in Seq(Table), NEW a \in 0 .. Len(ts), NEW b \in a .. Len(ts)
  PROVE  /\ Segment(ts, a, b) \in Seq(Table)
         /\ Len(Segment(ts, a, b)) = b - a
         /\ DOMAIN Segment(ts, a, b) = 1 .. b - a
<1>1. b - a \in Nat /\ \A i \in 1 .. b - a : a + i \in 1 .. Len(ts)
  OBVIOUS
<1>2. /\ Segment(ts, a, b) = [i \in 1 .. b - a |-> Segment(ts, a, b)[i]]
      /\ \A i \in 1 .. b - a : Segment(ts, a, b)[i] \in Table
  BY <1>1 DEF Segment
<1> QED BY <1>1, <1>2, FunctionIsSeq

(* The entry of the table that replaces a part of a list, when so many     *)
(* tables lie below: what the part gave, or what is seen of it at the      *)
(* bottom.                                                                 *)
ReplacedBy(out, part, below) == out = part \/ (out = Seen(part) /\ below = 0)

(* The runs of the levels, a part of them replaced by runs that read like  *)
(* the part, or like what is seen of it if it was the end.                 *)
LEMMA RunsReplaced ==
  ASSUME NEW rs \in Seq(Table), NEW qs \in Seq(Table),
         NEW a \in 0 .. Len(rs), NEW b \in a .. Len(rs), NEW c \in a .. Len(qs),
         Len(rs) - b = Len(qs) - c,
         \A i \in 1 .. a : qs[i] = rs[i],
         \A i \in 1 .. Len(rs) - b : qs[c + i] = rs[b + i],
         NEW k \in Keys,
         ReplacedBy(FirstHit(Segment(qs, a, c), k), FirstHit(Segment(rs, a, b), k), Len(rs) - b)
  PROVE  Purged(FirstHit(qs, k), FirstHit(rs, k))
<1> DEFINE part == FirstHit(Segment(rs, a, b), k)  new == FirstHit(Segment(qs, a, c), k)
           above == FirstHit(Segment(rs, 0, a), k)
           below == FirstHit(Segment(rs, b, Len(rs)), k)
<1>0. /\ Len(rs) \in Nat /\ Len(qs) \in Nat /\ DOMAIN rs = 1 .. Len(rs) /\ DOMAIN qs = 1 .. Len(qs)
      /\ 0 \in 0 .. Len(rs) /\ a \in 0 .. Len(qs) /\ b \in 0 .. Len(rs) /\ a \in Int
      /\ Len(rs) \in b .. Len(rs) /\ b \in a .. Len(rs) /\ a \in 0 .. Len(rs) /\ c \in a .. Len(qs)
  OBVIOUS
<1>1. FirstHit(rs, k) = OrElse(above, OrElse(part, below))
  <2>1. FirstHit(rs, k) =
          OrElse(FirstHit(Segment(rs, 0, a), k),
                 OrElse(FirstHit(Segment(rs, a, b), k), FirstHit(Segment(rs, b, Len(rs)), k)))
    BY ONLY <1>0, FirstHitSegments
  <2> QED BY <2>1
<1>2. FirstHit(qs, k) = OrElse(FirstHit(Segment(qs, 0, a), k),
                               OrElse(new, FirstHit(Segment(qs, c, Len(qs)), k)))
  <2>1. FirstHit(qs, k) =
          OrElse(FirstHit(Segment(qs, 0, a), k),
                 OrElse(FirstHit(Segment(qs, a, c), k), FirstHit(Segment(qs, c, Len(qs)), k)))
    BY ONLY <1>0, FirstHitSegments
  <2> QED BY <2>1
<1>3. Segment(qs, 0, a) = Segment(rs, 0, a)
  <2>1. \A i \in 1 .. a - 0 : qs[0 + i] = rs[0 + i]
    OBVIOUS
  <2> QED BY <2>1 DEF Segment
<1>4. Segment(qs, c, Len(qs)) = Segment(rs, b, Len(rs))
  BY DEF Segment
<1>5. above \in Int /\ part \in Int /\ below \in Int
  <2>1. Segment(rs, 0, a) \in Seq(Table) /\ Segment(rs, b, Len(rs)) \in Seq(Table)
    BY <1>0, SegmentType
  <2>2. Segment(rs, a, b) \in Seq(Table)
    BY <1>0, SegmentType
  <2> QED BY <2>1, <2>2, HitType
<1>6. new \in Int
  <2> HIDE DEF part, new
  <2> QED BY <1>5 DEF ReplacedBy, Seen, Absent, part, new
<1>7. b = Len(rs) => below = Absent
  <2>1. SUFFICES ASSUME b = Len(rs) PROVE \A i \in DOMAIN Segment(rs, b, Len(rs)) :
                                            Segment(rs, b, Len(rs))[i][k] = Absent
    BY FirstHitNone
  <2> QED BY <2>1, <1>0 DEF Segment
<1>8. new = part \/ (new = Seen(part) /\ below = Absent)
  <2>1. ReplacedBy(new, part, Len(rs) - b)
    OBVIOUS
  <2> HIDE DEF part, new, below
  <2>2. new = part \/ (new = Seen(part) /\ Len(rs) - b = 0)
    BY ONLY <2>1 DEF ReplacedBy
  <2>3. Len(rs) - b = 0 => b = Len(rs)
    OBVIOUS
  <2> QED BY ONLY <1>7, <2>2, <2>3
<1> HIDE DEF above, below, part, new
<1> QED BY <1>1, <1>2, <1>3, <1>4, <1>5, <1>6, <1>8, ReplacedPart DEF above, below

(* The tables of a list cut in two. *)
LEMMA ContentsJoined ==
  ASSUME NEW tables, NEW k, NEW b \in Nat, NEW n \in 0 .. b, NEW s, DOMAIN s = 1 .. b
  PROVE  FirstHit(Contents(tables, s), k) =
           OrElse(FirstHit(Contents(tables, Segment(s, 0, n)), k),
                  FirstHit(Contents(tables, Segment(s, n, b)), k))
<1> DEFINE m == b - n
           cs == Contents(tables, s)
           ca == Contents(tables, Segment(s, 0, n))
           cb == Contents(tables, Segment(s, n, b))
<1>1. n \in Nat /\ m \in Nat /\ b = n + m
  OBVIOUS
<1>2. DOMAIN cs = 1 .. n + m /\ DOMAIN ca = 1 .. n /\ DOMAIN cb = 1 .. m
  BY <1>1 DEF Contents, Segment
<1>3. /\ \A i \in 1 .. n : cs[i][k] = ca[i][k]
      /\ \A i \in 1 .. m : cs[n + i][k] = cb[i][k]
  BY <1>1 DEF Contents, Segment
<1> HIDE DEF cs, ca, cb, m
<1>4. FirstHit(cs, k) = OrElse(FirstHit(ca, k), FirstHit(cb, k))
  <2>1. RowsJoin(n, m, k, ca, cb, cs)
    BY ONLY <1>1, <1>2, <1>3 DEF RowsJoin
  <2> QED BY <2>1, FirstHitConcat
<1> QED BY <1>4 DEF cs, ca, cb

(* The end of L0 and the first level, replaced in the first level. *)
L0Merged(tables, l0, u, kept, rs, qs, k) ==
  /\ rs \in Seq(Table) /\ qs \in Seq(Table) /\ Len(rs) >= 1 /\ Len(qs) = Len(rs)
  /\ \A l \in 2 .. Len(rs) : qs[l] = rs[l]
  /\ kept = Segment(l0, 0, Len(l0) - Len(u)) /\ Oldest(u, l0)
  /\ ReplacedBy(qs[1][k], FirstHit(Contents(tables, u) \o <<rs[1]>>, k), Len(rs) - 1)

(* Then readers of the whole lists see what they saw. *)
LEMMA L0Replaced ==
  ASSUME NEW S, NEW tables \in [S -> Table], NEW l0, NEW u, NEW kept, NEW rs, NEW qs,
         l0 \in Seq(S), u \in Seq(S), kept \in Seq(S), NEW k \in Keys,
         L0Merged(tables, l0, u, kept, rs, qs, k)
  PROVE  Purged(OrElse(FirstHit(Contents(tables, kept), k), FirstHit(qs, k)),
                OrElse(FirstHit(Contents(tables, l0), k), FirstHit(rs, k)))
<1> USE DEF L0Merged
<1> DEFINE n == Len(l0) - Len(u)  m == Len(u)
           ck == Contents(tables, kept)  cu == Contents(tables, u)  c0 == Contents(tables, l0)
           part == FirstHit(Contents(tables, u) \o <<rs[1]>>, k)
           rest == Segment(rs, 1, Len(rs))
           a == FirstHit(ck, k)  x == FirstHit(cu, k)  b == FirstHit(rest, k)
<1>0. /\ m \in Nat /\ Len(l0) \in Nat /\ n \in Nat /\ Len(l0) = n + m
      /\ Len(kept) = n
  BY DEF Oldest, Segment
<1>a. /\ ck \in Seq(Table) /\ Len(ck) = Len(kept) /\ DOMAIN ck = 1 .. Len(kept)
  BY ONLY ContentsType, kept \in Seq(S), tables \in [S -> Table]
<1>b. /\ cu \in Seq(Table) /\ DOMAIN cu = 1 .. Len(u) /\ Len(cu) = Len(u)
  BY ONLY ContentsType, u \in Seq(S), tables \in [S -> Table]
<1>c. /\ c0 \in Seq(Table) /\ DOMAIN c0 = 1 .. Len(l0)
  BY ONLY ContentsType, l0 \in Seq(S), tables \in [S -> Table]
<1>1. n \in Nat /\ m \in Nat /\ DOMAIN ck = 1 .. n /\ DOMAIN cu = 1 .. m /\ DOMAIN c0 = 1 .. n + m
  <2> HIDE DEF ck, cu, c0
  <2> QED BY <1>0, <1>a, <1>b, <1>c
<1>2. FirstHit(c0, k) = OrElse(a, x)
  <2>1. kept = Segment(l0, 0, n)
    BY <1>0 DEF Segment
  <2>2. u = Segment(l0, n, Len(l0))
    <3>1. u = [i \in 1 .. m |-> u[i]] /\ \A i \in 1 .. m : u[i] = l0[n + i]
      BY <1>0 DEF Oldest
    <3>2. Len(l0) - n = m
      BY <1>0
    <3> HIDE DEF n, m
    <3> QED BY ONLY <3>1, <3>2 DEF Segment
  <2>3. Len(l0) \in Nat /\ n \in 0 .. Len(l0) /\ DOMAIN l0 = 1 .. Len(l0)
    BY <1>0
  <2> HIDE DEF n, m
  <2>4. FirstHit(Contents(tables, l0), k) =
          OrElse(FirstHit(Contents(tables, Segment(l0, 0, n)), k),
                 FirstHit(Contents(tables, Segment(l0, n, Len(l0))), k))
    BY ONLY <2>3, ContentsJoined
  <2> QED BY <2>1, <2>2, <2>4
<1>3. part = OrElse(x, rs[1][k])
  <2>1. rs[1] \in Table
    OBVIOUS
  <2> HIDE DEF cu
  <2> DEFINE both == cu \o <<rs[1]>>
  <2>2. /\ DOMAIN both = 1 .. m + 1
        /\ \A i \in 1 .. m : both[i] = cu[i]
        /\ both[m + 1] = rs[1]
    <3>1. <<rs[1]>> \in Seq(Table) /\ Len(<<rs[1]>>) = 1 /\ <<rs[1]>>[1] = rs[1]
      BY <2>1
    <3>2. Len(both) = Len(cu) + Len(<<rs[1]>>)
      BY <1>b, <3>1
    <3>3. both \in Seq(Table)
      BY <1>b, <3>1
    <3>4. \A i \in 1 .. Len(cu) : both[i] = cu[i]
      BY <1>b, <3>1
    <3>5. both[Len(cu) + 1] = <<rs[1]>>[1]
      BY <1>b, <3>1
    <3> HIDE DEF both
    <3> QED BY <1>b, <3>1, <3>2, <3>3, <3>4, <3>5
  <2> HIDE DEF both, m
  <2>3. FirstHit(both, k) = OrElse(FirstHit(cu, k), both[m + 1][k])
    BY ONLY <1>1, <2>2, FirstHitSnoc
  <2> QED BY <2>2, <2>3 DEF both, cu
<1>4. /\ rest \in Seq(Table) /\ DOMAIN rest = 1 .. Len(rs) - 1
      /\ Len(rs) - 1 \in Nat /\ (Len(rs) - 1) + 1 = Len(rs)
  <2>1. 1 \in 0 .. Len(rs) /\ Len(rs) \in 1 .. Len(rs)
    OBVIOUS
  <2>2. rest \in Seq(Table) /\ DOMAIN rest = 1 .. Len(rs) - 1
    BY ONLY <2>1, rs \in Seq(Table), SegmentType
  <2> HIDE DEF rest
  <2> QED BY <2>1, <2>2
<1>5. FirstHit(rs, k) = OrElse(rs[1][k], b)
  <2>1. DOMAIN rs = 1 .. (Len(rs) - 1) + 1 /\ \A i \in 1 .. Len(rs) - 1 : rs[i + 1] = rest[i]
    BY <1>4 DEF Segment
  <2> HIDE DEF rest
  <2>2. PICK l \in Nat : l = Len(rs) - 1
    BY <1>4
  <2>3. DOMAIN rest = 1 .. l /\ DOMAIN rs = 1 .. l + 1 /\ \A i \in 1 .. l : rs[i + 1] = rest[i]
    BY ONLY <1>4, <2>1, <2>2
  <2> QED BY ONLY <2>3, FirstHitCons
<1>6. FirstHit(qs, k) = OrElse(qs[1][k], b)
  <2>1. DOMAIN qs = 1 .. (Len(rs) - 1) + 1 /\ \A i \in 1 .. Len(rs) - 1 : qs[i + 1] = rest[i]
    BY <1>4 DEF Segment
  <2> HIDE DEF rest
  <2>2. PICK l \in Nat : l = Len(rs) - 1
    BY <1>4
  <2>3. DOMAIN rest = 1 .. l /\ DOMAIN qs = 1 .. l + 1 /\ \A i \in 1 .. l : qs[i + 1] = rest[i]
    BY ONLY <1>4, <2>1, <2>2
  <2> QED BY ONLY <2>3, FirstHitCons
<1>7. a \in Int /\ x \in Int /\ b \in Int /\ rs[1][k] \in Int /\ qs[1][k] \in Int
  <2>1. a \in Int /\ x \in Int /\ b \in Int
    BY <1>a, <1>b, <1>4, HitType
  <2>2. rs[1] \in Table /\ qs[1] \in Table
    OBVIOUS
  <2> QED BY <2>1, <2>2 DEF Table
<1>8. Len(rs) = 1 => b = Absent
  <2>1. SUFFICES ASSUME Len(rs) = 1 PROVE \A i \in DOMAIN rest : rest[i][k] = Absent
    BY FirstHitNone
  <2> QED BY <1>4, <2>1
<1>9. Purged(OrElse(a, OrElse(qs[1][k], b)), OrElse(a, OrElse(part, b)))
  <2>1. part \in Int
    BY <1>3, <1>7 DEF OrElse
  <2> HIDE DEF a, b, part
  <2>2. qs[1][k] = part \/ (qs[1][k] = Seen(part) /\ b = Absent)
    BY <1>4, <1>8 DEF ReplacedBy, part
  <2> QED BY <1>7, <2>1, <2>2, ReplacedPart
<1>10. OrElse(a, OrElse(part, b)) = OrElse(OrElse(a, x), OrElse(rs[1][k], b))
  <2> HIDE DEF a, b, x, part
  <2> QED BY <1>3 DEF OrElse
<1> HIDE DEF a, b, x, part
<1> QED BY <1>2, <1>5, <1>6, <1>9, <1>10 DEF a

-----------------------------------------------------------------------------
(* The shape of L0 and the levels *)

(* No table is named twice in L0, or in two places. *)
RefsApart(st) ==
  LET l0 == st.l0_sstables  lv == st.levels IN
  /\ \A i, j \in DOMAIN l0 : l0[i] = l0[j] => i = j
  /\ \A i \in DOMAIN l0 : \A l \in DOMAIN lv : \A j \in DOMAIN lv[l].ssts :
        l0[i] # lv[l].ssts[j]
  /\ \A l, m \in DOMAIN lv : \A i \in DOMAIN lv[l].ssts : \A j \in DOMAIN lv[m].ssts :
        lv[l].ssts[i] = lv[m].ssts[j] => l = m

(* One level gets other tables. *)
LevelWith(levels, l, ids, new) == new = [levels EXCEPT ![l].ssts = ids]

(* The others stay as they are. *)
LEMMA LevelSet ==
  ASSUME NEW S, NEW levels, NEW l, NEW ids, NEW new,
         levels \in Seq(LevelOver(S)), l \in 1 .. Len(levels), ids \in Seq(S),
         LevelWith(levels, l, ids, new)
  PROVE  /\ new \in Seq(LevelOver(S)) /\ Len(new) = Len(levels)
         /\ DOMAIN new = 1 .. Len(levels)
         /\ new[l].ssts = ids /\ new[l].id = levels[l].id
         /\ \A m \in 1 .. Len(levels) : m # l => new[m] = levels[m]
<1> DEFINE n == Len(levels)
<1>1. n \in Nat /\ DOMAIN levels = 1 .. n /\ \A m \in 1 .. n : levels[m] \in LevelOver(S)
  OBVIOUS
<1>2. new[l] = [levels[l] EXCEPT !.ssts = ids]
  BY <1>1 DEF LevelWith
<1>3. \A m \in 1 .. n : m # l => new[m] = levels[m]
  BY <1>1 DEF LevelWith
<1>4. new[l] \in LevelOver(S) /\ new[l].ssts = ids /\ new[l].id = levels[l].id
  BY <1>1, <1>2 DEF LevelOver
<1>5. DOMAIN new = 1 .. n /\ new = [m \in 1 .. n |-> new[m]]
  BY <1>1 DEF LevelWith
<1>6. \A m \in 1 .. n : new[m] \in LevelOver(S)
  BY <1>1, <1>3, <1>4
<1>7. new \in Seq(LevelOver(S)) /\ Len(new) = n
  BY ONLY <1>1, <1>5, <1>6, FunctionIsSeq
<1> QED BY <1>3, <1>4, <1>5, <1>7

(* New lists that keep places of the old ones, but for one level, which    *)
(* gets the output, and leave out what is gone.  f gives a level's place   *)
(* among the old ones.                                                     *)
KeepsPlaces(st, new, output, gone, low, f) ==
  /\ \A i \in DOMAIN output : output[i] \notin st.sstables
  /\ new.sstables = (st.sstables \ gone) \cup ToSet(output)
  /\ \A i \in DOMAIN new.l0_sstables :
        /\ i \in DOMAIN st.l0_sstables /\ new.l0_sstables[i] = st.l0_sstables[i]
        /\ new.l0_sstables[i] \notin gone
  /\ low \in DOMAIN new.levels => new.levels[low].ssts = output
  /\ \A l \in DOMAIN new.levels : l # low =>
        /\ f[l] \in DOMAIN st.levels
        /\ \A m \in DOMAIN new.levels : m # low /\ f[m] = f[l] => m = l
        /\ \A i \in DOMAIN new.levels[l].ssts :
             /\ i \in DOMAIN st.levels[f[l]].ssts
             /\ new.levels[l].ssts[i] = st.levels[f[l]].ssts[i]
             /\ new.levels[l].ssts[i] \notin gone

(* Every level is the output, or what is left of a level there was. *)
LevelsFrom(st, new, output) ==
  \A l \in DOMAIN new.levels :
    \/ new.levels[l].ssts = output
    \/ \E m \in DOMAIN st.levels : \A i \in DOMAIN new.levels[l].ssts :
         i \in DOMAIN st.levels[m].ssts /\ new.levels[l].ssts[i] = st.levels[m].ssts[i]

(* Then the tables are apart and open, as they were. *)
LEMMA ListsApart ==
  ASSUME NEW st, NEW new, NEW output, NEW gone, NEW low, NEW f,
         KeepsPlaces(st, new, output, gone, low, f), RefsApart(st), RefsOpen(st)
  PROVE  RefsApart(new) /\ RefsOpen(new) /\ LevelsFrom(st, new, output)
<1> USE DEF KeepsPlaces
<1> DEFINE l0 == new.l0_sstables  lv == new.levels
<1>1. ASSUME NEW i \in DOMAIN l0 PROVE l0[i] \in st.sstables /\ l0[i] \in new.sstables
  BY DEF RefsOpen
<1>2. ASSUME NEW l \in DOMAIN lv, l # low, NEW i \in DOMAIN lv[l].ssts
      PROVE  lv[l].ssts[i] \in st.sstables /\ lv[l].ssts[i] \in new.sstables
  BY <1>2 DEF RefsOpen
<1>3. ASSUME low \in DOMAIN lv, NEW i \in DOMAIN lv[low].ssts
      PROVE  lv[low].ssts[i] \notin st.sstables /\ lv[low].ssts[i] \in new.sstables
  BY <1>3 DEF ToSet
<1>4. RefsOpen(new)
  BY <1>1, <1>2, <1>3 DEF RefsOpen
<1>5. \A i, j \in DOMAIN l0 : l0[i] = l0[j] => i = j
  BY DEF RefsApart
<1>6. ASSUME NEW i \in DOMAIN l0, NEW l \in DOMAIN lv, NEW j \in DOMAIN lv[l].ssts
      PROVE  l0[i] # lv[l].ssts[j]
  <2>1. CASE l = low
    BY <1>1, <1>3, <2>1
  <2>2. CASE l # low
    <3>1. /\ l0[i] = st.l0_sstables[i] /\ i \in DOMAIN st.l0_sstables
          /\ f[l] \in DOMAIN st.levels /\ j \in DOMAIN st.levels[f[l]].ssts
          /\ lv[l].ssts[j] = st.levels[f[l]].ssts[j]
      BY <2>2
    <3> QED BY <3>1 DEF RefsApart
  <2> QED BY <2>1, <2>2
<1>7. ASSUME NEW l \in DOMAIN lv, NEW m \in DOMAIN lv, NEW i \in DOMAIN lv[l].ssts,
             NEW j \in DOMAIN lv[m].ssts, lv[l].ssts[i] = lv[m].ssts[j]
      PROVE  l = m
  <2>1. CASE l = low \/ m = low
    BY <1>2, <1>3, <1>7, <2>1
  <2>2. CASE l # low /\ m # low
    <3>1. /\ f[l] \in DOMAIN st.levels /\ i \in DOMAIN st.levels[f[l]].ssts
          /\ lv[l].ssts[i] = st.levels[f[l]].ssts[i]
          /\ f[m] \in DOMAIN st.levels /\ j \in DOMAIN st.levels[f[m]].ssts
          /\ lv[m].ssts[j] = st.levels[f[m]].ssts[j]
      BY <2>2
    <3>2. \A a, b \in DOMAIN st.levels : \A x \in DOMAIN st.levels[a].ssts :
            \A y \in DOMAIN st.levels[b].ssts :
              st.levels[a].ssts[x] = st.levels[b].ssts[y] => a = b
      BY DEF RefsApart
    <3>3. st.levels[f[l]].ssts[i] = st.levels[f[m]].ssts[j]
      BY <1>7, <3>1
    <3>4. f[l] = f[m]
      BY ONLY <3>1, <3>2, <3>3
    <3> QED BY <2>2, <3>4
  <2> QED BY <2>1, <2>2
<1>8. LevelsFrom(st, new, output)
  <2>1. ASSUME NEW l \in DOMAIN new.levels, l # low
        PROVE  \E m \in DOMAIN st.levels : \A i \in DOMAIN new.levels[l].ssts :
                 i \in DOMAIN st.levels[m].ssts /\ new.levels[l].ssts[i] = st.levels[m].ssts[i]
    <3>1. /\ f[l] \in DOMAIN st.levels
          /\ \A i \in DOMAIN new.levels[l].ssts :
               i \in DOMAIN st.levels[f[l]].ssts /\ new.levels[l].ssts[i] = st.levels[f[l]].ssts[i]
      BY <2>1
    <3> QED BY ONLY <3>1
  <2>2. \A l \in DOMAIN new.levels : l = low => new.levels[l].ssts = output
    OBVIOUS
  <2> HIDE DEF KeepsPlaces
  <2> QED BY <2>1, <2>2 DEF LevelsFrom
<1> QED BY <1>4, <1>5, <1>6, <1>7, <1>8 DEF RefsApart

(* What a compaction must leave behind: lists of the same kind, in which   *)
(* every reader finds what it found before, or nothing for a tombstone.    *)
Equivalent(st, new, tables) ==
  /\ RefsApart(new) /\ RefsOpen(new)
  /\ \A k \in Keys : Purged(SstEntry(new, tables, k), SstEntry(st, tables, k))

-----------------------------------------------------------------------------
(* From L0 to the first level *)

L0Install(st, new, u, output, gone) ==
  /\ Len(st.levels) >= 1 /\ Oldest(u, st.l0_sstables)
  /\ \A i \in DOMAIN output : output[i] \notin st.sstables
  /\ new.l0_sstables = Without(st.l0_sstables, ToSet(u))
  /\ new.levels = [st.levels EXCEPT ![1].ssts = output]
  /\ gone = ToSet(u) \cup ToSet(st.levels[1].ssts)
  /\ new.sstables = (st.sstables \ gone) \cup ToSet(output)

(* The end of L0 and the first level may be replaced by their merge. *)
LEMMA L0Installed ==
  ASSUME NEW S, NEW tables, NEW st, NEW new, NEW u, NEW output, NEW gone,
         tables \in [S -> Table], st \in StateOver(S), new \in StateOver(S),
         u \in Seq(S), output \in Seq(S),
         RefsApart(st), RefsOpen(st), L0Install(st, new, u, output, gone),
         \A k \in Keys :
           ReplacedBy(Concat(Contents(tables, output))[k],
                      FirstHit(Contents(tables, u)
                                 \o <<Concat(Contents(tables, st.levels[1].ssts))>>, k),
                      Len(st.levels) - 1)
  PROVE  gone \subseteq st.sstables /\ Equivalent(st, new, tables) /\ LevelsFrom(st, new, output)
<1> DEFINE l0 == st.l0_sstables  lv == st.levels  n == Len(l0) - Len(u)
           kept == new.l0_sstables  nlv == new.levels
<1>0. /\ l0 \in Seq(S) /\ lv \in Seq(LevelOver(S)) /\ kept \in Seq(S) /\ nlv \in Seq(LevelOver(S))
  BY DEF StateOver
<1>o. Oldest(u, l0) /\ Len(lv) >= 1
  BY DEF L0Install
<1>1. /\ Len(lv) \in Nat /\ DOMAIN lv = 1 .. Len(lv) /\ 1 \in 1 .. Len(lv)
      /\ Len(l0) \in Nat /\ DOMAIN l0 = 1 .. Len(l0) /\ Len(u) \in Nat /\ n \in Nat /\ n <= Len(l0)
      /\ DOMAIN u = 1 .. Len(u)
  BY <1>0, <1>o DEF Oldest
<1>2. \A i, j \in DOMAIN l0 : l0[i] = l0[j] => i = j
  BY DEF RefsApart
<1>3. kept = [i \in 1 .. n |-> l0[i]]
  <2>1. kept = Without(l0, ToSet(u))
    BY DEF L0Install
  <2> HIDE DEF l0, kept
  <2>2. Without(l0, ToSet(u)) = [i \in 1 .. Len(l0) - Len(u) |-> l0[i]]
    BY ONLY <1>0, <1>2, <1>o, u \in Seq(S), WithoutOldest
  <2> QED BY <2>1, <2>2
<1>4. /\ Len(nlv) = Len(lv) /\ DOMAIN nlv = 1 .. Len(lv) /\ nlv[1].ssts = output
      /\ \A m \in 1 .. Len(lv) : m # 1 => nlv[m] = lv[m]
  <2>1. LevelWith(lv, 1, output, nlv)
    BY DEF L0Install, LevelWith
  <2> HIDE DEF lv, nlv
  <2> QED BY ONLY <1>0, <1>1, <2>1, output \in Seq(S), LevelSet
<1>5. ASSUME NEW i \in 1 .. Len(u)
      PROVE  n + i \in DOMAIN l0 /\ u[i] = l0[n + i]
  BY <1>1, <1>o DEF Oldest
<1>g. \A x : x \in gone <=> \/ \E j \in 1 .. Len(u) : x = u[j]
                            \/ \E j \in DOMAIN lv[1].ssts : x = lv[1].ssts[j]
  BY <1>1 DEF L0Install, ToSet
<1>6. gone \subseteq st.sstables
  <2>1. \A i \in 1 .. Len(u) : u[i] \in st.sstables
    BY <1>5 DEF RefsOpen
  <2>2. \A j \in DOMAIN lv[1].ssts : lv[1].ssts[j] \in st.sstables
    BY <1>1 DEF RefsOpen
  <2> QED BY <1>g, <2>1, <2>2
<1>7. ASSUME NEW i \in DOMAIN kept
      PROVE  i \in DOMAIN l0 /\ kept[i] = l0[i] /\ kept[i] \notin gone
  <2>1. i \in 1 .. n /\ i \in DOMAIN l0 /\ kept[i] = l0[i]
    BY <1>1, <1>3
  <2>2. \A j \in 1 .. Len(u) : l0[i] # u[j]
    <3> SUFFICES ASSUME NEW j \in 1 .. Len(u) PROVE l0[i] # u[j]
      OBVIOUS
    <3>1. n + j \in DOMAIN l0 /\ u[j] = l0[n + j] /\ n + j # i
      BY <1>1, <1>5, <2>1
    <3> QED BY <1>2, <2>1, <3>1
  <2>3. \A j \in DOMAIN lv[1].ssts : l0[i] # lv[1].ssts[j]
    BY <1>1, <2>1 DEF RefsApart
  <2> QED BY ONLY <1>g, <2>1, <2>2, <2>3
<1>8. ASSUME NEW l \in DOMAIN nlv, l # 1
      PROVE  /\ l \in DOMAIN lv /\ nlv[l] = lv[l]
             /\ \A i \in DOMAIN nlv[l].ssts : nlv[l].ssts[i] \notin gone
  <2>1. l \in DOMAIN lv /\ nlv[l] = lv[l]
    BY <1>1, <1>4, <1>8
  <2>2. ASSUME NEW i \in DOMAIN lv[l].ssts, NEW j \in 1 .. Len(u) PROVE lv[l].ssts[i] # u[j]
    BY <1>5, <2>1 DEF RefsApart
  <2>3. ASSUME NEW i \in DOMAIN lv[l].ssts, NEW j \in DOMAIN lv[1].ssts
        PROVE  lv[l].ssts[i] # lv[1].ssts[j]
    BY <1>1, <1>8, <2>1 DEF RefsApart
  <2> QED BY ONLY <1>g, <2>1, <2>2, <2>3
<1>9. RefsApart(new) /\ RefsOpen(new) /\ LevelsFrom(st, new, output)
  <2> DEFINE f == [l \in DOMAIN nlv |-> l]
  <2>1. \A l \in DOMAIN nlv : f[l] = l
    OBVIOUS
  <2> HIDE DEF f
  <2>2. KeepsPlaces(st, new, output, gone, 1, f)
    BY <1>4, <1>7, <1>8, <2>1 DEF KeepsPlaces, L0Install
  <2> QED BY <2>2, ListsApart
<1>10. ASSUME NEW k \in Keys PROVE Purged(SstEntry(new, tables, k), SstEntry(st, tables, k))
  <2> DEFINE rs == Runs(tables, lv)  qs == Runs(tables, nlv)
  <2> HIDE DEF lv, nlv, l0, kept
  <2>1. /\ rs \in Seq(Table) /\ Len(rs) = Len(lv)
        /\ \A l \in 1 .. Len(lv) : rs[l] = Concat(Contents(tables, lv[l].ssts))
    BY ONLY <1>0, tables \in [S -> Table], RunsType
  <2>2. /\ qs \in Seq(Table) /\ Len(qs) = Len(nlv)
        /\ \A l \in 1 .. Len(nlv) : qs[l] = Concat(Contents(tables, nlv[l].ssts))
    BY ONLY <1>0, tables \in [S -> Table], RunsType
  <2> HIDE DEF rs, qs
  <2>3. /\ Len(rs) >= 1 /\ Len(qs) = Len(rs)
        /\ \A l \in 2 .. Len(rs) : qs[l] = rs[l]
        /\ rs[1] = Concat(Contents(tables, lv[1].ssts)) /\ qs[1] = Concat(Contents(tables, output))
    BY ONLY <1>1, <1>4, <2>1, <2>2
  <2>4. ReplacedBy(qs[1][k], FirstHit(Contents(tables, u) \o <<rs[1]>>, k), Len(rs) - 1)
    <3>1. ReplacedBy(Concat(Contents(tables, output))[k],
                     FirstHit(Contents(tables, u) \o <<Concat(Contents(tables, lv[1].ssts))>>, k),
                     Len(lv) - 1)
      BY DEF lv
    <3> QED BY <2>1, <2>3, <3>1
  <2>5. kept = Segment(l0, 0, Len(l0) - Len(u))
    BY <1>1, <1>3 DEF Segment
  <2>6. Purged(OrElse(FirstHit(Contents(tables, kept), k), FirstHit(qs, k)),
               OrElse(FirstHit(Contents(tables, l0), k), FirstHit(rs, k)))
    <3>1. L0Merged(tables, l0, u, kept, rs, qs, k)
      BY ONLY <1>o, <2>1, <2>2, <2>3, <2>4, <2>5 DEF L0Merged
    <3> QED BY ONLY <1>0, <3>1, L0Replaced, u \in Seq(S), tables \in [S -> Table], k \in Keys
  <2> QED BY <1>9, <2>6, SstEntryOpen DEF rs, qs, kept, l0, lv, nlv
<1> QED BY <1>6, <1>9, <1>10 DEF Equivalent

-----------------------------------------------------------------------------
(* From a level to the next *)

(* Of two tables the first decides, if it can. *)
LEMMA FirstHitPair ==
  ASSUME NEW ts, NEW k, DOMAIN ts = 1 .. 2
  PROVE  FirstHit(ts, k) = OrElse(ts[1][k], ts[2][k])
<1>1. DOMAIN ts \in SUBSET Nat /\ 1 \in DOMAIN ts /\ 2 \in DOMAIN ts
      /\ \A j \in DOMAIN ts : j = 1 \/ j = 2
  OBVIOUS
<1>2. CASE ts[1][k] # Absent
  <2>1. \A j \in DOMAIN ts : j < 1 => ts[j][k] = Absent
    OBVIOUS
  <2>2. FirstHit(ts, k) = ts[1][k]
    BY <1>1, <1>2, <2>1, FirstHitAt
  <2> QED BY <1>2, <2>2 DEF OrElse
<1>3. CASE ts[1][k] = Absent /\ ts[2][k] # Absent
  <2>1. \A j \in DOMAIN ts : j < 2 => ts[j][k] = Absent
    BY <1>1, <1>3
  <2>2. FirstHit(ts, k) = ts[2][k]
    BY <1>1, <1>3, <2>1, FirstHitAt
  <2> QED BY <1>3, <2>2 DEF OrElse
<1>4. CASE ts[1][k] = Absent /\ ts[2][k] = Absent
  <2>1. \A j \in DOMAIN ts : ts[j][k] = Absent
    BY <1>1, <1>4
  <2>2. FirstHit(ts, k) = Absent
    BY <2>1, FirstHitNone
  <2> QED BY <1>4, <2>2 DEF OrElse
<1> QED BY <1>2, <1>3, <1>4

(* Level up and the one below it, replaced in the lower one. *)
LevelInstall(st, new, up, output, gone) ==
  /\ up \in 1 .. Len(st.levels) - 1
  /\ \A i \in DOMAIN output : output[i] \notin st.sstables
  /\ new.l0_sstables = st.l0_sstables
  /\ new.levels = [[st.levels EXCEPT ![up].ssts = <<>>] EXCEPT ![up + 1].ssts = output]
  /\ gone = ToSet(st.levels[up].ssts) \cup ToSet(st.levels[up + 1].ssts)
  /\ new.sstables = (st.sstables \ gone) \cup ToSet(output)

(* A level and the one below it may be replaced by their merge. *)
LEMMA LevelInstalled ==
  ASSUME NEW S, NEW tables, NEW st, NEW new, NEW up, NEW output, NEW gone,
         tables \in [S -> Table], st \in StateOver(S), new \in StateOver(S),
         output \in Seq(S),
         RefsApart(st), RefsOpen(st), LevelInstall(st, new, up, output, gone),
         \A k \in Keys :
           ReplacedBy(Concat(Contents(tables, output))[k],
                      OrElse(Concat(Contents(tables, st.levels[up].ssts))[k],
                             Concat(Contents(tables, st.levels[up + 1].ssts))[k]),
                      Len(st.levels) - (up + 1))
  PROVE  gone \subseteq st.sstables /\ Equivalent(st, new, tables) /\ LevelsFrom(st, new, output)
<1> DEFINE l0 == st.l0_sstables  lv == st.levels  nlv == new.levels
           mid == [lv EXCEPT ![up].ssts = <<>>]
<1>0. l0 \in Seq(S) /\ lv \in Seq(LevelOver(S)) /\ nlv \in Seq(LevelOver(S))
  BY DEF StateOver
<1>1. /\ Len(lv) \in Nat /\ DOMAIN lv = 1 .. Len(lv) /\ up \in 1 .. Len(lv) - 1
      /\ up \in 1 .. Len(lv) /\ up + 1 \in 1 .. Len(lv)
  BY <1>0 DEF LevelInstall
<1>2. /\ mid \in Seq(LevelOver(S)) /\ Len(mid) = Len(lv) /\ mid[up].ssts = <<>>
      /\ \A m \in 1 .. Len(lv) : m # up => mid[m] = lv[m]
  <2> DEFINE none == <<>>
  <2>1. none \in Seq(S)
    OBVIOUS
  <2>2. LevelWith(lv, up, none, mid)
    BY DEF LevelWith
  <2>3. lv \in Seq(LevelOver(S)) /\ up \in 1 .. Len(lv)
    BY <1>0, <1>1
  <2> HIDE DEF lv, mid, none
  <2>4. /\ mid \in Seq(LevelOver(S)) /\ Len(mid) = Len(lv) /\ mid[up].ssts = none
        /\ \A m \in 1 .. Len(lv) : m # up => mid[m] = lv[m]
    BY ONLY <2>1, <2>2, <2>3, LevelSet
  <2> QED BY <2>4 DEF none
<1>3. /\ Len(nlv) = Len(mid) /\ DOMAIN nlv = 1 .. Len(mid) /\ nlv[up + 1].ssts = output
      /\ \A m \in 1 .. Len(mid) : m # up + 1 => nlv[m] = mid[m]
  <2>1. LevelWith(mid, up + 1, output, nlv)
    BY DEF LevelInstall, LevelWith
  <2>2. up + 1 \in 1 .. Len(mid)
    BY <1>1, <1>2
  <2> HIDE DEF lv, nlv, mid
  <2> QED BY ONLY <1>2, <2>1, <2>2, output \in Seq(S), LevelSet
<1>4. /\ Len(nlv) = Len(lv) /\ DOMAIN nlv = 1 .. Len(lv)
      /\ nlv[up].ssts = <<>> /\ nlv[up + 1].ssts = output
      /\ \A m \in 1 .. Len(lv) : m # up /\ m # up + 1 => nlv[m] = lv[m]
  <2> HIDE DEF lv, nlv, mid
  <2> QED BY <1>1, <1>2, <1>3
<1>g. \A x : x \in gone <=> \/ \E j \in DOMAIN lv[up].ssts : x = lv[up].ssts[j]
                            \/ \E j \in DOMAIN lv[up + 1].ssts : x = lv[up + 1].ssts[j]
  BY DEF LevelInstall, ToSet
<1>5. gone \subseteq st.sstables
  <2>1. \A l \in DOMAIN lv : \A j \in DOMAIN lv[l].ssts : lv[l].ssts[j] \in st.sstables
    BY DEF RefsOpen
  <2> QED BY <1>1, <1>g, <2>1
<1>6. ASSUME NEW i \in DOMAIN l0 PROVE l0[i] \notin gone
  <2>1. \A l \in DOMAIN lv : \A j \in DOMAIN lv[l].ssts : l0[i] # lv[l].ssts[j]
    BY DEF RefsApart
  <2> QED BY <1>1, <1>g, <2>1
<1>7. ASSUME NEW l \in DOMAIN nlv, l # up + 1, NEW i \in DOMAIN nlv[l].ssts
      PROVE  /\ l \in DOMAIN lv /\ nlv[l] = lv[l] /\ nlv[l].ssts[i] \notin gone
  <2>1. l # up
    <3>1. DOMAIN <<>> = {}
      OBVIOUS
    <3> QED BY <1>4, <1>7, <3>1
  <2>2. l \in DOMAIN lv /\ nlv[l] = lv[l]
    BY <1>1, <1>4, <1>7, <2>1
  <2>3. \A m \in DOMAIN lv : m # l => \A j \in DOMAIN lv[m].ssts : lv[l].ssts[i] # lv[m].ssts[j]
    BY <2>2 DEF RefsApart
  <2> QED BY ONLY <1>1, <1>7, <1>g, <2>1, <2>2, <2>3
<1>8. RefsApart(new) /\ RefsOpen(new) /\ LevelsFrom(st, new, output)
  <2> DEFINE f == [l \in DOMAIN nlv |-> l]
  <2>1. \A l \in DOMAIN nlv : f[l] = l
    OBVIOUS
  <2>2. DOMAIN nlv = DOMAIN lv
    BY <1>1, <1>4
  <2> HIDE DEF f
  <2>3. \A l \in DOMAIN nlv : l # up + 1 => \A i \in DOMAIN nlv[l].ssts :
            /\ i \in DOMAIN lv[l].ssts /\ nlv[l].ssts[i] = lv[l].ssts[i] /\ nlv[l].ssts[i] \notin gone
    BY <1>7
  <2>4. \A i \in DOMAIN new.l0_sstables :
          /\ i \in DOMAIN st.l0_sstables /\ new.l0_sstables[i] = st.l0_sstables[i]
          /\ new.l0_sstables[i] \notin gone
    BY <1>6 DEF LevelInstall
  <2>5. \A l \in DOMAIN new.levels : l # up + 1 =>
          /\ f[l] \in DOMAIN st.levels
          /\ \A m \in DOMAIN new.levels : m # up + 1 /\ f[m] = f[l] => m = l
          /\ \A i \in DOMAIN new.levels[l].ssts :
               /\ i \in DOMAIN st.levels[f[l]].ssts
               /\ new.levels[l].ssts[i] = st.levels[f[l]].ssts[i]
               /\ new.levels[l].ssts[i] \notin gone
    BY <2>1, <2>2, <2>3
  <2>6. KeepsPlaces(st, new, output, gone, up + 1, f)
    BY <1>4, <2>4, <2>5 DEF KeepsPlaces, LevelInstall
  <2> QED BY <2>6, ListsApart
<1>9. ASSUME NEW k \in Keys PROVE Purged(SstEntry(new, tables, k), SstEntry(st, tables, k))
  <2> DEFINE rs == Runs(tables, lv)  qs == Runs(tables, nlv)
  <2> HIDE DEF lv, nlv, l0
  <2>1. /\ rs \in Seq(Table) /\ Len(rs) = Len(lv)
        /\ \A l \in 1 .. Len(lv) : rs[l] = Concat(Contents(tables, lv[l].ssts))
    BY ONLY <1>0, tables \in [S -> Table], RunsType
  <2>2. /\ qs \in Seq(Table) /\ Len(qs) = Len(nlv)
        /\ \A l \in 1 .. Len(nlv) : qs[l] = Concat(Contents(tables, nlv[l].ssts))
    BY ONLY <1>0, tables \in [S -> Table], RunsType
  <2> HIDE DEF rs, qs
  <2> DEFINE a == up - 1  b == up + 1
  <2>3. /\ a \in 0 .. Len(rs) /\ b \in a .. Len(rs) /\ b \in a .. Len(qs)
        /\ Len(rs) - b = Len(qs) - b /\ b - a = 2 /\ a + 1 = up /\ a + 2 = up + 1
    BY ONLY <1>1, <1>4, <2>1, <2>2
  <2>4. \A i \in 1 .. a : qs[i] = rs[i]
    <3> SUFFICES ASSUME NEW i \in 1 .. a PROVE qs[i] = rs[i]
      OBVIOUS
    <3>1. i \in 1 .. Len(lv) /\ i # up /\ i # up + 1
      BY ONLY <1>1, i \in 1 .. a
    <3>2. nlv[i] = lv[i]
      BY ONLY <1>4, <3>1
    <3> QED BY ONLY <1>4, <2>1, <2>2, <3>1, <3>2
  <2>5. \A i \in 1 .. Len(rs) - b : qs[b + i] = rs[b + i]
    BY ONLY <1>1, <1>4, <2>1, <2>2
  <2>6. FirstHit(Segment(rs, a, b), k) =
          OrElse(Concat(Contents(tables, lv[up].ssts))[k], Concat(Contents(tables, lv[up + 1].ssts))[k])
    <3> HIDE DEF a, b
    <3>1. /\ DOMAIN Segment(rs, a, b) = 1 .. 2 /\ Segment(rs, a, b)[1] = rs[up]
          /\ Segment(rs, a, b)[2] = rs[up + 1]
      BY ONLY <2>3 DEF Segment
    <3>2. FirstHit(Segment(rs, a, b), k) = OrElse(rs[up][k], rs[up + 1][k])
      BY ONLY <3>1, FirstHitPair
    <3> QED BY ONLY <1>1, <2>1, <3>2
  <2>7. FirstHit(Segment(qs, a, b), k) = Concat(Contents(tables, output))[k]
    <3>1. qs[up][k] = Absent
      <4>1. DOMAIN Contents(tables, <<>>) = {}
        BY DEF Contents
      <4>2. LastHit(Contents(tables, <<>>), k) = Absent
        BY <4>1 DEF LastHit
      <4>3. qs[up] = Concat(Contents(tables, <<>>))
        BY <1>1, <1>4, <2>2
      <4> QED BY <4>2, <4>3 DEF Concat
    <3> HIDE DEF a, b
    <3>2. /\ DOMAIN Segment(qs, a, b) = 1 .. 2 /\ Segment(qs, a, b)[1] = qs[up]
          /\ Segment(qs, a, b)[2] = qs[up + 1]
      BY ONLY <2>3 DEF Segment
    <3>3. FirstHit(Segment(qs, a, b), k) = OrElse(qs[up][k], qs[up + 1][k])
      BY ONLY <3>2, FirstHitPair
    <3>4. qs[up + 1] = Concat(Contents(tables, output))
      BY ONLY <1>1, <1>4, <2>2
    <3> QED BY ONLY <3>1, <3>3, <3>4 DEF OrElse
  <2>8. ReplacedBy(FirstHit(Segment(qs, a, b), k), FirstHit(Segment(rs, a, b), k), Len(rs) - b)
    <3>1. ReplacedBy(Concat(Contents(tables, output))[k],
                     OrElse(Concat(Contents(tables, lv[up].ssts))[k],
                            Concat(Contents(tables, lv[up + 1].ssts))[k]),
                     Len(lv) - (up + 1))
      BY DEF lv
    <3> QED BY <2>1, <2>6, <2>7, <3>1
  <2>9. Purged(FirstHit(qs, k), FirstHit(rs, k))
    <3> HIDE DEF a, b
    <3> QED BY ONLY <2>1, <2>2, <2>3, <2>4, <2>5, <2>8, k \in Keys, RunsReplaced
  <2>10. /\ FirstHit(Contents(tables, l0), k) \in Int
         /\ FirstHit(qs, k) \in Int /\ FirstHit(rs, k) \in Int
    <3>1. Contents(tables, l0) \in Seq(Table)
      BY ONLY <1>0, tables \in [S -> Table], ContentsType
    <3> QED BY <2>1, <2>2, <3>1, HitType
  <2>11. Purged(OrElse(FirstHit(Contents(tables, l0), k), FirstHit(qs, k)),
                OrElse(FirstHit(Contents(tables, l0), k), FirstHit(rs, k)))
    BY ONLY <2>9, <2>10 DEF Purged, OrElse
  <2>12. new.l0_sstables = l0
    BY DEF LevelInstall, l0
  <2> QED BY <1>8, <2>11, <2>12, SstEntryOpen DEF rs, qs, l0, lv, nlv
<1> QED BY <1>5, <1>8, <1>9 DEF Equivalent

-----------------------------------------------------------------------------
(* Neighbouring tiers become one *)

(* The n tiers after the first m, replaced by one tier. *)
TiersInstall(st, new, m, n, tier, gone) ==
  /\ m \in Nat /\ n \in Nat \ {0} /\ m + n <= Len(st.levels)
  /\ \A i \in DOMAIN tier.ssts : tier.ssts[i] \notin st.sstables
  /\ new.l0_sstables = st.l0_sstables
  /\ Len(new.levels) = Len(st.levels) + 1 - n
  /\ \A i \in 1 .. m : new.levels[i] = st.levels[i]
  /\ new.levels[m + 1] = tier
  /\ \A i \in m + 2 .. Len(st.levels) + 1 - n : new.levels[i] = st.levels[i + n - 1]
  /\ \A x : x \in gone <=>
       \E i \in m + 1 .. m + n : \E j \in DOMAIN st.levels[i].ssts : x = st.levels[i].ssts[j]
  /\ new.sstables = (st.sstables \ gone) \cup ToSet(tier.ssts)

(* Neighbouring tiers may be replaced by their merge. *)
LEMMA TiersInstalled ==
  ASSUME NEW S, NEW tables, NEW st, NEW new, NEW m, NEW n, NEW tier, NEW gone,
         tables \in [S -> Table], st \in StateOver(S), new \in StateOver(S),
         tier \in LevelOver(S),
         RefsApart(st), RefsOpen(st), TiersInstall(st, new, m, n, tier, gone),
         \A k \in Keys :
           ReplacedBy(Concat(Contents(tables, tier.ssts))[k],
                      FirstHit(Segment(Runs(tables, st.levels), m, m + n), k),
                      Len(st.levels) - (m + n))
  PROVE  gone \subseteq st.sstables /\ Equivalent(st, new, tables) /\ LevelsFrom(st, new, tier.ssts)
<1> DEFINE l0 == st.l0_sstables  lv == st.levels  nlv == new.levels  c == Len(lv) + 1 - n
<1>0. l0 \in Seq(S) /\ lv \in Seq(LevelOver(S)) /\ nlv \in Seq(LevelOver(S)) /\ tier.ssts \in Seq(S)
  BY DEF StateOver, LevelOver
<1>1. /\ Len(lv) \in Nat /\ DOMAIN lv = 1 .. Len(lv) /\ m \in Nat /\ n \in Nat \ {0}
      /\ m + n <= Len(lv) /\ Len(nlv) = c /\ DOMAIN nlv = 1 .. c /\ c \in Nat
  BY <1>0, SMTT(30) DEF TiersInstall
<1>2. /\ \A i \in 1 .. m : nlv[i] = lv[i]
      /\ nlv[m + 1] = tier
      /\ \A i \in m + 2 .. c : nlv[i] = lv[i + n - 1]
  BY DEF TiersInstall
<1>g. \A x : x \in gone <=>
        \E i \in m + 1 .. m + n : \E j \in DOMAIN lv[i].ssts : x = lv[i].ssts[j]
  BY DEF TiersInstall
<1>5. gone \subseteq st.sstables
  <2>1. \A l \in DOMAIN lv : \A j \in DOMAIN lv[l].ssts : lv[l].ssts[j] \in st.sstables
    BY DEF RefsOpen
  <2>2. \A i \in m + 1 .. m + n : i \in DOMAIN lv
    BY <1>1
  <2> QED BY <1>g, <2>1, <2>2
<1>6. ASSUME NEW i \in DOMAIN l0 PROVE l0[i] \notin gone
  <2>1. \A l \in DOMAIN lv : \A j \in DOMAIN lv[l].ssts : l0[i] # lv[l].ssts[j]
    BY DEF RefsApart
  <2>2. \A l \in m + 1 .. m + n : l \in DOMAIN lv
    BY <1>1
  <2> QED BY <1>g, <2>1, <2>2
<1> DEFINE f == [l \in DOMAIN nlv |-> IF l <= m THEN l ELSE l + n - 1]
<1>7. ASSUME NEW l \in DOMAIN nlv, l # m + 1
      PROVE  /\ f[l] \in DOMAIN lv /\ nlv[l] = lv[f[l]] /\ f[l] \notin m + 1 .. m + n
             /\ l <= m => f[l] = l
             /\ l > m => f[l] = l + n - 1
  <2> HIDE DEF lv, nlv
  <2>1. CASE l <= m
    <3>1. f[l] = l /\ l \in 1 .. m /\ l \in DOMAIN lv
      BY <1>1, <2>1
    <3> HIDE DEF f
    <3> QED BY <1>1, <1>2, <2>1, <3>1
  <2>2. CASE l > m
    <3>1. f[l] = l + n - 1 /\ l \in m + 2 .. c /\ l + n - 1 \in DOMAIN lv
      BY <1>1, <1>7, <2>2
    <3>2. l + n - 1 \notin m + 1 .. m + n /\ ~(l <= m)
      BY <1>1, <2>2, <3>1
    <3>3. nlv[l] = lv[l + n - 1]
      BY <1>2, <3>1
    <3> HIDE DEF f
    <3> QED BY <3>1, <3>2, <3>3
  <2> QED BY <1>1, <2>1, <2>2
<1> HIDE DEF f
<1>8. RefsApart(new) /\ RefsOpen(new) /\ LevelsFrom(st, new, tier.ssts)
  <2>1. \A i \in DOMAIN new.l0_sstables :
          /\ i \in DOMAIN st.l0_sstables /\ new.l0_sstables[i] = st.l0_sstables[i]
          /\ new.l0_sstables[i] \notin gone
    BY <1>6 DEF TiersInstall
  <2>2. ASSUME NEW l \in DOMAIN nlv, l # m + 1, NEW p \in DOMAIN nlv, p # m + 1, f[p] = f[l]
        PROVE  p = l
    <3> HIDE DEF nlv, lv
    <3>1. l \in Int /\ p \in Int
      BY <1>1
    <3>2. (l <= m => f[l] = l) /\ (l > m => f[l] = l + n - 1)
      BY <1>7, <2>2
    <3>3. (p <= m => f[p] = p) /\ (p > m => f[p] = p + n - 1)
      BY <1>7, <2>2
    <3> QED BY ONLY <1>1, <2>2, <3>1, <3>2, <3>3
  <2>3. ASSUME NEW l \in DOMAIN nlv, l # m + 1, NEW i \in DOMAIN nlv[l].ssts
        PROVE  nlv[l].ssts[i] \notin gone
    <3>1. f[l] \in DOMAIN lv /\ nlv[l] = lv[f[l]] /\ f[l] \notin m + 1 .. m + n
      BY <1>7, <2>3
    <3>2. \A q \in DOMAIN lv : q # f[l] => \A j \in DOMAIN lv[q].ssts :
             lv[f[l]].ssts[i] # lv[q].ssts[j]
      BY <3>1 DEF RefsApart
    <3>3. \A q \in m + 1 .. m + n : q \in DOMAIN lv /\ q # f[l]
      BY <1>1, <3>1, SMTT(30)
    <3> QED BY ONLY <1>g, <3>1, <3>2, <3>3
  <2>4. \A l \in DOMAIN new.levels : l # m + 1 =>
          /\ f[l] \in DOMAIN st.levels
          /\ \A p \in DOMAIN new.levels : p # m + 1 /\ f[p] = f[l] => p = l
          /\ \A i \in DOMAIN new.levels[l].ssts :
               /\ i \in DOMAIN st.levels[f[l]].ssts
               /\ new.levels[l].ssts[i] = st.levels[f[l]].ssts[i]
               /\ new.levels[l].ssts[i] \notin gone
    BY <1>7, <2>2, <2>3
  <2>5. KeepsPlaces(st, new, tier.ssts, gone, m + 1, f)
    BY <1>2, <2>1, <2>4 DEF KeepsPlaces, TiersInstall
  <2> QED BY <2>5, ListsApart
<1>9. ASSUME NEW k \in Keys PROVE Purged(SstEntry(new, tables, k), SstEntry(st, tables, k))
  <2> DEFINE rs == Runs(tables, lv)  qs == Runs(tables, nlv)
  <2>8. ReplacedBy(Concat(Contents(tables, tier.ssts))[k], FirstHit(Segment(rs, m, m + n), k),
                   Len(lv) - (m + n))
    OBVIOUS
  <2> HIDE DEF lv, nlv, l0
  <2>1. /\ rs \in Seq(Table) /\ Len(rs) = Len(lv)
        /\ \A l \in 1 .. Len(lv) : rs[l] = Concat(Contents(tables, lv[l].ssts))
    BY ONLY <1>0, tables \in [S -> Table], RunsType
  <2>2. /\ qs \in Seq(Table) /\ Len(qs) = Len(nlv)
        /\ \A l \in 1 .. Len(nlv) : qs[l] = Concat(Contents(tables, nlv[l].ssts))
    BY ONLY <1>0, tables \in [S -> Table], RunsType
  <2> HIDE DEF rs, qs
  <2> DEFINE b == m + n
  <2>3. /\ m \in 0 .. Len(rs) /\ b \in m .. Len(rs) /\ m + 1 \in m .. Len(qs)
        /\ Len(rs) - b = Len(qs) - (m + 1)
    BY ONLY <1>1, <2>1, <2>2
  <2>4. \A i \in 1 .. m : qs[i] = rs[i]
    <3> SUFFICES ASSUME NEW i \in 1 .. m PROVE qs[i] = rs[i]
      OBVIOUS
    <3>1. i \in 1 .. Len(lv) /\ i \in 1 .. Len(nlv)
      BY ONLY <1>1, i \in 1 .. m
    <3>2. nlv[i] = lv[i]
      BY ONLY <1>2, i \in 1 .. m
    <3> QED BY ONLY <2>1, <2>2, <3>1, <3>2
  <2>5. \A i \in 1 .. Len(rs) - b : qs[(m + 1) + i] = rs[b + i]
    <3> SUFFICES ASSUME NEW i \in 1 .. Len(rs) - b PROVE qs[(m + 1) + i] = rs[b + i]
      OBVIOUS
    <3>1. /\ (m + 1) + i \in m + 2 .. c /\ (m + 1) + i \in 1 .. Len(nlv)
          /\ b + i \in 1 .. Len(lv) /\ ((m + 1) + i) + n - 1 = b + i
      BY ONLY <1>1, <2>1, i \in 1 .. Len(rs) - b
    <3>2. nlv[(m + 1) + i] = lv[b + i]
      BY ONLY <1>2, <3>1
    <3> QED BY ONLY <2>1, <2>2, <3>1, <3>2
  <2>7. FirstHit(Segment(qs, m, m + 1), k) = Concat(Contents(tables, tier.ssts))[k]
    <3>1. qs[m + 1] = Concat(Contents(tables, tier.ssts))
      <4>1. m + 1 \in 1 .. Len(nlv)
        BY <1>1
      <4> QED BY ONLY <1>2, <2>2, <4>1
    <3>2. DOMAIN Segment(qs, m, m + 1) = {1} /\ Segment(qs, m, m + 1)[1] = qs[m + 1]
      BY ONLY <1>1 DEF Segment
    <3> HIDE DEF b
    <3> QED BY ONLY <3>1, <3>2, FirstHitSingle
  <2>9. Purged(FirstHit(qs, k), FirstHit(rs, k))
    <3>1. ReplacedBy(FirstHit(Segment(qs, m, m + 1), k), FirstHit(Segment(rs, m, b), k), Len(rs) - b)
      BY <2>1, <2>7, <2>8
    <3> DEFINE d == m + 1
    <3>2. /\ d \in m .. Len(qs) /\ Len(rs) - b = Len(qs) - d
          /\ \A i \in 1 .. Len(rs) - b : qs[d + i] = rs[b + i]
          /\ ReplacedBy(FirstHit(Segment(qs, m, d), k), FirstHit(Segment(rs, m, b), k), Len(rs) - b)
      BY <2>3, <2>5, <3>1
    <3> HIDE DEF b, d
    <3> QED BY ONLY <2>1, <2>2, <2>3, <2>4, <3>2, k \in Keys, RunsReplaced
  <2>10. /\ FirstHit(Contents(tables, l0), k) \in Int
         /\ FirstHit(qs, k) \in Int /\ FirstHit(rs, k) \in Int
    <3>1. Contents(tables, l0) \in Seq(Table)
      BY ONLY <1>0, tables \in [S -> Table], ContentsType
    <3> QED BY <2>1, <2>2, <3>1, HitType
  <2>11. Purged(OrElse(FirstHit(Contents(tables, l0), k), FirstHit(qs, k)),
                OrElse(FirstHit(Contents(tables, l0), k), FirstHit(rs, k)))
    BY ONLY <2>9, <2>10 DEF Purged, OrElse
  <2>12. new.l0_sstables = l0
    BY DEF TiersInstall, l0
  <2> QED BY <1>8, <2>11, <2>12, SstEntryOpen DEF rs, qs, l0, lv, nlv
<1> QED BY <1>5, <1>8, <1>9 DEF Equivalent

-----------------------------------------------------------------------------
(* Tasks that fit a state *)

(* force_full_compaction() names the end of L0, before which flushes may   *)
(* have put more, and all of the only level.                               *)
ForceFullFits(S, st, task) ==
  /\ CompactionOptions.type = "NoCompaction" /\ task.type = "ForceFull"
  /\ Len(st.levels) = 1
  /\ task.l0_sstables \in Seq(S) /\ Oldest(task.l0_sstables, st.l0_sstables)
  /\ task.l1_sstables = st.levels[1].ssts

(* The simple strategy names the end of L0, or all of a level, and all of  *)
(* the level below.                                                        *)
SimpleFits(S, st, task) ==
  /\ CompactionOptions.type = "Simple" /\ task.type = "Simple"
  /\ Len(st.levels) = CompactionOptions.max_levels
  /\ task.upper_level \in 0 .. Len(st.levels) - 1
  /\ task.lower_level = task.upper_level + 1
  /\ task.bottom = (task.lower_level = Len(st.levels))
  /\ task.upper_level_sst_ids \in Seq(S)
  /\ IF task.upper_level = 0 THEN Oldest(task.upper_level_sst_ids, st.l0_sstables)
     ELSE task.upper_level_sst_ids = st.levels[task.upper_level].ssts
  /\ task.lower_level_sst_ids = st.levels[task.lower_level].ssts

(* The tiered strategy names neighbouring tiers, m of which were flushed   *)
(* since, to the last one if and only if tombstones are dropped.           *)
TieredFits(S, st, task, m) ==
  /\ CompactionOptions.type = "Tiered" /\ task.type = "Tiered"
  /\ m \in Nat /\ task.tiers \in Seq(LevelOver(S)) /\ Len(task.tiers) # 0
  /\ m + Len(task.tiers) <= Len(st.levels)
  /\ \A i \in 1 .. Len(task.tiers) : task.tiers[i] = st.levels[m + i]
  /\ task.bottom = (m + Len(task.tiers) = Len(st.levels))

TaskFits(S, st, task) ==
  \/ ForceFullFits(S, st, task)
  \/ SimpleFits(S, st, task)
  \/ \E m \in 0 .. Len(st.levels) : TieredFits(S, st, task, m)

(* Some key has an entry in one of the tables. *)
HoldsKey(tables, ids) == \E k \in Keys : Concat(Contents(tables, ids))[k] # Absent

(* A tier is named after its first table, or 0 when it has none, which the *)
(* last one only can be; MemTable 0 becomes the last tier too.             *)
TiersShape(tables, levels) ==
  /\ \A i \in DOMAIN levels :
       levels[i].id = IF levels[i].ssts = <<>> THEN 0 ELSE levels[i].ssts[1]
  /\ \A i \in DOMAIN levels : i < Len(levels) =>
       levels[i].id # 0 /\ HoldsKey(tables, levels[i].ssts)

(* The levels each strategy works with. *)
LevelsShape(tables, st) ==
  /\ CompactionOptions.type = "NoCompaction" => Len(st.levels) = 1
  /\ CompactionOptions.type = "Simple" => Len(st.levels) = CompactionOptions.max_levels
  /\ CompactionOptions.type = "Tiered" =>
       st.l0_sstables = <<>> /\ TiersShape(tables, st.levels)

(* The output tables of a task hold what the merge of its inputs gives, at *)
(* the bottom without tombstones.                                          *)
OutputHolds(tables, st, task, output) ==
  \A k \in Keys :
    Concat(Contents(tables, output))[k] =
      LET e == CompactInput(st, tables, task)[k]
      IN  IF CompactToBottomLevel(task) THEN Seen(e) ELSE e

(* The strategies this module is about.  A merge width makes the tiered    *)
(* strategy drop tombstones above older tiers.                             *)
StrategyAssumed ==
  /\ CompactionOptions.type # "Leveled"
  /\ CompactionOptions.type = "Tiered" => CompactionOptions.max_merge_width = 0

-----------------------------------------------------------------------------
(* What a task reads *)

(* The tables a task names. *)
TaskIds(task) ==
  CASE task.type = "ForceFull" -> ToSet(task.l0_sstables) \cup ToSet(task.l1_sstables)
    [] task.type = "Simple" ->
         ToSet(task.upper_level_sst_ids) \cup ToSet(task.lower_level_sst_ids)
    [] task.type = "Tiered" ->
         UNION {ToSet(task.tiers[i].ssts) : i \in DOMAIN task.tiers}

(* The tables of a task that fits are in L0 or the levels, so open. *)
LEMMA FitsOpen ==
  ASSUME NEW S, NEW st, NEW task, st \in StateOver(S), RefsOpen(st), TaskFits(S, st, task)
  PROVE  /\ task.type \in {"ForceFull", "Simple", "Tiered"}
         /\ TaskIds(task) \subseteq st.sstables
<1> DEFINE l0 == st.l0_sstables  lv == st.levels
<1>0. /\ l0 \in Seq(S) /\ lv \in Seq(LevelOver(S)) /\ Len(l0) \in Nat /\ Len(lv) \in Nat
      /\ DOMAIN l0 = 1 .. Len(l0) /\ DOMAIN lv = 1 .. Len(lv)
  BY DEF StateOver
<1>1. ASSUME NEW u \in Seq(S), Oldest(u, l0) PROVE ToSet(u) \subseteq st.sstables
  <2>1. \A i \in 1 .. Len(u) : Len(l0) - Len(u) + i \in DOMAIN l0 /\ u[i] = l0[Len(l0) - Len(u) + i]
    BY <1>0, <1>1 DEF Oldest
  <2>2. DOMAIN u = 1 .. Len(u)
    BY <1>1
  <2> HIDE DEF l0
  <2> QED BY <2>1, <2>2 DEF ToSet, RefsOpen, l0
<1>2. ASSUME NEW l \in 1 .. Len(lv) PROVE ToSet(lv[l].ssts) \subseteq st.sstables
  BY <1>0 DEF ToSet, RefsOpen
<1>3. CASE ForceFullFits(S, st, task)
  <2>1. 1 \in 1 .. Len(lv)
    BY <1>3 DEF ForceFullFits
  <2> QED BY <1>1, <1>2, <1>3, <2>1 DEF ForceFullFits, TaskIds
<1>4. CASE SimpleFits(S, st, task)
  <2>1. task.lower_level \in 1 .. Len(lv) /\ (task.upper_level # 0 => task.upper_level \in 1 .. Len(lv))
    BY <1>0, <1>4 DEF SimpleFits
  <2>2. ToSet(task.lower_level_sst_ids) \subseteq st.sstables
    BY <1>2, <1>4, <2>1 DEF SimpleFits
  <2>3. ToSet(task.upper_level_sst_ids) \subseteq st.sstables
    <3>1. CASE task.upper_level = 0
      BY <1>1, <1>4, <3>1 DEF SimpleFits
    <3>2. CASE task.upper_level # 0
      BY <1>2, <1>4, <2>1, <3>2 DEF SimpleFits
    <3> QED BY <3>1, <3>2
  <2> QED BY <1>4, <2>2, <2>3 DEF SimpleFits, TaskIds
<1>5. ASSUME NEW m \in 0 .. Len(lv), TieredFits(S, st, task, m)
      PROVE  task.type = "Tiered" /\ TaskIds(task) \subseteq st.sstables
  <2>1. \A i \in DOMAIN task.tiers : m + i \in 1 .. Len(lv) /\ task.tiers[i] = lv[m + i]
    BY <1>0, <1>5, SMTT(30) DEF TieredFits
  <2>2. \A i \in DOMAIN task.tiers : ToSet(task.tiers[i].ssts) \subseteq st.sstables
    BY <1>2, <2>1
  <2> QED BY <1>5, <2>2 DEF TieredFits, TaskIds
<1> QED BY <1>3, <1>4, <1>5 DEF TaskFits, ForceFullFits, SimpleFits

(* What compact() merges depends on the tables the task names only. *)
LEMMA InputSame ==
  ASSUME NEW st, NEW tables, NEW st2, NEW tables2, NEW task,
         task.type \in {"ForceFull", "Simple", "Tiered"},
         \A id \in TaskIds(task) : Handle(st2, tables2, id) = Handle(st, tables, id)
  PROVE  CompactInput(st2, tables2, task) = CompactInput(st, tables, task)
<1>1. ASSUME NEW ids, ToSet(ids) \subseteq TaskIds(task)
      PROVE  Handles(st2, tables2, ids) = Handles(st, tables, ids)
  <2>1. \A i \in DOMAIN ids : ids[i] \in TaskIds(task)
    BY <1>1 DEF ToSet
  <2> QED BY <2>1 DEF Handles
<1>2. CASE task.type = "ForceFull"
  <2>1. /\ Handles(st2, tables2, task.l0_sstables) = Handles(st, tables, task.l0_sstables)
        /\ Handles(st2, tables2, task.l1_sstables) = Handles(st, tables, task.l1_sstables)
    BY <1>1, <1>2 DEF TaskIds
  <2> QED BY <1>2, <2>1 DEF CompactInput
<1>3. CASE task.type = "Simple"
  <2>1. /\ Handles(st2, tables2, task.upper_level_sst_ids) =
             Handles(st, tables, task.upper_level_sst_ids)
        /\ Handles(st2, tables2, task.lower_level_sst_ids) =
             Handles(st, tables, task.lower_level_sst_ids)
    BY <1>1, <1>3 DEF TaskIds
  <2> QED BY <1>3, <2>1 DEF CompactInput
<1>4. CASE task.type = "Tiered"
  <2>1. ASSUME NEW i \in DOMAIN task.tiers
        PROVE  Handles(st2, tables2, task.tiers[i].ssts) = Handles(st, tables, task.tiers[i].ssts)
    BY <1>1, <1>4 DEF TaskIds
  <2>2. [i \in DOMAIN task.tiers |-> Concat(Handles(st2, tables2, task.tiers[i].ssts))] =
          [i \in DOMAIN task.tiers |-> Concat(Handles(st, tables, task.tiers[i].ssts))]
    BY <2>1
  <2> QED BY <1>4, <2>2 DEF CompactInput
<1> QED BY <1>2, <1>3, <1>4

(* Some tables of L0 and a run below them, merged. *)
LEMMA InputFromL0 ==
  ASSUME NEW st, NEW tables, NEW task, NEW u, NEW low,
         \/ task.type = "ForceFull" /\ u = task.l0_sstables /\ low = task.l1_sstables
         \/ /\ task.type = "Simple" /\ task.upper_level = 0
            /\ u = task.upper_level_sst_ids /\ low = task.lower_level_sst_ids,
         \A i \in DOMAIN u : u[i] \in st.sstables,
         \A i \in DOMAIN low : low[i] \in st.sstables,
         NEW k \in Keys
  PROVE  CompactInput(st, tables, task)[k] =
           FirstHit(Contents(tables, u) \o <<Concat(Contents(tables, low))>>, k)
<1>1. Handles(st, tables, u) = Contents(tables, u) /\ Handles(st, tables, low) = Contents(tables, low)
  BY HandlesOpen
<1>2. CompactInput(st, tables, task) =
        Merge(Handles(st, tables, u) \o <<Concat(Handles(st, tables, low))>>)
  <2>1. CASE task.type = "ForceFull"
    BY <2>1 DEF CompactInput
  <2>2. CASE task.type = "Simple"
    BY <2>2 DEF CompactInput
  <2> QED BY <2>1, <2>2
<1> QED BY <1>1, <1>2 DEF Merge

(* A level and the one below, merged. *)
LEMMA InputFromLevel ==
  ASSUME NEW st, NEW tables, NEW task,
         task.type = "Simple", task.upper_level # 0,
         \A i \in DOMAIN task.upper_level_sst_ids : task.upper_level_sst_ids[i] \in st.sstables,
         \A i \in DOMAIN task.lower_level_sst_ids : task.lower_level_sst_ids[i] \in st.sstables,
         NEW k \in Keys
  PROVE  CompactInput(st, tables, task)[k] =
           OrElse(Concat(Contents(tables, task.upper_level_sst_ids))[k],
                  Concat(Contents(tables, task.lower_level_sst_ids))[k])
<1> DEFINE a == Concat(Contents(tables, task.upper_level_sst_ids))
           b == Concat(Contents(tables, task.lower_level_sst_ids))
           both == <<a>> \o <<b>>
<1>1. /\ Handles(st, tables, task.upper_level_sst_ids) = Contents(tables, task.upper_level_sst_ids)
      /\ Handles(st, tables, task.lower_level_sst_ids) = Contents(tables, task.lower_level_sst_ids)
  BY HandlesOpen
<1>2. CompactInput(st, tables, task) = Merge(both)
  BY <1>1 DEF CompactInput
<1> HIDE DEF a, b
<1>3. DOMAIN both = 1 .. 2 /\ both[1] = a /\ both[2] = b
  OBVIOUS
<1> HIDE DEF both
<1>4. FirstHit(both, k) = OrElse(a[k], b[k])
  BY <1>3, FirstHitPair
<1> QED BY <1>2, <1>4 DEF Merge, a, b

(* Neighbouring tiers, merged. *)
LEMMA InputFromTiers ==
  ASSUME NEW S, NEW st, NEW tables, NEW task, NEW m,
         tables \in [S -> Table], st \in StateOver(S), RefsOpen(st), TieredFits(S, st, task, m),
         NEW k \in Keys
  PROVE  CompactInput(st, tables, task)[k] =
           FirstHit(Segment(Runs(tables, st.levels), m, m + Len(task.tiers)), k)
<1> DEFINE lv == st.levels  n == Len(task.tiers)
<1>0. /\ lv \in Seq(LevelOver(S)) /\ Len(lv) \in Nat /\ DOMAIN lv = 1 .. Len(lv) /\ m \in Nat
      /\ n \in Nat /\ DOMAIN task.tiers = 1 .. n /\ m + n <= Len(lv)
  BY DEF StateOver, TieredFits
<1>1. \A i \in 1 .. n : m + i \in DOMAIN lv /\ task.tiers[i] = lv[m + i]
  BY <1>0 DEF TieredFits
<1>2. ASSUME NEW i \in 1 .. n
      PROVE  Handles(st, tables, task.tiers[i].ssts) = Contents(tables, lv[m + i].ssts)
  BY <1>1, HandlesOpen DEF RefsOpen
<1>3. ASSUME NEW i \in 1 .. n
      PROVE  Concat(Handles(st, tables, task.tiers[i].ssts)) = Runs(tables, lv)[m + i]
  BY <1>1, <1>2 DEF Runs
<1>4. (m + n) - m = n
  BY <1>0
<1>5. [i \in 1 .. n |-> Concat(Handles(st, tables, task.tiers[i].ssts))] =
        Segment(Runs(tables, lv), m, m + n)
  <2> HIDE DEF n, lv
  <2> QED BY ONLY <1>3, <1>4 DEF Segment
<1>6. CompactInput(st, tables, task) =
        Merge([i \in 1 .. n |-> Concat(Handles(st, tables, task.tiers[i].ssts))])
  BY <1>0 DEF CompactInput, TieredFits
<1> QED BY <1>5, <1>6 DEF Merge

-----------------------------------------------------------------------------
(* What applying the result of a task does *)

Added(st, output) == [st EXCEPT !.sstables = @ \cup ToSet(output)]

(* The state that CompactApply swaps in. *)
Installed(st, tables, task, output) ==
  LET applied == ApplyCompactionResult(Added(st, output), tables, task, output, FALSE)
      gone    == FilesToRemove(Added(st, output), task)
  IN  [applied EXCEPT !.sstables = IF task.type = "ForceFull"
                                     THEN (st.sstables \ gone) \cup ToSet(output)
                                     ELSE @ \ gone]

(* What it must be: tables are exchanged, and nothing else is noticed. *)
Exchanged(S, tables, st, new, output, gone) ==
  /\ new \in StateOver(S)
  /\ new.memtable = st.memtable /\ new.imm_memtables = st.imm_memtables
  /\ gone \subseteq st.sstables /\ new.sstables = (st.sstables \ gone) \cup ToSet(output)
  /\ Equivalent(st, new, tables) /\ LevelsShape(tables, new) /\ LevelsFrom(st, new, output)

(* The result of a task is ready to be applied. *)
Ready(S, tables, st, task, output) ==
  /\ tables \in [S -> Table] /\ st \in StateOver(S) /\ output \in Seq(S)
  /\ RefsApart(st) /\ RefsOpen(st) /\ LevelsShape(tables, st)
  /\ \A i \in DOMAIN output : output[i] \notin st.sstables /\ output[i] # 0
  /\ OutputHolds(tables, st, task, output)

(* The entries of the output stand for those of the input. *)
LEMMA OutputReplaces ==
  ASSUME NEW tables, NEW st, NEW task, NEW output, NEW below, NEW k \in Keys, NEW part,
         OutputHolds(tables, st, task, output), CompactInput(st, tables, task)[k] = part,
         CompactToBottomLevel(task) => below = 0
  PROVE  ReplacedBy(Concat(Contents(tables, output))[k], part, below)
BY DEF OutputHolds, ReplacedBy

(* A state with more tables open. *)
LEMMA AddedType ==
  ASSUME NEW S, NEW st, NEW output, st \in StateOver(S), output \in Seq(S)
  PROVE  /\ Added(st, output) \in StateOver(S)
         /\ Added(st, output).memtable = st.memtable
         /\ Added(st, output).imm_memtables = st.imm_memtables
         /\ Added(st, output).l0_sstables = st.l0_sstables
         /\ Added(st, output).levels = st.levels
         /\ Added(st, output).sstables = st.sstables \cup ToSet(output)
<1>1. \A i \in DOMAIN output : output[i] \in S
  OBVIOUS
<1>2. ToSet(output) \subseteq S
  BY <1>1 DEF ToSet
<1> QED BY <1>2 DEF Added, StateOver

(* L0 without its end. *)
LEMMA KeptType ==
  ASSUME NEW S, NEW st, NEW u, st \in StateOver(S), u \in Seq(S),
         Oldest(u, st.l0_sstables), RefsApart(st)
  PROVE  Without(st.l0_sstables, ToSet(u)) \in Seq(S)
<1> DEFINE l0 == st.l0_sstables  n == Len(l0) - Len(u)
<1>1. l0 \in Seq(S) /\ \A i, j \in DOMAIN l0 : l0[i] = l0[j] => i = j
  BY DEF StateOver, RefsApart
<1>2. n \in Nat /\ n <= Len(l0)
  BY <1>1 DEF Oldest
<1> DEFINE kept == [i \in 1 .. n |-> l0[i]]
<1>3. Without(l0, ToSet(u)) = kept
  <2> HIDE DEF l0
  <2>1. Without(l0, ToSet(u)) = [i \in 1 .. Len(l0) - Len(u) |-> l0[i]]
    <3>1. Oldest(u, l0)
      BY DEF l0
    <3> QED BY ONLY <1>1, <3>1, u \in Seq(S), WithoutOldest
  <2> QED BY <2>1
<1>4. kept = [i \in 1 .. n |-> kept[i]] /\ \A i \in 1 .. n : kept[i] \in S
  BY <1>1, <1>2
<1> HIDE DEF kept
<1>5. kept \in Seq(S)
  BY <1>2, <1>4, FunctionIsSeq
<1> QED BY <1>3, <1>5

(* The tables of the end of a list are among its tables. *)
LEMMA OldestOpen ==
  ASSUME NEW S, NEW st, NEW u, st \in StateOver(S), u \in Seq(S),
         Oldest(u, st.l0_sstables), RefsOpen(st)
  PROVE  \A i \in DOMAIN u : u[i] \in st.sstables
<1> DEFINE l0 == st.l0_sstables
<1>1. l0 \in Seq(S) /\ Len(l0) \in Nat /\ DOMAIN l0 = 1 .. Len(l0) /\ DOMAIN u = 1 .. Len(u)
  BY DEF StateOver
<1>2. \A i \in 1 .. Len(u) : Len(l0) - Len(u) + i \in DOMAIN l0 /\ u[i] = l0[Len(l0) - Len(u) + i]
  BY <1>1 DEF Oldest
<1> HIDE DEF l0
<1> QED BY <1>1, <1>2 DEF RefsOpen, l0

(* force_full_compaction(): the end of L0 and the only level are exchanged *)
(* for their merge.                                                        *)
LEMMA ForceFullExchanges ==
  ASSUME NEW S, NEW tables, NEW st, NEW task, NEW output,
         Ready(S, tables, st, task, output), ForceFullFits(S, st, task)
  PROVE  Exchanged(S, tables, st, Installed(st, tables, task, output), output,
                   FilesToRemove(Added(st, output), task))
<1> DEFINE l0 == st.l0_sstables  lv == st.levels  u == task.l0_sstables
           added == Added(st, output)  gone == FilesToRemove(added, task)
           new == Installed(st, tables, task, output)
<1>0. /\ tables \in [S -> Table] /\ st \in StateOver(S) /\ output \in Seq(S)
      /\ RefsApart(st) /\ RefsOpen(st) /\ u \in Seq(S) /\ Oldest(u, l0)
  BY DEF Ready, ForceFullFits
<1>1. /\ l0 \in Seq(S) /\ lv \in Seq(LevelOver(S)) /\ Len(lv) = 1 /\ lv # <<>>
      /\ task.l1_sstables = lv[1].ssts /\ 1 \in 1 .. Len(lv) /\ DOMAIN lv = 1 .. Len(lv)
  BY <1>0 DEF StateOver, ForceFullFits
<1>2. gone = ToSet(u) \cup ToSet(lv[1].ssts)
  BY <1>1 DEF FilesToRemove, ForceFullFits
<1>3. Without(l0, ToSet(u)) \in Seq(S)
  BY <1>0, KeptType
<1> DEFINE nlv == [lv EXCEPT ![1].ssts = output]
<1>4. nlv \in Seq(LevelOver(S)) /\ Len(nlv) = 1
  <2>1. LevelWith(lv, 1, output, nlv)
    BY DEF LevelWith
  <2> HIDE DEF lv, nlv
  <2>2. nlv \in Seq(LevelOver(S)) /\ Len(nlv) = Len(lv)
    BY ONLY <1>0, <1>1, <2>1, LevelSet
  <2> QED BY <1>1, <2>2
<1>5. added \in StateOver(S)
  BY <1>0, AddedType
<1>6. /\ new.memtable = st.memtable /\ new.imm_memtables = st.imm_memtables
      /\ new.l0_sstables = Without(l0, ToSet(u)) /\ new.levels = nlv
      /\ new.sstables = (st.sstables \ gone) \cup ToSet(output)
      /\ new = [memtable |-> new.memtable, imm_memtables |-> new.imm_memtables,
                l0_sstables |-> new.l0_sstables, levels |-> new.levels, sstables |-> new.sstables]
  <2> HIDE DEF gone
  <2>1. new = [ForceFullApply(added, task, output) EXCEPT
                 !.sstables = (st.sstables \ gone) \cup ToSet(output)]
    BY DEF Installed, ApplyCompactionResult, ForceFullFits, gone
  <2> QED BY <1>0, <1>1, <1>5, <2>1 DEF ForceFullApply, Added, StateOver
<1>7. new \in StateOver(S)
  <2>1. ToSet(output) \subseteq S /\ st.sstables \subseteq S /\ st.memtable \in S
        /\ st.imm_memtables \in Seq(S)
    BY <1>0 DEF StateOver, ToSet
  <2> HIDE DEF new, gone, nlv
  <2> QED BY ONLY <1>3, <1>4, <1>6, <2>1 DEF StateOver
<1>8. ASSUME NEW k \in Keys
      PROVE  ReplacedBy(Concat(Contents(tables, output))[k],
                        FirstHit(Contents(tables, u) \o <<Concat(Contents(tables, lv[1].ssts))>>, k),
                        Len(lv) - 1)
  <2>1. \A i \in DOMAIN u : u[i] \in st.sstables
    BY <1>0, OldestOpen
  <2>2. \A i \in DOMAIN lv[1].ssts : lv[1].ssts[i] \in st.sstables
    BY <1>0, <1>1 DEF RefsOpen
  <2>3. CompactInput(st, tables, task)[k] =
          FirstHit(Contents(tables, u) \o <<Concat(Contents(tables, lv[1].ssts))>>, k)
    BY <1>1, <2>1, <2>2, InputFromL0 DEF ForceFullFits
  <2> DEFINE part == FirstHit(Contents(tables, u) \o <<Concat(Contents(tables, lv[1].ssts))>>, k)
  <2>4. OutputHolds(tables, st, task, output) /\ Len(lv) - 1 = 0
    BY <1>1 DEF Ready
  <2> HIDE DEF part
  <2>5. CompactInput(st, tables, task)[k] = part
    BY <2>3 DEF part
  <2>6. ReplacedBy(Concat(Contents(tables, output))[k], part, 0)
    BY ONLY <2>4, <2>5, k \in Keys, OutputReplaces
  <2> QED BY <2>4, <2>6 DEF part
<1>9. L0Install(st, new, u, output, gone)
  <2>1. \A i \in DOMAIN output : output[i] \notin st.sstables
    BY DEF Ready
  <2> HIDE DEF new, gone
  <2> QED BY <1>0, <1>1, <1>2, <1>6, <2>1 DEF L0Install
<1>10. gone \subseteq st.sstables /\ Equivalent(st, new, tables) /\ LevelsFrom(st, new, output)
  <2> HIDE DEF new, gone, u
  <2> QED BY <1>0, <1>7, <1>8, <1>9, L0Installed
<1>11. LevelsShape(tables, new)
  <2> HIDE DEF new, nlv
  <2> QED BY <1>4, <1>6 DEF LevelsShape, ForceFullFits
<1> HIDE DEF new, gone
<1>12. Exchanged(S, tables, st, new, output, gone)
  BY <1>6, <1>7, <1>10, <1>11 DEF Exchanged
<1> QED BY <1>12 DEF new, gone

(* What is new is not among what goes. *)
LEMMA NewStays ==
  ASSUME NEW have, NEW output, NEW gone, gone \subseteq have,
         \A i \in DOMAIN output : output[i] \notin have
  PROVE  (have \cup ToSet(output)) \ gone = (have \ gone) \cup ToSet(output)
BY DEF ToSet

(* The simple strategy from L0: its end and the first level are exchanged. *)
LEMMA SimpleL0Exchanges ==
  ASSUME NEW S, NEW tables, NEW st, NEW task, NEW output,
         Ready(S, tables, st, task, output), SimpleFits(S, st, task), task.upper_level = 0
  PROVE  Exchanged(S, tables, st, Installed(st, tables, task, output), output,
                   FilesToRemove(Added(st, output), task))
<1> DEFINE l0 == st.l0_sstables  lv == st.levels  u == task.upper_level_sst_ids
           added == Added(st, output)  gone == FilesToRemove(added, task)
           new == Installed(st, tables, task, output)
<1>0. /\ tables \in [S -> Table] /\ st \in StateOver(S) /\ output \in Seq(S)
      /\ RefsApart(st) /\ RefsOpen(st) /\ u \in Seq(S) /\ Oldest(u, l0)
  BY DEF Ready, SimpleFits
<1>a. /\ added \in StateOver(S) /\ added.memtable = st.memtable
      /\ added.imm_memtables = st.imm_memtables /\ added.l0_sstables = l0 /\ added.levels = lv
      /\ added.sstables = st.sstables \cup ToSet(output)
  BY <1>0, AddedType
<1>1. /\ l0 \in Seq(S) /\ lv \in Seq(LevelOver(S)) /\ Len(lv) \in Nat /\ Len(lv) >= 1
      /\ task.lower_level = 1 /\ task.type = "Simple"
      /\ task.lower_level_sst_ids = lv[1].ssts /\ 1 \in 1 .. Len(lv) /\ DOMAIN lv = 1 .. Len(lv)
      /\ task.bottom = (1 = Len(lv)) /\ CompactionOptions.type = "Simple"
      /\ Len(lv) = CompactionOptions.max_levels
  BY <1>0 DEF StateOver, SimpleFits
<1>2. gone = ToSet(u) \cup ToSet(lv[1].ssts)
  <2> HIDE DEF added, lv
  <2> QED BY <1>1, <1>a DEF FilesToRemove, SimpleRemoved
<1>3. Without(l0, ToSet(u)) \in Seq(S)
  BY <1>0, KeptType
<1> DEFINE nlv == [lv EXCEPT ![1].ssts = output]
<1>4. nlv \in Seq(LevelOver(S)) /\ Len(nlv) = Len(lv)
  <2>1. LevelWith(lv, 1, output, nlv)
    BY DEF LevelWith
  <2> HIDE DEF lv, nlv
  <2> QED BY ONLY <1>0, <1>1, <2>1, LevelSet
<1>5. gone \subseteq st.sstables
  <2>1. \A i \in DOMAIN u : u[i] \in st.sstables
    BY <1>0, OldestOpen
  <2>2. \A i \in DOMAIN lv[1].ssts : lv[1].ssts[i] \in st.sstables
    BY <1>0, <1>1 DEF RefsOpen
  <2> QED BY <1>2, <2>1, <2>2 DEF ToSet
<1>f. \A i \in DOMAIN output : output[i] \notin st.sstables
  BY DEF Ready
<1>6. /\ new.memtable = st.memtable /\ new.imm_memtables = st.imm_memtables
      /\ new.l0_sstables = Without(l0, ToSet(u)) /\ new.levels = nlv
      /\ new.sstables = (st.sstables \ gone) \cup ToSet(output)
      /\ new = [memtable |-> new.memtable, imm_memtables |-> new.imm_memtables,
                l0_sstables |-> new.l0_sstables, levels |-> new.levels, sstables |-> new.sstables]
  <2> HIDE DEF gone
  <2>1. new = [SimpleApply(added, task, output) EXCEPT !.sstables = @ \ gone]
    BY <1>1 DEF Installed, ApplyCompactionResult, gone
  <2> HIDE DEF added
  <2>2. SimpleApply(added, task, output) =
          [[added EXCEPT !.l0_sstables = Without(@, ToSet(u))] EXCEPT !.levels[1].ssts = output]
    BY <1>1 DEF SimpleApply
  <2>3. (st.sstables \cup ToSet(output)) \ gone = (st.sstables \ gone) \cup ToSet(output)
    BY <1>5, <1>f, NewStays
  <2> QED BY <1>a, <2>1, <2>2, <2>3, ZenonT(30) DEF StateOver
<1>7. new \in StateOver(S)
  <2>1. st.sstables \subseteq S /\ st.memtable \in S /\ st.imm_memtables \in Seq(S)
    BY <1>0 DEF StateOver
  <2>2. \A i \in DOMAIN output : output[i] \in S
    BY <1>0
  <2>3. ToSet(output) \subseteq S
    BY <2>2 DEF ToSet
  <2> HIDE DEF new, gone, nlv
  <2> QED BY ONLY <1>3, <1>4, <1>6, <2>1, <2>3 DEF StateOver
<1>8. ASSUME NEW k \in Keys
      PROVE  ReplacedBy(Concat(Contents(tables, output))[k],
                        FirstHit(Contents(tables, u) \o <<Concat(Contents(tables, lv[1].ssts))>>, k),
                        Len(lv) - 1)
  <2>1. \A i \in DOMAIN u : u[i] \in st.sstables
    BY <1>0, OldestOpen
  <2>2. \A i \in DOMAIN lv[1].ssts : lv[1].ssts[i] \in st.sstables
    BY <1>0, <1>1 DEF RefsOpen
  <2>3. CompactInput(st, tables, task)[k] =
          FirstHit(Contents(tables, u) \o <<Concat(Contents(tables, lv[1].ssts))>>, k)
    BY <1>1, <2>1, <2>2, InputFromL0
  <2> DEFINE part == FirstHit(Contents(tables, u) \o <<Concat(Contents(tables, lv[1].ssts))>>, k)
             below == Len(lv) - 1
  <2>4. OutputHolds(tables, st, task, output) /\ (CompactToBottomLevel(task) => below = 0)
    <3>1. OutputHolds(tables, st, task, output)
      BY DEF Ready
    <3>2. CompactToBottomLevel(task) => 1 = Len(lv)
      BY ONLY <1>1 DEF CompactToBottomLevel
    <3> QED BY <1>1, <3>1, <3>2
  <2> HIDE DEF part, below
  <2>5. CompactInput(st, tables, task)[k] = part
    BY <2>3 DEF part
  <2>6. ReplacedBy(Concat(Contents(tables, output))[k], part, below)
    BY ONLY <2>4, <2>5, k \in Keys, OutputReplaces
  <2> QED BY <2>6 DEF part, below
<1>9. L0Install(st, new, u, output, gone)
  <2> HIDE DEF new, gone
  <2> QED BY <1>0, <1>1, <1>2, <1>6, <1>f DEF L0Install
<1>10. gone \subseteq st.sstables /\ Equivalent(st, new, tables) /\ LevelsFrom(st, new, output)
  <2> HIDE DEF new, gone, u
  <2> QED BY <1>0, <1>7, <1>8, <1>9, L0Installed
<1>11. LevelsShape(tables, new)
  <2> HIDE DEF new, nlv
  <2> QED BY <1>1, <1>4, <1>6 DEF LevelsShape
<1> HIDE DEF new, gone
<1>12. Exchanged(S, tables, st, new, output, gone)
  BY <1>6, <1>7, <1>10, <1>11 DEF Exchanged
<1> QED BY <1>12 DEF new, gone

(* From a level: it and the one below are exchanged. *)
LEMMA SimpleLevelExchanges ==
  ASSUME NEW S, NEW tables, NEW st, NEW task, NEW output,
         Ready(S, tables, st, task, output), SimpleFits(S, st, task), task.upper_level # 0
  PROVE  Exchanged(S, tables, st, Installed(st, tables, task, output), output,
                   FilesToRemove(Added(st, output), task))
<1> DEFINE l0 == st.l0_sstables  lv == st.levels  up == task.upper_level
           added == Added(st, output)  gone == FilesToRemove(added, task)
           new == Installed(st, tables, task, output)
<1>0. /\ tables \in [S -> Table] /\ st \in StateOver(S) /\ output \in Seq(S)
      /\ RefsApart(st) /\ RefsOpen(st)
  BY DEF Ready
<1>a. /\ added \in StateOver(S) /\ added.memtable = st.memtable
      /\ added.imm_memtables = st.imm_memtables /\ added.l0_sstables = l0 /\ added.levels = lv
      /\ added.sstables = st.sstables \cup ToSet(output)
  BY <1>0, AddedType
<1>1. /\ l0 \in Seq(S) /\ lv \in Seq(LevelOver(S)) /\ Len(lv) \in Nat
      /\ up \in 1 .. Len(lv) - 1 /\ up \in 1 .. Len(lv) /\ up + 1 \in 1 .. Len(lv)
      /\ task.lower_level = up + 1 /\ task.type = "Simple"
      /\ task.upper_level_sst_ids = lv[up].ssts /\ task.lower_level_sst_ids = lv[up + 1].ssts
      /\ DOMAIN lv = 1 .. Len(lv)
      /\ task.bottom = (up + 1 = Len(lv)) /\ CompactionOptions.type = "Simple"
      /\ Len(lv) = CompactionOptions.max_levels
  BY <1>0 DEF StateOver, SimpleFits
<1>2. gone = ToSet(lv[up].ssts) \cup ToSet(lv[up + 1].ssts)
  <2> HIDE DEF added, lv
  <2> QED BY <1>1, <1>a DEF FilesToRemove, SimpleRemoved
<1> DEFINE mid == [lv EXCEPT ![up].ssts = <<>>]
           nlv == [mid EXCEPT ![up + 1].ssts = output]
<1>4. nlv \in Seq(LevelOver(S)) /\ Len(nlv) = Len(lv)
  <2> DEFINE none == <<>>
  <2>1. none \in Seq(S) /\ LevelWith(lv, up, none, mid)
    BY DEF LevelWith
  <2>2. LevelWith(mid, up + 1, output, nlv)
    BY DEF LevelWith
  <2>3. up \in 1 .. Len(lv) /\ up + 1 \in 1 .. Len(lv) /\ lv \in Seq(LevelOver(S))
    BY <1>1
  <2> HIDE DEF lv, mid, nlv, up, none
  <2>4. mid \in Seq(LevelOver(S)) /\ Len(mid) = Len(lv)
    BY ONLY <2>1, <2>3, LevelSet
  <2>5. up + 1 \in 1 .. Len(mid)
    BY <2>3, <2>4
  <2>6. nlv \in Seq(LevelOver(S)) /\ Len(nlv) = Len(mid)
    BY ONLY <1>0, <2>2, <2>4, <2>5, LevelSet
  <2> QED BY <2>4, <2>6
<1>5. gone \subseteq st.sstables
  <2>1. \A l \in 1 .. Len(lv) : \A i \in DOMAIN lv[l].ssts : lv[l].ssts[i] \in st.sstables
    BY <1>0, <1>1 DEF RefsOpen
  <2> QED BY <1>1, <1>2, <2>1 DEF ToSet
<1>f. \A i \in DOMAIN output : output[i] \notin st.sstables
  BY DEF Ready
<1>6. /\ new.memtable = st.memtable /\ new.imm_memtables = st.imm_memtables
      /\ new.l0_sstables = l0 /\ new.levels = nlv
      /\ new.sstables = (st.sstables \ gone) \cup ToSet(output)
      /\ new = [memtable |-> new.memtable, imm_memtables |-> new.imm_memtables,
                l0_sstables |-> new.l0_sstables, levels |-> new.levels, sstables |-> new.sstables]
  <2> HIDE DEF gone
  <2>1. new = [SimpleApply(added, task, output) EXCEPT !.sstables = @ \ gone]
    BY <1>1 DEF Installed, ApplyCompactionResult, gone
  <2> HIDE DEF added
  <2>2. SimpleApply(added, task, output) =
          [[added EXCEPT !.levels[up].ssts = <<>>] EXCEPT !.levels[up + 1].ssts = output]
    BY <1>1 DEF SimpleApply
  <2>3. (st.sstables \cup ToSet(output)) \ gone = (st.sstables \ gone) \cup ToSet(output)
    BY <1>5, <1>f, NewStays
  <2> QED BY <1>a, <2>1, <2>2, <2>3, ZenonT(60) DEF StateOver
<1>7. new \in StateOver(S)
  <2>1. st.sstables \subseteq S /\ st.memtable \in S /\ st.imm_memtables \in Seq(S)
    BY <1>0 DEF StateOver
  <2>2. \A i \in DOMAIN output : output[i] \in S
    BY <1>0
  <2>3. ToSet(output) \subseteq S
    BY <2>2 DEF ToSet
  <2> HIDE DEF new, gone, nlv
  <2> QED BY ONLY <1>1, <1>4, <1>6, <2>1, <2>3 DEF StateOver
<1>8. ASSUME NEW k \in Keys
      PROVE  ReplacedBy(Concat(Contents(tables, output))[k],
                        OrElse(Concat(Contents(tables, lv[up].ssts))[k],
                               Concat(Contents(tables, lv[up + 1].ssts))[k]),
                        Len(lv) - (up + 1))
  <2>1. \A l \in 1 .. Len(lv) : \A i \in DOMAIN lv[l].ssts : lv[l].ssts[i] \in st.sstables
    BY <1>0, <1>1 DEF RefsOpen
  <2> DEFINE a == task.upper_level_sst_ids  b == task.lower_level_sst_ids
  <2>2. a = lv[up].ssts /\ b = lv[up + 1].ssts
    BY <1>1
  <2>3. (\A i \in DOMAIN a : a[i] \in st.sstables) /\ (\A i \in DOMAIN b : b[i] \in st.sstables)
    <3> HIDE DEF a, b
    <3> QED BY <1>1, <2>1, <2>2
  <2> DEFINE part == OrElse(Concat(Contents(tables, a))[k], Concat(Contents(tables, b))[k])
             below == Len(lv) - (up + 1)
  <2>4. OutputHolds(tables, st, task, output) /\ (CompactToBottomLevel(task) => below = 0)
    <3>1. OutputHolds(tables, st, task, output)
      BY DEF Ready
    <3>2. CompactToBottomLevel(task) => up + 1 = Len(lv)
      BY ONLY <1>1 DEF CompactToBottomLevel
    <3> QED BY <1>1, <3>1, <3>2
  <2>5. CompactInput(st, tables, task)[k] = part
    BY ONLY <1>1, <2>3, task.upper_level # 0, k \in Keys, InputFromLevel
  <2> HIDE DEF part, below
  <2>6. ReplacedBy(Concat(Contents(tables, output))[k], part, below)
    BY ONLY <2>4, <2>5, k \in Keys, OutputReplaces
  <2> QED BY <2>2, <2>6 DEF part, below
<1>9. LevelInstall(st, new, up, output, gone)
  <2> HIDE DEF new, gone
  <2> QED BY <1>1, <1>2, <1>6, <1>f DEF LevelInstall
<1>10. gone \subseteq st.sstables /\ Equivalent(st, new, tables) /\ LevelsFrom(st, new, output)
  <2> HIDE DEF new, gone, up
  <2> QED BY <1>0, <1>7, <1>8, <1>9, LevelInstalled
<1>11. LevelsShape(tables, new)
  <2> HIDE DEF new, nlv
  <2> QED BY <1>1, <1>4, <1>6 DEF LevelsShape
<1> HIDE DEF new, gone
<1>12. Exchanged(S, tables, st, new, output, gone)
  BY <1>6, <1>7, <1>10, <1>11 DEF Exchanged
<1> QED BY <1>12 DEF new, gone

-----------------------------------------------------------------------------
(* Tiers *)

(* No two tiers have the same id. *)
LEMMA TierIdsUnique ==
  ASSUME NEW S, NEW tables, NEW st, st \in StateOver(S), RefsApart(st),
         TiersShape(tables, st.levels)
  PROVE  \A i, j \in DOMAIN st.levels : st.levels[i].id = st.levels[j].id => i = j
<1> DEFINE lv == st.levels
<1>0. lv \in Seq(LevelOver(S)) /\ Len(lv) \in Nat /\ DOMAIN lv = 1 .. Len(lv)
  BY DEF StateOver
<1>1. ASSUME NEW i \in DOMAIN lv, lv[i].id # 0
      PROVE  1 \in DOMAIN lv[i].ssts /\ lv[i].id = lv[i].ssts[1]
  <2>1. lv[i].ssts \in Seq(S)
    <3>1. lv[i] \in LevelOver(S)
      BY <1>0
    <3> QED BY <3>1 DEF LevelOver
  <2>2. lv[i].ssts # <<>> /\ lv[i].id = lv[i].ssts[1]
    BY <1>1 DEF TiersShape
  <2> HIDE DEF lv
  <2> QED BY <2>1, <2>2
<1>2. ASSUME NEW i \in DOMAIN lv, NEW j \in DOMAIN lv, lv[i].id = lv[j].id PROVE i = j
  <2>1. CASE lv[i].id = 0
    <3>1. ~(i < Len(lv)) /\ ~(j < Len(lv))
      BY <1>2, <2>1 DEF TiersShape
    <3> QED BY <1>0, <3>1
  <2>2. CASE lv[i].id # 0
    <3>1. /\ 1 \in DOMAIN lv[i].ssts /\ 1 \in DOMAIN lv[j].ssts
          /\ lv[i].ssts[1] = lv[j].ssts[1]
      BY <1>1, <1>2, <2>2
    <3> QED BY <3>1 DEF RefsApart
  <2> QED BY <2>1, <2>2
<1> QED BY <1>2

(* The tiers that tier_to_remove finds are those of the task, each with    *)
(* the tables the task has for it.                                         *)
LEMMA TiersFound ==
  ASSUME NEW S, NEW st, NEW task, NEW m, st \in StateOver(S), TieredFits(S, st, task, m),
         \A i, j \in DOMAIN st.levels : st.levels[i].id = st.levels[j].id => i = j
  PROVE  /\ \A i \in DOMAIN st.levels : TierMatched(st, task, i) <=> i \in m + 1 .. m + Len(task.tiers)
         /\ \A i \in m + 1 .. m + Len(task.tiers) :
              TierFiles(task, st.levels[i].id) = st.levels[i].ssts
         /\ TierIds(task.tiers) \subseteq TierIds(st.levels)
<1> DEFINE lv == st.levels  n == Len(task.tiers)  ts == task.tiers
<1>0. /\ lv \in Seq(LevelOver(S)) /\ Len(lv) \in Nat /\ DOMAIN lv = 1 .. Len(lv)
      /\ m \in Nat /\ n \in Nat /\ DOMAIN ts = 1 .. n /\ m + n <= Len(lv)
  BY DEF StateOver, TieredFits
<1>1. \A i \in 1 .. n : m + i \in DOMAIN lv /\ ts[i] = lv[m + i]
  BY <1>0 DEF TieredFits
<1>2. \A i, j \in DOMAIN lv : lv[i].id = lv[j].id => i = j
  OBVIOUS
<1> HIDE DEF lv, n, ts
<1>3. ASSUME NEW i \in DOMAIN lv PROVE lv[i].id \in TierIds(ts) <=> i \in m + 1 .. m + n
  <2>1. ASSUME lv[i].id \in TierIds(ts) PROVE i \in m + 1 .. m + n
    <3>1. PICK j \in 1 .. n : lv[i].id = ts[j].id
      BY <1>0, <2>1 DEF TierIds
    <3>2. i = m + j
      BY <1>1, <1>2, <3>1
    <3> QED BY <1>0, <3>2
  <2>2. ASSUME i \in m + 1 .. m + n PROVE lv[i].id \in TierIds(ts)
    <3>1. i - m \in 1 .. n /\ m + (i - m) = i
      BY <1>0, <2>2
    <3>2. ts[i - m] = lv[i]
      BY <1>1, <3>1
    <3> QED BY <1>0, <3>1, <3>2 DEF TierIds
  <2> QED BY <2>1, <2>2
<1>4. ASSUME NEW i \in DOMAIN lv PROVE \A j \in 1 .. i - 1 : lv[j].id # lv[i].id
  <2>1. \A j \in 1 .. i - 1 : j \in DOMAIN lv /\ j # i
    BY <1>0
  <2> QED BY <1>2, <2>1
<1>5. ASSUME NEW i \in DOMAIN lv PROVE TierMatched(st, task, i) <=> i \in m + 1 .. m + n
  BY <1>3, <1>4 DEF TierMatched, lv, ts
<1>6. ASSUME NEW i \in m + 1 .. m + n PROVE TierFiles(task, lv[i].id) = lv[i].ssts
  <2>1. i - m \in 1 .. n /\ m + (i - m) = i /\ i \in DOMAIN lv
    BY <1>0
  <2>2. ts[i - m] = lv[i]
    BY <1>1, <2>1
  <2> DEFINE at == {j \in DOMAIN ts : ts[j].id = lv[i].id}
             last == CHOOSE a \in at : \A b \in at : b <= a
  <2>3. ASSUME NEW j \in at PROVE j = i - m
    <3>1. m + j \in DOMAIN lv /\ lv[m + j].id = lv[i].id /\ j \in Int
      BY <1>0, <1>1
    <3>2. m + j = i
      BY <1>2, <2>1, <3>1
    <3> QED BY <1>0, <3>1, <3>2
  <2>4. i - m \in at /\ i - m \in Int
    BY <1>0, <2>1, <2>2
  <2>5. \E a \in at : \A b \in at : b <= a
    <3> HIDE DEF at
    <3> QED BY <2>3, <2>4
  <2>6. last = i - m
    <3> HIDE DEF at
    <3>1. last \in at
      BY <2>5
    <3> QED BY <2>3, <3>1
  <2>7. TierFiles(task, lv[i].id) = ts[last].ssts
    BY DEF TierFiles, ts
  <2> HIDE DEF last
  <2> QED BY <2>2, <2>6, <2>7
<1>7. TierIds(ts) \subseteq TierIds(lv)
  BY <1>0, <1>1 DEF TierIds
<1> QED BY <1>5, <1>6, <1>7 DEF lv, n, ts

(* The n tiers after the first m, one tier in their place. *)
TiersWith(levels, m, n, tier) ==
  [j \in 1 .. Len(levels) + 1 - n |->
     IF j <= m THEN levels[j] ELSE IF j = m + 1 THEN tier ELSE levels[j + n - 1]]

(* The tiers after the task's are in their places, and the new one is      *)
(* where the last of the task's was.                                       *)
LEMMA TiersReplacedSegment ==
  ASSUME NEW S, NEW st, NEW task, NEW m, NEW new, st \in StateOver(S), TieredFits(S, st, task, m),
         \A i, j \in DOMAIN st.levels : st.levels[i].id = st.levels[j].id => i = j
  PROVE  TiersReplaced(st, task, new) = TiersWith(st.levels, m, Len(task.tiers), new)
<1> DEFINE lv == st.levels  n == Len(task.tiers)  l == m + n
           matched == {i \in DOMAIN lv : TierMatched(st, task, i)}
           found   == TierIds(task.tiers) \subseteq TierIds(lv)
           kept    == {i \in DOMAIN lv : i \in matched => found /\ \A j \in matched : j <= i}
           s == [i \in DOMAIN lv |-> IF i \in matched THEN new ELSE lv[i]]
<1>0. /\ lv \in Seq(LevelOver(S)) /\ Len(lv) \in Nat /\ DOMAIN lv = 1 .. Len(lv)
      /\ m \in Nat /\ n \in Nat /\ n # 0 /\ m + n <= Len(lv)
  BY DEF StateOver, TieredFits
<1>1. /\ \A i \in DOMAIN lv : TierMatched(st, task, i) <=> i \in m + 1 .. l
      /\ found
  BY TiersFound
<1>2. TiersReplaced(st, task, new) = Pick(s, kept)
  BY DEF TiersReplaced
<1> HIDE DEF lv, n, found
<1>3. matched = m + 1 .. l
  BY <1>0, <1>1
<1> HIDE DEF matched
<1>4. kept = Outside(Len(lv), m, l)
  <2>1. ASSUME NEW i \in 1 .. Len(lv)
        PROVE  (i \in matched => found /\ \A j \in matched : j <= i) <=> (i <= m \/ l <= i)
    <3>1. l \in matched
      BY <1>0, <1>3
    <3> QED BY <1>0, <1>1, <1>3, <3>1
  <2> QED BY <1>0, <2>1 DEF Outside
<1>5. m \in 0 .. Len(lv) /\ l \in m + 1 .. Len(lv) + 1
  BY <1>0
<1>6. /\ \A i \in 1 .. m : s[i] = lv[i]
      /\ s[l] = new
      /\ \A i \in l + 1 .. Len(lv) : s[i] = lv[i]
  BY <1>0, <1>3
<1> HIDE DEF l, s, kept
<1>7. Pick(s, kept) = CutOut(s, Len(lv), m, l)
  BY <1>0, <1>4, <1>5, PickSegment
<1>8. m + (Len(lv) + 1 - l) = Len(lv) + 1 - n
  BY <1>0 DEF l
<1>9. ASSUME NEW j \in 1 .. Len(lv) + 1 - n
      PROVE  (IF j <= m THEN s[j] ELSE s[j + (l - 1 - m)]) =
               IF j <= m THEN lv[j] ELSE IF j = m + 1 THEN new ELSE lv[j + n - 1]
  <2>1. CASE j <= m
    BY <1>0, <1>6, <2>1
  <2>2. CASE j = m + 1
    <3>1. ~(j <= m) /\ j + (l - 1 - m) = l
      BY <1>0, <2>2 DEF l
    <3> QED BY <1>6, <2>2, <3>1
  <2>3. CASE j > m + 1
    <3>1. ~(j <= m) /\ j # m + 1 /\ j + (l - 1 - m) = j + n - 1 /\ j + n - 1 \in l + 1 .. Len(lv)
      BY <1>0, <2>3 DEF l
    <3> QED BY <1>6, <3>1
  <2> QED BY <1>0, <2>1, <2>2, <2>3
<1> QED BY <1>2, <1>7, <1>8, <1>9 DEF CutOut, TiersWith, lv, n

(* A list in which some table holds the key answers with an entry. *)
LEMMA FirstHitSome ==
  ASSUME NEW ts, NEW k, NEW n \in Nat, DOMAIN ts = 1 .. n, \E i \in 1 .. n : ts[i][k] # Absent
  PROVE  FirstHit(ts, k) # Absent
<1>1. DOMAIN ts \in SUBSET Nat
  OBVIOUS
<1>2. CASE \A i \in DOMAIN ts : ts[i][k] = Absent
  BY <1>2
<1>3. CASE \E i \in DOMAIN ts : /\ ts[i][k] # Absent
                                /\ \A j \in DOMAIN ts : j < i => ts[j][k] = Absent
  <2>1. PICK i \in DOMAIN ts : /\ ts[i][k] # Absent
                               /\ \A j \in DOMAIN ts : j < i => ts[j][k] = Absent
    BY <1>3
  <2> QED BY <1>1, <2>1, FirstHitAt
<1> QED BY ONLY <1>1, <1>2, <1>3, FirstHitCases

(* The tiers of the task are exchanged for their merge. *)
LEMMA TieredExchanges ==
  ASSUME NEW S, NEW tables, NEW st, NEW task, NEW output, NEW m,
         S \subseteq Nat, Ready(S, tables, st, task, output), TieredFits(S, st, task, m)
  PROVE  Exchanged(S, tables, st, Installed(st, tables, task, output), output,
                   FilesToRemove(Added(st, output), task))
<1> DEFINE l0 == st.l0_sstables  lv == st.levels  n == Len(task.tiers)
           added == Added(st, output)  gone == FilesToRemove(added, task)
           new == Installed(st, tables, task, output)
           tier == [id |-> IF output = <<>> THEN 0 ELSE output[1], ssts |-> output]
           nlv == TiersReplaced(added, task, tier)
<1>0. /\ tables \in [S -> Table] /\ st \in StateOver(S) /\ output \in Seq(S)
      /\ RefsApart(st) /\ RefsOpen(st)
      /\ \A i \in DOMAIN output : output[i] \notin st.sstables /\ output[i] # 0
  BY DEF Ready
<1>a. /\ added \in StateOver(S) /\ added.memtable = st.memtable
      /\ added.imm_memtables = st.imm_memtables /\ added.l0_sstables = l0 /\ added.levels = lv
      /\ added.sstables = st.sstables \cup ToSet(output)
  BY <1>0, AddedType
<1>b. /\ task.type = "Tiered" /\ CompactionOptions.type = "Tiered"
      /\ task.bottom = (m + n = Len(lv)) /\ l0 \in Seq(S) /\ lv \in Seq(LevelOver(S))
  BY <1>0 DEF StateOver, TieredFits
<1>1. /\ Len(lv) \in Nat /\ DOMAIN lv = 1 .. Len(lv)
      /\ m \in Nat /\ n \in Nat /\ n >= 1 /\ m + n <= Len(lv)
  BY <1>0 DEF StateOver, TieredFits
<1>2. l0 = <<>> /\ TiersShape(tables, lv)
  BY <1>b DEF Ready, LevelsShape
<1>3. \A i, j \in DOMAIN lv : lv[i].id = lv[j].id => i = j
  BY <1>0, <1>2, TierIdsUnique
<1>4. TieredFits(S, added, task, m)
  <2> HIDE DEF added
  <2> QED BY <1>a DEF TieredFits
<1>5. /\ \A i \in DOMAIN lv : TierMatched(added, task, i) <=> i \in m + 1 .. m + n
      /\ \A i \in m + 1 .. m + n : TierFiles(task, lv[i].id) = lv[i].ssts
  <2> HIDE DEF added
  <2> QED BY <1>a, <1>3, <1>4, TiersFound
<1>6. nlv = TiersWith(lv, m, n, tier)
  <2> HIDE DEF added, tier
  <2> QED BY <1>a, <1>3, <1>4, TiersReplacedSegment
<1>7. tier \in LevelOver(S) /\ tier.ssts = output
      /\ tier.id = IF output = <<>> THEN 0 ELSE output[1]
  <2>1. output # <<>> => output[1] \in S /\ output[1] \in Nat
    <3>1. output \in Seq(S)
      BY <1>0
    <3>2. output # <<>> => output[1] \in S
      BY ONLY <3>1
    <3> QED BY <3>2
  <2> QED BY <1>0, <2>1 DEF LevelOver
<1> HIDE DEF tier
<1>8. /\ nlv \in Seq(LevelOver(S)) /\ Len(nlv) = Len(lv) + 1 - n
      /\ \A i \in 1 .. m : nlv[i] = lv[i]
      /\ nlv[m + 1] = tier
      /\ \A i \in m + 2 .. Len(lv) + 1 - n : nlv[i] = lv[i + n - 1]
  <2> DEFINE c == Len(lv) + 1 - n
  <2> HIDE DEF lv, n
  <2>1. c \in Nat /\ m + 1 \in 1 .. c /\ (\A i \in 1 .. m : i \in 1 .. c /\ i <= m)
        /\ ~(m + 1 <= m)
        /\ (\A i \in m + 2 .. c : i \in 1 .. c /\ ~(i <= m) /\ i # m + 1 /\ i + n - 1 \in DOMAIN lv)
    BY <1>1
  <2> HIDE DEF lv, n, nlv
  <2>2. nlv = [j \in 1 .. c |-> nlv[j]]
    BY <1>6 DEF TiersWith
  <2>3. /\ \A i \in 1 .. m : nlv[i] = lv[i]
        /\ nlv[m + 1] = tier
        /\ \A i \in m + 2 .. c : nlv[i] = lv[i + n - 1]
    BY <1>6, <2>1 DEF TiersWith
  <2>4. \A i \in 1 .. c : nlv[i] \in LevelOver(S)
    <3> SUFFICES ASSUME NEW i \in 1 .. c PROVE nlv[i] \in LevelOver(S)
      OBVIOUS
    <3>0. \A j \in DOMAIN lv : lv[j] \in LevelOver(S)
      BY <1>b
    <3>1. CASE i \in 1 .. m
      <4>1. i \in DOMAIN lv
        BY <1>1, <3>1
      <4> QED BY <2>3, <3>0, <3>1, <4>1
    <3>2. CASE i = m + 1
      BY <1>7, <2>3, <3>2
    <3>3. CASE i \in m + 2 .. c
      BY <2>1, <2>3, <3>0, <3>3
    <3> QED BY <1>1, <3>1, <3>2, <3>3
  <2>5. nlv \in Seq(LevelOver(S)) /\ Len(nlv) = c
    BY ONLY <2>1, <2>2, <2>4, FunctionIsSeq
  <2> QED BY <2>3, <2>5
<1> HIDE DEF nlv
<1>9. \A x : x \in gone <=>
        \E i \in m + 1 .. m + n : \E j \in DOMAIN lv[i].ssts : x = lv[i].ssts[j]
  <2> HIDE DEF added
  <2>1. gone = UNION {ToSet(TierFiles(task, lv[i].id)) :
                        i \in {j \in DOMAIN lv : TierMatched(added, task, j)}}
    BY <1>a, <1>b DEF FilesToRemove, TieredRemoved
  <2>2. \A i \in m + 1 .. m + n : i \in DOMAIN lv
    BY <1>1
  <2> HIDE DEF lv, n, gone
  <2>3. \A x : x \in gone <=> \E i \in m + 1 .. m + n : x \in ToSet(lv[i].ssts)
    BY <1>5, <2>1, <2>2
  <2> QED BY <2>3 DEF ToSet
<1>10. gone \subseteq st.sstables
  <2>1. \A i \in m + 1 .. m + n : i \in DOMAIN lv
    BY <1>1
  <2> HIDE DEF gone
  <2> QED BY <1>0, <1>9, <2>1 DEF RefsOpen
<1>11. /\ new.memtable = st.memtable /\ new.imm_memtables = st.imm_memtables
       /\ new.l0_sstables = l0 /\ new.levels = nlv
       /\ new.sstables = (st.sstables \ gone) \cup ToSet(output)
       /\ new = [memtable |-> new.memtable, imm_memtables |-> new.imm_memtables,
                 l0_sstables |-> new.l0_sstables, levels |-> new.levels, sstables |-> new.sstables]
  <2> HIDE DEF gone
  <2>1. new = [TieredApply(added, task, output) EXCEPT !.sstables = @ \ gone]
    BY <1>b DEF Installed, ApplyCompactionResult, gone
  <2> HIDE DEF added
  <2>2. TieredApply(added, task, output) = [added EXCEPT !.levels = nlv]
    BY DEF TieredApply, tier, nlv
  <2>3. (st.sstables \cup ToSet(output)) \ gone = (st.sstables \ gone) \cup ToSet(output)
    BY <1>0, <1>10, NewStays
  <2> HIDE DEF new
  <2> QED BY <1>a, <2>1, <2>2, <2>3 DEF StateOver
<1> HIDE DEF new, gone
<1>12. new \in StateOver(S)
  <2>1. st.sstables \subseteq S /\ st.memtable \in S /\ st.imm_memtables \in Seq(S)
    BY <1>0 DEF StateOver
  <2>2. \A i \in DOMAIN output : output[i] \in S
    BY <1>0
  <2>3. ToSet(output) \subseteq S
    BY <2>2 DEF ToSet
  <2> QED BY ONLY <1>b, <1>8, <1>11, <2>1, <2>3 DEF StateOver
<1>13. ASSUME NEW k \in Keys
       PROVE  CompactInput(st, tables, task)[k] = FirstHit(Segment(Runs(tables, lv), m, m + n), k)
  BY ONLY <1>0, TieredFits(S, st, task, m), k \in Keys, InputFromTiers
<1>14. ASSUME NEW k \in Keys
       PROVE  ReplacedBy(Concat(Contents(tables, output))[k],
                         FirstHit(Segment(Runs(tables, lv), m, m + n), k), Len(lv) - (m + n))
  <2> DEFINE part == FirstHit(Segment(Runs(tables, lv), m, m + n), k)
             below == Len(lv) - (m + n)
  <2>1. OutputHolds(tables, st, task, output)
    BY DEF Ready
  <2>2. CompactToBottomLevel(task) => m + n = Len(lv)
    BY ONLY <1>b DEF CompactToBottomLevel
  <2>3. CompactToBottomLevel(task) => below = 0
    BY <1>1, <2>2
  <2>4. CompactInput(st, tables, task)[k] = part
    BY <1>13
  <2> HIDE DEF part, below
  <2>5. ReplacedBy(Concat(Contents(tables, output))[k], part, below)
    BY ONLY <2>1, <2>3, <2>4, k \in Keys, OutputReplaces
  <2> QED BY <2>5 DEF part, below
<1>15. TiersInstall(st, new, m, n, tier, gone)
  <2>1. m \in Nat /\ n \in Nat \ {0} /\ m + n <= Len(lv)
    BY ONLY <1>1
  <2> HIDE DEF n
  <2> QED BY <1>0, <1>7, <1>8, <1>9, <1>11, <2>1 DEF TiersInstall
<1>16. Equivalent(st, new, tables) /\ LevelsFrom(st, new, output)
  <2>1. ASSUME NEW k \in Keys
        PROVE  ReplacedBy(Concat(Contents(tables, tier.ssts))[k],
                         FirstHit(Segment(Runs(tables, st.levels), m, m + n), k),
                         Len(st.levels) - (m + n))
    BY <1>7, <1>14
  <2> HIDE DEF n
  <2> QED BY <1>0, <1>7, <1>12, <1>15, <2>1, TiersInstalled
<1>17. ASSUME m + n < Len(lv) PROVE HoldsKey(tables, output) /\ output # <<>>
  <2>1. m + 1 \in DOMAIN lv /\ m + 1 < Len(lv)
    BY <1>1, <1>17
  <2>2. PICK k \in Keys : Concat(Contents(tables, lv[m + 1].ssts))[k] # Absent
    BY <1>2, <2>1 DEF TiersShape, HoldsKey
  <2> DEFINE seg == Segment(Runs(tables, lv), m, m + n)
  <2>3. n \in Nat /\ DOMAIN seg = 1 .. n /\ 1 \in 1 .. n /\ seg[1][k] # Absent
    <3>1. (m + n) - m = n /\ 1 \in 1 .. n /\ n \in Nat
      BY <1>1
    <3>2. Runs(tables, lv)[m + 1] = Concat(Contents(tables, lv[m + 1].ssts))
      BY <2>1 DEF Runs
    <3>3. DOMAIN seg = 1 .. n /\ seg[1] = Runs(tables, lv)[m + 1]
      <4> HIDE DEF n
      <4> QED BY ONLY <3>1 DEF Segment
    <3> HIDE DEF seg
    <3> QED BY <2>2, <3>1, <3>2, <3>3
  <2> HIDE DEF seg
  <2>4. FirstHit(seg, k) # Absent
    BY <2>3, FirstHitSome
  <2>5. ~CompactToBottomLevel(task)
    <3>1. m + n # Len(lv)
      BY <1>1, <1>17
    <3> QED BY ONLY <1>b, <3>1 DEF CompactToBottomLevel
  <2>6. Concat(Contents(tables, output))[k] = FirstHit(seg, k)
    BY <1>13, <2>5 DEF Ready, OutputHolds, seg
  <2>7. HoldsKey(tables, output)
    BY <2>4, <2>6 DEF HoldsKey
  <2>8. output # <<>>
    <3> SUFFICES ASSUME output = <<>> PROVE Concat(Contents(tables, output))[k] = Absent
      BY <2>4, <2>6
    <3>1. DOMAIN Contents(tables, output) = {}
      BY DEF Contents
    <3>2. LastHit(Contents(tables, output), k) = Absent
      BY <3>1 DEF LastHit
    <3> QED BY <3>2 DEF Concat
  <2> QED BY <2>7, <2>8
<1>18. TiersShape(tables, nlv)
  <2> HIDE DEF n
  <2>0. DOMAIN nlv = 1 .. Len(lv) + 1 - n
    BY <1>8
  <2>1. ASSUME NEW i \in DOMAIN nlv, i # m + 1
        PROVE  \E j \in DOMAIN lv : nlv[i] = lv[j] /\ (i < Len(nlv) => j < Len(lv))
    <3>1. CASE i \in 1 .. m
      <4>1. i \in DOMAIN lv /\ nlv[i] = lv[i] /\ i < Len(lv)
        BY <1>1, <1>8, <3>1
      <4> QED BY <4>1
    <3>2. CASE i \in m + 2 .. Len(lv) + 1 - n
      <4>1. nlv[i] = lv[i + n - 1]
        BY <1>8, <3>2
      <4>2. Len(nlv) = Len(lv) + 1 - n
        BY <1>8
      <4>3. i + n - 1 \in DOMAIN lv /\ (i < Len(nlv) => i + n - 1 < Len(lv))
        BY ONLY <1>1, <3>2, <4>2
      <4> QED BY <4>1, <4>3
    <3> QED BY <1>1, <2>0, <2>1, <3>1, <3>2
  <2>2. /\ nlv[m + 1].id = IF nlv[m + 1].ssts = <<>> THEN 0 ELSE nlv[m + 1].ssts[1]
        /\ m + 1 < Len(nlv) => nlv[m + 1].id # 0 /\ HoldsKey(tables, nlv[m + 1].ssts)
    <3>1. nlv[m + 1].ssts = output /\ nlv[m + 1].id = IF output = <<>> THEN 0 ELSE output[1]
      BY <1>7, <1>8
    <3>2. m + 1 < Len(nlv) => m + n < Len(lv)
      BY <1>1, <1>8
    <3>3. output # <<>> => output[1] # 0
      BY <1>0
    <3> QED BY <1>17, <3>1, <3>2, <3>3
  <2>3. ASSUME NEW i \in DOMAIN nlv
        PROVE  /\ nlv[i].id = IF nlv[i].ssts = <<>> THEN 0 ELSE nlv[i].ssts[1]
               /\ i < Len(nlv) => nlv[i].id # 0 /\ HoldsKey(tables, nlv[i].ssts)
    <3>1. CASE i = m + 1
      BY <2>2, <3>1
    <3>2. CASE i # m + 1
      <4>1. PICK j \in DOMAIN lv : nlv[i] = lv[j] /\ (i < Len(nlv) => j < Len(lv))
        BY <2>1, <3>2
      <4> QED BY <1>2, <4>1 DEF TiersShape
    <3> QED BY <3>1, <3>2
  <2> QED BY <2>3 DEF TiersShape
<1>19. LevelsShape(tables, new)
  BY <1>b, <1>2, <1>11, <1>18 DEF LevelsShape
<1>20. Exchanged(S, tables, st, new, output, gone)
  BY <1>10, <1>11, <1>12, <1>16, <1>19 DEF Exchanged
<1> QED BY <1>20 DEF new, gone

(* The result of a task that fits may be applied. *)
LEMMA FitsExchanges ==
  ASSUME NEW S, NEW tables, NEW st, NEW task, NEW output,
         S \subseteq Nat, Ready(S, tables, st, task, output), TaskFits(S, st, task)
  PROVE  Exchanged(S, tables, st, Installed(st, tables, task, output), output,
                   FilesToRemove(Added(st, output), task))
<1>1. CASE ForceFullFits(S, st, task)
  BY <1>1, ForceFullExchanges
<1>2. CASE SimpleFits(S, st, task)
  BY <1>2, SimpleL0Exchanges, SimpleLevelExchanges
<1>3. CASE \E m \in 0 .. Len(st.levels) : TieredFits(S, st, task, m)
  BY <1>3, TieredExchanges
<1> QED BY <1>1, <1>2, <1>3 DEF TaskFits

(* The assertions of apply_compaction_result hold for a task that fits. *)
LEMMA FitsAssert ==
  ASSUME NEW S, NEW tables, NEW st, NEW task, st \in StateOver(S), RefsApart(st),
         LevelsShape(tables, st), TaskFits(S, st, task)
  PROVE  ApplyAssert(st, task)
<1>1. CASE ForceFullFits(S, st, task)
  BY <1>1 DEF ForceFullFits, ApplyAssert
<1>2. CASE SimpleFits(S, st, task)
  <2> DEFINE l0 == st.l0_sstables  u == task.upper_level_sst_ids
  <2>1. ASSUME task.upper_level = 0 PROVE ToSet(u) \subseteq ToSet(l0)
    <3>1. Oldest(u, l0) /\ u \in Seq(S) /\ l0 \in Seq(S)
      BY <1>2, <2>1 DEF SimpleFits, StateOver
    <3> HIDE DEF u, l0
    <3>2. DOMAIN u = 1 .. Len(u) /\ DOMAIN l0 = 1 .. Len(l0) /\ Len(u) \in Nat /\ Len(l0) \in Nat
      BY <3>1
    <3>3. \A i \in 1 .. Len(u) : Len(l0) - Len(u) + i \in DOMAIN l0 /\ u[i] = l0[Len(l0) - Len(u) + i]
      BY <3>1, <3>2 DEF Oldest
    <3> QED BY <3>2, <3>3 DEF ToSet
  <2>2. task.type = "Simple"
    BY <1>2 DEF SimpleFits
  <2>3. SimpleAssert(st, task)
    BY <1>2, <2>1 DEF SimpleFits, SimpleAssert
  <2> QED BY <2>2, <2>3 DEF ApplyAssert
<1>3. ASSUME NEW m \in 0 .. Len(st.levels), TieredFits(S, st, task, m) PROVE ApplyAssert(st, task)
  <2>1. task.type = "Tiered" /\ CompactionOptions.type = "Tiered"
    BY <1>3 DEF TieredFits
  <2>2. st.l0_sstables = <<>> /\ TiersShape(tables, st.levels)
    BY <2>1 DEF LevelsShape
  <2>3. \A i, j \in DOMAIN st.levels : st.levels[i].id = st.levels[j].id => i = j
    BY <2>2, TierIdsUnique
  <2>4. /\ \A i \in DOMAIN st.levels : TierMatched(st, task, i) <=> i \in m + 1 .. m + Len(task.tiers)
        /\ \A i \in m + 1 .. m + Len(task.tiers) :
             TierFiles(task, st.levels[i].id) = st.levels[i].ssts
        /\ TierIds(task.tiers) \subseteq TierIds(st.levels)
    BY <1>3, <2>3, TiersFound
  <2>5. TieredAssert(st, task)
    BY <2>2, <2>4 DEF TieredAssert
  <2> QED BY <2>1, <2>5 DEF ApplyAssert
<1> QED BY <1>1, <1>2, <1>3 DEF TaskFits

-----------------------------------------------------------------------------
(* Flushes between the generation of a task and its application *)

(* A flush has put a table before the others. *)
Flushed(st, st2, id) ==
  /\ st2.sstables = st.sstables \cup {id}
  /\ IF FlushToL0 THEN st2.l0_sstables = <<id>> \o st.l0_sstables /\ st2.levels = st.levels
     ELSE /\ st2.l0_sstables = st.l0_sstables
          /\ st2.levels = <<[id |-> id, ssts |-> <<id>>]>> \o st.levels

(* A list with one more element in front. *)
LEMMA ConsShape ==
  ASSUME NEW S, NEW x, NEW s, x \in S, s \in Seq(S)
  PROVE  /\ Len(<<x>> \o s) = Len(s) + 1 /\ DOMAIN (<<x>> \o s) = 1 .. Len(s) + 1
         /\ (<<x>> \o s)[1] = x
         /\ \A i \in 1 .. Len(s) : (<<x>> \o s)[i + 1] = s[i]
         /\ \A i \in 1 .. Len(s) + 1 : i # 1 => i - 1 \in 1 .. Len(s) /\ (<<x>> \o s)[i] = s[i - 1]
OBVIOUS

(* The end of a list is still its end. *)
LEMMA OldestCons ==
  ASSUME NEW S, NEW x, NEW s, NEW u, x \in S, s \in Seq(S), u \in Seq(S), Oldest(u, s)
  PROVE  Oldest(u, <<x>> \o s)
<1> DEFINE c == <<x>> \o s
<1>1. Len(c) = Len(s) + 1 /\ \A i \in 1 .. Len(s) : c[i + 1] = s[i]
  BY ConsShape
<1>2. Len(u) \in Nat /\ Len(s) \in Nat /\ Len(u) <= Len(s)
      /\ \A i \in 1 .. Len(u) : u[i] = s[Len(s) - Len(u) + i]
  BY DEF Oldest
<1> HIDE DEF c
<1>3. ASSUME NEW i \in 1 .. Len(u) PROVE u[i] = c[Len(c) - Len(u) + i]
  <2>1. /\ Len(s) - Len(u) + i \in 1 .. Len(s)
        /\ Len(c) - Len(u) + i = (Len(s) - Len(u) + i) + 1
    BY <1>1, <1>2
  <2>2. c[(Len(s) - Len(u) + i) + 1] = s[Len(s) - Len(u) + i]
    BY <1>1, <2>1
  <2> QED BY <1>2, <2>1, <2>2
<1>4. Oldest(u, c)
  BY <1>1, <1>2, <1>3 DEF Oldest
<1> QED BY <1>4 DEF c

(* A task still fits after a flush: tables are put before those it names. *)
LEMMA FitsFlushed ==
  ASSUME NEW S, NEW st, NEW st2, NEW id, NEW task, S \subseteq Nat, st \in StateOver(S), id \in S,
         Flushed(st, st2, id), TaskFits(S, st, task)
  PROVE  TaskFits(S, st2, task)
<1>0. st.l0_sstables \in Seq(S) /\ st.levels \in Seq(LevelOver(S))
  BY DEF StateOver
<1>1. CASE ForceFullFits(S, st, task)
  <2>1. st2.l0_sstables = <<id>> \o st.l0_sstables /\ st2.levels = st.levels
    BY <1>1 DEF ForceFullFits, FlushToL0, Flushed
  <2>2. Oldest(task.l0_sstables, st2.l0_sstables)
    BY <1>0, <1>1, <2>1, OldestCons DEF ForceFullFits
  <2> QED BY <1>1, <2>1, <2>2 DEF ForceFullFits, TaskFits
<1>2. CASE SimpleFits(S, st, task)
  <2>1. st2.l0_sstables = <<id>> \o st.l0_sstables /\ st2.levels = st.levels
    BY <1>2 DEF SimpleFits, FlushToL0, Flushed
  <2>2. task.upper_level = 0 => Oldest(task.upper_level_sst_ids, st2.l0_sstables)
    BY <1>0, <1>2, <2>1, OldestCons DEF SimpleFits
  <2> QED BY <1>2, <2>1, <2>2 DEF SimpleFits, TaskFits
<1>3. ASSUME NEW m \in 0 .. Len(st.levels), TieredFits(S, st, task, m) PROVE TaskFits(S, st2, task)
  <2> DEFINE x == [id |-> id, ssts |-> <<id>>]  n == Len(task.tiers)
  <2>1. st2.levels = <<x>> \o st.levels
    BY <1>3 DEF TieredFits, FlushToL0, Flushed
  <2>2. x \in LevelOver(S)
    BY DEF LevelOver
  <2> HIDE DEF x
  <2>3. Len(st2.levels) = Len(st.levels) + 1
    BY <1>0, <2>1, <2>2, ConsShape
  <2>3a. \A i \in 1 .. Len(st.levels) : st2.levels[i + 1] = st.levels[i]
    BY <1>0, <2>1, <2>2, ConsShape
  <2>4. Len(st.levels) \in Nat /\ m \in Nat /\ n \in Nat /\ m + n <= Len(st.levels)
    BY <1>0, <1>3 DEF TieredFits
  <2>4a. \A i \in 1 .. n : task.tiers[i] = st.levels[m + i]
    BY <1>3 DEF TieredFits
  <2>b. task.bottom = (m + n = Len(st.levels))
    BY <1>3 DEF TieredFits
  <2> HIDE DEF n
  <2>5. ASSUME NEW i \in 1 .. n PROVE task.tiers[i] = st2.levels[(m + 1) + i]
    <3>1. m + i \in 1 .. Len(st.levels) /\ (m + 1) + i = (m + i) + 1
      BY ONLY <2>4, i \in 1 .. n
    <3> QED BY <2>3a, <2>4a, <3>1
  <2>6a. m + n = Len(st.levels) <=> (m + 1) + n = Len(st2.levels)
    BY ONLY <2>3, <2>4
  <2>6. task.bottom = ((m + 1) + n = Len(st2.levels))
    <3>1. CASE m + n = Len(st.levels)
      BY <2>b, <2>6a, <3>1, Zenon
    <3>2. CASE m + n # Len(st.levels)
      BY <2>b, <2>6a, <3>2, Zenon
    <3> QED BY <3>1, <3>2
  <2>7. m + 1 \in Nat /\ (m + 1) + n <= Len(st2.levels) /\ m + 1 \in 0 .. Len(st2.levels)
    BY ONLY <2>3, <2>4
  <2>8. TieredFits(S, st2, task, m + 1)
    BY <1>3, <2>5, <2>6, <2>7 DEF TieredFits, n
  <2> QED BY <2>7, <2>8 DEF TaskFits
<1> QED BY <1>1, <1>2, <1>3 DEF TaskFits

(* A flush adds a table that no list has. *)
LEMMA ApartFlushed ==
  ASSUME NEW S, NEW st, NEW st2, NEW id, st \in StateOver(S), id \in S, S \subseteq Nat,
         id \notin st.sstables, Flushed(st, st2, id), RefsApart(st), RefsOpen(st)
  PROVE  RefsApart(st2) /\ RefsOpen(st2)
<1> DEFINE l0 == st.l0_sstables  lv == st.levels  x == [id |-> id, ssts |-> <<id>>]
<1>0. l0 \in Seq(S) /\ lv \in Seq(LevelOver(S)) /\ x \in LevelOver(S)
  BY DEF StateOver, LevelOver
<1>1. /\ DOMAIN l0 = 1 .. Len(l0) /\ DOMAIN lv = 1 .. Len(lv)
      /\ x.ssts[1] = id /\ DOMAIN x.ssts = {1}
  BY <1>0
<1>2. /\ \A i \in DOMAIN l0 : l0[i] # id
      /\ \A l \in DOMAIN lv : \A i \in DOMAIN lv[l].ssts : lv[l].ssts[i] # id
  BY DEF RefsOpen
<1>3. /\ \A i \in DOMAIN l0 : l0[i] \in st2.sstables
      /\ \A l \in DOMAIN lv : \A i \in DOMAIN lv[l].ssts : lv[l].ssts[i] \in st2.sstables
      /\ id \in st2.sstables
  BY DEF RefsOpen, Flushed
<1>4. CASE FlushToL0
  <2> DEFINE c == <<id>> \o l0
  <2>1. st2.l0_sstables = c /\ st2.levels = lv
    BY <1>4 DEF Flushed
  <2>2. /\ DOMAIN c = 1 .. Len(l0) + 1 /\ c[1] = id
        /\ \A i \in 1 .. Len(l0) + 1 : i # 1 => i - 1 \in 1 .. Len(l0) /\ c[i] = l0[i - 1]
    BY <1>0, ConsShape
  <2> HIDE DEF c, l0, lv, x
  <2>3. \A i \in DOMAIN c : i = 1 \/ (i - 1 \in DOMAIN l0 /\ c[i] = l0[i - 1])
    BY <1>1, <2>2
  <2>4. ASSUME NEW i \in DOMAIN c, NEW j \in DOMAIN c, c[i] = c[j] PROVE i = j
    <3>1. CASE i = 1 \/ j = 1
      BY <1>2, <2>2, <2>3, <2>4, <3>1
    <3>2. CASE i # 1 /\ j # 1
      <4>1. i - 1 \in DOMAIN l0 /\ j - 1 \in DOMAIN l0 /\ l0[i - 1] = l0[j - 1]
        BY <2>3, <2>4, <3>2
      <4>2. i - 1 = j - 1
        BY <4>1 DEF RefsApart, l0
      <4>3. i \in Int /\ j \in Int
        BY <2>2, <2>4
      <4> QED BY ONLY <4>2, <4>3
    <3> QED BY <3>1, <3>2
  <2>5. \A i \in DOMAIN c : \A l \in DOMAIN lv : \A j \in DOMAIN lv[l].ssts : c[i] # lv[l].ssts[j]
    BY <1>2, <2>2, <2>3 DEF RefsApart, l0, lv
  <2>6. \A i \in DOMAIN c : c[i] \in st2.sstables
    BY <1>3, <2>2, <2>3
  <2>7. \A l, m \in DOMAIN lv : \A i \in DOMAIN lv[l].ssts : \A j \in DOMAIN lv[m].ssts :
          lv[l].ssts[i] = lv[m].ssts[j] => l = m
    BY DEF RefsApart, lv
  <2> QED BY <1>3, <2>1, <2>4, <2>5, <2>6, <2>7 DEF RefsApart, RefsOpen
<1>5. CASE ~FlushToL0
  <2> DEFINE c == <<x>> \o lv
  <2>1. st2.l0_sstables = l0 /\ st2.levels = c
    BY <1>5 DEF Flushed
  <2>2. /\ DOMAIN c = 1 .. Len(lv) + 1 /\ c[1] = x
        /\ \A i \in 1 .. Len(lv) + 1 : i # 1 => i - 1 \in 1 .. Len(lv) /\ c[i] = lv[i - 1]
    BY <1>0, ConsShape
  <2> HIDE DEF c, l0, lv, x
  <2>3. \A l \in DOMAIN c : l # 1 => (l - 1 \in DOMAIN lv /\ c[l] = lv[l - 1])
    BY <1>1, <2>2
  <2>4. ASSUME NEW l \in DOMAIN c, NEW m \in DOMAIN c, NEW i \in DOMAIN c[l].ssts,
               NEW j \in DOMAIN c[m].ssts, c[l].ssts[i] = c[m].ssts[j] PROVE l = m
    <3>1. CASE l = 1 /\ m # 1
      BY <1>1, <1>2, <2>2, <2>3, <2>4, <3>1
    <3>2. CASE l # 1 /\ m = 1
      BY <1>1, <1>2, <2>2, <2>3, <2>4, <3>2
    <3>3. CASE l # 1 /\ m # 1
      <4>1. /\ l - 1 \in DOMAIN lv /\ m - 1 \in DOMAIN lv
            /\ i \in DOMAIN lv[l - 1].ssts /\ j \in DOMAIN lv[m - 1].ssts
            /\ lv[l - 1].ssts[i] = lv[m - 1].ssts[j]
        BY <2>3, <2>4, <3>3
      <4>2. l - 1 = m - 1
        BY <4>1 DEF RefsApart, lv
      <4>3. l \in Int /\ m \in Int
        BY <2>2, <2>4
      <4> QED BY ONLY <4>2, <4>3
    <3> QED BY <3>1, <3>2, <3>3
  <2>5. \A i \in DOMAIN l0 : \A l \in DOMAIN c : \A j \in DOMAIN c[l].ssts : l0[i] # c[l].ssts[j]
    BY <1>1, <1>2, <2>2, <2>3 DEF RefsApart, l0, lv
  <2>6. \A l \in DOMAIN c : \A j \in DOMAIN c[l].ssts : c[l].ssts[j] \in st2.sstables
    BY <1>1, <1>3, <2>2, <2>3
  <2>7. \A i, j \in DOMAIN l0 : l0[i] = l0[j] => i = j
    BY DEF RefsApart, l0
  <2> QED BY <1>3, <2>1, <2>4, <2>5, <2>6, <2>7 DEF RefsApart, RefsOpen
<1> QED BY <1>4, <1>5

(* A tier of one table. *)
LEMMA HoldsSingle ==
  ASSUME NEW S, NEW tables, NEW id, tables \in [S -> Table], id \in S, tables[id] # EmptyTable
  PROVE  HoldsKey(tables, <<id>>)
<1> DEFINE c == Contents(tables, <<id>>)
<1>1. tables[id] \in Table
  OBVIOUS
<1>2. PICK k \in Keys : tables[id][k] # Absent
  BY <1>1 DEF Table, EmptyTable
<1>3. DOMAIN c = {1} /\ c[1] = tables[id]
  BY DEF Contents
<1> HIDE DEF c
<1>4. LastHit(c, k) = tables[id][k]
  BY <1>3, LastHitSingle
<1>5. Concat(c)[k] # Absent
  BY <1>2, <1>4 DEF Concat
<1> QED BY <1>5 DEF HoldsKey, c

(* A flush keeps the levels in shape, provided that MemTable 0 is flushed  *)
(* first.                                                                  *)
LEMMA ShapeFlushed ==
  ASSUME NEW S, NEW tables, NEW st, NEW st2, NEW id,
         tables \in [S -> Table], st \in StateOver(S), id \in S, S \subseteq Nat,
         tables[id] # EmptyTable, Flushed(st, st2, id), LevelsShape(tables, st),
         CompactionOptions.type = "Tiered" => id # 0 \/ st.levels = <<>>
  PROVE  LevelsShape(tables, st2)
<1> DEFINE lv == st.levels  x == [id |-> id, ssts |-> <<id>>]
<1>0. lv \in Seq(LevelOver(S)) /\ x \in LevelOver(S)
  BY DEF StateOver, LevelOver
<1>1. CASE CompactionOptions.type = "Tiered"
  <2> DEFINE c == <<x>> \o lv
  <2>1. st2.l0_sstables = st.l0_sstables /\ st2.levels = c
    BY <1>1 DEF Flushed, FlushToL0
  <2>2. /\ DOMAIN c = 1 .. Len(lv) + 1 /\ Len(c) = Len(lv) + 1 /\ c[1] = x /\ Len(lv) \in Nat
        /\ DOMAIN lv = 1 .. Len(lv)
        /\ \A i \in 1 .. Len(lv) + 1 : i # 1 => i - 1 \in 1 .. Len(lv) /\ c[i] = lv[i - 1]
    BY <1>0, ConsShape
  <2>3. x.id = id /\ x.ssts = <<id>> /\ x.ssts # <<>> /\ x.ssts[1] = id
    OBVIOUS
  <2>4. lv = <<>> => Len(lv) = 0
    OBVIOUS
  <2>5. HoldsKey(tables, x.ssts)
    BY <2>3, HoldsSingle
  <2>6. TiersShape(tables, lv) /\ st.l0_sstables = <<>>
    BY <1>1 DEF LevelsShape
  <2>6a. id # 0 \/ lv = <<>>
    BY <1>1
  <2> HIDE DEF c, lv, x
  <2>7. ASSUME NEW i \in DOMAIN c
        PROVE  c[i].id = IF c[i].ssts = <<>> THEN 0 ELSE c[i].ssts[1]
    <3>1. CASE i = 1
      BY <2>2, <2>3, <3>1
    <3>2. CASE i # 1
      <4>1. i - 1 \in DOMAIN lv /\ c[i] = lv[i - 1]
        BY <2>2, <2>7, <3>2
      <4> QED BY <2>6, <4>1 DEF TiersShape
    <3> QED BY <3>1, <3>2
  <2>8. ASSUME NEW i \in DOMAIN c, i < Len(c) PROVE c[i].id # 0 /\ HoldsKey(tables, c[i].ssts)
    <3>1. CASE i = 1
      <4>1. Len(lv) # 0
        BY ONLY <2>2, <2>8, <3>1
      <4>2. id # 0
        BY <4>1, <2>4, <2>6a
      <4> QED BY <2>2, <2>3, <2>5, <3>1, <4>2
    <3>2. CASE i # 1
      <4>1. i - 1 \in DOMAIN lv /\ c[i] = lv[i - 1] /\ i - 1 < Len(lv)
        BY <2>2, <2>8, <3>2
      <4> QED BY <2>6, <4>1 DEF TiersShape
    <3> QED BY <3>1, <3>2
  <2>9. TiersShape(tables, c)
    BY <2>7, <2>8 DEF TiersShape
  <2> QED BY <1>1, <2>1, <2>6, <2>9 DEF LevelsShape
<1>2. CASE CompactionOptions.type # "Tiered"
  <2>1. FlushToL0
    BY <1>2, OptionsAssumption DEF FlushToL0
  <2> QED BY <1>2, <2>1 DEF LevelsShape, Flushed
<1> QED BY <1>1, <1>2

(* The levels stay in shape while only tables change that they do not name. *)
LEMMA ShapeSame ==
  ASSUME NEW tables, NEW tables2, NEW st, RefsOpen(st), LevelsShape(tables, st),
         \A id \in st.sstables : tables2[id] = tables[id]
  PROVE  LevelsShape(tables2, st)
<1>1. ASSUME NEW l \in DOMAIN st.levels
      PROVE  Contents(tables2, st.levels[l].ssts) = Contents(tables, st.levels[l].ssts)
  BY <1>1 DEF RefsOpen, Contents
<1>2. ASSUME NEW l \in DOMAIN st.levels, HoldsKey(tables, st.levels[l].ssts)
      PROVE  HoldsKey(tables2, st.levels[l].ssts)
  BY <1>1, <1>2 DEF HoldsKey
<1>3. TiersShape(tables, st.levels) => TiersShape(tables2, st.levels)
  BY <1>2 DEF TiersShape
<1> QED BY <1>3 DEF LevelsShape

(* What a task read and what it wrote stays, while other tables come.      *)
LEMMA HoldsSame ==
  ASSUME NEW S, NEW tables, NEW tables2, NEW st, NEW st2, NEW task, NEW output,
         st \in StateOver(S), RefsOpen(st), TaskFits(S, st, task),
         OutputHolds(tables, st, task, output), st.sstables \subseteq st2.sstables,
         \A id \in st.sstables \cup ToSet(output) : tables2[id] = tables[id]
  PROVE  OutputHolds(tables2, st2, task, output)
<1>1. task.type \in {"ForceFull", "Simple", "Tiered"} /\ TaskIds(task) \subseteq st.sstables
  BY FitsOpen
<1>2. \A id \in TaskIds(task) : Handle(st2, tables2, id) = Handle(st, tables, id)
  BY <1>1 DEF Handle
<1>3. CompactInput(st2, tables2, task) = CompactInput(st, tables, task)
  BY <1>1, <1>2, InputSame
<1>4. Contents(tables2, output) = Contents(tables, output)
  <2>1. \A i \in DOMAIN output : tables2[output[i]] = tables[output[i]]
    BY DEF ToSet
  <2> QED BY <2>1 DEF Contents
<1> QED BY <1>3, <1>4 DEF OutputHolds

-----------------------------------------------------------------------------
(* Generation *)

(* A list is the end of itself. *)
LEMMA OldestSelf ==
  ASSUME NEW S, NEW s, s \in Seq(S)
  PROVE  Oldest(s, s)
BY DEF Oldest

(* What a typed state has in its levels. *)
LEMMA StateLevels ==
  ASSUME NEW S, NEW st, st \in StateOver(S)
  PROVE  /\ st.l0_sstables \in Seq(S) /\ st.levels \in Seq(LevelOver(S))
         /\ \A l \in 1 .. Len(st.levels) : st.levels[l] \in LevelOver(S) /\ st.levels[l].ssts \in Seq(S)
<1>1. st.l0_sstables \in Seq(S) /\ st.levels \in Seq(LevelOver(S))
  BY DEF StateOver
<1>2. \A l \in 1 .. Len(st.levels) : st.levels[l] \in LevelOver(S)
  BY <1>1
<1>3. \A v \in LevelOver(S) : v.ssts \in Seq(S)
  BY DEF LevelOver
<1> QED BY <1>1, <1>2, <1>3

(* The tables of a list of levels. *)
LEMMA LevelTables ==
  ASSUME NEW S, NEW lv, lv \in Seq(LevelOver(S))
  PROVE  Len(lv) \in Nat /\ DOMAIN lv = 1 .. Len(lv) /\ \A i \in 1 .. Len(lv) : lv[i].ssts \in Seq(S)
<1>1. Len(lv) \in Nat /\ DOMAIN lv = 1 .. Len(lv) /\ \A i \in 1 .. Len(lv) : lv[i] \in LevelOver(S)
  OBVIOUS
<1>2. \A v \in LevelOver(S) : v.ssts \in Seq(S)
  BY DEF LevelOver
<1> QED BY <1>1, <1>2

(* The task of force_full_compaction() *)
LEMMA ForceFullTaskFits ==
  ASSUME NEW S, NEW tables, NEW st, st \in StateOver(S), LevelsShape(tables, st),
         CompactionOptions.type = "NoCompaction"
  PROVE  TaskFits(S, st, ForceFullTask(st))
<1>0. st.levels \in Seq(LevelOver(S)) /\ st.l0_sstables \in Seq(S) /\ Len(st.levels) = 1
  BY StateLevels DEF LevelsShape
<1>01. Len(<<>>) = 0
  OBVIOUS
<1>1. Len(st.levels) = 1 /\ st.levels # <<>> /\ st.l0_sstables \in Seq(S)
  <2>1. st.levels # <<>>
    <3> SUFFICES ASSUME st.levels = <<>> PROVE FALSE
      OBVIOUS
    <3>1. Len(st.levels) = 0
      BY <1>01
    <3> QED BY ONLY <1>0, <3>1
  <2> QED BY <1>0, <2>1
<1>2. Oldest(st.l0_sstables, st.l0_sstables)
  BY <1>1, OldestSelf
<1>3. ForceFullFits(S, st, ForceFullTask(st))
  BY <1>1, <1>2 DEF ForceFullFits, ForceFullTask
<1> QED BY <1>3 DEF TaskFits

(* SimpleLeveledCompactionController::generate_compaction_task *)
LEMMA SimpleGenerateFits ==
  ASSUME NEW S, NEW tables, NEW st, st \in StateOver(S), LevelsShape(tables, st),
         CompactionOptions.type = "Simple", SimpleGenerate(st) # NoTask
  PROVE  TaskFits(S, st, SimpleGenerate(st))
<1> DEFINE low == {i \in 1 .. CompactionOptions.max_levels - 1 : SimpleRatioLow(st, i)}
           i   == CHOOSE l \in low : \A m \in low : l <= m
           lv  == st.levels
           task == SimpleGenerate(st)
<1>0. /\ Len(lv) = CompactionOptions.max_levels /\ Len(lv) \in Nat \ {0}
      /\ st.l0_sstables \in Seq(S) /\ lv \in Seq(LevelOver(S))
  BY OptionsAssumption DEF LevelsShape, StateOver
<1>1. CASE SimpleSize(st, 0) >= CompactionOptions.level0_trigger
  <2>1. task = LevelTask("Simple", 0, st.l0_sstables, 1, lv[1].ssts)
    BY <1>1 DEF SimpleGenerate
  <2>2. Oldest(st.l0_sstables, st.l0_sstables)
    BY <1>0, OldestSelf
  <2> HIDE DEF task, lv, low, i
  <2>3. SimpleFits(S, st, task)
    BY <1>0, <2>1, <2>2 DEF SimpleFits, LevelTask, lv
  <2> QED BY <2>3 DEF TaskFits, task
<1>2. CASE ~(SimpleSize(st, 0) >= CompactionOptions.level0_trigger)
  <2>1. low # {} /\ task = LevelTask("Simple", i, lv[i].ssts, i + 1, lv[i + 1].ssts)
    BY <1>2 DEF SimpleGenerate
  <2>2. low \in SUBSET Nat /\ low \subseteq 1 .. Len(lv) - 1
    BY <1>0
  <2> HIDE DEF low
  <2>3. \E l \in low : \A m \in low : l <= m
    BY <2>1, <2>2, LeastIndex
  <2>4. i \in low
    BY <2>3
  <2>5. i \in 1 .. Len(lv) - 1
    BY <2>2, <2>4
  <2> HIDE DEF task, i
  <2>6. /\ i \in 0 .. Len(lv) - 1 /\ i # 0 /\ i \in DOMAIN lv
    BY <1>0, <2>5
  <2>7. lv[i].ssts \in Seq(S)
    BY <1>0, <2>6, LevelTables
  <2> HIDE DEF lv
  <2>8. SimpleFits(S, st, task)
    BY <1>0, <2>1, <2>6, <2>7 DEF SimpleFits, LevelTask, lv
  <2> QED BY <2>8 DEF TaskFits, task
<1> QED BY <1>1, <1>2

(* The newest tiers as a task. *)
LEMMA NewestTiersFit ==
  ASSUME NEW S, NEW st, NEW n, NEW tiers, NEW bottom, st \in StateOver(S),
         CompactionOptions.type = "Tiered", n \in 1 .. Len(st.levels),
         tiers \in Seq(LevelOver(S)), Len(tiers) = n,
         \A i \in 1 .. n : tiers[i] = st.levels[i],
         bottom = (n = Len(st.levels))
  PROVE  TaskFits(S, st, TierTask(tiers, bottom))
<1> DEFINE task == TierTask(tiers, bottom)
<1>0. Len(st.levels) \in Nat
  BY DEF StateOver
<1>1. task.type = "Tiered" /\ task.tiers = tiers /\ task.bottom = bottom
  BY DEF TierTask
<1>2. 0 + n = n /\ n # 0 /\ n <= Len(st.levels) /\ 0 \in 0 .. Len(st.levels)
  BY <1>0
<1>3. \A i \in 1 .. n : 0 + i = i
  OBVIOUS
<1> HIDE DEF task
<1>4. TieredFits(S, st, task, 0)
  BY <1>1, <1>2, <1>3 DEF TieredFits
<1> QED BY <1>2, <1>4 DEF TaskFits, task

(* TieredCompactionController::generate_compaction_task, where the merge   *)
(* has no greatest width.                                                  *)
LEMMA TieredGenerateFits ==
  ASSUME NEW S, NEW st, st \in StateOver(S), CompactionOptions.type = "Tiered",
         CompactionOptions.max_merge_width = 0, TieredGenerate(st) # NoTask
  PROVE  TaskFits(S, st, TieredGenerate(st))
<1> DEFINE lv == st.levels  n == Len(lv)  task == TieredGenerate(st)
<1>0. lv \in Seq(LevelOver(S)) /\ n \in Nat
  BY DEF StateOver
<1>1. n \in 1 .. n /\
      \/ task = TierTask(lv, TRUE)
      \/ \E i \in 1 .. n - 1 : task = TierTask(SubSeq(lv, 1, i), FALSE)
      \/ task = TierTask(SubSeq(lv, 1, n), n >= n)
  <2> DEFINE o == CompactionOptions
             size(i) == Len(lv[i].ssts)
             above == TierSizes(st, n - 1)
             amplified ==
               IF size(n) = 0 THEN above > 0
               ELSE above * 100 >= o.max_size_amplification_percent * size(n)
             ratio(i) ==
               /\ IF TierSizes(st, i) = 0 THEN size(i + 1) > 0
                  ELSE size(i + 1) * 100 > (100 + o.size_ratio) * TierSizes(st, i)
               /\ i >= o.min_merge_width
             wide == {i \in 1 .. n - 1 : ratio(i)}
             take == IF o.max_merge_width # 0 /\ o.max_merge_width < n
                       THEN o.max_merge_width ELSE n
             least == CHOOSE i \in wide : \A j \in wide : i <= j
  <2>1. take = n
    OBVIOUS
  <2>2. task = IF n < o.num_tiers THEN NoTask
               ELSE IF amplified THEN TierTask(lv, TRUE)
               ELSE IF wide # {} THEN TierTask(SubSeq(lv, 1, least), FALSE)
               ELSE TierTask(SubSeq(lv, 1, take), n >= take)
    BY DEF TieredGenerate
  <2>3. wide \in SUBSET Nat /\ wide \subseteq 1 .. n - 1
    BY <1>0
  <2> HIDE DEF wide, amplified
  <2>4. wide # {} => \E i \in wide : \A j \in wide : i <= j
    BY <2>3, LeastIndex
  <2>5. wide # {} => least \in 1 .. n - 1
    BY <2>3, <2>4
  <2> HIDE DEF least, take, task, lv, n
  <2>6. ~(n < o.num_tiers)
    BY <2>2 DEF task
  <2>7. o.num_tiers \in Nat \ {0}
    BY OptionsAssumption
  <2>8. n \in 1 .. n
    BY ONLY <1>0, <2>6, <2>7
  <2> QED BY <2>1, <2>2, <2>5, <2>6, <2>8
<1> HIDE DEF task
<1>2. CASE task = TierTask(lv, TRUE)
  <2>1. TaskFits(S, st, TierTask(lv, TRUE))
    BY <1>0, <1>1, NewestTiersFit
  <2> QED BY <1>2, <2>1 DEF task
<1>3. ASSUME NEW i \in 1 .. n - 1, task = TierTask(SubSeq(lv, 1, i), FALSE)
      PROVE  TaskFits(S, st, task)
  <2> DEFINE s == SubSeq(lv, 1, i)
  <2>1. i \in 1 .. n /\ i # n
    BY <1>0
  <2>2. s \in Seq(LevelOver(S)) /\ Len(s) = i /\ \A j \in 1 .. i : s[j] = lv[j]
    BY <1>0, <2>1
  <2> HIDE DEF s
  <2>3. TaskFits(S, st, TierTask(s, FALSE))
    BY <2>1, <2>2, NewestTiersFit
  <2> QED BY <1>3, <2>3 DEF s
<1>4. CASE task = TierTask(SubSeq(lv, 1, n), n >= n)
  <2> DEFINE s == SubSeq(lv, 1, n)
  <2>2. s \in Seq(LevelOver(S)) /\ Len(s) = n /\ \A j \in 1 .. n : s[j] = lv[j]
    BY <1>0, <1>1
  <2>3. (n >= n) = TRUE
    BY <1>0
  <2> HIDE DEF s
  <2>4. TaskFits(S, st, TierTask(s, TRUE))
    BY <1>1, <2>2, NewestTiersFit
  <2>5. task = TierTask(s, n >= n)
    BY <1>4 DEF s
  <2>6. task = TierTask(s, TRUE)
    BY <2>3, <2>5, Zenon
  <2> QED BY <2>4, <2>6 DEF task
<1> QED BY <1>1, <1>2, <1>3, <1>4 DEF task

(* Every task that trigger_compaction() gets fits the state it is made of. *)
LEMMA GenerateFits ==
  ASSUME NEW S, NEW tables, NEW st, st \in StateOver(S), LevelsShape(tables, st),
         StrategyAssumed, GenerateCompactionTask(st, tables) # NoTask
  PROVE  TaskFits(S, st, GenerateCompactionTask(st, tables))
<1>1. CASE CompactionOptions.type = "Simple"
  <2>1. GenerateCompactionTask(st, tables) = SimpleGenerate(st)
    BY <1>1 DEF GenerateCompactionTask
  <2> QED BY <1>1, <2>1, SimpleGenerateFits
<1>2. CASE CompactionOptions.type = "Tiered"
  <2>1. GenerateCompactionTask(st, tables) = TieredGenerate(st)
    BY <1>2 DEF GenerateCompactionTask
  <2> QED BY <1>2, <2>1, TieredGenerateFits DEF StrategyAssumed
<1>3. CASE CompactionOptions.type = "NoCompaction"
  BY <1>3 DEF GenerateCompactionTask
<1> QED BY <1>1, <1>2, <1>3, OptionsAssumption DEF StrategyAssumed

-----------------------------------------------------------------------------
(* compact() *)

(* The tables of a list of ids, the missing ones empty. *)
LEMMA HandlesType ==
  ASSUME NEW S, NEW st, NEW tables, NEW ids, tables \in [S -> Table], ids \in Seq(S)
  PROVE  Handles(st, tables, ids) \in Seq(Table)
<1> DEFINE h == Handles(st, tables, ids)
<1>1. EmptyTable \in Table
  BY DEF EmptyTable, Table, Absent
<1>2. Len(ids) \in Nat /\ h = [i \in 1 .. Len(ids) |-> Handle(st, tables, ids[i])]
  BY DEF Handles
<1>3. \A i \in 1 .. Len(ids) : Handle(st, tables, ids[i]) \in Table
  BY <1>1 DEF Handle
<1> HIDE DEF h
<1>4. h = [i \in 1 .. Len(ids) |-> h[i]] /\ \A i \in 1 .. Len(ids) : h[i] \in Table
  BY <1>2, <1>3
<1>5. h \in Seq(Table)
  BY <1>2, <1>4, FunctionIsSeq
<1> QED BY <1>5 DEF h

(* A run of tables. *)
LEMMA RunType ==
  ASSUME NEW S, NEW st, NEW tables, NEW ids, tables \in [S -> Table], ids \in Seq(S)
  PROVE  Concat(Handles(st, tables, ids)) \in Table
<1>1. Handles(st, tables, ids) \in Seq(Table)
  BY HandlesType
<1>2. ASSUME NEW k \in Keys PROVE LastHit(Handles(st, tables, ids), k) \in Int
  BY <1>1, HitType
<1> QED BY <1>2 DEF Concat, Table

(* A merge of tables. *)
LEMMA MergeType ==
  ASSUME NEW ts, ts \in Seq(Table)
  PROVE  Merge(ts) \in Table
<1>1. ASSUME NEW k \in Keys PROVE FirstHit(ts, k) \in Int
  BY HitType
<1> QED BY <1>1 DEF Merge, Table

(* What a task reads is a table. *)
LEMMA InputType ==
  ASSUME NEW S, NEW tables, NEW st, NEW task, tables \in [S -> Table], st \in StateOver(S),
         TaskFits(S, st, task)
  PROVE  CompactInput(st, tables, task) \in Table
<1> DEFINE run(ids) == Concat(Handles(st, tables, ids))
<1>0. st.levels \in Seq(LevelOver(S)) /\ \A l \in 1 .. Len(st.levels) : st.levels[l].ssts \in Seq(S)
  BY StateLevels
<1>1. CASE ForceFullFits(S, st, task)
  <2>1. task.type = "ForceFull" /\ task.l0_sstables \in Seq(S) /\ task.l1_sstables \in Seq(S)
    BY <1>0, <1>1 DEF ForceFullFits
  <2>2. Handles(st, tables, task.l0_sstables) \in Seq(Table) /\ run(task.l1_sstables) \in Table
    BY <2>1, HandlesType, RunType
  <2>3. CompactInput(st, tables, task) =
          Merge(Handles(st, tables, task.l0_sstables) \o <<run(task.l1_sstables)>>)
    BY <2>1 DEF CompactInput
  <2> HIDE DEF run
  <2>4. Handles(st, tables, task.l0_sstables) \o <<run(task.l1_sstables)>> \in Seq(Table)
    BY <2>2
  <2> QED BY <2>3, <2>4, MergeType
<1>2. CASE SimpleFits(S, st, task)
  <2>0. task.lower_level \in 1 .. Len(st.levels)
    BY <1>0, <1>2 DEF SimpleFits
  <2>1. /\ task.type = "Simple" /\ task.upper_level_sst_ids \in Seq(S)
        /\ task.lower_level_sst_ids \in Seq(S)
    BY <1>0, <1>2, <2>0 DEF SimpleFits
  <2> DEFINE upper == IF task.upper_level # 0 THEN <<run(task.upper_level_sst_ids)>>
                      ELSE Handles(st, tables, task.upper_level_sst_ids)
  <2>2. /\ Handles(st, tables, task.upper_level_sst_ids) \in Seq(Table)
        /\ run(task.upper_level_sst_ids) \in Table /\ run(task.lower_level_sst_ids) \in Table
    BY <2>1, HandlesType, RunType
  <2>3. CompactInput(st, tables, task) = Merge(upper \o <<run(task.lower_level_sst_ids)>>)
    BY <2>1 DEF CompactInput
  <2> HIDE DEF run
  <2>4. upper \in Seq(Table)
    BY <2>2
  <2> HIDE DEF upper
  <2>5. upper \o <<run(task.lower_level_sst_ids)>> \in Seq(Table)
    BY <2>2, <2>4
  <2> QED BY <2>3, <2>5, MergeType
<1>3. ASSUME NEW m \in 0 .. Len(st.levels), TieredFits(S, st, task, m)
      PROVE  CompactInput(st, tables, task) \in Table
  <2> DEFINE ts == [i \in DOMAIN task.tiers |-> run(task.tiers[i].ssts)]  n == Len(task.tiers)
  <2>1. task.type = "Tiered" /\ task.tiers \in Seq(LevelOver(S))
    BY <1>3 DEF TieredFits
  <2>2. /\ n \in Nat /\ DOMAIN task.tiers = 1 .. n
        /\ \A i \in 1 .. n : task.tiers[i].ssts \in Seq(S)
    BY <2>1, LevelTables
  <2>3. \A i \in 1 .. n : run(task.tiers[i].ssts) \in Table
    BY <2>2, RunType
  <2>4. CompactInput(st, tables, task) = Merge(ts)
    BY <2>1 DEF CompactInput
  <2> HIDE DEF run, n
  <2>5. ts = [i \in 1 .. n |-> ts[i]] /\ \A i \in 1 .. n : ts[i] \in Table
    BY <2>2, <2>3
  <2> HIDE DEF ts
  <2>6. ts \in Seq(Table)
    BY <2>2, <2>5, FunctionIsSeq
  <2> QED BY <2>4, <2>6, MergeType
<1> QED BY <1>1, <1>2, <1>3 DEF TaskFits

(* What compact() hands to the builder. *)
Merged(st, tables, task) ==
  IF CompactToBottomLevel(task) THEN DropTombstones(CompactInput(st, tables, task))
  ELSE CompactInput(st, tables, task)

(* ... is a table, cut into tables. *)
LEMMA OutputType ==
  ASSUME NEW S, NEW tables, NEW st, NEW task, tables \in [S -> Table], st \in StateOver(S),
         TaskFits(S, st, task)
  PROVE  /\ Merged(st, tables, task) \in Table
         /\ CompactOutput(st, tables, task) = Split(Merged(st, tables, task), SstEntries)
         /\ CompactOutput(st, tables, task) \in Seq(Table)
<1>1. CompactInput(st, tables, task) \in Table
  BY InputType
<1>2. DropTombstones(CompactInput(st, tables, task)) \in Table
  BY <1>1 DEF DropTombstones, Table, Seen, Absent
<1>3. Merged(st, tables, task) \in Table
  BY <1>1, <1>2 DEF Merged
<1>4. CompactOutput(st, tables, task) = Split(Merged(st, tables, task), SstEntries)
  BY DEF CompactOutput, Merged
<1> QED BY <1>3, <1>4, SplitType, OptionsAssumption

(* The tables that were written. *)
Written(tables2, made, ids) ==
  /\ DOMAIN ids = DOMAIN made
  /\ \A i \in DOMAIN made : tables2[ids[i]] = made[i]

(* The output files hold what the merge of the inputs gave. *)
LEMMA OutputWritten ==
  ASSUME NEW S, NEW tables, NEW tables2, NEW st, NEW task, NEW ids,
         tables \in [S -> Table], st \in StateOver(S), RefsOpen(st), TaskFits(S, st, task),
         Written(tables2, CompactOutput(st, tables, task), ids),
         \A id \in st.sstables : tables2[id] = tables[id]
  PROVE  OutputHolds(tables2, st, task, ids)
<1> DEFINE made == CompactOutput(st, tables, task)  t == Merged(st, tables, task)
<1>1. t \in Table /\ made = Split(t, SstEntries) /\ made \in Seq(Table)
  BY OutputType
<1>2. task.type \in {"ForceFull", "Simple", "Tiered"} /\ TaskIds(task) \subseteq st.sstables
  BY FitsOpen
<1>3. \A id \in TaskIds(task) : Handle(st, tables2, id) = Handle(st, tables, id)
  BY <1>2 DEF Handle
<1>4. CompactInput(st, tables2, task) = CompactInput(st, tables, task)
  BY <1>2, <1>3, InputSame
<1>5. Contents(tables2, ids) = made
  <2>1. Contents(tables2, ids) = [i \in DOMAIN made |-> made[i]]
    BY DEF Written, Contents
  <2>2. made = [i \in DOMAIN made |-> made[i]]
    BY <1>1
  <2> QED BY <2>1, <2>2
<1> HIDE DEF made
<1>6. ASSUME NEW k \in Keys PROVE Concat(Contents(tables2, ids))[k] = t[k]
  <2>1. LastHit(Split(t, SstEntries), k) = t[k]
    BY <1>1, SplitHit, OptionsAssumption
  <2> QED BY <1>1, <1>5, <2>1 DEF Concat
<1>7. ASSUME NEW k \in Keys
      PROVE  t[k] = IF CompactToBottomLevel(task) THEN Seen(CompactInput(st, tables, task)[k])
                    ELSE CompactInput(st, tables, task)[k]
  BY DEF Merged, DropTombstones
<1> HIDE DEF t
<1> QED BY <1>4, <1>6, <1>7 DEF OutputHolds

(* In a finite set with a strict total order, b[x] being what comes before *)
(* x, e lists the elements in that order.                                  *)
TotalOrder(S, b) ==
  /\ IsFiniteSet(S) /\ b \in [S -> SUBSET S]
  /\ \A x \in S : x \notin b[x]
  /\ \A x, y \in S : y \in b[x] => b[y] \subseteq b[x]
  /\ \A x, y \in S : x # y => x \in b[y] \/ y \in b[x]

Enumerates(S, b, e) ==
  /\ Cardinality(S) \in Nat /\ e \in [1 .. Cardinality(S) -> S]
  /\ \A i, j \in 1 .. Cardinality(S) : i < j => e[i] \in b[e[j]]
  /\ \A x \in S : \E i \in 1 .. Cardinality(S) : e[i] = x
  /\ \A i \in 1 .. Cardinality(S) : Cardinality(b[e[i]]) = i - 1

(* Picking the element with i - 1 others before it does. *)
LEMMA Enumerated ==
  ASSUME NEW S, NEW b, TotalOrder(S, b)
  PROVE  Enumerates(S, b, [i \in 1 .. Cardinality(S) |-> CHOOSE x \in S : Cardinality(b[x]) = i - 1])
<1> DEFINE n == Cardinality(S)
           r == [x \in S |-> Cardinality(b[x]) + 1]
           e == [i \in 1 .. n |-> CHOOSE x \in S : Cardinality(b[x]) = i - 1]
<1>1. /\ IsFiniteSet(S) /\ \A x \in S : b[x] \in SUBSET S /\ x \notin b[x]
      /\ \A x, y \in S : y \in b[x] => b[y] \subseteq b[x]
      /\ \A x, y \in S : x # y => x \in b[y] \/ y \in b[x]
  BY DEF TotalOrder
<1>2. n \in Nat
  BY <1>1, FS_CardinalityType
<1>3. ASSUME NEW x \in S PROVE IsFiniteSet(b[x]) /\ Cardinality(b[x]) \in Nat /\ Cardinality(b[x]) < n
  <2>1. PICK B : B = b[x]
    OBVIOUS
  <2>2. B \in SUBSET S /\ B # S
    BY <1>1, <2>1
  <2>3. IsFiniteSet(B) /\ Cardinality(B) <= n /\ Cardinality(B) # n
    BY <1>1, <2>2, FS_Subset
  <2>4. Cardinality(B) \in Nat
    BY <2>3, FS_CardinalityType
  <2> QED BY <1>2, <2>1, <2>3, <2>4
<1>4. ASSUME NEW x \in S, NEW y \in S, x \in b[y] PROVE Cardinality(b[x]) < Cardinality(b[y])
  <2>1. PICK A, B : A = b[x] /\ B = b[y]
    OBVIOUS
  <2>2. A \in SUBSET B /\ A # B /\ IsFiniteSet(B)
    BY <1>1, <1>3, <1>4, <2>1
  <2>3. Cardinality(A) <= Cardinality(B) /\ Cardinality(A) # Cardinality(B)
    BY <2>2, FS_Subset
  <2>4. Cardinality(A) \in Nat /\ Cardinality(B) \in Nat
    BY <1>3, <2>1
  <2> QED BY <2>1, <2>3, <2>4
<1>5. r \in Injection(S, 1 .. n)
  <2>1. ASSUME NEW x \in S PROVE r[x] \in 1 .. n
    BY <1>2, <1>3
  <2>2. ASSUME NEW x \in S, NEW y \in S, r[x] = r[y] PROVE x = y
    <3>1. Cardinality(b[x]) \in Nat /\ Cardinality(b[y]) \in Nat
      BY <1>3
    <3>2. Cardinality(b[x]) = Cardinality(b[y])
      BY <2>2, <3>1
    <3> QED BY <1>1, <1>4, <3>1, <3>2
  <2>3. r \in [S -> 1 .. n]
    BY <2>1
  <2> HIDE DEF r, n
  <2> QED BY <2>2, <2>3 DEF Injection, IsInjective
<1>6. ASSUME NEW i \in 1 .. n PROVE \E x \in S : Cardinality(b[x]) = i - 1
  <2>1. IsFiniteSet(1 .. n) /\ Cardinality(1 .. n) = n - 1 + 1
    <3> HIDE DEF n
    <3>1. 1 \in Int /\ n \in Int /\ 1 <= n + 1
      BY ONLY <1>2
    <3> QED BY ONLY <3>1, IntervalSize
  <2>2. Cardinality(1 .. n) = n
    BY <1>2, <2>1
  <2> HIDE DEF r
  <2>3. r \in Surjection(S, 1 .. n)
    BY <1>5, <2>1, <2>2, FS_Injection
  <2>4. PICK x \in S : r[x] = i
    BY <2>3 DEF Surjection
  <2>5. r[x] = Cardinality(b[x]) + 1
    BY DEF r
  <2> QED BY <1>3, <2>4, <2>5
<1>7. ASSUME NEW i \in 1 .. n PROVE e[i] \in S /\ Cardinality(b[e[i]]) = i - 1
  BY <1>6
<1>8. e \in [1 .. n -> S]
  BY <1>7
<1> HIDE DEF e
<1>9. ASSUME NEW i \in 1 .. n, NEW j \in 1 .. n, i < j PROVE e[i] \in b[e[j]]
  <2>1. e[i] # e[j] /\ ~(Cardinality(b[e[j]]) < Cardinality(b[e[i]]))
    BY <1>2, <1>7, <1>9
  <2> QED BY <1>1, <1>4, <1>7, <2>1
<1>10. ASSUME NEW x \in S PROVE \E i \in 1 .. n : e[i] = x
  <2>1. PICK i : i = Cardinality(b[x]) + 1
    OBVIOUS
  <2>2. i \in 1 .. n /\ Cardinality(b[x]) = i - 1
    BY <1>2, <1>3, <2>1
  <2>3. e[i] \in S /\ Cardinality(b[e[i]]) = Cardinality(b[x])
    BY <1>7, <2>2
  <2>4. ~(Cardinality(b[e[i]]) < Cardinality(b[x])) /\ ~(Cardinality(b[x]) < Cardinality(b[e[i]]))
    BY <1>3, <2>3
  <2>5. e[i] = x
    BY <1>1, <1>4, <2>3, <2>4
  <2> QED BY <2>2, <2>5
<1> QED BY <1>2, <1>7, <1>8, <1>9, <1>10 DEF Enumerates, e

-----------------------------------------------------------------------------
(* The tables a merge is cut into *)

(* The keys of a table, in their order. *)
LEMMA KeysOrdered ==
  ASSUME NEW t
  PROVE  TotalOrder(KeysOfTable(t), [k \in KeysOfTable(t) |-> {j \in KeysOfTable(t) : j < k}])
<1>1. PICK S : S = KeysOfTable(t)
  OBVIOUS
<1>2. S \in SUBSET Keys /\ S \in SUBSET Nat
  BY <1>1, KeysAssumption DEF KeysOfTable
<1>3. IsFiniteSet(S)
  BY <1>2, KeysAssumption, FS_Subset
<1>4. PICK b : b = [k \in S |-> {j \in S : j < k}]
  OBVIOUS
<1>5. b \in [S -> SUBSET S] /\ \A x, y \in S : y \in b[x] <=> y < x
  BY <1>4
<1>6. /\ \A x \in S : ~(x < x)
      /\ \A x, y, z \in S : z < y /\ y < x => z < x
      /\ \A x, y \in S : x # y => x < y \/ y < x
  BY <1>2
<1>7. TotalOrder(S, b)
  <2>1. ASSUME NEW x \in S, NEW y \in S, y \in b[x] PROVE b[y] \subseteq b[x]
    <3>1. \A z \in b[y] : z \in S
      BY <1>5
    <3> QED BY <1>5, <1>6, <2>1, <3>1
  <2> QED BY <1>3, <1>5, <1>6, <2>1 DEF TotalOrder
<1> QED BY <1>1, <1>4, <1>7

(* Division rounds down. *)
LEMMA DivMonotone ==
  ASSUME NEW n \in Nat \ {0}, NEW a \in Nat, NEW b \in Nat, a <= b
  PROVE  a \div n <= b \div n
<1> DEFINE p == a \div n  q == b \div n
<1>1. p \in Nat /\ q \in Nat /\ n * p <= a /\ b < n * q + n
  OBVIOUS
<1>2. n * p < n * (q + 1)
  BY <1>1
<1>3. p < q + 1
  <2> HIDE DEF p, q
  <2> QED BY <1>1, <1>2
<1> QED BY <1>1, <1>3

(* ... and undoes multiplication. *)
LEMMA DivExact ==
  ASSUME NEW n \in Nat \ {0}, NEW a \in Nat
  PROVE  n * a \in Nat /\ (n * a) \div n = a
<1>1. PICK m : m = n * a
  OBVIOUS
<1>2. m \in Nat
  BY <1>1
<1>3. PICK q : q = m \div n
  OBVIOUS
<1>4. q \in Nat /\ n * q <= m /\ m < n * q + n
  BY <1>2, <1>3
<1>5. n * q <= n * a /\ n * a < n * (q + 1)
  BY <1>1, <1>4
<1>6. q <= a /\ a < q + 1
  BY <1>4, <1>5
<1> QED BY <1>1, <1>2, <1>3, <1>4, <1>6

(* The first key of the i-th table is one of the keys. *)
LEMMA CutBelow ==
  ASSUME NEW n \in Nat \ {0}, NEW c \in Nat, NEW i \in 1 .. (c + n - 1) \div n
  PROVE  n * (i - 1) + 1 \in 1 .. c
<1> DEFINE p == (c + n - 1) \div n
<1>1. p \in Nat /\ n * p <= c + n - 1
  OBVIOUS
<1>2. i \in Nat /\ 1 <= i /\ i <= p
  BY <1>1
<1> HIDE DEF p
<1>3. n * i <= n * p
  BY <1>1, <1>2
<1>4. n * (i - 1) = n * i - n /\ n * i \in Int /\ n * p \in Int
  BY <1>1, <1>2
<1>5. n * (i - 1) \in Nat
  BY <1>2
<1> QED BY <1>1, <1>3, <1>4, <1>5

(* The tables hold some keys each, in order, and no others than the table  *)
(* that was cut.                                                           *)
CutInOrder(t, made) ==
  /\ made \in Seq(Table)
  /\ \A i \in DOMAIN made : KeysOfTable(made[i]) # {} /\ KeysOfTable(made[i]) \subseteq KeysOfTable(t)
  /\ \A i, j \in DOMAIN made : i < j =>
       \A a \in KeysOfTable(made[i]), b \in KeysOfTable(made[j]) : a < b

(* Split cuts a table so. *)
LEMMA SplitInOrder ==
  ASSUME NEW t \in Table, NEW n \in Nat \ {0}
  PROVE  CutInOrder(t, Split(t, n))
<1>1. PICK S : S = KeysOfTable(t)
  OBVIOUS
<1>2. PICK b : b = [k \in S |-> {j \in S : j < k}]
  OBVIOUS
<1>3. PICK e : Enumerates(S, b, e)
  <2>1. TotalOrder(S, b)
    BY <1>1, <1>2, KeysOrdered
  <2> QED BY <2>1, Enumerated
<1>4. PICK c : c = Cardinality(S)
  OBVIOUS
<1>5. /\ c \in Nat /\ e \in [1 .. c -> S]
      /\ \A i, j \in 1 .. c : i < j => e[i] \in b[e[j]]
      /\ \A x \in S : \E i \in 1 .. c : e[i] = x
      /\ \A i \in 1 .. c : Cardinality(b[e[i]]) = i - 1
  BY <1>3, <1>4 DEF Enumerates
<1>6. PICK made : made = Split(t, n)
  OBVIOUS
<1>7. made \in Seq(Table)
  BY <1>6, SplitType
<1>8. S \in SUBSET Keys /\ S \in SUBSET Nat
  BY <1>1, KeysAssumption DEF KeysOfTable
<1>9. /\ DOMAIN made = 1 .. (c + n - 1) \div n
      /\ \A i \in DOMAIN made : \A k \in Keys :
           made[i][k] = IF t[k] # Absent /\ Cardinality({j \in S : j < k}) \div n = i - 1
                          THEN t[k] ELSE Absent
  BY <1>1, <1>4, <1>6 DEF Split
<1>10. \A k \in S : b[k] = {j \in S : j < k}
  BY <1>2
<1>11. ASSUME NEW i \in DOMAIN made
       PROVE  \A k : k \in KeysOfTable(made[i]) <=> k \in S /\ Cardinality(b[k]) \div n = i - 1
  <2>1. ASSUME NEW k \in S
        PROVE  k \in KeysOfTable(made[i]) <=> Cardinality(b[k]) \div n = i - 1
    <3>1. k \in Keys /\ t[k] # Absent
      BY <1>1 DEF KeysOfTable
    <3>2. b[k] = {j \in S : j < k}
      BY <1>10
    <3> QED BY <1>9, <3>1, <3>2 DEF KeysOfTable
  <2>2. ASSUME NEW k \in KeysOfTable(made[i]) PROVE k \in S
    <3>1. k \in Keys /\ made[i][k] # Absent
      BY DEF KeysOfTable
    <3>2. t[k] # Absent
      BY <1>9, <3>1
    <3> QED BY <1>1, <3>1, <3>2 DEF KeysOfTable
  <2> QED BY <2>1, <2>2
<1>12. ASSUME NEW i \in DOMAIN made PROVE KeysOfTable(made[i]) # {}
  <2>1. PICK m : m = n * (i - 1)
    OBVIOUS
  <2>2. i \in 1 .. (c + n - 1) \div n /\ i - 1 \in Nat
    BY <1>5, <1>9
  <2>3. m + 1 \in 1 .. c
    BY <1>5, <2>1, <2>2, CutBelow
  <2>4. m \in Nat /\ m \div n = i - 1
    BY <2>1, <2>2, DivExact
  <2>5. e[m + 1] \in S /\ Cardinality(b[e[m + 1]]) = m
    BY <1>5, <2>3, <2>4
  <2> QED BY <1>11, <2>4, <2>5
<1>13. ASSUME NEW i \in DOMAIN made, NEW j \in DOMAIN made, i < j,
              NEW x \in KeysOfTable(made[i]), NEW y \in KeysOfTable(made[j])
       PROVE  x < y
  <2>1. /\ x \in S /\ Cardinality(b[x]) \div n = i - 1
        /\ y \in S /\ Cardinality(b[y]) \div n = j - 1
    BY <1>11
  <2>2. i \in Nat /\ j \in Nat
    BY <1>5, <1>9
  <2>3. PICK p, q \in 1 .. c : e[p] = x /\ e[q] = y
    BY <1>5, <2>1
  <2>4. p \in Nat /\ q \in Nat /\ p - 1 \in Nat /\ q - 1 \in Nat /\ Cardinality(b[x]) = p - 1 /\ Cardinality(b[y]) = q - 1
    BY <1>5, <2>3
  <2>5. ~(q <= p)
    <3> SUFFICES ASSUME q <= p PROVE FALSE
      OBVIOUS
    <3>1. (q - 1) \div n <= (p - 1) \div n
      BY <2>4, DivMonotone
    <3> QED BY <1>13, <2>1, <2>2, <2>4, <3>1
  <2>6. p < q
    BY ONLY <2>4, <2>5
  <2>7. e[p] \in b[e[q]]
    BY ONLY <1>5, <2>3, <2>6
  <2>8. x \in b[y]
    BY ONLY <2>3, <2>7
  <2> QED BY <1>10, <2>1, <2>8
<1>14. \A i \in DOMAIN made : KeysOfTable(made[i]) \subseteq KeysOfTable(t)
  BY <1>1, <1>11
<1> QED BY <1>6, <1>7, <1>12, <1>13, <1>14 DEF CutInOrder

-----------------------------------------------------------------------------
(* Lists with some elements left out, wherever they are *)

(* Numbers in their order. *)
LEMMA NumbersOrdered ==
  ASSUME NEW S \in SUBSET Nat, IsFiniteSet(S)
  PROVE  TotalOrder(S, [x \in S |-> {m \in S : m < x}])
<1>1. PICK b : b = [k \in S |-> {j \in S : j < k}]
  OBVIOUS
<1>2. b \in [S -> SUBSET S] /\ \A x, y \in S : y \in b[x] <=> y < x
  BY <1>1
<1>3. /\ \A x \in S : ~(x < x)
      /\ \A x, y, z \in S : z < y /\ y < x => z < x
      /\ \A x, y \in S : x # y => x < y \/ y < x
  OBVIOUS
<1>4. ASSUME NEW x \in S, NEW y \in S, y \in b[x] PROVE b[y] \subseteq b[x]
  <2>1. \A z \in b[y] : z \in S
    BY <1>2
  <2> QED BY <1>2, <1>3, <1>4, <2>1
<1>5. TotalOrder(S, b)
  BY <1>2, <1>3, <1>4 DEF TotalOrder
<1> QED BY <1>1, <1>5

(* The elements of s that were not compacted, in their order. *)
LEMMA WithoutPicks ==
  ASSUME NEW H, NEW s \in Seq(H), NEW gone
  PROVE  /\ Without(s, gone) \in Seq(H)
         /\ \E m : Picks(s, ToSet(s) \ gone, Len(s), Without(s, gone), m)
<1>1. PICK n : n = Len(s)
  OBVIOUS
<1>2. n \in Nat /\ DOMAIN s = 1 .. n /\ \A i \in 1 .. n : s[i] \in H /\ s[i] \in ToSet(s)
  BY <1>1 DEF ToSet
<1>3. PICK at : at = {i \in DOMAIN s : s[i] \notin gone}
  OBVIOUS
<1>4. at \in SUBSET (1 .. n) /\ at \in SUBSET Nat
  BY <1>2, <1>3
<1>5. IsFiniteSet(at)
  <2>1. IsFiniteSet(1 .. n)
    BY <1>2, IntervalSize
  <2> QED BY <1>4, <2>1, FS_Subset
<1>6. PICK b : b = [x \in at |-> {m \in at : m < x}]
  OBVIOUS
<1>7. PICK e : e = [i \in 1 .. Cardinality(at) |-> CHOOSE x \in at : Cardinality(b[x]) = i - 1]
  OBVIOUS
<1>8. Enumerates(at, b, e)
  <2>1. TotalOrder(at, b)
    BY <1>4, <1>5, <1>6, NumbersOrdered
  <2> QED BY <1>7, <2>1, Enumerated
<1>9. PICK c : c = Cardinality(at)
  OBVIOUS
<1>10. /\ c \in Nat /\ e \in [1 .. c -> at]
       /\ \A i, j \in 1 .. c : i < j => e[i] \in b[e[j]]
       /\ \A x \in at : \E i \in 1 .. c : e[i] = x
       /\ \A i \in 1 .. c : Cardinality(b[e[i]]) = i - 1
  BY <1>8, <1>9 DEF Enumerates
<1>11. ASSUME NEW x \in at
       PROVE  Cardinality({m \in at : m <= x}) = Cardinality(b[x]) + 1
  <2>1. PICK B : B = b[x]
    OBVIOUS
  <2>2. B \in SUBSET at /\ x \notin B /\ {m \in at : m <= x} = B \cup {x}
    BY <1>4, <1>6, <2>1
  <2>3. IsFiniteSet(B)
    BY <1>5, <2>2, FS_Subset
  <2>4. Cardinality(B \cup {x}) = Cardinality(B) + 1
    BY <2>2, <2>3, FS_AddElement
  <2> QED BY <2>1, <2>2, <2>4
<1> DEFINE nth(j) == CHOOSE i \in at : Cardinality({m \in at : m <= i}) = j
<1>12. ASSUME NEW j \in 1 .. c PROVE e[j] = nth(j)
  <2>0. j \in Int
    BY <1>10
  <2>1. e[j] \in at /\ Cardinality(b[e[j]]) = j - 1
    BY <1>10
  <2>2. Cardinality({m \in at : m <= e[j]}) = j
    <3>1. PICK x : x = e[j]
      OBVIOUS
    <3>2. Cardinality({m \in at : m <= x}) = Cardinality(b[x]) + 1 /\ Cardinality(b[x]) = j - 1
      BY <1>11, <2>1, <3>1
    <3>3. Cardinality({m \in at : m <= x}) = j
      BY ONLY <1>10, <2>0, <3>2
    <3> QED BY <3>1, <3>3
  <2>3. ASSUME NEW i \in at, Cardinality({m \in at : m <= i}) = j PROVE i = e[j]
    <3>1. PICK p \in 1 .. c : e[p] = i
      BY <1>10
    <3>2. Cardinality(b[i]) = p - 1 /\ Cardinality(b[i]) + 1 = j
      BY <1>10, <1>11, <2>3, <3>1
    <3>3. p = j
      BY <1>10, <3>2
    <3> QED BY <3>1, <3>3
  <2> QED BY <2>1, <2>2, <2>3
<1>13. PICK r : r = Without(s, gone)
  OBVIOUS
<1>14. r = [j \in 1 .. c |-> s[nth(j)]]
  BY <1>3, <1>9, <1>13 DEF Without, Pick
<1> HIDE DEF nth
<1>15. r = [j \in 1 .. c |-> s[e[j]]]
  BY <1>12, <1>14
<1>16. \A j \in 1 .. c : e[j] \in 1 .. n /\ s[e[j]] \notin gone
  BY <1>3, <1>4, <1>10
<1>17. r \in Seq(H) /\ Len(r) = c /\ DOMAIN r = 1 .. c
  BY <1>2, <1>10, <1>15, <1>16
<1>18. Picks(s, ToSet(s) \ gone, n, r, e)
  <2>1. e \in [1 .. Len(r) -> 1 .. n]
    BY <1>4, <1>10, <1>17
  <2>2. ASSUME NEW i \in 1 .. Len(r), NEW j \in 1 .. Len(r), i < j PROVE e[i] < e[j]
    <3>1. e[i] \in b[e[j]] /\ e[j] \in at
      BY <1>10, <1>17, <2>2
    <3> QED BY <1>6, <3>1
  <2>3. \A i \in 1 .. Len(r) : r[i] = s[e[i]] /\ r[i] \in ToSet(s) \ gone
    BY <1>2, <1>15, <1>16, <1>17
  <2>4. ASSUME NEW j \in 1 .. n, s[j] \in ToSet(s) \ gone PROVE \E i \in 1 .. Len(r) : e[i] = j
    <3>1. j \in at
      BY <1>2, <1>3, <2>4
    <3> QED BY <1>10, <1>17, <3>1
  <2> QED BY <1>10, <1>17, <2>1, <2>2, <2>3, <2>4 DEF Picks
<1> QED BY <1>1, <1>13, <1>17, <1>18

(* What is left of a level, and what it holds. *)
LEMMA WithoutKeeps ==
  ASSUME NEW H, NEW s \in Seq(H), NEW gone
  PROVE  /\ Without(s, gone) \in Seq(H)
         /\ ToSet(Without(s, gone)) = ToSet(s) \ gone
         /\ \A src : InOrder(src, s) => InOrder(src, Without(s, gone))
         /\ (\A i, j \in DOMAIN s : s[i] = s[j] => i = j) =>
              \A i, j \in DOMAIN Without(s, gone) :
                 Without(s, gone)[i] = Without(s, gone)[j] => i = j
<1>1. PICK r : r = Without(s, gone)
  OBVIOUS
<1>2. r \in Seq(H)
  BY <1>1, WithoutPicks
<1>3. PICK n, L : n = Len(s) /\ L = Len(r)
  OBVIOUS
<1>4. PICK m : Picks(s, ToSet(s) \ gone, n, r, m)
  BY <1>1, <1>3, WithoutPicks
<1>5. /\ n \in Nat /\ DOMAIN s = 1 .. n /\ L \in Nat /\ DOMAIN r = 1 .. L
      /\ m \in [1 .. L -> 1 .. n]
      /\ \A i, j \in 1 .. L : i < j => m[i] < m[j]
      /\ \A i \in 1 .. L : r[i] = s[m[i]] /\ r[i] \in ToSet(s) \ gone
      /\ \A j \in 1 .. n : s[j] \in ToSet(s) \ gone => \E i \in 1 .. L : m[i] = j
  <2>1. n \in Nat /\ DOMAIN s = 1 .. n /\ L \in Nat /\ DOMAIN r = 1 .. L
    BY <1>2, <1>3
  <2> QED BY <1>3, <1>4, <2>1 DEF Picks
<1>6. ToSet(r) = ToSet(s) \ gone
  <2>1. ASSUME NEW x \in ToSet(s) \ gone PROVE x \in ToSet(r)
    <3>1. PICK j \in 1 .. n : s[j] = x
      BY <1>5 DEF ToSet
    <3>2. PICK i \in 1 .. L : m[i] = j
      BY <1>5, <3>1
    <3> QED BY <1>5, <3>1, <3>2 DEF ToSet
  <2>2. \A x \in ToSet(r) : x \in ToSet(s) \ gone
    BY <1>5 DEF ToSet
  <2> QED BY <2>1, <2>2
<1>7. ASSUME NEW src, InOrder(src, s) PROVE InOrder(src, r)
  <2>1. \A i \in 1 .. L : src[r[i]] \in Table
    BY <1>5, <1>7 DEF InOrder
  <2>2. ASSUME NEW i \in 1 .. L, NEW j \in 1 .. L, i < j
        PROVE  \A x \in KeysOfTable(src[r[i]]), y \in KeysOfTable(src[r[j]]) : x < y
    <3>1. m[i] \in DOMAIN s /\ m[j] \in DOMAIN s /\ m[i] < m[j] /\ r[i] = s[m[i]] /\ r[j] = s[m[j]]
      BY <1>5, <2>2
    <3> QED BY <1>7, <3>1 DEF InOrder
  <2> QED BY <1>3, <1>5, <2>1, <2>2 DEF InOrder
<1>8. ASSUME \A i, j \in DOMAIN s : s[i] = s[j] => i = j, NEW i \in DOMAIN r, NEW j \in DOMAIN r, r[i] = r[j]
      PROVE  i = j
  <2>1. m[i] = m[j] /\ m[i] \in Nat /\ m[j] \in Nat
    BY <1>5, <1>8
  <2>2. ~(i < j) /\ ~(j < i)
    BY <1>5, <2>1
  <2> QED BY <1>5, <2>2
<1> QED BY <1>1, <1>2, <1>6, <1>7, <1>8

-----------------------------------------------------------------------------
(* Sorting by first key *)

(* All keys of table x are below all keys of table y. *)
Ahead(tables, x, y) == \A a \in KeysOfTable(tables[x]), b \in KeysOfTable(tables[y]) : a < b

(* Tables with keys, no two of which overlap. *)
Separate(tables, S) ==
  /\ IsFiniteSet(S) /\ S \subseteq Nat
  /\ \A x \in S : tables[x] \in Table /\ KeysOfTable(tables[x]) # {}
  /\ \A x, y \in S : x # y => Ahead(tables, x, y) \/ Ahead(tables, y, x)

(* The first and the last key of a table. *)
LEMMA EndKeys ==
  ASSUME NEW t, KeysOfTable(t) # {}
  PROVE  /\ FirstKey(t) \in KeysOfTable(t) /\ FirstKey(t) \in Nat
         /\ LastKey(t) \in KeysOfTable(t) /\ LastKey(t) \in Nat
         /\ \A k \in KeysOfTable(t) : k \in Nat /\ FirstKey(t) <= k /\ k <= LastKey(t)
<1>1. KeysOfTable(t) \in SUBSET Nat
  BY KeysAssumption DEF KeysOfTable
<1> QED BY <1>1, FirstLast

(* std::sort puts such tables in the order of their keys. *)
LEMMA SortedInOrder ==
  ASSUME NEW tables, NEW S, Separate(tables, S)
  PROVE  /\ SortByFirstKey(S, tables) \in Seq(S)
         /\ ToSet(SortByFirstKey(S, tables)) = S
         /\ InOrder(tables, SortByFirstKey(S, tables))
<1>1. PICK F : F = [x \in S |-> FirstKey(tables[x])]
  OBVIOUS
<1>2. /\ IsFiniteSet(S) /\ S \in SUBSET Nat
      /\ \A x \in S : tables[x] \in Table /\ F[x] \in KeysOfTable(tables[x]) /\ F[x] \in Nat
      /\ \A x, y \in S : x # y => Ahead(tables, x, y) \/ Ahead(tables, y, x)
  BY <1>1, EndKeys DEF Separate
<1> DEFINE before(x, y) == \/ FirstKey(tables[x]) < FirstKey(tables[y])
                           \/ FirstKey(tables[x]) = FirstKey(tables[y]) /\ x < y
<1>3. PICK b : b = [x \in S |-> {y \in S : before(y, x)}]
  OBVIOUS
<1>4. ASSUME NEW x \in S, NEW y \in S
      PROVE  y \in b[x] <=> F[y] < F[x] \/ (F[y] = F[x] /\ y < x)
  BY <1>1, <1>3
<1>5. b \in [S -> SUBSET S] /\ \A x \in S : \A y \in b[x] : y \in S
  BY <1>3
<1>6. TotalOrder(S, b)
  <2>1. ASSUME NEW x \in S PROVE x \notin b[x]
    BY <1>2, <1>4
  <2>2. ASSUME NEW x \in S, NEW y \in S, y \in b[x], NEW z \in b[y] PROVE z \in b[x]
    <3>1. z \in S
      BY <1>5
    <3>2. F[y] < F[x] \/ (F[y] = F[x] /\ y < x)
      BY <1>4, <2>2
    <3>3. F[z] < F[y] \/ (F[z] = F[y] /\ z < y)
      BY <1>4, <3>1, <2>2
    <3>4. F[x] \in Nat /\ F[y] \in Nat /\ F[z] \in Nat /\ x \in Nat /\ y \in Nat /\ z \in Nat
      BY <1>2, <3>1
    <3>5. F[z] < F[x] \/ (F[z] = F[x] /\ z < x)
      BY <3>2, <3>3, <3>4
    <3> QED BY <1>4, <3>1, <3>5
  <2>3. ASSUME NEW x \in S, NEW y \in S, x # y PROVE x \in b[y] \/ y \in b[x]
    <3>1. F[x] \in Nat /\ F[y] \in Nat /\ x \in Nat /\ y \in Nat
      BY <1>2
    <3>2. \/ F[y] < F[x] \/ (F[y] = F[x] /\ y < x)
          \/ F[x] < F[y] \/ (F[x] = F[y] /\ x < y)
      BY <2>3, <3>1
    <3> QED BY <1>4, <3>2
  <2> QED BY <1>2, <1>5, <2>1, <2>2, <2>3 DEF TotalOrder
<1>7. PICK r : r = SortByFirstKey(S, tables)
  OBVIOUS
<1>8. r = [i \in 1 .. Cardinality(S) |-> CHOOSE x \in S : Cardinality(b[x]) = i - 1]
  <2>1. \A x \in S : b[x] = {y \in S : before(y, x)}
    BY <1>3
  <2> DEFINE f(i) == CHOOSE x \in S : Cardinality(b[x]) = i - 1
             g(i) == CHOOSE x \in S : Cardinality({y \in S : before(y, x)}) = i - 1
  <2>2. \A i : f(i) = g(i)
    BY <2>1
  <2>3. r = [i \in 1 .. Cardinality(S) |-> g(i)]
    BY <1>7 DEF SortByFirstKey
  <2> HIDE DEF f, g
  <2>4. r = [i \in 1 .. Cardinality(S) |-> f(i)]
    BY <2>2, <2>3
  <2> QED BY <2>4 DEF f
<1>9. Enumerates(S, b, r)
  BY <1>6, <1>8, Enumerated
<1>10. PICK c : c = Cardinality(S)
  OBVIOUS
<1>11. /\ c \in Nat /\ r \in [1 .. c -> S]
       /\ \A i, j \in 1 .. c : i < j => r[i] \in b[r[j]]
       /\ \A x \in S : \E i \in 1 .. c : r[i] = x
  BY <1>9, <1>10 DEF Enumerates
<1>12. r \in Seq(S) /\ Len(r) = c /\ DOMAIN r = 1 .. c
  BY <1>11
<1>13. ToSet(r) = S
  BY <1>11, <1>12 DEF ToSet
<1>14. ASSUME NEW i \in 1 .. c, NEW j \in 1 .. c, i < j PROVE Ahead(tables, r[i], r[j])
  <2>1. PICK x, y : x = r[i] /\ y = r[j]
    OBVIOUS
  <2>2. x \in S /\ y \in S /\ x \in b[y] /\ x # y
    BY <1>6, <1>11, <1>14, <2>1 DEF TotalOrder
  <2>3. F[x] \in Nat /\ F[y] \in Nat /\ ~(F[y] < F[x])
    <3>1. F[x] < F[y] \/ (F[x] = F[y] /\ x < y)
      BY <1>4, <2>2
    <3>2. F[x] \in Nat /\ F[y] \in Nat
      BY <1>2, <2>2
    <3> QED BY <3>1, <3>2
  <2>4. ~Ahead(tables, y, x)
    BY <1>2, <2>2, <2>3 DEF Ahead
  <2> QED BY <1>2, <2>1, <2>2, <2>4
<1>15. InOrder(tables, r)
  <2>1. \A i \in 1 .. c : tables[r[i]] \in Table
    BY <1>2, <1>11
  <2> QED BY <1>11, <1>12, <1>14, <2>1 DEF InOrder, Ahead
<1> QED BY <1>7, <1>12, <1>13, <1>15

-----------------------------------------------------------------------------
(* The tasks of the leveled strategy *)

(* The tables of a state are there, hold keys, and every level is sorted.  *)
Sound(S, tables, st) ==
  /\ IsFiniteSet(S) /\ S \subseteq Nat /\ st \in StateOver(S) /\ tables \in [S -> Table]
  /\ RefsOpen(st)
  /\ \A id \in st.sstables : KeysOfTable(tables[id]) # {}
  /\ \A l \in DOMAIN st.levels : InOrder(tables, st.levels[l].ssts)

(* The lower part of a task: of the level's tables those that overlap the  *)
(* upper part, so the others are below all inputs, or above all.           *)
LowerFits(S, tables, st, upper, l, lower) ==
  /\ lower \in Seq(S)
  /\ l \notin DOMAIN st.levels => lower = <<>>
  /\ l \in DOMAIN st.levels =>
       /\ ToSet(lower) \subseteq ToSet(st.levels[l].ssts)
       /\ \A x \in ToSet(st.levels[l].ssts) \ ToSet(lower) :
            \/ \A i \in ToSet(upper) \cup ToSet(lower) : Ahead(tables, x, i)
            \/ \A i \in ToSet(upper) \cup ToSet(lower) : Ahead(tables, i, x)

LeveledFits(S, tables, st, task) ==
  LET upper == task.upper_level_sst_ids  u == task.upper_level IN
  /\ task.type = "Leveled" /\ u \in Nat /\ task.lower_level \in Nat /\ task.lower_level > u
  /\ upper \in Seq(S)
  /\ u = 0 => ToSet(upper) \subseteq ToSet(st.l0_sstables)
  /\ u # 0 => u \in DOMAIN st.levels /\ ToSet(upper) \subseteq ToSet(st.levels[u].ssts)
  /\ LowerFits(S, tables, st, upper, task.lower_level, task.lower_level_sst_ids)

(* Two tables of a sorted level. *)
LEMMA LevelAhead ==
  ASSUME NEW tables, NEW run, InOrder(tables, run), NEW x \in ToSet(run), NEW y \in ToSet(run), x # y
  PROVE  Ahead(tables, x, y) \/ Ahead(tables, y, x)
<1>1. PICK p, q \in DOMAIN run : x = run[p] /\ y = run[q]
  BY DEF ToSet
<1>2. p \in Nat /\ q \in Nat
  BY DEF InOrder
<1>3. p < q \/ q < p
  BY <1>1, <1>2
<1> QED BY <1>1, <1>3 DEF InOrder, Ahead

(* What the tables of L0 and the levels are. *)
LEMMA SoundTables ==
  ASSUME NEW S, NEW tables, NEW st, Sound(S, tables, st)
  PROVE  /\ st.l0_sstables \in Seq(S) /\ ToSet(st.l0_sstables) \subseteq st.sstables
         /\ st.sstables \subseteq S /\ st.levels \in Seq(LevelOver(S))
         /\ DOMAIN st.levels = 1 .. Len(st.levels) /\ Len(st.levels) \in Nat
         /\ \A l \in DOMAIN st.levels : /\ st.levels[l].ssts \in Seq(S)
                                        /\ ToSet(st.levels[l].ssts) \subseteq st.sstables
                                        /\ InOrder(tables, st.levels[l].ssts)
         /\ \A id \in st.sstables : tables[id] \in Table /\ KeysOfTable(tables[id]) # {} /\ id \in Nat
<1>1. /\ st \in StateOver(S) /\ S \in SUBSET Nat /\ tables \in [S -> Table] /\ RefsOpen(st)
      /\ \A id \in st.sstables : KeysOfTable(tables[id]) # {}
      /\ \A l \in DOMAIN st.levels : InOrder(tables, st.levels[l].ssts)
  BY DEF Sound
<1>2. /\ st.l0_sstables \in Seq(S) /\ st.levels \in Seq(LevelOver(S))
      /\ \A l \in 1 .. Len(st.levels) : st.levels[l] \in LevelOver(S) /\ st.levels[l].ssts \in Seq(S)
  BY <1>1, StateLevels
<1>3. st.sstables \subseteq S
  BY <1>1 DEF StateOver
<1>4. DOMAIN st.levels = 1 .. Len(st.levels) /\ Len(st.levels) \in Nat
  BY <1>2
<1>5. ToSet(st.l0_sstables) \subseteq st.sstables
  BY <1>1 DEF RefsOpen, ToSet
<1>6. ASSUME NEW l \in DOMAIN st.levels PROVE ToSet(st.levels[l].ssts) \subseteq st.sstables
  BY <1>1 DEF RefsOpen, ToSet
<1>7. \A id \in st.sstables : tables[id] \in Table /\ id \in Nat
  BY <1>1, <1>3
<1> QED BY <1>1, <1>2, <1>3, <1>4, <1>5, <1>6, <1>7

(* find_overlapping_ssts leaves out what is clear of the inputs. *)
LEMMA FindsOverlapping ==
  ASSUME NEW S, NEW tables, NEW st, Sound(S, tables, st),
         NEW upper \in Seq(S), ToSet(upper) \subseteq st.sstables, NEW l
  PROVE  LowerFits(S, tables, st, upper, l, FindOverlappingSsts(st, tables, upper, l))
<1>1. PICK U : U = ToSet(upper)
  OBVIOUS
<1>2. PICK ssts : ssts = IF l \in DOMAIN st.levels THEN st.levels[l].ssts ELSE <<>>
  OBVIOUS
<1>3. PICK over : over = {x \in Nat : /\ x \in st.sstables
                                     /\ \E p \in U : FirstKey(tables[p]) <= LastKey(tables[x])
                                     /\ \E q \in U : FirstKey(tables[x]) <= LastKey(tables[q])}
  OBVIOUS
<1>4. PICK lower : lower = FindOverlappingSsts(st, tables, upper, l)
  OBVIOUS
<1>5. lower = Filtered(ssts, over)
  <2>1. U \cap st.sstables = U
    BY <1>1
  <2> QED BY <1>1, <1>2, <1>3, <1>4, <2>1 DEF FindOverlappingSsts
<1>6. ssts \in Seq(S)
  BY <1>2, SoundTables
<1>7. lower \in Seq(S)
  BY <1>5, <1>6, FilteredPicks
<1>8. PICK m : Picks(ssts, over, Len(ssts), lower, m)
  BY <1>5, <1>6, FilteredPicks
<1>9. /\ Len(ssts) \in Nat /\ DOMAIN ssts = 1 .. Len(ssts)
      /\ \A i \in DOMAIN lower : m[i] \in DOMAIN ssts /\ lower[i] = ssts[m[i]] /\ lower[i] \in over
      /\ \A j \in DOMAIN ssts : ssts[j] \in over => \E i \in DOMAIN lower : m[i] = j
  <2>1. Len(ssts) \in Nat /\ DOMAIN ssts = 1 .. Len(ssts)
    BY <1>6
  <2> QED BY <1>8, <2>1 DEF Picks
<1>10. ToSet(lower) \subseteq ToSet(ssts) /\ ToSet(lower) \subseteq over
  BY <1>9 DEF ToSet
<1>11. ASSUME NEW x \in ToSet(ssts) \ ToSet(lower) PROVE x \notin over
  <2>1. PICK j \in DOMAIN ssts : x = ssts[j]
    BY DEF ToSet
  <2>2. x \in over => \E i \in DOMAIN lower : lower[i] = x
    BY <1>9, <2>1
  <2> QED BY <2>2 DEF ToSet
<1>12. CASE l \notin DOMAIN st.levels
  <2>1. ssts = <<>> /\ DOMAIN ssts = {}
    BY <1>2, <1>12
  <2>2. DOMAIN lower = {}
    BY <1>9, <2>1
  <2>3. lower = <<>>
    BY <1>7, <2>2
  <2> QED BY <1>4, <1>7, <1>12, <2>3 DEF LowerFits
<1>13. CASE l \in DOMAIN st.levels
  <2>1. ssts = st.levels[l].ssts /\ ToSet(ssts) \subseteq st.sstables /\ InOrder(tables, ssts)
    BY <1>2, <1>13, SoundTables
  <2>2. \A id \in st.sstables : id \in Nat /\ KeysOfTable(tables[id]) # {}
    BY SoundTables
  <2>3. PICK F, G : /\ F = [id \in st.sstables |-> FirstKey(tables[id])]
                    /\ G = [id \in st.sstables |-> LastKey(tables[id])]
    OBVIOUS
  <2>4. ASSUME NEW id \in st.sstables
        PROVE  /\ F[id] \in KeysOfTable(tables[id]) /\ G[id] \in KeysOfTable(tables[id])
               /\ F[id] \in Nat /\ G[id] \in Nat
               /\ \A k \in KeysOfTable(tables[id]) : k \in Nat /\ F[id] <= k /\ k <= G[id]
    BY <2>2, <2>3, EndKeys
  <2>5. ASSUME NEW x \in st.sstables
        PROVE  x \in over <=> (\E i \in U : F[i] <= G[x]) /\ (\E i \in U : F[x] <= G[i])
    <3>1. \A i \in U : i \in st.sstables
      BY <1>1
    <3>2. /\ (\E i \in U : F[i] <= G[x]) <=> (\E i \in U : FirstKey(tables[i]) <= LastKey(tables[x]))
          /\ (\E i \in U : F[x] <= G[i]) <=> (\E i \in U : FirstKey(tables[x]) <= LastKey(tables[i]))
      BY <2>3, <3>1
    <3>3. x \in Nat
      BY <2>2
    <3> QED BY <1>3, <3>2, <3>3
  <2> DEFINE inputs == U \cup ToSet(lower)
  <2>6. ASSUME NEW x \in ToSet(ssts) \ ToSet(lower), \A i \in U : ~(F[i] <= G[x])
        PROVE  \A i \in inputs : Ahead(tables, x, i)
    <3>0. x \in st.sstables /\ \A k \in KeysOfTable(tables[x]) : k \in Nat /\ k <= G[x]
      BY <2>1, <2>4
    <3>1. ASSUME NEW i \in U PROVE Ahead(tables, x, i)
      <4>1. i \in st.sstables
        BY <1>1
      <4>2. G[x] \in Nat /\ F[i] \in Nat /\ ~(F[i] <= G[x])
        BY <2>4, <2>6, <3>0, <4>1
      <4>3. ASSUME NEW a \in KeysOfTable(tables[x]), NEW b \in KeysOfTable(tables[i]) PROVE a < b
        <5>1. a \in Nat /\ b \in Nat /\ a <= G[x] /\ F[i] <= b
          BY <2>4, <3>0, <4>1
        <5> QED BY <4>2, <5>1
      <4> QED BY <4>3 DEF Ahead
    <3>2. ASSUME NEW i \in ToSet(lower) PROVE Ahead(tables, x, i)
      <4>1. i \in ToSet(ssts) /\ i \in over /\ i \in st.sstables /\ x # i
        BY <1>10, <2>1
      <4>2. PICK j \in U : F[j] <= G[i]
        BY <2>5, <4>1
      <4>3. j \in st.sstables /\ ~(F[j] <= G[x])
        BY <1>1, <2>6
      <4>4. G[x] < G[i] /\ G[i] \in Nat /\ G[x] \in Nat
        <5>1. G[x] \in Nat /\ G[i] \in Nat /\ F[j] \in Nat
          BY <2>4, <3>0, <4>1, <4>3
        <5> QED BY <4>2, <4>3, <5>1
      <4>5. ~Ahead(tables, i, x)
        <5>1. G[i] \in KeysOfTable(tables[i]) /\ G[x] \in KeysOfTable(tables[x]) /\ ~(G[i] < G[x])
          BY <2>4, <3>0, <4>1, <4>4
        <5> QED BY <5>1 DEF Ahead
      <4> QED BY <2>1, <4>1, <4>5, LevelAhead
    <3> QED BY <3>1, <3>2
  <2>7. ASSUME NEW x \in ToSet(ssts) \ ToSet(lower), \A i \in U : ~(F[x] <= G[i])
        PROVE  \A i \in inputs : Ahead(tables, i, x)
    <3>0. x \in st.sstables /\ \A k \in KeysOfTable(tables[x]) : k \in Nat /\ F[x] <= k
      BY <2>1, <2>4
    <3>1. ASSUME NEW i \in U PROVE Ahead(tables, i, x)
      <4>1. i \in st.sstables
        BY <1>1
      <4>2. F[x] \in Nat /\ G[i] \in Nat /\ ~(F[x] <= G[i])
        BY <2>4, <2>7, <3>0, <4>1
      <4>3. ASSUME NEW a \in KeysOfTable(tables[i]), NEW b \in KeysOfTable(tables[x]) PROVE a < b
        <5>1. a \in Nat /\ b \in Nat /\ a <= G[i] /\ F[x] <= b
          BY <2>4, <3>0, <4>1
        <5> QED BY <4>2, <5>1
      <4> QED BY <4>3 DEF Ahead
    <3>2. ASSUME NEW i \in ToSet(lower) PROVE Ahead(tables, i, x)
      <4>1. i \in ToSet(ssts) /\ i \in over /\ i \in st.sstables /\ x # i
        BY <1>10, <2>1
      <4>2. PICK j \in U : F[i] <= G[j]
        BY <2>5, <4>1
      <4>3. j \in st.sstables /\ ~(F[x] <= G[j])
        BY <1>1, <2>7
      <4>4. F[i] < F[x] /\ F[i] \in Nat /\ F[x] \in Nat
        <5>1. F[x] \in Nat /\ F[i] \in Nat /\ G[j] \in Nat
          BY <2>4, <3>0, <4>1, <4>3
        <5> QED BY <4>2, <4>3, <5>1
      <4>5. ~Ahead(tables, x, i)
        <5>1. F[i] \in KeysOfTable(tables[i]) /\ F[x] \in KeysOfTable(tables[x]) /\ ~(F[x] < F[i])
          BY <2>4, <3>0, <4>1, <4>4
        <5> QED BY <5>1 DEF Ahead
      <4> QED BY <2>1, <4>1, <4>5, LevelAhead
    <3> QED BY <3>1, <3>2
  <2>8. ASSUME NEW x \in ToSet(ssts) \ ToSet(lower)
        PROVE  (\A i \in inputs : Ahead(tables, x, i)) \/ (\A i \in inputs : Ahead(tables, i, x))
    <3>1. x \in st.sstables /\ x \notin over
      BY <1>11, <2>1
    <3>2. (\A i \in U : ~(F[i] <= G[x])) \/ (\A i \in U : ~(F[x] <= G[i]))
      BY <2>5, <3>1
    <3> QED BY <2>6, <2>7, <3>2
  <2> QED BY <1>1, <1>4, <1>7, <1>10, <1>13, <2>1, <2>8 DEF LowerFits
<1> QED BY <1>4, <1>12, <1>13

(* generate_compaction_task makes a task that fits. *)
LEMMA LeveledGenerates ==
  ASSUME NEW S, NEW tables, NEW st, Sound(S, tables, st), CompactionOptions.type = "Leveled",
         LeveledGenerate(st, tables) # NoTask
  PROVE  LeveledFits(S, tables, st, LeveledGenerate(st, tables))
<1>1. PICK task : task = LeveledGenerate(st, tables)
  OBVIOUS
<1>2. PICK targets : targets = TargetSizes(st, tables)
  OBVIOUS
<1>3. PICK base : base = BaseLevel(targets)
  OBVIOUS
<1>4. base \in Nat /\ base > 0
  <2>1. PICK L : L = CompactionOptions.max_levels
    OBVIOUS
  <2>2. L \in Nat \ {0}
    BY <2>1, OptionsAssumption
  <2>3. PICK ls : ls = {L} \cup {l \in 1 .. L - 1 : targets[l] > 0}
    OBVIOUS
  <2>4. ls \in SUBSET Nat /\ ls # {} /\ \A l \in ls : l > 0
    BY <2>2, <2>3
  <2>5. \E l \in ls : \A m \in ls : l <= m
    BY <2>4, LeastIndex
  <2>6. base = CHOOSE l \in ls : \A m \in ls : l <= m
    BY <1>3, <2>1, <2>3 DEF BaseLevel
  <2>7. base \in ls
    BY <2>5, <2>6
  <2> QED BY <2>4, <2>7
<1>5. PICK l0, find : /\ l0 = st.l0_sstables
                      /\ find = FindOverlappingSsts(st, tables, l0, base)
  OBVIOUS
<1>6. \/ task = LevelTask("Leveled", 0, l0, base, find)
      \/ \E worst \in DOMAIN st.levels :
           \E oldest : /\ ToSet(st.levels[worst].ssts) # {}
                       /\ oldest = CHOOSE i \in ToSet(st.levels[worst].ssts) :
                                     \A j \in ToSet(st.levels[worst].ssts) : i <= j
                       /\ task = LevelTask("Leveled", worst, <<oldest>>, worst + 1,
                                           FindOverlappingSsts(st, tables, <<oldest>>, worst + 1))
  BY <1>1, <1>2, <1>3, <1>5, Zenon DEF LeveledGenerate
<1>7. CASE task = LevelTask("Leveled", 0, l0, base, find)
  <2>1. l0 \in Seq(S) /\ ToSet(l0) \subseteq st.sstables
    BY <1>5, SoundTables
  <2>2. LowerFits(S, tables, st, l0, base, find)
    BY <1>5, <2>1, FindsOverlapping
  <2>3. /\ task.type = "Leveled" /\ task.upper_level = 0 /\ task.upper_level_sst_ids = l0
        /\ task.lower_level = base /\ task.lower_level_sst_ids = find
    BY <1>7 DEF LevelTask
  <2> QED BY <1>1, <1>4, <1>5, <2>1, <2>2, <2>3 DEF LeveledFits
<1>8. ASSUME NEW worst \in DOMAIN st.levels, NEW oldest,
             ToSet(st.levels[worst].ssts) # {},
             oldest = CHOOSE i \in ToSet(st.levels[worst].ssts) :
                        \A j \in ToSet(st.levels[worst].ssts) : i <= j,
             task = LevelTask("Leveled", worst, <<oldest>>, worst + 1,
                              FindOverlappingSsts(st, tables, <<oldest>>, worst + 1))
      PROVE  LeveledFits(S, tables, st, task)
  <2>1. PICK ids : ids = ToSet(st.levels[worst].ssts)
    OBVIOUS
  <2>2. worst \in Nat /\ worst > 0 /\ ids \subseteq st.sstables /\ st.sstables \subseteq S
    BY <2>1, SoundTables
  <2>3. ids \in SUBSET Nat /\ ids # {}
    BY <1>8, <2>1, <2>2, SoundTables
  <2>4. \E i \in ids : \A j \in ids : i <= j
    BY <2>3, LeastIndex
  <2>5. oldest \in ids
    BY <1>8, <2>1, <2>4
  <2>6. PICK upper, find2 : /\ upper = <<oldest>>
                            /\ find2 = FindOverlappingSsts(st, tables, upper, worst + 1)
    OBVIOUS
  <2>7. upper \in Seq(S) /\ ToSet(upper) = {oldest}
    BY <2>2, <2>5, <2>6 DEF ToSet
  <2>8. ToSet(upper) \subseteq ids /\ ToSet(upper) \subseteq st.sstables
    BY <2>2, <2>5, <2>7
  <2>9. LowerFits(S, tables, st, upper, worst + 1, find2)
    BY <2>6, <2>7, <2>8, FindsOverlapping
  <2>10. /\ task.type = "Leveled" /\ task.upper_level = worst /\ task.upper_level_sst_ids = upper
         /\ task.lower_level = worst + 1 /\ task.lower_level_sst_ids = find2
    BY <1>8, <2>6 DEF LevelTask
  <2>11. worst + 1 \in Nat /\ worst + 1 > worst /\ worst # 0
    BY <2>2
  <2> QED BY <2>1, <2>2, <2>7, <2>8, <2>9, <2>10, <2>11 DEF LeveledFits
<1> QED BY <1>1, <1>6, <1>7, <1>8

(* Its assertions hold. *)
LEMMA LeveledAsserts ==
  ASSUME NEW S, NEW tables, NEW st, NEW task, LeveledFits(S, tables, st, task)
  PROVE  ApplyAssert(st, task)
<1>1. /\ task.type = "Leveled"
      /\ task.upper_level = 0 => ToSet(task.upper_level_sst_ids) \subseteq ToSet(st.l0_sstables)
      /\ task.upper_level # 0 =>
           ToSet(task.upper_level_sst_ids) \subseteq ToSet(st.levels[task.upper_level].ssts)
      /\ LowerFits(S, tables, st, task.upper_level_sst_ids, task.lower_level, task.lower_level_sst_ids)
  BY DEF LeveledFits
<1>2. ToSet(task.lower_level_sst_ids) \subseteq ToSet(st.levels[task.lower_level].ssts)
  <2>1. ToSet(<<>>) = {}
    BY DEF ToSet
  <2> QED BY <1>1, <2>1 DEF LowerFits
<1>3. LeveledAssert(st, task)
  BY <1>1, <1>2 DEF LeveledAssert
<1> QED BY <1>1, <1>3 DEF ApplyAssert

(* A task still fits a state with more in L0, and tables written since.    *)
LEMMA LeveledStays ==
  ASSUME NEW S, NEW tables, NEW st, NEW task, NEW tables2, NEW st2, LeveledFits(S, tables, st, task),
         RefsOpen(st), \A id \in st.sstables : tables2[id] = tables[id],
         ToSet(st.l0_sstables) \subseteq ToSet(st2.l0_sstables), st2.levels = st.levels
  PROVE  LeveledFits(S, tables2, st2, task)
<1> DEFINE upper == task.upper_level_sst_ids  lower == task.lower_level_sst_ids
           l == task.lower_level  u == task.upper_level
<1>1. /\ task.type = "Leveled" /\ u \in Nat /\ l \in Nat /\ l > u /\ upper \in Seq(S)
      /\ u = 0 => ToSet(upper) \subseteq ToSet(st.l0_sstables)
      /\ u # 0 => u \in DOMAIN st.levels /\ ToSet(upper) \subseteq ToSet(st.levels[u].ssts)
      /\ LowerFits(S, tables, st, upper, l, lower)
  BY DEF LeveledFits
<1>2. ToSet(st.l0_sstables) \subseteq st.sstables
  BY DEF RefsOpen, ToSet
<1>3. \A m \in DOMAIN st.levels : ToSet(st.levels[m].ssts) \subseteq st.sstables
  BY DEF RefsOpen, ToSet
<1>4. ToSet(upper) \subseteq st.sstables
  BY <1>1, <1>2, <1>3
<1>5. l \in DOMAIN st.levels => ToSet(lower) \subseteq st.sstables
  BY <1>1, <1>3 DEF LowerFits
<1>6. \A x, y \in st.sstables : Ahead(tables, x, y) => Ahead(tables2, x, y)
  BY DEF Ahead
<1> HIDE DEF upper, lower, l, u
<1>7. LowerFits(S, tables2, st2, upper, l, lower)
  <2>1. ASSUME NEW x \in ToSet(st.levels[l].ssts) \ ToSet(lower), l \in DOMAIN st.levels
        PROVE  \/ \A i \in ToSet(upper) \cup ToSet(lower) : Ahead(tables2, x, i)
               \/ \A i \in ToSet(upper) \cup ToSet(lower) : Ahead(tables2, i, x)
    <3>1. x \in st.sstables /\ \A i \in ToSet(upper) \cup ToSet(lower) : i \in st.sstables
      BY <1>3, <1>4, <1>5, <2>1
    <3>2. \/ \A i \in ToSet(upper) \cup ToSet(lower) : Ahead(tables, x, i)
          \/ \A i \in ToSet(upper) \cup ToSet(lower) : Ahead(tables, i, x)
      BY <1>1, <2>1 DEF LowerFits
    <3> QED BY <1>6, <3>1, <3>2
  <2> QED BY <1>1, <2>1 DEF LowerFits
<1> QED BY <1>1, <1>7 DEF LeveledFits, upper, lower, l, u

-----------------------------------------------------------------------------
(* The output of a compaction *)

(* The output tables hold keys, and are in order. *)
OutputSorted(S, tables, output) ==
  /\ output \in Seq(S) /\ InOrder(tables, output)
  /\ \A x \in ToSet(output) : KeysOfTable(tables[x]) # {}

(* So are the tables a merge is cut into. *)
LEMMA CutSorted ==
  ASSUME NEW S, NEW t \in Table, NEW tables, NEW ids \in Seq(S),
         Written(tables, Split(t, SstEntries), ids)
  PROVE  /\ OutputSorted(S, tables, ids)
         /\ \A x \in ToSet(ids) : KeysOfTable(tables[x]) \subseteq KeysOfTable(t)
<1>1. PICK made : made = Split(t, SstEntries)
  OBVIOUS
<1>2. CutInOrder(t, made)
  BY <1>1, SplitInOrder, OptionsAssumption
<1>3. /\ made \in Seq(Table)
      /\ \A i \in DOMAIN made : /\ KeysOfTable(made[i]) # {}
                                /\ KeysOfTable(made[i]) \subseteq KeysOfTable(t)
      /\ \A i, j \in DOMAIN made : i < j =>
           \A a \in KeysOfTable(made[i]), b \in KeysOfTable(made[j]) : a < b
  BY <1>2 DEF CutInOrder
<1>4. DOMAIN ids = DOMAIN made /\ \A i \in DOMAIN made : tables[ids[i]] = made[i]
  BY <1>1 DEF Written
<1>5. Len(ids) \in Nat /\ DOMAIN ids = 1 .. Len(ids)
  OBVIOUS
<1>6. \A i \in DOMAIN ids : tables[ids[i]] \in Table
  BY <1>3, <1>4
<1>7. InOrder(tables, ids)
  BY <1>3, <1>4, <1>5, <1>6 DEF InOrder
<1> QED BY <1>3, <1>4, <1>7 DEF OutputSorted, ToSet

(* The tables a leveled compaction reads. *)
LeveledInputs(task) == ToSet(task.upper_level_sst_ids) \cup ToSet(task.lower_level_sst_ids)

(* Its result is a table, and every key of it is a key of an input. *)
LEMMA LeveledMerged ==
  ASSUME NEW S, NEW tables, NEW st, Sound(S, tables, st), NEW task, LeveledFits(S, tables, st, task)
  PROVE  /\ Merged(st, tables, task) \in Table
         /\ CompactOutput(st, tables, task) = Split(Merged(st, tables, task), SstEntries)
         /\ CompactOutput(st, tables, task) \in Seq(Table)
         /\ LeveledInputs(task) \subseteq st.sstables
         /\ \A k \in KeysOfTable(Merged(st, tables, task)) :
              \E i \in LeveledInputs(task) : k \in KeysOfTable(tables[i])
<1>1. PICK us, ls : us = task.upper_level_sst_ids /\ ls = task.lower_level_sst_ids
  OBVIOUS
<1>2. /\ task.type = "Leveled" /\ us \in Seq(S) /\ ls \in Seq(S)
      /\ ToSet(us) \subseteq st.sstables /\ ToSet(ls) \subseteq st.sstables
  <2>1. /\ task.type = "Leveled" /\ us \in Seq(S) 
        /\ task.upper_level = 0 => ToSet(us) \subseteq ToSet(st.l0_sstables)
        /\ task.upper_level # 0 => task.upper_level \in DOMAIN st.levels
                                   /\ ToSet(us) \subseteq ToSet(st.levels[task.upper_level].ssts)
        /\ LowerFits(S, tables, st, us, task.lower_level, ls)
    BY <1>1 DEF LeveledFits
  <2>2. ls \in Seq(S) /\ ToSet(ls) \subseteq st.sstables
    <3>1. ToSet(<<>>) = {}
      BY DEF ToSet
    <3> QED BY <2>1, <3>1, SoundTables DEF LowerFits
  <2>3. ToSet(us) \subseteq st.sstables
    BY <2>1, SoundTables
  <2> QED BY <2>1, <2>2, <2>3
<1>3. tables \in [S -> Table]
  BY DEF Sound
<1>4. PICK hu, hl : hu = Handles(st, tables, us) /\ hl = Handles(st, tables, ls)
  OBVIOUS
<1>5. PICK ru, rl : ru = Concat(hu) /\ rl = Concat(hl)
  OBVIOUS
<1>6. hu \in Seq(Table) /\ hl \in Seq(Table) /\ ru \in Table /\ rl \in Table
  BY <1>2, <1>3, <1>4, <1>5, HandlesType, RunType
<1>7. PICK ts : ts = (IF task.upper_level # 0 THEN <<ru>> ELSE hu) \o <<rl>>
  OBVIOUS
<1>8. PICK X : X = CompactInput(st, tables, task)
  OBVIOUS
<1>9. X = Merge(ts)
  BY <1>1, <1>2, <1>4, <1>5, <1>7, <1>8 DEF CompactInput
<1>10. ts \in Seq(Table) /\ \A i \in DOMAIN ts : ts[i] = ru \/ ts[i] = rl \/ \E j \in DOMAIN hu : ts[i] = hu[j]
  <2>1. PICK a : a = (IF task.upper_level # 0 THEN <<ru>> ELSE hu)
    OBVIOUS
  <2>2. a \in Seq(Table) /\ \A i \in DOMAIN a : a[i] = ru \/ \E j \in DOMAIN hu : a[i] = hu[j]
    BY <1>6, <2>1
  <2>3. ts = a \o <<rl>> /\ ts \in Seq(Table)
    BY <1>6, <1>7, <2>1, <2>2
  <2>4. \A i \in DOMAIN ts : (i \in DOMAIN a /\ ts[i] = a[i]) \/ ts[i] = rl
    BY ONLY <1>6, <2>2, <2>3
  <2> QED BY <2>2, <2>3, <2>4
<1>11. X \in Table
  BY <1>9, <1>10, MergeType
<1>12. PICK T : T = Merged(st, tables, task)
  OBVIOUS
<1>13. T = IF CompactToBottomLevel(task) THEN DropTombstones(X) ELSE X
  BY <1>8, <1>12 DEF Merged
<1>14. T \in Table
  <2>1. DropTombstones(X) \in Table
    BY <1>11 DEF DropTombstones, Table, Seen, Absent
  <2> QED BY <1>11, <1>13, <2>1
<1>15. CompactOutput(st, tables, task) = Split(T, SstEntries)
  BY <1>12 DEF CompactOutput, Merged
<1>16. Split(T, SstEntries) \in Seq(Table)
  BY <1>14, SplitType, OptionsAssumption
<1>17. ASSUME NEW k \in KeysOfTable(T) PROVE X[k] # Absent /\ k \in Keys
  <2>1. k \in Keys /\ T[k] # Absent
    BY DEF KeysOfTable
  <2>2. DropTombstones(X)[k] = Seen(X[k])
    BY <2>1 DEF DropTombstones
  <2>3. Seen(Absent) = Absent
    BY DEF Seen, Absent
  <2> QED BY <1>13, <2>1, <2>2, <2>3
<1>18. ASSUME NEW ids \in Seq(S), ToSet(ids) \subseteq st.sstables, NEW k \in Keys,
              NEW h, h = Handles(st, tables, ids),
              NEW j \in DOMAIN h, h[j][k] # Absent
       PROVE  \E i \in ToSet(ids) : k \in KeysOfTable(tables[i])
  <2>1. DOMAIN h = DOMAIN ids /\ h[j] = Handle(st, tables, ids[j])
    BY <1>18 DEF Handles
  <2>2. ids[j] \in ToSet(ids)
    BY <2>1 DEF ToSet
  <2>3. h[j] = tables[ids[j]]
    BY <1>18, <2>1, <2>2 DEF Handle
  <2> QED BY <1>18, <2>2, <2>3 DEF KeysOfTable
<1>19. ASSUME NEW h, NEW k, LastHit(h, k) # Absent, h \in Seq(Table) PROVE \E j \in DOMAIN h : h[j][k] # Absent
  BY <1>19, LastHitNone
<1>20. ASSUME NEW k \in KeysOfTable(T) PROVE \E i \in LeveledInputs(task) : k \in KeysOfTable(tables[i])
  <2>1. X[k] # Absent /\ k \in Keys
    BY <1>17
  <2>2. FirstHit(ts, k) # Absent
    BY <1>9, <2>1 DEF Merge
  <2>3. PICK p \in DOMAIN ts : ts[p][k] # Absent
    BY <2>2, FirstHitNone
  <2>4. \/ \E j \in DOMAIN hu : hu[j][k] # Absent
        \/ \E j \in DOMAIN hl : hl[j][k] # Absent
    <3>1. ru[k] = LastHit(hu, k) /\ rl[k] = LastHit(hl, k)
      BY <1>5, <2>1 DEF Concat
    <3>2. ru[k] # Absent => \E j \in DOMAIN hu : hu[j][k] # Absent
      BY <1>6, <1>19, <3>1
    <3>3. rl[k] # Absent => \E j \in DOMAIN hl : hl[j][k] # Absent
      BY <1>6, <1>19, <3>1
    <3> QED BY <1>10, <2>3, <3>2, <3>3
  <2>5. \E i \in ToSet(us) \cup ToSet(ls) : k \in KeysOfTable(tables[i])
    BY <1>2, <1>4, <1>18, <2>1, <2>4
  <2> QED BY <1>1, <2>5 DEF LeveledInputs
<1>21. LeveledInputs(task) \subseteq st.sstables
  BY <1>1, <1>2 DEF LeveledInputs
<1> QED BY <1>12, <1>14, <1>15, <1>16, <1>20, <1>21

-----------------------------------------------------------------------------
(* Applying the result of a leveled task *)

(* The tables of L0 and the levels as sets. *)
LEMMA RefSets ==
  ASSUME NEW st
  PROVE  /\ RefsOpen(st) <=> /\ ToSet(st.l0_sstables) \subseteq st.sstables
                             /\ \A m \in DOMAIN st.levels :
                                  ToSet(st.levels[m].ssts) \subseteq st.sstables
         /\ RefsApart(st) <=>
              /\ \A i, j \in DOMAIN st.l0_sstables :
                   st.l0_sstables[i] = st.l0_sstables[j] => i = j
              /\ \A m \in DOMAIN st.levels : \A x \in ToSet(st.levels[m].ssts) :
                   x \notin ToSet(st.l0_sstables)
              /\ \A m, q \in DOMAIN st.levels : m # q =>
                   \A x \in ToSet(st.levels[m].ssts) : x \notin ToSet(st.levels[q].ssts)
<1>1. RefsOpen(st) <=> /\ ToSet(st.l0_sstables) \subseteq st.sstables
                       /\ \A m \in DOMAIN st.levels :
                            ToSet(st.levels[m].ssts) \subseteq st.sstables
  BY DEF RefsOpen, ToSet
<1>2. (\A m \in DOMAIN st.levels : \A x \in ToSet(st.levels[m].ssts) : x \notin ToSet(st.l0_sstables))
      <=> \A i \in DOMAIN st.l0_sstables : \A l \in DOMAIN st.levels :
            \A j \in DOMAIN st.levels[l].ssts : st.l0_sstables[i] # st.levels[l].ssts[j]
  BY DEF ToSet
<1>3. (\A m, q \in DOMAIN st.levels : m # q =>
         \A x \in ToSet(st.levels[m].ssts) : x \notin ToSet(st.levels[q].ssts))
      <=> \A l, m \in DOMAIN st.levels : \A i \in DOMAIN st.levels[l].ssts :
            \A j \in DOMAIN st.levels[m].ssts : st.levels[l].ssts[i] = st.levels[m].ssts[j] => l = m
  <2>1. ASSUME NEW l \in DOMAIN st.levels, NEW m \in DOMAIN st.levels
        PROVE  (\A x \in ToSet(st.levels[l].ssts) : x \notin ToSet(st.levels[m].ssts))
               <=> \A i \in DOMAIN st.levels[l].ssts : \A j \in DOMAIN st.levels[m].ssts :
                     st.levels[l].ssts[i] # st.levels[m].ssts[j]
    BY DEF ToSet
  <2> QED BY <2>1
<1> QED BY <1>1, <1>2, <1>3 DEF RefsApart

(* What is left of the upper part's place. *)
Lifted(st, task, l0, lv) ==
  /\ l0 = IF task.upper_level = 0 THEN Without(st.l0_sstables, ToSet(task.upper_level_sst_ids))
          ELSE st.l0_sstables
  /\ lv = IF task.upper_level = 0 THEN st.levels
          ELSE [st.levels EXCEPT ![task.upper_level].ssts =
                  Without(@, ToSet(task.upper_level_sst_ids))]

(* The state that is swapped in: w is the lower level, sorted. *)
LeveledState(st, task, output, l0, lv, w, new) ==
  /\ new.memtable = st.memtable /\ new.imm_memtables = st.imm_memtables
  /\ new.l0_sstables = l0 /\ LevelWith(lv, task.lower_level, w, new.levels)
  /\ new.sstables = (st.sstables \cup ToSet(output)) \ LeveledInputs(task)
  /\ new = [memtable |-> new.memtable, imm_memtables |-> new.imm_memtables,
            l0_sstables |-> new.l0_sstables, levels |-> new.levels, sstables |-> new.sstables]

(* That is what apply_compaction_result makes. *)
LEMMA LeveledParts ==
  ASSUME NEW S, NEW tables, NEW st \in StateOver(S), NEW task, task.type = "Leveled",
         NEW output \in Seq(S), NEW l0, NEW lv, Lifted(st, task, l0, lv), lv \in Seq(LevelOver(S)),
         NEW joined, joined = Without(lv[task.lower_level].ssts, ToSet(task.lower_level_sst_ids)) \o output
  PROVE  LeveledState(st, task, output, l0, lv, SortByFirstKey(ToSet(joined), tables),
                      Installed(st, tables, task, output))
<1>1. PICK ad : ad = Added(st, output)
  OBVIOUS
<1>2. /\ ad \in StateOver(S)
      /\ ad.memtable = st.memtable /\ ad.imm_memtables = st.imm_memtables
      /\ ad.l0_sstables = st.l0_sstables /\ ad.levels = st.levels
      /\ ad.sstables = st.sstables \cup ToSet(output)
  BY <1>1, AddedType
<1>3. PICK ul : ul = LeveledUpperless(ad, task)
  OBVIOUS
<1>4. ul = [ad EXCEPT !.l0_sstables = l0, !.levels = lv]
  <2>1. CASE task.upper_level = 0
    <3>1. ul = [ad EXCEPT !.l0_sstables = l0]
      BY <1>2, <1>3, <2>1 DEF LeveledUpperless, Lifted
    <3>2. lv = ad.levels
      BY <1>2, <2>1 DEF Lifted
    <3> QED BY <1>2, <3>1, <3>2 DEF StateOver
  <2>2. CASE task.upper_level # 0
    <3>1. ul = [ad EXCEPT !.levels = lv]
      BY <1>2, <1>3, <2>2 DEF LeveledUpperless, Lifted, StateOver
    <3>2. l0 = ad.l0_sstables
      BY <1>2, <2>2 DEF Lifted
    <3> QED BY <1>2, <3>1, <3>2 DEF StateOver
  <2> QED BY <2>1, <2>2
<1>5. /\ ul.memtable = st.memtable /\ ul.imm_memtables = st.imm_memtables
      /\ ul.l0_sstables = l0 /\ ul.levels = lv
      /\ ul.sstables = st.sstables \cup ToSet(output)
      /\ DOMAIN ul = {"memtable", "imm_memtables", "l0_sstables", "levels", "sstables"}
  BY <1>2, <1>4 DEF StateOver
<1>6. PICK ap : ap = LeveledApply(ad, tables, task, output, FALSE)
  OBVIOUS
<1>7. PICK w : w = SortByFirstKey(ToSet(joined), tables)
  OBVIOUS
<1>8. PICK lw : lw = [lv EXCEPT ![task.lower_level].ssts = w]
  OBVIOUS
<1>9. ap = [ul EXCEPT !.levels = lw]
  <2>1. ap = [ul EXCEPT !.levels[task.lower_level].ssts = w]
    BY <1>3, <1>5, <1>6, <1>7 DEF LeveledApply
  <2> QED BY <1>5, <1>8, <2>1
<1>10. PICK sn : sn = (st.sstables \cup ToSet(output)) \ LeveledInputs(task)
  OBVIOUS
<1>11. Installed(st, tables, task, output) = [ap EXCEPT !.sstables = sn]
  <2>1. ap.sstables = st.sstables \cup ToSet(output)
    BY <1>5, <1>9
  <2>2. FilesToRemove(ad, task) = LeveledInputs(task)
    BY DEF FilesToRemove, LeveledRemoved, LeveledInputs
  <2>3. ApplyCompactionResult(ad, tables, task, output, FALSE) = ap
    BY <1>6 DEF ApplyCompactionResult
  <2> QED BY <1>1, <1>10, <2>1, <2>2, <2>3 DEF Installed
<1>12. PICK new : new = Installed(st, tables, task, output)
  OBVIOUS
<1>13. /\ ap.memtable = st.memtable /\ ap.imm_memtables = st.imm_memtables
       /\ ap.l0_sstables = l0 /\ ap.levels = lw
       /\ DOMAIN ap = {"memtable", "imm_memtables", "l0_sstables", "levels", "sstables"}
  BY <1>5, <1>9
<1>14. /\ new.memtable = st.memtable /\ new.imm_memtables = st.imm_memtables
       /\ new.l0_sstables = l0 /\ new.levels = lw /\ new.sstables = sn
       /\ new = [memtable |-> new.memtable, imm_memtables |-> new.imm_memtables,
                 l0_sstables |-> new.l0_sstables, levels |-> new.levels, sstables |-> new.sstables]
  BY <1>11, <1>12, <1>13
<1>15. LevelWith(lv, task.lower_level, w, new.levels)
  BY <1>8, <1>14 DEF LevelWith
<1>16. LeveledState(st, task, output, l0, lv, w, new)
  BY <1>10, <1>14, <1>15 DEF LeveledState
<1> QED BY <1>7, <1>12, <1>16

(* A leveled compaction leaves the state sound: the lower level is sorted, *)
(* no table is lost or named twice, and the inputs are closed.             *)
LeveledDone(S, tables, st, task, output, new) ==
  /\ Sound(S, tables, new) /\ RefsApart(new) /\ Len(new.levels) = Len(st.levels)
  /\ new.memtable = st.memtable /\ new.imm_memtables = st.imm_memtables
  /\ LeveledInputs(task) \subseteq st.sstables
  /\ new.sstables = (st.sstables \cup ToSet(output)) \ LeveledInputs(task)

(* The output is what the inputs held. *)
FromInputs(tables, task, output) ==
  \A x \in ToSet(output) : \A k \in KeysOfTable(tables[x]) :
    \E i \in LeveledInputs(task) : k \in KeysOfTable(tables[i])

(* Then the result leaves the state sound. *)
LEMMA LeveledApplied ==
  ASSUME NEW S, NEW tables, NEW st, NEW task, NEW output,
         Sound(S, tables, st), RefsApart(st), LeveledFits(S, tables, st, task),
         OutputSorted(S, tables, output), FromInputs(tables, task, output),
         \A x \in ToSet(output) : x \notin st.sstables
  PROVE  LeveledDone(S, tables, st, task, output, Installed(st, tables, task, output))
<1>1. PICK us, ls, u, l : /\ us = task.upper_level_sst_ids /\ ls = task.lower_level_sst_ids
                          /\ u = task.upper_level /\ l = task.lower_level
  OBVIOUS
<1>2. PICK U, L, O : U = ToSet(us) /\ L = ToSet(ls) /\ O = ToSet(output)
  OBVIOUS
<1>3. /\ st.l0_sstables \in Seq(S) /\ ToSet(st.l0_sstables) \subseteq st.sstables
      /\ st.sstables \subseteq S /\ st.levels \in Seq(LevelOver(S))
      /\ DOMAIN st.levels = 1 .. Len(st.levels) /\ Len(st.levels) \in Nat
      /\ \A m \in DOMAIN st.levels : /\ st.levels[m].ssts \in Seq(S)
                                     /\ ToSet(st.levels[m].ssts) \subseteq st.sstables
                                     /\ InOrder(tables, st.levels[m].ssts)
      /\ \A id \in st.sstables : tables[id] \in Table /\ KeysOfTable(tables[id]) # {} /\ id \in Nat
  BY SoundTables
<1>4. /\ IsFiniteSet(S) /\ S \in SUBSET Nat /\ st \in StateOver(S) /\ tables \in [S -> Table]
  BY DEF Sound
<1>5. /\ task.type = "Leveled" /\ u \in Nat /\ l \in Nat /\ l > u /\ us \in Seq(S)
      /\ u = 0 => U \subseteq ToSet(st.l0_sstables)
      /\ u # 0 => u \in DOMAIN st.levels /\ U \subseteq ToSet(st.levels[u].ssts)
      /\ LowerFits(S, tables, st, us, l, ls)
  BY <1>1, <1>2 DEF LeveledFits
<1>6. /\ l \notin DOMAIN st.levels => L = {}
      /\ l \in DOMAIN st.levels =>
           /\ L \subseteq ToSet(st.levels[l].ssts)
           /\ \A x \in ToSet(st.levels[l].ssts) \ L :
                \/ \A i \in U \cup L : Ahead(tables, x, i)
                \/ \A i \in U \cup L : Ahead(tables, i, x)
  <2>1. ToSet(<<>>) = {}
    BY DEF ToSet
  <2> QED BY <1>2, <1>5, <2>1 DEF LowerFits
<1>7. /\ \A i, j \in DOMAIN st.l0_sstables : st.l0_sstables[i] = st.l0_sstables[j] => i = j
      /\ \A m \in DOMAIN st.levels : \A x \in ToSet(st.levels[m].ssts) : x \notin ToSet(st.l0_sstables)
      /\ \A m, q \in DOMAIN st.levels : m # q =>
           \A x \in ToSet(st.levels[m].ssts) : x \notin ToSet(st.levels[q].ssts)
  BY RefSets
<1>8. output \in Seq(S) /\ O \subseteq S /\ InOrder(tables, output)
      /\ (\A x \in O : KeysOfTable(tables[x]) # {}) /\ \A x \in O : x \notin st.sstables
  <2>1. output \in Seq(S) /\ InOrder(tables, output) /\ \A x \in O : KeysOfTable(tables[x]) # {}
    BY <1>2 DEF OutputSorted
  <2>2. O \subseteq S
    BY <1>2, <2>1 DEF ToSet
  <2> QED BY <1>2, <2>1, <2>2
<1>9. PICK l0, lv : Lifted(st, task, l0, lv)
  BY DEF Lifted
<1>10. /\ l0 \in Seq(S) /\ ToSet(l0) = (IF u = 0 THEN ToSet(st.l0_sstables) \ U ELSE ToSet(st.l0_sstables))
       /\ \A i, j \in DOMAIN l0 : l0[i] = l0[j] => i = j
  <2>1. l0 = IF u = 0 THEN Without(st.l0_sstables, U) ELSE st.l0_sstables
    BY <1>1, <1>2, <1>9 DEF Lifted
  <2>2. CASE u = 0
    BY <1>3, <1>7, <2>1, <2>2, WithoutKeeps
  <2>3. CASE u # 0
    BY <1>3, <1>7, <2>1, <2>3
  <2> QED BY <2>2, <2>3
<1>11. /\ lv \in Seq(LevelOver(S)) /\ Len(lv) = Len(st.levels) /\ DOMAIN lv = DOMAIN st.levels
       /\ \A m \in DOMAIN st.levels : m # u => lv[m] = st.levels[m]
       /\ u # 0 => /\ ToSet(lv[u].ssts) = ToSet(st.levels[u].ssts) \ U
                   /\ InOrder(tables, lv[u].ssts)
  <2>1. CASE u = 0
    BY <1>1, <1>3, <1>9, <2>1 DEF Lifted
  <2>2. CASE u # 0
    <3>1. PICK w : w = Without(st.levels[u].ssts, U)
      OBVIOUS
    <3>2. u \in 1 .. Len(st.levels)
      BY <1>3, <1>5, <2>2
    <3>3. LevelWith(st.levels, u, w, lv)
      BY <1>1, <1>2, <1>9, <2>2, <3>1 DEF Lifted, LevelWith
    <3>4. w \in Seq(S) /\ ToSet(w) = ToSet(st.levels[u].ssts) \ U /\ InOrder(tables, w)
      BY <1>3, <1>5, <2>2, <3>1, WithoutKeeps
    <3>5. /\ lv \in Seq(LevelOver(S)) /\ Len(lv) = Len(st.levels) /\ DOMAIN lv = 1 .. Len(st.levels)
          /\ lv[u].ssts = w /\ \A m \in 1 .. Len(st.levels) : m # u => lv[m] = st.levels[m]
      BY <1>3, <3>2, <3>3, <3>4, LevelSet
    <3> QED BY <1>3, <3>4, <3>5
  <2> QED BY <2>1, <2>2
<1>12. PICK joined : joined = Without(lv[l].ssts, L) \o output
  OBVIOUS
<1>13. PICK w : w = SortByFirstKey(ToSet(joined), tables)
  OBVIOUS
<1>14. PICK new : new = Installed(st, tables, task, output)
  OBVIOUS
<1>15. /\ new.memtable = st.memtable /\ new.imm_memtables = st.imm_memtables
       /\ new.l0_sstables = l0 /\ LevelWith(lv, l, w, new.levels)
       /\ new.sstables = (st.sstables \cup O) \ LeveledInputs(task)
       /\ new = [memtable |-> new.memtable, imm_memtables |-> new.imm_memtables,
                 l0_sstables |-> new.l0_sstables, levels |-> new.levels, sstables |-> new.sstables]
  <2>1. joined = Without(lv[task.lower_level].ssts, ToSet(task.lower_level_sst_ids)) \o output
    BY <1>1, <1>2, <1>12
  <2>2. LeveledState(st, task, output, l0, lv, SortByFirstKey(ToSet(joined), tables),
                     Installed(st, tables, task, output))
    BY <1>4, <1>5, <1>8, <1>9, <1>11, <2>1, LeveledParts
  <2>3. LeveledState(st, task, output, l0, lv, w, new)
    BY <1>13, <1>14, <2>2
  <2> QED BY <1>1, <1>2, <2>3 DEF LeveledState
<1>16. LeveledInputs(task) = U \cup L /\ U \subseteq st.sstables /\ L \subseteq st.sstables
  <2>1. LeveledInputs(task) = U \cup L
    BY <1>1, <1>2 DEF LeveledInputs
  <2> QED BY <1>3, <1>5, <1>6, <2>1
<1>17. ASSUME l \in DOMAIN st.levels
       PROVE  /\ joined \in Seq(S) /\ ToSet(joined) = (ToSet(st.levels[l].ssts) \ L) \cup O
              /\ Separate(tables, ToSet(joined))
  <2>1. lv[l] = st.levels[l]
    BY <1>5, <1>11, <1>17
  <2>2. PICK r : r = Without(st.levels[l].ssts, L)
    OBVIOUS
  <2>3. r \in Seq(S) /\ ToSet(r) = ToSet(st.levels[l].ssts) \ L
    BY <1>3, <1>17, <2>2, WithoutKeeps
  <2>4. joined = r \o output /\ joined \in Seq(S)
    BY <1>8, <1>12, <2>1, <2>2, <2>3
  <2>5. ToSet(joined) = ToSet(r) \cup O
    <3>1. /\ Len(r) \in Nat /\ Len(output) \in Nat /\ DOMAIN r = 1 .. Len(r)
          /\ DOMAIN output = 1 .. Len(output)
      BY <1>8, <2>3
    <3>2. /\ DOMAIN joined = 1 .. Len(r) + Len(output)
          /\ \A i \in 1 .. Len(r) : joined[i] = r[i]
          /\ \A i \in 1 .. Len(output) : joined[Len(r) + i] = output[i]
      BY ONLY <1>8, <2>3, <2>4
    <3>3. ASSUME NEW i \in DOMAIN joined PROVE joined[i] \in ToSet(r) \cup O
      <4>1. i \in 1 .. Len(r) \/ (i - Len(r) \in 1 .. Len(output) /\ Len(r) + (i - Len(r)) = i)
        BY <3>1, <3>2
      <4> QED BY <1>2, <3>1, <3>2, <4>1 DEF ToSet
    <3>4. \A x \in ToSet(joined) : x \in ToSet(r) \cup O
      BY <3>3 DEF ToSet
    <3>5. \A x \in ToSet(r) : x \in ToSet(joined)
      <4>1. \A i \in 1 .. Len(r) : i \in DOMAIN joined
        BY <3>1, <3>2
      <4> QED BY <3>1, <3>2, <4>1 DEF ToSet
    <3>6. \A x \in O : x \in ToSet(joined)
      <4>1. \A i \in 1 .. Len(output) : Len(r) + i \in DOMAIN joined
        BY <3>1, <3>2
      <4> QED BY <1>2, <3>1, <3>2, <4>1 DEF ToSet
    <3> QED BY <3>4, <3>5, <3>6
  <2>6. PICK K, J : K = ToSet(st.levels[l].ssts) \ L /\ J = ToSet(joined)
    OBVIOUS
  <2>7. J = K \cup O
    BY <2>3, <2>5, <2>6
  <2>8. K \subseteq st.sstables /\ J \subseteq S
    BY <1>3, <1>8, <1>17, <2>6, <2>7
  <2>9. IsFiniteSet(J) /\ J \subseteq Nat
    BY <1>4, <2>8, FS_Subset
  <2>10. \A x \in J : tables[x] \in Table /\ KeysOfTable(tables[x]) # {}
    BY <1>3, <1>4, <1>8, <2>7, <2>8
  <2>11. ASSUME NEW x \in K, NEW y \in O PROVE Ahead(tables, x, y) \/ Ahead(tables, y, x)
    <3>1. \A b \in KeysOfTable(tables[y]) : \E i \in U \cup L : b \in KeysOfTable(tables[i])
      BY <1>2, <1>16 DEF FromInputs
    <3>2. \/ \A i \in U \cup L : Ahead(tables, x, i)
          \/ \A i \in U \cup L : Ahead(tables, i, x)
      BY <1>6, <1>17, <2>6
    <3> QED BY <3>1, <3>2 DEF Ahead
  <2>12. ASSUME NEW x \in J, NEW y \in J, x # y PROVE Ahead(tables, x, y) \/ Ahead(tables, y, x)
    <3>1. CASE x \in K /\ y \in K
      <4>1. x \in ToSet(st.levels[l].ssts) /\ y \in ToSet(st.levels[l].ssts)
        BY <2>6, <3>1
      <4> QED BY <1>3, <1>17, <2>12, <4>1, LevelAhead
    <3>2. CASE x \in O /\ y \in O
      BY <1>2, <1>8, <2>12, <3>2, LevelAhead
    <3>3. CASE x \in K /\ y \in O
      BY <2>11, <3>3
    <3>4. CASE x \in O /\ y \in K
      BY <2>11, <3>4
    <3> QED BY <2>7, <2>12, <3>1, <3>2, <3>3, <3>4
  <2>13. Separate(tables, J)
    BY <2>9, <2>10, <2>12 DEF Separate
  <2> QED BY <2>4, <2>6, <2>7, <2>13
<1>18. /\ new.levels \in Seq(LevelOver(S)) /\ Len(new.levels) = Len(st.levels)
       /\ DOMAIN new.levels = DOMAIN st.levels
       /\ \A m \in DOMAIN st.levels :
            /\ ToSet(new.levels[m].ssts) =
                 (IF m = l THEN (ToSet(st.levels[m].ssts) \ L) \cup O
                  ELSE IF m = u THEN ToSet(st.levels[m].ssts) \ U ELSE ToSet(st.levels[m].ssts))
            /\ InOrder(tables, new.levels[m].ssts)
  <2>1. \A m \in DOMAIN st.levels :
          /\ ToSet(lv[m].ssts) =
               (IF m = u THEN ToSet(st.levels[m].ssts) \ U ELSE ToSet(st.levels[m].ssts))
          /\ InOrder(tables, lv[m].ssts)
    <3>1. \A m \in DOMAIN st.levels : m = u => u # 0
      BY <1>3
    <3> QED BY <1>3, <1>11, <3>1
  <2>2. CASE l \notin DOMAIN st.levels
    <3>1. new.levels = lv
      BY <1>11, <1>15, <2>2 DEF LevelWith
    <3> QED BY <1>3, <1>11, <2>1, <2>2, <3>1
  <2>3. CASE l \in DOMAIN st.levels
    <3>1. w \in Seq(ToSet(joined)) /\ ToSet(w) = ToSet(joined) /\ InOrder(tables, w)
      BY <1>13, <1>17, <2>3, SortedInOrder
    <3>2. ToSet(joined) \subseteq S
      <4>1. \A i \in DOMAIN joined : joined[i] \in S
        BY <1>17, <2>3
      <4> QED BY <4>1 DEF ToSet
    <3>3. w \in Seq(S)
      BY <3>1, <3>2
    <3>4. LevelWith(lv, l, w, new.levels)
      BY <1>15
    <3>5. l \in 1 .. Len(lv)
      BY <1>3, <1>11, <2>3
    <3>6. /\ new.levels \in Seq(LevelOver(S)) /\ Len(new.levels) = Len(lv)
          /\ DOMAIN new.levels = 1 .. Len(lv) /\ new.levels[l].ssts = w
          /\ \A m \in 1 .. Len(lv) : m # l => new.levels[m] = lv[m]
      <4>1. PICK nv : nv = new.levels
        OBVIOUS
      <4>2. LevelWith(lv, l, w, nv)
        BY <3>4, <4>1
      <4>3. lv \in Seq(LevelOver(S))
        BY <1>11
      <4>4. /\ nv \in Seq(LevelOver(S)) /\ Len(nv) = Len(lv)
            /\ DOMAIN nv = 1 .. Len(lv) /\ nv[l].ssts = w
            /\ \A m \in 1 .. Len(lv) : m # l => nv[m] = lv[m]
        BY ONLY <3>3, <3>5, <4>2, <4>3, LevelSet
      <4> QED BY ONLY <4>1, <4>4
    <3>7. ToSet(w) = (ToSet(st.levels[l].ssts) \ L) \cup O
      BY <1>17, <2>3, <3>1
    <3> QED BY <1>3, <1>11, <2>1, <3>1, <3>6, <3>7
  <2> QED BY <2>2, <2>3
<1>19. ASSUME NEW m \in DOMAIN st.levels
       PROVE  /\ ToSet(new.levels[m].ssts) \subseteq new.sstables
              /\ \A x \in ToSet(new.levels[m].ssts) : x \in ToSet(st.levels[m].ssts) \/ (m = l /\ x \in O)
  <2>1. /\ ToSet(new.levels[m].ssts) =
             (IF m = l THEN (ToSet(st.levels[m].ssts) \ L) \cup O
              ELSE IF m = u THEN ToSet(st.levels[m].ssts) \ U ELSE ToSet(st.levels[m].ssts))
        /\ new.sstables = (st.sstables \cup O) \ (U \cup L)
        /\ ToSet(st.levels[m].ssts) \subseteq st.sstables
    BY <1>3, <1>15, <1>16, <1>18
  <2>2. m = 0 => FALSE
    BY <1>3
  <2>3. m # u => \A x \in ToSet(st.levels[m].ssts) : x \notin U
    BY <1>5, <1>7
  <2>4. m # l => \A x \in ToSet(st.levels[m].ssts) : x \notin L
    BY <1>6, <1>7
  <2>5. \A x \in O : x \notin U /\ x \notin L
    BY <1>8, <1>16
  <2> QED BY <1>5, <2>1, <2>3, <2>4, <2>5
<1>20. ToSet(new.l0_sstables) \subseteq new.sstables /\ ToSet(new.l0_sstables) \subseteq ToSet(st.l0_sstables)
  <2>1. \A x \in ToSet(st.l0_sstables) : x \notin L /\ (u # 0 => x \notin U)
    BY <1>5, <1>6, <1>7
  <2> QED BY <1>3, <1>10, <1>15, <1>16, <2>1
<1>21. RefsOpen(new)
  BY <1>18, <1>19, <1>20, RefSets
<1>22. RefsApart(new)
  <2>1. \A i, j \in DOMAIN new.l0_sstables : new.l0_sstables[i] = new.l0_sstables[j] => i = j
    BY <1>10, <1>15
  <2>2. \A m \in DOMAIN st.levels : \A x \in ToSet(new.levels[m].ssts) : x \notin ToSet(new.l0_sstables)
    BY <1>3, <1>7, <1>8, <1>19, <1>20
  <2>3. ASSUME NEW m \in DOMAIN st.levels, NEW q \in DOMAIN st.levels, m # q,
               NEW x \in ToSet(new.levels[m].ssts)
        PROVE  x \notin ToSet(new.levels[q].ssts)
    <3>1. x \in ToSet(st.levels[m].ssts) \/ (m = l /\ x \in O)
      BY <1>19
    <3>2. x \in ToSet(new.levels[q].ssts) => x \in ToSet(st.levels[q].ssts) \/ (q = l /\ x \in O)
      BY <1>19
    <3>3. ToSet(st.levels[m].ssts) \subseteq st.sstables /\ ToSet(st.levels[q].ssts) \subseteq st.sstables
      BY <1>3
    <3> QED BY <1>7, <1>8, <2>3, <3>1, <3>2, <3>3
  <2> QED BY <1>18, <2>1, <2>2, <2>3, RefSets
<1>23. new \in StateOver(S)
  <2>1. st.memtable \in S /\ st.imm_memtables \in Seq(S)
    BY <1>4 DEF StateOver
  <2>2. new.sstables \in SUBSET S
    BY <1>3, <1>8, <1>15
  <2> QED BY <1>10, <1>15, <1>18, <2>1, <2>2 DEF StateOver
<1>24. \A id \in new.sstables : KeysOfTable(tables[id]) # {}
  BY <1>3, <1>8, <1>15
<1>25. Sound(S, tables, new)
  BY <1>4, <1>18, <1>21, <1>23, <1>24 DEF Sound
<1>26. LeveledDone(S, tables, st, task, output, new)
  BY <1>2, <1>15, <1>16, <1>18, <1>22, <1>25 DEF LeveledDone
<1> QED BY <1>14, <1>26
=============================================================================
