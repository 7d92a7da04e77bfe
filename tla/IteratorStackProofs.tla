------------------------- MODULE IteratorStackProofs -------------------------
(***************************************************************************)
(* The iterators compute what the operators of Tables say: a scan, a       *)
(* get() and a compaction over any layout of tables.  The positions of the *)
(* iterators and what they read are in TablesProofs.                       *)
(***************************************************************************)
EXTENDS IteratorStack, TablesProofs

(* The tables a scan reads, and those of a layout as one table. *)
Cut(l, lower, upper) ==
  [h \in DOMAIN l.src |-> IF h \in ToSet(l.mems) THEN ScanMemtable(l.src[h], lower, upper) ELSE l.src[h]]

TopTables(l) == [i \in DOMAIN (l.mems \o l.l0) |-> l.src[(l.mems \o l.l0)[i]]]

LevelTables(l) == [i \in DOMAIN l.levels |-> RunTable(l.src, l.levels[i])]

Whole(l) == Merge(TopTables(l) \o LevelTables(l))

(* The parts of a layout. *)
LEMMA LayoutParts ==
  ASSUME NEW l, IsLayout(l)
  PROVE  /\ \A h \in DOMAIN l.src : l.src[h] \in Table
         /\ l.mems \in Seq(DOMAIN l.src) /\ l.l0 \in Seq(DOMAIN l.src)
         /\ Len(l.levels) \in Nat /\ DOMAIN l.levels = 1 .. Len(l.levels)
         /\ {1, 2} \subseteq DOMAIN l.levels
         /\ \A i \in DOMAIN l.levels : l.levels[i] \in Seq(DOMAIN l.src) /\ InOrder(l.src, l.levels[i])
         /\ \A i \in DOMAIN l.l0 : l.l0[i] \in SstHandles(l)
         /\ \A i \in DOMAIN l.levels : \A j \in DOMAIN l.levels[i] : l.levels[i][j] \in SstHandles(l)
         /\ \A h \in SstHandles(l) : h \notin ToSet(l.mems) /\ KeysOfTable(l.src[h]) # {}
<1>1. /\ \A h \in DOMAIN l.src : l.src[h] \in Table
      /\ l.mems \in Seq(DOMAIN l.src) /\ l.l0 \in Seq(DOMAIN l.src)
      /\ l.levels \in Seq(Seq(DOMAIN l.src)) /\ Len(l.levels) >= 2
      /\ \A h \in SstHandles(l) : h \notin ToSet(l.mems) /\ KeysOfTable(l.src[h]) # {}
      /\ \A n \in DOMAIN l.levels : \A i, j \in DOMAIN l.levels[n] : i < j =>
           \A a \in KeysOfTable(l.src[l.levels[n][i]]), b \in KeysOfTable(l.src[l.levels[n][j]]) : a < b
  BY DEF IsLayout
<1>2. /\ Len(l.levels) \in Nat /\ DOMAIN l.levels = 1 .. Len(l.levels)
      /\ \A i \in DOMAIN l.levels : l.levels[i] \in Seq(DOMAIN l.src)
  BY <1>1
<1>3. {1, 2} \subseteq DOMAIN l.levels
  BY <1>1, <1>2
<1>4. ASSUME NEW n \in DOMAIN l.levels PROVE InOrder(l.src, l.levels[n])
  <2>1. PICK r : r = l.levels[n]
    OBVIOUS
  <2>2. r \in Seq(DOMAIN l.src)
    BY <1>2, <2>1
  <2>3. /\ Len(r) \in Nat /\ DOMAIN r = 1 .. Len(r) /\ \A i \in DOMAIN r : r[i] \in DOMAIN l.src
    BY <2>2
  <2> QED BY <1>1, <2>1, <2>3 DEF InOrder
<1>5. /\ \A i \in DOMAIN l.l0 : l.l0[i] \in SstHandles(l)
      /\ \A i \in DOMAIN l.levels : \A j \in DOMAIN l.levels[i] : l.levels[i][j] \in SstHandles(l)
  BY DEF SstHandles, ToSet
<1> QED BY <1>1, <1>2, <1>3, <1>4, <1>5

(* get() reads a layout. *)
LEMMA GetLayout ==
  ASSUME NEW l, IsLayout(l), NEW k \in Keys, NEW maybe
  PROVE  GetFromTables(l.src, l.l0, l.levels, k, maybe) =
           Seen(OrElse(FirstHit([i \in DOMAIN l.l0 |-> l.src[l.l0[i]]], k), FirstHit(LevelTables(l), k)))
<1>1. GetInput(DOMAIN l.src, l.src, l.l0, l.levels)
  BY LayoutParts DEF GetInput
<1> QED BY <1>1, GetReads DEF LevelTables

(* The SSTables are as they were in what a scan reads, and the MemTables   *)
(* within the bounds.                                                      *)
LEMMA CutLayout ==
  ASSUME NEW l, IsLayout(l), NEW lower \in Bounds, NEW upper \in Bounds
  PROVE  /\ ScanInput(DOMAIN l.src, Cut(l, lower, upper), l.mems, l.l0, l.levels, lower, upper)
         /\ \A k \in Keys : AboveLower(k, lower) /\ BelowUpper(k, upper) =>
              ScanTable(Cut(l, lower, upper), l.mems, l.l0, l.levels, k) = Whole(l)[k]
<1>1. PICK c, H : c = Cut(l, lower, upper) /\ H = DOMAIN l.src
  OBVIOUS
<1>2. /\ \A h \in H : l.src[h] \in Table
      /\ l.mems \in Seq(H) /\ l.l0 \in Seq(H)
      /\ Len(l.levels) \in Nat /\ DOMAIN l.levels = 1 .. Len(l.levels)
      /\ \A i \in DOMAIN l.levels : l.levels[i] \in Seq(H) /\ InOrder(l.src, l.levels[i])
      /\ \A i \in DOMAIN l.l0 : l.l0[i] \in SstHandles(l)
      /\ \A i \in DOMAIN l.levels : \A j \in DOMAIN l.levels[i] : l.levels[i][j] \in SstHandles(l)
      /\ \A h \in SstHandles(l) : h \notin ToSet(l.mems) /\ KeysOfTable(l.src[h]) # {}
  BY <1>1, LayoutParts
<1>3. \A h \in H : c[h] = IF h \in ToSet(l.mems) THEN ScanMemtable(l.src[h], lower, upper) ELSE l.src[h]
  BY <1>1 DEF Cut
<1>4. ASSUME NEW h \in H PROVE c[h] \in Table
  <2>1. PICK t : t = l.src[h]
    OBVIOUS
  <2>2. t \in Table
    BY <1>2, <2>1
  <2>3. ScanMemtable(t, lower, upper) \in Table
    BY <2>2 DEF ScanMemtable, Table, Absent
  <2> QED BY <1>3, <2>1, <2>2, <2>3
<1>5. ASSUME NEW i \in DOMAIN l.mems
      PROVE  /\ l.mems[i] \in H
             /\ c[l.mems[i]] = ScanMemtable(l.src[l.mems[i]], lower, upper)
  <2>1. l.mems[i] \in H /\ l.mems[i] \in ToSet(l.mems)
    BY <1>2 DEF ToSet
  <2> QED BY <1>3, <2>1
<1>6. \A h \in H : h \in SstHandles(l) => c[h] = l.src[h]
  BY <1>2, <1>3
<1>7. ASSUME NEW i \in DOMAIN l.levels
      PROVE  InOrder(c, l.levels[i]) /\ RunTable(c, l.levels[i]) = RunTable(l.src, l.levels[i])
  <2>1. PICK r : r = l.levels[i]
    OBVIOUS
  <2>2. InOrder(l.src, r) /\ \A j \in DOMAIN r : r[j] \in H /\ r[j] \in SstHandles(l)
    BY <1>2, <2>1
  <2>3. \A j \in DOMAIN r : c[r[j]] = l.src[r[j]]
    BY <1>6, <2>2
  <2>4. InOrder(c, r)
    BY <2>2, <2>3 DEF InOrder
  <2>5. RunTable(c, r) = RunTable(l.src, r)
    <3>1. [j \in DOMAIN r |-> c[r[j]]] = [j \in DOMAIN r |-> l.src[r[j]]]
      BY <2>3
    <3> QED BY <3>1 DEF RunTable
  <2> QED BY <2>1, <2>4, <2>5
<1>8. ScanInput(H, c, l.mems, l.l0, l.levels, lower, upper)
  <2>1. ASSUME NEW i \in DOMAIN l.mems, NEW k \in KeysOfTable(c[l.mems[i]]) PROVE FromKey(lower) <= k
    <3>1. k \in Keys /\ AboveLower(k, lower)
      BY <1>5 DEF KeysOfTable, ScanMemtable
    <3> QED BY <3>1, KeysAssumption, BoundsSplit
  <2>2. \A i \in DOMAIN l.l0 : KeysOfTable(c[l.l0[i]]) # {}
    BY <1>2, <1>6
  <2>3. \A i \in DOMAIN l.levels : \A j \in DOMAIN l.levels[i] : KeysOfTable(c[l.levels[i][j]]) # {}
    <3>1. ASSUME NEW i \in DOMAIN l.levels, NEW j \in DOMAIN l.levels[i]
          PROVE  KeysOfTable(c[l.levels[i][j]]) # {}
      <4>1. PICK r : r = l.levels[i]
        OBVIOUS
      <4>2. r \in Seq(H) /\ r[j] \in SstHandles(l)
        BY <1>2, <4>1
      <4>3. r[j] \in H
        BY <4>1, <4>2
      <4> QED BY <1>2, <1>6, <4>1, <4>2, <4>3
    <3> QED BY <3>1
  <2> QED BY <1>2, <1>4, <1>7, <2>1, <2>2, <2>3 DEF ScanInput
<1>9. ASSUME NEW k \in Keys, AboveLower(k, lower), BelowUpper(k, upper)
      PROVE  ScanTable(c, l.mems, l.l0, l.levels, k) = Whole(l)[k]
  <2>1. PICK n, m, q : n = Len(l.mems) /\ m = Len(l.l0) /\ q = Len(l.levels)
    OBVIOUS
  <2>2. /\ n \in Nat /\ m \in Nat /\ q \in Nat
        /\ DOMAIN l.mems = 1 .. n /\ DOMAIN l.l0 = 1 .. m /\ DOMAIN l.levels = 1 .. q
    BY <1>2, <2>1
  <2>3. PICK us, vs, ws : /\ us = [i \in DOMAIN l.mems |-> c[l.mems[i]]]
                          /\ vs = [i \in DOMAIN l.l0 |-> c[l.l0[i]]]
                          /\ ws = [i \in DOMAIN l.levels |-> RunTable(c, l.levels[i])]
    OBVIOUS
  <2>4. ScanTable(c, l.mems, l.l0, l.levels, k) =
          OrElse(OrElse(FirstHit(us, k), FirstHit(vs, k)), FirstHit(ws, k))
    BY <2>3 DEF ScanTable
  <2>5. PICK tops, lows, all : tops = TopTables(l) /\ lows = LevelTables(l) /\ all = tops \o lows
    OBVIOUS
  <2>6. ws = lows
    BY <1>7, <2>3, <2>5 DEF LevelTables
  <2>7. PICK hs : hs = l.mems \o l.l0
    OBVIOUS
  <2>8. /\ hs \in Seq(H) /\ Len(hs) = n + m
        /\ \A i \in 1 .. n : hs[i] = l.mems[i]
        /\ \A i \in 1 .. m : hs[n + i] = l.l0[i]
    <3>1. PICK a, b : a = l.mems /\ b = l.l0
      OBVIOUS
    <3>2. a \in Seq(H) /\ b \in Seq(H) /\ n = Len(a) /\ m = Len(b) /\ hs = a \o b
      BY <1>2, <2>1, <2>7, <3>1
    <3>3. /\ hs \in Seq(H) /\ Len(hs) = n + m
          /\ \A i \in 1 .. n : hs[i] = a[i]
          /\ \A i \in 1 .. m : hs[n + i] = b[i]
      BY ONLY <2>2, <3>2
    <3> QED BY <3>1, <3>3
  <2>9. /\ DOMAIN tops = 1 .. n + m
        /\ \A i \in 1 .. n + m : tops[i] = l.src[hs[i]]
    <3>1. tops = [i \in DOMAIN hs |-> l.src[hs[i]]]
      BY <2>5, <2>7 DEF TopTables
    <3>2. DOMAIN hs = 1 .. n + m
      BY <2>8
    <3> QED BY <3>1, <3>2
  <2>10. \A i \in 1 .. n : tops[i][k] = us[i][k]
    <3>1. ASSUME NEW i \in 1 .. n PROVE us[i][k] = l.src[l.mems[i]][k]
      <4>1. us[i] = ScanMemtable(l.src[l.mems[i]], lower, upper)
        BY <1>5, <2>2, <2>3
      <4> QED BY <1>9, <4>1 DEF ScanMemtable
    <3>2. \A i \in 1 .. n : i \in 1 .. n + m
      BY <2>2
    <3> QED BY <2>8, <2>9, <3>1, <3>2
  <2>11. \A i \in 1 .. m : tops[n + i][k] = vs[i][k]
    <3>1. ASSUME NEW i \in 1 .. m PROVE vs[i] = l.src[l.l0[i]]
      <4>1. i \in DOMAIN l.l0 /\ l.l0[i] \in H /\ l.l0[i] \in SstHandles(l)
        BY <1>2, <2>2
      <4> QED BY <1>6, <2>3, <4>1
    <3>2. \A i \in 1 .. m : n + i \in 1 .. n + m
      BY <2>2
    <3> QED BY <2>8, <2>9, <3>1, <3>2
  <2>12. FirstHit(tops, k) = OrElse(FirstHit(us, k), FirstHit(vs, k))
    <3>1. DOMAIN us = 1 .. n /\ DOMAIN vs = 1 .. m
      BY <2>2, <2>3
    <3>2. RowsJoin(n, m, k, us, vs, tops)
      BY <2>2, <2>9, <2>10, <2>11, <3>1 DEF RowsJoin
    <3> QED BY <3>2, FirstHitConcat
  <2>13. FirstHit(all, k) = OrElse(FirstHit(tops, k), FirstHit(ws, k))
    <3>1. Len(tops) = n + m /\ Len(ws) = q /\ DOMAIN ws = 1 .. q /\ n + m \in Nat
      BY <2>2, <2>3, <2>9
    <3>2. /\ DOMAIN all = 1 .. (n + m) + q
          /\ \A i \in 1 .. n + m : all[i] = tops[i]
          /\ \A i \in 1 .. q : all[(n + m) + i] = ws[i]
      BY <2>2, <2>5, <2>6, <2>9, <3>1, SMTT(30)
    <3>3. PICK d : d = n + m
      OBVIOUS
    <3>4. /\ d \in Nat /\ DOMAIN tops = 1 .. d /\ DOMAIN ws = 1 .. q /\ DOMAIN all = 1 .. d + q
          /\ \A i \in 1 .. d : all[i][k] = tops[i][k]
          /\ \A i \in 1 .. q : all[d + i][k] = ws[i][k]
      BY <2>9, <3>1, <3>2, <3>3
    <3>5. RowsJoin(d, q, k, tops, ws, all)
      BY <2>2, <3>4 DEF RowsJoin
    <3> QED BY <3>5, FirstHitConcat
  <2> QED BY <2>4, <2>5, <2>12, <2>13 DEF Whole, Merge
<1> QED BY <1>1, <1>8, <1>9

-----------------------------------------------------------------------------
(* scan() and get() *)

(* A scan that is under way is where it has read to. *)
ScanUnderWay(l, lower, upper, i, y) ==
  /\ lower \in Bounds /\ upper \in Bounds
  /\ \E as, bs, cs : ScanReads(Cut(l, lower, upper), l.mems, l.l0, l.levels, lower, upper, i, y, as, bs, cs)

(* It starts so. *)
LEMMA UnderWayStarts ==
  ASSUME NEW l, IsLayout(l), NEW lower \in Bounds, NEW upper \in Bounds
  PROVE  ScanUnderWay(l, lower, upper,
                      ScanCreate(Cut(l, lower, upper), l.mems, l.l0, l.levels, lower, upper), <<>>)
<1>1. PICK c : c = Cut(l, lower, upper)
  OBVIOUS
<1>2. ScanInput(DOMAIN l.src, c, l.mems, l.l0, l.levels, lower, upper)
  BY <1>1, CutLayout
<1>3. \E as, bs, cs : ScanReads(c, l.mems, l.l0, l.levels, lower, upper,
                                ScanCreate(c, l.mems, l.l0, l.levels, lower, upper), <<>>, as, bs, cs)
  BY <1>2, ScanStarts
<1> QED BY <1>1, <1>3 DEF ScanUnderWay

(* It stays so. *)
LEMMA UnderWayNext ==
  ASSUME NEW l, NEW lower, NEW upper, NEW i, NEW y, ScanUnderWay(l, lower, upper, i, y), i.valid
  PROVE  ScanUnderWay(l, lower, upper, LsmIteratorNext(Cut(l, lower, upper), i),
           Append(y, [key |-> StackKey(i.inner), ent |-> StackEntry(Cut(l, lower, upper), i.inner)]))
<1>1. PICK c : c = Cut(l, lower, upper)
  OBVIOUS
<1>2. PICK as, bs, cs : ScanReads(c, l.mems, l.l0, l.levels, lower, upper, i, y, as, bs, cs)
  BY <1>1 DEF ScanUnderWay
<1>3. PICK j, z : /\ j = LsmIteratorNext(c, i)
                  /\ z = Append(y, [key |-> StackKey(i.inner), ent |-> StackEntry(c, i.inner)])
  OBVIOUS
<1>4. lower \in Bounds /\ upper \in Bounds
  BY DEF ScanUnderWay
<1>5. ScanStack(c, as, bs, cs) /\ Reading(c, as, bs, cs, lower, upper, i, y)
  BY <1>2 DEF ScanReads
<1>6. Reading(c, as, bs, cs, lower, upper, j, z)
  BY <1>3, <1>4, <1>5, ReadingNext
<1>7. ScanReads(c, l.mems, l.l0, l.levels, lower, upper, j, z, as, bs, cs)
  BY <1>2, <1>6 DEF ScanReads
<1>8. ScanUnderWay(l, lower, upper, j, z)
  BY <1>1, <1>4, <1>7 DEF ScanUnderWay
<1> QED BY <1>1, <1>3, <1>8

(* And so it lists the layout. *)
LEMMA UnderWayLists ==
  ASSUME NEW l, IsLayout(l), NEW lower, NEW upper, NEW i, NEW y, ScanUnderWay(l, lower, upper, i, y)
  PROVE  Lists(y, Whole(l), lower, upper, ~i.valid)
<1>1. PICK c : c = Cut(l, lower, upper)
  OBVIOUS
<1>2. PICK as, bs, cs : ScanReads(c, l.mems, l.l0, l.levels, lower, upper, i, y, as, bs, cs)
  BY <1>1 DEF ScanUnderWay
<1>3. lower \in Bounds /\ upper \in Bounds
  BY DEF ScanUnderWay
<1>4. ScanStack(c, as, bs, cs) /\ Reading(c, as, bs, cs, lower, upper, i, y)
  BY <1>2 DEF ScanReads
<1>5. PICK T : T = StackTable(c, as, bs, cs)
  OBVIOUS
<1>6. PICK ended : ended = ~i.valid
  OBVIOUS
<1>7. Lists(y, T, lower, upper, ended)
  BY <1>3, <1>4, <1>5, <1>6, ReadingLists
<1>8. ASSUME NEW k \in Keys, AboveLower(k, lower), BelowUpper(k, upper) PROVE T[k] = Whole(l)[k]
  <2>1. T[k] = ScanTable(c, l.mems, l.l0, l.levels, k)
    BY <1>2, <1>5, <1>8 DEF ScanReads
  <2>2. ScanTable(c, l.mems, l.l0, l.levels, k) = Whole(l)[k]
    BY <1>1, <1>3, <1>8, CutLayout
  <2> QED BY <2>1, <2>2
<1>9. Lists(y, Whole(l), lower, upper, ended)
  <2>1. PICK W : W = Whole(l)
    OBVIOUS
  <2>2. LiveIn(T, lower, upper) = LiveIn(W, lower, upper)
    BY <1>8, <2>1 DEF LiveIn
  <2>3. \A k \in LiveIn(T, lower, upper) : T[k] = W[k]
    BY <1>8, <2>1 DEF LiveIn
  <2> QED BY <1>7, <2>1, <2>2, <2>3 DEF Lists, LiveIn
<1> QED BY <1>6, <1>9

-----------------------------------------------------------------------------
(* compact_generate_sst_from_iter: counting the keys it has passed *)

(* The keys of a table below f. *)
Below(t, f) == Cardinality({j \in KeysOfTable(t) : j < f})

(* They are finitely many, more below a larger key, and one more below a   *)
(* key of the table's own.                                                 *)
LEMMA BelowIs ==
  ASSUME NEW t, NEW f \in Nat, NEW g \in Nat, f <= g
  PROVE  /\ Below(t, f) \in Nat /\ Below(t, g) \in Nat /\ Below(t, f) <= Below(t, g)
         /\ \A k \in KeysOfTable(t) : f <= k /\ k < g => Below(t, f) + 1 <= Below(t, g)
         /\ (\A j \in KeysOfTable(t) : j < f \/ g <= j) => Below(t, f) = Below(t, g)
<1>1. PICK S : S = KeysOfTable(t)
  OBVIOUS
<1>2. IsFiniteSet(S) /\ S \in SUBSET Nat
  <2>1. S \in SUBSET Keys
    BY <1>1 DEF KeysOfTable
  <2> QED BY <2>1, KeysAssumption, FS_Subset
<1>3. PICK B, C : B = {j \in S : j < f} /\ C = {j \in S : j < g}
  OBVIOUS
<1>4. B \in SUBSET C /\ C \in SUBSET S /\ \A j \in S : (j \in C <=> j < g) /\ (j \in B <=> j < f)
  <2>1. \A j \in S : j \in Nat
    BY <1>2
  <2>2. \A j \in S : j < f => j < g
    BY <2>1
  <2>3. \A j : (j \in B <=> j \in S /\ j < f) /\ (j \in C <=> j \in S /\ j < g)
    BY <1>3
  <2> QED BY <2>2, <2>3
<1>5. /\ IsFiniteSet(B) /\ IsFiniteSet(C) /\ Cardinality(B) <= Cardinality(C)
      /\ Cardinality(B) \in Nat /\ Cardinality(C) \in Nat
  BY <1>2, <1>4, FS_Subset, FS_CardinalityType
<1>6. Below(t, f) = Cardinality(B) /\ Below(t, g) = Cardinality(C)
  BY <1>1, <1>3 DEF Below
<1>7. ASSUME NEW k \in S, f <= k, k < g PROVE Cardinality(B) + 1 <= Cardinality(C)
  <2>1. k \notin B /\ k \in C
    BY <1>2, <1>4, <1>7
  <2>2. B # C
    BY <2>1
  <2>3. Cardinality(B) # Cardinality(C)
    BY <1>4, <1>5, <2>2, FS_Subset
  <2> QED BY <1>5, <2>3
<1>8. ASSUME \A j \in S : j < f \/ g <= j PROVE B = C
  <2>1. ASSUME NEW j \in C PROVE j \in B
    <3>1. j \in S /\ j \in Nat /\ j < g
      BY <1>2, <1>4
    <3> QED BY <1>4, <1>8, <3>1
  <2> QED BY <1>4, <2>1
<1> QED BY <1>1, <1>5, <1>6, <1>7, <1>8

(* One more key lies below the successor of a key of the table. *)
LEMMA BelowAdd ==
  ASSUME NEW t, NEW k \in KeysOfTable(t)
  PROVE  Below(t, k + 1) = Below(t, k) + 1
<1>1. PICK S : S = KeysOfTable(t)
  OBVIOUS
<1>2. IsFiniteSet(S) /\ S \in SUBSET Nat /\ k \in S /\ k \in Nat
  <2>1. S \in SUBSET Keys
    BY <1>1 DEF KeysOfTable
  <2> QED BY <1>1, <2>1, KeysAssumption, FS_Subset
<1>3. PICK B, C : B = {j \in S : j < k} /\ C = {j \in S : j < k + 1}
  OBVIOUS
<1>4. k \notin B /\ C = B \cup {k} /\ B \in SUBSET S
  <2>1. \A j \in S : j \in Nat
    BY <1>2
  <2>2. ~(k < k) /\ \A j \in S : j < k + 1 <=> j < k \/ j = k
    BY <1>2, <2>1
  <2>3. \A j : (j \in B <=> j \in S /\ j < k) /\ (j \in C <=> j \in S /\ j < k + 1)
    BY <1>3
  <2> QED BY <1>2, <2>2, <2>3
<1>5. IsFiniteSet(B)
  BY <1>2, <1>4, FS_Subset
<1>6. Cardinality(C) = Cardinality(B) + 1
  BY <1>4, <1>5, FS_AddElement
<1> QED BY <1>1, <1>3, <1>6 DEF Below

(* Which table of n entries the entry of rank r belongs to. *)
LEMMA DivIs ==
  ASSUME NEW r \in Nat, NEW n \in Nat \ {0}, NEW q \in Nat
  PROVE  r \div n = q <=> q * n <= r /\ r < q * n + n
<1>1. PICK d : d = r \div n
  OBVIOUS
<1>2. d \in Nat /\ d * n <= r /\ r < d * n + n
  BY <1>1
<1>3. ASSUME q * n <= r, r < q * n + n PROVE d = q
  <2>1. CASE d < q
    <3>1. (d + 1) * n <= q * n
      BY <1>2, <2>1
    <3> QED BY <1>2, <1>3, <3>1
  <2>2. CASE q < d
    <3>1. (q + 1) * n <= d * n
      BY <1>2, <2>2
    <3> QED BY <1>2, <1>3, <3>1
  <2> QED BY <1>2, <2>1, <2>2
<1> QED BY <1>1, <1>2, <1>3

(* Table i of those the entries are cut into. *)
Part(t, n, i) ==
  [k \in Keys |-> IF t[k] # Absent /\ Below(t, k) \div n = i - 1 THEN t[k] ELSE Absent]

(* The tables o are finished, b holds the entries since, up to f. *)
Written(t, n, f, b, o) ==
  /\ o \in Seq(Table) /\ \A i \in 1 .. Len(o) : o[i] = Part(t, n, i)
  /\ b = [k \in Keys |-> IF t[k] # Absent /\ k < f /\ Len(o) * n <= Below(t, k) THEN t[k] ELSE Absent]
  /\ Below(t, f) = Len(o) * n + Cardinality(KeysOfTable(b))
  /\ Below(t, f) < Len(o) * n + n

(* So it is at the start. *)
LEMMA WrittenStarts ==
  ASSUME NEW t \in Table, NEW n \in Nat \ {0}
  PROVE  Written(t, n, 0, EmptyTable, <<>>)
<1>1. \A k \in Keys : ~(k < 0)
  BY KeysAssumption
<1>2. KeysOfTable(EmptyTable) = {} /\ {j \in KeysOfTable(t) : j < 0} = {}
  BY <1>1 DEF KeysOfTable, EmptyTable
<1>3. Below(t, 0) = 0 /\ Cardinality(KeysOfTable(EmptyTable)) = 0
  BY <1>2, FS_EmptySet DEF Below
<1>4. EmptyTable = [k \in Keys |-> IF t[k] # Absent /\ k < 0 /\ 0 * n <= Below(t, k) THEN t[k] ELSE Absent]
  BY <1>1 DEF EmptyTable
<1>5. <<>> \in Seq(Table) /\ Len(<<>>) = 0
  OBVIOUS
<1> QED BY <1>3, <1>4, <1>5 DEF Written

(* Where the table holds no key, nothing is written. *)
LEMMA WrittenSame ==
  ASSUME NEW t \in Table, NEW n \in Nat \ {0}, NEW f \in Nat, NEW g \in Nat, f <= g, NEW b, NEW o,
         Written(t, n, f, b, o), \A j \in KeysOfTable(t) : j < f \/ g <= j
  PROVE  Written(t, n, g, b, o)
<1>1. Below(t, f) = Below(t, g)
  BY BelowIs
<1>2. ASSUME NEW k \in Keys, t[k] # Absent PROVE k < f <=> k < g
  <2>1. k \in KeysOfTable(t) /\ k \in Nat
    BY <1>2, KeysAssumption DEF KeysOfTable
  <2> QED BY <2>1
<1>3. PICK d : d = Len(o) * n
  OBVIOUS
<1>4. b = [k \in Keys |-> IF t[k] # Absent /\ k < g /\ d <= Below(t, k) THEN t[k] ELSE Absent]
  <2>1. b = [k \in Keys |-> IF t[k] # Absent /\ k < f /\ d <= Below(t, k) THEN t[k] ELSE Absent]
    BY <1>3 DEF Written
  <2> QED BY <1>2, <2>1
<1> QED BY <1>1, <1>3, <1>4 DEF Written

(* An entry is added, and the table is finished when that fills it. *)
LEMMA WrittenAdd ==
  ASSUME NEW t \in Table, NEW n \in Nat \ {0}, NEW k \in KeysOfTable(t), NEW b, NEW o,
         Written(t, n, k, b, o), NEW a, a = [b EXCEPT ![k] = t[k]]
  PROVE  IF Cardinality(KeysOfTable(a)) >= n THEN Written(t, n, k + 1, EmptyTable, Append(o, a))
         ELSE Written(t, n, k + 1, a, o)
<1>1. PICK q, d, c, s : /\ q = Len(o) /\ d = q * n /\ c = Below(t, k)
                        /\ s = Cardinality(KeysOfTable(b))
  OBVIOUS
<1>2. /\ o \in Seq(Table) /\ \A i \in 1 .. q : o[i] = Part(t, n, i)
      /\ b = [j \in Keys |-> IF t[j] # Absent /\ j < k /\ d <= Below(t, j) THEN t[j] ELSE Absent]
      /\ c = d + s /\ c < d + n
  BY <1>1 DEF Written
<1>3. k \in Keys /\ k \in Nat /\ t[k] # Absent
  BY KeysAssumption DEF KeysOfTable
<1>4. q \in Nat /\ d \in Nat /\ (q + 1) * n = d + n
  BY <1>1, <1>2
<1>5. KeysOfTable(a) = KeysOfTable(b) \cup {k} /\ k \notin KeysOfTable(b) /\ a \in Table
  <2>1. b[k] = Absent
    BY <1>2, <1>3
  <2>2. \A j \in Keys : b[j] \in Int
    BY <1>2 DEF Table, Absent
  <2>3. a = [j \in Keys |-> IF j = k THEN t[k] ELSE b[j]]
    BY <1>2
  <2>4. a \in Table
    BY <1>3, <2>2, <2>3 DEF Table
  <2>5. \A j \in Keys : a[j] = IF j = k THEN t[k] ELSE b[j]
    BY <2>3
  <2> QED BY <1>3, <2>1, <2>4, <2>5 DEF KeysOfTable
<1>6. s \in Nat /\ Cardinality(KeysOfTable(a)) = s + 1
  <2>1. IsFiniteSet(KeysOfTable(b))
    <3>1. KeysOfTable(b) \in SUBSET Keys
      BY DEF KeysOfTable
    <3> QED BY <3>1, KeysAssumption, FS_Subset
  <2> QED BY <1>1, <1>5, <2>1, FS_AddElement, FS_CardinalityType
<1>7. Below(t, k + 1) = c + 1 /\ c \in Nat
  <2>1. Below(t, k + 1) = Below(t, k) + 1
    BY BelowAdd
  <2> QED BY <1>1, <1>2, <1>4, <1>6, <2>1, SMTT(30)
<1>8. ASSUME NEW j \in Keys
      PROVE  /\ j \in Nat /\ Below(t, j) \in Nat /\ (j < k + 1 <=> Below(t, j) < c + 1)
             /\ (j < k + 1 <=> j < k \/ j = k)
  <2>1. j \in Nat
    BY KeysAssumption
  <2>2. CASE j <= k
    <3>1. Below(t, j) \in Nat /\ Below(t, j) <= c
      BY <1>1, <1>3, <2>1, <2>2, BelowIs
    <3> QED BY <1>3, <1>7, <2>1, <2>2, <3>1
  <2>3. CASE k < j
    <3>1. k <= k /\ k <= j
      BY <1>3, <2>1, <2>3
    <3>2. Below(t, j) \in Nat /\ c + 1 <= Below(t, j)
      BY <1>1, <1>3, <2>1, <2>3, <3>1, BelowIs
    <3> QED BY <1>3, <1>7, <2>1, <2>3, <3>2
  <2> QED BY <1>3, <2>1, <2>2, <2>3
<1>9. a = [j \in Keys |-> IF t[j] # Absent /\ j < k + 1 /\ d <= Below(t, j) THEN t[j] ELSE Absent]
  <2>1. a = [j \in Keys |-> IF j = k THEN t[k] ELSE b[j]]
    BY <1>2
  <2>2. d <= Below(t, k) /\ ~(k < k)
    BY <1>1, <1>2, <1>3, <1>4, <1>6
  <2>3. ASSUME NEW j \in Keys
        PROVE  (IF j = k THEN t[k] ELSE b[j]) =
                  IF t[j] # Absent /\ j < k + 1 /\ d <= Below(t, j) THEN t[j] ELSE Absent
    BY <1>2, <1>3, <1>8, <2>2
  <2> QED BY <2>1, <2>3
<1>10. CASE s + 1 >= n
  <2>1. c + 1 = d + n
    BY <1>2, <1>4, <1>6, <1>10
  <2>2. ASSUME NEW j \in Keys PROVE (j < k + 1 /\ d <= Below(t, j)) <=> Below(t, j) \div n = q
    <3>1. Below(t, j) \in Nat /\ (j < k + 1 <=> Below(t, j) < d + n)
      BY <1>8, <2>1
    <3>2. Below(t, j) \div n = q <=> d <= Below(t, j) /\ Below(t, j) < d + n
      BY <1>1, <1>4, <3>1, DivIs
    <3> QED BY <3>1, <3>2
  <2>3. a = Part(t, n, q + 1)
    <3>1. (q + 1) - 1 = q
      BY <1>4
    <3> QED BY <1>9, <2>2, <3>1 DEF Part
  <2>4. PICK p : p = Append(o, a)
    OBVIOUS
  <2>5. p \in Seq(Table) /\ Len(p) = q + 1 /\ \A i \in 1 .. q + 1 : p[i] = Part(t, n, i)
    <3>1. p \in Seq(Table) /\ Len(p) = q + 1 /\ p[q + 1] = a /\ \A i \in 1 .. q : p[i] = o[i]
      <4>1. o \in Seq(Table) /\ a \in Table /\ q = Len(o)
        BY <1>1, <1>2, <1>5
      <4> QED BY ONLY <2>4, <4>1
    <3>2. \A i \in 1 .. q + 1 : i \in 1 .. q \/ i = q + 1
      BY <1>4
    <3> QED BY <1>2, <2>3, <3>1, <3>2
  <2>6. EmptyTable = [j \in Keys |-> IF t[j] # Absent /\ j < k + 1 /\ d + n <= Below(t, j)
                                       THEN t[j] ELSE Absent]
    <3>1. \A j \in Keys : ~(j < k + 1 /\ d + n <= Below(t, j))
      BY <1>4, <1>7, <1>8, <2>1
    <3> QED BY <3>1 DEF EmptyTable
  <2>7. Cardinality(KeysOfTable(EmptyTable)) = 0
    <3>1. KeysOfTable(EmptyTable) = {}
      BY DEF KeysOfTable, EmptyTable
    <3> QED BY <3>1, FS_EmptySet
  <2>8. Len(p) * n = d + n /\ Below(t, k + 1) = (d + n) + 0 /\ Below(t, k + 1) < (d + n) + n
    BY <1>4, <1>7, <2>1, <2>5
  <2>9. Written(t, n, k + 1, EmptyTable, p)
    BY <2>5, <2>6, <2>7, <2>8 DEF Written
  <2> QED BY <1>6, <1>10, <2>4, <2>9
<1>11. CASE ~(s + 1 >= n)
  <2>1. Below(t, k + 1) = d + Cardinality(KeysOfTable(a)) /\ Below(t, k + 1) < d + n
    BY <1>2, <1>4, <1>6, <1>7, <1>11
  <2>2. Written(t, n, k + 1, a, o)
    BY <1>1, <1>2, <1>9, <2>1 DEF Written
  <2> QED BY <1>6, <1>11, <2>2
<1> QED BY <1>10, <1>11

(* When all keys are passed, the tables are the cuts of the table. *)
LEMMA WrittenEnds ==
  ASSUME NEW t \in Table, NEW n \in Nat \ {0}, NEW f \in Nat, NEW b, NEW o,
         Written(t, n, f, b, o), \A j \in KeysOfTable(t) : j < f
  PROVE  IF b = EmptyTable THEN o = Split(t, n) ELSE Append(o, b) = Split(t, n)
<1>1. PICK q, d, c, s : /\ q = Len(o) /\ d = q * n /\ c = Cardinality(KeysOfTable(t))
                        /\ s = Cardinality(KeysOfTable(b))
  OBVIOUS
<1>2. c = Below(t, f)
  <2>1. {j \in KeysOfTable(t) : j < f} = KeysOfTable(t)
    OBVIOUS
  <2> QED BY <1>1, <2>1 DEF Below
<1>3. /\ o \in Seq(Table) /\ \A i \in 1 .. q : o[i] = Part(t, n, i)
      /\ b = [j \in Keys |-> IF t[j] # Absent /\ j < f /\ d <= Below(t, j) THEN t[j] ELSE Absent]
      /\ c = d + s /\ c < d + n
  BY <1>1, <1>2 DEF Written
<1>4. q \in Nat /\ d \in Nat /\ (q + 1) * n = d + n
  BY <1>1, <1>3
<1>5. IsFiniteSet(KeysOfTable(b)) /\ s \in Nat
  <2>1. KeysOfTable(b) \in SUBSET Keys
    BY DEF KeysOfTable
  <2>2. IsFiniteSet(KeysOfTable(b))
    BY <2>1, KeysAssumption, FS_Subset
  <2> QED BY <1>1, <2>2, FS_CardinalityType
<1>6. PICK u : u = (c + n - 1) \div n
  OBVIOUS
<1>7. Split(t, n) = [i \in 1 .. u |-> Part(t, n, i)]
  BY <1>1, <1>6 DEF Split, Part, Below
<1>8. CASE b = EmptyTable
  <2>1. s = 0
    <3>1. KeysOfTable(b) = {}
      BY <1>8 DEF KeysOfTable, EmptyTable
    <3> QED BY <1>1, <3>1, FS_EmptySet
  <2>2. PICK r : r = c + n - 1
    OBVIOUS
  <2>3. r \in Nat /\ d <= r /\ r < d + n
    BY <1>3, <1>4, <1>5, <2>1, <2>2
  <2>4. u = q
    BY <1>1, <1>4, <1>6, <2>2, <2>3, DivIs
  <2>5. o = [i \in 1 .. q |-> Part(t, n, i)]
    BY <1>1, <1>3
  <2> QED BY <1>7, <1>8, <2>4, <2>5
<1>9. CASE b # EmptyTable
  <2>1. s > 0
    <3>1. KeysOfTable(b) # {}
      BY <1>3, <1>9 DEF KeysOfTable, EmptyTable
    <3> QED BY <1>1, <1>5, <3>1, FS_EmptySet
  <2>2. PICK r : r = c + n - 1
    OBVIOUS
  <2>3. r \in Nat /\ d + n <= r /\ r < (d + n) + n
    BY <1>3, <1>4, <1>5, <2>1, <2>2
  <2>4. u = q + 1
    <3>1. q + 1 \in Nat
      BY <1>4
    <3> QED BY <1>4, <1>6, <2>2, <2>3, <3>1, DivIs
  <2>5. ASSUME NEW j \in Keys, t[j] # Absent
        PROVE  (j < f /\ d <= Below(t, j)) <=> Below(t, j) \div n = q
    <3>1. j \in KeysOfTable(t) /\ j < f
      BY <2>5 DEF KeysOfTable
    <3>2. Below(t, j) \in Nat /\ Below(t, j) < c
      BY <1>1, <3>1, BelowFewer DEF Below
    <3>3. Below(t, j) \div n = q <=> d <= Below(t, j) /\ Below(t, j) < d + n
      BY <1>1, <1>4, <3>2, DivIs
    <3>4. Below(t, j) < d + n
      BY <1>3, <1>4, <1>5, <3>2
    <3> QED BY <3>1, <3>3, <3>4
  <2>6. b = Part(t, n, q + 1)
    <3>1. (q + 1) - 1 = q
      BY <1>4
    <3> QED BY <1>3, <2>5, <3>1 DEF Part
  <2>7. PICK p : p = Append(o, b)
    OBVIOUS
  <2>8. b \in Table
    BY <1>3 DEF Table, Absent
  <2>9. p \in Seq(Table) /\ Len(p) = q + 1 /\ \A i \in 1 .. q + 1 : p[i] = Part(t, n, i)
    <3>1. p \in Seq(Table) /\ Len(p) = q + 1 /\ p[q + 1] = b /\ \A i \in 1 .. q : p[i] = o[i]
      <4>1. o \in Seq(Table) /\ b \in Table /\ q = Len(o)
        BY <1>1, <1>3, <2>8
      <4> QED BY ONLY <2>7, <4>1
    <3>2. \A i \in 1 .. q + 1 : i \in 1 .. q \/ i = q + 1
      BY <1>4
    <3> QED BY <1>3, <2>6, <3>1, <3>2
  <2>10. p = [i \in 1 .. q + 1 |-> Part(t, n, i)]
    BY <2>9
  <2> QED BY <1>7, <1>9, <2>4, <2>7, <2>10
<1> QED BY <1>8, <1>9

-----------------------------------------------------------------------------
(* compact() *)

(* The runs of a task are in order. *)
LEMMA TaskRuns ==
  ASSUME NEW l, IsLayout(l), NEW task \in Tasks(l)
  PROVE  RunsInOrder(l.src, task.upper) /\ RunsInOrder(l.src, task.lower)
<1>1. /\ l.l0 \in Seq(DOMAIN l.src) /\ \A h \in DOMAIN l.src : l.src[h] \in Table
      /\ Len(l.levels) \in Nat /\ DOMAIN l.levels = 1 .. Len(l.levels)
      /\ {1, 2} \subseteq DOMAIN l.levels
      /\ \A i \in DOMAIN l.levels : InOrder(l.src, l.levels[i])
  BY LayoutParts
<1>2. RunsInOrder(l.src, Singles(l.l0))
  BY <1>1, SinglesRead
<1>3. RunsInOrder(l.src, l.levels)
  BY <1>1 DEF RunsInOrder
<1>4. ASSUME NEW run, InOrder(l.src, run) PROVE RunsInOrder(l.src, <<run>>)
  BY <1>4 DEF RunsInOrder
<1>5. RunsInOrder(l.src, <<>>)
  BY DEF RunsInOrder
<1>6. PICK a, b : a = l.levels[1] /\ b = l.levels[2]
  OBVIOUS
<1>7. RunsInOrder(l.src, <<a>>) /\ RunsInOrder(l.src, <<b>>)
  BY <1>1, <1>4, <1>6
<1>8. \/ task.upper = Singles(l.l0) /\ task.lower = <<a>>
      \/ task.upper = <<a>> /\ task.lower = <<b>>
      \/ task.upper = l.levels /\ task.lower = <<>>
  BY <1>6 DEF Tasks, Singles
<1> QED BY <1>2, <1>3, <1>5, <1>7, <1>8

(* What a compaction of two lists of runs is to write. *)
GenTable(s, up, low, bottom) ==
  IF bottom THEN DropTombstones(PairTable(s, up, low)) ELSE PairTable(s, up, low)

(* A compaction has read to f and written what it has read. *)
GenUnderWay(s, up, low, bottom, n, i, b, o) ==
  /\ RunsInOrder(s, up) /\ RunsInOrder(s, low) /\ bottom \in BOOLEAN
  /\ \E f \in Nat : i = PairAt(s, up, low, f) /\ Written(GenTable(s, up, low, bottom), n, f, b, o)

(* What it is to write is a table, of keys that its runs hold. *)
LEMMA GenTableIs ==
  ASSUME NEW s, NEW up, NEW low, RunsInOrder(s, up), RunsInOrder(s, low), NEW bottom \in BOOLEAN
  PROVE  /\ GenTable(s, up, low, bottom) \in Table /\ PairTable(s, up, low) \in Table
         /\ \A k \in Keys : GenTable(s, up, low, bottom)[k] =
              IF bottom /\ PairTable(s, up, low)[k] < 0 THEN Absent ELSE PairTable(s, up, low)[k]
<1>1. PICK M, t : M = PairTable(s, up, low) /\ t = GenTable(s, up, low, bottom)
  OBVIOUS
<1>2. M \in Table
  <2>1. MergeTable(s, up) \in Table /\ MergeTable(s, low) \in Table
    BY MergeTableType
  <2> QED BY <1>1, <2>1, OverType DEF PairTable
<1>3. t = IF bottom THEN DropTombstones(M) ELSE M
  BY <1>1 DEF GenTable
<1>4. \A k \in Keys : M[k] \in Int
  BY <1>2 DEF Table
<1>5. DropTombstones(M) \in Table
  BY <1>4 DEF DropTombstones, Table, Seen, Absent
<1>6. \A k \in Keys : DropTombstones(M)[k] = IF M[k] < 0 THEN Absent ELSE M[k]
  BY <1>4 DEF DropTombstones, Seen, Absent
<1> QED BY <1>1, <1>2, <1>3, <1>5, <1>6

(* It starts so. *)
LEMMA GenStarts ==
  ASSUME NEW s, NEW up, NEW low, RunsInOrder(s, up), RunsInOrder(s, low), NEW bottom \in BOOLEAN,
         NEW n \in Nat \ {0}
  PROVE  GenUnderWay(s, up, low, bottom, n,
                     PairCreate(s, MergeCreate([i \in DOMAIN up |-> SeekToFirst(s, up[i])]),
                                MergeCreate([i \in DOMAIN low |-> SeekToFirst(s, low[i])])),
                     EmptyTable, <<>>)
<1>1. ASSUME NEW runs, RunsInOrder(s, runs)
      PROVE  MergeCreate([i \in DOMAIN runs |-> SeekToFirst(s, runs[i])]) = MergeAt(s, runs, 0)
  <2>1. PICK iters : iters = [i \in DOMAIN runs |-> SeekToFirst(s, runs[i])]
    OBVIOUS
  <2>2. ASSUME NEW i \in DOMAIN runs PROVE iters[i] = RunAt(s, runs[i], 0)
    <3>1. PICK r : r = runs[i]
      OBVIOUS
    <3>2. InOrder(s, r)
      BY <1>1, <3>1 DEF RunsInOrder
    <3>3. SeekToFirst(s, r) = RunAt(s, r, 0)
      BY <3>2, SeekToFirstIs
    <3> QED BY <2>1, <3>1, <3>3
  <2>3. MergeCreate(iters) = MergeAt(s, runs, 0)
    BY <2>1, <2>2, MergeCreateIs
  <2> QED BY <2>1, <2>3
<1>2. PICK A, B : /\ A = MergeCreate([i \in DOMAIN up |-> SeekToFirst(s, up[i])])
                  /\ B = MergeCreate([i \in DOMAIN low |-> SeekToFirst(s, low[i])])
  OBVIOUS
<1>3. A = MergeAt(s, up, 0) /\ B = MergeAt(s, low, 0)
  BY <1>1, <1>2
<1>4. PairCreate(s, A, B) = PairAt(s, up, low, 0)
  BY <1>3 DEF PairAt
<1>5. Written(GenTable(s, up, low, bottom), n, 0, EmptyTable, <<>>)
  BY GenTableIs, WrittenStarts
<1>6. GenUnderWay(s, up, low, bottom, n, PairCreate(s, A, B), EmptyTable, <<>>)
  BY <1>4, <1>5 DEF GenUnderWay
<1> QED BY <1>2, <1>6

(* What the turn of the loop makes of the builder. *)
Added(s, bottom, i, b) ==
  [b EXCEPT ![PairKey(i)] = IF bottom /\ PairEntry(s, i) < 0 THEN Absent ELSE PairEntry(s, i)]

(* It stays so. *)
LEMMA GenStep ==
  ASSUME NEW s, NEW up, NEW low, NEW bottom, NEW n \in Nat \ {0}, NEW i, NEW b, NEW o,
         GenUnderWay(s, up, low, bottom, n, i, b, o), PairKey(i) # NoKey
  PROVE  IF Cardinality(KeysOfTable(Added(s, bottom, i, b))) >= n
           THEN GenUnderWay(s, up, low, bottom, n, PairNext(s, i), EmptyTable,
                            Append(o, Added(s, bottom, i, b)))
           ELSE GenUnderWay(s, up, low, bottom, n, PairNext(s, i), Added(s, bottom, i, b), o)
<1>1. RunsInOrder(s, up) /\ RunsInOrder(s, low) /\ bottom \in BOOLEAN
  BY DEF GenUnderWay
<1>2. PICK M, t : M = PairTable(s, up, low) /\ t = GenTable(s, up, low, bottom)
  OBVIOUS
<1>3. PICK f \in Nat : i = PairAt(s, up, low, f) /\ Written(t, n, f, b, o)
  BY <1>2 DEF GenUnderWay
<1>4. PICK k, e, a : k = PairKey(i) /\ e = PairEntry(s, i) /\ a = Added(s, bottom, i, b)
  OBVIOUS
<1>5. ReadsAs(M, f, k, e) /\ k # NoKey
  BY <1>1, <1>2, <1>3, <1>4, PairReads
<1>6. /\ t \in Table /\ M \in Table
      /\ \A j \in Keys : t[j] = IF bottom /\ M[j] < 0 THEN Absent ELSE M[j]
  BY <1>1, <1>2, GenTableIs
<1>7. /\ k \in KeysOfTable(M) /\ f <= k /\ e = M[k] /\ k \in Keys /\ k \in Nat
      /\ \A j \in KeysOfTable(M) : j < f \/ k <= j
  BY <1>5, KeysAssumption DEF ReadsAs, Leads, KeysOfTable
<1>8. PairNext(s, i) = PairAt(s, up, low, k + 1) /\ k + 1 \in Nat
  BY <1>1, <1>3, <1>4, <1>5, <1>7, PairNextIs
<1>9. \A j \in KeysOfTable(t) : j \in KeysOfTable(M)
  BY <1>6 DEF KeysOfTable
<1>10. Written(t, n, k, b, o)
  BY <1>3, <1>6, <1>7, <1>9, WrittenSame
<1>11. a = [b EXCEPT ![k] = t[k]]
  BY <1>4, <1>6, <1>7 DEF Added
<1>12. ASSUME NEW c, NEW p, Written(t, n, k + 1, c, p)
       PROVE  GenUnderWay(s, up, low, bottom, n, PairNext(s, i), c, p)
  BY <1>1, <1>2, <1>8, <1>12 DEF GenUnderWay
<1>13. IF Cardinality(KeysOfTable(a)) >= n THEN Written(t, n, k + 1, EmptyTable, Append(o, a))
       ELSE Written(t, n, k + 1, a, o)
  <2>1. CASE t[k] # Absent
    <3>1. k \in KeysOfTable(t)
      BY <1>7, <2>1 DEF KeysOfTable
    <3> QED BY <1>6, <1>10, <1>11, <3>1, WrittenAdd
  <2>2. CASE t[k] = Absent
    <3>1. a = b
      <4>1. b = [j \in Keys |-> b[j]] /\ b[k] = Absent
        <5>1. PICK d : d = Len(o) * n
          OBVIOUS
        <5>2. b = [j \in Keys |-> IF t[j] # Absent /\ j < k /\ d <= Below(t, j) THEN t[j] ELSE Absent]
          BY <1>10, <5>1 DEF Written
        <5> QED BY <1>7, <2>2, <5>2
      <4> QED BY <1>11, <2>2, <4>1
    <3>2. ~(Cardinality(KeysOfTable(b)) >= n)
      <4>1. PICK d, c : d = Len(o) * n /\ c = Cardinality(KeysOfTable(b))
        OBVIOUS
      <4>2. Below(t, k) = d + c /\ Below(t, k) < d + n /\ Len(o) \in Nat
        BY <1>10, <4>1 DEF Written
      <4>3. d \in Nat /\ c \in Nat
        <5>1. KeysOfTable(b) \in SUBSET Keys
          BY DEF KeysOfTable
        <5>2. IsFiniteSet(KeysOfTable(b))
          BY <5>1, KeysAssumption, FS_Subset
        <5> QED BY <4>1, <4>2, <5>2, FS_CardinalityType
      <4> QED BY <4>1, <4>2, <4>3
    <3>3. \A j \in KeysOfTable(t) : j < k \/ k + 1 <= j
      <4>1. ASSUME NEW j \in KeysOfTable(t) PROVE j # k /\ j \in Nat
        BY <2>2, KeysAssumption DEF KeysOfTable
      <4> QED BY <1>7, <4>1
    <3>4. k <= k + 1
      BY <1>7
    <3>5. Written(t, n, k + 1, b, o)
      BY <1>6, <1>7, <1>8, <1>10, <3>3, <3>4, WrittenSame
    <3> QED BY <3>1, <3>2, <3>5
  <2> QED BY <2>1, <2>2
<1> QED BY <1>4, <1>12, <1>13

(* At the end of its iterator it has written all, but for what is left in  *)
(* the builder.                                                            *)
LEMMA GenEnds ==
  ASSUME NEW s, NEW up, NEW low, NEW bottom, NEW n \in Nat \ {0}, NEW i, NEW b, NEW o,
         GenUnderWay(s, up, low, bottom, n, i, b, o), PairKey(i) = NoKey
  PROVE  IF b = EmptyTable THEN o = Split(GenTable(s, up, low, bottom), n)
         ELSE Append(o, b) = Split(GenTable(s, up, low, bottom), n)
<1>1. RunsInOrder(s, up) /\ RunsInOrder(s, low) /\ bottom \in BOOLEAN
  BY DEF GenUnderWay
<1>2. PICK M, t : M = PairTable(s, up, low) /\ t = GenTable(s, up, low, bottom)
  OBVIOUS
<1>3. PICK f \in Nat : i = PairAt(s, up, low, f) /\ Written(t, n, f, b, o)
  BY <1>2 DEF GenUnderWay
<1>4. ReadsAs(M, f, NoKey, PairEntry(s, i))
  BY <1>1, <1>2, <1>3, PairReads
<1>5. /\ t \in Table /\ M \in Table
      /\ \A j \in Keys : t[j] = IF bottom /\ M[j] < 0 THEN Absent ELSE M[j]
  BY <1>1, <1>2, GenTableIs
<1>6. \A j \in KeysOfTable(M) : j < f
  <2>1. NoKey \notin KeysOfTable(M)
    BY NoKeyIs DEF KeysOfTable
  <2> QED BY <1>4, <2>1 DEF ReadsAs, Leads
<1>7. \A j \in KeysOfTable(t) : j < f
  BY <1>5, <1>6 DEF KeysOfTable
<1> QED BY <1>2, <1>3, <1>5, <1>7, WrittenEnds

(* Two lists of runs, one over the other, are one list. *)
LEMMA PairIsMerge ==
  ASSUME NEW s, NEW up, NEW low, RunsInOrder(s, up), RunsInOrder(s, low)
  PROVE  PairTable(s, up, low) = Merge([i \in DOMAIN (up \o low) |-> RunTable(s, (up \o low)[i])])
<1>1. PICK a, b, all : a = Len(up) /\ b = Len(low) /\ all = up \o low
  OBVIOUS
<1>2. a \in Nat /\ b \in Nat /\ DOMAIN up = 1 .. a /\ DOMAIN low = 1 .. b
  BY <1>1 DEF RunsInOrder
<1>3. /\ DOMAIN all = 1 .. a + b
      /\ \A i \in 1 .. a : all[i] = up[i]
      /\ \A i \in 1 .. b : all[a + i] = low[i]
  BY <1>1, <1>2
<1>4. PICK us, ts, vs : /\ us = [i \in DOMAIN up |-> RunTable(s, up[i])]
                        /\ ts = [i \in DOMAIN low |-> RunTable(s, low[i])]
                        /\ vs = [i \in DOMAIN all |-> RunTable(s, all[i])]
  OBVIOUS
<1>5. /\ DOMAIN us = 1 .. a /\ DOMAIN ts = 1 .. b /\ DOMAIN vs = 1 .. a + b
      /\ \A i \in 1 .. a : vs[i] = us[i]
      /\ \A i \in 1 .. b : vs[a + i] = ts[i]
  BY <1>2, <1>3, <1>4
<1>6. ASSUME NEW k \in Keys PROVE FirstHit(vs, k) = OrElse(FirstHit(us, k), FirstHit(ts, k))
  <2>1. /\ \A i \in 1 .. a : vs[i][k] = us[i][k]
        /\ \A i \in 1 .. b : vs[a + i][k] = ts[i][k]
    BY <1>5
  <2>2. RowsJoin(a, b, k, us, ts, vs)
    BY <1>2, <1>5, <2>1 DEF RowsJoin
  <2> QED BY <2>2, FirstHitConcat
<1>7. PairTable(s, up, low) = Merge(vs)
  BY <1>4, <1>6 DEF PairTable, Over, MergeTable, Merge
<1> QED BY <1>1, <1>4, <1>7

-----------------------------------------------------------------------------
(* The calls *)

GetAnswer(l, k) ==
  Seen(OrElse(FirstHit([i \in DOMAIN l.l0 |-> l.src[l.l0[i]]], k), FirstHit(LevelTables(l), k)))

GenOver(s, up, low, bottom, n, i, b, o) ==
  /\ RunsInOrder(s, up) /\ RunsInOrder(s, low) /\ PairKey(i) = NoKey /\ b = EmptyTable
  /\ o = Split(GenTable(s, up, low, bottom), n)

ScanPart == ScanUnderWay(layout, call.lower, call.upper, it, yielded)

GetPart == call.key \in Keys /\ yielded = <<GetAnswer(layout, call.key)>>

CompactPart ==
  \/ GenUnderWay(layout.src, call.task.upper, call.task.lower, call.bottom, SstEntries, it, builder, output)
  \/ GenOver(layout.src, call.task.upper, call.task.lower, call.bottom, SstEntries, it, builder, output)

(* The inductive invariant: where the call that is under way has got to. *)
CallInv ==
  /\ layout \in Layouts
  /\ \/ call = Idle /\ yielded = <<>> /\ builder = EmptyTable /\ output = <<>>
     \/ call.type = "scan" /\ ScanPart
     \/ call.type = "get" /\ GetPart
     \/ call.type = "compact" /\ CompactPart

(* Every step keeps it. *)
LEMMA CallStep ==
  ASSUME CallInv, [Next]_vars
  PROVE  CallInv'
<1>1. layout \in Layouts /\ IsLayout(layout)
  BY LayoutsAssumption DEF CallInv
<1>2. SstEntries \in Nat \ {0}
  BY SstEntriesAssumption
<1>3. call = Idle => yielded = <<>> /\ builder = EmptyTable /\ output = <<>>
  BY DEF CallInv, Idle
<1>4. ASSUME NEW k \in Keys, NEW maybe \in SUBSET SstHandles(layout), Get(k, maybe)
      PROVE  CallInv'
  <2>1. /\ layout' = layout /\ call' = [type |-> "get", key |-> k]
        /\ yielded' = <<GetFromTables(layout.src, layout.l0, layout.levels, k, maybe)>>
    BY <1>4 DEF Get, src
  <2>2. GetFromTables(layout.src, layout.l0, layout.levels, k, maybe) = GetAnswer(layout, k)
    BY <1>1, GetLayout DEF GetAnswer
  <2>3. call'.type = "get" /\ call'.key = k
    BY <2>1
  <2>4. GetPart'
    BY <2>1, <2>2, <2>3 DEF GetPart
  <2> QED BY <1>1, <2>1, <2>3, <2>4 DEF CallInv
<1>5. ASSUME NEW b \in ScanBounds, Scan(b.lower, b.upper)
      PROVE  CallInv'
  <2>1. PICK lower, upper : lower = b.lower /\ upper = b.upper
    OBVIOUS
  <2>2. lower \in Bounds /\ upper \in Bounds
    BY <2>1, ScanBoundsAssumption
  <2>3. /\ call = Idle /\ layout' = layout /\ yielded' = yielded
        /\ call' = [type |-> "scan", lower |-> lower, upper |-> upper]
        /\ it' = ScanCreate(Cut(layout, lower, upper), layout.mems, layout.l0, layout.levels, lower, upper)
    BY <1>5, <2>1 DEF Scan, scanned, src, Cut
  <2>4. ScanUnderWay(layout, lower, upper, it', <<>>)
    BY <1>1, <2>2, <2>3, UnderWayStarts
  <2>5. call'.type = "scan" /\ call'.lower = lower /\ call'.upper = upper /\ yielded' = <<>>
    BY <1>3, <2>3
  <2>6. ScanPart'
    BY <2>3, <2>4, <2>5 DEF ScanPart
  <2> QED BY <1>1, <2>3, <2>5, <2>6 DEF CallInv
<1>6. CASE ScanNext
  <2>1. PICK c : c = Cut(layout, call.lower, call.upper)
    OBVIOUS
  <2>2. /\ call.type = "scan" /\ it.valid /\ layout' = layout /\ call' = call
        /\ yielded' = Append(yielded, [key |-> StackKey(it.inner), ent |-> StackEntry(c, it.inner)])
        /\ it' = LsmIteratorNext(c, it)
    BY <1>6, <2>1 DEF ScanNext, scanned, src, Cut
  <2>3. ScanUnderWay(layout, call.lower, call.upper, it, yielded)
    BY <2>2 DEF CallInv, ScanPart, Idle
  <2>4. ScanUnderWay(layout, call.lower, call.upper, it', yielded')
    BY <2>1, <2>2, <2>3, UnderWayNext
  <2>5. ScanPart'
    BY <2>2, <2>4 DEF ScanPart
  <2> QED BY <1>1, <2>2, <2>5 DEF CallInv
<1>7. ASSUME NEW task \in Tasks(layout), NEW bottom \in BOOLEAN, Compact(task, bottom)
      PROVE  CallInv'
  <2>1. PICK up, low : up = task.upper /\ low = task.lower
    OBVIOUS
  <2>2. /\ call = Idle /\ layout' = layout /\ builder' = builder /\ output' = output
        /\ call' = [type |-> "compact", task |-> task, bottom |-> bottom]
        /\ it' = PairCreate(layout.src, MergeCreate([i \in DOMAIN up |-> SeekToFirst(layout.src, up[i])]),
                            MergeCreate([i \in DOMAIN low |-> SeekToFirst(layout.src, low[i])]))
    BY <1>7, <2>1 DEF Compact, CompactCreate, src
  <2>3. RunsInOrder(layout.src, up) /\ RunsInOrder(layout.src, low)
    BY <1>1, <2>1, TaskRuns
  <2>4. GenUnderWay(layout.src, up, low, bottom, SstEntries, it', EmptyTable, <<>>)
    BY <1>2, <2>2, <2>3, GenStarts
  <2>5. /\ call'.type = "compact" /\ call'.task = task /\ call'.bottom = bottom
        /\ builder' = EmptyTable /\ output' = <<>>
    BY <1>3, <2>2
  <2>6. CompactPart'
    BY <2>1, <2>2, <2>4, <2>5 DEF CompactPart
  <2> QED BY <1>1, <2>2, <2>5, <2>6 DEF CallInv
<1>8. ASSUME call.type = "compact" PROVE CompactPart
  BY <1>8 DEF CallInv, Idle
<1>9. CASE GenerateNext
  <2>1. PICK up, low, bottom : up = call.task.upper /\ low = call.task.lower /\ bottom = call.bottom
    OBVIOUS
  <2>2. PICK a : a = Added(layout.src, bottom, it, builder)
    OBVIOUS
  <2>3. /\ call.type = "compact" /\ PairKey(it) # NoKey /\ layout' = layout /\ call' = call
        /\ it' = PairNext(layout.src, it)
        /\ IF Cardinality(KeysOfTable(a)) >= SstEntries
             THEN builder' = EmptyTable /\ output' = Append(output, a)
             ELSE builder' = a /\ output' = output
    BY <1>9, <2>1, <2>2 DEF GenerateNext, Added, BuilderSize, src
  <2>4. GenUnderWay(layout.src, up, low, bottom, SstEntries, it, builder, output)
    BY <1>8, <2>1, <2>3 DEF CompactPart, GenOver
  <2>5. IF Cardinality(KeysOfTable(a)) >= SstEntries
          THEN GenUnderWay(layout.src, up, low, bottom, SstEntries, it', EmptyTable, Append(output, a))
          ELSE GenUnderWay(layout.src, up, low, bottom, SstEntries, it', a, output)
    BY <1>2, <2>2, <2>3, <2>4, GenStep
  <2>6. GenUnderWay(layout.src, up, low, bottom, SstEntries, it', builder', output')
    BY <2>3, <2>5
  <2>7. CompactPart'
    BY <2>1, <2>3, <2>6 DEF CompactPart
  <2> QED BY <1>1, <2>3, <2>7 DEF CallInv
<1>10. CASE GenerateEnd
  <2>1. PICK up, low, bottom : up = call.task.upper /\ low = call.task.lower /\ bottom = call.bottom
    OBVIOUS
  <2>2. /\ call.type = "compact" /\ PairKey(it) = NoKey /\ builder # EmptyTable
        /\ layout' = layout /\ call' = call /\ it' = it
        /\ output' = Append(output, builder) /\ builder' = EmptyTable
    BY <1>10 DEF GenerateEnd
  <2>3. GenUnderWay(layout.src, up, low, bottom, SstEntries, it, builder, output)
    BY <1>8, <2>1, <2>2 DEF CompactPart, GenOver
  <2>4. Append(output, builder) = Split(GenTable(layout.src, up, low, bottom), SstEntries)
    BY <1>2, <2>2, <2>3, GenEnds
  <2>5. GenOver(layout.src, up, low, bottom, SstEntries, it', builder', output')
    BY <2>2, <2>3, <2>4 DEF GenOver, GenUnderWay
  <2>6. CompactPart'
    BY <2>1, <2>2, <2>5 DEF CompactPart
  <2> QED BY <1>1, <2>2, <2>6 DEF CallInv
<1>11. CASE UNCHANGED vars
  BY <1>11 DEF CallInv, vars, ScanPart, GetPart, CompactPart
<1> QED BY <1>4, <1>5, <1>6, <1>7, <1>9, <1>10, <1>11 DEF Next

(* It holds throughout. *)
LEMMA CallsKeepInv == Spec => []CallInv
<1>1. Init => CallInv
  BY DEF Init, CallInv
<1>2. CallInv /\ [Next]_vars => CallInv'
  BY CallStep
<1> QED BY <1>1, <1>2, PTL DEF Spec

(* Over any layout of tables a scan yields the live keys between its       *)
(* bounds in order, once each and with the newest values, and ends after   *)
(* the last one: LsmIterator over the two TwoMergeIterators.               *)
THEOREM ScanExactCorrect == Spec => []ScanExact
<1>1. CallInv => ScanExact
  <2> SUFFICES ASSUME CallInv, call.type = "scan"
               PROVE  Lists(yielded, Everything, call.lower, call.upper, ~it.valid)
    BY DEF ScanExact
  <2>1. IsLayout(layout)
    BY LayoutsAssumption DEF CallInv
  <2>2. ScanUnderWay(layout, call.lower, call.upper, it, yielded)
    BY DEF CallInv, ScanPart, Idle
  <2>3. Lists(yielded, Whole(layout), call.lower, call.upper, ~it.valid)
    BY <2>1, <2>2, UnderWayLists
  <2>4. Everything = Whole(layout)
    BY DEF Everything, Whole, TopTables, LevelTables, Contents, Runs, RunTable, src
  <2> QED BY <2>3, <2>4
<1> QED BY <1>1, CallsKeepInv, PTL

(* get() answers what the newest table that holds the key says, whatever   *)
(* tables pass their Bloom filters without holding it.                     *)
THEOREM GetExactCorrect == Spec => []GetExact
<1>1. CallInv => GetExact
  <2> SUFFICES ASSUME CallInv, call.type = "get"
               PROVE  yielded = <<Seen(OrElse(FirstHit(Contents(layout.l0), call.key),
                                              FirstHit(Runs(layout.levels), call.key)))>>
    BY DEF GetExact
  <2>1. yielded = <<GetAnswer(layout, call.key)>>
    BY DEF CallInv, GetPart, Idle
  <2> QED BY <2>1 DEF GetAnswer, LevelTables, Contents, Runs, RunTable, src
<1> QED BY <1>1, CallsKeepInv, PTL

(* compact_generate_sst_from_iter writes the merge of the tables of its    *)
(* task, cut into tables of the target size, with its tombstones unless it *)
(* compacts to the bottom level.                                           *)
THEOREM GenerateExactCorrect == Spec => []GenerateExact
<1>1. CallInv => GenerateExact
  <2> SUFFICES ASSUME CallInv, call.type = "compact", PairKey(it) = NoKey, builder = EmptyTable
               PROVE  LET merged == Merge(Runs(call.task.upper \o call.task.lower))
                      IN  output = Split(IF call.bottom THEN DropTombstones(merged) ELSE merged,
                                         SstEntries)
    BY DEF GenerateExact
  <2>1. PICK up, low, bottom : up = call.task.upper /\ low = call.task.lower /\ bottom = call.bottom
    OBVIOUS
  <2>2. SstEntries \in Nat \ {0}
    BY SstEntriesAssumption
  <2>3. \/ GenUnderWay(layout.src, up, low, bottom, SstEntries, it, builder, output)
        \/ GenOver(layout.src, up, low, bottom, SstEntries, it, builder, output)
    BY <2>1 DEF CallInv, CompactPart, Idle
  <2>4. RunsInOrder(layout.src, up) /\ RunsInOrder(layout.src, low)
    BY <2>3 DEF GenUnderWay, GenOver
  <2>5. output = Split(GenTable(layout.src, up, low, bottom), SstEntries)
    <3>1. CASE GenOver(layout.src, up, low, bottom, SstEntries, it, builder, output)
      BY <3>1 DEF GenOver
    <3>2. CASE GenUnderWay(layout.src, up, low, bottom, SstEntries, it, builder, output)
      BY <2>2, <3>2, GenEnds
    <3> QED BY <2>3, <3>1, <3>2
  <2>6. PairTable(layout.src, up, low) = Merge(Runs(up \o low))
    BY <2>4, PairIsMerge DEF Runs, Contents, RunTable, src
  <2> QED BY <2>1, <2>5, <2>6 DEF GenTable
<1> QED BY <1>1, CallsKeepInv, PTL
=============================================================================
