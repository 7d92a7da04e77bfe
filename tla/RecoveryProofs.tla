--------------------------- MODULE RecoveryProofs ---------------------------
(***************************************************************************)
(* What open() finds in the directory of a process that was killed or      *)
(* closed.  Reading the manifest gives back the records written            *)
(* (Encodes), and replaying those gives the state in memory except where a *)
(* thread is between a swap and its record (ManifestHolds).  The MemTables *)
(* and their logs follow (Ordered, Lined), and with them what close() and  *)
(* sync() promise (Closed, Durably).  All of it is about the first life of *)
(* a directory: from the second on the manifest is overwritten.            *)
(***************************************************************************)
EXTENDS LsmStorageProofs

(* The records of the manifest. *)
RecordTypes == {"Flush", "NewMemtable", "Compaction"}

(* Where the records of a file begin and end: record i takes the cells     *)
(* from off[i - 1] + 1 to off[i], and every cell belongs to a record.      *)
Offsets(file, recs, off) ==
  /\ off \in [0 .. Len(recs) -> Nat] /\ off[0] = 0 /\ off[Len(recs)] = Len(file)
  /\ \A i \in 1 .. Len(recs) :
       /\ off[i] = off[i - 1] + Width(recs[i])
       /\ \A j \in 1 .. Width(recs[i]) : file[off[i - 1] + j] = [rec |-> recs[i], at |-> j]
  /\ \A i, j \in 0 .. Len(recs) : i < j => off[i] < off[j]
  /\ \A p \in 1 .. Len(file) : \E i \in 1 .. Len(recs) : off[i - 1] < p /\ p <= off[i]

(* A file that holds the records, one after the other. *)
Encodes(file, recs) ==
  /\ \E C : file \in Seq(C)
  /\ \E R : recs \in Seq(R)
  /\ \A i \in DOMAIN recs : recs[i].type \in RecordTypes
  /\ \E off : Offsets(file, recs, off)

(* A record has at least one cell. *)
LEMMA WidthPositive ==
  ASSUME NEW r, r.type \in RecordTypes
  PROVE  Width(r) \in Nat \ {0}
BY DEF Width, RecordTypes

(* An empty file holds no record. *)
LEMMA EncodesNone == Encodes(<<>>, <<>>)
<1> DEFINE off == [i \in 0 .. 0 |-> 0]
<1>1. <<>> \in Seq({}) /\ Len(<<>>) = 0
  OBVIOUS
<1>2. Offsets(<<>>, <<>>, off)
  BY <1>1 DEF Offsets
<1> QED BY <1>1, <1>2 DEF Encodes

(* A record written at the end of the file comes after the others. *)
LEMMA EncodesAppend ==
  ASSUME NEW file, NEW recs, NEW r, Encodes(file, recs), r.type \in RecordTypes
  PROVE  Encodes(Overwrite(file, Len(file), r, Width(r)), Append(recs, r))
<1> DEFINE new == Overwrite(file, Len(file), r, Width(r))
           all == Append(recs, r)
           n   == Len(recs)
           w   == Width(r)
           m   == Len(file)
<1>1. PICK C : file \in Seq(C)
  BY DEF Encodes
<1>2. PICK R : recs \in Seq(R)
  BY DEF Encodes
<1>3. PICK off : Offsets(file, recs, off)
  BY DEF Encodes
<1>4. w \in Nat /\ w > 0 /\ m \in Nat /\ n \in Nat /\ DOMAIN file = 1 .. m /\ DOMAIN recs = 1 .. n
  BY <1>1, <1>2, WidthPositive
<1>5. new = [i \in 1 .. m + w |-> IF i \in m + 1 .. m + w THEN [rec |-> r, at |-> i - m]
                                  ELSE file[i]]
  BY <1>4 DEF Overwrite
<1>6. /\ \E D : new \in Seq(D)
      /\ Len(new) = m + w
      /\ \A i \in 1 .. m : new[i] = file[i]
      /\ \A j \in 1 .. w : new[m + j] = [rec |-> r, at |-> j]
  <2> DEFINE D == {new[i] : i \in 1 .. m + w}
  <2>1. new = [i \in 1 .. m + w |-> new[i]] /\ \A i \in 1 .. m + w : new[i] \in D
    BY <1>5
  <2>2. \A i \in 1 .. m : new[i] = file[i]
    BY <1>4, <1>5
  <2>3. ASSUME NEW j \in 1 .. w PROVE new[m + j] = [rec |-> r, at |-> j]
    <3>1. m + j \in m + 1 .. m + w /\ m + j \in 1 .. m + w /\ m + j - m = j
      BY <1>4
    <3> QED BY <1>5, <3>1
  <2> HIDE DEF new, D, m, w
  <2>4. new \in Seq(D) /\ Len(new) = m + w
    BY <1>4, <2>1, FunctionIsSeq
  <2> QED BY <2>2, <2>3, <2>4
<1>7. /\ all \in Seq(R \cup {r}) /\ Len(all) = n + 1 /\ DOMAIN all = 1 .. n + 1
      /\ all[n + 1] = r /\ \A i \in 1 .. n : all[i] = recs[i]
  BY <1>2, <1>4
<1>8. \A i \in DOMAIN all : all[i].type \in RecordTypes
  <2>1. \A i \in 1 .. n : recs[i].type \in RecordTypes
    BY <1>4 DEF Encodes
  <2> QED BY <1>4, <1>7, <2>1
<1> DEFINE end == [i \in 0 .. n + 1 |-> IF i = n + 1 THEN m + w ELSE off[i]]
<1>9. Offsets(new, all, end)
  <2> HIDE DEF new, all, m, w, n
  <2>0. /\ off \in [0 .. n -> Nat] /\ off[0] = 0 /\ off[n] = m
        /\ \A i \in 1 .. n : /\ off[i] = off[i - 1] + Width(recs[i])
                             /\ \A j \in 1 .. Width(recs[i]) :
                                  file[off[i - 1] + j] = [rec |-> recs[i], at |-> j]
        /\ \A i, j \in 0 .. n : i < j => off[i] < off[j]
        /\ \A p \in 1 .. m : \E i \in 1 .. n : off[i - 1] < p /\ p <= off[i]
    BY <1>3 DEF Offsets, n, m
  <2>o. ASSUME NEW i \in 0 .. n PROVE off[i] \in Nat /\ off[i] <= m
    <3>1. off[i] \in Nat /\ n \in 0 .. n
      BY <1>4, <2>0
    <3>2. CASE i = n
      BY <1>4, <2>0, <3>1, <3>2
    <3>3. CASE i < n
      BY <1>4, <2>0, <3>1, <3>3
    <3> QED BY <1>4, <3>2, <3>3
  <2>1. /\ end \in [0 .. n + 1 -> Nat] /\ end[0] = 0 /\ end[n + 1] = m + w /\ end[n] = m
        /\ \A i \in 0 .. n : end[i] = off[i]
    BY <1>4, <2>0
  <2> HIDE DEF end
  <2>2. ASSUME NEW i \in 1 .. n + 1
        PROVE  /\ end[i] = end[i - 1] + Width(all[i])
               /\ \A j \in 1 .. Width(all[i]) : new[end[i - 1] + j] = [rec |-> all[i], at |-> j]
    <3>1. CASE i = n + 1
      <4>1. all[i] = r /\ end[i - 1] = m /\ end[i] = m + w /\ Width(all[i]) = w
        BY <1>4, <1>7, <2>1, <3>1 DEF w
      <4> QED BY <1>6, <4>1
    <3>2. CASE i # n + 1
      <4>1. i \in 1 .. n /\ i - 1 \in 0 .. n /\ i \in 0 .. n
        BY <1>4, <3>2
      <4>2. all[i] = recs[i] /\ end[i] = off[i] /\ end[i - 1] = off[i - 1]
        BY <1>7, <2>1, <4>1
      <4>3. ASSUME NEW j \in 1 .. Width(recs[i])
            PROVE  new[off[i - 1] + j] = [rec |-> recs[i], at |-> j]
        <5>1. Width(recs[i]) \in Nat
          BY <1>4, <4>1, WidthPositive DEF Encodes
        <5>2. off[i] <= m /\ off[i] \in Nat /\ off[i - 1] \in Nat
          BY <2>o, <4>1
        <5>3. off[i] = off[i - 1] + Width(recs[i])
          BY <2>0, <4>1
        <5>4. off[i - 1] + j \in 1 .. m
          BY <1>4, <5>1, <5>2, <5>3
        <5> QED BY <1>6, <2>0, <4>1, <5>4
      <4> QED BY <2>0, <4>1, <4>2, <4>3
    <3> QED BY <3>1, <3>2
  <2>3. ASSUME NEW i \in 0 .. n + 1, NEW j \in 0 .. n + 1, i < j PROVE end[i] < end[j]
    <3>1. i \in 0 .. n
      BY <1>4, <2>3
    <3>2. off[i] <= m /\ off[i] \in Nat
      BY <2>o, <3>1
    <3>3. CASE j = n + 1
      BY <1>4, <2>1, <3>1, <3>2, <3>3
    <3>4. CASE j \in 0 .. n
      BY <2>0, <2>1, <2>3, <3>1, <3>4
    <3> QED BY <1>4, <3>3, <3>4
  <2>4. ASSUME NEW p \in 1 .. m + w
        PROVE  \E i \in 1 .. n + 1 : end[i - 1] < p /\ p <= end[i]
    <3>1. CASE p \in 1 .. m
      <4>1. PICK i \in 1 .. n : off[i - 1] < p /\ p <= off[i]
        BY <2>0, <3>1
      <4>2. i \in 1 .. n + 1 /\ i \in 0 .. n /\ i - 1 \in 0 .. n
        BY <1>4
      <4>3. end[i - 1] = off[i - 1] /\ end[i] = off[i]
        BY <2>1, <4>2
      <4> QED BY <4>1, <4>2, <4>3
    <3>2. CASE p \notin 1 .. m
      <4>1. n + 1 \in 1 .. n + 1 /\ (n + 1) - 1 = n /\ m < p /\ p <= m + w
        BY <1>4, <3>2
      <4>2. end[(n + 1) - 1] < p /\ p <= end[n + 1]
        BY <2>1, <4>1
      <4> QED BY ONLY <4>1, <4>2, Zenon
    <3> QED BY <3>1, <3>2
  <2> QED BY <1>6, <1>7, <2>1, <2>2, <2>3, <2>4 DEF Offsets
<1>10. Encodes(new, all)
  <2> HIDE DEF new, all
  <2> QED BY <1>6, <1>7, <1>8, <1>9 DEF Encodes
<1> QED BY <1>10

(* What Manifest::recover reads from an offset on, given what it reads     *)
(* from the offsets after it.                                              *)
ReadFrom(file, read, o) ==
  IF o = Len(file) THEN [ok |-> TRUE, records |-> <<>>]
  ELSE IF ~IntactAt(file, o) THEN [ok |-> FALSE, records |-> <<>>]
  ELSE [read[o + Width(file[o + 1].rec)] EXCEPT !.records = <<file[o + 1].rec>> \o @]

(* Reading succeeds if some function reads that way. *)
LEMMA ParseReads ==
  ASSUME NEW file, NEW f, f = [o \in 0 .. Len(file) |-> ReadFrom(file, f, o)]
  PROVE  \E read : /\ read = [o \in 0 .. Len(file) |-> ReadFrom(file, read, o)]
                   /\ Parse(file) = read[0]
<1> DEFINE Reads(g) == g = [o \in 0 .. Len(file) |-> ReadFrom(file, g, o)]
<1>1. Parse(file) = (CHOOSE g : Reads(g))[0]
  BY DEF Parse, ReadFrom
<1>2. Reads(CHOOSE g : Reads(g))
  OBVIOUS
<1> QED BY <1>1, <1>2

(* The records from the i-th on, without it. *)
After(recs, i) == [j \in 1 .. Len(recs) - i |-> recs[i + j]]

(* They are the next one and those after that. *)
LEMMA AfterNext ==
  ASSUME NEW R, NEW recs \in Seq(R), NEW i \in 0 .. Len(recs) - 1
  PROVE  /\ <<recs[i + 1]>> \o After(recs, i + 1) = After(recs, i)
         /\ After(recs, Len(recs)) = <<>> /\ After(recs, 0) = recs
<1> DEFINE n == Len(recs)
           a == After(recs, i + 1)
           b == After(recs, i)
<1>1. n \in Nat /\ DOMAIN recs = 1 .. n /\ i \in Nat /\ n - i \in Nat /\ n - (i + 1) \in Nat
      /\ recs = [j \in 1 .. n |-> recs[j]]
  OBVIOUS
<1>2. a \in Seq(R) /\ Len(a) = n - (i + 1) /\ \A j \in 1 .. n - (i + 1) : a[j] = recs[(i + 1) + j]
  <2>1. a = [j \in 1 .. n - (i + 1) |-> a[j]] /\ \A j \in 1 .. n - (i + 1) : a[j] = recs[(i + 1) + j]
    BY DEF After
  <2>2. \A j \in 1 .. n - (i + 1) : a[j] \in R
    BY <1>1, <2>1
  <2> DEFINE k == n - (i + 1)
  <2>3. k \in Nat /\ a = [j \in 1 .. k |-> a[j]] /\ \A j \in 1 .. k : a[j] \in R
    BY <1>1, <2>1, <2>2
  <2>4. a \in Seq(R) /\ Len(a) = k
    <3> HIDE DEF a, k
    <3> QED BY <2>3, FunctionIsSeq
  <2> QED BY <2>1, <2>4
<1>3. b \in Seq(R) /\ Len(b) = n - i /\ \A j \in 1 .. n - i : b[j] = recs[i + j]
  <2>1. b = [j \in 1 .. n - i |-> b[j]] /\ \A j \in 1 .. n - i : b[j] = recs[i + j]
    BY DEF After
  <2>2. ASSUME NEW j \in 1 .. n - i PROVE b[j] \in R
    <3>1. i + j \in 1 .. n
      BY <1>1
    <3>2. recs[i + j] \in R
      BY <3>1
    <3> QED BY <2>1, <3>2
  <2> DEFINE k == n - i
  <2>3. k \in Nat /\ b = [j \in 1 .. k |-> b[j]] /\ \A j \in 1 .. k : b[j] \in R
    BY <1>1, <2>1, <2>2
  <2>4. b \in Seq(R) /\ Len(b) = k
    <3> HIDE DEF b, k
    <3> QED BY <2>3, FunctionIsSeq
  <2> QED BY <2>1, <2>4
<1>4. recs[i + 1] \in R
  BY <1>1
<1> DEFINE c == <<recs[i + 1]>> \o a
<1>5. c \in Seq(R) /\ Len(c) = n - i
  <2> HIDE DEF a, n
  <2> QED BY <1>1, <1>2, <1>4
<1>6. ASSUME NEW j \in 1 .. n - i PROVE c[j] = b[j]
  <2> HIDE DEF a, b, n
  <2>1. CASE j = 1
    <3>1. 1 \in 1 .. n - i /\ b[1] = recs[i + 1]
      BY <1>3, <2>1
    <3>2. c[1] = recs[i + 1]
      BY <1>2, <1>4
    <3> QED BY <2>1, <3>1, <3>2
  <2>2. CASE j # 1
    <3>1. j - 1 \in 1 .. n - (i + 1) /\ (i + 1) + (j - 1) = i + j
      BY <1>1, <2>2
    <3>2. c[j] = a[j - 1]
      BY <1>1, <1>2, <1>4, <2>2
    <3> QED BY <1>2, <1>3, <3>1, <3>2
  <2> QED BY <2>1, <2>2
<1>7. c = b
  <2> DEFINE k == n - i
  <2> HIDE DEF a, b, c, n
  <2>1. /\ c \in Seq(R) /\ b \in Seq(R) /\ Len(c) = k /\ Len(b) = k
        /\ \A j \in 1 .. k : c[j] = b[j]
    BY <1>3, <1>5, <1>6
  <2> HIDE DEF k
  <2>2. c = [j \in 1 .. k |-> c[j]] /\ b = [j \in 1 .. k |-> b[j]]
    BY <2>1
  <2> QED BY <2>1, <2>2
<1>8. After(recs, n) = <<>>
  <2>1. 1 .. n - n = {}
    BY <1>1
  <2> QED BY <2>1 DEF After
<1>9. After(recs, 0) = recs
  BY <1>1 DEF After
<1> QED BY <1>7, <1>8, <1>9

(* A file that holds records is read, and gives them back. *)
LEMMA ParseEncoded ==
  ASSUME NEW file, NEW recs, Encodes(file, recs)
  PROVE  Parse(file) = [ok |-> TRUE, records |-> recs]
<1> DEFINE n == Len(recs)
           m == Len(file)
           Good(i) == [ok |-> TRUE, records |-> After(recs, i)]
           Bad == [ok |-> FALSE, records |-> <<>>]
<1>1. PICK C : file \in Seq(C)
  BY DEF Encodes
<1>2. PICK R : recs \in Seq(R)
  BY DEF Encodes
<1>3. PICK off : Offsets(file, recs, off)
  BY DEF Encodes
<1>4. m \in Nat /\ n \in Nat /\ DOMAIN file = 1 .. m /\ DOMAIN recs = 1 .. n
  BY <1>1, <1>2
<1>5. /\ off \in [0 .. n -> Nat] /\ off[0] = 0 /\ off[n] = m
      /\ \A i \in 1 .. n : /\ off[i] = off[i - 1] + Width(recs[i])
                           /\ \A j \in 1 .. Width(recs[i]) :
                                file[off[i - 1] + j] = [rec |-> recs[i], at |-> j]
      /\ \A i, j \in 0 .. n : i < j => off[i] < off[j]
      /\ \A p \in 1 .. m : \E i \in 1 .. n : off[i - 1] < p /\ p <= off[i]
  BY <1>3 DEF Offsets
<1>6. \A i \in 1 .. n : Width(recs[i]) \in Nat \ {0}
  BY <1>4, WidthPositive DEF Encodes
<1> HIDE DEF n, m
<1>7. ASSUME NEW i \in 0 .. n PROVE off[i] \in 0 .. m /\ (i # n => off[i] # m)
  <2>0. n \in 0 .. n
    BY <1>4
  <2>1. off[i] \in Nat
    BY <1>5
  <2>2. CASE i = n
    BY <1>4, <1>5, <2>0, <2>1, <2>2
  <2>3. CASE i < n
    <3>1. off[i] < off[n]
      BY <1>5, <2>0, <2>1, <2>3
    <3>2. off[n] = m
      BY <1>5
    <3> QED BY ONLY <1>4, <2>1, <3>1, <3>2
  <2> QED BY <1>4, <2>2, <2>3
<1>8. ASSUME NEW i \in 0 .. n, i # n
      PROVE  /\ off[i] # m /\ IntactAt(file, off[i]) /\ file[off[i] + 1].rec = recs[i + 1]
             /\ off[i] + Width(file[off[i] + 1].rec) = off[i + 1]
  <2> DEFINE w == Width(recs[i + 1])
  <2>1. /\ i + 1 \in 1 .. n /\ (i + 1) - 1 = i /\ i + 1 \in 0 .. n
    BY <1>4, <1>8
  <2>2. off[i] \in 0 .. m /\ off[i] # m /\ off[i + 1] \in 0 .. m /\ w \in Nat \ {0}
    BY <1>6, <1>7, <1>8, <2>1
  <2>3. /\ off[i + 1] = off[i] + w
        /\ \A j \in 1 .. w : file[off[i] + j] = [rec |-> recs[i + 1], at |-> j]
    BY <1>5, <2>1
  <2>4. 1 \in 1 .. w
    BY <2>2
  <2>5. file[off[i] + 1] = [rec |-> recs[i + 1], at |-> 1]
    BY <2>3, <2>4
  <2>6. file[off[i] + 1].rec = recs[i + 1] /\ file[off[i] + 1].at = 1
    BY <2>5
  <2>7. off[i] + w <= Len(file)
    BY <1>4, <2>2, <2>3 DEF m
  <2>8. IntactAt(file, off[i])
    BY <2>3, <2>6, <2>7 DEF IntactAt
  <2> QED BY <2>2, <2>3, <2>6, <2>8
<1>9. ASSUME NEW o \in 0 .. m, \A i \in 0 .. n : off[i] # o
      PROVE  o # m /\ ~IntactAt(file, o)
  <2>1. n \in 0 .. n /\ o # m
    BY <1>4, <1>5, <1>9
  <2>2. o + 1 \in 1 .. m
    BY <1>4, <2>1
  <2>3. PICK i \in 1 .. n : off[i - 1] < o + 1 /\ o + 1 <= off[i]
    BY <1>5, <2>2
  <2>4. i - 1 \in 0 .. n /\ off[i - 1] \in Nat /\ off[i - 1] # o
    BY <1>4, <1>5, <1>9
  <2>5. Width(recs[i]) \in Nat /\ off[i] = off[i - 1] + Width(recs[i])
    BY <1>5, <1>6
  <2> DEFINE j == o + 1 - off[i - 1]
  <2>6. j \in 1 .. Width(recs[i]) /\ j # 1 /\ off[i - 1] + j = o + 1
    BY <2>3, <2>4, <2>5
  <2>7. file[off[i - 1] + j] = [rec |-> recs[i], at |-> j]
    BY <1>5, <2>6
  <2>8. file[o + 1].at = j
    BY <2>6, <2>7
  <2> QED BY <2>1, <2>6, <2>8 DEF IntactAt
<1> DEFINE f == [o \in 0 .. m |-> IF \E i \in 0 .. n : off[i] = o
                                 THEN Good(CHOOSE i \in 0 .. n : off[i] = o) ELSE Bad]
<1>10. ASSUME NEW i \in 0 .. n PROVE f[off[i]] = Good(i)
  <2> DEFINE c == CHOOSE j \in 0 .. n : off[j] = off[i]
  <2>1. c \in 0 .. n /\ off[c] = off[i]
    OBVIOUS
  <2>2. c = i
    BY <1>4, <1>5, <2>1
  <2> QED BY <1>7, <2>2
<1>11. \A i \in 0 .. n : i # n => <<recs[i + 1]>> \o After(recs, i + 1) = After(recs, i)
  <2> TAKE i \in 0 .. n
  <2> HAVE i # n
  <2>0. i \in 0 .. n - 1
    BY <1>4
  <2>1. i \in 0 .. Len(recs) - 1
    BY <2>0 DEF n
  <2> QED BY <1>2, <2>1, AfterNext
<1>12. After(recs, n) = <<>> /\ After(recs, 0) = recs
  <2>1. recs = [j \in 1 .. n |-> recs[j]] /\ 1 .. n - n = {}
    BY <1>2, <1>4 DEF n
  <2> QED BY <1>4, <2>1 DEF After, n
<1>13. f = [o \in 0 .. Len(file) |-> ReadFrom(file, f, o)]
  <2>1. ASSUME NEW o \in 0 .. m PROVE f[o] = ReadFrom(file, f, o)
    <3>1. CASE \E i \in 0 .. n : off[i] = o
      <4>1. PICK i \in 0 .. n : off[i] = o
        BY <3>1
      <4>2. CASE i = n
        <5>1. o = Len(file) /\ f[o] = [ok |-> TRUE, records |-> <<>>]
          BY <1>5, <1>10, <1>12, <4>1, <4>2 DEF m
        <5> HIDE DEF f
        <5> QED BY <5>1 DEF ReadFrom
      <4>3. CASE i # n
        <5>1. /\ o # m /\ IntactAt(file, o) /\ file[o + 1].rec = recs[i + 1]
              /\ o + Width(file[o + 1].rec) = off[i + 1] /\ i + 1 \in 0 .. n
          BY <1>4, <1>8, <4>1, <4>3
        <5>2. f[off[i + 1]] = Good(i + 1) /\ f[o] = Good(i)
          BY <1>10, <4>1, <5>1
        <5> HIDE DEF f
        <5>3. ReadFrom(file, f, o) = [Good(i + 1) EXCEPT !.records = <<recs[i + 1]>> \o @]
          BY <5>1, <5>2 DEF ReadFrom, m
        <5> QED BY <1>11, <4>3, <5>2, <5>3
      <4> QED BY <4>2, <4>3
    <3>2. CASE \A i \in 0 .. n : off[i] # o
      <4>1. f[o] = Bad /\ o # m /\ ~IntactAt(file, o)
        BY <1>9, <3>2
      <4> HIDE DEF f
      <4> QED BY <4>1 DEF ReadFrom, m
    <3> QED BY <3>1, <3>2
  <2>2. f = [o \in 0 .. m |-> f[o]]
    OBVIOUS
  <2> HIDE DEF f
  <2> QED BY <2>1, <2>2 DEF m
<1> HIDE DEF f
<1>14. PICK read : read = [o \in 0 .. Len(file) |-> ReadFrom(file, read, o)] /\ Parse(file) = read[0]
  BY <1>13, ParseReads
<1> DEFINE S == {d \in 0 .. n : read[off[n - d]] # Good(n - d)}
<1>15. S = {}
  <2>1. SUFFICES ASSUME S # {} PROVE FALSE
    OBVIOUS
  <2>2. S \in SUBSET Nat
    BY <1>4
  <2>3. PICK d \in S : \A e \in S : d <= e
    <3> HIDE DEF S
    <3> QED BY <2>1, <2>2, LeastIndex
  <2> DEFINE i == n - d
  <2>4. d \in 0 .. n /\ i \in 0 .. n /\ read[off[i]] # Good(i)
    BY <1>4
  <2>5. off[i] \in 0 .. m /\ read[off[i]] = ReadFrom(file, read, off[i])
    <3>1. off[i] \in 0 .. m
      BY <1>7, <2>4
    <3> QED BY <1>14, <3>1 DEF m
  <2>6. CASE i = n
    <3>1. off[i] = Len(file) /\ After(recs, i) = <<>>
      BY <1>5, <1>12, <2>6 DEF m
    <3> QED BY <2>4, <2>5, <3>1 DEF ReadFrom
  <2>7. CASE i # n
    <3>1. i + 1 \in 0 .. n /\ d - 1 \in 0 .. n /\ n - (d - 1) = i + 1 /\ ~(d <= d - 1)
      BY <1>4, <2>4, <2>7
    <3>2. d - 1 \notin S
      BY <2>3, <3>1
    <3>3. read[off[i + 1]] = Good(i + 1)
      BY <3>1, <3>2
    <3>4. /\ off[i] # m /\ IntactAt(file, off[i]) /\ file[off[i] + 1].rec = recs[i + 1]
          /\ off[i] + Width(file[off[i] + 1].rec) = off[i + 1]
      BY <1>8, <2>4, <2>7
    <3>5. ReadFrom(file, read, off[i]) = [Good(i + 1) EXCEPT !.records = <<recs[i + 1]>> \o @]
      BY <3>3, <3>4 DEF ReadFrom, m
    <3> QED BY <1>11, <2>4, <2>5, <2>7, <3>5
  <2> QED BY <2>6, <2>7
<1>16. read[0] = Good(0)
  <2>1. n \in 0 .. n /\ n - n = 0
    BY <1>4
  <2>2. n \notin S
    BY <1>15
  <2>3. read[off[n - n]] = Good(n - n)
    BY <2>1, <2>2
  <2> QED BY <1>5, <2>1, <2>3
<1> QED BY <1>12, <1>14, <1>16

-----------------------------------------------------------------------------
(* Replaying records *)

(* The records of the strategies whose result does not depend on what the  *)
(* tables hold.                                                            *)
Unleveled(r) ==
  /\ r.type \in RecordTypes
  /\ r.type = "Compaction" => r.task.type \in {"ForceFull", "Simple", "Tiered"}

(* What open() makes of one. *)
Applied(acc, r) ==
  CASE r.type = "Flush" ->
         [st |-> AddFlushed(acc.st, r.id),
          memtables |-> acc.memtables \ {r.id},
          next_id |-> AtLeast(acc.next_id, {r.id})]
    [] r.type = "NewMemtable" ->
         [acc EXCEPT !.memtables = @ \cup {r.id}, !.next_id = AtLeast(@, {r.id})]
    [] r.type = "Compaction" ->
         [acc EXCEPT !.st = ApplyCompactionResult(@, <<>>, r.task, r.output, TRUE),
                     !.next_id = AtLeast(@, ToSet(r.output))]

(* open() looks into no table. *)
LEMMA ReplayIsApplied ==
  ASSUME NEW acc, NEW r, Unleveled(r)
  PROVE  ReplayRecord(acc, r) = Applied(acc, r)
<1>1. CASE r.type = "Compaction"
  <2>1. \A st : ApplyCompactionResult(st, sst, r.task, r.output, TRUE) =
                ApplyCompactionResult(st, <<>>, r.task, r.output, TRUE)
    BY <1>1 DEF Unleveled, ApplyCompactionResult
  <2> QED BY <1>1, <2>1 DEF ReplayRecord, Applied
<1>2. CASE r.type \in {"Flush", "NewMemtable"}
  BY <1>2 DEF ReplayRecord, Applied
<1> QED BY <1>1, <1>2 DEF Unleveled, RecordTypes

(* What open() has after every record. *)
RunOf(recs, run) ==
  run = [n \in 0 .. Len(recs) |->
           IF n = 0 THEN ReplayStart ELSE Applied(run[n - 1], recs[n])]

(* A file that can be read and replayed. *)
Readable(file) ==
  \E recs : /\ Encodes(file, recs) /\ \A i \in DOMAIN recs : Unleveled(recs[i])
            /\ \E run : RunOf(recs, run)

(* What open() has after the last record of a file. *)
Final(file) ==
  CHOOSE acc : \E recs, run : /\ Encodes(file, recs) /\ \A i \in DOMAIN recs : Unleveled(recs[i])
                              /\ RunOf(recs, run) /\ acc = run[Len(recs)]

(* There is one way to replay records. *)
LEMMA RunUnique ==
  ASSUME NEW R, NEW recs \in Seq(R), NEW f, NEW g, RunOf(recs, f), RunOf(recs, g)
  PROVE  f[Len(recs)] = g[Len(recs)]
<1> DEFINE n == Len(recs)
           S == {i \in 0 .. n : f[i] # g[i]}
<1>1. n \in Nat
  OBVIOUS
<1>2. /\ \A i \in 0 .. n : f[i] = IF i = 0 THEN ReplayStart ELSE Applied(f[i - 1], recs[i])
      /\ \A i \in 0 .. n : g[i] = IF i = 0 THEN ReplayStart ELSE Applied(g[i - 1], recs[i])
  BY DEF RunOf
<1>3. S = {}
  <2>1. SUFFICES ASSUME S # {} PROVE FALSE
    OBVIOUS
  <2>2. S \in SUBSET Nat
    BY <1>1
  <2>3. PICK i \in S : \A j \in S : i <= j
    <3> HIDE DEF S
    <3> QED BY <2>1, <2>2, LeastIndex
  <2>4. i \in 0 .. n /\ f[i] # g[i]
    OBVIOUS
  <2>5. CASE i = 0
    BY <1>2, <2>4, <2>5
  <2>6. CASE i # 0
    <3>1. i - 1 \in 0 .. n /\ ~(i <= i - 1)
      BY <1>1, <2>4, <2>6
    <3>2. i - 1 \notin S
      BY <2>3, <3>1
    <3>3. f[i - 1] = g[i - 1]
      BY <3>1, <3>2
    <3> QED BY <1>2, <2>4, <2>6, <3>3
  <2> QED BY <2>5, <2>6
<1>4. n \in 0 .. n
  BY <1>1
<1> QED BY <1>3, <1>4

(* So a file ends in one way. *)
LEMMA FinalIs ==
  ASSUME NEW file, NEW recs, NEW run, Encodes(file, recs),
         \A i \in DOMAIN recs : Unleveled(recs[i]), RunOf(recs, run)
  PROVE  Final(file) = run[Len(recs)]
<1> DEFINE Ends(acc) ==
      \E rs, f : /\ Encodes(file, rs) /\ \A i \in DOMAIN rs : Unleveled(rs[i])
                 /\ RunOf(rs, f) /\ acc = f[Len(rs)]
<1>1. Ends(run[Len(recs)])
  OBVIOUS
<1>2. Final(file) = CHOOSE acc : Ends(acc)
  BY DEF Final
<1>3. Ends(Final(file))
  <2> HIDE DEF Ends
  <2> QED BY <1>1, <1>2
<1>4. PICK rs, f : Encodes(file, rs) /\ RunOf(rs, f) /\ Final(file) = f[Len(rs)]
  BY <1>3
<1>5. rs = recs
  <2>1. Parse(file) = [ok |-> TRUE, records |-> rs] /\ Parse(file) = [ok |-> TRUE, records |-> recs]
    BY <1>4, ParseEncoded
  <2> QED BY <2>1
<1>6. PICK R : recs \in Seq(R)
  BY DEF Encodes
<1> QED BY <1>4, <1>5, <1>6, RunUnique

(* An empty file leaves the state of an empty database. *)
LEMMA FinalNone == Readable(<<>>) /\ Final(<<>>) = ReplayStart
<1> DEFINE run == [n \in 0 .. 0 |-> ReplayStart]
<1>1. Encodes(<<>>, <<>>) /\ Len(<<>>) = 0 /\ DOMAIN <<>> = {}
  BY EncodesNone
<1>2. RunOf(<<>>, run)
  BY <1>1 DEF RunOf
<1>3. run[0] = ReplayStart
  OBVIOUS
<1> HIDE DEF run
<1>4. Readable(<<>>)
  BY <1>1, <1>2 DEF Readable
<1>5. Final(<<>>) = run[Len(<<>>)]
  BY <1>1, <1>2, FinalIs
<1> QED BY <1>1, <1>3, <1>4, <1>5

(* A record added at the end is replayed last. *)
LEMMA FinalAdds ==
  ASSUME NEW file, NEW r, Readable(file), Unleveled(r)
  PROVE  LET new == Overwrite(file, Len(file), r, Width(r))
         IN  Readable(new) /\ Final(new) = Applied(Final(file), r)
<1> DEFINE new == Overwrite(file, Len(file), r, Width(r))
<1>1. PICK recs : /\ Encodes(file, recs) /\ \A i \in DOMAIN recs : Unleveled(recs[i])
                  /\ \E run : RunOf(recs, run)
  BY DEF Readable
<1>2. PICK run : RunOf(recs, run)
  BY <1>1
<1>3. PICK R : recs \in Seq(R)
  BY <1>1 DEF Encodes
<1> DEFINE all == Append(recs, r)
           n == Len(recs)
           f == [i \in 0 .. n + 1 |-> IF i = n + 1 THEN Applied(run[n], r) ELSE run[i]]
<1>4. n \in Nat /\ Len(all) = n + 1 /\ DOMAIN all = 1 .. n + 1 /\ DOMAIN recs = 1 .. n
      /\ all[n + 1] = r /\ \A i \in 1 .. n : all[i] = recs[i]
  BY <1>3
<1>5. Encodes(new, all)
  BY <1>1, EncodesAppend DEF Unleveled
<1>6. ASSUME NEW i \in DOMAIN all PROVE Unleveled(all[i])
  <2> HIDE DEF all, n
  <2>1. i \in 1 .. n \/ i = n + 1
    BY <1>4
  <2> QED BY <1>1, <1>4, <2>1
<1>7. RunOf(all, f)
  <2> HIDE DEF all
  <2>1. \A i \in 0 .. n : run[i] = IF i = 0 THEN ReplayStart ELSE Applied(run[i - 1], recs[i])
    BY <1>2 DEF RunOf
  <2> HIDE DEF n
  <2>2. ASSUME NEW i \in 0 .. n + 1
        PROVE  f[i] = IF i = 0 THEN ReplayStart ELSE Applied(f[i - 1], all[i])
    <3>1. CASE i = n + 1
      <4>1. i # 0 /\ i - 1 = n /\ n \in 0 .. n + 1 /\ n # n + 1
        BY <1>4, <3>1
      <4>2. f[i] = Applied(run[n], r) /\ f[i - 1] = run[n]
        BY <3>1, <4>1
      <4> HIDE DEF f
      <4> QED BY <1>4, <3>1, <4>1, <4>2
    <3>2. CASE i = 0
      <4>1. i \in 0 .. n /\ f[i] = run[i]
        BY <1>4, <3>2
      <4> QED BY <2>1, <3>2, <4>1
    <3>3. CASE i \in 1 .. n
      <4>1. i \in 0 .. n /\ i # 0 /\ i # n + 1 /\ i - 1 \in 0 .. n + 1 /\ i - 1 # n + 1
        BY <1>4, <3>3
      <4>2. f[i] = run[i] /\ f[i - 1] = run[i - 1]
        BY <4>1
      <4> HIDE DEF f
      <4> QED BY <1>4, <2>1, <3>3, <4>1, <4>2
    <3> QED BY <1>4, <3>1, <3>2, <3>3
  <2>3. f = [i \in 0 .. n + 1 |-> f[i]]
    OBVIOUS
  <2> HIDE DEF f
  <2> QED BY <1>4, <2>2, <2>3 DEF RunOf
<1>8. f[n + 1] = Applied(run[n], r)
  <2> HIDE DEF n
  <2>1. n + 1 \in 0 .. n + 1
    BY <1>4
  <2> QED BY <2>1
<1> HIDE DEF f, all, new
<1>9. Readable(new)
  BY <1>5, <1>6, <1>7 DEF Readable
<1>10. Final(new) = f[Len(all)] /\ Final(file) = run[n]
  BY <1>1, <1>2, <1>5, <1>6, <1>7, FinalIs
<1> QED BY <1>4, <1>8, <1>9, <1>10 DEF new

(* open() gets what the file ends in. *)
LEMMA ReplayFinal ==
  ASSUME Readable(manifest.file)
  PROVE  /\ Parse(manifest.file).ok
         /\ Replay(Parse(manifest.file).records) = Final(manifest.file)
<1>1. PICK recs : /\ Encodes(manifest.file, recs) /\ \A i \in DOMAIN recs : Unleveled(recs[i])
                  /\ \E run : RunOf(recs, run)
  BY DEF Readable
<1>2. PICK run : RunOf(recs, run)
  BY <1>1
<1>3. PICK R : recs \in Seq(R)
  BY <1>1 DEF Encodes
<1>4. Parse(manifest.file) = [ok |-> TRUE, records |-> recs]
  BY <1>1, ParseEncoded
<1>5. Final(manifest.file) = run[Len(recs)]
  BY <1>1, <1>2, FinalIs
<1> DEFINE n == Len(recs)
           Replays_(g) == g = [i \in 0 .. Len(recs) |->
                                IF i = 0 THEN ReplayStart ELSE ReplayRecord(g[i - 1], recs[i])]
           f == CHOOSE g : Replays_(g)
<1>6. Replay(recs) = f[Len(recs)]
  BY DEF Replay
<1>7. n \in Nat /\ DOMAIN recs = 1 .. n
  BY <1>3
<1>8. \A i \in 0 .. n : i # 0 => \A acc : ReplayRecord(acc, recs[i]) = Applied(acc, recs[i])
  BY <1>1, <1>7, ReplayIsApplied
<1>9. \A g : Replays_(g) <=> RunOf(recs, g)
  BY <1>8 DEF RunOf
<1>10. RunOf(recs, f)
  <2>1. Replays_(run)
    BY <1>2, <1>9
  <2>2. Replays_(f)
    <3> HIDE DEF Replays_
    <3> QED BY <2>1
  <2> QED BY <1>9, <2>2
<1> HIDE DEF f
<1>11. f[Len(recs)] = run[Len(recs)]
  BY <1>2, <1>3, <1>10, RunUnique
<1> QED BY <1>4, <1>5, <1>6, <1>11

-----------------------------------------------------------------------------
(* The manifest and the state *)

(* What open() would have after the last record, were the process killed   *)
(* now.                                                                    *)
OnDisk == Final(manifest.file)

RecordSteps == {"freeze_record", "flush_record", "compact_record"}

(* The record a thread at step p with these locals has yet to write, for   *)
(* what it has put into the state.                                         *)
RecordAt(p, id, j) ==
  CASE p = "freeze_record" -> NewMemtable(id)
    [] p = "flush_record" -> Flush(id)
    [] p = "compact_record" -> Compaction(j.task, j.output)

Typed(r) ==
  /\ r.type \in {"Flush", "NewMemtable"} => r.id \in Ids
  /\ r.type = "Compaction" => ToSet(r.output) \subseteq Ids

(* The fields of an LsmStorageState *)
Fields(st) ==
  st = [memtable |-> st.memtable, imm_memtables |-> st.imm_memtables,
        l0_sstables |-> st.l0_sstables, levels |-> st.levels, sstables |-> st.sstables]

(* The fields of what open() has, and that no recovered MemTable has an id *)
(* that open() will give out.                                              *)
Shape(acc) ==
  /\ acc = [st |-> acc.st, memtables |-> acc.memtables, next_id |-> acc.next_id]
  /\ Fields(acc.st)
  /\ acc.next_id \in Nat /\ acc.memtables \subseteq Ids
  /\ \A i \in acc.memtables : i <= acc.next_id

(* open() would find the tables and the MemTables the process has. *)
Caught(acc, st, live) ==
  /\ acc.st.l0_sstables = st.l0_sstables /\ acc.st.levels = st.levels
  /\ acc.memtables = live

(* The manifest is written to its end and can be read, its tables have     *)
(* their files, and it lacks at most the one record that the holder of     *)
(* state_lock is about to write.  Only a compaction's can take tables away. *)
ManifestHolds ==
  /\ manifest.open /\ manifest.pos = Len(manifest.file) /\ Readable(manifest.file)
  /\ Shape(OnDisk) /\ Referenced(OnDisk.st) \subseteq files
  /\ \A t \in Threads : pc[t] \in RecordSteps =>
       LET r == RecordAt(pc[t], new_id[t], job[t])
       IN  Unleveled(r) /\ Typed(r) /\ Caught(Applied(OnDisk, r), state, LiveMemtables)
  /\ (\A t \in Threads : pc[t] \notin RecordSteps) => Caught(OnDisk, state, LiveMemtables)
  /\ (\A t \in Threads : pc[t] # "compact_record") => Referenced(OnDisk.st) \subseteq state.sstables

(* A maximum exists. *)
LEMMA AtLeastIs ==
  ASSUME NEW n \in Nat, NEW ids, ids \subseteq Ids
  PROVE  /\ AtLeast(n, ids) \in Nat /\ n <= AtLeast(n, ids)
         /\ \A i \in ids : i <= AtLeast(n, ids)
<1> DEFINE T == ids \cup {n}
           b == MaxId + n
           S == {b - i : i \in T}
<1>1. MaxId \in Nat /\ b \in Nat /\ \A i \in T : i \in Nat /\ i <= b
  BY BoundsAssumption DEF Ids
<1>2. S \in SUBSET Nat /\ S # {}
  BY <1>1
<1>3. PICK d \in S : \A e \in S : d <= e
  <2> HIDE DEF S
  <2> QED BY <1>2, LeastIndex
<1>4. PICK m \in T : d = b - m
  OBVIOUS
<1>5. ASSUME NEW i \in T PROVE i <= m
  <2>1. b - i \in S
    OBVIOUS
  <2>2. b - m <= b - i
    BY <1>3, <1>4, <2>1
  <2> HIDE DEF T, b
  <2>3. b \in Nat /\ i \in Nat /\ m \in Nat
    BY <1>1
  <2> QED BY ONLY <2>2, <2>3
<1>6. AtLeast(n, ids) \in T /\ \A i \in T : i <= AtLeast(n, ids)
  <2>1. \E x \in T : \A i \in T : i <= x
    BY <1>5
  <2> QED BY <2>1 DEF AtLeast
<1> HIDE DEF S, b
<1> QED BY <1>1, <1>6

(* The fields stay. *)
LEMMA AppliedShape ==
  ASSUME NEW acc, NEW r, Shape(acc), Unleveled(r), Typed(r)
  PROVE  Shape(Applied(acc, r))
<1>0. acc.next_id \in Nat /\ acc.memtables \subseteq Ids /\ Ids \subseteq Nat
      /\ \A i \in acc.memtables : i <= acc.next_id
  BY BoundsAssumption DEF Shape, Ids
<1>t. ASSUME NEW x \in Nat, acc.next_id <= x, NEW i \in acc.memtables PROVE i <= x
  <2>1. i \in Nat /\ i <= acc.next_id
    BY <1>0
  <2> QED BY <1>0, <1>t, <2>1
<1>1. CASE r.type = "Flush"
  <2> DEFINE x == AtLeast(acc.next_id, {r.id})
             st == AddFlushed(acc.st, r.id)
  <2>1. Applied(acc, r) = [st |-> st, memtables |-> acc.memtables \ {r.id}, next_id |-> x]
    BY <1>1 DEF Applied
  <2>2. x \in Nat /\ acc.next_id <= x
    BY <1>0, <1>1, AtLeastIs DEF Typed
  <2>3. Fields(st)
    BY DEF AddFlushed, Shape, Fields
  <2> HIDE DEF x, st
  <2>4. \A i \in acc.memtables \ {r.id} : i <= x
    BY <1>t, <2>2
  <2> QED BY <1>0, <2>1, <2>2, <2>3, <2>4 DEF Shape
<1>2. CASE r.type = "NewMemtable"
  <2> DEFINE x == AtLeast(acc.next_id, {r.id})
  <2>1. Applied(acc, r) = [st |-> acc.st, memtables |-> acc.memtables \cup {r.id}, next_id |-> x]
    BY <1>2 DEF Applied, Shape
  <2>2. x \in Nat /\ acc.next_id <= x /\ r.id <= x /\ r.id \in Ids
    BY <1>0, <1>2, AtLeastIs DEF Typed
  <2> HIDE DEF x
  <2>4. \A i \in acc.memtables \cup {r.id} : i <= x
    BY <1>t, <2>2
  <2> QED BY <1>0, <2>1, <2>2, <2>4 DEF Shape
<1>3. CASE r.type = "Compaction"
  <2> DEFINE x == AtLeast(acc.next_id, ToSet(r.output))
             st == ApplyCompactionResult(acc.st, <<>>, r.task, r.output, TRUE)
  <2>1. Applied(acc, r) = [st |-> st, memtables |-> acc.memtables, next_id |-> x]
    BY <1>3 DEF Applied, Shape
  <2>2. x \in Nat /\ acc.next_id <= x
    BY <1>0, <1>3, AtLeastIs DEF Typed
  <2>3. Fields(st)
    BY <1>3 DEF ApplyCompactionResult, Unleveled, Shape, Fields, ForceFullApply, SimpleApply, TieredApply
  <2> HIDE DEF x, st
  <2>4. \A i \in acc.memtables : i <= x
    BY <1>t, <2>2
  <2> QED BY <1>0, <2>1, <2>2, <2>3, <2>4 DEF Shape
<1> QED BY <1>1, <1>2, <1>3 DEF Unleveled, RecordTypes

(* A step that neither changes the state nor writes a record leaves what   *)
(* the manifest lacks.                                                     *)
LEMMA ManifestKept ==
  ASSUME ManifestHolds, NEW t \in Threads, UNCHANGED <<state, manifest>>,
         Referenced(OnDisk.st) \subseteq files',
         pc[t] \notin RecordSteps, pc'[t] \notin RecordSteps,
         \A u \in Threads \ {t} : pc'[u] = pc[u] /\ new_id'[u] = new_id[u] /\ job'[u] = job[u]
  PROVE  ManifestHolds'
<1>1. OnDisk' = OnDisk /\ LiveMemtables' = LiveMemtables
  BY DEF OnDisk, LiveMemtables
<1>2. ASSUME NEW u \in Threads, pc'[u] \in RecordSteps
      PROVE  LET r == RecordAt(pc'[u], new_id'[u], job'[u])
             IN  Unleveled(r) /\ Typed(r) /\ Caught(Applied(OnDisk, r), state, LiveMemtables)
  <2>1. pc'[u] = pc[u] /\ new_id'[u] = new_id[u] /\ job'[u] = job[u]
    BY <1>2
  <2> QED BY <1>2, <2>1 DEF ManifestHolds
<1>3. ASSUME \A u \in Threads : pc'[u] \notin RecordSteps
      PROVE  Caught(OnDisk, state, LiveMemtables)
  <2>1. \A u \in Threads : pc[u] \notin RecordSteps
    BY <1>3
  <2> QED BY <2>1 DEF ManifestHolds
<1>4. /\ manifest'.open /\ manifest'.pos = Len(manifest'.file) /\ Readable(manifest'.file)
      /\ Shape(OnDisk') /\ Referenced(OnDisk'.st) \subseteq files'
  BY <1>1 DEF ManifestHolds
<1>5. ASSUME \A u \in Threads : pc'[u] # "compact_record"
      PROVE  Referenced(OnDisk.st) \subseteq state.sstables
  <2>1. \A u \in Threads : pc[u] # "compact_record"
    BY <1>5 DEF RecordSteps
  <2> QED BY <2>1 DEF ManifestHolds
<1> QED BY <1>1, <1>2, <1>3, <1>4, <1>5 DEF ManifestHolds

(* A swap puts into the state what its record will say. *)
LEMMA ManifestSwaps ==
  ASSUME ManifestHolds, NEW t \in Threads, UNCHANGED <<manifest, files>>,
         \A u \in Threads \ {t} : pc'[u] \notin RecordSteps,
         pc'[t] \in RecordSteps,
         NEW r, r = RecordAt(pc'[t], new_id'[t], job'[t]), Unleveled(r), Typed(r),
         Caught(Applied(OnDisk, r), state', LiveMemtables'),
         pc'[t] = "compact_record" \/ Referenced(OnDisk.st) \subseteq state'.sstables
  PROVE  ManifestHolds'
<1>1. OnDisk' = OnDisk
  BY DEF OnDisk
<1>2. \A u \in Threads : pc'[u] \in RecordSteps => u = t
  OBVIOUS
<1>3. /\ manifest'.open /\ manifest'.pos = Len(manifest'.file) /\ Readable(manifest'.file)
      /\ Shape(OnDisk') /\ Referenced(OnDisk'.st) \subseteq files'
  BY <1>1 DEF ManifestHolds
<1> QED BY <1>1, <1>2, <1>3 DEF ManifestHolds

(* The tables of two states with the same lists are the same. *)
LEMMA SameReferenced ==
  ASSUME NEW st, NEW su, st.l0_sstables = su.l0_sstables, st.levels = su.levels
  PROVE  Referenced(st) = Referenced(su)
BY DEF Referenced

(* Every table that the state names has its file. *)
LEMMA StateFiled ==
  ASSUME IInv, StateHolds
  PROVE  Referenced(state) \subseteq state.sstables /\ Referenced(state) \subseteq files
BY StateOpen DEF Referenced, RefsOpen, ToSet, StateHolds

(* A record that is added makes the file longer by its width. *)
LEMMA RecordAdded ==
  ASSUME NEW m, m = [open |-> m.open, file |-> m.file, pos |-> m.pos], m.open,
         m.pos = Len(m.file), Readable(m.file), NEW r, Unleveled(r), NEW n, n = AddRecord(m, r)
  PROVE  /\ n.open /\ n.pos = Len(n.file) /\ Readable(n.file)
         /\ Final(n.file) = Applied(Final(m.file), r)
<1> DEFINE new == Overwrite(m.file, Len(m.file), r, Width(r))
<1>4. n.open /\ n.file = new /\ n.pos = Len(m.file) + Width(r)
  <2> HIDE DEF new
  <2>1. n = [m EXCEPT !.file = new, !.pos = Len(m.file) + Width(r)]
    BY DEF AddRecord, new
  <2> QED BY <2>1
<1>5. Len(new) = Len(m.file) + Width(r)
  <2>1. PICK recs : Encodes(m.file, recs)
    BY DEF Readable
  <2>2. PICK C : m.file \in Seq(C)
    BY <2>1 DEF Encodes
  <2> DEFINE l == Len(m.file)
             w == Width(r)
             D == {new[i] : i \in 1 .. l + w}
  <2>3. l \in Nat /\ w \in Nat \ {0}
    BY <2>2, WidthPositive DEF Unleveled
  <2>4. new = [i \in 1 .. l + w |-> new[i]] /\ \A i \in 1 .. l + w : new[i] \in D
    <3> HIDE DEF l, w
    <3>1. l + w > l
      BY <2>3
    <3> QED BY <2>3, <3>1 DEF Overwrite, l, w
  <2>5. l + w \in Nat
    BY <2>3
  <2> HIDE DEF new, D, l, w
  <2>6. Len(new) = l + w
    BY <2>4, <2>5, FunctionIsSeq
  <2> QED BY <2>6 DEF l, w
<1>6. Readable(new) /\ Final(new) = Applied(Final(m.file), r)
  BY FinalAdds
<1> QED BY <1>4, <1>5, <1>6

(* A record that is written leaves nothing for the manifest to catch up. *)
LEMMA ManifestRecords ==
  ASSUME ManifestHolds, TypeOK, IInv, StateHolds, NEW t \in Threads, pc[t] \in RecordSteps,
         NEW r, r = RecordAt(pc[t], new_id[t], job[t]),
         manifest' = AddRecord(manifest, r), UNCHANGED <<state, files>>,
         \A u \in Threads : pc'[u] \notin RecordSteps
  PROVE  ManifestHolds' /\ OnDisk' = Applied(OnDisk, r)
<1>1. Unleveled(r) /\ Typed(r) /\ Caught(Applied(OnDisk, r), state, LiveMemtables)
  BY DEF ManifestHolds
<1>2. /\ manifest.open /\ manifest.pos = Len(manifest.file) /\ Readable(manifest.file)
      /\ Shape(OnDisk)
  BY DEF ManifestHolds
<1>3. manifest = [open |-> manifest.open, file |-> manifest.file, pos |-> manifest.pos]
  BY DEF TypeOK
<1>4. /\ manifest'.open /\ manifest'.pos = Len(manifest'.file) /\ Readable(manifest'.file)
      /\ Final(manifest'.file) = Applied(Final(manifest.file), r)
  BY <1>1, <1>2, <1>3, RecordAdded
<1>7. OnDisk' = Applied(OnDisk, r)
  BY <1>4 DEF OnDisk
<1>8. Caught(OnDisk', state', LiveMemtables')
  BY <1>1, <1>7 DEF LiveMemtables
<1>9. Shape(OnDisk')
  BY <1>1, <1>2, <1>7, AppliedShape
<1>10. Referenced(OnDisk'.st) \subseteq files' /\ Referenced(OnDisk'.st) \subseteq state'.sstables
  <2>1. Referenced(OnDisk'.st) = Referenced(state)
    BY <1>8, SameReferenced DEF Caught
  <2> QED BY <2>1, StateFiled
<1> QED BY <1>4, <1>7, <1>8, <1>9, <1>10 DEF ManifestHolds


(* A thread that moves between two steps at which it owes no record. *)
Aside(t) ==
  /\ UNCHANGED <<state, manifest>> /\ files \subseteq files'
  /\ pc[t] \notin RecordSteps /\ pc'[t] \notin RecordSteps
  /\ \A u \in Threads \ {t} : pc'[u] = pc[u] /\ new_id'[u] = new_id[u] /\ job'[u] = job[u]

(* It leaves what the manifest lacks. *)
LEMMA AsideKeeps ==
  ASSUME ManifestHolds, NEW t \in Threads, Aside(t)
  PROVE  ManifestHolds'
<1>1. Referenced(OnDisk.st) \subseteq files'
  BY DEF ManifestHolds, Aside
<1> QED BY <1>1, ManifestKept DEF Aside

(* The client's calls, up to the swap of a freeze. *)
LEMMA ClientAside ==
  ASSUME Types, NEW t \in Clients, UNCHANGED lsVars,
         \/ Put(t) \/ PutInsert(t) \/ PutCheck(t) \/ ForceFreeze(t) \/ FreezeBegin(t)
         \/ ForceFlush(t) \/ Sync(t)
  PROVE  t \in Threads /\ Aside(t)
<1> USE DEF Aside, RecordSteps, stateVars, diskVars, threadVars, lsVars
<1>0. pc \in [Threads -> Steps] /\ new_id \in [Threads -> Ids] /\ t \in Threads
  BY DEF Types, TypeOK, Threads
<1>1. CASE Put(t)
  BY <1>0, <1>1 DEF Put, PutLog
<1>2. CASE PutInsert(t)
  BY <1>0, <1>2 DEF PutInsert
<1>3. CASE PutCheck(t)
  BY <1>0, <1>3 DEF PutCheck
<1>4. CASE ForceFreeze(t)
  BY <1>0, <1>4 DEF ForceFreeze
<1>5. CASE FreezeBegin(t)
  BY <1>0, <1>5 DEF FreezeBegin
<1>6. CASE ForceFlush(t)
  BY <1>0, <1>6 DEF ForceFlush
<1>7. CASE Sync(t)
  BY <1>0, <1>7 DEF Sync
<1> QED BY <1>1, <1>2, <1>3, <1>4, <1>5, <1>6, <1>7

(* A flush up to its swap, and one that fails. *)
LEMMA FlushAside ==
  ASSUME Types, NEW t \in Threads,
         \/ UNCHANGED lsVars /\ (FlushBegin(t) \/ (t = FlushThread /\ TriggerFlush))
         \/ FlushFails(t)
  PROVE  Aside(t)
<1> USE DEF Aside, RecordSteps, stateVars, diskVars, threadVars, lsVars
<1>0. pc \in [Threads -> Steps] /\ new_id \in [Threads -> Ids]
  BY DEF Types, TypeOK
<1>1. CASE FlushBegin(t) /\ state.imm_memtables = <<>> /\ UNCHANGED lsVars
  BY <1>0, <1>1 DEF FlushBegin
<1>2. CASE FlushBegin(t) /\ state.imm_memtables # <<>> /\ UNCHANGED lsVars
  BY <1>0, <1>2 DEF FlushBegin
<1>3. CASE t = FlushThread /\ TriggerFlush /\ UNCHANGED lsVars
  BY <1>0, <1>3 DEF TriggerFlush
<1>4. CASE FlushFails(t)
  BY <1>0, <1>4 DEF FlushFails
<1> QED BY <1>1, <1>2, <1>3, <1>4

(* A compaction up to its swap, and what close() makes a client do. *)
LEMMA CompactAside ==
  ASSUME Types, NEW t \in Threads,
         BeginCompaction(t) \/ Compact(t) \/ CompactFails(t) \/ CloseFreeze(t) \/ CloseFlush(t)
  PROVE  Aside(t)
<1> USE DEF Aside, RecordSteps, stateVars, diskVars, threadVars, lsVars
<1>0. /\ pc \in [Threads -> Steps] /\ new_id \in [Threads -> Ids]
      /\ job = [u \in Threads |-> job[u]]
  BY DEF Types, TypeOK
<1>1. CASE BeginCompaction(t)
  BY <1>0, <1>1 DEF BeginCompaction
<1>2. CASE Compact(t)
  BY <1>0, <1>2 DEF Compact
<1>3. CASE CompactFails(t)
  BY <1>0, <1>3 DEF CompactFails
<1>4. CASE CloseFreeze(t)
  BY <1>0, <1>4 DEF CloseFreeze, Joined
<1>5. CASE CloseFlush(t)
  BY <1>0, <1>5 DEF CloseFlush, Joined
<1> QED BY <1>1, <1>2, <1>3, <1>4, <1>5

(* close() itself writes no record. *)
LEMMA CloseKeepsManifest ==
  ASSUME ManifestHolds,
         CloseBegin \/ CloseDone \/ Destroy \/ UNCHANGED <<state, manifest, files, pc, new_id, job>>
  PROVE  ManifestHolds'
<1>1. UNCHANGED <<state, manifest, files, pc, new_id, job>>
  BY DEF CloseBegin, CloseDone, Destroy, diskVars, threadVars, lsVars
<1>2. OnDisk' = OnDisk /\ LiveMemtables' = LiveMemtables
  BY <1>1 DEF OnDisk, LiveMemtables
<1> QED BY <1>1, <1>2 DEF ManifestHolds


(* Where nobody else holds state_lock the manifest lacks no record. *)
LEMMA NothingOwed ==
  ASSUME IInv, ManifestHolds, NEW t \in Threads, pc[t] \notin RecordSteps,
         pc[t] \in LockedSteps \/ state_lock = NoThread
  PROVE  /\ Caught(OnDisk, state, LiveMemtables)
         /\ Referenced(OnDisk.st) \subseteq state.sstables
         /\ \A u \in Threads \ {t} : pc[u] \notin LockedSteps /\ pc[u] \notin RecordSteps
<1>1. \A u \in Threads \ {t} : pc[u] \notin LockedSteps
  BY LockAlone
<1>2. RecordSteps \subseteq LockedSteps
  BY DEF RecordSteps, LockedSteps
<1>3. \A u \in Threads : pc[u] \notin RecordSteps
  BY <1>1, <1>2
<1>4. \A u \in Threads : pc[u] # "compact_record"
  BY <1>3 DEF RecordSteps
<1> QED BY <1>1, <1>3, <1>4 DEF ManifestHolds

(* A freeze: the new MemTable is what its record will say. *)
LEMMA FreezeSwapManifest ==
  ASSUME Types, LsmIInv, ManifestHolds, NEW t \in Threads, FreezeSwap(t), UNCHANGED lsVars
  PROVE  ManifestHolds'
<1> DEFINE id == new_id[t]  r == NewMemtable(id)  imm == state.imm_memtables
<1>1. /\ pc[t] = "freeze_swap" /\ pc' = [pc EXCEPT ![t] = "freeze_record"]
      /\ UNCHANGED <<files, manifest, new_id, job>>
      /\ state' = [state EXCEPT !.memtable = id, !.imm_memtables = <<state.memtable>> \o @]
  BY DEF FreezeSwap, diskVars, lsVars
<1>2. /\ pc \in [Threads -> Steps] /\ id \in Ids /\ state.memtable \in Ids /\ imm \in Seq(Ids)
      /\ state \in LsmStorageState
  BY DEF Types, TypeOK, LsmStorageState
<1>3. pc'[t] = "freeze_record" /\ \A u \in Threads \ {t} : pc'[u] = pc[u]
  BY <1>1, <1>2
<1>4. /\ Caught(OnDisk, state, LiveMemtables) /\ Referenced(OnDisk.st) \subseteq state.sstables
      /\ \A u \in Threads \ {t} : pc[u] \notin RecordSteps
  BY <1>1, NothingOwed DEF LsmIInv, LockedSteps, RecordSteps
<1>5. /\ state'.memtable = id /\ state'.imm_memtables = <<state.memtable>> \o imm
      /\ state'.l0_sstables = state.l0_sstables /\ state'.levels = state.levels
      /\ state'.sstables = state.sstables
  BY <1>1, <1>2 DEF LsmStorageState
<1>6. LiveMemtables' = LiveMemtables \cup {id}
  <2> DEFINE new == <<state.memtable>> \o imm
  <2>1. /\ DOMAIN imm = 1 .. Len(imm) /\ Len(imm) \in Nat /\ DOMAIN new = 1 .. Len(imm) + 1
        /\ new[1] = state.memtable
        /\ \A i \in 1 .. Len(imm) : new[i + 1] = imm[i] /\ i + 1 \in 1 .. Len(imm) + 1
        /\ \A i \in 1 .. Len(imm) + 1 : i = 1 \/ (i - 1 \in 1 .. Len(imm) /\ new[i] = imm[i - 1])
        /\ 1 \in 1 .. Len(imm) + 1
    BY <1>2
  <2> HIDE DEF new
  <2> DEFINE l == Len(imm)
  <2>2. {new[i] : i \in DOMAIN new} = {state.memtable} \cup {imm[i] : i \in DOMAIN imm}
    <3> HIDE DEF imm, l
    <3>1. ASSUME NEW i \in DOMAIN new
          PROVE  new[i] \in {state.memtable} \cup {imm[j] : j \in DOMAIN imm}
      <4>1. i = 1 \/ (i - 1 \in DOMAIN imm /\ new[i] = imm[i - 1])
        BY <2>1 DEF l
      <4> QED BY <2>1, <4>1
    <3>2. \A j \in DOMAIN imm : j + 1 \in DOMAIN new /\ new[j + 1] = imm[j]
      BY <2>1 DEF l
    <3>3. 1 \in DOMAIN new /\ new[1] = state.memtable
      BY <2>1
    <3> QED BY <3>1, <3>2, <3>3
  <2> QED BY <1>5, <2>2 DEF LiveMemtables, new
<1>7. r.type = "NewMemtable" /\ r.id = id
  BY DEF NewMemtable
<1>8. Unleveled(r) /\ Typed(r) /\ r = RecordAt(pc'[t], new_id'[t], job'[t])
  BY <1>1, <1>2, <1>3, <1>7 DEF Unleveled, RecordTypes, Typed, RecordAt
<1>9. Applied(OnDisk, r) = [st |-> OnDisk.st, memtables |-> OnDisk.memtables \cup {id},
                            next_id |-> AtLeast(OnDisk.next_id, {id})]
  BY <1>7 DEF Applied, ManifestHolds, Shape
<1> HIDE DEF r
<1>10. Caught(Applied(OnDisk, r), state', LiveMemtables')
  BY <1>4, <1>5, <1>6, <1>9 DEF Caught
<1>11. \A u \in Threads \ {t} : pc'[u] \notin RecordSteps
  BY <1>3, <1>4
<1>12. pc'[t] \in RecordSteps
  BY <1>3 DEF RecordSteps
<1> QED BY <1>1, <1>4, <1>5, <1>8, <1>10, <1>11, <1>12, ManifestSwaps

(* The lists after a flush depend on the lists before it only. *)
LEMMA FlushedLists ==
  ASSUME NEW st, NEW su, NEW id, st.l0_sstables = su.l0_sstables, st.levels = su.levels,
         Fields(st), Fields(su)
  PROVE  /\ AddFlushed(st, id).l0_sstables = AddFlushed(su, id).l0_sstables
         /\ AddFlushed(st, id).levels = AddFlushed(su, id).levels
BY DEF AddFlushed, Fields

(* The record of a state's fields. *)
LEMMA StateFields ==
  ASSUME TypeOK
  PROVE  Fields(state)
BY DEF TypeOK, LsmStorageState, Fields

(* A flush: the oldest MemTable is gone, and its table is the newest. *)
LEMMA FlushSwapManifest ==
  ASSUME Types, LsmIInv, ManifestHolds, NEW t \in Threads, FlushSwap(t), UNCHANGED lsVars
  PROVE  ManifestHolds'
<1> DEFINE imm == state.imm_memtables  id == new_id[t]  n == Len(imm) - 1
           r == Flush(id)  flushed == AddFlushed(state, id)
<1>1. /\ pc[t] = "flush_swap" /\ pc' = [pc EXCEPT ![t] = "flush_record"]
      /\ UNCHANGED <<files, manifest, new_id, job>>
      /\ state' = [flushed EXCEPT !.imm_memtables = SubSeq(@, 1, Len(@) - 1),
                                  !.sstables = @ \cup {id}]
  BY DEF FlushSwap, diskVars, lsVars
<1>2. /\ pc \in [Threads -> Steps] /\ id \in Ids /\ state.memtable \in Ids /\ imm \in Seq(Ids)
  BY DEF Types, TypeOK, LsmStorageState
<1>3. pc'[t] = "flush_record" /\ \A u \in Threads \ {t} : pc'[u] = pc[u]
  BY <1>1, <1>2
<1>4. /\ Caught(OnDisk, state, LiveMemtables) /\ Referenced(OnDisk.st) \subseteq state.sstables
      /\ \A u \in Threads \ {t} : pc[u] \notin RecordSteps
  BY <1>1, NothingOwed DEF LsmIInv, LockedSteps, RecordSteps
<1>5. /\ state'.memtable = state.memtable /\ state'.imm_memtables = SubSeq(imm, 1, n)
      /\ state'.l0_sstables = flushed.l0_sstables /\ state'.levels = flushed.levels
      /\ state.sstables \subseteq state'.sstables
  BY <1>1, StateFields DEF Types, AddFlushed, Fields
<1>6. imm # <<>> /\ id = OldestImm
  BY <1>1 DEF LsmIInv, IInv, FlushHolds
<1>7. LiveMemtables' = LiveMemtables \ {id}
  <2>1. /\ n \in Nat /\ n + 1 = Len(imm) /\ DOMAIN imm = 1 .. n + 1 /\ id = imm[n + 1]
        /\ DOMAIN SubSeq(imm, 1, n) = 1 .. n
        /\ \A i \in 1 .. n : SubSeq(imm, 1, n)[i] = imm[i]
    BY <1>2, <1>6 DEF OldestImm
  <2>2. state.memtable # id
    BY <2>1 DEF LsmIInv, IInv, IdsApart
  <2>3. \A i \in 1 .. n : imm[i] # id
    <3> SUFFICES ASSUME NEW i \in 1 .. n, imm[i] = id PROVE FALSE
      OBVIOUS
    <3> HIDE DEF n
    <3>1. i \in DOMAIN imm /\ n + 1 \in DOMAIN imm
      BY <2>1
    <3>2. i = n + 1
      BY <2>1, <3>1 DEF LsmIInv, IInv, IdsApart
    <3> QED BY ONLY <2>1, <3>2, i \in 1 .. n
  <2> HIDE DEF n
  <2>4. {imm[i] : i \in 1 .. n} = {imm[i] : i \in 1 .. n + 1} \ {id}
    <3>1. \A i \in 1 .. n + 1 : i \in 1 .. n \/ i = n + 1
      BY <2>1
    <3>2. \A i \in 1 .. n : i \in 1 .. n + 1
      BY <2>1
    <3> QED BY <2>1, <2>3, <3>1, <3>2
  <2>5. {state'.imm_memtables[i] : i \in DOMAIN state'.imm_memtables} = {imm[i] : i \in 1 .. n}
    <3>1. DOMAIN state'.imm_memtables = 1 .. n /\ \A i \in 1 .. n : state'.imm_memtables[i] = imm[i]
      BY ONLY <1>5, <2>1
    <3> QED BY ONLY <3>1
  <2> QED BY <1>5, <2>1, <2>2, <2>4, <2>5 DEF LiveMemtables
<1>8. r.type = "Flush" /\ r.id = id
  BY DEF Flush
<1>9. Unleveled(r) /\ Typed(r) /\ r = RecordAt(pc'[t], new_id'[t], job'[t])
  BY <1>1, <1>2, <1>3, <1>8 DEF Unleveled, RecordTypes, Typed, RecordAt
<1>10. Applied(OnDisk, r) = [st |-> AddFlushed(OnDisk.st, id),
                             memtables |-> OnDisk.memtables \ {id},
                             next_id |-> AtLeast(OnDisk.next_id, {id})]
  BY <1>8 DEF Applied
<1>11. /\ AddFlushed(OnDisk.st, id).l0_sstables = flushed.l0_sstables
       /\ AddFlushed(OnDisk.st, id).levels = flushed.levels
  BY <1>4, StateFields, FlushedLists DEF Caught, ManifestHolds, Shape, Types
<1> HIDE DEF r, flushed
<1>12. Caught(Applied(OnDisk, r), state', LiveMemtables')
  BY <1>4, <1>5, <1>7, <1>10, <1>11 DEF Caught
<1>13. \A u \in Threads \ {t} : pc'[u] \notin RecordSteps
  BY <1>3, <1>4
<1>14. pc'[t] \in RecordSteps
  BY <1>3 DEF RecordSteps
<1>15. Referenced(OnDisk.st) \subseteq state'.sstables
  BY <1>4, <1>5
<1> QED BY <1>1, <1>9, <1>12, <1>13, <1>14, <1>15, ManifestSwaps


(* A compaction that looks into no table, in recovery as when it ran *)
Relisted(st, task, output) ==
  CASE task.type = "ForceFull" -> ForceFullApply(st, task, output)
    [] task.type = "Tiered" -> TieredApply(st, task, output)
    [] task.type = "Simple" -> SimpleApply(st, task, output)

(* The lists after it depend on the lists before it only. *)
LEMMA AppliedLists ==
  ASSUME NEW st, NEW su, NEW task, NEW output,
         st.l0_sstables = su.l0_sstables, st.levels = su.levels,
         task.type \in {"ForceFull", "Simple", "Tiered"}, Fields(st), Fields(su)
  PROVE  LET a == Relisted(st, task, output)
             b == Relisted(su, task, output)
         IN  a.l0_sstables = b.l0_sstables /\ a.levels = b.levels
<1>1. CASE task.type = "ForceFull"
  BY <1>1 DEF Relisted, ForceFullApply, Fields
<1>2. CASE task.type = "Tiered"
  <2>1. \A i : TierMatched(st, task, i) <=> TierMatched(su, task, i)
    BY DEF TierMatched
  <2>2. \A new : TiersReplaced(st, task, new) = TiersReplaced(su, task, new)
    BY <2>1 DEF TiersReplaced
  <2> QED BY <1>2, <2>2 DEF Relisted, TieredApply, Fields
<1>3. CASE task.type = "Simple"
  BY <1>3 DEF Relisted, SimpleApply, Fields
<1> QED BY <1>1, <1>2, <1>3

(* A compaction: its record will do to the lists what it did. *)
LEMMA CompactApplyManifest ==
  ASSUME Types, LsmIInv, ManifestHolds, NEW t \in Threads, CompactApply(t)
  PROVE  ManifestHolds'
<1> DEFINE task == job[t].task  output == job[t].output  r == Compaction(task, output)
           added == [state EXCEPT !.sstables = @ \cup ToSet(output)]
           applied == ApplyCompactionResult(added, sst, task, output, FALSE)
           replayed == ApplyCompactionResult(OnDisk.st, <<>>, task, output, TRUE)
<1>1. /\ pc[t] = "apply" /\ state_lock = NoThread /\ pc' = [pc EXCEPT ![t] = "compact_record"]
      /\ UNCHANGED <<files, manifest, new_id>>
      /\ \E s : state' = [applied EXCEPT !.sstables = s]
      /\ \E x : job' = [job EXCEPT ![t].remove = x]
  BY DEF CompactApply, diskVars
<1>2. pc \in [Threads -> Steps] /\ state \in StateOver(Ids) /\ output \in Seq(Ids)
  BY StateTypes DEF Types, TypeOK
<1>3. pc'[t] = "compact_record" /\ \A u \in Threads \ {t} : pc'[u] = pc[u]
  BY <1>1, <1>2
<1>4. /\ Caught(OnDisk, state, LiveMemtables) /\ Referenced(OnDisk.st) \subseteq state.sstables
      /\ \A u \in Threads \ {t} : pc[u] \notin RecordSteps
  BY <1>1, NothingOwed DEF LsmIInv, LockedSteps, RecordSteps
<1>5. task.type \in {"ForceFull", "Simple", "Tiered"}
  BY <1>1, <1>2, FitsOpen, StateOpen DEF LsmIInv, ThreadHolds, JobHolds
<1>6. /\ Fields(added)
      /\ added.l0_sstables = state.l0_sstables /\ added.levels = state.levels
      /\ added.memtable = state.memtable /\ added.imm_memtables = state.imm_memtables
  <2> DEFINE s == state.sstables \cup ToSet(output)
  <2>1. added = [state EXCEPT !.sstables = s]
    OBVIOUS
  <2> HIDE DEF added, s
  <2> QED BY <2>1, StateFields DEF Types, Fields
<1>7. replayed.l0_sstables = applied.l0_sstables /\ replayed.levels = applied.levels
  <2> HIDE DEF added, task, output
  <2>1. /\ OnDisk.st.l0_sstables = added.l0_sstables /\ OnDisk.st.levels = added.levels
        /\ Shape(OnDisk)
    BY <1>4, <1>6 DEF Caught, ManifestHolds
  <2> DEFINE disk == OnDisk.st
  <2>2. Fields(disk)
    BY <2>1 DEF Shape
  <2> HIDE DEF disk
  <2>3. disk.l0_sstables = added.l0_sstables /\ disk.levels = added.levels
    BY <2>1 DEF disk
  <2>4. LET a == Relisted(disk, task, output)
            b == Relisted(added, task, output)
        IN  a.l0_sstables = b.l0_sstables /\ a.levels = b.levels
    BY <1>5, <1>6, <2>2, <2>3, AppliedLists
  <2>5. replayed = Relisted(disk, task, output) /\ applied = Relisted(added, task, output)
    BY <1>5 DEF ApplyCompactionResult, Relisted, disk
  <2> QED BY <2>4, <2>5
<1>8. /\ state'.l0_sstables = applied.l0_sstables /\ state'.levels = applied.levels
      /\ state'.memtable = state.memtable /\ state'.imm_memtables = state.imm_memtables
  <2> HIDE DEF added, task, output
  <2>1. /\ Fields(applied)
        /\ applied.memtable = added.memtable /\ applied.imm_memtables = added.imm_memtables
    BY <1>5, <1>6 DEF ApplyCompactionResult, ForceFullApply, SimpleApply, TieredApply, Fields
  <2> HIDE DEF applied
  <2> QED BY <1>1, <1>6, <2>1 DEF Fields
<1>9. job'[t].task = task /\ job'[t].output = output
  BY <1>1 DEF Types
<1>10. r.type = "Compaction" /\ r.task = task /\ r.output = output
  BY DEF Compaction
<1>11. Unleveled(r) /\ Typed(r) /\ r = RecordAt(pc'[t], new_id'[t], job'[t])
  <2>1. ToSet(output) \subseteq Ids
    BY <1>2 DEF ToSet
  <2> QED BY <1>3, <1>5, <1>9, <1>10, <2>1 DEF Unleveled, RecordTypes, Typed, RecordAt
<1>12. Applied(OnDisk, r) = [st |-> replayed, memtables |-> OnDisk.memtables,
                             next_id |-> AtLeast(OnDisk.next_id, ToSet(output))]
  BY <1>10 DEF Applied, ManifestHolds, Shape
<1> HIDE DEF r, replayed, applied
<1>13. LiveMemtables' = LiveMemtables
  BY <1>8 DEF LiveMemtables
<1>14. Caught(Applied(OnDisk, r), state', LiveMemtables')
  BY <1>4, <1>7, <1>8, <1>12, <1>13 DEF Caught
<1>15. \A u \in Threads \ {t} : pc'[u] \notin RecordSteps
  BY <1>3, <1>4
<1>16. pc'[t] \in RecordSteps
  BY <1>3 DEF RecordSteps
<1> QED BY <1>1, <1>3, <1>11, <1>14, <1>15, <1>16, ManifestSwaps

(* The three actions that write a record. *)
LEMMA RecordManifest ==
  ASSUME Types, LsmIInv, ManifestHolds, NEW t \in Threads,
         ((FreezeRecord(t) \/ FlushRecord(t)) /\ UNCHANGED lsVars) \/ CompactRecord(t)
  PROVE  ManifestHolds' /\ OnDisk' = Applied(OnDisk, RecordAt(pc[t], new_id[t], job[t]))
<1> DEFINE r == RecordAt(pc[t], new_id[t], job[t])
<1> USE DEF RecordSteps
<1>0. pc \in [Threads -> Steps] /\ IInv /\ StateHolds /\ TypeOK
  BY DEF Types, TypeOK, LsmIInv
<1>1. /\ pc[t] \in RecordSteps /\ pc'[t] \notin RecordSteps
      /\ \A u \in Threads \ {t} : pc'[u] = pc[u]
      /\ manifest' = AddRecord(manifest, r) /\ UNCHANGED <<state, files>>
  <2>1. CASE FreezeRecord(t) /\ UNCHANGED lsVars
    BY <1>0, <2>1 DEF FreezeRecord, stateVars, RecordAt
  <2>2. CASE FlushRecord(t) /\ UNCHANGED lsVars
    BY <1>0, <2>2 DEF FlushRecord, stateVars, RecordAt
  <2>3. CASE CompactRecord(t)
    BY <1>0, <2>3 DEF CompactRecord, stateVars, RecordAt
  <2> QED BY <2>1, <2>2, <2>3
<1>2. \A u \in Threads \ {t} : pc[u] \notin LockedSteps
  BY <1>0, <1>1, LockAlone DEF LockedSteps
<1>3. \A u \in Threads : pc'[u] \notin RecordSteps
  BY <1>1, <1>2 DEF LockedSteps
<1> HIDE DEF r, RecordSteps
<1>4. ManifestHolds' /\ OnDisk' = Applied(OnDisk, r)
  BY <1>0, <1>1, <1>3, ManifestRecords DEF r
<1> QED BY <1>4 DEF r

(* The files that a compaction removes are not those of tables that the    *)
(* manifest names: its record is written, and the compaction is the only   *)
(* one.                                                                    *)
LEMMA RemoveManifest ==
  ASSUME Types, LsmIInv, OneCompaction, ManifestHolds, NEW t \in Threads, CompactRemove(t)
  PROVE  ManifestHolds'
<1>1. /\ pc[t] = "remove" /\ pc' = [pc EXCEPT ![t] = "idle"] /\ files' = files \ job[t].remove
      /\ job' = [job EXCEPT ![t] = NoJob] /\ UNCHANGED <<state, manifest, new_id>>
  BY DEF CompactRemove, stateVars
<1>2. /\ pc'[t] = "idle"
      /\ \A u \in Threads \ {t} : pc'[u] = pc[u] /\ job'[u] = job[u] /\ new_id'[u] = new_id[u]
  BY <1>1 DEF Types, TypeOK
<1>3. \A u \in Threads : pc[u] # "compact_record"
  BY <1>1 DEF OneCompaction, CompactionSteps
<1>4. Referenced(OnDisk.st) \subseteq state.sstables /\ Referenced(OnDisk.st) \subseteq files
  BY <1>3 DEF ManifestHolds
<1>5. job[t].remove \cap state.sstables = {}
  BY <1>1 DEF LsmIInv, ThreadHolds, HeldApart, Held
<1>6. Referenced(OnDisk.st) \subseteq files'
  BY <1>1, <1>4, <1>5
<1> QED BY <1>1, <1>2, <1>6, ManifestKept DEF RecordSteps


(* What open() needs of the directory, however the first life ended. *)
Recoverable ==
  opens = 1 => /\ life # "down" => ManifestHolds
               /\ life = "down" /\ ~TornWrites =>
                    Readable(manifest.file) /\ Shape(OnDisk) /\ Referenced(OnDisk.st) \subseteq files

(* In a new directory the manifest holds the record of MemTable 0. *)
LEMMA InitRecoverable == LsmInit => Recoverable
<1> SUFFICES ASSUME LsmInit PROVE ManifestHolds
  BY DEF Recoverable, LsmInit, Init
<1> DEFINE r == NewMemtable(0)
<1>1. r.type = "NewMemtable" /\ r.id = 0 /\ 0 \in Ids
  BY BoundsAssumption DEF NewMemtable, Ids
<1>2. Unleveled(r) /\ Typed(r)
  BY <1>1 DEF Unleveled, RecordTypes, Typed
<1>3. /\ ManifestCreate = [open |-> ManifestCreate.open, file |-> ManifestCreate.file,
                           pos |-> ManifestCreate.pos]
      /\ ManifestCreate.open /\ ManifestCreate.file = <<>>
      /\ ManifestCreate.pos = Len(ManifestCreate.file)
  BY DEF ManifestCreate
<1>4. /\ state = CreateState /\ files = {} /\ manifest = AddRecord(ManifestCreate, r)
      /\ pc = [t \in Threads |-> "idle"]
  BY DEF LsmInit, Init
<1> HIDE DEF r
<1>5. /\ manifest.open /\ manifest.pos = Len(manifest.file) /\ Readable(manifest.file)
      /\ OnDisk = Applied(ReplayStart, r)
  BY <1>2, <1>3, <1>4, FinalNone, RecordAdded DEF OnDisk
<1>6. Shape(ReplayStart) /\ ReplayStart.st = CreateState /\ ReplayStart.memtables = {}
  BY DEF ReplayStart, Shape, CreateState, Fields
<1>7. Shape(OnDisk)
  BY <1>2, <1>5, <1>6, AppliedShape
<1>8. OnDisk.st = CreateState /\ OnDisk.memtables = {0}
  BY <1>1, <1>5 DEF Applied, ReplayStart
<1>9. LiveMemtables = {0}
  BY <1>4 DEF LiveMemtables, CreateState
<1>10. Caught(OnDisk, state, LiveMemtables)
  BY <1>4, <1>8, <1>9 DEF Caught
<1>11. \A t \in Threads : pc[t] \notin RecordSteps
  BY <1>4 DEF RecordSteps
<1>12. IInv /\ StateHolds
  <2>1. FirstLife /\ opens = 1 /\ life = "up"
    BY InitHolds DEF LsmInit, Init
  <2> QED BY <2>1 DEF FirstLife, LsmIInv
<1>13. Referenced(OnDisk.st) \subseteq files /\ Referenced(OnDisk.st) \subseteq state.sstables
  BY <1>4, <1>8, <1>12, StateFiled
<1> QED BY <1>5, <1>7, <1>10, <1>11, <1>13 DEF ManifestHolds

(* A step of the write path. *)
LEMMA NextManifest ==
  ASSUME Types, LsmIInv, ManifestHolds, Next, UNCHANGED lsVars, life' # "down"
  PROVE  ManifestHolds'
<1>1. ASSUME NEW t \in Threads, FlushStep(t) PROVE ManifestHolds'
  <2>1. CASE FlushBegin(t)
    BY <2>1, FlushAside, AsideKeeps
  <2>2. CASE FlushEmpty(t)
    BY <2>2 DEF FlushEmpty
  <2>3. CASE FlushSwap(t)
    BY <2>3, FlushSwapManifest
  <2>4. CASE FlushRecord(t)
    BY <2>4, RecordManifest
  <2> QED BY <1>1, <2>1, <2>2, <2>3, <2>4 DEF FlushStep
<1>2. ASSUME NEW c \in Clients, ClientStep(c) PROVE ManifestHolds'
  <2>1. c \in Threads
    BY DEF Threads
  <2>2. CASE \/ Put(c) \/ PutInsert(c) \/ PutCheck(c) \/ ForceFreeze(c) \/ FreezeBegin(c)
             \/ ForceFlush(c) \/ Sync(c)
    BY <2>1, <2>2, ClientAside, AsideKeeps
  <2>3. CASE FreezeSwap(c)
    BY <2>1, <2>3, FreezeSwapManifest
  <2>4. CASE FreezeRecord(c)
    BY <2>1, <2>4, RecordManifest
  <2>5. CASE FlushStep(c)
    BY <1>1, <2>1, <2>5
  <2> QED BY <1>2, <2>2, <2>3, <2>4, <2>5 DEF ClientStep, FreezeStep
<1>3. CASE FlushThreadStep
  <2>1. FlushThread \in Threads
    BY DEF Threads
  <2>2. CASE TriggerFlush
    BY <2>1, <2>2, FlushAside, AsideKeeps
  <2>3. CASE FlushStep(FlushThread)
    BY <1>1, <2>1, <2>3
  <2> QED BY <1>3, <2>2, <2>3 DEF FlushThreadStep
<1> QED BY <1>2, <1>3 DEF Next

(* The steps at which the process dies: no record is written whole. *)
LEMMA DeathRecoverable ==
  ASSUME ManifestHolds, ~TornWrites, Crash \/ \E t \in Threads : FlushEmpty(t)
  PROVE  /\ UNCHANGED manifest
         /\ Readable(manifest'.file) /\ Shape(OnDisk') /\ Referenced(OnDisk'.st) \subseteq files'
<1>1. UNCHANGED manifest /\ files \subseteq files'
  BY DEF Crash, FlushEmpty
<1>2. OnDisk' = OnDisk
  BY <1>1 DEF OnDisk
<1> QED BY <1>1, <1>2 DEF ManifestHolds

(* Only these two end the process. *)
LEMMA DeathSteps ==
  ASSUME life # "down", life' = "down", LsmNext, ~\E cut \in Cuts : Open(cut)
  PROVE  Crash \/ \E t \in Threads : FlushEmpty(t)
<1> USE DEF stateVars
<1>1. ASSUME NEW t \in Threads, FlushStep(t) PROVE FlushEmpty(t)
  BY <1>1 DEF FlushStep, FlushBegin, FlushSwap, FlushRecord
<1>2. ASSUME NEW c \in Clients, ClientStep(c) PROVE FlushStep(c)
  BY <1>2 DEF ClientStep, Put, PutLog, PutInsert, PutCheck, ForceFreeze, FreezeStep, FreezeBegin,
              FreezeSwap, FreezeRecord, ForceFlush, Sync
<1>3. ASSUME Next PROVE \E t \in Threads : FlushEmpty(t)
  BY <1>1, <1>2, <1>3 DEF Next, FlushThreadStep, TriggerFlush, Threads
<1>4. ~\E t \in Clients \cup {CompactionThread} : BeginCompaction(t)
  BY DEF BeginCompaction
<1>5. ~\E t \in Threads : CompactStep(t) \/ CompactFails(t) \/ FlushFails(t)
  BY DEF CompactStep, Compact, CompactApply, CompactRecord, CompactRemove, CompactFails, FlushFails
<1>6. /\ ~CloseBegin /\ ~CloseDone /\ ~Destroy /\ ~DestroyLate
      /\ ~\E c \in Clients : CloseFreeze(c) \/ CloseFlush(c)
  BY DEF CloseBegin, CloseDone, Destroy, DestroyLate, CloseFreeze, CloseFlush
<1> QED BY <1>3, <1>4, <1>5, <1>6 DEF LsmNext

(* A step of the first life is no open(). *)
LEMMA SameLife ==
  ASSUME FirstLife, [LsmNext]_vars, opens' = 1
  PROVE  opens = 1 /\ ~\E cut \in Cuts : Open(cut)
<1>1. opens' = opens \/ ((\E cut \in Cuts : Open(cut)) /\ opens' # 1)
  BY OpensCounts DEF FirstLife
<1>2. ASSUME NEW cut \in Cuts, Open(cut) PROVE FALSE
  <2>1. opens \in Nat /\ 1 <= opens /\ opens' = opens + 1
    BY <1>2, FaultsAssumption DEF Open, FirstLife
  <2> QED BY ONLY <2>1, opens' = 1
<1> QED BY <1>1, <1>2

(* Every step keeps what open() needs. *)
LEMMA NextRecoverable ==
  ASSUME StrategyAssumed, FirstLife, OneCompaction, Recoverable, [LsmNext]_vars
  PROVE  Recoverable'
<1>1. SUFFICES ASSUME opens' = 1
               PROVE  /\ life' # "down" => ManifestHolds'
                      /\ life' = "down" /\ ~TornWrites =>
                           /\ Readable(manifest'.file) /\ Shape(OnDisk')
                           /\ Referenced(OnDisk'.st) \subseteq files'
  BY DEF Recoverable
<1>2. opens = 1 /\ (~\E cut \in Cuts : Open(cut)) /\ Types
  BY <1>1, SameLife DEF FirstLife
<1>3. CASE UNCHANGED vars
  <2>1. UNCHANGED <<life, state, manifest, files, pc, new_id, job>>
    BY <1>3 DEF vars, wpVars, lsVars, stateVars, diskVars, threadVars
  <2>2. OnDisk' = OnDisk
    BY <2>1 DEF OnDisk
  <2> QED BY <1>2, <2>1, <2>2, CloseKeepsManifest DEF Recoverable
<1>4. CASE LsmNext
  <2>1. life # "down" /\ LsmIInv /\ ManifestHolds
    BY <1>2, <1>4, DownOpens DEF FirstLife, Recoverable
  <2>2. CASE life' = "down"
    BY <1>2, <1>4, <2>1, <2>2, DeathSteps, DeathRecoverable
  <2>3. ASSUME life' # "down" PROVE ManifestHolds'
    <3>1. ASSUME NEW t \in Clients \cup {CompactionThread}, BeginCompaction(t) PROVE ManifestHolds'
      <4>1. t \in Threads
        BY DEF Threads
      <4> QED BY <1>2, <2>1, <3>1, <4>1, CompactAside, AsideKeeps
    <3>2. ASSUME NEW t \in Threads, CompactStep(t) \/ CompactFails(t) \/ FlushFails(t)
          PROVE  ManifestHolds'
      <4>1. CASE Compact(t) \/ CompactFails(t)
        BY <1>2, <2>1, <4>1, CompactAside, AsideKeeps
      <4>2. CASE FlushFails(t)
        BY <1>2, <2>1, <4>2, FlushAside, AsideKeeps
      <4>3. CASE CompactApply(t)
        BY <1>2, <2>1, <4>3, CompactApplyManifest
      <4>4. CASE CompactRecord(t)
        BY <1>2, <2>1, <4>4, RecordManifest
      <4>5. CASE CompactRemove(t)
        BY <1>2, <2>1, <4>5, RemoveManifest
      <4> QED BY <3>2, <4>1, <4>2, <4>3, <4>4, <4>5 DEF CompactStep
    <3>3. ASSUME NEW c \in Clients, CloseFreeze(c) \/ CloseFlush(c) PROVE ManifestHolds'
      <4>1. c \in Threads
        BY DEF Threads
      <4> QED BY <1>2, <2>1, <3>3, <4>1, CompactAside, AsideKeeps
    <3>4. ASSUME CloseBegin \/ CloseDone \/ Destroy PROVE ManifestHolds'
      BY <2>1, <3>4, CloseKeepsManifest
    <3>5. ASSUME Next, UNCHANGED lsVars PROVE ManifestHolds'
      BY <1>2, <2>1, <2>3, <3>5, NextManifest
    <3>6. ~Crash
      BY <2>3 DEF Crash
    <3> QED BY <1>2, <1>4, <3>1, <3>2, <3>3, <3>4, <3>5, <3>6, FirstDestroys DEF LsmNext
  <2> QED BY <2>2, <2>3
<1> QED BY <1>3, <1>4

(* So it is an invariant. *)
LEMMA RecoverableInvariant ==
  ASSUME StrategyAssumed
  PROVE  LsmSpec /\ []OneCompaction => [](FirstLife /\ Recoverable)
<1>1. LsmInit => Recoverable
  BY InitRecoverable
<1>2. FirstLife /\ OneCompaction /\ Recoverable /\ [LsmNext]_vars => Recoverable'
  BY NextRecoverable
<1> QED BY <1>1, <1>2, FirstLifeInvariant, PTL DEF LsmSpec

(* What open() makes of the directory of the first life. *)
LEMMA RecoveredIs ==
  ASSUME Readable(manifest.file), NEW cut
  PROVE  LET r == Recovered(cut) IN
         /\ r.ok /\ r.memtables = OnDisk.memtables /\ r.id = OnDisk.next_id + 1
         /\ r.mem = [i \in Ids \cup {r.id} |->
                       IF EnableWal /\ i \in OnDisk.memtables THEN RecoverFromWal(i, cut[i])
                       ELSE EmptyTable]
         /\ r.st = [OnDisk.st EXCEPT
                      !.memtable = r.id,
                      !.imm_memtables = NewestFirst({i \in OnDisk.memtables : r.mem[i] # EmptyTable}),
                      !.sstables = Referenced(OnDisk.st)]
<1>1. Parse(manifest.file).ok /\ Replay(Parse(manifest.file).records) = OnDisk
  BY ReplayFinal DEF OnDisk
<1> QED BY <1>1 DEF Recovered

(* Its tables are those of the manifest. *)
LEMMA RecoveredLists ==
  ASSUME Readable(manifest.file), Shape(OnDisk), NEW cut
  PROVE  LET r == Recovered(cut) IN
         /\ r.st.l0_sstables = OnDisk.st.l0_sstables /\ r.st.levels = OnDisk.st.levels
         /\ r.st.sstables = Referenced(OnDisk.st) /\ Referenced(r.st) = Referenced(OnDisk.st)
         /\ r.st.memtable = r.id
         /\ r.st.imm_memtables = NewestFirst({i \in OnDisk.memtables : r.mem[i] # EmptyTable})
<1> DEFINE r == Recovered(cut)
           imm == NewestFirst({i \in OnDisk.memtables : r.mem[i] # EmptyTable})
<1>1. r.st = [OnDisk.st EXCEPT !.memtable = r.id, !.imm_memtables = imm,
                               !.sstables = Referenced(OnDisk.st)]
  BY RecoveredIs
<1> HIDE DEF r, imm
<1>2. /\ r.st.l0_sstables = OnDisk.st.l0_sstables /\ r.st.levels = OnDisk.st.levels
      /\ r.st.sstables = Referenced(OnDisk.st) /\ r.st.memtable = r.id
      /\ r.st.imm_memtables = imm
  BY <1>1 DEF Shape, Fields
<1>3. Referenced(r.st) = Referenced(OnDisk.st)
  BY <1>2, SameReferenced
<1> QED BY <1>2, <1>3 DEF r, imm

(* Whenever nobody is between a swap and its record, replaying the         *)
(* manifest gives the L0 and the levels the process has in memory.  (A     *)
(* swap and its record are two steps under state_lock, and a crash can     *)
(* come between them.)                                                     *)
THEOREM ManifestFollowsState ==
  ASSUME StrategyAssumed
  PROVE  LsmSpec /\ []OneCompaction => []ManifestMatchesState
<1>1. ASSUME FirstLife, Recoverable, opens = 1, life \in {"up", "closing"}, state_lock = NoThread
      PROVE  LET st == Recovered(synced).st
             IN  st.l0_sstables = state.l0_sstables /\ st.levels = state.levels
  <2>1. ManifestHolds /\ LsmIInv /\ Types
    BY <1>1 DEF Recoverable, FirstLife
  <2>2. \A t \in Threads : pc[t] \notin RecordSteps
    <3> SUFFICES ASSUME NEW t \in Threads, pc[t] \in RecordSteps PROVE FALSE
      OBVIOUS
    <3>1. state_lock = t
      BY <2>1 DEF LsmIInv, IInv, LockHolds, LockedSteps, RecordSteps
    <3> QED BY <1>1, <3>1, ThreadsAssumption DEF Threads
  <2>3. Caught(OnDisk, state, LiveMemtables) /\ Readable(manifest.file) /\ Shape(OnDisk)
    BY <2>1, <2>2 DEF ManifestHolds
  <2> QED BY <2>3, RecoveredLists DEF Caught
<1>2. FirstLife /\ Recoverable => ManifestMatchesState
  BY <1>1 DEF ManifestMatchesState
<1> QED BY <1>2, RecoverableInvariant, PTL

(* Whenever the process is killed between two writes, the manifest can be  *)
(* read and every table it names has its file.                             *)
THEOREM RecoveryOpens ==
  ASSUME StrategyAssumed, ~TornWrites
  PROVE  LsmSpec /\ []OneCompaction => []OpenSucceeds
<1>1. ASSUME Recoverable, opens = 1
      PROVE  LET r == Recovered(synced) IN r.ok /\ Referenced(r.st) \subseteq files
  <2>1. Readable(manifest.file) /\ Shape(OnDisk) /\ Referenced(OnDisk.st) \subseteq files
    BY <1>1 DEF Recoverable, ManifestHolds
  <2> QED BY <2>1, RecoveredIs, RecoveredLists
<1>2. Recoverable => OpenSucceeds
  BY <1>1 DEF OpenSucceeds
<1> QED BY <1>2, RecoverableInvariant, PTL

(* The compaction thread is one, so with a strategy for it no hypothesis   *)
(* on the history is left.                                                 *)
THEOREM BackgroundRecovery ==
  ASSUME StrategyAssumed, CompactionOptions.type # "NoCompaction", ~TornWrites
  PROVE  LsmSpec => [](ManifestMatchesState /\ OpenSucceeds)
BY ManifestFollowsState, RecoveryOpens, CompactionsApart, PTL


-----------------------------------------------------------------------------
(* The MemTables of open() *)

(* A list of ids, the greatest first, without repetition. *)
Descends(s, T) ==
  /\ s \in Seq(Ids) /\ {s[i] : i \in DOMAIN s} = T
  /\ \A i, j \in DOMAIN s : i < j => s[i] > s[j]

(* A greater id can be put at the front. *)
LEMMA DescendsCons ==
  ASSUME NEW s, NEW T, Descends(s, T), NEW x \in Ids, \A y \in T : y < x
  PROVE  Descends(<<x>> \o s, T \cup {x})
<1> DEFINE n == Len(s)  new == <<x>> \o s
<1>0. Ids \subseteq Nat
  BY BoundsAssumption DEF Ids
<1>1. s \in Seq(Ids) /\ n \in Nat /\ DOMAIN s = 1 .. n /\ \A i \in 1 .. n : s[i] \in Ids
  BY DEF Descends
<1>2. /\ new \in Seq(Ids) /\ DOMAIN new = 1 .. n + 1 /\ new[1] = x
      /\ \A i \in 1 .. n : new[i + 1] = s[i]
  BY <1>1
<1>3. \A i \in 1 .. n + 1 : i = 1 \/ (i - 1 \in 1 .. n /\ new[i] = s[i - 1])
  BY <1>1, <1>2
<1>4. /\ {s[i] : i \in 1 .. n} = T
      /\ \A i, j \in 1 .. n : i < j => s[i] > s[j]
  BY <1>1 DEF Descends
<1> HIDE DEF new, n
<1>5. {new[i] : i \in 1 .. n + 1} = T \cup {x}
  <2>1. ASSUME NEW i \in 1 .. n + 1 PROVE new[i] \in T \cup {x}
    BY <1>2, <1>3, <1>4
  <2>2. ASSUME NEW y \in T PROVE \E i \in 1 .. n + 1 : new[i] = y
    <3>1. PICK i \in 1 .. n : s[i] = y
      BY <1>4
    <3>2. i + 1 \in 1 .. n + 1
      BY <1>1
    <3> QED BY <1>2, <3>1, <3>2
  <2>3. 1 \in 1 .. n + 1
    BY <1>1
  <2> QED BY <1>2, <2>1, <2>2, <2>3
<1>6. ASSUME NEW i \in 1 .. n + 1, NEW j \in 1 .. n + 1, i < j PROVE new[i] > new[j]
  <2>1. j - 1 \in 1 .. n /\ new[j] = s[j - 1] /\ j # 1
    BY <1>1, <1>3, <1>6
  <2>2. CASE i = 1
    <3>1. s[j - 1] \in T /\ s[j - 1] \in Nat /\ x \in Nat
      BY <1>0, <1>1, <1>4, <2>1
    <3>2. s[j - 1] < x
      BY <3>1
    <3> QED BY <1>2, <2>1, <2>2, <3>1, <3>2
  <2>3. CASE i # 1
    <3>1. i - 1 \in 1 .. n /\ new[i] = s[i - 1] /\ i - 1 < j - 1
      BY <1>1, <1>3, <1>6, <2>1, <2>3
    <3> QED BY <1>4, <2>1, <3>1
  <2> QED BY <2>2, <2>3
<1>7. Descends(new, T \cup {x})
  BY <1>2, <1>5, <1>6 DEF Descends
<1> QED BY <1>7 DEF new

(* What the loop of open() has for the ids below every one up to n. *)
Counted(ids, n, g) ==
  g = [m \in 0 .. n |-> IF m = 0 THEN <<>>
                        ELSE IF m - 1 \in ids THEN <<m - 1>> \o g[m - 1] ELSE g[m - 1]]

(* The loop can be run as far as needed. *)
LEMMA CountedExists == ASSUME NEW ids, NEW n \in Nat PROVE \E g : Counted(ids, n, g)
<1> DEFINE S == {m \in Nat : ~\E g : Counted(ids, m, g)}
<1>1. SUFFICES ASSUME S # {} PROVE FALSE
  OBVIOUS
<1>2. S \in SUBSET Nat
  OBVIOUS
<1>3. PICK m \in S : \A l \in S : m <= l
  <2> HIDE DEF S
  <2> QED BY <1>1, <1>2, LeastIndex
<1>4. m \in Nat /\ ~\E g : Counted(ids, m, g)
  OBVIOUS
<1>5. CASE m = 0
  <2> DEFINE g == [i \in 0 .. 0 |-> <<>>]
  <2>1. \A i \in 0 .. 0 : i = 0
    OBVIOUS
  <2>2. Counted(ids, 0, g)
    BY <2>1 DEF Counted
  <2> QED BY <1>4, <1>5, <2>2
<1>6. CASE m # 0
  <2>1. m - 1 \in Nat /\ ~(m <= m - 1)
    BY <1>4, <1>6
  <2>2. m - 1 \notin S
    BY <1>3, <2>1
  <2>3. PICK f : Counted(ids, m - 1, f)
    BY <2>1, <2>2
  <2> DEFINE p == m - 1
             last == IF p \in ids THEN <<p>> \o f[p] ELSE f[p]
             g == [i \in 0 .. m |-> IF i = m THEN last ELSE f[i]]
  <2>4. ASSUME NEW i \in 0 .. p
        PROVE  f[i] = IF i = 0 THEN <<>>
                      ELSE IF i - 1 \in ids THEN <<i - 1>> \o f[i - 1] ELSE f[i - 1]
    BY <2>3 DEF Counted
  <2>5. ASSUME NEW i \in 0 .. m
        PROVE  g[i] = IF i = 0 THEN <<>>
                      ELSE IF i - 1 \in ids THEN <<i - 1>> \o g[i - 1] ELSE g[i - 1]
    <3>1. CASE i = m
      <4>1. i # 0 /\ i - 1 = p /\ p \in 0 .. m /\ p # m
        BY <1>4, <1>6, <3>1
      <4>2. g[i] = last /\ g[p] = f[p]
        BY <3>1, <4>1
      <4> HIDE DEF g, p
      <4> QED BY <4>1, <4>2
    <3>2. CASE i = 0
      <4>1. i # m /\ i \in 0 .. p
        BY <1>4, <1>6, <2>1, <3>2
      <4>2. g[i] = f[i]
        BY <4>1
      <4> QED BY <2>4, <3>2, <4>1, <4>2
    <3>3. CASE i # m /\ i # 0
      <4>1. i \in 0 .. p /\ i - 1 \in 0 .. m /\ i - 1 # m
        BY <1>4, <1>6, <3>3
      <4>2. g[i] = f[i] /\ g[i - 1] = f[i - 1]
        BY <3>3, <4>1
      <4> HIDE DEF g
      <4> QED BY <2>4, <3>3, <4>1, <4>2
    <3> QED BY <3>1, <3>2, <3>3
  <2>6. g = [i \in 0 .. m |-> g[i]]
    OBVIOUS
  <2> HIDE DEF g
  <2>7. Counted(ids, m, g)
    BY <2>5, <2>6 DEF Counted
  <2> QED BY <1>4, <2>7
<1> QED BY <1>5, <1>6

(* It keeps the list of the ids below the one it is at. *)
LEMMA CountedLists ==
  ASSUME NEW ids, ids \subseteq Ids, NEW n \in 0 .. MaxId + 1, NEW g, Counted(ids, n, g),
         NEW i \in 0 .. n
  PROVE  Descends(g[i], {j \in ids : j < i})
<1> DEFINE Below(m) == {j \in ids : j < m}
           S == {m \in 0 .. n : ~Descends(g[m], Below(m))}
<1>0. n \in Nat /\ n <= MaxId + 1 /\ MaxId \in Nat /\ Ids \subseteq Nat
  BY BoundsAssumption DEF Ids
<1>1. SUFFICES ASSUME S # {} PROVE FALSE
  OBVIOUS
<1>2. S \in SUBSET Nat
  BY <1>0
<1>3. PICK m \in S : \A l \in S : m <= l
  <2> HIDE DEF S
  <2> QED BY <1>1, <1>2, LeastIndex
<1>4. m \in 0 .. n /\ ~Descends(g[m], Below(m))
  OBVIOUS
<1>5. g[m] = IF m = 0 THEN <<>> ELSE IF m - 1 \in ids THEN <<m - 1>> \o g[m - 1] ELSE g[m - 1]
  BY <1>4 DEF Counted
<1>6. CASE m = 0
  <2>1. \A j \in ids : ~(j < 0)
    BY <1>0
  <2>2. Below(0) = {} /\ <<>> \in Seq(Ids) /\ DOMAIN <<>> = {}
    BY <2>1
  <2>3. Descends(<<>>, Below(0))
    BY <2>2 DEF Descends
  <2> QED BY <1>4, <1>5, <1>6, <2>3
<1>7. CASE m # 0
  <2> DEFINE p == m - 1
  <2>1. p \in 0 .. n /\ ~(m <= p) /\ p \in Ids /\ m = p + 1
    BY <1>0, <1>4, <1>7 DEF Ids
  <2>2. p \notin S
    BY <1>3, <2>1
  <2>3. Descends(g[p], Below(p))
    BY <2>1, <2>2
  <2>4. p \in Nat /\ \A j \in ids : j \in Nat
    BY <1>0, <2>1
  <2>5. \A j \in ids : j < m <=> (j < p \/ j = p)
    <3> HIDE DEF p
    <3>1. ASSUME NEW j \in Nat PROVE j < m <=> (j < p \/ j = p)
      BY <2>1, <2>4
    <3> QED BY <2>4, <3>1
  <2>6. CASE p \in ids
    <3>1. Below(m) = Below(p) \cup {p}
      BY <2>5, <2>6
    <3>2. g[m] = <<p>> \o g[p]
      BY <1>5, <1>7, <2>6
    <3>3. \A y \in Below(p) : y < p
      OBVIOUS
    <3> HIDE DEF p, Below
    <3>4. Descends(<<p>> \o g[p], Below(p) \cup {p})
      BY <2>1, <2>3, <3>3, DescendsCons
    <3> QED BY <1>4, <3>1, <3>2, <3>4
  <2>7. CASE p \notin ids
    <3>1. Below(m) = Below(p)
      BY <2>5, <2>7
    <3>2. g[m] = g[p]
      BY <1>5, <1>7, <2>7
    <3> QED BY <1>4, <2>3, <3>1, <3>2
  <2> QED BY <2>6, <2>7
<1> QED BY <1>6, <1>7

(* So open() lists the MemTables the newest first. *)
LEMMA NewestDescends ==
  ASSUME NEW ids, ids \subseteq Ids
  PROVE  Descends(NewestFirst(ids), ids)
<1> DEFINE n == MaxId + 1
           Counts(g) == g = [m \in 0 .. MaxId + 1 |->
             IF m = 0 THEN <<>> ELSE IF m - 1 \in ids THEN <<m - 1>> \o g[m - 1] ELSE g[m - 1]]
           f == CHOOSE g : Counts(g)
<1>1. NewestFirst(ids) = f[MaxId + 1]
  BY DEF NewestFirst
<1>2. n \in Nat /\ n \in 0 .. MaxId + 1 /\ n \in 0 .. n
  BY BoundsAssumption
<1>3. PICK h : Counted(ids, n, h)
  BY <1>2, CountedExists
<1>4. Counts(h)
  BY <1>3 DEF Counted
<1>5. Counts(f)
  <2> HIDE DEF Counts
  <2> QED BY <1>4
<1>6. Counted(ids, n, f)
  BY <1>5 DEF Counted
<1> HIDE DEF f
<1>7. Descends(f[n], {j \in ids : j < n})
  <2> HIDE DEF n
  <2> QED BY <1>2, <1>6, CountedLists
<1>8. {j \in ids : j < n} = ids
  <2>1. \A j \in Ids : j < n
    BY BoundsAssumption DEF Ids
  <2> QED BY <2>1
<1> QED BY <1>1, <1>7, <1>8

(* What a reader finds for key k in the MemTables T, whose contents maps   *)
(* gives: the entry of the newest one that has any, or what is below them. *)
TopIs(T, maps, k, below, e) ==
  \/ (\A j \in T : maps[j][k] = Absent) /\ e = below
  \/ \E m \in T : /\ maps[m][k] # Absent /\ e = maps[m][k]
                  /\ \A j \in T : j > m => maps[j][k] = Absent

(* A merge over the list finds it. *)
LEMMA TopListed ==
  ASSUME NEW s, NEW T, Descends(s, T), NEW maps, NEW k, NEW below
  PROVE  TopIs(T, maps, k, below, OrElse(FirstHit([i \in DOMAIN s |-> maps[s[i]]], k), below))
<1> DEFINE ts == [i \in DOMAIN s |-> maps[s[i]]]
           n == Len(s)
           e == FirstHit(ts, k)
<1>0. Ids \subseteq Nat
  BY BoundsAssumption DEF Ids
<1>1. /\ n \in Nat /\ DOMAIN s = 1 .. n /\ DOMAIN ts = 1 .. n
      /\ \A i \in 1 .. n : s[i] \in Nat /\ s[i] \in T /\ ts[i] = maps[s[i]]
      /\ \A j \in T : \E i \in 1 .. n : j = s[i]
      /\ \A i, j \in 1 .. n : i < j => s[i] > s[j]
  <2>1. s \in Seq(Ids)
    BY DEF Descends
  <2>2. n \in Nat /\ DOMAIN s = 1 .. n /\ \A i \in 1 .. n : s[i] \in Ids
    BY <2>1
  <2>3. DOMAIN ts = DOMAIN s /\ \A i \in DOMAIN s : ts[i] = maps[s[i]]
    OBVIOUS
  <2>4. /\ {s[i] : i \in DOMAIN s} = T
        /\ \A i, j \in DOMAIN s : i < j => s[i] > s[j]
    BY DEF Descends
  <2> HIDE DEF ts, n
  <2>5. /\ \A i \in 1 .. n : s[i] \in T
        /\ \A j \in T : \E i \in 1 .. n : j = s[i]
    BY <2>2, <2>4
  <2> QED BY <1>0, <2>2, <2>3, <2>4, <2>5
<1> HIDE DEF ts, n
<1>2. CASE \A i \in 1 .. n : ts[i][k] = Absent
  <2>1. e = Absent
    BY <1>1, <1>2, FirstHitNone
  <2>2. \A j \in T : maps[j][k] = Absent
    BY <1>1, <1>2
  <2> QED BY <2>1, <2>2 DEF TopIs, OrElse, ts
<1>3. CASE \E i \in 1 .. n : ts[i][k] # Absent
  <2> DEFINE H == {i \in 1 .. n : ts[i][k] # Absent}
  <2>1. H \in SUBSET Nat /\ H # {}
    BY <1>1, <1>3
  <2>2. PICK i \in H : \A j \in H : i <= j
    <3> HIDE DEF H
    <3> QED BY <2>1, LeastIndex
  <2>3. i \in 1 .. n /\ ts[i][k] # Absent
    OBVIOUS
  <2>4. ASSUME NEW j \in 1 .. n, j < i PROVE ts[j][k] = Absent
    <3>1. j \notin H
      BY <1>1, <2>2, <2>3, <2>4
    <3> QED BY <3>1
  <2>5. e = ts[i][k]
    <3>1. DOMAIN ts \in SUBSET Nat
      BY <1>1
    <3> QED BY <1>1, <2>3, <2>4, <3>1, FirstHitAt
  <2>6. ASSUME NEW j \in T, j > s[i] PROVE maps[j][k] = Absent
    <3>1. PICK l \in 1 .. n : j = s[l]
      BY <1>1
    <3>2. l < i
      <4>1. CASE l = i
        BY <1>1, <2>3, <2>6, <3>1, <4>1
      <4>2. CASE i < l
        <5>1. s[i] > s[l] /\ s[i] \in Nat /\ s[l] \in Nat
          BY <1>1, <2>3, <4>2
        <5> QED BY <2>6, <3>1, <5>1
      <4> QED BY <1>1, <2>3, <4>1, <4>2
    <3> QED BY <1>1, <2>4, <3>1, <3>2
  <2>7. s[i] \in T /\ maps[s[i]][k] # Absent /\ e = maps[s[i]][k]
    BY <1>1, <2>3, <2>5
  <2> HIDE DEF e
  <2>8. TopIs(T, maps, k, below, OrElse(e, below))
    BY <2>6, <2>7 DEF TopIs, OrElse
  <2> QED BY <2>8 DEF e, ts
<1> QED BY <1>2, <1>3

(* It is determined by the entries of the key. *)
LEMMA TopUnique ==
  ASSUME NEW T, T \subseteq Ids, NEW f, NEW g, NEW k, NEW below, NEW a, NEW b,
         TopIs(T, f, k, below, a), TopIs(T, g, k, below, b), \A j \in T : f[j][k] = g[j][k]
  PROVE  a = b
<1>0. \A i, j \in T : i > j \/ j > i \/ i = j
  BY BoundsAssumption DEF Ids
<1> QED BY <1>0 DEF TopIs

(* MemTables without the key can be left out. *)
LEMMA TopWider ==
  ASSUME NEW T, NEW U, T \subseteq U, NEW maps, NEW k, NEW below, NEW e,
         TopIs(T, maps, k, below, e), \A j \in U \ T : maps[j][k] = Absent
  PROVE  TopIs(U, maps, k, below, e)
<1>1. CASE (\A j \in T : maps[j][k] = Absent) /\ e = below
  BY <1>1 DEF TopIs
<1>2. CASE \E m \in T : /\ maps[m][k] # Absent /\ e = maps[m][k]
                        /\ \A j \in T : j > m => maps[j][k] = Absent
  BY <1>2 DEF TopIs
<1> QED BY <1>1, <1>2 DEF TopIs

(* Maps that agree on the key are as good. *)
LEMMA TopSame ==
  ASSUME NEW T, NEW f, NEW g, NEW k, NEW below, NEW e,
         TopIs(T, f, k, below, e), \A j \in T : f[j][k] = g[j][k]
  PROVE  TopIs(T, g, k, below, e)
<1>1. CASE (\A j \in T : f[j][k] = Absent) /\ e = below
  BY <1>1 DEF TopIs
<1>2. CASE \E m \in T : /\ f[m][k] # Absent /\ e = f[m][k]
                        /\ \A j \in T : j > m => f[j][k] = Absent
  BY <1>2 DEF TopIs
<1> QED BY <1>1, <1>2 DEF TopIs

(* What is found in the tables of the lists, if they are all open. *)
InLists(l0, levels, tables, k) ==
  OrElse(FirstHit(Contents(tables, l0), k), FirstHit(Runs(tables, levels), k))

(* What a WAL gives back, cut after some frames. *)
Rebuilt(cut) ==
  [i \in Ids |-> IF EnableWal THEN RecoverFromWal(i, cut[i]) ELSE EmptyTable]

(* What get() would find after open(). *)
LEMMA RecoveredTop ==
  ASSUME Readable(manifest.file), Shape(OnDisk), NEW cut, NEW k \in Keys
  PROVE  TopIs(OnDisk.memtables, Rebuilt(cut), k,
               InLists(OnDisk.st.l0_sstables, OnDisk.st.levels, sst, k), RecoveredEntry(cut, k))
<1> DEFINE r == Recovered(cut)
           T == OnDisk.memtables
           filled == {i \in T : r.mem[i] # EmptyTable}
           s == NewestFirst(filled)
           below == SstEntry(r.st, sst, k)
           hit == FirstHit([i \in DOMAIN s |-> r.mem[s[i]]], k)
<1>1. /\ r.id = OnDisk.next_id + 1
      /\ r.mem = [i \in Ids \cup {r.id} |->
                    IF EnableWal /\ i \in T THEN RecoverFromWal(i, cut[i]) ELSE EmptyTable]
  BY RecoveredIs
<1>2. /\ r.st.l0_sstables = OnDisk.st.l0_sstables /\ r.st.levels = OnDisk.st.levels
      /\ r.st.sstables = Referenced(OnDisk.st)
      /\ r.st.memtable = r.id /\ r.st.imm_memtables = s
  BY RecoveredLists
<1>3. T \subseteq Ids /\ OnDisk.next_id \in Nat /\ \A i \in T : i <= OnDisk.next_id
  BY DEF Shape
<1>4. RecoveredEntry(cut, k) = OrElse(r.mem[r.id][k], OrElse(hit, below))
  <2>1. RecoveredEntry(cut, k) = Entry(r.st, r.mem, k)
    BY DEF RecoveredEntry
  <2> HIDE DEF r
  <2> QED BY <1>2, <2>1 DEF Entry
<1> HIDE DEF r
<1>5. r.mem[r.id][k] = Absent
  <2>1. r.id \notin T
    <3> SUFFICES ASSUME r.id \in T PROVE FALSE
      OBVIOUS
    <3>1. OnDisk.next_id + 1 <= OnDisk.next_id
      BY <1>1, <1>3
    <3> QED BY <1>3, <3>1
  <2>2. r.mem[r.id] = EmptyTable
    BY <1>1, <2>1
  <2> QED BY <2>2 DEF EmptyTable
<1>6. \A i \in T : r.mem[i] = Rebuilt(cut)[i]
  BY <1>1, <1>3 DEF Rebuilt
<1>7. RecoveredEntry(cut, k) = OrElse(hit, below)
  BY <1>4, <1>5 DEF OrElse
<1>8. below = InLists(OnDisk.st.l0_sstables, OnDisk.st.levels, sst, k)
  <2> DEFINE st == r.st
  <2>1. st.l0_sstables = OnDisk.st.l0_sstables /\ st.levels = OnDisk.st.levels
        /\ st.sstables = Referenced(OnDisk.st)
    BY <1>2
  <2> HIDE DEF st
  <2>2. RefsOpen(st)
    <3> DEFINE d == OnDisk.st
    <3>1. \A i \in DOMAIN d.l0_sstables : d.l0_sstables[i] \in Referenced(d)
      BY DEF Referenced, ToSet
    <3>2. ASSUME NEW l \in DOMAIN d.levels, NEW i \in DOMAIN d.levels[l].ssts
          PROVE  d.levels[l].ssts[i] \in Referenced(d)
      BY DEF Referenced, ToSet
    <3> HIDE DEF d
    <3> QED BY ONLY <2>1, <3>1, <3>2 DEF RefsOpen, d
  <2>3. SstEntry(st, sst, k) = InLists(st.l0_sstables, st.levels, sst, k)
    BY <2>2, SstEntryOpen DEF InLists
  <2> QED BY <2>1, <2>3 DEF st
<1>9. Descends(s, filled)
  <2>1. filled \subseteq Ids
    BY <1>3
  <2> HIDE DEF filled
  <2> QED BY <2>1, NewestDescends
<1> DEFINE maps == r.mem
<1> HIDE DEF s, below
<1>10. TopIs(filled, maps, k, below, OrElse(hit, below))
  <2> HIDE DEF filled, maps
  <2>1. hit = FirstHit([i \in DOMAIN s |-> maps[s[i]]], k)
    BY DEF maps
  <2> HIDE DEF hit
  <2> QED BY <1>9, <2>1, TopListed
<1> HIDE DEF hit
<1>11. filled \subseteq T /\ \A j \in T \ filled : maps[j][k] = Absent
  BY DEF EmptyTable
<1> HIDE DEF filled
<1>12. \A i \in T : maps[i][k] = Rebuilt(cut)[i][k]
  BY <1>6
<1> HIDE DEF maps, T
<1>13. TopIs(T, maps, k, below, OrElse(hit, below))
  BY <1>10, <1>11, TopWider
<1>14. TopIs(T, Rebuilt(cut), k, below, OrElse(hit, below))
  BY <1>12, <1>13, TopSame
<1> QED BY <1>7, <1>8, <1>14 DEF T

(* The MemTables in memory, the newest first. *)
Line == <<state.memtable>> \o state.imm_memtables

(* What get() finds, in the same terms. *)
LEMMA EntryTop ==
  ASSUME TypeOK, IInv, Descends(Line, LiveMemtables), NEW k \in Keys
  PROVE  TopIs(LiveMemtables, mem, k, InLists(state.l0_sstables, state.levels, sst, k),
               Entry(state, mem, k))
<1> DEFINE imm == state.imm_memtables
           n == Len(imm)
           ts == [i \in DOMAIN imm |-> mem[imm[i]]]
           us == [i \in DOMAIN Line |-> mem[Line[i]]]
           below == SstEntry(state, sst, k)
<1>1. imm \in Seq(Ids) /\ state.memtable \in Ids
  BY DEF TypeOK, LsmStorageState
<1>2. /\ n \in Nat /\ DOMAIN imm = 1 .. n /\ DOMAIN Line = 1 .. n + 1 /\ Line[1] = state.memtable
      /\ \A i \in 1 .. n : Line[i + 1] = imm[i] /\ i + 1 \in 1 .. n + 1
      /\ 1 \in 1 .. n + 1
  BY <1>1 DEF Line
<1>3. /\ DOMAIN ts = 1 .. n /\ DOMAIN us = 1 .. n + 1 /\ us[1] = mem[state.memtable]
      /\ \A i \in 1 .. n : us[i + 1] = ts[i]
  BY <1>2
<1> HIDE DEF ts, us, n
<1>4. FirstHit(us, k) = OrElse(us[1][k], FirstHit(ts, k))
  BY <1>2, <1>3, FirstHitCons
<1>5. Entry(state, mem, k) = OrElse(us[1][k], OrElse(FirstHit(ts, k), below))
  BY <1>3 DEF Entry, ts
<1>6. Entry(state, mem, k) = OrElse(FirstHit(us, k), below)
  BY <1>4, <1>5 DEF OrElse
<1>7. below = InLists(state.l0_sstables, state.levels, sst, k)
  BY StateOpen, SstEntryOpen DEF InLists
<1>8. TopIs(LiveMemtables, mem, k, below, OrElse(FirstHit(us, k), below))
  <2> HIDE DEF below
  <2> QED BY TopListed DEF us
<1> QED BY <1>6, <1>7, <1>8

-----------------------------------------------------------------------------
(* close() *)

(* Newer MemTables have greater ids, the one a freeze has made included. *)
Ordered ==
  /\ Descends(Line, LiveMemtables)
  /\ \A t \in Threads : pc[t] = "freeze_swap" => \A i \in LiveMemtables : i < new_id[t]

(* What close() leaves: nobody is in the middle of anything, and without   *)
(* WALs no MemTable has entries.                                           *)
Closed ==
  /\ \A t \in Threads : pc[t] = "idle"
  /\ ~EnableWal => mem[state.memtable] = EmptyTable /\ state.imm_memtables = <<>>

(* What the destructors leave: all WALs are written out. *)
WrittenOut == synced = [i \in Ids |-> Len(wal[i])]

Ended == {"closed", "destroyed"}

(* Until the process dies or the directory is opened again. *)
Lined ==
  opens = 1 /\ life # "down" =>
    /\ Ordered /\ WalIInv
    /\ life \in Ended => Closed
    /\ life = "destroyed" => WrittenOut

(* The MemTables in memory are those of the list. *)
LEMMA LineLists ==
  ASSUME TypeOK
  PROVE  Line \in Seq(Ids) /\ LiveMemtables = {Line[i] : i \in DOMAIN Line}
<1> DEFINE imm == state.imm_memtables  n == Len(imm)
<1>1. imm \in Seq(Ids) /\ state.memtable \in Ids
  BY DEF TypeOK, LsmStorageState
<1>2. /\ Line \in Seq(Ids) /\ DOMAIN imm = 1 .. n /\ DOMAIN Line = 1 .. n + 1 /\ n \in Nat
      /\ Line[1] = state.memtable
      /\ \A i \in 1 .. n : Line[i + 1] = imm[i] /\ i + 1 \in 1 .. n + 1
      /\ \A i \in 1 .. n + 1 : i = 1 \/ (i - 1 \in 1 .. n /\ Line[i] = imm[i - 1])
      /\ 1 \in 1 .. n + 1
  BY <1>1 DEF Line
<1> HIDE DEF n
<1>3. ASSUME NEW j \in 1 .. n + 1
      PROVE  Line[j] \in {state.memtable} \cup {imm[i] : i \in 1 .. n}
  BY <1>2
<1>4. ASSUME NEW j \in 1 .. n PROVE imm[j] \in {Line[i] : i \in 1 .. n + 1}
  BY <1>2
<1>5. {state.memtable} \cup {imm[i] : i \in 1 .. n} = {Line[i] : i \in 1 .. n + 1}
  <2>1. state.memtable \in {Line[i] : i \in 1 .. n + 1}
    BY ONLY <1>2
  <2> QED BY ONLY <1>3, <1>4, <2>1
<1> QED BY <1>2, <1>5 DEF LiveMemtables

(* A step that leaves the MemTables and the freezes alone leaves the order. *)
LEMMA OrderedKept ==
  ASSUME Ordered, state'.memtable = state.memtable, state'.imm_memtables = state.imm_memtables,
         \A t \in Threads : pc'[t] = "freeze_swap" =>
           pc[t] = "freeze_swap" /\ new_id'[t] = new_id[t]
  PROVE  Ordered'
<1>1. Line' = Line /\ LiveMemtables' = LiveMemtables
  BY DEF Line, LiveMemtables
<1> QED BY <1>1 DEF Ordered

(* A new id is greater than all. *)
LEMMA FreezeBeginOrdered ==
  ASSUME Types, IInv, Ordered, NEW c \in Threads, FreezeBegin(c)
  PROVE  Ordered'
<1>1. /\ UNCHANGED state /\ pc' = [pc EXCEPT ![c] = "freeze_swap"]
      /\ new_id' = [new_id EXCEPT ![c] = next_sst_id]
  BY DEF FreezeBegin
<1>2. Line' = Line /\ LiveMemtables' = LiveMemtables
  BY <1>1 DEF Line, LiveMemtables
<1>3. /\ new_id'[c] = next_sst_id
      /\ \A t \in Threads \ {c} : pc'[t] = pc[t] /\ new_id'[t] = new_id[t]
  BY <1>1 DEF Types, TypeOK
<1>4. \A i \in LiveMemtables : i < next_sst_id
  BY DEF IInv, IdsApart, LiveMemtables
<1> QED BY <1>2, <1>3, <1>4 DEF Ordered

(* The MemTable of a freeze goes to the front. *)
LEMMA FreezeSwapOrdered ==
  ASSUME Types, Types', IInv, Ordered, NEW c \in Threads, FreezeSwap(c)
  PROVE  Ordered'
<1> DEFINE id == new_id[c]
<1>1. /\ state' = [state EXCEPT !.memtable = id, !.imm_memtables = <<state.memtable>> \o @]
      /\ pc[c] = "freeze_swap" /\ pc' = [pc EXCEPT ![c] = "freeze_record"] /\ UNCHANGED new_id
  BY DEF FreezeSwap
<1>2. state'.memtable = id /\ state'.imm_memtables = Line /\ id \in Ids
  BY <1>1 DEF Types, TypeOK, LsmStorageState, Line
<1>3. Line' = <<id>> \o Line
  BY <1>2 DEF Line
<1>4. Descends(<<id>> \o Line, LiveMemtables \cup {id})
  BY <1>1, <1>2, DescendsCons DEF Ordered
<1>5. LiveMemtables' = LiveMemtables \cup {id}
  <2>1. LiveMemtables = {Line[i] : i \in DOMAIN Line}
    BY LineLists DEF Types
  <2> QED BY <1>2, <2>1 DEF LiveMemtables
<1>6. \A t \in Threads : pc'[t] # "freeze_swap"
  <2>1. \A t \in Threads \ {c} : pc[t] \notin LockedSteps
    BY <1>1, LockAlone DEF LockedSteps
  <2> QED BY <1>1, <2>1 DEF Types, TypeOK, LockedSteps
<1> QED BY <1>3, <1>4, <1>5, <1>6 DEF Ordered

(* A flush takes the last one. *)
LEMMA FlushSwapOrdered ==
  ASSUME Types, Types', IInv, Ordered, NEW t \in Threads, FlushSwap(t)
  PROVE  Ordered'
<1> DEFINE imm == state.imm_memtables  n == Len(imm) - 1  new == SubSeq(imm, 1, n)
<1>1. /\ state'.memtable = state.memtable /\ state'.imm_memtables = new
      /\ pc[t] = "flush_swap" /\ pc' = [pc EXCEPT ![t] = "flush_record"] /\ UNCHANGED new_id
  <2>1. state' = [AddFlushed(state, new_id[t]) EXCEPT !.imm_memtables = SubSeq(@, 1, Len(@) - 1),
                                                      !.sstables = @ \cup {new_id[t]}]
    BY DEF FlushSwap
  <2>2. Fields(state)
    BY StateFields DEF Types
  <2>3. state'.memtable = state.memtable /\ state'.imm_memtables = new
    BY <2>1, <2>2 DEF AddFlushed, Fields
  <2> QED BY <2>3 DEF FlushSwap
<1>2. imm # <<>> /\ imm \in Seq(Ids) /\ state.memtable \in Ids
  BY <1>1 DEF IInv, FlushHolds, Types, TypeOK, LsmStorageState
<1>3. /\ n \in Nat /\ DOMAIN Line = 1 .. n + 2 /\ DOMAIN Line' = 1 .. n + 1
      /\ \A i \in 1 .. n + 1 : Line'[i] = Line[i]
  <2>1. Len(imm) \in Nat /\ Len(imm) # 0 /\ n + 1 = Len(imm) /\ n \in Nat
    BY <1>2
  <2>2. new \in Seq(Ids) /\ Len(new) = n /\ \A i \in 1 .. n : new[i] = imm[i]
    BY <1>2, <2>1
  <2> HIDE DEF new, n
  <2>3. DOMAIN Line = 1 .. n + 2 /\ Line[1] = state.memtable
        /\ \A i \in 1 .. n + 1 : i # 1 => Line[i] = imm[i - 1]
    BY <1>2, <2>1 DEF Line
  <2>4. DOMAIN Line' = 1 .. n + 1 /\ Line'[1] = state.memtable
        /\ \A i \in 1 .. n + 1 : i # 1 => Line'[i] = new[i - 1]
    <3>1. Line' = <<state.memtable>> \o new
      BY ONLY <1>1 DEF Line
    <3> QED BY ONLY <1>2, <2>1, <2>2, <3>1
  <2>5. \A i \in 1 .. n + 1 : i # 1 => i - 1 \in 1 .. n
    BY <2>1
  <2> QED BY <2>1, <2>2, <2>3, <2>4, <2>5
<1> HIDE DEF n
<1>4. /\ \A i, j \in 1 .. n + 2 : i < j => Line[i] > Line[j]
      /\ \A i \in LiveMemtables : \A u \in Threads : pc[u] = "freeze_swap" => i < new_id[u]
      /\ LiveMemtables = {Line[i] : i \in 1 .. n + 2}
  BY <1>3 DEF Ordered, Descends
<1>5. \A i \in 1 .. n + 1 : i \in 1 .. n + 2
  BY <1>3
<1>6. Line' \in Seq(Ids) /\ LiveMemtables' = {Line'[i] : i \in 1 .. n + 1}
  <2>1. (Line \in Seq(Ids) /\ LiveMemtables = {Line[i] : i \in DOMAIN Line})'
    BY LineLists, PTL DEF Types
  <2> QED BY <1>3, <2>1
<1>7. \A i, j \in 1 .. n + 1 : i < j => Line'[i] > Line'[j]
  BY <1>3, <1>4, <1>5
<1>8. LiveMemtables' \subseteq LiveMemtables
  BY <1>3, <1>4, <1>5, <1>6
<1>9. Descends(Line', LiveMemtables')
  BY <1>3, <1>6, <1>7 DEF Descends
<1>10. \A u \in Threads : pc'[u] = "freeze_swap" => pc[u] = "freeze_swap" /\ new_id'[u] = new_id[u]
  BY <1>1 DEF Types, TypeOK
<1> QED BY <1>4, <1>8, <1>9, <1>10 DEF Ordered

(* A step of the write path keeps the order. *)
LEMMA NextOrdered ==
  ASSUME Types, Types', IInv, Ordered, Next
  PROVE  Ordered'
<1> USE DEF stateVars
<1>0. pc \in [Threads -> Steps] /\ new_id \in [Threads -> Ids]
  BY DEF Types, TypeOK
<1>1. ASSUME NEW t \in Threads, FlushStep(t) PROVE Ordered'
  <2>1. CASE FlushBegin(t)
    BY <1>0, <2>1, OrderedKept DEF FlushBegin
  <2>2. CASE FlushEmpty(t)
    BY <2>2, OrderedKept DEF FlushEmpty, threadVars
  <2>3. CASE FlushSwap(t)
    BY <2>3, FlushSwapOrdered
  <2>4. CASE FlushRecord(t)
    BY <1>0, <2>4, OrderedKept DEF FlushRecord
  <2> QED BY <1>1, <2>1, <2>2, <2>3, <2>4 DEF FlushStep
<1>2. ASSUME NEW c \in Clients, ClientStep(c) PROVE Ordered'
  <2>0. c \in Threads
    BY DEF Threads
  <2>1. CASE Put(c)
    BY <1>0, <2>0, <2>1, OrderedKept DEF Put, PutLog
  <2>2. CASE PutInsert(c)
    BY <1>0, <2>0, <2>2, OrderedKept DEF PutInsert
  <2>3. CASE PutCheck(c)
    BY <1>0, <2>0, <2>3, OrderedKept DEF PutCheck
  <2>4. CASE ForceFreeze(c)
    BY <1>0, <2>0, <2>4, OrderedKept DEF ForceFreeze
  <2>5. CASE FreezeBegin(c)
    BY <2>0, <2>5, FreezeBeginOrdered
  <2>6. CASE FreezeSwap(c)
    BY <2>0, <2>6, FreezeSwapOrdered
  <2>7. CASE FreezeRecord(c)
    BY <1>0, <2>0, <2>7, OrderedKept DEF FreezeRecord
  <2>8. CASE ForceFlush(c)
    BY <1>0, <2>0, <2>8, OrderedKept DEF ForceFlush
  <2>9. CASE Sync(c)
    BY <2>9, OrderedKept DEF Sync, threadVars
  <2> QED BY <1>1, <1>2, <2>0, <2>1, <2>2, <2>3, <2>4, <2>5, <2>6, <2>7, <2>8, <2>9
         DEF ClientStep, FreezeStep
<1>3. CASE TriggerFlush
  BY <1>0, <1>3, OrderedKept DEF TriggerFlush, Threads
<1>4. FlushThread \in Threads
  BY DEF Threads
<1> QED BY <1>1, <1>2, <1>3, <1>4 DEF Next, FlushThreadStep

(* The result of a compaction leaves the MemTables alone. *)
LEMMA ApplyKeepsMemtables ==
  ASSUME Types, LsmIInv, NEW t \in Threads, CompactApply(t)
  PROVE  state'.memtable = state.memtable /\ state'.imm_memtables = state.imm_memtables
<1> DEFINE task == job[t].task  output == job[t].output
           s == state.sstables \cup ToSet(output)
           added == [state EXCEPT !.sstables = s]
           applied == ApplyCompactionResult(added, sst, task, output, FALSE)
<1>1. pc[t] = "apply" /\ \E x : state' = [applied EXCEPT !.sstables = x]
  BY DEF CompactApply
<1>2. task.type \in {"ForceFull", "Simple", "Tiered"}
  <2>1. state \in StateOver(Ids)
    BY StateTypes DEF Types
  <2> QED BY <1>1, <2>1, FitsOpen, StateOpen DEF LsmIInv, ThreadHolds, JobHolds
<1> HIDE DEF task, output, s
<1>3. /\ Fields(added)
      /\ added.memtable = state.memtable /\ added.imm_memtables = state.imm_memtables
  BY StateFields DEF Types, Fields
<1> HIDE DEF added
<1>4. /\ Fields(applied)
      /\ applied.memtable = added.memtable /\ applied.imm_memtables = added.imm_memtables
  BY <1>2, <1>3 DEF ApplyCompactionResult, ForceFullApply, SimpleApply, TieredApply, Fields
<1> HIDE DEF applied
<1> QED BY <1>1, <1>3, <1>4 DEF Fields

(* A step that is not about MemTables. *)
OffMemtables ==
  /\ UNCHANGED <<mem, wal, wal_open, op, new_id>>
  /\ state'.memtable = state.memtable /\ state'.imm_memtables = state.imm_memtables
  /\ \A u \in Threads : \/ pc'[u] = pc[u]
                        \/ /\ pc'[u] \notin {"logged", "freeze_swap"}
                           /\ pc[u] \notin {"logged", "freeze_swap"}

(* It keeps what is known of them. *)
LEMMA OffMemtablesKeeps ==
  ASSUME IInv, Ordered, WalIInv, life # "down", OffMemtables
  PROVE  Ordered' /\ WalIInv'
<1>1. Ordered'
  BY OrderedKept DEF OffMemtables
<1>2. LiveMemtables' = LiveMemtables
  BY DEF LiveMemtables, OffMemtables
<1>3. \A c \in Clients : c \in Threads
  BY DEF Threads
<1>4. \A c \in Clients : pc'[c] = "logged" <=> pc[c] = "logged"
  BY <1>3 DEF OffMemtables
<1>5. EnableWal => \A t \in Threads : pc'[t] = "freeze_swap" =>
                      new_id'[t] \in wal_open' /\ wal'[new_id'[t]] = <<>>
  BY DEF OffMemtables, WalIInv, LogsOpen
<1>6. /\ \A id \in LiveMemtables : mem'[id] = mem[id] /\ wal'[id] = wal[id]
      /\ wal_open \subseteq wal_open' /\ state'.memtable = state.memtable
      /\ \A c \in Clients : pc[c] = "logged" => op'[c] = op[c]
  BY DEF OffMemtables
<1>7. WalIInv'
  BY <1>2, <1>4, <1>5, <1>6, WalKept DEF IInv
<1> QED BY <1>1, <1>7

(* The steps of compactions and of close() are such. *)
LEMMA CompactionOff ==
  ASSUME Types, LsmIInv, NEW t \in Threads,
         \/ BeginCompaction(t) \/ CompactStep(t) \/ CompactFails(t) \/ FlushFails(t)
         \/ CloseFreeze(t) \/ CloseFlush(t)
  PROVE  OffMemtables
<1> USE DEF OffMemtables, stateVars, diskVars, threadVars
<1>0. pc \in [Threads -> Steps]
  BY DEF Types, TypeOK
<1>1. CASE BeginCompaction(t)
  BY <1>0, <1>1 DEF BeginCompaction
<1>2. CASE Compact(t)
  BY <1>0, <1>2 DEF Compact
<1>3. CASE CompactApply(t)
  BY <1>0, <1>3, ApplyKeepsMemtables DEF CompactApply
<1>4. CASE CompactRecord(t)
  BY <1>0, <1>4 DEF CompactRecord
<1>5. CASE CompactRemove(t)
  BY <1>0, <1>5 DEF CompactRemove
<1>6. CASE CompactFails(t)
  BY <1>0, <1>6 DEF CompactFails
<1>7. CASE FlushFails(t)
  BY <1>0, <1>7 DEF FlushFails
<1>8. CASE CloseFreeze(t)
  BY <1>0, <1>8 DEF CloseFreeze, Joined
<1>9. CASE CloseFlush(t)
  BY <1>0, <1>9 DEF CloseFlush, Joined
<1> QED BY <1>1, <1>2, <1>3, <1>4, <1>5, <1>6, <1>7, <1>8, <1>9 DEF CompactStep

(* close() finishes, and the object goes away, with nothing left to do. *)
LEMMA CloseDoneOff == ASSUME CloseBegin \/ CloseDone \/ Destroy PROVE OffMemtables
BY DEF CloseBegin, CloseDone, Destroy, OffMemtables, diskVars, threadVars

(* Nothing happens in a database that is closed but its end and open(). *)
LEMMA ClosedRests ==
  ASSUME life \in Ended, Closed, LsmNext, opens = 1
  PROVE  Destroy \/ \E cut \in Cuts : Open(cut)
<1> USE DEF Ended
<1>0. Clients \subseteq Threads /\ FlushThread \in Threads /\ \A t \in Threads : pc[t] = "idle"
  BY DEF Closed, Threads
<1>1. ~Next
  <2>1. \A c : ~Put(c) /\ ~ForceFreeze(c) /\ ~ForceFlush(c) /\ ~Sync(c)
    BY DEF Put, PutLog, ForceFreeze, ForceFlush, Sync
  <2>2. \A c \in Threads : ~PutInsert(c) /\ ~PutCheck(c) /\ ~FreezeStep(c)
    BY <1>0 DEF PutInsert, PutCheck, FreezeStep, FreezeBegin, FreezeSwap, FreezeRecord
  <2>3. \A c \in Threads : ~FlushStep(c)
    BY <1>0 DEF FlushStep, FlushBegin, FlushEmpty, FlushSwap, FlushRecord
  <2>4. ~TriggerFlush
    BY DEF TriggerFlush
  <2> QED BY <1>0, <2>1, <2>2, <2>3, <2>4 DEF Next, ClientStep, FlushThreadStep
<1>2. \A t : ~BeginCompaction(t)
  BY DEF BeginCompaction
<1>3. \A t \in Threads : ~CompactStep(t) /\ ~CompactFails(t) /\ ~FlushFails(t)
  BY <1>0 DEF CompactStep, Compact, CompactApply, CompactRecord, CompactRemove, CompactFails,
         FlushFails
<1>4. ~CloseBegin /\ ~CloseDone /\ ~Crash /\ \A c : ~CloseFreeze(c) /\ ~CloseFlush(c)
  BY DEF CloseBegin, CloseDone, CloseFreeze, CloseFlush, Joined, Crash
<1> QED BY <1>1, <1>2, <1>3, <1>4, FirstDestroys DEF LsmNext

(* Only close() closes, when it has nothing left to flush. *)
LEMMA ClosesClosed ==
  ASSUME life \notin Ended, life' \in Ended, LsmNext, opens = 1
  PROVE  Closed' /\ life' = "closed"
<1> USE DEF Ended, stateVars
<1>1. ~Next
  <2>1. \A c : ~Put(c) /\ ~PutInsert(c) /\ ~PutCheck(c) /\ ~ForceFreeze(c) /\ ~FreezeStep(c)
    BY DEF Put, PutLog, PutInsert, PutCheck, ForceFreeze, FreezeStep, FreezeBegin, FreezeSwap,
           FreezeRecord
  <2>2. \A c : ~ForceFlush(c) /\ ~FlushStep(c) /\ ~Sync(c)
    BY DEF ForceFlush, FlushStep, FlushBegin, FlushEmpty, FlushSwap, FlushRecord, Sync
  <2>3. ~TriggerFlush
    BY DEF TriggerFlush
  <2> QED BY <2>1, <2>2, <2>3 DEF Next, ClientStep, FlushThreadStep
<1>2. \A t : ~BeginCompaction(t) /\ ~CompactStep(t) /\ ~CompactFails(t) /\ ~FlushFails(t)
  BY DEF BeginCompaction, CompactStep, Compact, CompactApply, CompactRecord, CompactRemove,
         CompactFails, FlushFails
<1>3. ~CloseBegin /\ ~Destroy /\ ~Crash /\ \A c : ~CloseFreeze(c) /\ ~CloseFlush(c)
  BY DEF CloseBegin, Destroy, CloseFreeze, CloseFlush, Crash
<1>4. ~\E cut \in Cuts : Open(cut)
  BY DEF Open
<1>5. CloseDone
  BY <1>1, <1>2, <1>3, <1>4, FirstDestroys DEF LsmNext
<1> QED BY <1>5 DEF CloseDone, Joined, Closed, threadVars

(* The database starts with one MemTable. *)
LEMMA InitLined == LsmInit => Lined
<1> SUFFICES ASSUME LsmInit PROVE Ordered /\ WalIInv /\ life = "up"
  BY DEF Lined, Ended
<1>1. WalIInv /\ life = "up"
  BY InitWal DEF LsmInit, Init
<1>2. state = CreateState /\ pc = [t \in Threads |-> "idle"]
  BY DEF LsmInit, Init
<1>3. Line = <<0>> /\ LiveMemtables = {0} /\ 0 \in Ids
  BY <1>2, BoundsAssumption DEF Line, LiveMemtables, CreateState, Ids
<1>4. Descends(<<0>>, {0})
  BY <1>3 DEF Descends
<1> QED BY <1>1, <1>2, <1>3, <1>4 DEF Ordered

(* Every step keeps the order, the WALs and what close() left. *)
LEMMA NextLined ==
  ASSUME FirstLife, FirstLife', Lined, [LsmNext]_vars
  PROVE  Lined'
<1>1. SUFFICES ASSUME opens' = 1, life' # "down"
               PROVE  /\ Ordered' /\ WalIInv'
                      /\ life' \in Ended => Closed'
                      /\ life' = "destroyed" => WrittenOut'
  BY DEF Lined
<1>2. opens = 1 /\ (~\E cut \in Cuts : Open(cut)) /\ Types /\ Types'
  BY <1>1, SameLife DEF FirstLife
<1>3. CASE UNCHANGED vars
  <2>1. UNCHANGED <<life, state, mem, wal, wal_open, synced, op, new_id, pc>>
    BY <1>3 DEF vars, wpVars, stateVars, diskVars, threadVars
  <2>2. OffMemtables
    BY <2>1 DEF OffMemtables
  <2>3. /\ IInv /\ Ordered /\ WalIInv /\ life # "down"
        /\ life \in Ended => Closed
        /\ life = "destroyed" => WrittenOut
    BY <1>1, <1>2, <2>1 DEF Lined, FirstLife, LsmIInv
  <2>4. (Closed => Closed') /\ (WrittenOut => WrittenOut')
    BY <2>1 DEF Closed, WrittenOut
  <2> QED BY <2>1, <2>2, <2>3, <2>4, OffMemtablesKeeps
<1>4. CASE LsmNext
  <2>1. life # "down"
    BY <1>2, <1>4, DownOpens
  <2>2. /\ LsmIInv /\ IInv /\ TypeOK /\ Ordered /\ WalIInv
        /\ life \in Ended => Closed
    BY <1>2, <2>1 DEF FirstLife, LsmIInv, Lined, Types
  <2>3. ASSUME life \in Ended PROVE Destroy /\ Closed' /\ WrittenOut'
    <3>1. Destroy
      BY <1>2, <1>4, <2>2, <2>3, ClosedRests
    <3>2. Closed'
      BY <2>2, <2>3, <3>1 DEF Destroy, Closed, threadVars
    <3>3. WrittenOut'
      BY <3>1 DEF Destroy, WrittenOut
    <3> QED BY <3>1, <3>2, <3>3
  <2>4. (life' \in Ended => Closed') /\ (life' = "destroyed" => WrittenOut')
    <3>1. CASE life \in Ended
      BY <2>3, <3>1
    <3>2. CASE life \notin Ended
      BY <1>2, <1>4, <3>2, ClosesClosed DEF Ended
    <3> QED BY <3>1, <3>2
  <2>5. ASSUME Next, UNCHANGED lsVars PROVE Ordered' /\ WalIInv'
    BY <1>2, <2>2, <2>5, NextOrdered, NextWal
  <2>6. ASSUME NEW t \in Clients \cup {CompactionThread}, BeginCompaction(t) PROVE OffMemtables
    BY <1>2, <2>2, <2>6, CompactionOff DEF Threads
  <2>7. ASSUME NEW t \in Threads, CompactStep(t) \/ CompactFails(t) \/ FlushFails(t)
        PROVE  OffMemtables
    BY <1>2, <2>2, <2>7, CompactionOff
  <2>8. ASSUME NEW c \in Clients, CloseFreeze(c) \/ CloseFlush(c) PROVE OffMemtables
    BY <1>2, <2>2, <2>8, CompactionOff DEF Threads
  <2>9. ASSUME CloseBegin \/ CloseDone \/ Destroy PROVE OffMemtables
    BY <2>9, CloseDoneOff
  <2>10. ~Crash
    BY <1>1 DEF Crash
  <2>11. OffMemtables \/ (Ordered' /\ WalIInv')
    BY <1>2, <1>4, <2>5, <2>6, <2>7, <2>8, <2>9, <2>10, FirstDestroys DEF LsmNext
  <2> QED BY <2>1, <2>2, <2>4, <2>11, OffMemtablesKeeps
<1> QED BY <1>3, <1>4

(* What is known of the first life. *)
LEMMA LinedInvariant ==
  ASSUME StrategyAssumed
  PROVE  LsmSpec /\ []OneCompaction => [](FirstLife /\ Recoverable /\ Lined)
<1>1. LsmInit => Lined
  BY InitLined
<1>2. FirstLife /\ FirstLife' /\ Lined /\ [LsmNext]_vars => Lined'
  BY NextLined
<1> QED BY <1>1, <1>2, RecoverableInvariant, PTL DEF LsmSpec

(* A WAL that is written out gives its MemTable back. *)
LEMMA ClosedRebuilt ==
  ASSUME EnableWal => WrittenOut /\ \A k \in Keys : OneWriter(k),
         Types, IInv, WalIInv, Closed, life # "down", NEW k \in Keys, NEW i \in LiveMemtables
  PROVE  Rebuilt(synced)[i][k] = mem[i][k]
<1>1. i \in Ids
  BY LiveIds DEF Types
<1>2. CASE EnableWal
  <2>1. Replayed(wal[i], k) = mem[i][k]
    <3>1. \A c \in Clients : pc[c] # "logged"
      BY DEF Closed, Threads
    <3> QED BY <1>2, <3>1 DEF WalIInv, WalMatchesMemtable, Replays
  <2>2. SubSeq(wal[i], 1, synced[i]) = wal[i]
    <3>1. wal[i] \in Seq(Frame)
      BY <1>1 DEF Types, TypeOK
    <3>2. synced[i] = Len(wal[i])
      BY <1>1, <1>2 DEF WrittenOut
    <3> QED BY <3>1, <3>2
  <2> QED BY <1>1, <1>2, <2>1, <2>2 DEF Rebuilt, RecoverFromWal
<1>3. CASE ~EnableWal
  <2>1. LiveMemtables = {state.memtable} /\ mem[state.memtable] = EmptyTable
    BY <1>3 DEF Closed, LiveMemtables
  <2> QED BY <1>1, <1>3, <2>1 DEF Rebuilt
<1> QED BY <1>2, <1>3

(* The directory holds exactly what get() answered: without a WAL once     *)
(* close() has returned; with one when the object was destroyed, too, and  *)
(* for keys of one writer each.                                            *)
THEOREM CloseKeepsAllCorrect ==
  ASSUME StrategyAssumed, EnableWal => \A k \in Keys : OneWriter(k)
  PROVE  LsmSpec /\ []OneCompaction => []CloseKeepsAll
<1>1. ASSUME FirstLife, Recoverable, Lined, opens = 1, life \in Ended,
             EnableWal => life = "destroyed", NEW k \in Keys
      PROVE  Seen(RecoveredEntry(synced, k)) = Seen(latest[k])
  <2>1. /\ Types /\ TypeOK /\ IInv /\ ManifestHolds /\ Ordered /\ WalIInv /\ Closed
        /\ EnableWal => WrittenOut
    <3>1. life # "down"
      BY <1>1 DEF Ended
    <3> QED BY <1>1, <3>1 DEF FirstLife, Recoverable, Lined, LsmIInv, Types
  <2>2. \A t \in Threads : pc[t] \notin RecordSteps
    BY <2>1 DEF Closed, RecordSteps
  <2>3. Caught(OnDisk, state, LiveMemtables) /\ Readable(manifest.file) /\ Shape(OnDisk)
    BY <2>1, <2>2 DEF ManifestHolds
  <2> DEFINE below == InLists(state.l0_sstables, state.levels, sst, k)
             a == RecoveredEntry(synced, k)
             b == Entry(state, mem, k)
  <2>4. TopIs(LiveMemtables, Rebuilt(synced), k, below, a)
    BY <2>3, RecoveredTop DEF Caught
  <2>5. TopIs(LiveMemtables, mem, k, below, b)
    BY <2>1, EntryTop DEF Ordered
  <2>6. \A i \in LiveMemtables : Rebuilt(synced)[i][k] = mem[i][k]
    BY <1>1, <2>1, ClosedRebuilt DEF Ended
  <2>7. LiveMemtables \subseteq Ids
    BY <2>1, LiveIds
  <2> HIDE DEF below, a, b
  <2>8. a = b
    BY <2>4, <2>5, <2>6, <2>7, TopUnique
  <2> QED BY <2>1, <2>8 DEF IInv, EntryIsLatest, a, b
<1>2. FirstLife /\ Recoverable /\ Lined => CloseKeepsAll
  BY <1>1 DEF CloseKeepsAll, Ended
<1> QED BY <1>2, LinedInvariant, PTL

-----------------------------------------------------------------------------
(* What survives a crash *)

(* e was written for key k to MemTable i: it is in the MemTable or its WAL, *)
(* or a put() has logged it and is about to insert it.                     *)
Entered(i, k, e) ==
  \/ e # Absent /\ mem[i][k] = e
  \/ \E p \in DOMAIN wal[i] : wal[i][p].key = k /\ wal[i][p].ent = e
  \/ \E c \in Clients :
       pc[c] = "logged" /\ op[c].into = i /\ op[c].key = k /\ op[c].ent = e

(* Frames of a key are older than those after them. *)
FramesRise(fs, k) ==
  \A p, q \in DOMAIN fs : p < q /\ fs[p].key = k /\ fs[q].key = k => Stamp(fs[p].ent) < Stamp(fs[q].ent)

(* What is written to a MemTable is newer than what was written to those   *)
(* before it, and nothing is durable that was not written.                 *)
Stamped(k) ==
  /\ \A i \in Ids : \A e : Entered(i, k, e) =>
       e \in Int /\ 0 < Stamp(e) /\ Stamp(e) <= writes /\ i <= state.memtable
  /\ \A i, j \in Ids : \A e, f :
       i < j /\ Entered(i, k, e) /\ Entered(j, k, f) => Stamp(e) < Stamp(f)
  /\ \A i \in Ids : FramesRise(wal[i], k) /\ synced[i] <= Len(wal[i])
  /\ Stamp(durable[k]) <= writes

(* The stamp of an entry is a number. *)
LEMMA StampNat == ASSUME NEW e \in Int PROVE Stamp(e) \in Nat /\ (Stamp(e) = 0 <=> e = Absent)
BY DEF Stamp, Absent

(* Nothing is written yet. *)
LEMMA InitStamped == ASSUME LsmInit, NEW k \in Keys PROVE Stamped(k)
<1>1. /\ mem = [i \in Ids |-> EmptyTable] /\ wal = [i \in Ids |-> <<>>]
      /\ synced = [i \in Ids |-> 0] /\ writes = 0 /\ durable = [l \in Keys |-> Absent]
      /\ \A c \in Clients : pc[c] # "logged"
  BY DEF LsmInit, Init, Threads
<1>2. \A i \in Ids : mem[i][k] = Absent /\ wal[i] = <<>> /\ synced[i] = 0
  BY <1>1 DEF EmptyTable
<1>3. DOMAIN <<>> = {} /\ Len(<<>>) = 0
  OBVIOUS
<1>4. \A i \in Ids : \A e : ~Entered(i, k, e)
  BY <1>1, <1>2, <1>3 DEF Entered
<1>5. \A i \in Ids : FramesRise(wal[i], k) /\ synced[i] <= Len(wal[i])
  BY <1>2, <1>3 DEF FramesRise
<1>6. Stamp(durable[k]) <= writes
  BY <1>1 DEF Stamp, Absent
<1> QED BY <1>4, <1>5, <1>6 DEF Stamped

(* A step that writes nothing. *)
Unwritten(k) ==
  /\ UNCHANGED writes
  /\ \A i \in Ids : \A e : Entered(i, k, e)' => Entered(i, k, e)
  /\ \A i \in Ids : /\ wal'[i] = wal[i] \/ wal'[i] = <<>>
                    /\ synced'[i] <= Len(wal'[i])

(* It keeps the order of what was. *)
LEMMA StampedKept ==
  ASSUME TypeOK, TypeOK', NEW k \in Keys, Stamped(k), Unwritten(k),
         state.memtable <= state'.memtable, Stamp(durable'[k]) <= writes
  PROVE  Stamped(k)'
<1>0. state.memtable \in Nat /\ state'.memtable \in Nat /\ Ids \subseteq Nat
  BY BoundsAssumption DEF TypeOK, LsmStorageState, Ids
<1>1. ASSUME NEW i \in Ids, NEW e, Entered(i, k, e)'
      PROVE  e \in Int /\ 0 < Stamp(e) /\ Stamp(e) <= writes' /\ i <= state'.memtable
  <2>1. Entered(i, k, e)
    BY <1>1 DEF Unwritten
  <2>2. e \in Int /\ 0 < Stamp(e) /\ Stamp(e) <= writes /\ i <= state.memtable /\ i \in Nat
    BY <1>0, <2>1 DEF Stamped
  <2>3. i <= state'.memtable
    BY ONLY <1>0, <2>2, state.memtable <= state'.memtable
  <2> QED BY <2>2, <2>3 DEF Unwritten
<1>2. ASSUME NEW i \in Ids, NEW j \in Ids, NEW e, NEW f, i < j,
             Entered(i, k, e)', Entered(j, k, f)'
      PROVE  Stamp(e) < Stamp(f)
  <2>1. Entered(i, k, e) /\ Entered(j, k, f)
    BY <1>2 DEF Unwritten
  <2> QED BY <1>2, <2>1 DEF Stamped
<1>3. ASSUME NEW i \in Ids PROVE FramesRise(wal'[i], k)
  <2>1. DOMAIN <<>> = {}
    OBVIOUS
  <2>2. FramesRise(<<>>, k)
    BY <2>1 DEF FramesRise
  <2> QED BY <2>2 DEF Stamped, Unwritten
<1> QED BY <1>1, <1>2, <1>3 DEF Stamped, Unwritten

(* A step that leaves the MemTables, the WALs and the writes under way     *)
(* alone writes nothing.                                                   *)
LEMMA PlainUnwritten ==
  ASSUME NEW k, UNCHANGED <<mem, wal>>,
         \A c \in Clients : pc'[c] = "logged" => pc[c] = "logged" /\ op'[c] = op[c]
  PROVE  \A i \in Ids : \A e : Entered(i, k, e)' => Entered(i, k, e)
BY DEF Entered

(* put() inserts what it has logged. *)
LEMMA InsertUnwritten ==
  ASSUME Types, IInv, NEW k \in Keys, NEW c \in Clients, PutInsert(c)
  PROVE  \A i \in Ids : \A e : Entered(i, k, e)' => Entered(i, k, e)
<1> SUFFICES ASSUME NEW i \in Ids, NEW e, Entered(i, k, e)' PROVE Entered(i, k, e)
  OBVIOUS
<1>1. /\ pc[c] = "logged" /\ mem' = [mem EXCEPT ![op[c].into][op[c].key] = op[c].ent]
      /\ pc' = [pc EXCEPT ![c] = "inserted"] /\ UNCHANGED <<wal, op>>
  BY DEF PutInsert, diskVars
<1>2. c \in Threads /\ pc \in [Threads -> Steps] /\ mem \in [Ids -> Table] /\ op \in [Clients -> Write]
  BY DEF Types, TypeOK, Threads
<1>3. op[c].into \in Ids /\ op[c].key \in Keys
  BY <1>1, <1>2 DEF IInv, PutHolds, Write
<1>4. \A d \in Clients : pc'[d] = "logged" => pc[d] = "logged"
  BY <1>1, <1>2 DEF Threads
<1>5. CASE e # Absent /\ mem'[i][k] = e
  <2>1. CASE i = op[c].into /\ k = op[c].key
    <3>1. mem'[i][k] = op[c].ent
      BY <1>1, <1>2, <1>3, <2>1 DEF Table
    <3> QED BY <1>1, <1>5, <2>1, <3>1 DEF Entered
  <2>2. CASE ~(i = op[c].into /\ k = op[c].key)
    <3>1. mem'[i][k] = mem[i][k]
      BY <1>1, <1>2, <1>3, <2>2 DEF Table
    <3> QED BY <1>5, <3>1 DEF Entered
  <2> QED BY <2>1, <2>2
<1>6. CASE \E p \in DOMAIN wal'[i] : wal'[i][p].key = k /\ wal'[i][p].ent = e
  BY <1>1, <1>6 DEF Entered
<1>7. CASE \E d \in Clients :
             pc'[d] = "logged" /\ op'[d].into = i /\ op'[d].key = k /\ op'[d].ent = e
  BY <1>1, <1>4, <1>7 DEF Entered
<1> QED BY <1>5, <1>6, <1>7 DEF Entered

(* A freeze makes an empty MemTable and an empty WAL. *)
LEMMA FreezeBeginUnwritten ==
  ASSUME Types, NEW k \in Keys, NEW c \in Clients, FreezeBegin(c)
  PROVE  /\ \A i \in Ids : \A e : Entered(i, k, e)' => Entered(i, k, e)
         /\ \A i \in Ids : i # next_sst_id =>
              mem'[i] = mem[i] /\ wal'[i] = wal[i] /\ synced'[i] = synced[i]
         /\ \A i \in Ids : \/ wal'[i] = wal[i] /\ synced'[i] = synced[i]
                           \/ wal'[i] = <<>> /\ synced'[i] = 0
<1> DEFINE n == next_sst_id
<1>1. /\ mem' = [mem EXCEPT ![n] = EmptyTable] /\ pc' = [pc EXCEPT ![c] = "freeze_swap"]
      /\ UNCHANGED op
      /\ \/ wal' = [wal EXCEPT ![n] = <<>>] /\ synced' = [synced EXCEPT ![n] = 0]
         \/ UNCHANGED <<wal, synced>>
  BY DEF FreezeBegin
<1>2. /\ c \in Threads /\ pc \in [Threads -> Steps] /\ mem \in [Ids -> Table]
      /\ wal \in [Ids -> Seq(Frame)] /\ synced \in [Ids -> Nat]
  BY DEF Types, TypeOK, Threads
<1> HIDE DEF n
<1>3. \A i \in Ids : /\ mem'[i] = mem[i] \/ (i = n /\ mem'[i] = EmptyTable)
                     /\ \/ wal'[i] = wal[i] /\ synced'[i] = synced[i]
                        \/ i = n /\ wal'[i] = <<>> /\ synced'[i] = 0
  BY <1>1, <1>2
<1>4. \A d \in Clients : pc'[d] = "logged" => pc[d] = "logged"
  BY <1>1, <1>2 DEF Threads
<1>5. ASSUME NEW i \in Ids, NEW e, Entered(i, k, e)' PROVE Entered(i, k, e)
  <2>1. EmptyTable[k] = Absent /\ DOMAIN <<>> = {}
    BY DEF EmptyTable
  <2>2. CASE e # Absent /\ mem'[i][k] = e
    BY <1>3, <2>1, <2>2 DEF Entered
  <2>3. CASE \E p \in DOMAIN wal'[i] : wal'[i][p].key = k /\ wal'[i][p].ent = e
    BY <1>3, <2>1, <2>3 DEF Entered
  <2>4. CASE \E d \in Clients :
               pc'[d] = "logged" /\ op'[d].into = i /\ op'[d].key = k /\ op'[d].ent = e
    BY <1>1, <1>4, <2>4 DEF Entered
  <2> QED BY <1>5, <2>2, <2>3, <2>4 DEF Entered
<1>6. \A i \in Ids : i # n => mem'[i] = mem[i] /\ wal'[i] = wal[i] /\ synced'[i] = synced[i]
  BY <1>1, <1>2
<1> QED BY <1>3, <1>5, <1>6 DEF n

(* put() logs an entry newer than all. *)
LEMMA PutWrites ==
  ASSUME Types, NEW k \in Keys, NEW c \in Clients, NEW l \in KeysOf[c], NEW sgn \in {1, -1},
         PutLog(c, l, sgn)
  PROVE  LET new == sgn * (writes + 1) IN
         /\ writes' = writes + 1 /\ Stamp(new) = writes + 1 /\ new \in Int
         /\ \A i \in Ids : \A e :
              Entered(i, k, e)' => \/ Entered(i, k, e)
                                   \/ i = state.memtable /\ e = new
         /\ \A i \in Ids : \/ wal'[i] = wal[i]
                           \/ /\ i = state.memtable
                              /\ wal'[i] = Append(wal[i], [key |-> l, ent |-> new])
<1> DEFINE new == sgn * (writes + 1)
           m == state.memtable
           f == [key |-> l, ent |-> new]
<1>1. /\ writes' = writes + 1 /\ UNCHANGED mem /\ pc' = [pc EXCEPT ![c] = "logged"]
      /\ op' = [op EXCEPT ![c] = [key |-> l, ent |-> new, into |-> m]]
      /\ wal' = [wal EXCEPT ![m] = Append(@, f)] \/ wal' = wal
  BY DEF PutLog, stateVars
<1>2. /\ c \in Threads /\ pc \in [Threads -> Steps] /\ op \in [Clients -> Write]
      /\ wal \in [Ids -> Seq(Frame)] /\ writes \in Nat /\ m \in Ids
  BY DEF Types, TypeOK, Threads, LsmStorageState
<1>3. Stamp(new) = writes + 1 /\ new \in Int
  <2>1. CASE sgn = 1
    BY <1>2, <2>1 DEF Stamp
  <2>2. CASE sgn = -1
    BY <1>2, <2>2 DEF Stamp
  <2> QED BY <2>1, <2>2
<1> HIDE DEF new, m, f
<1>4. \A i \in Ids : wal'[i] = wal[i] \/ (i = m /\ wal'[i] = Append(wal[i], f))
  BY <1>1, <1>2
<1>5. ASSUME NEW i \in Ids, NEW e, Entered(i, k, e)'
      PROVE  Entered(i, k, e) \/ (i = m /\ e = new)
  <2>1. CASE e # Absent /\ mem'[i][k] = e
    BY <1>1, <2>1 DEF Entered
  <2>2. CASE \E p \in DOMAIN wal'[i] : wal'[i][p].key = k /\ wal'[i][p].ent = e
    <3>1. PICK p \in DOMAIN wal'[i] : wal'[i][p].key = k /\ wal'[i][p].ent = e
      BY <2>2
    <3>2. CASE wal'[i] = wal[i]
      BY <3>1, <3>2 DEF Entered
    <3>3. CASE i = m /\ wal'[i] = Append(wal[i], f)
      <4>1. wal[i] \in Seq(Frame)
        BY <1>2
      <4>2. (p \in DOMAIN wal[i] /\ wal'[i][p] = wal[i][p]) \/ wal'[i][p] = f
        BY <3>1, <3>3, <4>1
      <4> QED BY <3>1, <3>3, <4>2 DEF Entered, f
    <3> QED BY <1>4, <3>2, <3>3
  <2>3. CASE \E d \in Clients :
               pc'[d] = "logged" /\ op'[d].into = i /\ op'[d].key = k /\ op'[d].ent = e
    <3>1. PICK d \in Clients :
            pc'[d] = "logged" /\ op'[d].into = i /\ op'[d].key = k /\ op'[d].ent = e
      BY <2>3
    <3>2. CASE d = c
      <4>1. op'[d] = [key |-> l, ent |-> new, into |-> m]
        BY <1>1, <1>2, <3>2
      <4> QED BY <3>1, <4>1
    <3>3. CASE d # c
      <4>1. op'[d] = op[d] /\ pc'[d] = pc[d] /\ d \in Threads
        BY <1>1, <1>2, <3>3 DEF Threads
      <4> QED BY <3>1, <4>1 DEF Entered
    <3> QED BY <3>2, <3>3
  <2> QED BY <1>5, <2>1, <2>2, <2>3 DEF Entered
<1> QED BY <1>1, <1>3, <1>4, <1>5 DEF new, m, f

(* So the order stays. *)
LEMMA PutStamped ==
  ASSUME Types, NEW k \in Keys, Stamped(k), NEW c \in Clients, Put(c)
  PROVE  Stamped(k)'
<1>1. PICK l \in KeysOf[c], sgn \in {1, -1} : PutLog(c, l, sgn)
  BY DEF Put
<1> DEFINE new == sgn * (writes + 1)
           m == state.memtable
<1>2. /\ writes' = writes + 1 /\ Stamp(new) = writes + 1 /\ new \in Int
      /\ \A i \in Ids : \A e : Entered(i, k, e)' => Entered(i, k, e) \/ (i = m /\ e = new)
      /\ \A i \in Ids : \/ wal'[i] = wal[i]
                        \/ i = m /\ wal'[i] = Append(wal[i], [key |-> l, ent |-> new])
  BY <1>1, PutWrites
<1>3. UNCHANGED <<state, synced, durable>>
  BY <1>1 DEF PutLog, stateVars
<1>4. /\ writes \in Nat /\ m \in Ids /\ Ids \subseteq Nat /\ wal \in [Ids -> Seq(Frame)]
      /\ synced \in [Ids -> Nat] /\ durable[k] \in Int
  <2>1. Ids \subseteq Nat
    BY BoundsAssumption DEF Ids
  <2>2. writes \in Nat /\ wal \in [Ids -> Seq(Frame)] /\ synced \in [Ids -> Nat]
    BY DEF Types, TypeOK
  <2>3. m \in Ids
    BY DEF Types, TypeOK, LsmStorageState
  <2>4. durable[k] \in Int
    BY DEF Types, TypeOK
  <2> QED BY <2>1, <2>2, <2>3, <2>4
<1> HIDE DEF new
<1>5. ASSUME NEW i \in Ids, NEW e, Entered(i, k, e)
      PROVE  /\ e \in Int /\ Stamp(e) \in Nat /\ 0 < Stamp(e) /\ Stamp(e) <= writes
             /\ i <= m /\ Stamp(e) < writes + 1
  <2>1. e \in Int /\ 0 < Stamp(e) /\ Stamp(e) <= writes /\ i <= m
    BY <1>5 DEF Stamped
  <2>2. Stamp(e) \in Nat
    BY <2>1, StampNat
  <2> QED BY <1>4, <2>1, <2>2
<1>6. ASSUME NEW i \in Ids, NEW e, Entered(i, k, e)'
      PROVE  e \in Int /\ 0 < Stamp(e) /\ Stamp(e) <= writes' /\ i <= state'.memtable
  <2>1. CASE Entered(i, k, e)
    <3>1. /\ e \in Int /\ Stamp(e) \in Nat /\ 0 < Stamp(e) /\ Stamp(e) <= writes /\ i <= m
      BY <1>5, <2>1
    <3>2. Stamp(e) <= writes + 1
      BY <1>4, <3>1
    <3> QED BY <1>2, <1>3, <3>1, <3>2
  <2>2. CASE i = m /\ e = new
    <3>1. i \in Nat
      BY <1>4
    <3> QED BY <1>2, <1>3, <1>4, <2>2, <3>1
  <2> QED BY <1>2, <1>6, <2>1, <2>2
<1>7. ASSUME NEW i \in Ids, NEW j \in Ids, NEW e, NEW f, i < j,
             Entered(i, k, e)', Entered(j, k, f)'
      PROVE  Stamp(e) < Stamp(f)
  <2>1. i \in Nat /\ j \in Nat
    BY <1>4
  <2>2. ~(i = m /\ e = new) \/ Entered(i, k, e)
    <3> SUFFICES ASSUME i = m, e = new, ~Entered(i, k, e) PROVE FALSE
      OBVIOUS
    <3>1. j <= m
      <4>1. Entered(j, k, f) \/ j = m
        BY <1>2, <1>7
      <4>2. m \in Nat
        BY <1>4
      <4>3. CASE Entered(j, k, f)
        BY <1>5, <4>3
      <4> QED BY ONLY <2>1, <4>1, <4>2, <4>3
    <3>2. m \in Nat
      BY <1>4
    <3> QED BY ONLY <1>7, <2>1, <3>1, <3>2, i = m
  <2>3. Entered(i, k, e)
    BY <1>2, <1>7, <2>2
  <2>4. CASE Entered(j, k, f)
    BY <1>7, <2>3, <2>4 DEF Stamped
  <2>5. CASE f = new
    BY <1>2, <1>5, <2>3, <2>5
  <2> QED BY <1>2, <1>7, <2>4, <2>5
<1>8. ASSUME NEW i \in Ids PROVE FramesRise(wal'[i], k) /\ synced'[i] <= Len(wal'[i])
  <2>1. FramesRise(wal[i], k) /\ synced[i] <= Len(wal[i]) /\ wal[i] \in Seq(Frame)
    BY <1>4 DEF Stamped
  <2>2. CASE wal'[i] = wal[i]
    BY <1>3, <2>1, <2>2
  <2>3. CASE wal'[i] = Append(wal[i], [key |-> l, ent |-> new])
    <3> DEFINE fs == wal[i]  gs == wal'[i]  x == [key |-> l, ent |-> new]
    <3>1. /\ Len(gs) = Len(fs) + 1 /\ DOMAIN gs = 1 .. Len(fs) + 1 /\ DOMAIN fs = 1 .. Len(fs)
          /\ gs[Len(fs) + 1] = x /\ \A p \in 1 .. Len(fs) : gs[p] = fs[p]
          /\ Len(fs) \in Nat
      BY <2>1, <2>3
    <3>2. ASSUME NEW p \in DOMAIN gs, NEW q \in DOMAIN gs, p < q, gs[p].key = k, gs[q].key = k
          PROVE  Stamp(gs[p].ent) < Stamp(gs[q].ent)
      <4>1. p \in DOMAIN fs /\ gs[p] = fs[p]
        BY <3>1, <3>2
      <4>2. CASE q \in DOMAIN fs
        BY <2>1, <3>1, <3>2, <4>1, <4>2 DEF FramesRise
      <4>3. CASE q = Len(fs) + 1
        <5>1. gs[q].ent = new
          BY <3>1, <4>3
        <5>2. Entered(i, k, fs[p].ent)
          BY <3>2, <4>1 DEF Entered
        <5> QED BY <1>2, <1>5, <4>1, <5>1, <5>2
      <4> QED BY <3>1, <4>2, <4>3
    <3>3. synced'[i] <= Len(gs)
      <4>1. synced[i] \in Nat /\ synced'[i] = synced[i]
        BY <1>3, <1>4
      <4> QED BY <2>1, <3>1, <4>1
    <3> HIDE DEF gs
    <3>4. FramesRise(gs, k)
      BY <3>2 DEF FramesRise
    <3> QED BY <3>3, <3>4 DEF gs
  <2> QED BY <1>2, <2>2, <2>3
<1>9. Stamp(durable'[k]) <= writes'
  <2>1. Stamp(durable[k]) <= writes /\ Stamp(durable[k]) \in Nat
    BY <1>4, StampNat DEF Stamped
  <2> QED BY <1>2, <1>3, <1>4, <2>1
<1> QED BY <1>6, <1>7, <1>8, <1>9 DEF Stamped

(* A step that writes no entry of k and makes none durable.  It empties at *)
(* most the WAL of an id that nobody had.                                  *)
Stays(k) ==
  /\ Unwritten(k) /\ durable'[k] = durable[k]
  /\ \A i \in Ids : i < next_sst_id => wal'[i] = wal[i] /\ synced[i] <= synced'[i]

(* It keeps the order. *)
LEMMA StaysStamped ==
  ASSUME TypeOK, TypeOK', NEW k \in Keys, Stamped(k), Stays(k), state.memtable <= state'.memtable
  PROVE  Stamped(k)'
<1>1. Stamp(durable'[k]) <= writes
  BY DEF Stays, Stamped
<1> QED BY <1>1, StampedKept DEF Stays

(* Steps that leave the WALs alone, or write their buffers out. *)
LEMMA PlainStays ==
  ASSUME TypeOK, NEW k \in Keys, Stamped(k), UNCHANGED <<wal, writes, durable>>,
         \A i \in Ids : synced'[i] = synced[i] \/ synced'[i] = Len(wal[i]),
         \A i \in Ids : \A e : Entered(i, k, e)' => Entered(i, k, e)
  PROVE  Stays(k)
<1>1. ASSUME NEW i \in Ids PROVE synced[i] <= synced'[i] /\ synced'[i] <= Len(wal[i])
  <2>1. synced[i] <= Len(wal[i]) /\ synced[i] \in Nat /\ Len(wal[i]) \in Nat
    BY DEF Stamped, TypeOK
  <2> QED BY <2>1
<1> QED BY <1>1 DEF Stays, Unwritten

(* Steps that are not about MemTables. *)
LEMMA OffStays ==
  ASSUME TypeOK, NEW k \in Keys, Stamped(k), OffMemtables, UNCHANGED <<writes, durable>>,
         \A i \in Ids : synced'[i] = synced[i] \/ synced'[i] = Len(wal[i])
  PROVE  Stays(k)
<1>1. \A c \in Clients : pc'[c] = "logged" => pc[c] = "logged" /\ op'[c] = op[c]
  BY DEF OffMemtables, Threads
<1>2. UNCHANGED <<mem, wal>>
  BY DEF OffMemtables
<1>3. \A i \in Ids : \A e : Entered(i, k, e)' => Entered(i, k, e)
  BY <1>1, <1>2, PlainUnwritten
<1> QED BY <1>2, <1>3, PlainStays

(* The steps of the write path but put(), sync() and the record of a flush. *)
LEMMA PathStays ==
  ASSUME Types, IInv, NEW k \in Keys, Stamped(k), NEW t \in Threads,
         \/ t \in Clients /\ (\/ PutInsert(t) \/ PutCheck(t) \/ ForceFreeze(t) \/ FreezeStep(t)
                              \/ ForceFlush(t))
         \/ t = FlushThread /\ TriggerFlush
         \/ FlushBegin(t) \/ FlushSwap(t)
  PROVE  Stays(k)
<1> USE DEF stateVars, diskVars, ghostVars
<1>0. /\ TypeOK /\ pc \in [Threads -> Steps] /\ op \in [Clients -> Write]
      /\ synced \in [Ids -> Nat] /\ Clients \subseteq Threads
  BY DEF Types, TypeOK, Threads
<1>1. CASE t \in Clients /\ PutInsert(t)
  <2>1. UNCHANGED <<wal, writes, durable, synced>>
    BY <1>1 DEF PutInsert
  <2> QED BY <1>0, <1>1, <2>1, InsertUnwritten, PlainStays
<1>2. CASE t \in Clients /\ FreezeBegin(t)
  <2>1. UNCHANGED <<writes, durable>> /\ next_sst_id \in Nat
    BY <1>2 DEF FreezeBegin, Types, TypeOK
  <2>2. /\ \A i \in Ids : \A e : Entered(i, k, e)' => Entered(i, k, e)
        /\ \A i \in Ids : i # next_sst_id => wal'[i] = wal[i] /\ synced'[i] = synced[i]
        /\ \A i \in Ids : \/ wal'[i] = wal[i] /\ synced'[i] = synced[i]
                          \/ wal'[i] = <<>> /\ synced'[i] = 0
    BY <1>2, FreezeBeginUnwritten
  <2>3. ASSUME NEW i \in Ids PROVE synced'[i] <= Len(wal'[i])
    <3>1. synced[i] <= Len(wal[i]) /\ Len(<<>>) = 0
      BY DEF Stamped
    <3> QED BY <2>2, <3>1
  <2>4. ASSUME NEW i \in Ids, i < next_sst_id PROVE wal'[i] = wal[i] /\ synced[i] <= synced'[i]
    <3>1. i \in Nat /\ synced[i] \in Nat
      BY <1>0, BoundsAssumption DEF Ids
    <3>2. i # next_sst_id
      BY <2>1, <2>4, <3>1
    <3> QED BY <2>2, <3>1, <3>2
  <2> QED BY <2>1, <2>2, <2>3, <2>4 DEF Stays, Unwritten
<1>3. ASSUME UNCHANGED <<mem, wal, writes, durable>>,
             \A i \in Ids : synced'[i] = synced[i] \/ synced'[i] = Len(wal[i]),
             \A c \in Clients : pc'[c] = "logged" => pc[c] = "logged" /\ op'[c] = op[c]
      PROVE  Stays(k)
  BY <1>0, <1>3, PlainUnwritten, PlainStays
<1>4. CASE t \in Clients /\ PutCheck(t)
  BY <1>0, <1>3, <1>4 DEF PutCheck
<1>5. CASE t \in Clients /\ ForceFreeze(t)
  BY <1>0, <1>3, <1>5 DEF ForceFreeze
<1>6. CASE t \in Clients /\ FreezeSwap(t)
  BY <1>0, <1>3, <1>6 DEF FreezeSwap
<1>7. CASE t \in Clients /\ FreezeRecord(t)
  BY <1>0, <1>3, <1>7 DEF FreezeRecord
<1>8. CASE t \in Clients /\ ForceFlush(t)
  BY <1>0, <1>3, <1>8 DEF ForceFlush
<1>9. CASE t = FlushThread /\ TriggerFlush
  BY <1>0, <1>3, <1>9 DEF TriggerFlush
<1>10. CASE FlushBegin(t)
  BY <1>0, <1>3, <1>10 DEF FlushBegin
<1>11. CASE FlushSwap(t)
  BY <1>0, <1>3, <1>11 DEF FlushSwap
<1> QED BY <1>1, <1>2, <1>4, <1>5, <1>6, <1>7, <1>8, <1>9, <1>10, <1>11 DEF FreezeStep

(* What replaying a WAL gives for a key is nothing, or its last frame. *)
LEMMA ReplayedFrame ==
  ASSUME NEW fs \in Seq(Frame), NEW k
  PROVE  \/ Replayed(fs, k) = Absent /\ \A p \in DOMAIN fs : fs[p].key # k
         \/ \E p \in DOMAIN fs : /\ fs[p].key = k /\ fs[p].ent = Replayed(fs, k)
                                 /\ \A q \in DOMAIN fs : fs[q].key = k => q <= p
<1> DEFINE at == {j \in DOMAIN fs : fs[j].key = k}
<1>1. CASE at = {}
  BY <1>1 DEF Replayed
<1>2. CASE at # {}
  <2>1. Len(fs) \in Nat /\ at \subseteq 1 .. Len(fs)
    OBVIOUS
  <2>2. PICK p \in at : \A q \in at : q <= p
    <3> HIDE DEF at
    <3> QED BY <1>2, <2>1, GreatestIndex
  <2>3. p \in DOMAIN fs /\ fs[p].key = k /\ \A q \in DOMAIN fs : fs[q].key = k => q <= p
    BY <2>2
  <2>4. Replayed(fs, k) = fs[p].ent
    BY <2>3, ReplayedIs
  <2> QED BY <2>3, <2>4
<1> QED BY <1>1, <1>2

-----------------------------------------------------------------------------
(* The tables of the manifest and of the state *)

(* What the tables that the manifest names hold for k, and those of the    *)
(* state.                                                                  *)
Disk(k) == InLists(OnDisk.st.l0_sstables, OnDisk.st.levels, sst, k)
Here(k) == InLists(state.l0_sstables, state.levels, sst, k)

(* What a record that a thread has yet to write will do for k.  The table  *)
(* of a flush is what its WAL holds, and older than all MemTables.         *)
Owes(t, k) ==
  /\ pc[t] = "flush_record" =>
       LET id == new_id[t] IN
       /\ id \in OnDisk.memtables /\ id \in state.sstables /\ \A i \in LiveMemtables : id < i
       /\ sst[id] = mem[id] /\ (EnableWal => Replayed(wal[id], k) = mem[id][k])
       /\ Here(k) = OrElse(sst[id][k], Disk(k))
  /\ pc[t] = "compact_record" => Purged(Here(k), Disk(k))

(* The tables of the manifest have what is durable, and all that is in     *)
(* MemTables and WALs is newer, ...                                        *)
Stored(k) ==
  /\ Purged(Disk(k), durable[k])
  /\ \A i \in OnDisk.memtables \cup LiveMemtables : \A e :
       Entered(i, k, e) => Stamp(durable[k]) < Stamp(e)

(* ... or a WAL that open() will read has it, or something newer, on disk. *)
Logged(k) ==
  EnableWal /\ \E i \in OnDisk.memtables : \E p \in 1 .. synced[i] :
    wal[i][p].key = k /\ (wal[i][p].ent = durable[k] \/ Stamp(durable[k]) < Stamp(wal[i][p].ent))

Safe(k) == Stored(k) \/ Logged(k)

(* Lists of tables that have not changed. *)
LEMMA ListedSame ==
  ASSUME NEW st, NEW f, NEW g, NEW k, \A i \in Referenced(st) : f[i] = g[i]
  PROVE  InLists(st.l0_sstables, st.levels, f, k) = InLists(st.l0_sstables, st.levels, g, k)
<1>1. Contents(f, st.l0_sstables) = Contents(g, st.l0_sstables)
  <2>1. \A i \in DOMAIN st.l0_sstables : st.l0_sstables[i] \in Referenced(st)
    BY DEF Referenced, ToSet
  <2> QED BY <2>1 DEF Contents
<1>2. ASSUME NEW l \in DOMAIN st.levels
      PROVE  Contents(f, st.levels[l].ssts) = Contents(g, st.levels[l].ssts)
  <2>1. \A i \in DOMAIN st.levels[l].ssts : st.levels[l].ssts[i] \in Referenced(st)
    BY DEF Referenced, ToSet
  <2> QED BY <2>1 DEF Contents
<1>3. Runs(f, st.levels) = Runs(g, st.levels)
  BY <1>2 DEF Runs
<1> QED BY <1>1, <1>3 DEF InLists

(* The MemTables of the manifest are in memory, or the next record takes   *)
(* them off.                                                               *)
LEMMA DiskMemtables ==
  ASSUME Types, LsmIInv, ManifestHolds, NEW k, \A t \in Threads : Owes(t, k)
  PROVE  /\ OnDisk.memtables \subseteq LiveMemtables \cup state.sstables
         /\ OnDisk.memtables \subseteq Ids
         /\ \A i \in OnDisk.memtables : i < next_sst_id
         /\ (\A t \in Threads : pc[t] # "freeze_record") => LiveMemtables \subseteq OnDisk.memtables
<1>1. /\ OnDisk.memtables \subseteq LiveMemtables \cup state.sstables
      /\ (\A t \in Threads : pc[t] # "freeze_record") => LiveMemtables \subseteq OnDisk.memtables
  <2>1. CASE \A t \in Threads : pc[t] \notin RecordSteps
    BY <2>1 DEF ManifestHolds, Caught
  <2>2. ASSUME NEW t \in Threads, pc[t] \in RecordSteps
        PROVE  /\ OnDisk.memtables \subseteq LiveMemtables \cup state.sstables
               /\ pc[t] # "freeze_record" => LiveMemtables \subseteq OnDisk.memtables
    <3> DEFINE r == RecordAt(pc[t], new_id[t], job[t])
    <3>1. Applied(OnDisk, r).memtables = LiveMemtables /\ Shape(OnDisk)
      BY <2>2 DEF ManifestHolds, Caught
    <3>2. CASE pc[t] = "freeze_record"
      <4>1. r.type = "NewMemtable" /\ r.id = new_id[t]
        BY <3>2 DEF RecordAt, NewMemtable
      <4>2. Applied(OnDisk, r).memtables = OnDisk.memtables \cup {new_id[t]}
        BY <3>1, <4>1 DEF Applied, Shape
      <4> QED BY <3>1, <3>2, <4>2
    <3>3. CASE pc[t] = "flush_record"
      <4>1. r.type = "Flush" /\ r.id = new_id[t]
        BY <3>3 DEF RecordAt, Flush
      <4>2. Applied(OnDisk, r).memtables = OnDisk.memtables \ {new_id[t]}
        BY <4>1 DEF Applied
      <4>3. new_id[t] \in state.sstables
        BY <3>3 DEF Owes
      <4> QED BY <3>1, <4>2, <4>3
    <3>4. CASE pc[t] = "compact_record"
      <4>1. r.type = "Compaction"
        BY <3>4 DEF RecordAt, Compaction
      <4>2. Applied(OnDisk, r).memtables = OnDisk.memtables
        BY <3>1, <4>1 DEF Applied, Shape
      <4> QED BY <3>1, <4>2
    <3> QED BY <2>2, <3>2, <3>3, <3>4 DEF RecordSteps
  <2> QED BY <2>1, <2>2
<1>2. \A i \in LiveMemtables \cup state.sstables : i < next_sst_id
  BY DEF LsmIInv, IInv, IdsApart, LiveMemtables
<1> QED BY <1>1, <1>2 DEF ManifestHolds, Shape

(* A step that leaves what is durable leaves it safe. *)
LEMMA SafeKept ==
  ASSUME TypeOK, TypeOK', NEW k \in Keys, Stamped(k), Safe(k), Stays(k),
         OnDisk.memtables \subseteq Ids, \A i \in OnDisk.memtables : i < next_sst_id,
         Purged(Disk(k)', Disk(k)), OnDisk.memtables \subseteq OnDisk'.memtables,
         \A i \in OnDisk'.memtables \cup LiveMemtables' :
           i \in Ids /\ (i \in OnDisk.memtables \cup LiveMemtables \/ i > state.memtable)
  PROVE  Safe(k)'
<1>1. durable'[k] = durable[k]
  BY DEF Stays
<1>2. CASE Stored(k)
  <2>1. Purged(Disk(k)', durable'[k])
    <3>1. Purged(Disk(k), durable[k])
      BY <1>2 DEF Stored
    <3> QED BY <1>1, <3>1 DEF Purged, Absent
  <2>2. ASSUME NEW i \in OnDisk'.memtables \cup LiveMemtables', NEW e, Entered(i, k, e)'
        PROVE  Stamp(durable'[k]) < Stamp(e)
    <3>1. i \in Ids /\ (i \in OnDisk.memtables \cup LiveMemtables \/ i > state.memtable)
      OBVIOUS
    <3>2. Entered(i, k, e)
      BY <2>2, <3>1 DEF Stays, Unwritten
    <3>3. i <= state.memtable
      BY <3>1, <3>2 DEF Stamped
    <3>4. i \in Nat /\ state.memtable \in Nat
      BY <3>1, BoundsAssumption DEF TypeOK, LsmStorageState, Ids
    <3>5. i \in OnDisk.memtables \cup LiveMemtables
      BY <3>1, <3>3, <3>4
    <3> QED BY <1>1, <1>2, <3>2, <3>5 DEF Stored
  <2> QED BY <2>1, <2>2 DEF Safe, Stored
<1>3. CASE Logged(k)
  <2>0. PICK i \in OnDisk.memtables : \E p \in 1 .. synced[i] :
          wal[i][p].key = k /\ (wal[i][p].ent = durable[k] \/ Stamp(durable[k]) < Stamp(wal[i][p].ent))
    BY <1>3 DEF Logged
  <2>1. PICK p \in 1 .. synced[i] :
          wal[i][p].key = k /\ (wal[i][p].ent = durable[k] \/ Stamp(durable[k]) < Stamp(wal[i][p].ent))
    BY <2>0
  <2>2. i \in Ids /\ wal'[i] = wal[i] /\ synced[i] <= synced'[i]
    BY DEF Stays
  <2>3. p \in 1 .. synced'[i]
    <3>1. synced[i] \in Nat /\ synced'[i] \in Nat
      BY <2>2 DEF TypeOK
    <3> QED BY <2>1, <2>2, <3>1
  <2> QED BY <1>1, <1>3, <2>1, <2>2, <2>3 DEF Safe, Logged
<1> QED BY <1>2, <1>3 DEF Safe

(* What is known of key k while the process runs. *)
Kept(k) == Stamped(k) /\ Safe(k) /\ \A t \in Threads : Owes(t, k)

(* A step that leaves the tables, also where they were MemTables, and      *)
(* while a compaction has yet to be recorded those it replaced.            *)
Steady ==
  /\ \A i \in state.sstables : sst'[i] = sst[i] /\ mem'[i] = mem[i] /\ wal'[i] = wal[i]
  /\ UNCHANGED sst \/ \A t \in Threads : pc[t] # "compact_record"

(* Readers of the same lists find the same. *)
LEMMA SteadyLists ==
  ASSUME IInv, StateHolds, ManifestHolds, Steady, NEW k
  PROVE  /\ InLists(OnDisk.st.l0_sstables, OnDisk.st.levels, sst', k) = Disk(k)
         /\ InLists(state.l0_sstables, state.levels, sst', k) = Here(k)
<1>1. \A i \in Referenced(state) : sst[i] = sst'[i]
  BY StateFiled DEF Steady
<1>2. \A i \in Referenced(OnDisk.st) : sst[i] = sst'[i]
  <2>1. CASE UNCHANGED sst
    BY <2>1
  <2>2. CASE \A t \in Threads : pc[t] # "compact_record"
    <3>1. Referenced(OnDisk.st) \subseteq state.sstables
      BY <2>2 DEF ManifestHolds
    <3> QED BY <3>1 DEF Steady
  <2> QED BY <2>1, <2>2 DEF Steady
<1>3. InLists(state.l0_sstables, state.levels, sst, k) = InLists(state.l0_sstables, state.levels, sst', k)
  BY <1>1, ListedSame
<1> DEFINE disk == OnDisk.st
<1>4. InLists(disk.l0_sstables, disk.levels, sst, k) = InLists(disk.l0_sstables, disk.levels, sst', k)
  <2> HIDE DEF disk
  <2>1. \A i \in Referenced(disk) : sst[i] = sst'[i]
    BY <1>2 DEF disk
  <2> QED BY <2>1, ListedSame
<1> QED BY <1>3, <1>4 DEF Disk, Here

(* So a step that neither changes the state nor writes a record leaves     *)
(* what is owed.                                                           *)
LEMMA OwesAside ==
  ASSUME LsmIInv, ManifestHolds, NEW k, Steady, UNCHANGED <<state, manifest>>,
         \A u \in Threads : Owes(u, k),
         \A u \in Threads : pc'[u] \in RecordSteps => pc'[u] = pc[u] /\ new_id'[u] = new_id[u]
  PROVE  /\ OnDisk' = OnDisk /\ LiveMemtables' = LiveMemtables /\ Disk(k)' = Disk(k)
         /\ \A u \in Threads : Owes(u, k)'
<1>1. OnDisk' = OnDisk /\ LiveMemtables' = LiveMemtables
  BY DEF OnDisk, LiveMemtables
<1>2. Disk(k)' = Disk(k) /\ Here(k)' = Here(k)
  BY <1>1, SteadyLists DEF Disk, Here, LsmIInv
<1>3. ASSUME NEW u \in Threads PROVE Owes(u, k)'
  <2>1. Owes(u, k)
    OBVIOUS
  <2>2. CASE pc'[u] = "flush_record"
    <3> DEFINE id == new_id[u]
    <3>1. pc[u] = "flush_record" /\ new_id'[u] = id
      BY <2>2 DEF RecordSteps
    <3>2. /\ id \in OnDisk.memtables /\ id \in state.sstables /\ \A i \in LiveMemtables : id < i
          /\ sst[id] = mem[id] /\ (EnableWal => Replayed(wal[id], k) = mem[id][k])
          /\ Here(k) = OrElse(sst[id][k], Disk(k))
      BY <2>1, <3>1 DEF Owes
    <3>3. sst'[id] = sst[id] /\ mem'[id] = mem[id] /\ wal'[id] = wal[id]
      BY <3>2 DEF Steady
    <3> HIDE DEF id
    <3> QED BY <1>1, <1>2, <2>2, <3>1, <3>2, <3>3 DEF Owes
  <2>3. CASE pc'[u] = "compact_record"
    <3>1. pc[u] = "compact_record"
      BY <2>3 DEF RecordSteps
    <3> QED BY <1>2, <2>1, <2>3, <3>1 DEF Owes
  <2>4. CASE pc'[u] \notin {"flush_record", "compact_record"}
    BY <2>4 DEF Owes
  <2> QED BY <2>2, <2>3, <2>4
<1> QED BY <1>1, <1>2, <1>3

(* If it writes nothing either, all is kept. *)
LEMMA KeptAside ==
  ASSUME Types, Types', LsmIInv, ManifestHolds, NEW k \in Keys, Kept(k), Stays(k), Steady,
         UNCHANGED <<state, manifest>>,
         \A u \in Threads : pc'[u] \in RecordSteps => pc'[u] = pc[u] /\ new_id'[u] = new_id[u]
  PROVE  Kept(k)'
<1>0. /\ TypeOK /\ TypeOK' /\ Stamped(k) /\ Safe(k)
      /\ \A t \in Threads : Owes(t, k)
  BY DEF Types, Kept
<1>1. /\ OnDisk' = OnDisk /\ LiveMemtables' = LiveMemtables /\ Disk(k)' = Disk(k)
      /\ \A u \in Threads : Owes(u, k)'
  BY <1>0, OwesAside
<1>2. Stamped(k)'
  <2>1. state.memtable <= state'.memtable
    BY <1>0, BoundsAssumption DEF TypeOK, LsmStorageState, Ids
  <2> QED BY <1>0, <2>1, StaysStamped
<1>3. Safe(k)'
  <2>1. OnDisk.memtables \subseteq Ids /\ \A i \in OnDisk.memtables : i < next_sst_id
    BY <1>0, DiskMemtables
  <2>2. LiveMemtables \subseteq Ids
    BY <1>0, LiveIds
  <2>3. Purged(Disk(k)', Disk(k))
    BY <1>1 DEF Purged
  <2> QED BY <1>0, <1>1, <2>1, <2>2, <2>3, SafeKept
<1> QED BY <1>1, <1>2, <1>3 DEF Kept

(* The write path leaves the tables alone. *)
LEMMA PathSteady ==
  ASSUME Types, LsmIInv, NEW t \in Threads,
         \/ t \in Clients /\ (\/ Put(t) \/ PutInsert(t) \/ PutCheck(t) \/ ForceFreeze(t)
                              \/ FreezeStep(t) \/ ForceFlush(t) \/ Sync(t))
         \/ t = FlushThread /\ TriggerFlush
         \/ FlushBegin(t) \/ FlushSwap(t) \/ FlushRecord(t) \/ FlushFails(t)
  PROVE  Steady
<1> USE DEF Steady, stateVars, diskVars
<1>0. /\ mem \in [Ids -> Table] /\ sst \in [Ids -> Table] /\ wal \in [Ids -> Seq(Frame)]
      /\ state.sstables \subseteq Ids
  BY StateTypes DEF Types, TypeOK
<1>1. /\ \A i \in LiveMemtables : i \notin state.sstables
      /\ next_sst_id \notin state.sstables
  <2>1. \A i \in state.sstables : i < next_sst_id /\ i \in Nat /\ next_sst_id \in Nat
    BY <1>0, BoundsAssumption DEF LsmIInv, IInv, IdsApart, Types, TypeOK, Ids
  <2>2. next_sst_id \notin state.sstables
    BY <2>1
  <2> QED BY <2>2 DEF LsmIInv, IInv, IdsApart, LiveMemtables
<1>2. CASE t \in Clients /\ Put(t)
  <2>1. UNCHANGED <<mem, sst>> /\ (UNCHANGED wal
         \/ \E x : wal' = [wal EXCEPT ![state.memtable] = x])
    BY <1>2 DEF Put, PutLog
  <2>2. \A i \in state.sstables : i # state.memtable
    BY <1>1 DEF LiveMemtables
  <2> QED BY <1>0, <2>1, <2>2
<1>3. CASE t \in Clients /\ PutInsert(t)
  <2>1. /\ UNCHANGED <<wal, sst>> /\ mem' = [mem EXCEPT ![op[t].into][op[t].key] = op[t].ent]
        /\ op[t].into = state.memtable
    BY <1>3 DEF PutInsert, LsmIInv, IInv, PutHolds
  <2>2. \A i \in state.sstables : i # op[t].into
    BY <1>1, <2>1 DEF LiveMemtables
  <2> QED BY <1>0, <2>1, <2>2
<1>4. CASE t \in Clients /\ FreezeBegin(t)
  <2>1. /\ UNCHANGED sst /\ mem' = [mem EXCEPT ![next_sst_id] = EmptyTable]
        /\ UNCHANGED wal \/ wal' = [wal EXCEPT ![next_sst_id] = <<>>]
    BY <1>4 DEF FreezeBegin
  <2> QED BY <1>0, <1>1, <2>1
<1>5. CASE FlushBegin(t) \/ FlushFails(t)
  <2>1. /\ UNCHANGED <<mem, wal>> /\ state_lock = NoThread
        /\ \/ UNCHANGED sst
           \/ state.imm_memtables # <<>> /\ \E x : sst' = [sst EXCEPT ![OldestImm] = x]
    BY <1>5 DEF FlushBegin, FlushFails
  <2>2. \A u \in Threads : pc[u] # "compact_record"
    <3>1. NoThread \notin Threads
      BY ThreadsAssumption DEF Threads
    <3> QED BY <2>1, <3>1 DEF LsmIInv, IInv, LockHolds, LockedSteps
  <2>3. CASE UNCHANGED sst
    BY <2>1, <2>3
  <2>4. CASE state.imm_memtables # <<>> /\ \E x : sst' = [sst EXCEPT ![OldestImm] = x]
    <3>1. OldestImm \notin state.sstables
      <4>1. Len(state.imm_memtables) \in DOMAIN state.imm_memtables
        BY <2>4, StateTypes DEF Types
      <4> QED BY <4>1 DEF LsmIInv, IInv, IdsApart, OldestImm
    <3> QED BY <1>0, <2>1, <2>2, <2>4, <3>1
  <2> QED BY <2>1, <2>3, <2>4
<1>6. CASE t \in Clients /\ (\/ PutCheck(t) \/ ForceFreeze(t) \/ FreezeSwap(t) \/ FreezeRecord(t)
                             \/ ForceFlush(t) \/ Sync(t))
  BY <1>6 DEF PutCheck, ForceFreeze, FreezeSwap, FreezeRecord, ForceFlush, Sync
<1>7. CASE (t = FlushThread /\ TriggerFlush) \/ FlushSwap(t) \/ FlushRecord(t)
  BY <1>7 DEF TriggerFlush, FlushSwap, FlushRecord
<1> QED BY <1>2, <1>3, <1>4, <1>5, <1>6, <1>7 DEF FreezeStep

(* So does the only compaction, which takes new ids. *)
LEMMA CompactionSteady ==
  ASSUME Types, LsmIInv, OneCompaction, NEW t \in Threads,
         \/ BeginCompaction(t) \/ CompactStep(t) \/ CompactFails(t)
         \/ CloseFreeze(t) \/ CloseFlush(t)
  PROVE  Steady
<1> USE DEF Steady, stateVars, diskVars
<1>0. sst \in [Ids -> Table] /\ state.sstables \subseteq Ids /\ Ids \subseteq Nat /\ next_sst_id \in Nat
  BY StateTypes DEF Types, TypeOK
<1>1. \A i \in state.sstables : i < next_sst_id /\ i \in Nat
  BY <1>0 DEF LsmIInv, IInv, IdsApart
<1>2. CASE Compact(t)
  <2>1. \A u \in Threads : pc[u] # "compact_record"
    BY <1>2 DEF Compact, OneCompaction, CompactionSteps
  <2>2. PICK tables : LET ids == [i \in DOMAIN tables |-> next_sst_id + i - 1]
                      IN  sst' = [i \in Ids |-> IF i \in ToSet(ids)
                                                  THEN tables[i - next_sst_id + 1] ELSE sst[i]]
                          /\ tables = CompactOutput(state, sst, job[t].task)
    BY <1>2 DEF Compact
  <2>3. DOMAIN tables \subseteq Nat \ {0}
    <3>1. TaskFits(Ids, state, job[t].task) /\ state \in StateOver(Ids) /\ RefsOpen(state)
      BY <1>2, StateTypes, StateOpen DEF Compact, LsmIInv, ThreadHolds, JobHolds, Types
    <3>2. tables \in Seq(Table)
      BY <1>0, <2>2, <3>1, OutputType
    <3> QED BY <3>2
  <2> DEFINE ids == [i \in DOMAIN tables |-> next_sst_id + i - 1]
  <2>4. \A i \in state.sstables : i \notin ToSet(ids)
    BY <1>0, <1>1, <2>3 DEF ToSet
  <2> QED BY <1>0, <1>2, <2>1, <2>2, <2>4 DEF Compact
<1>3. CASE CompactFails(t)
  <2>1. \A u \in Threads : pc[u] # "compact_record"
    BY <1>3 DEF CompactFails, OneCompaction, CompactionSteps
  <2>2. PICK tables : \E n \in 0 .. Len(tables) - 1 :
          sst' = [i \in Ids |-> IF i \notin next_sst_id .. next_sst_id + n THEN sst[i]
                                ELSE IF i < next_sst_id + n THEN tables[i - next_sst_id + 1]
                                ELSE EmptyTable]
    BY <1>3 DEF CompactFails
  <2>3. \A i \in state.sstables : \A n : i \notin next_sst_id .. n
    BY <1>0, <1>1
  <2> QED BY <1>0, <1>3, <2>1, <2>2, <2>3 DEF CompactFails
<1>4. CASE CompactApply(t) \/ CompactRecord(t) \/ CompactRemove(t)
  BY <1>4 DEF CompactApply, CompactRecord, CompactRemove
<1>5. CASE BeginCompaction(t) \/ CloseFreeze(t) \/ CloseFlush(t)
  BY <1>5 DEF BeginCompaction, CloseFreeze, CloseFlush
<1> QED BY <1>2, <1>3, <1>4, <1>5 DEF CompactStep

-----------------------------------------------------------------------------
(* The steps that write entries *)

(* What is logged is newer than what is durable. *)
LEMMA PutKept ==
  ASSUME Types, LsmIInv, ManifestHolds, NEW k \in Keys, Kept(k), NEW c \in Clients, Put(c),
         UNCHANGED lsVars
  PROVE  Kept(k)'
<1>0. /\ TypeOK /\ Stamped(k) /\ Safe(k) /\ \A t \in Threads : Owes(t, k)
  BY DEF Types, Kept
<1>1. PICK l \in KeysOf[c], sgn \in {1, -1} : PutLog(c, l, sgn)
  BY DEF Put
<1> DEFINE new == sgn * (writes + 1)
           m == state.memtable
<1>2. /\ writes' = writes + 1 /\ Stamp(new) = writes + 1 /\ new \in Int
      /\ \A i \in Ids : \A e : Entered(i, k, e)' => Entered(i, k, e) \/ (i = m /\ e = new)
      /\ \A i \in Ids : \/ wal'[i] = wal[i]
                        \/ i = m /\ wal'[i] = Append(wal[i], [key |-> l, ent |-> new])
  BY <1>1, PutWrites
<1>3. UNCHANGED <<state, manifest, synced, durable, new_id>> /\ pc' = [pc EXCEPT ![c] = "logged"]
  BY <1>1 DEF PutLog, stateVars
<1>4. c \in Threads /\ pc \in [Threads -> Steps] /\ writes \in Nat /\ durable[k] \in Int
      /\ wal \in [Ids -> Seq(Frame)] /\ synced \in [Ids -> Nat]
  BY DEF Types, TypeOK, Threads
<1>5. \A u \in Threads : pc'[u] \in RecordSteps => pc'[u] = pc[u] /\ new_id'[u] = new_id[u]
  BY <1>3, <1>4 DEF RecordSteps
<1>6. Steady
  BY <1>4, PathSteady
<1>7. /\ OnDisk' = OnDisk /\ LiveMemtables' = LiveMemtables /\ Disk(k)' = Disk(k)
      /\ \A u \in Threads : Owes(u, k)'
  BY <1>0, <1>3, <1>5, <1>6, OwesAside
<1>8. Stamped(k)'
  BY <1>0, PutStamped
<1>9. OnDisk.memtables \subseteq Ids /\ LiveMemtables \subseteq Ids
  BY <1>0, DiskMemtables, LiveIds
<1> HIDE DEF new
<1>10. CASE Stored(k)
  <2>1. Stamp(durable[k]) < Stamp(new)
    <3>1. Stamp(durable[k]) \in Nat /\ Stamp(durable[k]) <= writes
      BY <1>0, <1>4, StampNat DEF Stamped
    <3> QED BY <1>2, <1>4, <3>1
  <2>2. ASSUME NEW i \in OnDisk.memtables \cup LiveMemtables, NEW e, Entered(i, k, e)'
        PROVE  Stamp(durable[k]) < Stamp(e)
    <3>1. Entered(i, k, e) \/ e = new
      BY <1>2, <1>9, <2>2
    <3> QED BY <1>10, <2>1, <3>1 DEF Stored
  <2>3. Purged(Disk(k), durable[k])
    BY <1>10 DEF Stored
  <2> QED BY <1>3, <1>7, <1>8, <2>2, <2>3 DEF Kept, Safe, Stored
<1>11. CASE Logged(k)
  <2>0. PICK i \in OnDisk.memtables : \E p \in 1 .. synced[i] :
          wal[i][p].key = k /\ (wal[i][p].ent = durable[k] \/ Stamp(durable[k]) < Stamp(wal[i][p].ent))
    BY <1>11 DEF Logged
  <2>1. PICK p \in 1 .. synced[i] :
          wal[i][p].key = k /\ (wal[i][p].ent = durable[k] \/ Stamp(durable[k]) < Stamp(wal[i][p].ent))
    BY <2>0
  <2>2. wal'[i][p] = wal[i][p]
    <3>1. i \in Ids /\ synced[i] \in Nat /\ synced[i] <= Len(wal[i]) /\ wal[i] \in Seq(Frame)
      BY <1>0, <1>4, <1>9 DEF Stamped
    <3>2. p \in 1 .. Len(wal[i])
      BY <2>1, <3>1
    <3> QED BY <1>2, <3>1, <3>2
  <2> QED BY <1>3, <1>7, <1>8, <1>11, <2>1, <2>2 DEF Kept, Safe, Logged
<1> QED BY <1>0, <1>10, <1>11 DEF Safe

(* sync(), called by a client or by close(), makes the last frames of the  *)
(* active MemTable's WAL durable.  open() reads them if the MemTable is in *)
(* the manifest.                                                           *)
LEMMA SyncKept ==
  ASSUME Types, Types', LsmIInv, ManifestHolds, NEW k \in Keys, Kept(k), SyncActive,
         UNCHANGED <<state, mem, sst, wal, manifest, writes, pc, op, new_id>>,
         EnableWal, \A t \in Threads : pc[t] # "freeze_record"
  PROVE  Kept(k)'
<1>0. /\ TypeOK /\ TypeOK' /\ Stamped(k) /\ Safe(k) /\ \A t \in Threads : Owes(t, k)
  BY DEF Types, Kept
<1> DEFINE m == state.memtable
           e == Replayed(wal[m], k)
<1>1. /\ UNCHANGED <<state, mem, wal, manifest, writes, pc, op, new_id>>
      /\ synced' = [synced EXCEPT ![m] = Len(wal[m])]
      /\ durable'[k] = LaterOf(durable[k], e)
  BY DEF SyncActive
<1>2. /\ m \in Ids /\ wal[m] \in Seq(Frame) /\ synced \in [Ids -> Nat]
      /\ durable[k] \in Int /\ writes \in Nat
  BY <1>0 DEF TypeOK, LsmStorageState
<1>3. /\ OnDisk' = OnDisk /\ LiveMemtables' = LiveMemtables /\ Disk(k)' = Disk(k)
      /\ \A u \in Threads : Owes(u, k)'
  <2>1. Steady
    BY DEF Steady
  <2> QED BY <1>0, <1>1, <2>1, OwesAside
<1>4. /\ OnDisk.memtables \subseteq Ids /\ LiveMemtables \subseteq Ids /\ m \in OnDisk.memtables
      /\ \A i \in OnDisk.memtables : i < next_sst_id
  BY <1>0, DiskMemtables, LiveIds DEF LiveMemtables
<1>5. \A i \in Ids : synced'[i] = synced[i] \/ synced'[i] = Len(wal[i])
  BY <1>1, <1>2
<1>6. \A i \in Ids : \A f : Entered(i, k, f)' => Entered(i, k, f)
  BY <1>1, PlainUnwritten
<1>7. CASE durable'[k] = durable[k]
  <2>1. Stays(k)
    <3>1. ASSUME NEW i \in Ids PROVE synced[i] <= synced'[i] /\ synced'[i] <= Len(wal[i])
      <4>1. synced[i] <= Len(wal[i]) /\ synced[i] \in Nat /\ Len(wal[i]) \in Nat
        BY <1>0 DEF Stamped, TypeOK
      <4> QED BY <1>5, <4>1
    <3> QED BY <1>1, <1>6, <1>7, <3>1 DEF Stays, Unwritten
  <2>2. state.memtable <= state'.memtable
    BY <1>1, <1>2, BoundsAssumption DEF Ids
  <2>3. Stamped(k)'
    BY <1>0, <2>1, <2>2, StaysStamped
  <2>4. Purged(Disk(k)', Disk(k))
    BY <1>3 DEF Purged
  <2>5. Safe(k)'
    BY <1>0, <1>3, <1>4, <2>1, <2>4, SafeKept
  <2> QED BY <1>3, <2>3, <2>5 DEF Kept
<1>8. CASE durable'[k] # durable[k]
  <2>1. durable'[k] = e /\ ~(Stamp(durable[k]) > Stamp(e))
    BY <1>1, <1>8 DEF LaterOf
  <2>2. e # Absent
    <3>1. Stamp(durable[k]) \in Nat /\ (Stamp(durable[k]) = 0 => durable[k] = Absent)
      BY <1>2, StampNat
    <3>2. Stamp(Absent) = 0
      BY DEF Stamp, Absent
    <3> QED BY <1>8, <2>1, <3>1, <3>2
  <2>3. PICK p \in DOMAIN wal[m] : wal[m][p].key = k /\ wal[m][p].ent = e
    BY <1>2, <2>2, ReplayedFrame
  <2>4. Stamp(e) <= writes
    BY <1>0, <1>2, <2>3 DEF Stamped, Entered
  <2>5. Stamped(k)'
    <3>1. \A i \in Ids : synced'[i] <= Len(wal[i])
      <4>1. \A i \in Ids : Len(wal[i]) \in Nat /\ synced[i] <= Len(wal[i])
        BY <1>0 DEF Stamped, TypeOK
      <4> QED BY <1>5, <4>1
    <3>2. Unwritten(k)
      BY <1>1, <1>6, <3>1 DEF Unwritten
    <3>3. state.memtable <= state'.memtable
      BY <1>1, <1>2, BoundsAssumption DEF Ids
    <3> QED BY <1>0, <2>1, <2>4, <3>2, <3>3, StampedKept
  <2>6. Logged(k)'
    <3>1. synced'[m] = Len(wal[m]) /\ p \in 1 .. Len(wal[m])
      BY <1>1, <1>2, <2>3
    <3> HIDE DEF e, m
    <3> QED BY <1>1, <1>3, <1>4, <2>1, <2>3, <3>1 DEF Logged
  <2> QED BY <1>3, <2>5, <2>6 DEF Kept, Safe
<1> QED BY <1>7, <1>8

-----------------------------------------------------------------------------
(* Swaps *)

(* Between a swap and its record what is durable stays where it was. *)
LEMMA SwapKept ==
  ASSUME Types, Types', LsmIInv, ManifestHolds, NEW k \in Keys, Kept(k), Stays(k),
         UNCHANGED <<manifest, sst>>, state.memtable <= state'.memtable,
         \A i \in LiveMemtables' : i \in LiveMemtables \/ i > state.memtable,
         \A t \in Threads : Owes(t, k)'
  PROVE  Kept(k)'
<1>0. /\ TypeOK /\ TypeOK' /\ Stamped(k) /\ Safe(k) /\ \A t \in Threads : Owes(t, k)
  BY DEF Types, Kept
<1>1. OnDisk' = OnDisk
  BY DEF OnDisk
<1>2. Purged(Disk(k)', Disk(k))
  BY <1>1 DEF Disk, Purged
<1>3. OnDisk.memtables \subseteq Ids /\ \A i \in OnDisk.memtables : i < next_sst_id
  BY <1>0, DiskMemtables
<1>4. (LiveMemtables \subseteq Ids)'
  BY <1>0, LiveIds, PTL
<1>5. Safe(k)'
  BY <1>0, <1>1, <1>2, <1>3, <1>4, SafeKept
<1>6. Stamped(k)'
  BY <1>0, StaysStamped
<1> QED BY <1>5, <1>6 DEF Kept

(* A freeze: nothing is written to the new MemTable yet. *)
LEMMA FreezeSwapKept ==
  ASSUME Types, Types', LsmIInv, ManifestHolds, ManifestHolds', Ordered, NEW k \in Keys, Kept(k),
         NEW c \in Clients, FreezeSwap(c), UNCHANGED lsVars
  PROVE  Kept(k)'
<1> DEFINE id == new_id[c]
<1>0. c \in Threads /\ Stamped(k) /\ IInv
  BY DEF Threads, Kept, LsmIInv
<1>1. /\ pc[c] = "freeze_swap" /\ pc' = [pc EXCEPT ![c] = "freeze_record"]
      /\ UNCHANGED <<new_id, manifest, sst, job>> /\ state'.memtable = id
  BY DEF FreezeSwap, diskVars, lsVars, Types, TypeOK, LsmStorageState
<1>2. pc'[c] = "freeze_record" /\ \A u \in Threads \ {c} : pc'[u] = pc[u] /\ pc[u] \notin LockedSteps
  <2>1. \A u \in Threads \ {c} : pc[u] \notin LockedSteps
    BY <1>0, <1>1, LockAlone DEF LockedSteps
  <2> QED BY <1>0, <1>1, <2>1 DEF Types, TypeOK
<1>3. \A t \in Threads : Owes(t, k)'
  <2>1. \A t \in Threads : pc'[t] \notin {"flush_record", "compact_record"}
    BY <1>2 DEF LockedSteps
  <2> QED BY <2>1 DEF Owes
<1>4. Caught(OnDisk, state, LiveMemtables) /\ OnDisk' = OnDisk /\ Shape(OnDisk)
  BY <1>0, <1>1, NothingOwed DEF LockedSteps, RecordSteps, OnDisk, ManifestHolds
<1>5. LiveMemtables' = LiveMemtables \cup {id}
  <2> DEFINE r == RecordAt(pc'[c], new_id'[c], job'[c])
  <2>1. Caught(Applied(OnDisk', r), state', LiveMemtables')
    BY <1>0, <1>2 DEF ManifestHolds, RecordSteps
  <2>2. r.type = "NewMemtable" /\ r.id = id
    BY <1>1, <1>2 DEF RecordAt, NewMemtable
  <2>3. Applied(OnDisk, r).memtables = OnDisk.memtables \cup {id}
    BY <1>4, <2>2 DEF Applied, Shape
  <2> QED BY <1>4, <2>1, <2>3 DEF Caught
<1>6. state.memtable < id /\ state.memtable \in Nat /\ id \in Nat
  BY <1>0, <1>1, BoundsAssumption DEF Ordered, LiveMemtables, Types, TypeOK, LsmStorageState, Ids
<1>7. state.memtable <= state'.memtable /\ id > state.memtable
  BY <1>1, <1>6
<1>8. Stays(k)
  BY <1>0, PathStays DEF FreezeStep
<1> QED BY <1>1, <1>3, <1>5, <1>7, <1>8, SwapKept

(* A flush takes the MemTable with the least id. *)
LEMMA OldestLeast ==
  ASSUME TypeOK, Ordered, state.imm_memtables # <<>>
  PROVE  \A i \in LiveMemtables : i = OldestImm \/ OldestImm < i
<1> DEFINE imm == state.imm_memtables
           n == Len(imm)
<1>1. imm \in Seq(Ids) /\ state.memtable \in Ids /\ Ids \subseteq Nat
  BY BoundsAssumption DEF TypeOK, LsmStorageState, Ids
<1>2. n \in Nat \ {0} /\ DOMAIN Line = 1 .. n + 1 /\ Line[n + 1] = OldestImm
  BY <1>1 DEF Line, OldestImm
<1>3. /\ LiveMemtables = {Line[i] : i \in DOMAIN Line} /\ Line \in Seq(Ids)
      /\ \A i, j \in DOMAIN Line : i < j => Line[i] > Line[j]
  BY DEF Ordered, Descends
<1> HIDE DEF n
<1> SUFFICES ASSUME NEW j \in DOMAIN Line PROVE Line[j] = OldestImm \/ OldestImm < Line[j]
  BY <1>3
<1>4. n + 1 \in DOMAIN Line /\ (j = n + 1 \/ j < n + 1) /\ Line[j] \in Nat /\ Line[n + 1] \in Nat
  <2>1. n + 1 \in DOMAIN Line /\ (j = n + 1 \/ j < n + 1)
    BY <1>2
  <2>2. \A i \in DOMAIN Line : Line[i] \in Ids
    <3> HIDE DEF Line
    <3> QED BY <1>3
  <2> QED BY <1>1, <2>1, <2>2
<1>5. CASE j < n + 1
  <2>1. Line[j] > Line[n + 1]
    BY <1>3, <1>4, <1>5
  <2> QED BY <1>2, <1>4, <2>1
<1> QED BY <1>2, <1>4, <1>5

(* A flush: its table, when recorded, will hide what its WAL holds. *)
LEMMA FlushSwapKept ==
  ASSUME Types, Types', LsmIInv, LsmIInv', ManifestHolds, ManifestHolds', Ordered, WalIInv,
         life # "down", NEW k \in Keys, EnableWal => OneWriter(k), Kept(k), NEW t \in Threads,
         FlushSwap(t), UNCHANGED lsVars
  PROVE  Kept(k)'
<1> DEFINE id == new_id[t]
<1>0. /\ TypeOK /\ Stamped(k) /\ IInv /\ IInv' /\ StateHolds
      /\ state.memtable \in Nat /\ id \in Ids /\ state \in LsmStorageState /\ sst \in [Ids -> Table]
  <2>1. TypeOK /\ Stamped(k) /\ IInv /\ IInv' /\ StateHolds
    BY DEF Kept, LsmIInv, Types
  <2>2. state.memtable \in Nat
    BY <2>1, StateTypes
  <2> QED BY <2>1, <2>2 DEF TypeOK
<1>1. /\ pc[t] = "flush_swap" /\ pc' = [pc EXCEPT ![t] = "flush_record"]
      /\ UNCHANGED <<new_id, manifest, sst, mem, wal, job>>
      /\ state' = [AddFlushed(state, id) EXCEPT !.imm_memtables = SubSeq(@, 1, Len(@) - 1),
                                                !.sstables = @ \cup {id}]
  BY DEF FlushSwap, diskVars, lsVars
<1>2. pc'[t] = "flush_record" /\ \A u \in Threads \ {t} : pc'[u] = pc[u] /\ pc[u] \notin LockedSteps
  <2>1. \A u \in Threads \ {t} : pc[u] \notin LockedSteps
    BY <1>0, <1>1, LockAlone DEF LockedSteps
  <2> QED BY <1>1, <2>1 DEF Types, TypeOK
<1>3. Caught(OnDisk, state, LiveMemtables) /\ OnDisk' = OnDisk
  BY <1>0, <1>1, NothingOwed DEF LockedSteps, RecordSteps, OnDisk
<1>4. LiveMemtables' = LiveMemtables \ {id}
  <2> DEFINE r == RecordAt(pc'[t], new_id'[t], job'[t])
  <2>1. Caught(Applied(OnDisk', r), state', LiveMemtables')
    BY <1>2 DEF ManifestHolds, RecordSteps
  <2>2. r.type = "Flush" /\ r.id = id
    BY <1>1, <1>2 DEF RecordAt, Flush
  <2>3. Applied(OnDisk, r).memtables = OnDisk.memtables \ {id}
    BY <2>2 DEF Applied
  <2> QED BY <1>3, <2>1, <2>3 DEF Caught
<1>5. state.imm_memtables # <<>> /\ id = OldestImm /\ sst[id] = mem[id]
  BY <1>0, <1>1 DEF IInv, FlushHolds
<1>6. id \in LiveMemtables /\ id # state.memtable
  <2>1. Len(state.imm_memtables) \in DOMAIN state.imm_memtables
    BY <1>0, <1>5 DEF LsmStorageState
  <2> QED BY <1>0, <1>5, <2>1 DEF LiveMemtables, OldestImm, IInv, IdsApart
<1>7. \A i \in LiveMemtables' : id < i
  BY <1>0, <1>4, <1>5, OldestLeast
<1>8. EnableWal => Replayed(wal[id], k) = mem[id][k]
  BY <1>6 DEF WalIInv, WalMatchesMemtable, Replays
<1>9. /\ state'.memtable = state.memtable /\ state'.sstables = state.sstables \cup {id}
      /\ FlushToL0 => /\ state'.l0_sstables = <<id>> \o state.l0_sstables
                      /\ state'.levels = state.levels
      /\ ~FlushToL0 => /\ state'.l0_sstables = state.l0_sstables
                       /\ state'.levels = <<[id |-> id, ssts |-> <<id>>]>> \o state.levels
  BY <1>0, <1>1, StateFields DEF AddFlushed, Fields
<1>10. /\ \A i \in DOMAIN state.l0_sstables : state.l0_sstables[i] \in state.sstables
       /\ \A l \in DOMAIN state.levels : \A i \in DOMAIN state.levels[l].ssts :
            state.levels[l].ssts[i] \in state.sstables
       /\ ~FlushToL0 => state.l0_sstables = <<>>
  BY <1>0 DEF IInv, TablesOpen
<1>11. Here(k)' = OrElse(sst[id][k], Disk(k))
  <2> DEFINE st2 == state'
  <2>1. SstEntry(st2, sst, k) = OrElse(sst[id][k], SstEntry(state, sst, k))
    <3> HIDE DEF id, st2
    <3>1. /\ st2.sstables = state.sstables \cup {id}
          /\ FlushToL0 => /\ st2.l0_sstables = <<id>> \o state.l0_sstables
                          /\ st2.levels = state.levels
          /\ ~FlushToL0 => /\ state.l0_sstables = <<>> /\ st2.l0_sstables = <<>>
                           /\ st2.levels = <<[id |-> id, ssts |-> <<id>>]>> \o state.levels
      BY <1>9, <1>10 DEF st2
    <3> QED BY <1>0, <1>10, <3>1, FlushedFirst, Zenon
  <2>2. SstEntry(state, sst, k) = Here(k)
    BY <1>0, StateOpen, SstEntryOpen DEF Here, InLists
  <2>3. RefsOpen(state)'
    BY <1>0, StateOpen, PTL
  <2>4. SstEntry(state', sst, k) = Here(k)'
    <3> HIDE DEF st2
    <3>1. RefsOpen(st2)
      BY <2>3 DEF st2
    <3>2. SstEntry(st2, sst, k) = InLists(st2.l0_sstables, st2.levels, sst, k)
      BY <3>1, SstEntryOpen DEF InLists
    <3> QED BY <1>1, <3>2 DEF Here, st2
  <2>5. Here(k) = Disk(k)
    BY <1>3 DEF Here, Disk, Caught
  <2> QED BY <2>1, <2>2, <2>4, <2>5
<1>12. Disk(k)' = Disk(k)
  BY <1>1, <1>3 DEF Disk
<1>13. ASSUME NEW u \in Threads PROVE Owes(u, k)'
  <2>1. CASE u = t
    <3>1. /\ id \in OnDisk'.memtables /\ id \in state'.sstables /\ new_id'[t] = id
          /\ sst'[id] = mem'[id] /\ wal'[id] = wal[id] /\ mem'[id] = mem[id] /\ sst'[id] = sst[id]
      BY <1>1, <1>3, <1>5, <1>6, <1>9 DEF Caught
    <3> HIDE DEF id
    <3> QED BY <1>2, <1>7, <1>8, <1>11, <1>12, <2>1, <3>1 DEF Owes
  <2>2. CASE u # t
    BY <1>2, <2>2 DEF Owes, LockedSteps
  <2> QED BY <2>1, <2>2
<1>14. Stays(k)
  BY <1>0, PathStays
<1>15. state.memtable <= state'.memtable /\ LiveMemtables' \subseteq LiveMemtables
  BY <1>0, <1>4, <1>9
<1> QED BY <1>1, <1>13, <1>14, <1>15, SwapKept

(* What a compaction swaps in, readers cannot tell from what it replaced. *)
LEMMA ApplyEquivalent ==
  ASSUME Types, LsmIInv, NEW t \in Threads, CompactApply(t)
  PROVE  Equivalent(state, state', sst)
<1> DEFINE task == job[t].task  output == job[t].output
<1>0. IInv /\ StateHolds
  BY DEF LsmIInv
<1>1. pc[t] = "apply" /\ state' = Installed(state, sst, task, output)
  BY DEF CompactApply, Installed, Added
<1>2. /\ TaskFits(Ids, state, task) /\ OutputHolds(sst, state, task, output)
      /\ ToSet(output) \subseteq files \ {0} /\ \A id \in ToSet(output) : id \notin state.sstables
  BY <1>1 DEF LsmIInv, ThreadHolds, JobHolds, HeldApart, Held
<1>3. /\ output \in Seq(Ids) /\ state \in StateOver(Ids) /\ sst \in [Ids -> Table]
      /\ Ids \subseteq Nat /\ RefsOpen(state)
  BY <1>0, StateTypes, StateOpen DEF Types
<1>4. Ready(Ids, sst, state, task, output)
  <2>1. \A i \in DOMAIN output : output[i] \in ToSet(output)
    BY DEF ToSet
  <2> QED BY <1>0, <1>2, <1>3, <2>1 DEF Ready, StateHolds
<1> HIDE DEF task, output
<1>5. Exchanged(Ids, sst, state, state', output, FilesToRemove(Added(state, output), task))
  BY <1>1, <1>2, <1>3, <1>4, FitsExchanges
<1> QED BY <1>5 DEF Exchanged

(* A compaction: when recorded, it will have dropped tombstones at most. *)
LEMMA ApplyKept ==
  ASSUME Types, Types', LsmIInv, LsmIInv', ManifestHolds, NEW k \in Keys, Kept(k), Stays(k),
         NEW t \in Threads, CompactApply(t)
  PROVE  Kept(k)'
<1>0. IInv /\ IInv' /\ TypeOK /\ state.memtable \in Nat
  <2>1. IInv /\ IInv' /\ TypeOK
    BY DEF LsmIInv, Types
  <2> QED BY <2>1, StateTypes
<1>1. /\ pc[t] = "apply" /\ state_lock = NoThread /\ pc' = [pc EXCEPT ![t] = "compact_record"]
      /\ UNCHANGED <<sst, manifest>>
  BY DEF CompactApply, diskVars
<1>2. /\ pc'[t] = "compact_record"
      /\ \A u \in Threads \ {t} : pc'[u] = pc[u] /\ pc[u] \notin LockedSteps
  <2>1. \A u \in Threads \ {t} : pc[u] \notin LockedSteps
    BY <1>0, <1>1, LockAlone DEF LockedSteps
  <2> QED BY <1>1, <2>1 DEF Types, TypeOK
<1>3. Caught(OnDisk, state, LiveMemtables) /\ OnDisk' = OnDisk
  BY <1>0, <1>1, NothingOwed DEF LockedSteps, RecordSteps, OnDisk
<1>4. state'.memtable = state.memtable /\ LiveMemtables' = LiveMemtables
  BY ApplyKeepsMemtables DEF LiveMemtables
<1>5. Purged(Here(k)', Disk(k)')
  <2> DEFINE st2 == state'
  <2>1. Equivalent(state, st2, sst) /\ RefsOpen(state)
    BY <1>0, ApplyEquivalent, StateOpen
  <2> HIDE DEF st2
  <2>2. Purged(SstEntry(st2, sst, k), SstEntry(state, sst, k)) /\ RefsOpen(st2)
    BY <2>1 DEF Equivalent
  <2>3. /\ SstEntry(st2, sst, k) = InLists(st2.l0_sstables, st2.levels, sst, k)
        /\ SstEntry(state, sst, k) = InLists(state.l0_sstables, state.levels, sst, k)
    BY <2>1, <2>2, SstEntryOpen DEF InLists
  <2>4. Disk(k)' = InLists(state.l0_sstables, state.levels, sst, k)
    BY <1>1, <1>3 DEF Disk, Caught
  <2>5. Here(k)' = InLists(st2.l0_sstables, st2.levels, sst, k)
    BY <1>1 DEF Here, st2
  <2> QED BY <2>2, <2>3, <2>4, <2>5
<1>6. ASSUME NEW u \in Threads PROVE Owes(u, k)'
  <2>1. CASE u = t
    BY <1>2, <1>5, <2>1 DEF Owes
  <2>2. CASE u # t
    BY <1>2, <2>2 DEF Owes, LockedSteps
  <2> QED BY <2>1, <2>2
<1>7. state.memtable <= state'.memtable
  BY <1>0, <1>4
<1> QED BY <1>1, <1>4, <1>6, <1>7, SwapKept

-----------------------------------------------------------------------------
(* Records *)

(* Once a record is written open() finds the tables and the MemTables the  *)
(* process has, and nothing is owed.                                       *)
LEMMA RecordSettles ==
  ASSUME Types, LsmIInv, ManifestHolds, NEW k, NEW t \in Threads,
         ((FreezeRecord(t) \/ FlushRecord(t)) /\ UNCHANGED lsVars) \/ CompactRecord(t)
  PROVE  /\ UNCHANGED <<state, mem, sst, wal, synced, writes>>
         /\ \A c \in Clients : pc'[c] = "logged" => pc[c] = "logged" /\ op'[c] = op[c]
         /\ \A u \in Threads : Owes(u, k)'
         /\ OnDisk'.memtables = LiveMemtables /\ LiveMemtables' = LiveMemtables
         /\ Disk(k)' = Here(k)
<1> DEFINE r == RecordAt(pc[t], new_id[t], job[t])
<1>0. pc \in [Threads -> Steps] /\ op \in [Clients -> Write] /\ IInv /\ Clients \subseteq Threads
  BY DEF Types, TypeOK, LsmIInv, Threads
<1>1. /\ pc[t] \in RecordSteps /\ pc'[t] \in {"idle", "remove"}
      /\ \A u \in Threads \ {t} : pc'[u] = pc[u]
      /\ UNCHANGED <<state, mem, sst, wal, synced, writes>>
      /\ \A c \in Clients \ {t} : op'[c] = op[c]
  <2>1. CASE FreezeRecord(t) /\ UNCHANGED lsVars
    BY <1>0, <2>1 DEF FreezeRecord, stateVars, ghostVars, RecordSteps
  <2>2. CASE FlushRecord(t) /\ UNCHANGED lsVars
    BY <1>0, <2>2 DEF FlushRecord, stateVars, RecordSteps
  <2>3. CASE CompactRecord(t)
    BY <1>0, <2>3 DEF CompactRecord, stateVars, ghostVars, RecordSteps
  <2> QED BY <2>1, <2>2, <2>3
<1>2. \A u \in Threads \ {t} : pc[u] \notin LockedSteps
  BY <1>0, <1>1, LockAlone DEF LockedSteps, RecordSteps
<1>3. \A u \in Threads : Owes(u, k)'
  <2>1. \A u \in Threads : pc'[u] \notin {"flush_record", "compact_record"}
    BY <1>1, <1>2 DEF LockedSteps
  <2> QED BY <2>1 DEF Owes
<1>4. OnDisk' = Applied(OnDisk, r)
  BY RecordManifest
<1>5. Caught(Applied(OnDisk, r), state, LiveMemtables)
  BY <1>1 DEF ManifestHolds
<1>6. LiveMemtables' = LiveMemtables
  BY <1>1 DEF LiveMemtables
<1>7. Disk(k)' = Here(k)
  <2> HIDE DEF r
  <2>1. /\ OnDisk'.st.l0_sstables = state.l0_sstables /\ OnDisk'.st.levels = state.levels
        /\ sst' = sst
    BY <1>1, <1>4, <1>5 DEF Caught
  <2> QED BY <2>1 DEF Disk, Here
<1>8. \A c \in Clients : pc'[c] = "logged" => pc[c] = "logged" /\ op'[c] = op[c]
  BY <1>0, <1>1
<1> QED BY <1>1, <1>3, <1>4, <1>5, <1>6, <1>7, <1>8 DEF Caught

(* A freeze is recorded: open() reads one more WAL. *)
LEMMA FreezeRecordKept ==
  ASSUME Types, Types', LsmIInv, ManifestHolds, NEW k \in Keys, Kept(k), NEW c \in Clients,
         FreezeRecord(c), UNCHANGED lsVars
  PROVE  Kept(k)'
<1> DEFINE r == RecordAt(pc[c], new_id[c], job[c])
<1>0. /\ TypeOK /\ TypeOK' /\ Stamped(k) /\ Safe(k) /\ c \in Threads /\ IInv
      /\ \A t \in Threads : Owes(t, k)
  BY DEF Types, Kept, Threads, LsmIInv
<1>1. /\ OnDisk'.memtables = LiveMemtables /\ LiveMemtables' = LiveMemtables
      /\ \A u \in Threads : Owes(u, k)'
  BY <1>0, RecordSettles
<1>2. OnDisk' = Applied(OnDisk, r) /\ Shape(OnDisk)
  BY <1>0, RecordManifest DEF ManifestHolds
<1>3. /\ OnDisk'.st = OnDisk.st /\ OnDisk'.memtables = OnDisk.memtables \cup {new_id[c]}
  <2>1. r.type = "NewMemtable" /\ r.id = new_id[c]
    BY DEF RecordAt, NewMemtable, FreezeRecord
  <2> HIDE DEF r
  <2> QED BY <1>2, <2>1 DEF Applied, Shape
<1>4. Purged(Disk(k)', Disk(k)) /\ state' = state
  BY <1>3 DEF FreezeRecord, stateVars, Disk, Purged
<1>5. Stays(k)
  BY <1>0, PathStays DEF FreezeStep
<1>6. OnDisk.memtables \subseteq Ids /\ \A i \in OnDisk.memtables : i < next_sst_id
  BY <1>0, DiskMemtables
<1>7. LiveMemtables \subseteq Ids /\ state.memtable <= state'.memtable
  <2>1. state.memtable \in Nat
    BY <1>0, StateTypes
  <2> QED BY <1>0, <1>4, <2>1, LiveIds
<1>8. Safe(k)'
  BY <1>0, <1>1, <1>3, <1>4, <1>5, <1>6, <1>7, SafeKept
<1> QED BY <1>0, <1>1, <1>5, <1>7, <1>8, StaysStamped DEF Kept

(* A compaction is recorded: open() finds its tables, which differ from    *)
(* those they replaced in tombstones at most.                              *)
LEMMA CompactRecordKept ==
  ASSUME Types, Types', LsmIInv, ManifestHolds, NEW k \in Keys, Kept(k), Stays(k),
         NEW t \in Threads, CompactRecord(t)
  PROVE  Kept(k)'
<1> DEFINE r == RecordAt(pc[t], new_id[t], job[t])
<1>0. /\ TypeOK /\ TypeOK' /\ Stamped(k) /\ Safe(k) /\ Owes(t, k)
      /\ \A u \in Threads : Owes(u, k)
  BY DEF Types, Kept
<1>1. /\ OnDisk'.memtables = LiveMemtables /\ LiveMemtables' = LiveMemtables
      /\ Disk(k)' = Here(k) /\ \A u \in Threads : Owes(u, k)'
  BY RecordSettles
<1>2. pc[t] = "compact_record" /\ state' = state
  BY DEF CompactRecord, stateVars
<1>3. Purged(Disk(k)', Disk(k))
  BY <1>0, <1>1, <1>2 DEF Owes
<1>4. OnDisk'.memtables = OnDisk.memtables
  <2>1. OnDisk' = Applied(OnDisk, r) /\ Shape(OnDisk)
    BY RecordManifest DEF ManifestHolds
  <2>2. r.type = "Compaction"
    BY <1>2 DEF RecordAt, Compaction
  <2> HIDE DEF r
  <2> QED BY <2>1, <2>2 DEF Applied, Shape
<1>5. OnDisk.memtables \subseteq Ids /\ \A i \in OnDisk.memtables : i < next_sst_id
  BY <1>0, DiskMemtables
<1>6. LiveMemtables \subseteq Ids /\ state.memtable <= state'.memtable
  <2>1. state.memtable \in Nat
    BY <1>0, StateTypes
  <2> QED BY <1>0, <1>2, <2>1, LiveIds
<1>7. Safe(k)'
  BY <1>0, <1>1, <1>3, <1>4, <1>5, <1>6, SafeKept
<1> QED BY <1>0, <1>1, <1>6, <1>7, StaysStamped DEF Kept

(* A flush is recorded: what its table has is durable now. *)
LEMMA FlushRecordKept ==
  ASSUME Types, Types', LsmIInv, ManifestHolds, NEW k \in Keys, Kept(k), NEW t \in Threads,
         FlushRecord(t), UNCHANGED lsVars
  PROVE  Kept(k)'
<1> DEFINE id == new_id[t]
           e == sst[id][k]
           d == durable[k]
<1>0. /\ TypeOK /\ TypeOK' /\ Stamped(k) /\ Safe(k) /\ Owes(t, k)
      /\ \A u \in Threads : Owes(u, k)
  BY DEF Types, Kept
<1>1. /\ UNCHANGED <<state, mem, sst, wal, synced, writes>>
      /\ \A c \in Clients : pc'[c] = "logged" => pc[c] = "logged" /\ op'[c] = op[c]
      /\ OnDisk'.memtables = LiveMemtables /\ LiveMemtables' = LiveMemtables
      /\ Disk(k)' = Here(k) /\ \A u \in Threads : Owes(u, k)'
  BY RecordSettles
<1>2. pc[t] = "flush_record" /\ durable'[k] = LaterOf(d, e)
  BY DEF FlushRecord
<1>3. /\ id \in OnDisk.memtables /\ \A i \in LiveMemtables : id < i
      /\ mem[id][k] = e /\ (EnableWal => Replayed(wal[id], k) = e)
      /\ Here(k) = OrElse(e, Disk(k))
  BY <1>0, <1>2 DEF Owes
<1>4. /\ id \in Ids /\ e \in Int /\ d \in Int /\ wal[id] \in Seq(Frame) /\ writes \in Nat
      /\ synced \in [Ids -> Nat]
  <2>1. id \in Ids /\ sst \in [Ids -> Table] /\ wal[id] \in Seq(Frame)
    BY <1>0 DEF TypeOK
  <2>2. e \in Int
    BY <2>1 DEF Table
  <2> QED BY <1>0, <2>1, <2>2 DEF TypeOK
<1>5. OnDisk.memtables \subseteq Ids /\ LiveMemtables \subseteq Ids
  BY <1>0, DiskMemtables, LiveIds
<1>6. /\ Stamp(e) \in Nat /\ (Stamp(e) = 0 <=> e = Absent)
      /\ Stamp(d) \in Nat /\ (Stamp(d) = 0 <=> d = Absent)
  BY <1>4, StampNat
<1>7. OnDisk.memtables \ {id} \subseteq LiveMemtables
  <2> DEFINE r == RecordAt(pc[t], new_id[t], job[t])
  <2>1. OnDisk' = Applied(OnDisk, r)
    BY RecordManifest
  <2>2. r.type = "Flush" /\ r.id = id
    BY <1>2 DEF RecordAt, Flush
  <2> HIDE DEF r, id
  <2>3. OnDisk'.memtables = OnDisk.memtables \ {id}
    BY <2>1, <2>2 DEF Applied
  <2> QED BY <1>1, <2>3
<1>8. \A i \in Ids : \A f : Entered(i, k, f)' => Entered(i, k, f)
  BY <1>1, PlainUnwritten
<1> HIDE DEF id, e, d
<1>9. e # Absent => /\ Entered(id, k, e) /\ Stamp(e) <= writes
                    /\ \A i \in LiveMemtables : \A f : Entered(i, k, f) => Stamp(e) < Stamp(f)
  <2>1. e # Absent => Entered(id, k, e)
    BY <1>3 DEF Entered
  <2>2. \A i \in LiveMemtables : i \in Ids /\ id < i
    BY <1>3, <1>5
  <2> QED BY <1>0, <1>4, <2>1, <2>2 DEF Stamped
<1>10. /\ durable'[k] = d \/ (durable'[k] = e /\ e # Absent)
       /\ Stamp(durable'[k]) <= writes
  <2>1. CASE e = Absent
    <3>1. durable'[k] = d
      BY <1>2, <1>6, <2>1 DEF LaterOf
    <3> QED BY <1>0, <3>1 DEF Stamped, d
  <2>2. CASE e # Absent
    <3>1. Stamp(d) <= writes
      BY <1>0 DEF Stamped, d
    <3> QED BY <1>2, <1>9, <2>2, <3>1 DEF LaterOf
  <2> QED BY <2>1, <2>2
<1>11. Stamped(k)'
  <2>1. Unwritten(k)
    BY <1>0, <1>1, <1>8 DEF Unwritten, Stamped
  <2>2. state.memtable <= state'.memtable
    BY <1>0, <1>1, StateTypes
  <2> QED BY <1>0, <1>10, <2>1, <2>2, StampedKept
<1>12. ASSUME e # Absent, durable'[k] = e PROVE Stored(k)'
  <2>1. Disk(k)' = e
    BY <1>1, <1>3, <1>12 DEF OrElse
  <2>2. ASSUME NEW i \in OnDisk'.memtables \cup LiveMemtables', NEW f, Entered(i, k, f)'
        PROVE  Stamp(durable'[k]) < Stamp(f)
    <3>1. i \in LiveMemtables /\ i \in Ids
      BY <1>1, <1>5
    <3>2. Entered(i, k, f)
      BY <1>8, <2>2, <3>1
    <3> QED BY <1>9, <1>12, <3>1, <3>2
  <2> QED BY <1>12, <2>1, <2>2 DEF Stored, Purged
<1>13. CASE Stored(k)
  <2>1. CASE e = Absent
    <3>1. durable'[k] = d /\ Disk(k)' = Disk(k)
      BY <1>1, <1>3, <1>10, <2>1 DEF OrElse
    <3>2. Purged(Disk(k)', durable'[k])
      BY <1>13, <3>1 DEF Stored, d
    <3>3. ASSUME NEW i \in OnDisk'.memtables \cup LiveMemtables', NEW f, Entered(i, k, f)'
          PROVE  Stamp(durable'[k]) < Stamp(f)
      <4>1. i \in LiveMemtables /\ i \in Ids
        BY <1>1, <1>5
      <4>2. Entered(i, k, f)
        BY <1>8, <3>3, <4>1
      <4> QED BY <1>13, <3>1, <4>1, <4>2 DEF Stored, d
    <3> QED BY <1>1, <1>11, <3>2, <3>3 DEF Kept, Safe, Stored
  <2>2. CASE e # Absent
    <3>1. Stamp(d) < Stamp(e)
      BY <1>3, <1>9, <1>13, <2>2 DEF Stored, d
    <3>2. durable'[k] = e
      BY <1>2, <1>6, <3>1 DEF LaterOf
    <3> QED BY <1>1, <1>11, <1>12, <2>2, <3>2 DEF Kept, Safe
  <2> QED BY <2>1, <2>2
<1>14. CASE Logged(k)
  <2>0. PICK i \in OnDisk.memtables : \E p \in 1 .. synced[i] :
          wal[i][p].key = k /\ (wal[i][p].ent = d \/ Stamp(d) < Stamp(wal[i][p].ent))
    BY <1>14 DEF Logged, d
  <2>1. PICK p \in 1 .. synced[i] :
          wal[i][p].key = k /\ (wal[i][p].ent = d \/ Stamp(d) < Stamp(wal[i][p].ent))
    BY <2>0
  <2> DEFINE x == wal[i][p].ent
  <2>2. i \in Ids /\ wal[i] \in Seq(Frame) /\ p \in DOMAIN wal[i]
    <3>1. /\ i \in Ids /\ synced[i] \in Nat /\ synced[i] <= Len(wal[i]) /\ wal[i] \in Seq(Frame)
      BY <1>0, <1>4, <1>5 DEF Stamped, TypeOK
    <3> QED BY <2>1, <3>1
  <2>3. Entered(i, k, x)
    BY <2>1, <2>2 DEF Entered
  <2>4. x \in Int /\ 0 < Stamp(x) /\ Stamp(x) \in Nat
    <3>1. x \in Int /\ 0 < Stamp(x)
      BY <1>0, <2>2, <2>3 DEF Stamped
    <3> QED BY <3>1, StampNat
  <2>5. CASE i # id
    <3>1. i \in OnDisk'.memtables
      BY <1>1, <1>7, <2>5
    <3>2. x = durable'[k] \/ Stamp(durable'[k]) < Stamp(x)
      <4>1. e # Absent => Stamp(e) < Stamp(x)
        BY <1>7, <1>9, <2>3, <2>5
      <4> QED BY <1>10, <2>1, <4>1
    <3>3. Logged(k)'
      BY <1>1, <1>14, <2>1, <3>1, <3>2 DEF Logged
    <3> QED BY <1>1, <1>11, <3>3 DEF Kept, Safe
  <2>6. CASE i = id
    <3>1. Replayed(wal[id], k) = e
      BY <1>3, <1>14 DEF Logged
    <3>2. PICK q \in DOMAIN wal[id] : /\ wal[id][q].key = k /\ wal[id][q].ent = e
                                      /\ \A j \in DOMAIN wal[id] : wal[id][j].key = k => j <= q
      BY <1>4, <2>1, <2>2, <2>6, <3>1, ReplayedFrame
    <3>3. x = e \/ Stamp(x) < Stamp(e)
      <4>1. p <= q /\ p \in Nat /\ q \in Nat
        BY <2>1, <2>2, <2>6, <3>2
      <4>2. p = q \/ p < q
        BY <4>1
      <4>3. FramesRise(wal[id], k)
        BY <1>0, <1>4 DEF Stamped
      <4> QED BY <2>1, <2>2, <2>6, <3>2, <4>2, <4>3 DEF FramesRise
    <3>4. Stamp(d) <= Stamp(e) /\ 0 < Stamp(e)
      <4> HIDE DEF x
      <4>1. x = d \/ Stamp(d) < Stamp(x)
        BY <2>1 DEF x
      <4> QED BY <1>6, <2>4, <3>3, <4>1
    <3>5. durable'[k] = e /\ e # Absent
      BY <1>2, <1>6, <3>4 DEF LaterOf
    <3> QED BY <1>1, <1>11, <1>12, <3>5 DEF Kept, Safe
  <2> QED BY <2>5, <2>6
<1> QED BY <1>0, <1>13, <1>14 DEF Safe

-----------------------------------------------------------------------------
(* Every step *)

(* sync() is not called between the swap of a freeze and its record: open() *)
(* would not know of the MemTable whose WAL it syncs.                      *)
SyncsRecorded ==
  (\E c \in Clients : Sync(c)) => \A t \in Threads : pc[t] # "freeze_record"

(* Without enable_wal no MemTable has a WAL. *)
NoWals == EnableWal \/ wal_open = {}

(* Threads that are aside owe nothing new. *)
LEMMA AsideOwes ==
  ASSUME NEW t \in Threads, Aside(t)
  PROVE  /\ UNCHANGED <<state, manifest>>
         /\ \A u \in Threads : pc'[u] \in RecordSteps => pc'[u] = pc[u] /\ new_id'[u] = new_id[u]
BY DEF Aside

(* A step of the write path. *)
LEMMA NextKept ==
  ASSUME Types, Types', LsmIInv, LsmIInv', ManifestHolds, ManifestHolds', Ordered, WalIInv, NoWals,
         life # "down", life' # "down", NEW k \in Keys, EnableWal => OneWriter(k), Kept(k),
         SyncsRecorded, Next, UNCHANGED lsVars
  PROVE  Kept(k)'
<1>0. IInv /\ Stamped(k)
  BY DEF LsmIInv, Kept
<1>1. ASSUME NEW t \in Threads, FlushStep(t) PROVE Kept(k)'
  <2>1. CASE FlushBegin(t)
    <3>1. Stays(k) /\ Steady
      BY <1>0, <2>1, PathStays, PathSteady
    <3>2. Aside(t)
      BY <2>1, FlushAside
    <3> QED BY <3>1, <3>2, AsideOwes, KeptAside
  <2>2. CASE FlushEmpty(t)
    BY <2>2 DEF FlushEmpty
  <2>3. CASE FlushSwap(t)
    BY <2>3, FlushSwapKept
  <2>4. CASE FlushRecord(t)
    BY <2>4, FlushRecordKept
  <2> QED BY <1>1, <2>1, <2>2, <2>3, <2>4 DEF FlushStep
<1>2. ASSUME NEW c \in Clients, ClientStep(c) PROVE Kept(k)'
  <2>0. c \in Threads
    BY DEF Threads
  <2>1. CASE Put(c)
    BY <2>1, PutKept
  <2>2. CASE PutInsert(c) \/ PutCheck(c) \/ ForceFreeze(c) \/ FreezeBegin(c) \/ ForceFlush(c)
    <3>1. Stays(k)
      BY <1>0, <2>0, <2>2, PathStays DEF FreezeStep
    <3>2. Steady
      BY <2>0, <2>2, PathSteady DEF FreezeStep
    <3>3. Aside(c)
      BY <2>2, ClientAside
    <3> QED BY <2>0, <3>1, <3>2, <3>3, AsideOwes, KeptAside
  <2>3. CASE FreezeSwap(c)
    BY <2>3, FreezeSwapKept
  <2>4. CASE FreezeRecord(c)
    BY <2>4, FreezeRecordKept
  <2>5. CASE FlushStep(c)
    BY <1>1, <2>0, <2>5
  <2>6. CASE Sync(c)
    <3>1. EnableWal
      BY <2>6 DEF NoWals, Sync
    <3>2. \A t \in Threads : pc[t] # "freeze_record"
      BY <2>6 DEF SyncsRecorded
    <3>3. SyncActive /\ UNCHANGED <<state, mem, sst, wal, manifest, writes, pc, op, new_id>>
      BY <2>6 DEF Sync, stateVars, threadVars
    <3> QED BY <3>1, <3>2, <3>3, SyncKept
  <2> QED BY <1>2, <2>1, <2>2, <2>3, <2>4, <2>5, <2>6 DEF ClientStep, FreezeStep
<1>3. CASE FlushThreadStep
  <2>0. FlushThread \in Threads
    BY DEF Threads
  <2>1. CASE TriggerFlush
    <3>1. Stays(k) /\ Steady
      BY <1>0, <2>0, <2>1, PathStays, PathSteady
    <3>2. Aside(FlushThread)
      BY <2>0, <2>1, FlushAside
    <3> QED BY <2>0, <3>1, <3>2, AsideOwes, KeptAside
  <2>2. CASE FlushStep(FlushThread)
    BY <1>1, <2>0, <2>2
  <2> QED BY <1>3, <2>1, <2>2 DEF FlushThreadStep
<1> QED BY <1>2, <1>3 DEF Next

(* close() may end with a sync(). *)
Resting ==
  CloseBegin \/ (CloseDone /\ UNCHANGED <<synced, durable>>) \/ Destroy \/ UNCHANGED vars

(* Compactions, flushes that fail, close() but for its sync() and the      *)
(* destructors write no entry.                                             *)
LEMMA OtherStays ==
  ASSUME Types, LsmIInv, NEW k \in Keys, Stamped(k),
         \/ Resting
         \/ \E t \in Threads :
              \/ BeginCompaction(t) \/ CompactStep(t) \/ CompactFails(t) \/ FlushFails(t)
              \/ CloseFreeze(t) \/ CloseFlush(t)
  PROVE  Stays(k)
<1>0. TypeOK
  BY DEF Types
<1>1. ASSUME NEW t \in Threads,
             \/ BeginCompaction(t) \/ CompactStep(t) \/ CompactFails(t) \/ FlushFails(t)
             \/ CloseFreeze(t) \/ CloseFlush(t)
      PROVE  Stays(k)
  <2>1. OffMemtables
    BY <1>1, CompactionOff
  <2>2. UNCHANGED <<writes, durable, synced>>
    <3> USE DEF diskVars, ghostVars
    <3>1. CASE BeginCompaction(t)
      BY <3>1 DEF BeginCompaction
    <3>2. CASE CompactStep(t)
      BY <3>2 DEF CompactStep, Compact, CompactApply, CompactRecord, CompactRemove
    <3>3. CASE CompactFails(t)
      BY <3>3 DEF CompactFails
    <3>4. CASE FlushFails(t)
      BY <3>4 DEF FlushFails
    <3>5. CASE CloseFreeze(t)
      BY <3>5 DEF CloseFreeze
    <3>6. CASE CloseFlush(t)
      BY <3>6 DEF CloseFlush
    <3> QED BY <1>1, <3>1, <3>2, <3>3, <3>4, <3>5, <3>6
  <2> QED BY <1>0, <2>1, <2>2, OffStays
<1>2. CASE CloseBegin
  <2>1. OffMemtables /\ UNCHANGED <<writes, durable, synced>>
    BY <1>2, CloseDoneOff DEF CloseBegin, diskVars, ghostVars
  <2> QED BY <1>0, <2>1, OffStays
<1>3. CASE (CloseDone /\ UNCHANGED <<synced, durable>>) \/ Destroy
  <2>1. /\ OffMemtables /\ UNCHANGED <<writes, durable>>
        /\ \A i \in Ids : synced'[i] = synced[i] \/ synced'[i] = Len(wal[i])
    BY <1>3, CloseDoneOff DEF CloseDone, Destroy, ghostVars
  <2> QED BY <1>0, <2>1, OffStays
<1>4. CASE UNCHANGED vars
  <2>1. OffMemtables /\ UNCHANGED <<writes, durable, synced>>
    BY <1>4 DEF OffMemtables, vars, wpVars, stateVars, diskVars, threadVars, ghostVars
  <2> QED BY <1>0, <2>1, OffStays
<1> QED BY <1>1, <1>2, <1>3, <1>4 DEF Resting

(* They keep what is durable. *)
LEMMA OtherKept ==
  ASSUME Types, Types', LsmIInv, LsmIInv', ManifestHolds, OneCompaction, NEW k \in Keys, Kept(k),
         \/ Resting
         \/ \E t \in Threads :
              \/ BeginCompaction(t) \/ CompactStep(t) \/ CompactFails(t) \/ FlushFails(t)
              \/ CloseFreeze(t) \/ CloseFlush(t)
  PROVE  Kept(k)'
<1>0. Stamped(k) /\ Stays(k)
  BY OtherStays DEF Kept
<1>1. CASE Resting
  <2>1. UNCHANGED <<state, manifest, sst, mem, wal, pc, new_id>>
    BY <1>1 DEF Resting, CloseBegin, CloseDone, Destroy, vars, wpVars, stateVars, diskVars, threadVars
  <2>2. Steady
    BY <2>1 DEF Steady
  <2> QED BY <1>0, <2>1, <2>2, KeptAside
<1>2. ASSUME NEW t \in Threads,
             \/ BeginCompaction(t) \/ CompactStep(t) \/ CompactFails(t) \/ FlushFails(t)
             \/ CloseFreeze(t) \/ CloseFlush(t)
      PROVE  Kept(k)'
  <2>1. CASE BeginCompaction(t) \/ Compact(t) \/ CompactFails(t) \/ CloseFreeze(t) \/ CloseFlush(t)
    <3>1. Steady
      BY <2>1, CompactionSteady DEF CompactStep
    <3>2. Aside(t)
      BY <2>1, CompactAside
    <3> QED BY <1>0, <3>1, <3>2, AsideOwes, KeptAside
  <2>2. CASE FlushFails(t)
    BY <1>0, <2>2, PathSteady, FlushAside, AsideOwes, KeptAside
  <2>3. CASE CompactApply(t)
    BY <1>0, <2>3, ApplyKept
  <2>4. CASE CompactRecord(t)
    BY <1>0, <2>4, CompactRecordKept
  <2>5. CASE CompactRemove(t)
    <3>1. Steady
      BY <2>5, CompactionSteady DEF CompactStep
    <3>2. /\ UNCHANGED <<state, manifest>>
          /\ \A u \in Threads : pc'[u] \in RecordSteps => pc'[u] = pc[u] /\ new_id'[u] = new_id[u]
      BY <2>5 DEF CompactRemove, stateVars, RecordSteps, Types, TypeOK
    <3> QED BY <1>0, <3>1, <3>2, KeptAside
  <2> QED BY <1>2, <2>1, <2>2, <2>3, <2>4, <2>5 DEF CompactStep
<1> QED BY <1>1, <1>2

(* So every step that the process survives does. *)
LEMMA LsmNextKept ==
  ASSUME Types, Types', LsmIInv, LsmIInv', ManifestHolds, ManifestHolds', Ordered, WalIInv, NoWals,
         OneCompaction, life # "down", life' # "down", NEW k \in Keys, EnableWal => OneWriter(k),
         Kept(k), [LsmNext]_vars, [SyncsRecorded]_vars, ~\E cut \in Cuts : Open(cut), opens = 1
  PROVE  Kept(k)'
<1>1. CASE UNCHANGED vars
  BY <1>1, OtherKept DEF Resting
<1>2. ASSUME Next, UNCHANGED lsVars, SyncsRecorded PROVE Kept(k)'
  BY <1>2, NextKept
<1>3. ASSUME NEW t \in Clients \cup {CompactionThread}, BeginCompaction(t) PROVE Kept(k)'
  <2>1. t \in Threads
    BY DEF Threads
  <2> QED BY <1>3, <2>1, OtherKept
<1>4. ASSUME NEW t \in Threads, CompactStep(t) \/ CompactFails(t) \/ FlushFails(t) PROVE Kept(k)'
  BY <1>4, OtherKept
<1>5. ASSUME NEW c \in Clients, CloseFreeze(c) \/ CloseFlush(c) PROVE Kept(k)'
  <2>1. c \in Threads
    BY DEF Threads
  <2> QED BY <1>5, <2>1, OtherKept
<1>6. ASSUME CloseBegin \/ CloseDone \/ Destroy PROVE Kept(k)'
  <2>1. CASE Resting
    BY <2>1, OtherKept
  <2>2. CASE ~Resting
    <3>1. CloseDone /\ SyncActive /\ EnableWal
      BY <1>6, <2>2 DEF Resting, CloseDone
    <3>2. /\ UNCHANGED <<state, mem, sst, wal, manifest, writes, pc, op, new_id>>
          /\ \A t \in Threads : pc[t] # "freeze_record"
      BY <3>1 DEF CloseDone, Joined, threadVars
    <3> QED BY <3>1, <3>2, SyncKept
  <2> QED BY <2>1, <2>2
<1>7. ~Crash
  BY DEF Crash
<1>8. CASE LsmNext /\ SyncsRecorded
  BY <1>2, <1>3, <1>4, <1>5, <1>6, <1>7, <1>8, FirstDestroys DEF LsmNext
<1> QED BY <1>1, <1>8

-----------------------------------------------------------------------------
(* The theorem *)

(* A new database has nothing that could be lost. *)
LEMMA InitKept == ASSUME LsmInit, NEW k \in Keys PROVE Kept(k)
<1>0. /\ state = CreateState /\ pc = [t \in Threads |-> "idle"] /\ writes = 0
      /\ durable[k] = Absent /\ opens = 1 /\ life = "up"
  BY DEF LsmInit, Init
<1>1. ManifestHolds /\ Stamped(k) /\ Types /\ TypeOK
  BY <1>0, InitRecoverable, InitHolds, InitStamped DEF Recoverable, FirstLife, Types
<1>2. Caught(OnDisk, state, LiveMemtables) /\ OnDisk.memtables \subseteq Ids
  BY <1>0, <1>1 DEF ManifestHolds, RecordSteps, Shape
<1>3. \A t \in Threads : Owes(t, k)
  BY <1>0 DEF Owes
<1>4. Here(k) = Absent
  <2>1. state.l0_sstables = <<>> /\ \A l \in DOMAIN state.levels : state.levels[l].ssts = <<>>
    <3>1. CASE CompactionOptions.type \in {"Leveled", "Simple"}
      BY <1>0, <3>1 DEF CreateState, CreateLevels
    <3>2. CASE CompactionOptions.type \in {"Tiered", "NoCompaction"}
      BY <1>0, <3>2 DEF CreateState, CreateLevels
    <3> QED BY <3>1, <3>2, OptionsAssumption
  <2>2. FirstHit(Contents(sst, state.l0_sstables), k) = Absent
    <3>1. DOMAIN Contents(sst, state.l0_sstables) = {}
      BY <2>1 DEF Contents
    <3> QED BY <3>1, FirstHitNone
  <2>3. ASSUME NEW l \in DOMAIN state.levels PROVE Runs(sst, state.levels)[l][k] = Absent
    <3>1. DOMAIN Contents(sst, state.levels[l].ssts) = {}
      BY <2>1 DEF Contents
    <3>2. Concat(Contents(sst, state.levels[l].ssts))[k] = Absent
      BY <3>1 DEF Concat, LastHit
    <3> QED BY <3>2 DEF Runs
  <2>4. FirstHit(Runs(sst, state.levels), k) = Absent
    <3>1. DOMAIN Runs(sst, state.levels) = DOMAIN state.levels
      BY DEF Runs
    <3> QED BY <2>3, <3>1, FirstHitNone
  <2> QED BY <2>2, <2>4 DEF Here, InLists, OrElse
<1>5. Disk(k) = Absent
  BY <1>2, <1>4 DEF Disk, Here, Caught
<1>6. \A i \in Ids : \A e : ~Entered(i, k, e)
  <2> SUFFICES ASSUME NEW i \in Ids, NEW e, Entered(i, k, e) PROVE FALSE
    OBVIOUS
  <2>1. e \in Int /\ 0 < Stamp(e) /\ Stamp(e) <= 0
    BY <1>0, <1>1 DEF Stamped
  <2>2. Stamp(e) \in Nat
    BY <2>1, StampNat
  <2> QED BY ONLY <2>1, <2>2
<1>7. LiveMemtables \subseteq Ids
  BY <1>1, LiveIds
<1>8. Stored(k)
  BY <1>0, <1>2, <1>5, <1>6, <1>7 DEF Stored, Purged
<1> QED BY <1>1, <1>3, <1>8 DEF Kept, Safe

(* What open() finds if nothing but what is certainly on disk is there. *)
FindsSynced ==
  \A k \in Keys :
    TopIs(OnDisk.memtables, Rebuilt(synced), k, Disk(k), RecoveredEntry(synced, k))

(* It is in the WALs, or else in the tables of the manifest. *)
LEMMA SyncedTop == ASSUME Readable(manifest.file), Shape(OnDisk) PROVE FindsSynced
BY RecoveredTop DEF FindsSynced, Disk

(* The entry that a WAL on disk gives back was written, and it is newer    *)
(* than all other frames of its key.                                       *)
LEMMA RebuiltEntered ==
  ASSUME TypeOK, NEW k \in Keys, Stamped(k), NEW i \in Ids
  PROVE  /\ Rebuilt(synced)[i][k] # Absent => Entered(i, k, Rebuilt(synced)[i][k])
         /\ \A p \in 1 .. synced[i] : EnableWal /\ wal[i][p].key = k =>
              LET z == Rebuilt(synced)[i][k]
              IN  z # Absent /\ (wal[i][p].ent = z \/ Stamp(wal[i][p].ent) < Stamp(z))
<1> DEFINE n == synced[i]
           fs == SubSeq(wal[i], 1, n)
           z == Rebuilt(synced)[i][k]
<1>1. wal[i] \in Seq(Frame) /\ n \in Nat /\ n <= Len(wal[i]) /\ FramesRise(wal[i], k)
  BY DEF TypeOK, Stamped
<1>2. /\ fs \in Seq(Frame) /\ DOMAIN fs = 1 .. n /\ 1 .. n \subseteq DOMAIN wal[i]
      /\ \A p \in 1 .. n : fs[p] = wal[i][p]
  <2> HIDE DEF n
  <2> QED BY <1>1
<1>3. z = IF EnableWal THEN Replayed(fs, k) ELSE Absent
  BY DEF Rebuilt, RecoverFromWal, EmptyTable
<1> HIDE DEF n, fs, z
<1>4. ASSUME z # Absent PROVE Entered(i, k, z)
  <2>1. PICK p \in DOMAIN fs : fs[p].key = k /\ fs[p].ent = z
    BY <1>2, <1>3, <1>4, ReplayedFrame
  <2>2. p \in DOMAIN wal[i] /\ wal[i][p].key = k /\ wal[i][p].ent = z
    BY <1>2, <2>1
  <2> QED BY <2>2 DEF Entered
<1>5. ASSUME EnableWal, NEW p \in 1 .. n, wal[i][p].key = k
      PROVE  z # Absent /\ (wal[i][p].ent = z \/ Stamp(wal[i][p].ent) < Stamp(z))
  <2>1. p \in DOMAIN fs /\ fs[p].key = k
    BY <1>2, <1>5
  <2>2. PICK q \in DOMAIN fs : /\ fs[q].key = k /\ fs[q].ent = z
                               /\ \A j \in DOMAIN fs : fs[j].key = k => j <= q
    <3>1. z = Replayed(fs, k)
      BY ONLY <1>3, <1>5
    <3> QED BY ONLY <1>2, <2>1, <3>1, ReplayedFrame
  <2>3. q \in DOMAIN wal[i] /\ p \in DOMAIN wal[i] /\ wal[i][q].key = k /\ wal[i][q].ent = z
    BY <1>2, <2>1, <2>2
  <2>4. p = q \/ p < q
    <3>1. p <= q /\ p \in Nat /\ q \in Nat
      BY <1>1, <1>2, <2>1, <2>2
    <3> QED BY <3>1
  <2>5. wal[i][p].ent = z \/ Stamp(wal[i][p].ent) < Stamp(z)
    BY <1>1, <1>5, <2>3, <2>4 DEF FramesRise
  <2>6. z # Absent
    <3>1. Entered(i, k, z)
      BY <2>3 DEF Entered
    <3>2. z \in Int /\ 0 < Stamp(z)
      BY <3>1 DEF Stamped
    <3> QED BY <3>2 DEF Stamp, Absent
  <2> QED BY <2>5, <2>6
<1> QED BY <1>4, <1>5 DEF n, z

(* If the process died now, open() would find what is durable. *)
LEMMA SafeSurvives ==
  ASSUME TypeOK, Readable(manifest.file), Shape(OnDisk), NEW k \in Keys, Stamped(k), Safe(k)
  PROVE  NotOlder(RecoveredEntry(synced, k), durable[k])
<1> DEFINE T == OnDisk.memtables
           found == RecoveredEntry(synced, k)
           d == durable[k]
           z(i) == Rebuilt(synced)[i][k]
<1>1. TopIs(T, Rebuilt(synced), k, Disk(k), found)
  BY SyncedTop DEF FindsSynced
<1>2. T \subseteq Ids /\ Ids \subseteq Nat /\ d \in Int /\ Stamp(d) \in Nat
  BY StateTypes, StampNat DEF Shape, TypeOK
<1>3. \A i \in T : z(i) # Absent => Entered(i, k, z(i)) /\ Stamp(z(i)) \in Nat
  <2> SUFFICES ASSUME NEW i \in T, z(i) # Absent
               PROVE  Entered(i, k, z(i)) /\ Stamp(z(i)) \in Nat
    OBVIOUS
  <2>1. Entered(i, k, z(i))
    BY <1>2, RebuiltEntered
  <2>2. z(i) \in Int
    BY <1>2, <2>1 DEF Stamped
  <2> QED BY <2>1, <2>2, StampNat
<1>4. Logged(k) => \E i \in T : z(i) # Absent /\ Stamp(d) <= Stamp(z(i))
  <2> SUFFICES ASSUME Logged(k) PROVE \E i \in T : z(i) # Absent /\ Stamp(d) <= Stamp(z(i))
    OBVIOUS
  <2>0. PICK i \in OnDisk.memtables : \E p \in 1 .. synced[i] :
          wal[i][p].key = k /\ (wal[i][p].ent = d \/ Stamp(d) < Stamp(wal[i][p].ent))
    BY DEF Logged
  <2>1. PICK p \in 1 .. synced[i] :
          wal[i][p].key = k /\ (wal[i][p].ent = d \/ Stamp(d) < Stamp(wal[i][p].ent))
    BY <2>0
  <2> DEFINE y == wal[i][p].ent
  <2>2. z(i) # Absent /\ (y = z(i) \/ Stamp(y) < Stamp(z(i)))
    BY <1>2, <2>1, RebuiltEntered DEF Logged
  <2>3. Stamp(y) \in Nat
    <3>1. wal[i] \in Seq(Frame) /\ synced[i] \in Nat /\ synced[i] <= Len(wal[i])
      BY <1>2 DEF TypeOK, Stamped
    <3>2. p \in DOMAIN wal[i]
      BY <3>1
    <3>3. wal[i][p] \in Frame
      BY <3>1, <3>2
    <3>4. y \in Int
      BY <3>3 DEF Frame
    <3> QED BY <3>4, StampNat
  <2>4. Stamp(z(i)) \in Nat
    BY <1>3, <2>2
  <2>5. y = d \/ Stamp(d) < Stamp(y)
    BY <2>1
  <2> HIDE DEF y, z, d
  <2>6. Stamp(d) <= Stamp(z(i))
    BY <1>2, <2>2, <2>3, <2>4, <2>5
  <2> QED BY <2>2, <2>6
<1>5. Stored(k) => /\ Purged(Disk(k), d)
                   /\ \A i \in T : \A e : Entered(i, k, e) => Stamp(d) < Stamp(e)
  BY DEF Stored
<1>6. \A i, j \in T : \A e, f : i < j /\ Entered(i, k, e) /\ Entered(j, k, f) => Stamp(e) < Stamp(f)
  BY <1>2 DEF Stamped
<1>7. ASSUME \A j \in T : z(j) = Absent, found = Disk(k)
      PROVE  NotOlder(found, d)
  <2>1. Stored(k)
    BY <1>4, <1>7 DEF Safe
  <2> QED BY <1>2, <1>5, <1>7, <2>1 DEF Purged, NotOlder
<1>8. ASSUME NEW m \in T, z(m) # Absent, found = z(m), \A j \in T : j > m => z(j) = Absent
      PROVE  NotOlder(found, d)
  <2>1. Entered(m, k, z(m)) /\ Stamp(z(m)) \in Nat
    BY <1>3, <1>8
  <2>2. Stamp(d) <= Stamp(z(m))
    <3>1. CASE Stored(k)
      BY <1>2, <1>5, <2>1, <3>1
    <3>2. CASE Logged(k)
      <4>1. PICK i \in T : z(i) # Absent /\ Stamp(d) <= Stamp(z(i))
        BY <1>4, <3>2
      <4>2. Entered(i, k, z(i)) /\ Stamp(z(i)) \in Nat
        BY <1>3, <4>1
      <4>3. i = m \/ i < m
        <5>1. i \in Nat /\ m \in Nat /\ ~(i > m)
          BY <1>2, <1>8, <4>1
        <5> QED BY <5>1
      <4>4. CASE i < m
        <5>1. Stamp(z(i)) < Stamp(z(m))
          BY <1>6, <2>1, <4>2, <4>4
        <5> HIDE DEF z, d
        <5> QED BY <1>2, <2>1, <4>1, <4>2, <5>1
      <4> QED BY <4>1, <4>3, <4>4
    <3> QED BY <3>1, <3>2 DEF Safe
  <2> QED BY <1>2, <1>8, <2>1, <2>2 DEF NotOlder
<1> HIDE DEF T, found, d
<1>9. NotOlder(found, d)
  BY <1>1, <1>7, <1>8 DEF TopIs
<1> QED BY <1>9 DEF found, d

(* A step that leaves the files leaves what open() will find. *)
LEMMA SurvivesSame ==
  ASSUME Readable(manifest.file), Shape(OnDisk), UNCHANGED <<manifest, wal, synced, durable>>,
         NEW k \in Keys, Disk(k)' = Disk(k), NotOlder(RecoveredEntry(synced, k), durable[k])
  PROVE  NotOlder(RecoveredEntry(synced, k), durable[k])'
<1>1. OnDisk' = OnDisk /\ Readable(manifest.file)' /\ Shape(OnDisk)'
  BY DEF OnDisk
<1>2. TopIs(OnDisk.memtables, Rebuilt(synced), k, Disk(k), RecoveredEntry(synced, k))
  BY SyncedTop DEF FindsSynced
<1>3. FindsSynced'
  BY <1>1, SyncedTop, PTL
<1> DEFINE a == RecoveredEntry(synced, k)
           b == RecoveredEntry(synced, k)'
           T == OnDisk.memtables
           maps == Rebuilt(synced)
           below == Disk(k)
<1>4. Rebuilt(synced)' = maps
  BY DEF Rebuilt, RecoverFromWal
<1>5. T \subseteq Ids
  BY DEF Shape
<1>6. TopIs(T, maps, k, below, a)
  BY <1>2
<1>7. TopIs(T, maps, k, below, b)
  BY <1>1, <1>3, <1>4 DEF FindsSynced
<1> HIDE DEF a, b, T, maps, below
<1>8. a = b
  BY <1>5, <1>6, <1>7, TopUnique
<1> QED BY <1>8 DEF a, b

(* The process dies: what is on disk stays. *)
LEMMA DeathSurvives ==
  ASSUME Types, LsmIInv, ManifestHolds, ~TornWrites, NEW k \in Keys, Kept(k),
         Crash \/ \E t \in Threads : FlushEmpty(t)
  PROVE  NotOlder(RecoveredEntry(synced, k), durable[k])'
<1>0. /\ TypeOK /\ Stamped(k) /\ Safe(k) /\ Readable(manifest.file) /\ Shape(OnDisk) /\ IInv
      /\ sst \in [Ids -> Table]
  BY DEF Types, TypeOK, Kept, ManifestHolds, LsmIInv
<1>1. NotOlder(RecoveredEntry(synced, k), durable[k])
  BY <1>0, SafeSurvives
<1>2. UNCHANGED <<manifest, wal, synced, durable>>
  BY DEF Crash, FlushEmpty, ghostVars
<1>3. OnDisk' = OnDisk
  BY <1>2 DEF OnDisk
<1>4. Disk(k)' = Disk(k)
  <2>1. CASE Crash
    BY <1>3, <2>1 DEF Crash, Disk
  <2>2. ASSUME NEW t \in Threads, FlushEmpty(t) PROVE Disk(k)' = Disk(k)
    <3>1. /\ pc[t] = "flush" /\ state_lock = NoThread /\ state.imm_memtables # <<>>
          /\ sst' = [sst EXCEPT ![OldestImm] = EmptyTable]
      BY <2>2 DEF FlushEmpty
    <3>2. Referenced(OnDisk.st) \subseteq state.sstables
      BY <1>0, <3>1, NothingOwed DEF RecordSteps
    <3>3. OldestImm \notin state.sstables
      <4>1. state.imm_memtables \in Seq(Ids)
        BY <1>0, StateTypes
      <4>2. Len(state.imm_memtables) \in DOMAIN state.imm_memtables
        BY <3>1, <4>1
      <4> QED BY <1>0, <4>2 DEF IInv, IdsApart, OldestImm
    <3> DEFINE disk == OnDisk.st
               new == sst'
    <3>4. \A i \in Referenced(disk) : sst[i] = new[i]
      <4>1. state.sstables \subseteq Ids
        BY <1>0 DEF TypeOK, LsmStorageState
      <4> QED BY <1>0, <3>1, <3>2, <3>3, <4>1
    <3> HIDE DEF disk, new
    <3>5. InLists(disk.l0_sstables, disk.levels, sst, k) = InLists(disk.l0_sstables, disk.levels, new, k)
      BY <3>4, ListedSame
    <3> QED BY <1>3, <3>5 DEF Disk, disk, new
  <2> QED BY <2>1, <2>2
<1> QED BY <1>0, <1>1, <1>2, <1>4, SurvivesSame

(* Only a freeze gives a MemTable a WAL, and open(). *)
LEMMA NoWalsKept == ASSUME NoWals, [LsmNext]_vars PROVE NoWals'
<1> SUFFICES ASSUME ~EnableWal PROVE wal_open' = {}
  BY DEF NoWals
<1> USE DEF diskVars
<1>0. wal_open = {}
  BY DEF NoWals
<1>1. ASSUME NEW t, FlushStep(t) PROVE UNCHANGED wal_open
  BY <1>1 DEF FlushStep, FlushBegin, FlushEmpty, FlushSwap, FlushRecord
<1>2. ASSUME NEW c \in Clients, ClientStep(c) PROVE UNCHANGED wal_open
  BY <1>1, <1>2 DEF ClientStep, Put, PutLog, PutInsert, PutCheck, ForceFreeze, FreezeStep,
         FreezeBegin, FreezeSwap, FreezeRecord, ForceFlush, Sync
<1>3. Next => UNCHANGED wal_open
  BY <1>1, <1>2 DEF Next, FlushThreadStep, TriggerFlush
<1>4. \A t : BeginCompaction(t) \/ CompactFails(t) \/ FlushFails(t) => UNCHANGED wal_open
  BY DEF BeginCompaction, CompactFails, FlushFails
<1>5. \A t : CompactStep(t) => UNCHANGED wal_open
  BY DEF CompactStep, Compact, CompactApply, CompactRecord, CompactRemove
<1>6. CloseBegin \/ CloseDone \/ Destroy \/ DestroyLate \/ Crash \/ UNCHANGED vars =>
        UNCHANGED wal_open
  BY DEF CloseBegin, CloseDone, Destroy, DestroyLate, Crash, vars, wpVars
<1>7. \A c : CloseFreeze(c) \/ CloseFlush(c) => UNCHANGED wal_open
  BY DEF CloseFreeze, CloseFlush
<1>8. \A cut : Open(cut) => wal_open' = {}
  BY DEF Open
<1> QED BY <1>0, <1>3, <1>4, <1>5, <1>6, <1>7, <1>8 DEF LsmNext

(* What is durable is kept, and survives the first crash. *)
Durably ==
  opens = 1 => /\ life # "down" => \A k \in Keys : Kept(k)
               /\ life = "down" /\ ~TornWrites =>
                    \A k \in Keys : NotOlder(RecoveredEntry(synced, k), durable[k])

(* Every step keeps it. *)
LEMMA NextDurably ==
  ASSUME EnableWal => \A k \in Keys : OneWriter(k), OneCompaction, NoWals, Durably,
         FirstLife, FirstLife', Recoverable, Recoverable', Lined, [LsmNext]_vars,
         [SyncsRecorded]_vars
  PROVE  Durably'
<1>1. SUFFICES ASSUME opens' = 1, NEW k \in Keys
               PROVE  /\ life' # "down" => Kept(k)'
                      /\ life' = "down" /\ ~TornWrites =>
                           NotOlder(RecoveredEntry(synced, k), durable[k])'
  BY DEF Durably
<1>2. opens = 1 /\ (~\E cut \in Cuts : Open(cut)) /\ Types /\ Types'
  BY <1>1, SameLife DEF FirstLife
<1>3. CASE life = "down"
  <2>1. UNCHANGED vars
    BY <1>2, <1>3, DownOpens
  <2>2. UNCHANGED <<life, manifest, wal, synced, durable, sst>>
    BY <2>1 DEF vars, wpVars, stateVars, diskVars, ghostVars
  <2>3. ASSUME ~TornWrites PROVE NotOlder(RecoveredEntry(synced, k), durable[k])'
    <3>1. /\ Readable(manifest.file) /\ Shape(OnDisk)
          /\ NotOlder(RecoveredEntry(synced, k), durable[k])
      BY <1>2, <1>3, <2>3 DEF Recoverable, Durably
    <3>2. Disk(k)' = Disk(k)
      BY <2>2 DEF Disk, OnDisk
    <3> QED BY <2>2, <3>1, <3>2, SurvivesSame
  <2> QED BY <1>3, <2>2, <2>3
<1>4. CASE life # "down"
  <2>1. LsmIInv /\ ManifestHolds /\ Ordered /\ WalIInv /\ Kept(k)
    BY <1>2, <1>4 DEF FirstLife, Recoverable, Lined, Durably
  <2>2. ASSUME life' # "down" PROVE Kept(k)'
    <3>1. LsmIInv' /\ ManifestHolds'
      BY <1>1, <2>2 DEF FirstLife, Recoverable
    <3> QED BY <1>2, <1>4, <2>1, <2>2, <3>1, LsmNextKept
  <2>3. ASSUME life' = "down", ~TornWrites
        PROVE  NotOlder(RecoveredEntry(synced, k), durable[k])'
    <3>1. LsmNext
      BY <1>4, <2>3 DEF vars, wpVars, stateVars
    <3> QED BY <1>2, <1>4, <2>1, <2>3, <3>1, DeathSteps, DeathSurvives
  <2> QED BY <2>2, <2>3
<1> QED BY <1>3, <1>4

(* What sync() or a recorded flush made durable is there after a crash at  *)
(* any moment, whatever flushes, freezes, compactions and I/O errors came  *)
(* before.  The crash leaves no part of a record, the keys have one writer *)
(* each when there is a WAL, and sync() is not called between the swap of  *)
(* a freeze and its record.                                                *)
THEOREM DurableSurvivesCrash ==
  ASSUME StrategyAssumed, ~TornWrites, EnableWal => \A k \in Keys : OneWriter(k)
  PROVE  LsmSpec /\ []OneCompaction /\ [][SyncsRecorded]_vars => []DurableSurvives
<1>1. LsmInit => NoWals /\ Durably
  <2>1. LsmInit => NoWals
    BY DEF LsmInit, Init, NoWals
  <2>2. LsmInit => life # "down" /\ \A k \in Keys : Kept(k)
    BY InitKept DEF LsmInit, Init
  <2> QED BY <2>1, <2>2 DEF Durably
<1>2. NoWals /\ [LsmNext]_vars => NoWals'
  BY NoWalsKept
<1>3. /\ OneCompaction /\ NoWals /\ Durably /\ FirstLife /\ FirstLife' /\ Recoverable /\ Recoverable'
      /\ Lined /\ [LsmNext]_vars /\ [SyncsRecorded]_vars
      => Durably'
  BY NextDurably
<1>4. FirstLife /\ Recoverable /\ Durably => DurableSurvives
  <2> SUFFICES ASSUME FirstLife, Recoverable, Durably, opens = 1, NEW k \in Keys
               PROVE  NotOlder(RecoveredEntry(synced, k), durable[k])
    BY DEF DurableSurvives
  <2>1. CASE life # "down"
    <3>1. TypeOK /\ ManifestHolds /\ Kept(k)
      BY <2>1 DEF FirstLife, Types, Recoverable, Durably
    <3> QED BY <3>1, SafeSurvives DEF ManifestHolds, Kept
  <2>2. CASE life = "down"
    BY <2>2 DEF Durably
  <2> QED BY <2>1, <2>2
<1> QED BY <1>1, <1>2, <1>3, <1>4, LinedInvariant, PTL DEF LsmSpec

(* One client: its calls do not overlap, so nothing is left to assume of   *)
(* it.  With any strategy but the leveled one it reads what it wrote, and  *)
(* open() finds all it was promised: after a crash what was synced or      *)
(* flushed; without a WAL everything after close(), with one everything    *)
(* once the closed object was destroyed.                                   *)
THEOREM OneClientKeepsAll ==
  ASSUME StrategyAssumed, ~TornWrites, \A c, d \in Clients : c = d
  PROVE  LsmSpec => []( /\ opens = 1 => ReadsLatest /\ InputsUnmoved /\ TablesPresent
                        /\ ManifestMatchesState /\ OpenSucceeds
                        /\ DurableSurvives /\ CloseKeepsAll )
<1>1. \A k \in Keys : OneWriter(k)
  BY DEF OneWriter
<1>2. LsmSpec => []OneCompaction
  BY CompactionsApart
<1>3. Placed => SyncsRecorded
  <2> SUFFICES ASSUME Placed, NEW c \in Clients, Sync(c), NEW t \in Threads
               PROVE  pc[t] # "freeze_record"
    BY DEF SyncsRecorded
  <2>1. pc[t] = "freeze_record" => t \in Clients
    BY DEF Placed, InPlace, Freezing
  <2> QED BY <2>1 DEF Sync
<1>4. LsmSpec => [][SyncsRecorded]_vars
  BY <1>3, ThreadsPlaced, PTL
<1>5. LsmSpec /\ []OneCompaction /\ [][SyncsRecorded]_vars => []DurableSurvives
  BY <1>1, DurableSurvivesCrash
<1>6. LsmSpec /\ []OneCompaction => []CloseKeepsAll
  BY <1>1, CloseKeepsAllCorrect
<1>7. LsmSpec /\ []OneCompaction => [](ManifestMatchesState /\ OpenSucceeds)
  BY ManifestFollowsState, RecoveryOpens, PTL
<1>8. FirstLife => (opens = 1 => ReadsLatest /\ InputsUnmoved /\ TablesPresent)
  BY FirstLifeGives
<1> QED BY <1>2, <1>4, <1>5, <1>6, <1>7, <1>8, FirstLifeInvariant, PTL
=============================================================================
