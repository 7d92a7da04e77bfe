----------------------------- MODULE ManifestLog -----------------------------
(***************************************************************************)
(* The manifest file (manifest.cpp): its records, how one is written at    *)
(* the offset of the open descriptor and how the file is read back.        *)
(*                                                                         *)
(* The file is a sequence of cells.  A record occupies Width(r) cells, its *)
(* length prefix, JSON text and checksum; a cell is intact only as part of *)
(* the whole record, which is what the checksum tests.                     *)
(***************************************************************************)
EXTENDS Integers, Sequences

NewMemtable(id)     == [type |-> "NewMemtable", id |-> id]
Flush(id)           == [type |-> "Flush", id |-> id]
Compaction(task, o) == [type |-> "Compaction", task |-> task, output |-> o]

(* {"Flush":7}, {"NewMemtable":7} and {"Compaction":[...]} never have the  *)
(* same length.                                                            *)
Width(r) == CASE r.type = "Flush"       -> 3
              [] r.type = "NewMemtable" -> 4
              [] r.type = "Compaction"  -> 9

(* ::write at offset pos: cells there are replaced, the file grows if      *)
(* needed, what lies beyond stays.                                         *)
Overwrite(file, pos, r, n) ==
  LET size == IF pos + n > Len(file) THEN pos + n ELSE Len(file)
  IN  [i \in 1 .. size |-> IF i \in pos + 1 .. pos + n
                             THEN [rec |-> r, at |-> i - pos]
                             ELSE file[i]]

(* Manifest::create: O_TRUNC, the descriptor at offset 0. *)
ManifestCreate == [open |-> TRUE, file |-> <<>>, pos |-> 0]

(* Manifest::add_record_when_init: write the whole record, then fsync. *)
AddRecord(m, r) ==
  IF ~m.open THEN m
  ELSE [m EXCEPT !.file = Overwrite(m.file, m.pos, r, Width(r)),
                 !.pos  = m.pos + Width(r)]

(* A crash in the middle of the write: only the first n cells reach the    *)
(* file.                                                                   *)
TornRecord(m, r, n) == [m EXCEPT !.file = Overwrite(m.file, m.pos, r, n)]

IntactAt(file, o) ==
  /\ file[o + 1].at = 1
  /\ o + Width(file[o + 1].rec) <= Len(file)
  /\ \A i \in 1 .. Width(file[o + 1].rec) :
        file[o + i] = [rec |-> file[o + 1].rec, at |-> i]

(* Manifest::recover: reads record after record from offset 0; the first   *)
(* one that is not intact makes the whole call fail.                       *)
Parse(file) ==
  LET Read[o \in 0 .. Len(file)] ==
        IF o = Len(file) THEN [ok |-> TRUE, records |-> <<>>]
        ELSE IF ~IntactAt(file, o) THEN [ok |-> FALSE, records |-> <<>>]
        ELSE LET rest == Read[o + Width(file[o + 1].rec)]
             IN  [rest EXCEPT !.records = <<file[o + 1].rec>> \o @]
  IN  Read[0]

(* The descriptor recover() returns was only used with pread: its offset   *)
(* is still 0.  On failure open() goes on without a manifest.              *)
ManifestRecover(file) == [open |-> Parse(file).ok, file |-> file, pos |-> 0]
=============================================================================
