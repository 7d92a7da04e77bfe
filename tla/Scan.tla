-------------------------------- MODULE Scan --------------------------------
(***************************************************************************)
(* LsmStorageInner::scan() beside the running engine.  A scan copies the   *)
(* pointer to the state under state_mutex and releases it.  Then it copies *)
(* the MemTables of that state, the active one while puts go on, and reads *)
(* SSTables block by block while flushes and compactions replace them and  *)
(* remove their files.                                                     *)
(***************************************************************************)
EXTENDS LsmStorage, Iterators

CONSTANT ScanBounds    \* the bounds scans are called with

ASSUME ScanBoundsAssumption == ScanBounds \subseteq [lower : Bounds, upper : Bounds]

VARIABLES
  scan,     \* the scan: where it is, its copies, its iterator, what it yielded
  stores    \* history: the contents the store had since the scan was called

scanVars == <<scan, stores>>

NoScan == [pc |-> "idle"]

(* What a handle of the scan's iterators refers to: -1 - i is the copy of  *)
(* MemTable i, another one an SSTable, which the scan holds open: that its *)
(* file was removed does not matter.                                       *)
TableOf(h) == IF h < 0 THEN scan.copies[-1 - h] ELSE sst[h]

Memtables(st) == {st.memtable} \cup ToSet(st.imm_memtables)

MemHandles(st) == <<-1 - st.memtable>> \o
                  [i \in DOMAIN st.imm_memtables |-> -1 - st.imm_memtables[i]]

ScanSource(st) == [h \in ToSet(MemHandles(st)) \cup st.sstables |-> TableOf(h)]

OpenOf(st, ids) == Filtered(ids, st.sstables)

(* The call, and the copy of the pointer. *)
ScanCall(lower, upper) ==
  /\ life = "up" /\ scan.pc = "idle"
  /\ scan' = [pc |-> "called", lower |-> lower, upper |-> upper, snapshot |-> state]
  /\ stores' = {latest}
  /\ UNCHANGED vars

(* Mutant: the MemTables are those of the state as it is now. *)
ScanMemtablesNow ==
  /\ scan.pc = "called"
  /\ scan' = [scan EXCEPT !.pc = "copied", !.snapshot.memtable = state.memtable,
                          !.snapshot.imm_memtables = state.imm_memtables]
             @@ [copies |-> [i \in Memtables(state) |-> ScanMemtable(mem[i], scan.lower, scan.upper)]]
  /\ UNCHANGED <<vars, stores>>

(* MemTable::scan copies the active MemTable under its mutex.  The others  *)
(* follow one by one; they no longer change (FrozenUnchanged).             *)
ScanMemtables ==
  /\ scan.pc = "called"
  /\ scan' = [pc |-> "copied", lower |-> scan.lower, upper |-> scan.upper,
              snapshot |-> scan.snapshot,
              copies |-> [i \in Memtables(scan.snapshot) |->
                            ScanMemtable(mem[i], scan.lower, scan.upper)]]
  /\ UNCHANGED <<vars, stores>>

(* The iterators are created and scan() returns. *)
ScanReturn ==
  /\ scan.pc = "copied"
  /\ LET st == scan.snapshot IN
     scan' = [pc |-> "reading", lower |-> scan.lower, upper |-> scan.upper,
              snapshot |-> st, copies |-> scan.copies,
              it |-> ScanCreate(ScanSource(st), MemHandles(st), OpenOf(st, st.l0_sstables),
                                [i \in DOMAIN st.levels |-> OpenOf(st, st.levels[i].ssts)],
                                scan.lower, scan.upper),
              yielded |-> <<>>]
  /\ UNCHANGED <<vars, stores>>

(* The caller reads an entry and calls next(). *)
ScanNext ==
  /\ scan.pc = "reading" /\ scan.it.valid
  /\ LET source == ScanSource(scan.snapshot) IN
     scan' = [scan EXCEPT
                !.yielded = Append(@, [key |-> StackKey(scan.it.inner),
                                       ent |-> StackEntry(source, scan.it.inner)]),
                !.it = LsmIteratorNext(source, @)]
  /\ UNCHANGED <<vars, stores>>

(* The iterator is dropped, and the references it holds with it. *)
ScanDone ==
  /\ scan.pc = "reading" /\ ~scan.it.valid
  /\ scan' = [pc |-> "done"] /\ stores' = {}
  /\ UNCHANGED vars

(* The rest of the engine.  The iterators die with the process. *)
EngineStep ==
  /\ LsmNext
  /\ scan' = IF life' = "down" THEN NoScan ELSE scan
  /\ stores' = IF scan.pc \in {"called", "copied"} THEN stores \cup {latest'} ELSE stores

ScanInit == LsmInit /\ scan = NoScan /\ stores = {}

ScanNextState ==
  \/ EngineStep
  \/ \E b \in ScanBounds : ScanCall(b.lower, b.upper)
  \/ ScanMemtables \/ ScanReturn \/ ScanNext \/ ScanDone

ScanSpec == ScanInit /\ [][ScanNextState]_<<vars, scanVars>>

-----------------------------------------------------------------------------
(* Properties *)

(* A scan is a snapshot: what it yields, however late it is read, is what  *)
(* the whole store held at one moment between the call of scan() and its   *)
(* return, though it reads the parts of the store one after the other and  *)
(* without a lock.                                                         *)
ScanIsSnapshot ==
  scan.pc = "reading" =>
    \E store \in stores : Lists(scan.yielded, store, scan.lower, scan.upper, ~scan.it.valid)

(* Why: the copies of the MemTables and the SSTables the scan holds have   *)
(* the contents of one moment for every key between the bounds, however    *)
(* much was written, frozen, flushed and compacted while it was called.    *)
SnapshotHeld ==
  scan.pc \in {"copied", "reading"} =>
    \E store \in stores : \A k \in Keys :
      AboveLower(k, scan.lower) /\ BelowUpper(k, scan.upper) =>
        Seen(Entry(scan.snapshot, scan.copies, k)) = Seen(store[k])

(* The tables a scan is going to read are never written again: no flush,   *)
(* failed flush or compaction reuses an id that a reader may hold.         *)
OpenTablesImmutable ==
  [][\A id \in state.sstables \cup (IF scan.pc \in {"idle", "done"} THEN {} ELSE scan.snapshot.sstables) :
        sst'[id] = sst[id]]_<<vars, scanVars>>
=============================================================================
