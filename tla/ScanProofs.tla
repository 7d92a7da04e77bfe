----------------------------- MODULE ScanProofs -----------------------------
(***************************************************************************)
(* What a scan holds.  The proof is about ids: a MemTable's id, an         *)
(* SSTable's id and the ids a compaction has taken never meet, whatever    *)
(* the strategy and however many compactions run at once, until the        *)
(* process ends.  So the tables of the state a scan has copied are never   *)
(* written again, and its MemTables are frozen or still the newest.        *)
(* Where the levels are in key order, its iterator yields what they hold.  *)
(***************************************************************************)
EXTENDS Scan, LsmStorageProofs

-----------------------------------------------------------------------------
(* The SSTables of a scan *)

Scanning == scan.pc \in {"called", "copied", "reading"}

(* What a scan has in its hands: a state whose SSTables have ids of their  *)
(* own, and once it has copied the MemTables, the copies.                  *)
ScanTables ==
  /\ scan.pc \in {"idle", "called", "copied", "reading", "done"}
  /\ Scanning =>
       /\ {"pc", "lower", "upper", "snapshot"} \subseteq DOMAIN scan
       /\ scan.pc # "called" => "copies" \in DOMAIN scan
       /\ scan.snapshot.sstables \subseteq Ids /\ Apart(scan.snapshot.sstables)

(* What a step of a scan keeps. *)
ScanOn ==
  /\ UNCHANGED <<vars, stores>> /\ Scanning
  /\ scan'.pc \in {"copied", "reading"}
  /\ {"pc", "lower", "upper", "snapshot", "copies"} \subseteq DOMAIN scan'
  /\ scan'.snapshot = scan.snapshot /\ scan'.lower = scan.lower /\ scan'.upper = scan.upper
  /\ scan'.copies = IF scan.pc # "called" THEN scan.copies
                    ELSE [i \in Memtables(scan.snapshot) |->
                            ScanMemtable(mem[i], scan.lower, scan.upper)]

(* The steps of a scan between its call and its end. *)
LEMMA ScanSteps == ScanTables /\ (ScanMemtables \/ ScanReturn \/ ScanNext) => ScanOn
<1>1. ASSUME ScanTables, ScanMemtables PROVE ScanOn
  <2> DEFINE m == [i \in Memtables(scan.snapshot) |-> ScanMemtable(mem[i], scan.lower, scan.upper)]
  <2>1. /\ scan.pc = "called" /\ UNCHANGED <<vars, stores>>
        /\ scan' = [pc |-> "copied", lower |-> scan.lower, upper |-> scan.upper,
                    snapshot |-> scan.snapshot, copies |-> m]
    BY <1>1 DEF ScanMemtables
  <2> HIDE DEF m
  <2>2. /\ scan'.pc = "copied" /\ DOMAIN scan' = {"pc", "lower", "upper", "snapshot", "copies"}
        /\ scan'.snapshot = scan.snapshot /\ scan'.lower = scan.lower /\ scan'.upper = scan.upper
        /\ scan'.copies = m
    BY <2>1
  <2> QED BY <2>1, <2>2 DEF ScanOn, Scanning, m
<1>2. ASSUME ScanTables, ScanReturn PROVE ScanOn
  <2>1. PICK it : /\ scan.pc = "copied" /\ UNCHANGED <<vars, stores>>
                  /\ scan' = [pc |-> "reading", lower |-> scan.lower, upper |-> scan.upper,
                              snapshot |-> scan.snapshot, copies |-> scan.copies, it |-> it,
                              yielded |-> <<>>]
    BY <1>2, Zenon DEF ScanReturn
  <2>2. /\ scan'.pc = "reading"
        /\ DOMAIN scan' = {"pc", "lower", "upper", "snapshot", "copies", "it", "yielded"}
        /\ scan'.snapshot = scan.snapshot /\ scan'.lower = scan.lower /\ scan'.upper = scan.upper
        /\ scan'.copies = scan.copies
    BY <2>1
  <2> QED BY <2>1, <2>2 DEF ScanOn, Scanning
<1>3. ASSUME ScanTables, ScanNext PROVE ScanOn
  <2>1. PICK y, it : /\ scan.pc = "reading" /\ UNCHANGED <<vars, stores>>
                     /\ scan' = [scan EXCEPT !.yielded = y, !.it = it]
    BY <1>3, Zenon DEF ScanNext
  <2>2. {"pc", "lower", "upper", "snapshot", "copies"} \subseteq DOMAIN scan
    BY <1>3, <2>1 DEF ScanTables, Scanning
  <2>3. /\ scan'.pc = "reading" /\ DOMAIN scan' = DOMAIN scan
        /\ scan'.snapshot = scan.snapshot /\ scan'.lower = scan.lower /\ scan'.upper = scan.upper
        /\ scan'.copies = scan.copies
    BY <2>1, <2>2
  <2> QED BY <2>1, <2>2, <2>3 DEF ScanOn, Scanning
<1> QED BY <1>1, <1>2, <1>3

(* Every step keeps the tables of a scan apart, and leaves them and the    *)
(* open ones as they are.                                                  *)
LEMMA ScanTablesStep ==
  ASSUME EngineInv, ScanTables, [ScanNextState]_<<vars, scanVars>>, opens = 1, opens' = opens
  PROVE  /\ EngineInv' /\ ScanTables'
         /\ \A id \in state.sstables \cup (IF scan.pc \in {"idle", "done"} THEN {}
                                           ELSE scan.snapshot.sstables) : sst'[id] = sst[id]
<1> DEFINE S == state.sstables \cup (IF scan.pc \in {"idle", "done"} THEN {}
                                     ELSE scan.snapshot.sstables)
<1>0. EngineTypes
  BY DEF EngineInv
<1>1. S \subseteq Ids /\ Apart(S)
  BY DEF EngineInv, EngineTypes, TablesApart, ScanTables, Scanning, Apart
<1>2. CASE EngineStep
  <2>1. EngineInv' /\ (StepKeeps \/ Crash)
    BY <1>2, ProcessStep DEF EngineStep
  <2>2. scan' = IF life' = "down" THEN NoScan ELSE scan
    BY <1>2 DEF EngineStep
  <2>3. CASE Crash
    <3>1. scan' = NoScan /\ sst' = sst
      BY <2>2, <2>3 DEF Crash
    <3>2. scan'.pc = "idle"
      BY <3>1 DEF NoScan
    <3>3. ScanTables'
      BY <3>2 DEF ScanTables, Scanning
    <3> QED BY <2>1, <3>1, <3>3
  <2>4. CASE StepKeeps
    <3> HIDE DEF S
    <3>1. \A id \in S : sst'[id] = sst[id]
      BY <1>1, <2>4, ApartUnwritten
    <3>2. EngineTypes'
      BY <2>1 DEF EngineInv
    <3>3. \A id \in S : id < next_sst_id' /\ id \notin MemIds'
      BY <1>0, <1>1, <2>4, <3>2, ApartStill
    <3>4. ScanTables'
      <4>1. CASE scan' = scan
        <5>1. Scanning => scan.snapshot.sstables \subseteq S
          BY DEF S, Scanning
        <5> QED BY <1>1, <3>3, <4>1, <5>1 DEF ScanTables, Scanning, Apart
      <4>2. CASE scan' = NoScan
        BY <4>2 DEF ScanTables, Scanning, NoScan
      <4> QED BY <2>2, <4>1, <4>2
    <3> QED BY <2>1, <3>1, <3>4 DEF S
  <2> QED BY <2>1, <2>3, <2>4
<1>3. ASSUME UNCHANGED vars
      PROVE  EngineInv' /\ MemIds' = MemIds /\ UNCHANGED <<next_sst_id, sst, state>>
  <2>1. UNCHANGED <<next_sst_id, sst, state, pc, new_id>>
    BY <1>3 DEF vars, wpVars, stateVars, diskVars, threadVars
  <2>2. LiveMemtables' = LiveMemtables
    BY <2>1 DEF LiveMemtables
  <2> QED BY <1>3, <2>1, <2>2, CloseKeeps DEF MemIds
<1>4. ASSUME NEW b \in ScanBounds, ScanCall(b.lower, b.upper)
      PROVE  EngineInv' /\ ScanTables' /\ \A id \in S : sst'[id] = sst[id]
  <2>1. UNCHANGED vars /\ scan' = [pc |-> "called", lower |-> b.lower, upper |-> b.upper, snapshot |-> state]
    BY <1>4 DEF ScanCall
  <2>2. EngineInv' /\ MemIds' = MemIds /\ UNCHANGED <<next_sst_id, sst, state>>
    BY <1>3, <2>1
  <2>3. scan'.pc = "called" /\ scan'.snapshot = state /\ DOMAIN scan' = {"pc", "lower", "upper", "snapshot"}
    BY <2>1
  <2>4. state.sstables \subseteq Ids /\ Apart(state.sstables)
    BY DEF EngineInv, EngineTypes, TablesApart
  <2>5. ScanTables'
    BY <2>2, <2>3, <2>4 DEF ScanTables, Scanning, Apart
  <2> QED BY <2>2, <2>5
<1>5. CASE ScanMemtables \/ ScanReturn \/ ScanNext
  <2>1. ScanOn
    BY <1>5, ScanSteps
  <2>2. EngineInv' /\ MemIds' = MemIds /\ UNCHANGED <<next_sst_id, sst, state>>
    BY <1>3, <2>1 DEF ScanOn
  <2>3. ScanTables'
    BY <2>1, <2>2 DEF ScanOn, ScanTables, Scanning, Apart
  <2> QED BY <2>2, <2>3
<1>6. CASE ScanDone
  <2>1. UNCHANGED vars /\ scan' = [pc |-> "done"]
    BY <1>6 DEF ScanDone
  <2>2. scan'.pc = "done"
    BY <2>1
  <2> QED BY <1>3, <2>1, <2>2 DEF ScanTables, Scanning
<1>7. CASE UNCHANGED <<vars, scanVars>>
  <2>1. UNCHANGED vars /\ scan' = scan
    BY <1>7 DEF scanVars
  <2>2. EngineInv' /\ MemIds' = MemIds /\ UNCHANGED <<next_sst_id, sst, state>>
    BY <1>3, <2>1
  <2> QED BY <2>1, <2>2 DEF ScanTables, Scanning, Apart
<1> QED BY <1>2, <1>4, <1>5, <1>6, <1>7 DEF ScanNextState

(* No SSTable that is open, or that a scan has in its hands, is written    *)
(* again while the process lives: whatever the strategy, and however many  *)
(* flushes, failed flushes and compactions run beside the scan.            *)
THEOREM OpenTablesImmutableCorrect == ScanSpec /\ [](opens = 1) => OpenTablesImmutable
<1>1. ScanInit => EngineInv /\ ScanTables
  BY InitEngine DEF ScanInit, ScanTables, Scanning, NoScan
<1>2. EngineInv /\ ScanTables /\ opens = 1 /\ (opens = 1)' /\ [ScanNextState]_<<vars, scanVars>>
        => EngineInv' /\ ScanTables'
  BY ScanTablesStep
<1>3. EngineInv /\ ScanTables /\ opens = 1 /\ (opens = 1)' /\ [ScanNextState]_<<vars, scanVars>>
        => [\A id \in state.sstables \cup (IF scan.pc \in {"idle", "done"} THEN {}
                                           ELSE scan.snapshot.sstables) :
              sst'[id] = sst[id]]_<<vars, scanVars>>
  BY ScanTablesStep
<1> QED BY <1>1, <1>2, <1>3, PTL DEF ScanSpec, OpenTablesImmutable

-----------------------------------------------------------------------------
(* The contents of a scan *)

(* The MemTables of the state a scan has copied: all but the one that was  *)
(* active are frozen or gone, and none of them becomes active again.       *)
ScanMemtablesApart ==
  LET st == scan.snapshot IN
  /\ st.memtable \in Ids /\ st.imm_memtables \in Seq(Ids)
  /\ \A id \in Memtables(st) :
       id < next_sst_id /\ \A t \in Threads : pc[t] = "freeze_swap" => new_id[t] # id
  /\ \A i \in DOMAIN st.imm_memtables :
       st.imm_memtables[i] # st.memtable /\ st.imm_memtables[i] # state.memtable

(* That state, read now, has the contents `store'. *)
ScanSees(store) == \A k \in Keys : Seen(Entry(scan.snapshot, mem, k)) = Seen(store[k])

(* Until the MemTables are copied, that state has the contents of now as   *)
(* long as its MemTable is the active one, and those of an earlier moment  *)
(* of the scan once it is frozen.                                          *)
ScanCalled ==
  scan.pc = "called" =>
    /\ ScanMemtablesApart
    /\ scan.snapshot.memtable = state.memtable => latest \in stores /\ ScanSees(latest)
    /\ scan.snapshot.memtable # state.memtable => \E store \in stores : ScanSees(store)

ScanInv == EngineInv /\ ScanTables /\ ScanCalled /\ SnapshotHeld

(* What a step of a running process does to the MemTables: only put()      *)
(* writes, only to the active one, and only a freeze makes another one     *)
(* active.                                                                 *)
MemKeeps ==
  /\ \A id \in Ids : id < next_sst_id /\ id # state.memtable => mem'[id] = mem[id]
  /\ \/ state'.memtable = state.memtable
     \/ \E t \in Threads : pc[t] = "freeze_swap" /\ state'.memtable = new_id[t]
  /\ \A t \in Threads : pc'[t] = "freeze_swap" =>
       new_id'[t] = next_sst_id \/ (pc[t] = "freeze_swap" /\ new_id'[t] = new_id[t])
  /\ \/ latest' = latest /\ mem'[state.memtable] = mem[state.memtable]
     \/ /\ state'.memtable = state.memtable
        /\ \E k \in Keys, e \in Int :
             /\ e # Absent /\ latest' = [latest EXCEPT ![k] = e]
             /\ mem'[state.memtable] = [mem[state.memtable] EXCEPT ![k] = e]

(* The steps that touch no MemTable. *)
LEMMA MemSame ==
  ASSUME EngineInv, UNCHANGED <<mem, latest>>, state'.memtable = state.memtable,
         \A t \in Threads : pc'[t] = "freeze_swap" => pc[t] = "freeze_swap" /\ new_id'[t] = new_id[t]
  PROVE  MemKeeps
BY DEF MemKeeps

(* Every step of a process until it dies. *)
LEMMA ProcessMem ==
  ASSUME EngineInv, [LsmNext]_vars, opens' = opens, opens = 1
  PROVE  MemKeeps \/ Crash
<1>0. /\ \A c \in Clients : c \in Threads
      /\ FlushThread \in Threads /\ CompactionThread \in Threads
      /\ EngineTypes
  BY DEF Threads, EngineInv
<1>1. CASE UNCHANGED vars
  BY <1>1, MemSame DEF vars, wpVars, stateVars, threadVars, ghostVars
<1>2. ASSUME NEW c \in Clients, PutInsert(c) PROVE MemKeeps
  <2> DEFINE m == state.memtable
             k == op[c].key
             e == op[c].ent
  <2>1. /\ pc[c] = "logged" /\ mem' = [mem EXCEPT ![op[c].into][k] = e]
        /\ latest' = [latest EXCEPT ![k] = e] /\ UNCHANGED <<state, new_id>>
        /\ pc' = [pc EXCEPT ![c] = "inserted"]
    BY <1>2 DEF PutInsert
  <2>2. op[c].into = m /\ k \in Keys /\ e # Absent /\ e \in Int /\ m \in Ids
    BY <2>1 DEF EngineInv, EngineTypes, MemtablesApart, PutHolds, Write
  <2> HIDE DEF m, k, e
  <2>3. mem'[m] = [mem[m] EXCEPT ![k] = e] /\ \A id \in Ids : id # m => mem'[id] = mem[id]
    BY <1>0, <2>1, <2>2 DEF EngineTypes
  <2>4. \A t \in Threads : pc'[t] = "freeze_swap" => pc[t] = "freeze_swap" /\ new_id'[t] = new_id[t]
    BY <1>0, <2>1 DEF EngineTypes
  <2> QED BY <2>1, <2>2, <2>3, <2>4 DEF MemKeeps, m
<1>3. ASSUME NEW c \in Clients, FreezeBegin(c) PROVE MemKeeps
  <2>1. /\ pc' = [pc EXCEPT ![c] = "freeze_swap"] /\ new_id' = [new_id EXCEPT ![c] = next_sst_id]
        /\ mem' = [mem EXCEPT ![next_sst_id] = EmptyTable] /\ UNCHANGED <<state, latest>>
    BY <1>3 DEF FreezeBegin, ghostVars
  <2>2. \A t \in Threads : pc'[t] = "freeze_swap" =>
          new_id'[t] = next_sst_id \/ (pc[t] = "freeze_swap" /\ new_id'[t] = new_id[t])
    BY <1>0, <2>1 DEF EngineTypes
  <2>3. next_sst_id \in Nat /\ state.memtable < next_sst_id /\ state.memtable \in Ids
    BY DEF EngineInv, EngineTypes, MemtablesApart, MemIds, LiveMemtables
  <2>4. \A id \in Ids : id \in Nat
    BY <1>0, MemIdsType
  <2>5. \A id \in Ids : id < next_sst_id => id # next_sst_id
    BY <2>3, <2>4
  <2>6. \A id \in Ids : id < next_sst_id => mem'[id] = mem[id]
    BY <1>0, <2>1, <2>5 DEF EngineTypes
  <2> QED BY <2>1, <2>2, <2>3, <2>6 DEF MemKeeps
<1>4. ASSUME NEW c \in Clients, FreezeSwap(c) PROVE MemKeeps
  <2>1. /\ pc[c] = "freeze_swap" /\ pc' = [pc EXCEPT ![c] = "freeze_record"]
        /\ UNCHANGED <<mem, latest, new_id>>
        /\ state' = [state EXCEPT !.memtable = new_id[c], !.imm_memtables = <<state.memtable>> \o @]
    BY <1>4 DEF FreezeSwap, ghostVars
  <2>2. state'.memtable = new_id[c]
    BY <1>0, <2>1 DEF EngineTypes
  <2>3. \A t \in Threads : pc'[t] = "freeze_swap" => pc[t] = "freeze_swap" /\ new_id'[t] = new_id[t]
    BY <1>0, <2>1 DEF EngineTypes
  <2> QED BY <1>0, <2>1, <2>2, <2>3 DEF MemKeeps
<1>5. ASSUME NEW t \in Threads, FlushSwap(t), UNCHANGED lsVars PROVE MemKeeps
  <2>1. pc' = [pc EXCEPT ![t] = "flush_record"] /\ UNCHANGED <<mem, latest, new_id>>
    BY <1>5 DEF FlushSwap, ghostVars
  <2>2. state'.memtable = state.memtable
    BY <1>5, FlushSwapState
  <2>3. \A u \in Threads : pc'[u] = "freeze_swap" => pc[u] = "freeze_swap" /\ new_id'[u] = new_id[u]
    BY <1>0, <2>1 DEF EngineTypes
  <2> QED BY <2>1, <2>2, <2>3, MemSame
<1>6. ASSUME NEW t \in Threads, CompactApply(t) PROVE MemKeeps
  <2>1. pc' = [pc EXCEPT ![t] = "compact_record"] /\ UNCHANGED <<mem, latest, new_id>>
    BY <1>6 DEF CompactApply, ghostVars
  <2>2. state'.memtable = state.memtable
    BY <1>6, CompactApplyState
  <2>3. \A u \in Threads : pc'[u] = "freeze_swap" => pc[u] = "freeze_swap" /\ new_id'[u] = new_id[u]
    BY <1>0, <2>1 DEF EngineTypes
  <2> QED BY <2>1, <2>2, <2>3, MemSame
<1>7. ASSUME NEW t \in Threads,
             \/ Put(t) \/ PutCheck(t) \/ ForceFreeze(t) \/ FreezeRecord(t) \/ ForceFlush(t) \/ Sync(t)
             \/ (t = FlushThread /\ TriggerFlush)
             \/ FlushBegin(t) \/ FlushEmpty(t) \/ FlushRecord(t)
             \/ BeginCompaction(t) \/ Compact(t) \/ CompactRecord(t) \/ CompactRemove(t)
             \/ CompactFails(t) \/ FlushFails(t) \/ CloseFreeze(t) \/ CloseFlush(t)
      PROVE  MemKeeps
  <2>1. UNCHANGED <<mem, latest, state>>
    BY <1>7 DEF Put, PutLog, PutCheck, ForceFreeze, FreezeRecord, ForceFlush, Sync, TriggerFlush,
                FlushBegin, FlushEmpty, FlushRecord, BeginCompaction, Compact, CompactRecord,
                CompactRemove, CompactFails, FlushFails, CloseFreeze, CloseFlush, stateVars, ghostVars
  <2>2. /\ pc' = pc \/ \E p \in {"logged", "freeze", "idle", "flush", "flush_swap", "compact", "apply",
                                  "remove"} : pc' = [pc EXCEPT ![t] = p]
        /\ new_id' = new_id \/ (\E x : new_id' = [new_id EXCEPT ![t] = x] /\ pc' # pc)
    <3>1. "idle" # "freeze_record" /\ "idle" # "flush_record" /\ "flush_swap" # "flush"
      OBVIOUS
    <3>2. CASE FreezeRecord(t) \/ FlushRecord(t) \/ FlushBegin(t)
      <4>1. /\ pc[t] \in {"freeze_record", "flush_record", "flush"}
            /\ \E p \in {"idle", "flush_swap"} : pc' = [pc EXCEPT ![t] = p]
            /\ new_id' = new_id \/ \E x : new_id' = [new_id EXCEPT ![t] = x]
        BY <3>2 DEF FreezeRecord, FlushRecord, FlushBegin
      <4>2. pc' # pc
        BY <1>0, <4>1 DEF EngineTypes
      <4> QED BY <4>1, <4>2
    <3>3. CASE ~(FreezeRecord(t) \/ FlushRecord(t) \/ FlushBegin(t))
      BY <1>7, <3>3
         DEF Put, PutLog, PutCheck, ForceFreeze, ForceFlush, Sync, TriggerFlush, FlushEmpty,
             BeginCompaction, Compact, CompactRecord, CompactRemove, CompactFails, FlushFails,
             CloseFreeze, CloseFlush, threadVars
    <3> QED BY <3>2, <3>3
  <2>3. \A u \in Threads : pc'[u] = "freeze_swap" => pc[u] = "freeze_swap" /\ new_id'[u] = new_id[u]
    <3>1. CASE pc' = pc
      BY <2>2, <3>1
    <3>2. CASE pc' # pc
      <4>1. pc'[t] # "freeze_swap" /\ \A u \in Threads : u # t => pc'[u] = pc[u] /\ new_id'[u] = new_id[u]
        BY <1>0, <2>2, <3>2 DEF EngineTypes
      <4> QED BY <4>1
    <3> QED BY <3>1, <3>2
  <2> QED BY <2>1, <2>3, MemSame
<1>8. CASE CloseBegin \/ CloseDone \/ Destroy
  BY <1>8, MemSame DEF CloseBegin, CloseDone, Destroy, threadVars, ghostVars
<1>9. \A cut \in Cuts : ~Open(cut)
  <2>1. \A cut \in Cuts : Open(cut) => opens' = opens + 1
    BY DEF Open
  <2> QED BY <2>1
<1>10. CASE Next /\ UNCHANGED lsVars
  <2>1. ASSUME NEW c \in Clients, ClientStep(c) PROVE MemKeeps
    BY <1>0, <1>2, <1>3, <1>4, <1>5, <1>7, <1>10, <2>1 DEF ClientStep, FreezeStep, FlushStep
  <2>2. ASSUME FlushThreadStep PROVE MemKeeps
    BY <1>0, <1>5, <1>7, <1>10, <2>2 DEF FlushThreadStep, FlushStep
  <2> QED BY <1>10, <2>1, <2>2 DEF Next
<1>11. CASE \E t \in Threads : CompactStep(t) \/ CompactFails(t) \/ FlushFails(t)
  BY <1>6, <1>7, <1>11 DEF CompactStep
<1> QED BY <1>0, <1>1, <1>7, <1>8, <1>9, <1>10, <1>11, FirstDestroys DEF LsmNext

(* Entry with the SSTables as a parameter. *)
EntryIn(st, maps, tables, k) ==
  OrElse(maps[st.memtable][k],
  OrElse(FirstHit([i \in DOMAIN st.imm_memtables |-> maps[st.imm_memtables[i]]], k),
         SstEntry(st, tables, k)))

(* It depends on the tables of the state only. *)
LEMMA EntryInSame ==
  ASSUME NEW st, NEW f, NEW g, NEW x, NEW y, NEW k, st.imm_memtables \in Seq(Ids),
         \A id \in Memtables(st) : f[id][k] = g[id][k],
         \A id \in st.sstables : x[id] = y[id]
  PROVE  EntryIn(st, f, x, k) = EntryIn(st, g, y, k)
<1> DEFINE imm == st.imm_memtables
           fs == [i \in DOMAIN imm |-> f[imm[i]]]
           gs == [i \in DOMAIN imm |-> g[imm[i]]]
<1>1. SstEntry(st, x, k) = SstEntry(st, y, k)
  BY SstEntrySame
<1>2. f[st.memtable][k] = g[st.memtable][k] /\ \A i \in DOMAIN imm : f[imm[i]][k] = g[imm[i]][k]
  BY DEF Memtables, ToSet
<1>3. /\ DOMAIN gs \in SUBSET Nat /\ DOMAIN fs = DOMAIN gs
      /\ \A i \in DOMAIN gs : fs[i][k] = gs[i][k]
  BY <1>2
<1> HIDE DEF fs, gs
<1>4. FirstHit(fs, k) = FirstHit(gs, k)
  BY <1>3, FirstHitSame
<1> QED BY <1>1, <1>2, <1>4 DEF EntryIn, fs, gs

(* The call of a scan finds the contents of now, because get() would. *)
LEMMA CallHolds ==
  ASSUME ScanInv, ReadsLatest, NEW b \in ScanBounds, ScanCall(b.lower, b.upper)
  PROVE  ScanCalled' /\ SnapshotHeld'
<1>1. /\ life = "up" /\ UNCHANGED vars /\ stores' = {latest}
      /\ scan' = [pc |-> "called", lower |-> b.lower, upper |-> b.upper, snapshot |-> state]
  BY DEF ScanCall
<1>2. scan'.pc = "called" /\ scan'.snapshot = state
  BY <1>1
<1>3. UNCHANGED <<state, mem, sst, pc, new_id, next_sst_id, latest>>
  BY <1>1 DEF vars, wpVars, stateVars, diskVars, threadVars, ghostVars
<1>4. EngineTypes /\ MemtablesApart
  BY DEF ScanInv, EngineInv
<1>5. /\ Memtables(state) = LiveMemtables
      /\ \A id \in LiveMemtables : id < next_sst_id
      /\ \A t \in Threads : pc[t] = "freeze_swap" => new_id[t] \notin LiveMemtables
  BY <1>4 DEF Memtables, ToSet, LiveMemtables, MemtablesApart, MemIds
<1>6. ScanMemtablesApart'
  <2>1. state.memtable \in Ids /\ state.imm_memtables \in Seq(Ids)
    BY <1>4 DEF EngineTypes
  <2>2. \A i \in DOMAIN state.imm_memtables : state.imm_memtables[i] # state.memtable
    BY <1>4 DEF MemtablesApart
  <2>3. \A id \in Memtables(state) :
          id < next_sst_id /\ \A t \in Threads : pc[t] = "freeze_swap" => new_id[t] # id
    BY <1>5
  <2>4. Memtables(scan'.snapshot) = Memtables(state)
    BY <1>2
  <2> QED BY <1>2, <1>3, <2>1, <2>2, <2>3, <2>4 DEF ScanMemtablesApart, Memtables
<1>7. ScanSees(latest)'
  <2>1. \A k \in Keys : Seen(EntryIn(state, mem, sst, k)) = Seen(latest[k])
    BY <1>1 DEF ReadsLatest, Get, Entry, EntryIn
  <2> QED BY <1>2, <1>3, <2>1 DEF ScanSees, Entry, EntryIn
<1>8. ScanCalled'
  BY <1>1, <1>2, <1>3, <1>6, <1>7 DEF ScanCalled
<1>9. SnapshotHeld'
  BY <1>2 DEF SnapshotHeld
<1> QED BY <1>8, <1>9

(* The copies hold what the MemTables held when they were copied. *)
LEMMA CopiesHold ==
  ASSUME ScanInv, ScanMemtables
  PROVE  ScanCalled' /\ SnapshotHeld'
<1> DEFINE st == scan.snapshot
           within(k) == AboveLower(k, scan.lower) /\ BelowUpper(k, scan.upper)
<1>1. ScanOn /\ scan.pc = "called"
  BY ScanSteps DEF ScanInv, ScanMemtables
<1>2. /\ scan'.pc # "called" /\ scan'.snapshot = st /\ scan'.lower = scan.lower
      /\ scan'.upper = scan.upper /\ stores' = stores /\ sst' = sst
      /\ scan'.copies = [i \in Memtables(st) |-> ScanMemtable(mem[i], scan.lower, scan.upper)]
  BY <1>1 DEF ScanOn, vars, wpVars, diskVars
<1>3. PICK store \in stores : ScanSees(store)
  BY <1>1 DEF ScanInv, ScanCalled
<1>4. st.imm_memtables \in Seq(Ids)
  BY <1>1 DEF ScanInv, ScanCalled, ScanMemtablesApart
<1>5. ASSUME NEW k \in Keys, within(k)
      PROVE  Seen(EntryIn(st, scan'.copies, sst', k)) = Seen(store[k])
  <2>1. \A id \in Memtables(st) : scan'.copies[id][k] = mem[id][k]
    BY <1>2, <1>5 DEF ScanMemtable
  <2>2. \A id \in st.sstables : sst'[id] = sst[id]
    BY <1>2
  <2> HIDE DEF st
  <2>3. EntryIn(st, scan'.copies, sst', k) = EntryIn(st, mem, sst, k)
    BY <1>4, <2>1, <2>2, EntryInSame
  <2>4. Seen(EntryIn(st, mem, sst, k)) = Seen(store[k])
    BY <1>3 DEF ScanSees, Entry, EntryIn, st
  <2> QED BY <2>3, <2>4
<1>6. SnapshotHeld'
  <2>1. \A k \in Keys : AboveLower(k, scan'.lower) /\ BelowUpper(k, scan'.upper) =>
          Seen(EntryIn(scan'.snapshot, scan'.copies, sst', k)) = Seen(store[k])
    BY <1>2, <1>5
  <2> QED BY <1>2, <2>1 DEF SnapshotHeld, Entry, EntryIn
<1>7. ScanCalled'
  BY <1>2 DEF ScanCalled
<1> QED BY <1>6, <1>7

(* What was copied stays. *)
LEMMA CopiesStay ==
  ASSUME ScanInv, scan.pc \in {"copied", "reading"}, scan'.pc \in {"copied", "reading"},
         scan'.snapshot = scan.snapshot, scan'.copies = scan.copies,
         scan'.lower = scan.lower, scan'.upper = scan.upper, stores \subseteq stores',
         \A id \in scan.snapshot.sstables : sst'[id] = sst[id]
  PROVE  ScanCalled' /\ SnapshotHeld'
<1>1. PICK store \in stores : \A k \in Keys :
        AboveLower(k, scan.lower) /\ BelowUpper(k, scan.upper) =>
          Seen(Entry(scan.snapshot, scan.copies, k)) = Seen(store[k])
  BY DEF ScanInv, SnapshotHeld
<1>2. ASSUME NEW k PROVE SstEntry(scan.snapshot, sst', k) = SstEntry(scan.snapshot, sst, k)
  BY SstEntrySame
<1>3. ASSUME NEW k PROVE EntryIn(scan.snapshot, scan.copies, sst', k) = Entry(scan.snapshot, scan.copies, k)
  BY <1>2 DEF EntryIn, Entry
<1>4. \A k \in Keys : AboveLower(k, scan'.lower) /\ BelowUpper(k, scan'.upper) =>
        Seen(EntryIn(scan'.snapshot, scan'.copies, sst', k)) = Seen(store[k])
  BY <1>1, <1>3
<1>5. SnapshotHeld'
  BY <1>1, <1>4 DEF SnapshotHeld, Entry, EntryIn
<1>6. ScanCalled'
  BY DEF ScanCalled
<1> QED BY <1>5, <1>6

(* The engine goes on between the call of a scan and its copies: puts go   *)
(* to the MemTable the scan will copy until that is frozen.                *)
LEMMA CalledStays ==
  ASSUME ScanInv, EngineInv', StepKeeps, MemKeeps, scan.pc = "called", scan' = scan,
         stores' = stores \cup {latest'}, \A id \in scan.snapshot.sstables : sst'[id] = sst[id]
  PROVE  ScanCalled'
<1> DEFINE st == scan.snapshot
<1>1. /\ ScanMemtablesApart
      /\ st.memtable = state.memtable => latest \in stores /\ ScanSees(latest)
      /\ st.memtable # state.memtable => \E store \in stores : ScanSees(store)
  BY DEF ScanInv, ScanCalled
<1>2. /\ st.memtable \in Ids /\ st.imm_memtables \in Seq(Ids)
      /\ st.memtable \in Memtables(st) /\ Memtables(st) \subseteq Ids
      /\ \A i \in DOMAIN st.imm_memtables : st.imm_memtables[i] \in Memtables(st)
  <2>1. st.memtable \in Ids /\ st.imm_memtables \in Seq(Ids)
    BY <1>1 DEF ScanMemtablesApart
  <2>2. \A i \in DOMAIN st.imm_memtables : st.imm_memtables[i] \in Ids
    BY <2>1
  <2> QED BY <2>1, <2>2 DEF Memtables, ToSet
<1>3. \A id \in Memtables(st) : id < next_sst_id /\ id \in Nat
                                /\ \A t \in Threads : pc[t] = "freeze_swap" => new_id[t] # id
  <2>1. Ids \subseteq Nat
    BY MemIdsType DEF ScanInv, EngineInv
  <2> QED BY <1>1, <1>2, <2>1 DEF ScanMemtablesApart
<1>4. next_sst_id \in Nat /\ next_sst_id' \in Nat /\ next_sst_id <= next_sst_id'
  BY DEF ScanInv, EngineInv, EngineTypes, StepKeeps
<1>5. \A id \in Memtables(st) : id < next_sst_id' /\ id # next_sst_id
  BY <1>3, <1>4
<1>6. ScanMemtablesApart'
  <2>1. \A id \in Memtables(st) : \A t \in Threads : pc'[t] = "freeze_swap" => new_id'[t] # id
    BY <1>3, <1>5 DEF MemKeeps
  <2>2. ASSUME NEW i \in DOMAIN st.imm_memtables
        PROVE  st.imm_memtables[i] # st.memtable /\ st.imm_memtables[i] # state'.memtable
    <3>1. st.imm_memtables[i] # st.memtable /\ st.imm_memtables[i] # state.memtable
      BY <1>1 DEF ScanMemtablesApart
    <3> QED BY <1>2, <1>3, <3>1 DEF MemKeeps
  <2>3. Memtables(scan'.snapshot) = Memtables(st)
    OBVIOUS
  <2> QED BY <1>2, <1>5, <2>1, <2>2, <2>3 DEF ScanMemtablesApart, Memtables
<1>7. ASSUME mem'[st.memtable] = mem[st.memtable], NEW store, ScanSees(store)
      PROVE  ScanSees(store)'
  <2>1. \A id \in Memtables(st) : mem'[id] = mem[id]
    <3>1. \A id \in Memtables(st) : id = st.memtable \/ id # state.memtable
      BY <1>1 DEF Memtables, ToSet, ScanMemtablesApart
    <3> QED BY <1>2, <1>3, <1>7, <3>1 DEF MemKeeps
  <2>2. ASSUME NEW k \in Keys PROVE Seen(EntryIn(st, mem', sst', k)) = Seen(store[k])
    <3>1. Seen(EntryIn(st, mem, sst, k)) = Seen(store[k])
      BY <1>7 DEF ScanSees, Entry, EntryIn
    <3>2. \A id \in Memtables(st) : mem'[id][k] = mem[id][k]
      BY <2>1
    <3> HIDE DEF st
    <3>3. EntryIn(st, mem', sst', k) = EntryIn(st, mem, sst, k)
      BY <1>2, <3>2, EntryInSame DEF st
    <3> QED BY <3>1, <3>3
  <2> QED BY <2>2 DEF ScanSees, Entry, EntryIn
<1>8. CASE st.memtable # state.memtable
  <2>1. mem'[st.memtable] = mem[st.memtable] /\ st.memtable # state'.memtable
    BY <1>2, <1>3, <1>8 DEF MemKeeps
  <2>2. PICK store \in stores : ScanSees(store)
    BY <1>1, <1>8
  <2>3. \A k \in Keys : Seen(EntryIn(st, mem', sst', k)) = Seen(store[k])
    BY <1>7, <2>1, <2>2 DEF ScanSees, Entry, EntryIn
  <2>4. \E s \in stores' : ScanSees(s)'
    BY <2>3 DEF ScanSees, Entry, EntryIn
  <2> QED BY <1>6, <2>1, <2>4 DEF ScanCalled
<1>9. CASE st.memtable = state.memtable /\ latest' = latest /\ mem'[state.memtable] = mem[state.memtable]
  <2>1. ScanSees(latest) /\ latest \in stores
    BY <1>1, <1>9
  <2>2. \A k \in Keys : Seen(EntryIn(st, mem', sst', k)) = Seen(latest[k])
    BY <1>7, <1>9, <2>1 DEF ScanSees, Entry, EntryIn
  <2>3. \A k \in Keys : Seen(EntryIn(scan'.snapshot, mem', sst', k)) = Seen(latest'[k])
    BY <1>9, <2>2
  <2>4. ScanSees(latest)' /\ latest' \in stores'
    BY <2>3 DEF ScanSees, Entry, EntryIn
  <2>5. \E s \in stores' : ScanSees(s)'
    BY <2>3 DEF ScanSees, Entry, EntryIn
  <2> QED BY <1>6, <2>4, <2>5 DEF ScanCalled
<1>10. ASSUME st.memtable = state.memtable, state'.memtable = state.memtable,
              NEW q \in Keys, NEW e \in Int, e # Absent, latest' = [latest EXCEPT ![q] = e],
              mem'[state.memtable] = [mem[state.memtable] EXCEPT ![q] = e]
       PROVE  ScanCalled'
  <2>1. ScanSees(latest)
    BY <1>1, <1>10
  <2>2. /\ latest'[q] = e /\ \A k \in Keys : k # q => latest'[k] = latest[k]
        /\ mem'[st.memtable][q] = e /\ \A k \in Keys : k # q => mem'[st.memtable][k] = mem[st.memtable][k]
    <3>1. latest = [k \in Keys |-> latest[k]] /\ mem[state.memtable] \in Table
      BY DEF ScanInv, EngineInv, EngineTypes
    <3> QED BY <1>10, <3>1 DEF Table
  <2>3. ASSUME NEW k \in Keys PROVE Seen(EntryIn(st, mem', sst', k)) = Seen(latest'[k])
    <3>1. CASE k = q
      BY <1>10, <2>2, <3>1 DEF EntryIn, OrElse
    <3>2. CASE k # q
      <4>1. Seen(EntryIn(st, mem, sst, k)) = Seen(latest[k])
        BY <2>1 DEF ScanSees, Entry, EntryIn
      <4>2. \A id \in Memtables(st) : id = st.memtable \/ mem'[id] = mem[id]
        BY <1>2, <1>3, <1>10 DEF MemKeeps
      <4>3. \A id \in Memtables(st) : mem'[id][k] = mem[id][k]
        BY <2>2, <3>2, <4>2
      <4> HIDE DEF st
      <4>4. EntryIn(st, mem', sst', k) = EntryIn(st, mem, sst, k)
        BY <1>2, <4>3, EntryInSame DEF st
      <4> QED BY <2>2, <3>2, <4>1, <4>4
    <3> QED BY <3>1, <3>2
  <2>4. \A k \in Keys : Seen(EntryIn(scan'.snapshot, mem', sst', k)) = Seen(latest'[k])
    BY <2>3
  <2>5. ScanSees(latest)' /\ latest' \in stores'
    BY <2>4 DEF ScanSees, Entry, EntryIn
  <2>6. scan'.snapshot.memtable = state'.memtable
    BY <1>10
  <2> QED BY <1>6, <2>5, <2>6 DEF ScanCalled
<1> QED BY <1>8, <1>9, <1>10 DEF MemKeeps

(* Every step. *)
LEMMA ScanInvStep ==
  ASSUME ScanInv, ReadsLatest, [ScanNextState]_<<vars, scanVars>>, opens = 1, opens' = opens
  PROVE  ScanInv'
<1>1. /\ EngineInv' /\ ScanTables'
      /\ \A id \in state.sstables \cup (IF scan.pc \in {"idle", "done"} THEN {}
                                        ELSE scan.snapshot.sstables) : sst'[id] = sst[id]
  BY ScanTablesStep DEF ScanInv
<1>2. Scanning => \A id \in scan.snapshot.sstables : sst'[id] = sst[id]
  BY <1>1 DEF Scanning
<1> SUFFICES ScanCalled' /\ SnapshotHeld'
  BY <1>1 DEF ScanInv
<1>3. CASE EngineStep
  <2>1. /\ scan' = IF life' = "down" THEN NoScan ELSE scan
        /\ stores' = IF scan.pc \in {"called", "copied"} THEN stores \cup {latest'} ELSE stores
    BY <1>3 DEF EngineStep
  <2>2. CASE scan' = NoScan
    <3>1. scan'.pc = "idle"
      BY <2>2 DEF NoScan
    <3> QED BY <3>1 DEF ScanCalled, SnapshotHeld
  <2>3. CASE scan' = scan /\ scan.pc = "called"
    <3>1. ~Crash
      <4>1. Crash => scan' = NoScan
        BY <2>1 DEF Crash
      <4>2. NoScan.pc = "idle"
        BY DEF NoScan
      <4> QED BY <2>3, <4>1, <4>2
    <3>2. StepKeeps /\ MemKeeps
      BY <1>3, <3>1, ProcessStep, ProcessMem DEF ScanInv, EngineStep
    <3>3. ScanCalled'
      BY <1>1, <1>2, <2>1, <2>3, <3>2, CalledStays DEF Scanning
    <3> QED BY <2>3, <3>3 DEF SnapshotHeld
  <2>4. CASE scan' = scan /\ scan.pc \in {"copied", "reading"}
    <3>1. stores \subseteq stores'
      BY <2>1
    <3> QED BY <1>2, <2>4, <3>1, CopiesStay DEF Scanning
  <2>5. CASE scan' = scan /\ scan.pc \in {"idle", "done"}
    BY <2>5 DEF ScanCalled, SnapshotHeld
  <2> QED BY <2>1, <2>2, <2>3, <2>4, <2>5 DEF ScanInv, ScanTables
<1>4. ASSUME NEW b \in ScanBounds, ScanCall(b.lower, b.upper) PROVE ScanCalled' /\ SnapshotHeld'
  BY <1>4, CallHolds
<1>5. CASE ScanMemtables
  BY <1>5, CopiesHold
<1>6. CASE ScanReturn \/ ScanNext
  <2>1. ScanOn /\ scan.pc \in {"copied", "reading"}
    BY <1>6, ScanSteps DEF ScanInv, ScanReturn, ScanNext
  <2>2. /\ scan'.pc \in {"copied", "reading"} /\ scan'.snapshot = scan.snapshot
        /\ scan'.copies = scan.copies /\ scan'.lower = scan.lower /\ scan'.upper = scan.upper
        /\ stores \subseteq stores'
    BY <2>1 DEF ScanOn
  <2> QED BY <1>2, <2>1, <2>2, CopiesStay DEF Scanning
<1>7. CASE ScanDone
  <2>1. scan'.pc = "done"
    BY <1>7 DEF ScanDone
  <2> QED BY <2>1 DEF ScanCalled, SnapshotHeld
<1>8. CASE UNCHANGED <<vars, scanVars>>
  <2>1. UNCHANGED <<scan, stores, state, mem, sst, pc, new_id, next_sst_id, latest>>
    BY <1>8 DEF scanVars, vars, wpVars, stateVars, diskVars, threadVars, ghostVars
  <2> QED BY <2>1 DEF ScanInv, ScanCalled, SnapshotHeld, ScanMemtablesApart, ScanSees, Memtables,
                      Entry
<1> QED BY <1>3, <1>4, <1>5, <1>6, <1>7, <1>8 DEF ScanNextState

(* The scan runs beside the engine and changes nothing of it. *)
LEMMA ScanStepIsLsmStep == [ScanNextState]_<<vars, scanVars>> => [LsmNext]_vars
BY DEF ScanNextState, EngineStep, ScanCall, ScanMemtables, ScanReturn, ScanNext, ScanDone

(* The invariant of a first life. *)
FirstScan == opens \in 1 .. MaxOpens /\ (opens = 1 => ScanInv)

(* Until the process is opened again every step keeps it. *)
LEMMA FirstScanStep ==
  ASSUME FirstScan, opens = 1 => ReadsLatest, [ScanNextState]_<<vars, scanVars>>
  PROVE  FirstScan'
<1>1. /\ opens' \in 1 .. MaxOpens
      /\ opens' = opens \/ opens' # 1
  BY ScanStepIsLsmStep, OpensCounts DEF FirstScan
<1>2. ASSUME opens' = 1 PROVE ScanInv'
  BY <1>1, <1>2, ScanInvStep DEF FirstScan
<1> QED BY <1>1, <1>2 DEF FirstScan

(* So it holds of every behaviour. *)
LEMMA FirstScanHolds == ScanSpec /\ [](opens = 1 => ReadsLatest) => []FirstScan
<1>1. ScanInit => FirstScan
  <2> SUFFICES ASSUME ScanInit PROVE FirstScan
    OBVIOUS
  <2>1. scan.pc = "idle"
    BY DEF ScanInit, NoScan
  <2>2. ScanTables /\ ScanCalled /\ SnapshotHeld
    BY <2>1 DEF ScanTables, Scanning, ScanCalled, SnapshotHeld
  <2>3. opens \in 1 .. MaxOpens
    BY FaultsAssumption DEF ScanInit, LsmInit
  <2> QED BY <2>2, <2>3, InitEngine DEF FirstScan, ScanInv, ScanInit
<1>2. FirstScan /\ (opens = 1 => ReadsLatest) /\ [ScanNextState]_<<vars, scanVars>> => FirstScan'
  BY FirstScanStep
<1> QED BY <1>1, <1>2, PTL DEF ScanSpec

(* A scan holds a snapshot: in a store whose get() answers with the value  *)
(* put last, the MemTables a scan has copied and the SSTables it holds     *)
(* have the contents of one moment between its call and its return,        *)
(* whatever puts, freezes, flushes and compactions came in between.        *)
THEOREM ScanSnapshot ==
  ScanSpec /\ [](opens = 1 => ReadsLatest) => [](opens = 1 => SnapshotHeld)
<1>1. FirstScan => (opens = 1 => SnapshotHeld)
  BY DEF FirstScan, ScanInv
<1> QED BY <1>1, FirstScanHolds, PTL

(* The scan's steps are none of the engine's. *)
LEMMA ScanSpecIsLsmSpec == ScanSpec => LsmSpec
<1>1. ScanInit => LsmInit
  BY DEF ScanInit
<1> QED BY <1>1, ScanStepIsLsmStep, PTL DEF ScanSpec, LsmSpec

(* Beside the simple or the tiered strategy every scan holds a snapshot,   *)
(* and so does one beside force_full_compaction(), one call at a time.     *)
THEOREM ScanSnapshotCorrect ==
  ASSUME StrategyAssumed
  PROVE  /\ ScanSpec /\ []OneCompaction => [](opens = 1 => SnapshotHeld)
         /\ CompactionOptions.type # "NoCompaction" => (ScanSpec => [](opens = 1 => SnapshotHeld))
<1>1. ScanSpec => LsmSpec
  BY ScanSpecIsLsmSpec
<1>2. ScanSpec /\ []OneCompaction => [](opens = 1 => SnapshotHeld)
  BY <1>1, CompactionReadsLatest, ScanSnapshot, PTL
<1>3. ASSUME CompactionOptions.type # "NoCompaction"
      PROVE  ScanSpec => [](opens = 1 => SnapshotHeld)
  <2>1. LsmSpec => []OneCompaction
    BY <1>3, CompactionsApart
  <2> QED BY <1>1, <1>2, <2>1, PTL
<1> QED BY <1>2, <1>3

-----------------------------------------------------------------------------
(* What a scan yields *)

(* The state a scan holds: its SSTables hold keys and are in order in the  *)
(* levels.                                                                 *)
SnapshotSound(st, tables) ==
  /\ st \in StateOver(Ids) /\ RefsOpen(st)
  /\ \A id \in st.sstables : tables[id] \in Table /\ KeysOfTable(tables[id]) # {}
  /\ \A l \in DOMAIN st.levels : InOrder(tables, st.levels[l].ssts)

(* The copies of its MemTables hold no key below the lower bound. *)
CopiesSound(st, copies, lower) ==
  \A i \in Memtables(st) : copies[i] \in Table /\ \A k \in KeysOfTable(copies[i]) : FromKey(lower) <= k

(* What the handles of its iterators refer to. *)
SourceOf(st, copies, tables) ==
  [h \in ToSet(MemHandles(st)) \cup st.sstables |-> IF h < 0 THEN copies[-1 - h] ELSE tables[h]]

OpenLevels(st) == [i \in DOMAIN st.levels |-> OpenOf(st, st.levels[i].ssts)]

(* Its iterator has yielded what it has read so far. *)
ScanProceeds(st, copies, tables, lower, upper, it, yielded) ==
  \E as, bs, cs : ScanReads(SourceOf(st, copies, tables), MemHandles(st), OpenOf(st, st.l0_sstables),
                            OpenLevels(st), lower, upper, it, yielded, as, bs, cs)

(* The state stays so while its tables do. *)
LEMMA SoundStays ==
  ASSUME NEW st, NEW x, NEW y, SnapshotSound(st, x), \A id \in st.sstables : y[id] = x[id]
  PROVE  SnapshotSound(st, y)
<1>1. ASSUME NEW l \in DOMAIN st.levels PROVE InOrder(y, st.levels[l].ssts)
  <2>1. PICK run : run = st.levels[l].ssts
    OBVIOUS
  <2>2. InOrder(x, run) /\ \A i \in DOMAIN run : run[i] \in st.sstables
    BY <2>1 DEF SnapshotSound, RefsOpen
  <2>3. InOrder(y, run)
    BY <2>2, OrderStays
  <2> QED BY <2>1, <2>3
<1> QED BY <1>1 DEF SnapshotSound

(* The handles of the MemTables, the active one first. *)
HandlesOf(st, m, imm, n, hs) ==
  /\ n \in Nat /\ DOMAIN imm = 1 .. n /\ DOMAIN hs = 1 .. n + 1 /\ hs \in Seq(ToSet(hs))
  /\ hs[1] = -1 - m /\ \A i \in 1 .. n : hs[i + 1] = -1 - imm[i]
  /\ \A h \in ToSet(hs) : h \in Int /\ h < 0 /\ -1 - h \in Memtables(st)
  /\ \A i \in Memtables(st) : i \in Nat /\ -1 - i < 0 /\ -1 - (-1 - i) = i

(* MemHandles makes them. *)
LEMMA MemHandlesAre ==
  ASSUME NEW st \in StateOver(Ids)
  PROVE  HandlesOf(st, st.memtable, st.imm_memtables, Len(st.imm_memtables), MemHandles(st))
<1>0. PICK n, hs : n = Len(st.imm_memtables) /\ hs = MemHandles(st)
  OBVIOUS
<1>1. PICK m, imm : m = st.memtable /\ imm = st.imm_memtables
  OBVIOUS
<1>2. m \in Nat /\ n \in Nat /\ DOMAIN imm = 1 .. n /\ \A i \in 1 .. n : imm[i] \in Nat
  <2>1. \A i \in Ids : i \in Nat
    BY BoundsAssumption DEF Ids
  <2>2. m \in Ids /\ imm \in Seq(Ids)
    BY <1>1 DEF StateOver
  <2> QED BY <1>0, <1>1, <2>1, <2>2
<1>3. PICK g : g = [i \in 1 .. n |-> -1 - imm[i]]
  OBVIOUS
<1>4. g \in Seq(Int) /\ Len(g) = n /\ \A i \in 1 .. n : g[i] = -1 - imm[i]
  <2>1. g = [i \in 1 .. n |-> g[i]] /\ \A i \in 1 .. n : g[i] = -1 - imm[i] /\ g[i] \in Int
    BY <1>2, <1>3
  <2> QED BY ONLY <1>2, <2>1, FunctionIsSeq
<1>5. hs = <<-1 - m>> \o g
  BY <1>0, <1>1, <1>2, <1>3 DEF MemHandles
<1>6. /\ DOMAIN hs = 1 .. n + 1 /\ hs \in Seq(Int) /\ hs[1] = -1 - m
      /\ \A i \in 1 .. n : hs[i + 1] = g[i]
  BY ONLY <1>2, <1>4, <1>5
<1>7. hs \in Seq(ToSet(hs))
  <2>1. \A i \in 1 .. n + 1 : hs[i] \in ToSet(hs)
    BY <1>6 DEF ToSet
  <2>2. hs = [i \in 1 .. n + 1 |-> hs[i]] /\ n + 1 \in Nat
    BY ONLY <1>2, <1>6
  <2> QED BY ONLY <2>1, <2>2, FunctionIsSeq
<1>8. \A i \in Memtables(st) : i \in Nat
  BY <1>1, <1>2 DEF Memtables, ToSet
<1>9. ASSUME NEW h \in ToSet(hs) PROVE h \in Int /\ h < 0 /\ -1 - h \in Memtables(st)
  <2>1. PICK j \in 1 .. n + 1 : h = hs[j]
    BY <1>6 DEF ToSet
  <2>2. CASE j = 1
    <3>1. m \in Memtables(st) /\ h = -1 - m
      BY <1>1, <1>6, <2>1, <2>2 DEF Memtables
    <3> QED BY <1>2, <3>1
  <2>3. CASE j # 1
    <3>1. j - 1 \in 1 .. n /\ j = (j - 1) + 1
      BY <1>4, <2>1, <2>3
    <3>2. h = -1 - imm[j - 1] /\ imm[j - 1] \in Nat
      BY <1>2, <1>4, <1>6, <2>1, <3>1
    <3>3. imm[j - 1] \in Memtables(st)
      BY <1>1, <1>2, <3>1 DEF Memtables, ToSet
    <3> QED BY <3>2, <3>3
  <2> QED BY <2>2, <2>3
<1>10. \A i \in Memtables(st) : -1 - i < 0 /\ -1 - (-1 - i) = i
  BY <1>8
<1>11. \A i \in 1 .. n : hs[i + 1] = -1 - imm[i]
  BY <1>4, <1>6
<1>12. HandlesOf(st, m, imm, n, hs)
  BY <1>2, <1>6, <1>7, <1>8, <1>9, <1>10, <1>11 DEF HandlesOf
<1> QED BY <1>0, <1>1, <1>12

(* What they refer to. *)
LEMMA SourceIs ==
  ASSUME NEW st \in StateOver(Ids), NEW copies, NEW tables, NEW src, src = SourceOf(st, copies, tables)
  PROVE  /\ DOMAIN src = ToSet(MemHandles(st)) \cup st.sstables
         /\ \A h \in ToSet(MemHandles(st)) : src[h] = copies[-1 - h]
         /\ \A id \in st.sstables : src[id] = tables[id]
<1>1. \A h \in ToSet(MemHandles(st)) : h \in Int /\ h < 0
  BY MemHandlesAre DEF HandlesOf
<1>2. \A id \in st.sstables : id \in Nat
  BY BoundsAssumption DEF StateOver, Ids
<1>3. \A id \in st.sstables : ~(id < 0)
  BY <1>2
<1> QED BY <1>1, <1>3 DEF SourceOf

(* It stays the same while the tables do. *)
LEMMA SourceSame ==
  ASSUME NEW st \in StateOver(Ids), NEW copies, NEW x, NEW y, \A id \in st.sstables : y[id] = x[id]
  PROVE  SourceOf(st, copies, y) = SourceOf(st, copies, x)
<1> DEFINE H == ToSet(MemHandles(st)) \cup st.sstables
<1>1. ASSUME NEW h \in H
      PROVE  (IF h < 0 THEN copies[-1 - h] ELSE y[h]) = (IF h < 0 THEN copies[-1 - h] ELSE x[h])
  <2>1. \A g \in ToSet(MemHandles(st)) : g < 0
    BY MemHandlesAre DEF HandlesOf
  <2> QED BY <2>1
<1> QED BY <1>1, Zenon DEF SourceOf

(* What scan() is given, and what is read of it for a key. *)
SnapshotGiven(st, copies, tables, lower, upper) ==
  LET src == SourceOf(st, copies, tables) IN
  /\ ScanInput(DOMAIN src, src, MemHandles(st), OpenOf(st, st.l0_sstables), OpenLevels(st), lower, upper)
  /\ \A k \in Keys : ScanTable(src, MemHandles(st), OpenOf(st, st.l0_sstables), OpenLevels(st), k) =
                       EntryIn(st, copies, tables, k)

(* That is what get() would read in the state the scan holds. *)
LEMMA SnapshotIsGiven ==
  ASSUME NEW st, NEW copies, NEW tables, NEW lower \in Bounds, NEW upper \in Bounds,
         SnapshotSound(st, tables), CopiesSound(st, copies, lower)
  PROVE  SnapshotGiven(st, copies, tables, lower, upper)
<1>1. PICK src, hs, O : src = SourceOf(st, copies, tables) /\ hs = MemHandles(st) /\ O = st.sstables
  OBVIOUS
<1>2. PICK imm, n : imm = st.imm_memtables /\ n = Len(imm)
  OBVIOUS
<1>3. PICK l0, lv : l0 = st.l0_sstables /\ lv = st.levels
  OBVIOUS
<1>4. PICK H : H = DOMAIN src
  OBVIOUS
<1>5. st \in StateOver(Ids)
  BY DEF SnapshotSound
<1>6. /\ n \in Nat /\ DOMAIN imm = 1 .. n /\ DOMAIN hs = 1 .. n + 1 /\ hs \in Seq(ToSet(hs))
      /\ hs[1] = -1 - st.memtable /\ \A i \in 1 .. n : hs[i + 1] = -1 - imm[i]
      /\ \A h \in ToSet(hs) : h \in Int /\ h < 0 /\ -1 - h \in Memtables(st)
      /\ \A i \in Memtables(st) : i \in Nat /\ -1 - i < 0 /\ -1 - (-1 - i) = i
  <2>1. HandlesOf(st, st.memtable, imm, n, hs)
    BY <1>1, <1>2, <1>5, MemHandlesAre
  <2> QED BY <2>1 DEF HandlesOf
<1>7. /\ H = ToSet(hs) \cup O /\ \A h \in ToSet(hs) : src[h] = copies[-1 - h]
      /\ \A id \in O : src[id] = tables[id]
  BY <1>1, <1>4, <1>5, SourceIs
<1>8. /\ \A id \in O : tables[id] \in Table /\ KeysOfTable(tables[id]) # {}
      /\ \A i \in DOMAIN l0 : l0[i] \in O
      /\ \A l \in DOMAIN lv : InOrder(tables, lv[l].ssts)
      /\ \A l \in DOMAIN lv : \A i \in DOMAIN lv[l].ssts : lv[l].ssts[i] \in O
  BY <1>1, <1>3 DEF SnapshotSound, RefsOpen
<1>9. \A h \in H : src[h] \in Table
  BY <1>6, <1>7, <1>8 DEF CopiesSound
<1>10. hs \in Seq(H)
  <2>1. \A i \in 1 .. n + 1 : hs[i] \in H
    BY <1>6, <1>7 DEF ToSet
  <2>2. hs = [i \in 1 .. n + 1 |-> hs[i]] /\ n + 1 \in Nat
    BY ONLY <1>6
  <2> QED BY ONLY <2>1, <2>2, FunctionIsSeq
<1>11. \A i \in DOMAIN hs : \A k \in KeysOfTable(src[hs[i]]) : FromKey(lower) <= k
  <2>1. \A i \in DOMAIN hs : hs[i] \in ToSet(hs)
    BY DEF ToSet
  <2> QED BY <1>6, <1>7, <2>1 DEF CopiesSound
<1>12. /\ Len(l0) \in Nat /\ DOMAIN l0 = 1 .. Len(l0) /\ Len(lv) \in Nat /\ DOMAIN lv = 1 .. Len(lv)
  BY <1>3, <1>5 DEF StateOver
<1>13. ASSUME NEW run, Len(run) \in Nat, DOMAIN run = 1 .. Len(run), run = [i \in 1 .. Len(run) |-> run[i]],
              \A i \in DOMAIN run : run[i] \in O
       PROVE  /\ \A k \in Keys : KeepsFor(H, src, run, k, Filtered(run, O))
              /\ Filtered(run, O) \in Seq(H)
              /\ \A i \in DOMAIN Filtered(run, O) : KeysOfTable(src[Filtered(run, O)[i]]) # {}
              /\ InOrder(tables, run) => InOrder(src, Filtered(run, O))
              /\ [i \in DOMAIN run |-> src[run[i]]] = Handles(st, tables, run)
              /\ InOrder(tables, run) => InOrder(src, run)
  <2>1. \A i \in 1 .. Len(run) : run[i] \in H
    BY <1>7, <1>13
  <2>2. run \in Seq(H)
    BY ONLY <1>13, <2>1, FunctionIsSeq
  <2>3. \A i \in DOMAIN run : src[run[i]] = tables[run[i]] /\ KeysOfTable(src[run[i]]) # {}
    BY <1>7, <1>8, <1>13
  <2>4. \A k \in Keys : KeepsFor(H, src, run, k, Filtered(run, O))
    BY <1>9, <1>13, <2>2, <2>3, FilteredKeeps
  <2>5. [i \in DOMAIN run |-> src[run[i]]] = Handles(st, tables, run)
    BY <1>1, <1>13, <2>3 DEF Handles, Handle
  <2>6. InOrder(tables, run) => InOrder(src, run)
    BY <2>3, OrderStays
  <2>7. PICK r : r = Filtered(run, O)
    OBVIOUS
  <2>8. r \in Seq(H)
    BY <2>2, <2>7, FilteredPicks
  <2>9. \A i \in DOMAIN r : KeysOfTable(src[r[i]]) # {}
    <3>1. PICK m : Picks(run, O, Len(run), r, m)
      BY <2>2, <2>7, FilteredPicks
    <3>2. DOMAIN r = 1 .. Len(r) /\ \A i \in 1 .. Len(r) : m[i] \in DOMAIN run /\ r[i] = run[m[i]]
      BY <1>13, <2>8, <3>1 DEF Picks
    <3> QED BY <2>3, <3>2
  <2>10. InOrder(tables, run) => InOrder(src, r)
    BY <2>2, <2>6, <2>7, FilteredRun
  <2> QED BY <2>4, <2>5, <2>6, <2>7, <2>8, <2>9, <2>10
<1>14. l0 = [i \in 1 .. Len(l0) |-> l0[i]]
  BY <1>3, <1>5 DEF StateOver
<1>15. ASSUME NEW l \in DOMAIN lv
       PROVE  /\ Len(lv[l].ssts) \in Nat /\ DOMAIN lv[l].ssts = 1 .. Len(lv[l].ssts)
              /\ lv[l].ssts = [i \in 1 .. Len(lv[l].ssts) |-> lv[l].ssts[i]]
  <2>1. lv \in Seq(LevelOver(Ids))
    BY <1>3, <1>5 DEF StateOver
  <2>2. lv[l] \in LevelOver(Ids)
    BY <2>1
  <2>3. PICK run : run = lv[l].ssts
    OBVIOUS
  <2>4. run \in Seq(Ids)
    BY <2>2, <2>3 DEF LevelOver
  <2> QED BY <2>3, <2>4
<1>16. PICK rs : rs = [l \in DOMAIN lv |-> Filtered(lv[l].ssts, O)]
  OBVIOUS
<1>17. OpenLevels(st) = rs /\ OpenOf(st, l0) = Filtered(l0, O)
  BY <1>1, <1>3, <1>16 DEF OpenLevels, OpenOf
<1>18. PICK r0 : r0 = Filtered(l0, O)
  OBVIOUS
<1>19. /\ \A k \in Keys : KeepsFor(H, src, l0, k, r0)
       /\ r0 \in Seq(H) /\ \A i \in DOMAIN r0 : KeysOfTable(src[r0[i]]) # {}
       /\ [i \in DOMAIN l0 |-> src[l0[i]]] = Handles(st, tables, l0)
  BY <1>8, <1>12, <1>13, <1>14, <1>18
<1>20. ASSUME NEW l \in DOMAIN lv
       PROVE  /\ \A k \in Keys : KeepsFor(H, src, lv[l].ssts, k, rs[l])
              /\ InOrder(src, lv[l].ssts) /\ InOrder(src, rs[l]) /\ rs[l] \in Seq(H)
              /\ \A i \in DOMAIN rs[l] : KeysOfTable(src[rs[l][i]]) # {}
              /\ [i \in DOMAIN lv[l].ssts |-> src[lv[l].ssts[i]]] = Handles(st, tables, lv[l].ssts)
  <2>1. PICK run, r : run = lv[l].ssts /\ r = Filtered(run, O)
    OBVIOUS
  <2>2. /\ Len(run) \in Nat /\ DOMAIN run = 1 .. Len(run) /\ run = [i \in 1 .. Len(run) |-> run[i]]
        /\ \A i \in DOMAIN run : run[i] \in O
    BY <1>8, <1>15, <2>1
  <2>3. InOrder(tables, run)
    BY <1>8, <2>1
  <2>4. /\ \A k \in Keys : KeepsFor(H, src, run, k, r)
        /\ InOrder(src, run) /\ InOrder(src, r) /\ r \in Seq(H)
        /\ \A i \in DOMAIN r : KeysOfTable(src[r[i]]) # {}
        /\ [i \in DOMAIN run |-> src[run[i]]] = Handles(st, tables, run)
    BY <1>13, <2>1, <2>2, <2>3
  <2>5. rs[l] = r
    BY <1>16, <2>1
  <2> QED BY <2>1, <2>4, <2>5
<1>21. Len(rs) = Len(lv) /\ DOMAIN rs = 1 .. Len(lv)
  BY <1>12, <1>16
<1>22. ScanInput(H, src, hs, r0, rs, lower, upper)
  BY <1>9, <1>10, <1>11, <1>12, <1>19, <1>20, <1>21 DEF ScanInput
<1>23. ASSUME NEW k \in Keys PROVE ScanTable(src, hs, r0, rs, k) = EntryIn(st, copies, tables, k)
  <2> DEFINE ts == [i \in DOMAIN imm |-> copies[imm[i]]]
             us == [i \in DOMAIN hs |-> src[hs[i]]]
             vs == [l \in DOMAIN lv |-> Concat(Handles(st, tables, lv[l].ssts))]
             ws == [l \in DOMAIN rs |-> RunTable(src, rs[l])]
  <2>1. PICK m : m = copies[st.memtable][k]
    OBVIOUS
  <2>2. FirstHit(us, k) = OrElse(m, FirstHit(ts, k))
    <3>1. \A i \in 1 .. n + 1 : hs[i] \in ToSet(hs)
      BY <1>6 DEF ToSet
    <3>2. st.memtable \in Memtables(st) /\ \A i \in 1 .. n : imm[i] \in Memtables(st)
      BY <1>2, <1>6 DEF Memtables, ToSet
    <3>3. 1 \in 1 .. n + 1 /\ \A i \in 1 .. n : i + 1 \in 1 .. n + 1
      BY <1>6
    <3>4. src[hs[1]] = copies[st.memtable] /\ \A i \in 1 .. n : src[hs[i + 1]] = copies[imm[i]]
      <4>1. \A i \in 1 .. n + 1 : src[hs[i]] = copies[-1 - hs[i]]
        BY ONLY <1>7, <3>1
      <4>2. -1 - hs[1] = st.memtable /\ \A i \in 1 .. n : -1 - hs[i + 1] = imm[i]
        BY ONLY <1>6, <3>2, <3>3
      <4> QED BY ONLY <3>3, <4>1, <4>2
    <3>5. /\ DOMAIN ts = 1 .. n /\ DOMAIN us = 1 .. n + 1
          /\ us[1] = copies[st.memtable] /\ \A i \in 1 .. n : us[i + 1] = ts[i]
      BY <1>6, <3>3, <3>4
    <3> HIDE DEF ts, us
    <3>6. FirstHit(us, k) = OrElse(us[1][k], FirstHit(ts, k))
      <4>1. n \in Nat
        BY <1>6
      <4>2. PICK x, y : x = us /\ y = ts
        OBVIOUS
      <4>3. DOMAIN y = 1 .. n /\ DOMAIN x = 1 .. n + 1 /\ \A i \in 1 .. n : x[i + 1] = y[i]
        BY <3>5, <4>2
      <4>4. FirstHit(x, k) = OrElse(x[1][k], FirstHit(y, k))
        BY ONLY <4>1, <4>3, FirstHitCons
      <4> QED BY <4>2, <4>4
    <3> QED BY <2>1, <3>5, <3>6
  <2>3. FirstHit([i \in DOMAIN r0 |-> src[r0[i]]], k) = FirstHit(Handles(st, tables, l0), k)
    BY <1>19 DEF KeepsFor
  <2>4. FirstHit(ws, k) = FirstHit(vs, k)
    <3>1. ASSUME NEW l \in DOMAIN lv PROVE ws[l][k] = vs[l][k]
      <4>1. RunTable(src, rs[l])[k] = RunTable(src, lv[l].ssts)[k]
        BY <1>20 DEF KeepsFor
      <4>2. RunTable(src, lv[l].ssts) = Concat(Handles(st, tables, lv[l].ssts))
        BY <1>20 DEF RunTable
      <4> QED BY <1>12, <1>21, <4>1, <4>2
    <3>2. DOMAIN ws = DOMAIN vs /\ DOMAIN vs \in SUBSET Nat /\ DOMAIN vs = DOMAIN lv
      BY <1>12, <1>21
    <3> HIDE DEF ws, vs
    <3> QED BY ONLY <3>1, <3>2, FirstHitSame
  <2>5. PICK a, b, c, d : /\ a = FirstHit(ts, k) /\ b = FirstHit(Handles(st, tables, l0), k)
                          /\ c = FirstHit(vs, k) /\ d = FirstHit(us, k)
    OBVIOUS
  <2>6. ScanTable(src, hs, r0, rs, k) = OrElse(OrElse(d, b), c)
    BY <2>3, <2>4, <2>5 DEF ScanTable
  <2>7. EntryIn(st, copies, tables, k) = OrElse(m, OrElse(a, OrElse(b, c)))
    BY <1>2, <1>3, <2>1, <2>5 DEF EntryIn, SstEntry
  <2>8. d = OrElse(m, a)
    BY <2>2, <2>5
  <2> QED BY ONLY <2>6, <2>7, <2>8 DEF OrElse
<1> QED BY <1>1, <1>3, <1>4, <1>17, <1>18, <1>22, <1>23 DEF SnapshotGiven

(* The iterator scan() creates has yielded nothing. *)
LEMMA ProceedsFirst ==
  ASSUME NEW st, NEW copies, NEW tables, NEW lower \in Bounds, NEW upper \in Bounds,
         SnapshotSound(st, tables), CopiesSound(st, copies, lower)
  PROVE  ScanProceeds(st, copies, tables, lower, upper,
                      ScanCreate(SourceOf(st, copies, tables), MemHandles(st), OpenOf(st, st.l0_sstables),
                                 OpenLevels(st), lower, upper), <<>>)
<1>1. PICK src, hs, l0, lv : /\ src = SourceOf(st, copies, tables) /\ hs = MemHandles(st)
                             /\ l0 = OpenOf(st, st.l0_sstables) /\ lv = OpenLevels(st)
  OBVIOUS
<1>2. ScanInput(DOMAIN src, src, hs, l0, lv, lower, upper)
  BY <1>1, SnapshotIsGiven DEF SnapshotGiven
<1>3. \E as, bs, cs : ScanReads(src, hs, l0, lv, lower, upper,
                                ScanCreate(src, hs, l0, lv, lower, upper), <<>>, as, bs, cs)
  BY <1>2, ScanStarts
<1> QED BY <1>1, <1>3 DEF ScanProceeds

(* next() yields one more entry. *)
LEMMA ProceedsNext ==
  ASSUME NEW st, NEW copies, NEW tables, NEW lower \in Bounds, NEW upper \in Bounds, NEW it, NEW y,
         ScanProceeds(st, copies, tables, lower, upper, it, y), it.valid
  PROVE  ScanProceeds(st, copies, tables, lower, upper, LsmIteratorNext(SourceOf(st, copies, tables), it),
                      Append(y, [key |-> StackKey(it.inner),
                                 ent |-> StackEntry(SourceOf(st, copies, tables), it.inner)]))
<1>1. PICK src, hs, l0, lv : /\ src = SourceOf(st, copies, tables) /\ hs = MemHandles(st)
                             /\ l0 = OpenOf(st, st.l0_sstables) /\ lv = OpenLevels(st)
  OBVIOUS
<1>2. PICK as, bs, cs : ScanReads(src, hs, l0, lv, lower, upper, it, y, as, bs, cs)
  BY <1>1 DEF ScanProceeds
<1>3. PICK j, z : /\ j = LsmIteratorNext(src, it)
                  /\ z = Append(y, [key |-> StackKey(it.inner), ent |-> StackEntry(src, it.inner)])
  OBVIOUS
<1>4. ScanStack(src, as, bs, cs) /\ Reading(src, as, bs, cs, lower, upper, it, y)
  BY <1>2 DEF ScanReads
<1>5. Reading(src, as, bs, cs, lower, upper, j, z)
  BY <1>3, <1>4, ReadingNext
<1>6. ScanReads(src, hs, l0, lv, lower, upper, j, z, as, bs, cs)
  BY <1>2, <1>5 DEF ScanReads
<1>7. ScanProceeds(st, copies, tables, lower, upper, j, z)
  BY <1>1, <1>6 DEF ScanProceeds
<1> QED BY <1>1, <1>3, <1>7

(* Between two calls the tables stay, so nothing changes for it. *)
LEMMA ProceedsOn ==
  ASSUME NEW st \in StateOver(Ids), NEW copies, NEW x, NEW z, \A id \in st.sstables : z[id] = x[id],
         NEW lower, NEW upper, NEW it, NEW y, ScanProceeds(st, copies, x, lower, upper, it, y)
  PROVE  ScanProceeds(st, copies, z, lower, upper, it, y)
<1>1. SourceOf(st, copies, z) = SourceOf(st, copies, x)
  BY SourceSame
<1> QED BY <1>1 DEF ScanProceeds

(* It lists a store in which the same values are seen as in the state it   *)
(* holds.                                                                  *)
LEMMA ProceedsLists ==
  ASSUME NEW st, NEW copies, NEW tables, NEW lower \in Bounds, NEW upper \in Bounds, NEW it, NEW y,
         SnapshotSound(st, tables), CopiesSound(st, copies, lower),
         ScanProceeds(st, copies, tables, lower, upper, it, y), NEW store \in Table,
         \A k \in Keys : AboveLower(k, lower) /\ BelowUpper(k, upper) =>
                           Seen(EntryIn(st, copies, tables, k)) = Seen(store[k])
  PROVE  Lists(y, store, lower, upper, ~it.valid)
<1>1. PICK src, hs, l0, lv : /\ src = SourceOf(st, copies, tables) /\ hs = MemHandles(st)
                             /\ l0 = OpenOf(st, st.l0_sstables) /\ lv = OpenLevels(st)
  OBVIOUS
<1>2. PICK as, bs, cs : ScanReads(src, hs, l0, lv, lower, upper, it, y, as, bs, cs)
  BY <1>1 DEF ScanProceeds
<1>3. ScanStack(src, as, bs, cs) /\ Reading(src, as, bs, cs, lower, upper, it, y)
  BY <1>2 DEF ScanReads
<1>4. PICK T, ended : T = StackTable(src, as, bs, cs) /\ ended = ~it.valid
  OBVIOUS
<1>5. Lists(y, T, lower, upper, ended)
  BY <1>3, <1>4, ReadingLists
<1>6. T \in Table
  <2>1. MergeTable(src, as) \in Table /\ MergeTable(src, bs) \in Table /\ MergeTable(src, cs) \in Table
    BY <1>3, MergeTableType DEF ScanStack
  <2> QED BY <1>4, <2>1, OverType DEF StackTable, PairTable
<1>7. \A k \in Keys : ScanTable(src, hs, l0, lv, k) = EntryIn(st, copies, tables, k)
  BY <1>1, SnapshotIsGiven DEF SnapshotGiven
<1>8. ASSUME NEW k \in Keys, AboveLower(k, lower), BelowUpper(k, upper) PROVE Seen(T[k]) = Seen(store[k])
  <2>1. T[k] = ScanTable(src, hs, l0, lv, k)
    BY <1>2, <1>4, <1>8 DEF ScanReads
  <2> QED BY <1>7, <1>8, <2>1
<1>9. Lists(y, store, lower, upper, ended)
  BY <1>5, <1>6, <1>8, ListsSame
<1> QED BY <1>4, <1>9

(* What a scan holds can be read, and its iterator has been. *)
ScanSound ==
  Scanning =>
    /\ scan.lower \in Bounds /\ scan.upper \in Bounds /\ stores \subseteq Table
    /\ SnapshotSound(scan.snapshot, sst)
    /\ scan.pc # "called" => CopiesSound(scan.snapshot, scan.copies, scan.lower)
    /\ scan.pc = "reading" =>
         /\ {"it", "yielded"} \subseteq DOMAIN scan
         /\ ScanProceeds(scan.snapshot, scan.copies, sst, scan.lower, scan.upper, scan.it, scan.yielded)

(* So it is a snapshot that a scan yields. *)
LEMMA SoundYields ==
  ASSUME ScanSound, SnapshotHeld
  PROVE  ScanIsSnapshot
<1> SUFFICES ASSUME scan.pc = "reading"
             PROVE  \E store \in stores : Lists(scan.yielded, store, scan.lower, scan.upper, ~scan.it.valid)
  BY DEF ScanIsSnapshot
<1>1. PICK store \in stores : \A k \in Keys :
        AboveLower(k, scan.lower) /\ BelowUpper(k, scan.upper) =>
          Seen(Entry(scan.snapshot, scan.copies, k)) = Seen(store[k])
  BY DEF SnapshotHeld
<1>2. \A k \in Keys : AboveLower(k, scan.lower) /\ BelowUpper(k, scan.upper) =>
        Seen(EntryIn(scan.snapshot, scan.copies, sst, k)) = Seen(store[k])
  BY <1>1 DEF Entry, EntryIn
<1>3. /\ scan.lower \in Bounds /\ scan.upper \in Bounds /\ store \in Table
      /\ SnapshotSound(scan.snapshot, sst) /\ CopiesSound(scan.snapshot, scan.copies, scan.lower)
      /\ ScanProceeds(scan.snapshot, scan.copies, sst, scan.lower, scan.upper, scan.it, scan.yielded)
  BY <1>1 DEF ScanSound, Scanning
<1>4. Lists(scan.yielded, store, scan.lower, scan.upper, ~scan.it.valid)
  BY <1>2, <1>3, ProceedsLists
<1> QED BY <1>1, <1>4

(* A scan that goes on with the tables it holds. *)
LEMMA SoundGoesOn ==
  ASSUME ScanSound, scan' = scan, Scanning => stores' \subseteq Table,
         Scanning => \A id \in scan.snapshot.sstables : sst'[id] = sst[id]
  PROVE  ScanSound'
<1> SUFFICES ASSUME Scanning
             PROVE  /\ SnapshotSound(scan.snapshot, sst')
                    /\ scan.pc = "reading" =>
                         ScanProceeds(scan.snapshot, scan.copies, sst', scan.lower, scan.upper,
                                      scan.it, scan.yielded)
  BY DEF ScanSound, Scanning
<1>1. SnapshotSound(scan.snapshot, sst) /\ scan.snapshot \in StateOver(Ids)
  BY DEF ScanSound, SnapshotSound
<1>2. SnapshotSound(scan.snapshot, sst')
  BY <1>1, SoundStays
<1>3. ASSUME scan.pc = "reading"
      PROVE  ScanProceeds(scan.snapshot, scan.copies, sst', scan.lower, scan.upper, scan.it, scan.yielded)
  BY <1>1, <1>3, ProceedsOn DEF ScanSound
<1> QED BY <1>2, <1>3

(* The copies of MemTables are cut at the bounds. *)
LEMMA CopiesCut ==
  ASSUME EngineInv, ScanSound, ScanTables, ScanMemtables
  PROVE  ScanSound'
<1>1. ScanOn /\ scan.pc = "called" /\ scan'.pc = "copied"
  <2>1. scan'.pc = "copied"
    BY DEF ScanMemtables
  <2> QED BY <2>1, ScanSteps DEF ScanMemtables
<1>2. PICK st, lower, upper : st = scan.snapshot /\ lower = scan.lower /\ upper = scan.upper
  OBVIOUS
<1>3. /\ scan'.snapshot = st /\ scan'.lower = lower /\ scan'.upper = upper /\ stores' = stores /\ sst' = sst
      /\ scan'.copies = [i \in Memtables(st) |-> ScanMemtable(mem[i], lower, upper)]
  BY <1>1, <1>2 DEF ScanOn, vars, wpVars, diskVars
<1>4. /\ lower \in Bounds /\ upper \in Bounds /\ stores \subseteq Table /\ SnapshotSound(st, sst)
  BY <1>1, <1>2 DEF ScanSound, Scanning
<1>5. ASSUME NEW i \in Memtables(st)
      PROVE  scan'.copies[i] \in Table /\ \A k \in KeysOfTable(scan'.copies[i]) : FromKey(lower) <= k
  <2>1. PICK c : c = ScanMemtable(mem[i], lower, upper)
    OBVIOUS
  <2>2. i \in Ids
    BY <1>4, <1>5 DEF SnapshotSound, StateOver, Memtables, ToSet
  <2>3. mem[i] \in Table
    BY <2>2 DEF EngineInv, EngineTypes
  <2>4. c \in Table
    BY <2>1, <2>3 DEF ScanMemtable, Table, Absent
  <2>5. ASSUME NEW k \in KeysOfTable(c) PROVE FromKey(lower) <= k
    <3>1. k \in Keys /\ k \in Nat /\ c[k] # Absent
      BY KeysAssumption DEF KeysOfTable
    <3>2. AboveLower(k, lower)
      BY <2>1, <3>1 DEF ScanMemtable
    <3> QED BY <1>4, <3>1, <3>2, BoundsSplit
  <2> QED BY <1>3, <2>1, <2>4, <2>5
<1>6. CopiesSound(st, scan'.copies, lower)
  BY <1>5 DEF CopiesSound
<1>7. SnapshotSound(st, sst')
  BY <1>3, <1>4
<1> QED BY <1>1, <1>3, <1>4, <1>6, <1>7 DEF ScanSound

(* scan() returns its iterator. *)
LEMMA ReturnProceeds ==
  ASSUME ScanSound, ScanTables, ScanReturn
  PROVE  ScanSound'
<1>1. PICK st, copies, lower, upper : /\ st = scan.snapshot /\ copies = scan.copies
                                      /\ lower = scan.lower /\ upper = scan.upper
  OBVIOUS
<1>2. PICK it : it = ScanCreate(SourceOf(st, copies, sst), MemHandles(st), OpenOf(st, st.l0_sstables),
                                OpenLevels(st), lower, upper)
  OBVIOUS
<1>3. ScanSource(st) = SourceOf(st, copies, sst)
  BY <1>1 DEF ScanSource, SourceOf, TableOf
<1>4. /\ scan.pc = "copied" /\ UNCHANGED <<vars, stores>>
      /\ scan' = [pc |-> "reading", lower |-> lower, upper |-> upper, snapshot |-> st, copies |-> copies,
                  it |-> it, yielded |-> <<>>]
  BY <1>1, <1>2, <1>3, Zenon DEF ScanReturn, OpenLevels
<1>5. /\ scan'.pc = "reading" /\ {"it", "yielded"} \subseteq DOMAIN scan'
      /\ scan'.lower = lower /\ scan'.upper = upper /\ scan'.snapshot = st /\ scan'.copies = copies
      /\ scan'.it = it /\ scan'.yielded = <<>>
  BY <1>4
<1>6. sst' = sst /\ stores' = stores
  BY <1>4 DEF vars, wpVars, diskVars
<1>7. /\ lower \in Bounds /\ upper \in Bounds /\ stores \subseteq Table /\ SnapshotSound(st, sst)
      /\ CopiesSound(st, copies, lower)
  BY <1>1, <1>4 DEF ScanSound, Scanning
<1>8. ScanProceeds(st, copies, sst, lower, upper, it, <<>>)
  BY <1>2, <1>7, ProceedsFirst
<1>9. SnapshotSound(st, sst') /\ ScanProceeds(st, copies, sst', lower, upper, it, <<>>)
  BY <1>6, <1>7, <1>8
<1> QED BY <1>5, <1>6, <1>7, <1>9 DEF ScanSound

(* The caller reads on. *)
LEMMA NextProceeds ==
  ASSUME ScanSound, ScanTables, ScanNext
  PROVE  ScanSound'
<1>1. PICK st, copies, lower, upper : /\ st = scan.snapshot /\ copies = scan.copies
                                      /\ lower = scan.lower /\ upper = scan.upper
  OBVIOUS
<1>2. PICK it, y, src : it = scan.it /\ y = scan.yielded /\ src = SourceOf(st, copies, sst)
  OBVIOUS
<1>3. PICK j, z : /\ j = LsmIteratorNext(src, it)
                  /\ z = Append(y, [key |-> StackKey(it.inner), ent |-> StackEntry(src, it.inner)])
  OBVIOUS
<1>4. ScanSource(st) = src
  BY <1>1, <1>2 DEF ScanSource, SourceOf, TableOf
<1>5. /\ lower \in Bounds /\ upper \in Bounds /\ stores \subseteq Table /\ SnapshotSound(st, sst)
      /\ CopiesSound(st, copies, lower) /\ {"it", "yielded"} \subseteq DOMAIN scan
      /\ ScanProceeds(st, copies, sst, lower, upper, it, y)
  BY <1>1, <1>2 DEF ScanSound, Scanning, ScanNext
<1>6. /\ scan.pc = "reading" /\ it.valid /\ UNCHANGED <<vars, stores>>
      /\ scan' = [scan EXCEPT !.yielded = z, !.it = j]
  BY <1>1, <1>2, <1>3, <1>4, Zenon DEF ScanNext
<1>7. {"pc", "lower", "upper", "snapshot", "copies"} \subseteq DOMAIN scan
  BY <1>6 DEF ScanTables, Scanning
<1>8. /\ scan'.pc = "reading" /\ {"it", "yielded"} \subseteq DOMAIN scan'
      /\ scan'.lower = lower /\ scan'.upper = upper /\ scan'.snapshot = st /\ scan'.copies = copies
      /\ scan'.it = j /\ scan'.yielded = z
  BY <1>1, <1>5, <1>6, <1>7
<1>9. sst' = sst /\ stores' = stores
  BY <1>6 DEF vars, wpVars, diskVars
<1>10. ScanProceeds(st, copies, sst, lower, upper, j, z)
  BY <1>2, <1>3, <1>5, <1>6, ProceedsNext
<1>11. SnapshotSound(st, sst') /\ ScanProceeds(st, copies, sst', lower, upper, j, z)
  BY <1>5, <1>9, <1>10
<1> QED BY <1>5, <1>8, <1>9, <1>11 DEF ScanSound

(* Every step. *)
LEMMA ScanSoundStep ==
  ASSUME ScanInv, ScanSound, life # "down" => SnapshotSound(state, sst), latest \in Table, latest' \in Table,
         [ScanNextState]_<<vars, scanVars>>, opens = 1, opens' = opens
  PROVE  ScanSound'
<1>0. EngineInv /\ ScanTables
  BY DEF ScanInv
<1>1. Scanning => \A id \in scan.snapshot.sstables : sst'[id] = sst[id]
  BY <1>0, ScanTablesStep DEF Scanning
<1>2. CASE EngineStep
  <2>1. CASE scan' = NoScan
    <3>1. scan'.pc = "idle"
      BY <2>1 DEF NoScan
    <3> QED BY <3>1 DEF ScanSound, Scanning
  <2>2. CASE scan' = scan
    <3>1. Scanning => stores' \subseteq Table
      BY <1>2 DEF EngineStep, ScanSound
    <3> QED BY <1>1, <2>2, <3>1, SoundGoesOn
  <2> QED BY <1>2, <2>1, <2>2 DEF EngineStep
<1>3. ASSUME NEW b \in ScanBounds, ScanCall(b.lower, b.upper) PROVE ScanSound'
  <2>1. PICK lower, upper : lower = b.lower /\ upper = b.upper
    OBVIOUS
  <2>2. lower \in Bounds /\ upper \in Bounds
    BY <2>1, ScanBoundsAssumption
  <2>3. /\ life = "up" /\ stores' = {latest} /\ UNCHANGED vars
        /\ scan' = [pc |-> "called", lower |-> lower, upper |-> upper, snapshot |-> state]
    BY <1>3, <2>1 DEF ScanCall
  <2>4. scan'.pc = "called" /\ scan'.lower = lower /\ scan'.upper = upper /\ scan'.snapshot = state
    BY <2>3
  <2>5. sst' = sst
    BY <2>3 DEF vars, wpVars, diskVars
  <2>6. SnapshotSound(state, sst')
    BY <2>3, <2>5
  <2> QED BY <2>2, <2>3, <2>4, <2>6 DEF ScanSound
<1>4. CASE ScanMemtables
  BY <1>0, <1>4, CopiesCut
<1>5. CASE ScanReturn
  BY <1>0, <1>5, ReturnProceeds
<1>6. CASE ScanNext
  BY <1>0, <1>6, NextProceeds
<1>7. CASE ScanDone
  <2>1. scan'.pc = "done"
    BY <1>7 DEF ScanDone
  <2> QED BY <2>1 DEF ScanSound, Scanning
<1>8. CASE UNCHANGED <<vars, scanVars>>
  <2>1. scan' = scan /\ stores' = stores
    BY <1>8 DEF scanVars
  <2>2. Scanning => stores' \subseteq Table
    BY <2>1 DEF ScanSound
  <2> QED BY <1>1, <2>1, <2>2, SoundGoesOn
<1> QED BY <1>2, <1>3, <1>4, <1>5, <1>6, <1>7, <1>8 DEF ScanNextState

(* Until the directory is opened again. *)
SoundLife == opens = 1 => ScanSound

(* A scan is a snapshot: what it yields, however late its caller reads on, *)
(* is what the store held at one moment of the call of scan(), every key   *)
(* between the bounds once and in order, beside puts, freezes, flushes and *)
(* compactions, with the simple and the tiered strategy and beside         *)
(* force_full_compaction() one call at a time.                             *)
THEOREM ScanIsSnapshotCorrect ==
  ASSUME StrategyAssumed
  PROVE  /\ ScanSpec /\ []OneCompaction => [](opens = 1 => ScanIsSnapshot)
         /\ CompactionOptions.type # "NoCompaction" => (ScanSpec => [](opens = 1 => ScanIsSnapshot))
<1>1. ScanInit => SoundLife
  BY DEF ScanInit, NoScan, SoundLife, ScanSound, Scanning
<1>2. FirstLife /\ FirstLife' /\ SortLife /\ FirstScan /\ SoundLife /\ [ScanNextState]_<<vars, scanVars>>
        => SoundLife'
  <2> SUFFICES ASSUME FirstLife, FirstLife', SortLife, FirstScan, SoundLife,
                      [ScanNextState]_<<vars, scanVars>>, opens' = 1
               PROVE  ScanSound'
    BY DEF SoundLife
  <2>1. opens = 1 /\ opens' = opens
    BY ScanStepIsLsmStep, OpensCounts DEF FirstScan
  <2>2. ScanInv /\ ScanSound /\ SortInv
    BY <2>1 DEF FirstScan, SoundLife, SortLife
  <2>3. TypeOK /\ TypeOK'
    BY <2>1 DEF FirstLife, Types
  <2>4. latest \in Table /\ latest' \in Table
    BY <2>3 DEF TypeOK, Table
  <2>5. SnapshotSound(state, sst)
    <3>1. state \in StateOver(Ids) /\ sst \in [Ids -> Table] /\ state.sstables \subseteq Ids
      BY <2>3, StateTypes
    <3> QED BY <2>2, <3>1 DEF SortInv, SortHolds, SnapshotSound
  <2> QED BY <2>1, <2>2, <2>4, <2>5, ScanSoundStep
<1>3. FirstScan /\ SoundLife => (opens = 1 => ScanIsSnapshot)
  BY SoundYields DEF FirstScan, ScanInv, SoundLife
<1>4. ScanSpec /\ []OneCompaction => [](opens = 1 => ScanIsSnapshot)
  <2>1. ScanSpec /\ []OneCompaction => []FirstLife /\ []SortLife /\ [](opens = 1 => ReadsLatest)
    BY ScanSpecIsLsmSpec, FirstLifeInvariant, SortInvariant, CompactionReadsLatest, PTL
  <2>2. ScanSpec /\ []FirstLife /\ []SortLife /\ []FirstScan => [](opens = 1 => ScanIsSnapshot)
    BY <1>1, <1>2, <1>3, PTL DEF ScanSpec
  <2> QED BY <2>1, <2>2, FirstScanHolds, PTL
<1>5. ASSUME CompactionOptions.type # "NoCompaction"
      PROVE  ScanSpec => [](opens = 1 => ScanIsSnapshot)
  <2>1. LsmSpec => []OneCompaction
    BY <1>5, CompactionsApart
  <2> QED BY <1>4, <2>1, ScanSpecIsLsmSpec, PTL
<1> QED BY <1>4, <1>5
=============================================================================
