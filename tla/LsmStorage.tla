----------------------------- MODULE LsmStorage -----------------------------
(***************************************************************************)
(* The whole engine: the write path, compaction in the background or by    *)
(* force_full_compaction(), close(), crashes, and open() on a directory    *)
(* that an earlier process left behind.                                    *)
(***************************************************************************)
EXTENDS WritePath, CompactionController

CONSTANTS
  MaxOpens,      \* bound on the number of times the directory is opened
  MaxManifest,   \* bound on the length of the manifest when a compaction starts
  TornWrites,    \* a crash may leave part of a manifest record behind
  IoErrors       \* the SSTables whose file may fail to be written, by id

ASSUME FaultsAssumption ==
  MaxOpens \in Nat \ {0} /\ MaxManifest \in Nat /\ TornWrites \in BOOLEAN /\ IoErrors \subseteq Nat

VARIABLES
  job,           \* the compaction every thread is working on
  opens,         \* how many times open() was called
  buffered       \* the frames, by WAL, that a closed object had yet to write
                 \* out when the directory was opened again

lsVars == <<job, opens, buffered>>
vars   == <<wpVars, lsVars>>

NoJob == [task |-> NoTask, output |-> <<>>, remove |-> {}]

NoFrames == [i \in Ids |-> <<>>]

-----------------------------------------------------------------------------
(* Compaction *)

(* What trigger_compaction(), called by the compaction thread, makes of a  *)
(* copy of the state, and force_full_compaction(), called by a client when *)
(* there is no such thread.                                                *)
TriggeredTasks == {GenerateCompactionTask(state, sst)} \ {NoTask}

ForceFullTasks ==
  IF CompactionOptions.type = "NoCompaction" /\ "compact" \in Calls
    THEN {ForceFullTask(state)} ELSE {}

BeginCompaction(t) ==
  /\ life = "up" /\ pc[t] = "idle"
  /\ IdsLeft(MaxOutputs) /\ Len(manifest.file) <= MaxManifest
  /\ \E task \in IF t = CompactionThread THEN TriggeredTasks ELSE ForceFullTasks :
       job' = [job EXCEPT ![t].task = task]
  /\ pc' = [pc EXCEPT ![t] = "compact"]
  /\ UNCHANGED <<stateVars, diskVars, state_lock, op, new_id, ghostVars, opens, buffered>>

(* Mutant: the ids are read and not taken. *)
CompactSharesIds(t) ==
  /\ life # "down" /\ pc[t] = "compact"
  /\ \E tables \in {CompactOutput(state, sst, job[t].task)} :
     LET ids == [i \in DOMAIN tables |-> next_sst_id + i - 1]
     IN /\ next_sst_id + Len(ids) - 1 <= MaxId
        /\ sst' = [i \in Ids |-> IF i \in ToSet(ids) THEN tables[i - next_sst_id + 1] ELSE sst[i]]
        /\ files' = files \cup ToSet(ids)
        /\ job' = [job EXCEPT ![t].output = ids]
  /\ pc' = [pc EXCEPT ![t] = "apply"]
  /\ UNCHANGED <<stateVars, wal, wal_open, synced, manifest, state_lock, op, new_id,
                 ghostVars, opens, buffered>>

(* compact() takes a second copy of the state.  Every output table gets an *)
(* id and is written to its file.  (The ids are taken together here; in    *)
(* the code a freeze may take one in between, which only leaves a gap.)    *)
Compact(t) ==
  /\ life # "down" /\ pc[t] = "compact"
  /\ \E tables \in {CompactOutput(state, sst, job[t].task)} :
     LET ids == [i \in DOMAIN tables |-> next_sst_id + i - 1]
     IN /\ next_sst_id + Len(ids) - 1 <= MaxId
        /\ sst' = [i \in Ids |-> IF i \in ToSet(ids) THEN tables[i - next_sst_id + 1] ELSE sst[i]]
        /\ files' = files \cup ToSet(ids)
        /\ next_sst_id' = next_sst_id + Len(ids)
        /\ job' = [job EXCEPT ![t].output = ids]
  /\ pc' = [pc EXCEPT ![t] = "apply"]
  /\ UNCHANGED <<life, state, mem, approx_size, wal, wal_open, synced, manifest,
                 state_lock, op, new_id, ghostVars, opens, buffered>>

(* Under state_lock: a copy of the state with the output tables and        *)
(* without the inputs is swapped in.  trigger_compaction() will remove the *)
(* files it found open, force_full_compaction() those of its task.         *)
CompactApply(t) ==
  /\ life # "down" /\ pc[t] = "apply" /\ state_lock = NoThread /\ NoSharedHolder
  /\ LET task    == job[t].task
         added   == [state EXCEPT !.sstables = @ \cup ToSet(job[t].output)]
         applied == ApplyCompactionResult(added, sst, task, job[t].output, FALSE)
         gone    == FilesToRemove(added, task)
     IN /\ state' = [applied EXCEPT !.sstables =
                       IF task.type = "ForceFull"
                         THEN (state.sstables \ gone) \cup ToSet(job[t].output)
                         ELSE @ \ gone]
        /\ job' = [job EXCEPT ![t].remove =
                     IF task.type = "ForceFull" THEN gone ELSE gone \cap applied.sstables]
  /\ state_lock' = t
  /\ pc' = [pc EXCEPT ![t] = "compact_record"]
  /\ UNCHANGED <<life, mem, approx_size, next_sst_id, diskVars, op, new_id,
                 ghostVars, opens, buffered>>

(* Mutant: the compaction is not recorded. *)
CompactUnrecorded(t) ==
  /\ life # "down" /\ pc[t] = "compact_record"
  /\ state_lock' = NoThread
  /\ pc' = [pc EXCEPT ![t] = "remove"]
  /\ UNCHANGED <<stateVars, diskVars, op, new_id, ghostVars, lsVars>>

CompactRecord(t) ==
  /\ life # "down" /\ pc[t] = "compact_record"
  /\ manifest' = AddRecord(manifest, Compaction(job[t].task, job[t].output))
  /\ state_lock' = NoThread
  /\ pc' = [pc EXCEPT ![t] = "remove"]
  /\ UNCHANGED <<stateVars, sst, files, wal, wal_open, synced, op, new_id,
                 ghostVars, lsVars>>

(* The input files are removed last; readers still hold them open. *)
CompactRemove(t) ==
  /\ life # "down" /\ pc[t] = "remove"
  /\ files' = files \ job[t].remove
  /\ job' = [job EXCEPT ![t] = NoJob]
  /\ pc' = [pc EXCEPT ![t] = "idle"]
  /\ UNCHANGED <<stateVars, sst, wal, wal_open, synced, manifest, state_lock, op,
                 new_id, ghostVars, opens, buffered>>

CompactStep(t) == Compact(t) \/ CompactApply(t) \/ CompactRecord(t) \/ CompactRemove(t)

-----------------------------------------------------------------------------
(* I/O errors *)

(* FileObject::create throws.  The loops of the background threads catch   *)
(* the exception and go on; a client gets it from its call.  (In close()   *)
(* it would leave the destructor, so clients fail only while life is       *)
(* "up".)                                                                  *)
MayFail(t, id) == id \in IoErrors /\ life # "down" /\ (t \in Clients => life = "up")

(* Mutant: the MemTable is taken off the list before its file is built. *)
FlushFailsForgets(t) ==
  /\ pc[t] = "flush" /\ state_lock = NoThread
  /\ state.imm_memtables # <<>> /\ mem[OldestImm] # EmptyTable /\ MayFail(t, OldestImm)
  /\ state' = [state EXCEPT !.imm_memtables = SubSeq(@, 1, Len(@) - 1)]
  /\ pc' = [pc EXCEPT ![t] = "idle"]
  /\ UNCHANGED <<life, mem, approx_size, next_sst_id, diskVars, state_lock, op, new_id,
                 ghostVars, lsVars>>

(* A flush fails when it creates its file, or leaves it unfinished.  The   *)
(* state is what it was, and the next flush truncates the file.            *)
FlushFails(t) ==
  /\ pc[t] = "flush" /\ state_lock = NoThread
  /\ state.imm_memtables # <<>> /\ mem[OldestImm] # EmptyTable /\ MayFail(t, OldestImm)
  /\ \/ UNCHANGED <<sst, files>>
     \/ /\ sst' = [sst EXCEPT ![OldestImm] = EmptyTable]
        /\ files' = files \cup {OldestImm}
  /\ pc' = [pc EXCEPT ![t] = "idle"]
  /\ UNCHANGED <<stateVars, wal, wal_open, synced, manifest, state_lock, op, new_id,
                 ghostVars, lsVars>>

(* A compaction fails after n output files.  They and the unfinished one   *)
(* stay in the directory, and their ids are spent.                         *)
CompactFails(t) ==
  /\ pc[t] = "compact"
  /\ \E tables \in {CompactOutput(state, sst, job[t].task)} : \E n \in 0 .. Len(tables) - 1 :
     /\ MayFail(t, next_sst_id + n) /\ next_sst_id + n <= MaxId
     /\ sst' = [i \in Ids |-> IF i \notin next_sst_id .. next_sst_id + n THEN sst[i]
                              ELSE IF i < next_sst_id + n THEN tables[i - next_sst_id + 1]
                              ELSE EmptyTable]
     /\ files' = files \cup (next_sst_id .. next_sst_id + n)
     /\ next_sst_id' = next_sst_id + n + 1
  /\ job' = [job EXCEPT ![t] = NoJob]
  /\ pc' = [pc EXCEPT ![t] = "idle"]
  /\ UNCHANGED <<life, state, mem, approx_size, wal, wal_open, synced, manifest,
                 state_lock, op, new_id, ghostVars, opens, buffered>>

-----------------------------------------------------------------------------
(* close() *)

(* The caller has no other call running; the background threads finish     *)
(* what they are doing and are joined.                                     *)
CloseBegin ==
  /\ life = "up" /\ "close" \in Calls /\ \A c \in Clients : pc[c] = "idle"
  /\ life' = "closing"
  /\ UNCHANGED <<state, mem, approx_size, next_sst_id, diskVars, threadVars,
                 ghostVars, lsVars>>

Joined == life = "closing" /\ \A t \in Threads : pc[t] = "idle"

(* Without a WAL, close() freezes the active MemTable unless it is empty,  *)
(* and flushes all immutable ones.                                         *)
CloseFreeze(c) ==
  /\ Joined /\ ~EnableWal /\ mem[state.memtable] # EmptyTable
  /\ pc' = [pc EXCEPT ![c] = "freeze"]
  /\ UNCHANGED <<stateVars, diskVars, state_lock, op, new_id, ghostVars, lsVars>>

CloseFlush(c) ==
  /\ Joined /\ ~EnableWal
  /\ mem[state.memtable] = EmptyTable /\ state.imm_memtables # <<>>
  /\ pc' = [pc EXCEPT ![c] = "flush"]
  /\ UNCHANGED <<stateVars, diskVars, state_lock, op, new_id, ghostVars, lsVars>>

(* Mutant: close() does not flush what was already immutable. *)
CloseDoneEarly ==
  /\ Joined
  /\ ~EnableWal => mem[state.memtable] = EmptyTable
  /\ life' = "closed"
  /\ IF EnableWal /\ state.memtable \in wal_open THEN SyncActive ELSE UNCHANGED <<synced, durable>>
  /\ UNCHANGED <<state, mem, approx_size, next_sst_id, sst, files, wal, wal_open,
                 manifest, threadVars, writes, latest, lsVars>>

(* With a WAL, close() calls sync(), which is for the active MemTable's:   *)
(* frames of the immutable ones may stay in the buffers of the object.     *)
CloseDone ==
  /\ Joined
  /\ ~EnableWal => mem[state.memtable] = EmptyTable /\ state.imm_memtables = <<>>
  /\ life' = "closed"
  /\ IF EnableWal /\ state.memtable \in wal_open THEN SyncActive ELSE UNCHANGED <<synced, durable>>
  /\ UNCHANGED <<state, mem, approx_size, next_sst_id, sst, files, wal, wal_open,
                 manifest, threadVars, writes, latest, lsVars>>

(* The closed object is destroyed, and Wal::~Wal writes every buffer out.  *)
(* (The close() that the destructor calls once more finds nothing to do.)  *)
Destroy ==
  /\ life = "closed"
  /\ life' = "destroyed"
  /\ synced' = [i \in Ids |-> Len(wal[i])]
  /\ UNCHANGED <<state, mem, approx_size, next_sst_id, sst, files, wal, wal_open,
                 manifest, threadVars, ghostVars, lsVars>>

(* It is destroyed only after open() has read the directory, as in the     *)
(* command line tool's `db = MiniLsm::open(...)'.  What it writes follows  *)
(* the frames that open() found, unless they ended in a part of one, which *)
(* Wal::recover cut off: then what comes is not a frame.                   *)
DestroyLate ==
  /\ opens > 1 /\ life # "down" /\ buffered # NoFrames
  /\ \E whole \in SUBSET {i \in Ids : buffered[i] # <<>>} :
       /\ wal' = [i \in Ids |-> IF i \in whole THEN wal[i] \o buffered[i] ELSE wal[i]]
       /\ synced' = [i \in Ids |-> IF i \in whole THEN Len(wal[i] \o buffered[i]) ELSE synced[i]]
  /\ buffered' = NoFrames
  /\ UNCHANGED <<stateVars, sst, files, wal_open, manifest, threadVars, ghostVars, job, opens>>

-----------------------------------------------------------------------------
(* Crashes *)

(* The record a thread is about to write to the manifest. *)
PendingRecords ==
  {NewMemtable(new_id[t]) : t \in {u \in Threads : pc[u] = "freeze_record"}}
  \cup {Flush(new_id[t]) : t \in {u \in Threads : pc[u] = "flush_record"}}
  \cup {Compaction(job[t].task, job[t].output) : t \in {u \in Threads : pc[u] = "compact_record"}}

(* The process dies, and with it everything in memory. *)
Crash ==
  /\ life \in {"up", "closing"} /\ opens < MaxOpens
  /\ life' = "down"
  /\ \/ UNCHANGED manifest
     \/ /\ TornWrites /\ manifest.open
        /\ \E r \in PendingRecords : \E n \in 1 .. Width(r) - 1 :
             manifest' = TornRecord(manifest, r, n)
  /\ state' = CreateState /\ approx_size' = 0
  /\ mem' = [i \in Ids |-> EmptyTable]
  /\ state_lock' = NoThread
  /\ pc' = [t \in Threads |-> "idle"]
  /\ op' = [c \in Clients |-> NoOp]
  /\ new_id' = [t \in Threads |-> 0]
  /\ job' = [t \in Threads |-> NoJob]
  /\ UNCHANGED <<next_sst_id, sst, files, wal, wal_open, synced, ghostVars, opens, buffered>>

-----------------------------------------------------------------------------
(* open() on an existing directory *)

ReplayStart == [st |-> CreateState, memtables |-> {}, next_id |-> 1]

AtLeast(n, ids) == CHOOSE m \in ids \cup {n} : \A i \in ids \cup {n} : i <= m

ReplayRecord(acc, r) ==
  CASE r.type = "Flush" ->
         [st |-> AddFlushed(acc.st, r.id),
          memtables |-> acc.memtables \ {r.id},
          next_id |-> AtLeast(acc.next_id, {r.id})]
    [] r.type = "NewMemtable" ->
         [acc EXCEPT !.memtables = @ \cup {r.id}, !.next_id = AtLeast(@, {r.id})]
    [] r.type = "Compaction" ->
         [acc EXCEPT !.st = ApplyCompactionResult(@, sst, r.task, r.output, TRUE),
                     !.next_id = AtLeast(@, ToSet(r.output))]

Replay(records) ==
  LET upto[n \in 0 .. Len(records)] ==
        IF n = 0 THEN ReplayStart ELSE ReplayRecord(upto[n - 1], records[n])
  IN  upto[Len(records)]

(* Mutant: the last frame is taken for a torn one. *)
RecoverFromWalShort(id, n) == [k \in Keys |-> Replayed(SubSeq(wal[id], 1, n - 1), k)]

(* MemTable::recover_from_wal on the first n frames *)
RecoverFromWal(id, n) == [k \in Keys |-> Replayed(SubSeq(wal[id], 1, n), k)]

(* The loop over the std::set of recovered MemTables, in ascending order,  *)
(* that puts every one with entries at the front of imm_memtables.         *)
NewestFirst(ids) ==
  LET below[n \in 0 .. MaxId + 1] ==
        IF n = 0 THEN <<>>
        ELSE IF n - 1 \in ids THEN <<n - 1>> \o below[n - 1]
        ELSE below[n - 1]
  IN  below[MaxId + 1]

(* What open() builds when `cut' says how much of every WAL is there: the  *)
(* structure of the manifest, the tables opened, the MemTables that have   *)
(* entries, the newest first, and a new active MemTable.  A manifest that  *)
(* cannot be read leaves the state of an empty database.                   *)
Recovered(cut) ==
  LET parsed == Parse(manifest.file)
      replay == Replay(parsed.records)
      id     == replay.next_id + 1
      maps   == [i \in Ids \cup {id} |-> IF EnableWal /\ i \in replay.memtables
                                           THEN RecoverFromWal(i, cut[i]) ELSE EmptyTable]
      filled == {i \in replay.memtables : maps[i] # EmptyTable}
  IN  IF ~parsed.ok
        THEN [ok |-> FALSE, st |-> CreateState, mem |-> [i \in Ids |-> EmptyTable],
              memtables |-> {}, id |-> 0]
        ELSE [ok |-> TRUE,
              st |-> [replay.st EXCEPT
                        !.memtable = id,
                        !.imm_memtables = NewestFirst(filled),
                        !.sstables = Referenced(replay.st)],
              mem |-> maps, memtables |-> replay.memtables, id |-> id]

RecoveredEntry(cut, k) ==
  LET r == Recovered(cut) IN Entry(r.st, r.mem, k)

(* The WALs open() reads.  The others stay as they are. *)
WalsRead == IF EnableWal THEN Recovered(synced).memtables \cap Ids ELSE {}

(* After a crash, and after a close() until the object is destroyed, any   *)
(* number of frames beyond those in `synced' may have been written out; a  *)
(* torn one is truncated by Wal::recover.                                  *)
Cuts ==
  LET unsure == {i \in WalsRead : synced[i] < Len(wal[i])}
  IN  {[i \in Ids |-> IF i \in unsure THEN f[i] ELSE Len(wal[i])] :
         f \in {g \in [unsure -> 0 .. MaxWrites] :
                  \A i \in unsure : synced[i] <= g[i] /\ g[i] <= Len(wal[i])}}

(* FileObject::open throws when a table's file is missing.  A closed       *)
(* object may live on, one at a time.                                      *)
Open(cut) ==
  /\ life \in {"closed", "destroyed", "down"} /\ opens < MaxOpens
  /\ life # "down" => buffered = NoFrames
  /\ LET r == Recovered(cut) IN
     /\ Referenced(r.st) \subseteq files /\ r.id <= MaxId
     /\ state' = r.st
     /\ mem' = r.mem
     /\ next_sst_id' = r.id + 1
     /\ manifest' = IF r.ok THEN AddRecord(ManifestRecover(manifest.file), NewMemtable(r.id))
                    ELSE ManifestRecover(manifest.file)
     /\ LET created == IF r.ok /\ EnableWal THEN {r.id} ELSE {}
        IN /\ wal' = [i \in Ids |-> IF i \in created THEN <<>>
                                    ELSE SubSeq(wal[i], 1, cut[i])]
           /\ synced' = [i \in Ids |-> IF i \in created \cup WalsRead THEN Len(wal'[i])
                                       ELSE synced[i]]
           /\ wal_open' = created \cup (IF EnableWal THEN r.memtables ELSE {})
     /\ buffered' = IF life = "closed"
                      THEN [i \in Ids |-> SubSeq(wal[i], cut[i] + 1, Len(wal[i]))] ELSE NoFrames
     /\ latest' = [k \in Keys |-> Entry(r.st, r.mem, k)]
  /\ life' = "up" /\ approx_size' = 0
  /\ state_lock' = NoThread
  /\ pc' = [t \in Threads |-> "idle"]
  /\ op' = [c \in Clients |-> NoOp]
  /\ new_id' = [t \in Threads |-> 0]
  /\ job' = [t \in Threads |-> NoJob]
  /\ opens' = opens + 1
  /\ UNCHANGED <<sst, files, writes, durable>>

-----------------------------------------------------------------------------
LsmInit == Init /\ job = [t \in Threads |-> NoJob] /\ opens = 1 /\ buffered = NoFrames

LsmNext ==
  \/ Next /\ UNCHANGED lsVars
  \/ \E t \in Clients \cup {CompactionThread} : BeginCompaction(t)
  \/ \E t \in Threads : CompactStep(t) \/ CompactFails(t) \/ FlushFails(t)
  \/ CloseBegin \/ CloseDone \/ Destroy \/ DestroyLate
  \/ \E c \in Clients : CloseFreeze(c) \/ CloseFlush(c)
  \/ Crash
  \/ \E cut \in Cuts : Open(cut)

LsmSpec == LsmInit /\ [][LsmNext]_vars

-----------------------------------------------------------------------------
(* Properties *)

(* The variables of the write path, the compaction threads and recovery    *)
(* have their types.                                                       *)
LsmTypeOK ==
  /\ TypeOK /\ next_sst_id \in 1 .. MaxId + 1
  /\ \A t \in Threads : /\ ToSet(job[t].output) \subseteq Ids
                        /\ job[t].remove \subseteq Ids
  /\ opens \in 1 .. MaxOpens /\ buffered \in [Ids -> Seq(Frame)]

(* The assertions of apply_compaction_result hold: no flush that came      *)
(* between the generation of a task and its application has moved the      *)
(* inputs.  (Only one thread makes such tasks.)                            *)
InputsUnmoved == \A t \in Threads : pc[t] = "apply" => ApplyAssert(state, job[t].task)

(* Every table of L0 and the levels is open and has its file: get(),       *)
(* scan() and compact() silently skip a table that is not in sstables.     *)
TablesPresent ==
  life \in {"up", "closing"} =>
    Referenced(state) \subseteq state.sstables /\ Referenced(state) \subseteq files

(* The tables of every level have disjoint key ranges in ascending order,  *)
(* as SstConcatIterator::check_sst_valid asserts.                          *)
LevelsSorted == SortedLevels(state, sst)

(* Whenever the process is killed, the manifest can be read and every      *)
(* table it names has its file: compaction removes no file that the        *)
(* manifest still needs, and no record names a file not written yet.       *)
OpenSucceeds ==
  opens = 1 => LET r == Recovered(synced) IN r.ok /\ Referenced(r.st) \subseteq files

(* Replaying the manifest gives the L0 and the levels the process has in   *)
(* memory, whenever nobody is between a swap and its record.  (The leveled *)
(* strategy does not sort in recovery: levels are compared as sets.)       *)
ManifestMatchesState ==
  opens = 1 /\ life \in {"up", "closing"} /\ state_lock = NoThread =>
    LET st == Recovered(synced).st IN
    /\ st.l0_sstables = state.l0_sstables
    /\ [i \in DOMAIN st.levels |-> ToSet(st.levels[i].ssts)] =
         [i \in DOMAIN state.levels |-> ToSet(state.levels[i].ssts)]

(* An entry at least as new as e, given that a tombstone may be dropped at *)
(* the bottom.                                                             *)
NotOlder(found, e) == Stamp(found) >= Stamp(e) \/ (e < 0 /\ found = Absent)

(* What sync() or a recorded flush made durable is there after a crash at  *)
(* any moment.                                                             *)
DurableSurvives ==
  opens = 1 => \A k \in Keys : NotOlder(RecoveredEntry(synced, k), durable[k])

(* open() finds exactly what get() answered before: after close() if there *)
(* is no WAL, for close() flushes everything; with a WAL once the closed   *)
(* object was destroyed, for the frames of immutable MemTables may be in   *)
(* its buffers till then.                                                  *)
CloseKeepsAll ==
  opens = 1 /\ life \in {"closed", "destroyed"} /\ (EnableWal => life = "destroyed") =>
    \A k \in Keys : Seen(RecoveredEntry(synced, k)) = Seen(latest[k])

-----------------------------------------------------------------------------
(* What the documentation says and the code does not do. *)

(* README: "This means zero data loss across clean restarts", however many *)
(* there are.                                                              *)
CleanRestartsKeepAll ==
  life = "closed" => \A k \in Keys : Seen(RecoveredEntry(synced, k)) = Seen(latest[k])

(* README: "The engine replays all valid records on startup. Corrupt       *)
(* records stop replay": a torn record at the end costs nothing of what    *)
(* the records before it say.                                              *)
TornTailTolerated ==
  opens = 1 /\ life = "down" =>
    \A k \in Keys : NotOlder(RecoveredEntry(synced, k), durable[k])
=============================================================================
