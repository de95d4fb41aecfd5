----------------------------- MODULE LsmEngine -----------------------------
(***************************************************************************)
(* The storage engine of one locality group: DBImpl in                     *)
(* src/leveldb/db/db_impl.cc.  Writers queue on writers_ and the head      *)
(* writer runs MakeRoomForWrite and inserts into mem_ with the mutex       *)
(* released; background tasks (bg_compaction_tasks_, at most              *)
(* max_background_compactions of them) dump imm_ to a level-0 table or     *)
(* compact the tables, with the mutex released while they build files and  *)
(* while LogAndApply writes the MANIFEST; DeleteObsoleteFiles lists the    *)
(* directory unlocked and deletes whatever is not live; Get pins mem_,     *)
(* imm_ and the current version and reads them unlocked; Shutdown1 and     *)
(* Shutdown2 dump the memtables on unload.                                 *)
(*                                                                         *)
(* Each action is one stretch of code between two points where the        *)
(* thread takes or releases mutex_ (or waits on a condition variable), so  *)
(* the mutex itself needs no variable.  Data is abstracted to records      *)
(* [key, seq, type]; a table file is the set of records it holds, and the  *)
(* level structure is two levels, L0 (flush outputs) and L1 (compaction    *)
(* outputs).                                                               *)
(***************************************************************************)
EXTENDS Integers, FiniteSets, Sequences, FiniteSetsExt

CONSTANTS
    Writers,            \* threads calling DBImpl::Write
    Readers,            \* threads calling GetSnapshot / Get / ReleaseSnapshot
    Keys,               \* user keys
    Tasks,              \* slots of bg_compaction_tasks_ (max_background_compactions)
    Fg,                 \* the thread that runs Shutdown1 / Shutdown2
    MaxSeq,             \* bound: largest sequence number a caller stamps
    MaxForced,          \* bound: number of NULL-batch (forced dump) writes
    MaxFaults,          \* bound: number of injected I/O failures
    MemCap,             \* write_buffer_size, in records
    L0CompactTrigger,   \* L0 file count whose compaction score reaches 1
    L0SlowdownTrigger,  \* config::kL0_SlowdownWritesTrigger
    L0StopTrigger,      \* config::kL0_StopWritesTrigger
    DumpMemOnShutdown,  \* options_.dump_mem_on_shutdown
    ParanoidChecks,     \* options_.paranoid_checks
    DropBaseLevelDel    \* options_.drop_base_level_del_in_compaction

ASSUME L0SlowdownTrigger <= L0StopTrigger

Threads == Tasks \cup {Fg}
Seqs == 1..MaxSeq
Rec == [key : Keys, seq : Seqs, type : {"put", "del"}]
NoRec == [key |-> "none", seq |-> 0, type |-> "none"]
NoBatch == [key |-> "none", seq |-> 0, type |-> "nobatch"]  \* my_batch == NULL
MaxMemTables == MaxSeq + MaxForced + 3      \* every swap creates one
MaxFiles == 2 * MaxMemTables                \* flush and compaction outputs
MemIds == 1..MaxMemTables                   \* 0 stands for NULL
FileNums == 1..MaxFiles
NoSnapshot == -1
Status == {"ok", "io", "denied"}            \* OK, IOError, IOPermissionDenied

VARIABLES
    writers, wpc, wbatch, wforce, wdelay, wmem,  \* Write / MakeRoomForWrite
    seqNext, forced,                        \* caller's sequence stamping
    mem, imm, mt, nextMem, flushing, isWritingMem, inserted,
    l0, l1, fileRecs, dfs, nextFile, pending, lastSeq, manifest,
    active, pc, st, idle, fnum, fret, fseq, cin, css, glist, gdel,
    bgError, faults, signaled, shutting, dbState,
    rpc, rkey, rsnap, rheld, rview, rres

wvars == <<writers, wpc, wbatch, wforce, wdelay, wmem, seqNext, forced>>
memvars == <<mem, imm, mt, nextMem, flushing, isWritingMem, inserted>>
vsvars == <<l0, l1, fileRecs, dfs, nextFile, pending, lastSeq, manifest>>
bgvars == <<active, pc, st, idle, fnum, fret, fseq, cin, css, glist, gdel>>
ctlvars == <<bgError, faults, signaled, shutting, dbState>>
rvars == <<rpc, rkey, rsnap, rheld, rview, rres>>
vars == <<wvars, memvars, vsvars, bgvars, ctlvars, rvars>>

(***************************************************************************)
(* Helpers over records.                                                   *)
(***************************************************************************)
\* The newest record of key k with sequence <= s in S: what a lookup at
\* snapshot s finds (LookupKey(key, snapshot) in Get).
Visible(S, k, s) ==
    LET C == {r \in S : r.key = k /\ r.seq <= s}
    IN  IF C = {} THEN NoRec ELSE CHOOSE r \in C : \A o \in C : o.seq <= r.seq

\* What the caller of Get sees: NotFound (0) for no record or a deletion,
\* otherwise the value, identified by the sequence that wrote it.
Answer(r) == IF r.type = "put" THEN r.seq ELSE 0

LastSeqOf(S) == IF S = {} THEN 0 ELSE Max({r.seq : r \in S})

FilesRecs(F) == UNION {fileRecs[f] : f \in F}

\* DBImpl::GetLastSequence: mem_, else imm_, else the version set.
GetLastSequence ==
    IF LastSeqOf(mt[mem]) > 0 THEN LastSeqOf(mt[mem])
    ELSE IF imm # 0 /\ LastSeqOf(mt[imm]) > 0 THEN LastSeqOf(mt[imm])
    ELSE lastSeq

\* The edit of a memtable dump records imm_->GetLastSequence().
\* Mutations: an off-by-one; mem_'s last sequence when it has one.
ImmLastSequenceNext == LastSeqOf(mt[imm]) + 1
ImmLastSequenceOfMem ==
    IF mem # 0 /\ mt[mem] # {} THEN LastSeqOf(mt[mem]) ELSE LastSeqOf(mt[imm])
ImmLastSequence == LastSeqOf(mt[imm])

\* Mutation: snapshots_ ignored, every compaction at kMaxSequenceNumber.
SmallestSnapshotIgnored == MaxSeq + 1

\* smallest_snapshot as ParallelCompaction and WriteLevel0Table read it:
\* *snapshots_.begin(), or kMaxSequenceNumber when snapshots_ is empty.
SmallestSnapshot ==
    LET held == {rheld[r] : r \in {x \in Readers : rheld[x] # NoSnapshot}}
    IN  IF held = {} THEN MaxSeq + 1 ELSE Min(held)

\* bg_cv_.SignalAll(): every thread blocked on bg_cv_ becomes runnable.
SignalAll == signaled' = {w \in Writers : wpc[w] = "waitbg"}
                          \cup (IF pc[Fg] = "s1wait" THEN {Fg} ELSE {})

\* DBImpl::MaybeScheduleCompaction: one score for an imm_ not being flushed,
\* one for a level whose compaction score is due; new tasks are scheduled
\* until bg_compaction_tasks_ holds min(max_background_compactions, scores).
\* Mutation: no score for a waiting imm_.
NumScoresNoDump(i, fl, l) == IF Cardinality(l) >= L0CompactTrigger THEN 1 ELSE 0

NumScores(i, fl, l) ==
    (IF i # 0 /\ ~fl THEN 1 ELSE 0)
    + (IF Cardinality(l) >= L0CompactTrigger THEN 1 ELSE 0)

MaybeScheduleCompaction(act, i, fl, l) ==
    IF shutting \/ bgError = "denied" THEN act
    ELSE LET n == Min({Cardinality(Tasks), NumScores(i, fl, l)}) - Cardinality(act)
         IN  IF n <= 0 THEN act
             ELSE act \cup (CHOOSE S \in SUBSET (Tasks \ act) : Cardinality(S) = n)

(***************************************************************************)
(* Initial state: an opened, empty engine (DBImpl after NewDB / Recover).  *)
(***************************************************************************)
Init ==
    /\ writers = <<>>
    /\ wpc = [w \in Writers |-> "idle"]
    /\ wbatch = [w \in Writers |-> NoBatch]
    /\ wforce = [w \in Writers |-> FALSE]
    /\ wdelay = [w \in Writers |-> FALSE]
    /\ wmem = [w \in Writers |-> 0]
    /\ seqNext = 1
    /\ forced = 0
    /\ mem = 1
    /\ imm = 0
    /\ mt = [m \in MemIds |-> {}]
    /\ nextMem = 2
    /\ flushing = FALSE
    /\ isWritingMem = FALSE
    /\ inserted = {}
    /\ l0 = {}
    /\ l1 = {}
    /\ fileRecs = [f \in FileNums |-> {}]
    /\ dfs = {}
    /\ nextFile = 1
    /\ pending = {}
    /\ lastSeq = 0
    /\ manifest = "free"
    /\ active = {}
    /\ pc = [t \in Threads |-> "none"]
    /\ st = [t \in Threads |-> "ok"]
    /\ idle = [t \in Threads |-> FALSE]
    /\ fnum = [t \in Threads |-> 0]
    /\ fret = [t \in Threads |-> "none"]
    /\ fseq = [t \in Threads |-> 0]
    /\ cin = [t \in Threads |-> {}]
    /\ css = [t \in Threads |-> 0]
    /\ glist = [t \in Threads |-> {}]
    /\ gdel = [t \in Threads |-> {}]
    /\ bgError = "ok"
    /\ faults = 0
    /\ signaled = {}
    /\ shutting = FALSE
    /\ dbState = "opened"
    /\ rpc = [r \in Readers |-> "idle"]
    /\ rkey = [r \in Readers |-> CHOOSE k \in Keys : TRUE]
    /\ rsnap = [r \in Readers |-> 0]
    /\ rheld = [r \in Readers |-> NoSnapshot]
    /\ rview = [r \in Readers |-> [mem |-> 0, imm |-> 0, files |-> {}]]
    /\ rres = [r \in Readers |-> 0]

(***************************************************************************)
(* DBImpl::Write and DBImpl::MakeRoomForWrite.                             *)
(***************************************************************************)
IsHead(w) == writers # <<>> /\ Head(writers) = w

\* A caller enters Write: a batch already stamped with the next sequence
\* (the tablet serialises its writers and stamps sequences in queue order),
\* or a NULL batch that forces a memtable dump.  Writes are accepted until
\* the tablet enters its second unload phase.
WriteEnqueue(w) ==
    /\ wpc[w] = "idle"
    /\ dbState \in {"opened", "shutdown1"}
    /\ \/ /\ seqNext <= MaxSeq
          /\ \E k \in Keys, t \in {"put", "del"} :
                wbatch' = [wbatch EXCEPT ![w] = [key |-> k, seq |-> seqNext, type |-> t]]
          /\ seqNext' = seqNext + 1
          /\ wforce' = [wforce EXCEPT ![w] = FALSE]
          /\ wdelay' = [wdelay EXCEPT ![w] = TRUE]
          /\ UNCHANGED forced
       \/ /\ forced < MaxForced
          /\ wbatch' = [wbatch EXCEPT ![w] = NoBatch]
          /\ forced' = forced + 1
          /\ wforce' = [wforce EXCEPT ![w] = TRUE]
          /\ wdelay' = [wdelay EXCEPT ![w] = FALSE]
          /\ UNCHANGED seqNext
    /\ writers' = Append(writers, w)
    /\ wpc' = [wpc EXCEPT ![w] = "room"]
    /\ UNCHANGED <<wmem, memvars, vsvars, bgvars, ctlvars, rvars>>

\* MakeRoomForWrite breaks with OK: a data batch sets is_writting_mem_ and
\* goes on to insert, with the mutex released, into m, the mem_ it reads
\* right after the unlock; a NULL batch is done.
Proceed(w, m) ==
    IF wbatch[w] # NoBatch
    THEN /\ wpc' = [wpc EXCEPT ![w] = "insert"]
         /\ wmem' = [wmem EXCEPT ![w] = m]
         /\ isWritingMem' = TRUE
    ELSE /\ wpc' = [wpc EXCEPT ![w] = "finish"]
         /\ UNCHANGED <<wmem, isWritingMem>>

Delayed(w) == wdelay[w] /\ Cardinality(l0) >= L0SlowdownTrigger
HasRoom(w) == ~wforce[w] /\ Cardinality(mt[mem]) < MemCap

\* One pass of the MakeRoomForWrite loop by the head writer, up to the
\* point where it breaks, sleeps or waits (each of which ends the locked
\* stretch).  The swap branch loops again at once, and the next pass
\* breaks: the new memtable has room and force has been reset.
MakeRoomForWrite(w) ==
    /\ IsHead(w)
    /\ wpc[w] = "room"
    /\ \/ /\ bgError # "ok"
          /\ wpc' = [wpc EXCEPT ![w] = "finish"]
          /\ UNCHANGED <<wforce, wdelay, wmem, memvars, active, signaled>>
       \/ /\ bgError = "ok"
          /\ Delayed(w)
          /\ wpc' = [wpc EXCEPT ![w] = "sleep"]
          /\ wdelay' = [wdelay EXCEPT ![w] = FALSE]
          /\ UNCHANGED <<wforce, wmem, memvars, active, signaled>>
       \/ /\ bgError = "ok" /\ ~Delayed(w)
          /\ shutting \/ HasRoom(w)
          /\ Proceed(w, mem)
          /\ UNCHANGED <<wforce, wdelay, mem, imm, mt, nextMem, flushing, inserted,
                         active, signaled>>
       \/ /\ bgError = "ok" /\ ~Delayed(w) /\ ~shutting /\ ~HasRoom(w)
          /\ imm # 0 \/ Cardinality(l0) >= L0StopTrigger
          /\ wpc' = [wpc EXCEPT ![w] = "waitbg"]
          /\ signaled' = signaled \ {w}
          /\ UNCHANGED <<wforce, wdelay, wmem, memvars, active>>
       \/ /\ bgError = "ok" /\ ~Delayed(w) /\ ~shutting /\ ~HasRoom(w)
          /\ imm = 0 /\ Cardinality(l0) < L0StopTrigger
          /\ nextMem <= MaxMemTables
          /\ imm' = mem
          /\ mem' = nextMem
          /\ nextMem' = nextMem + 1
          /\ wforce' = [wforce EXCEPT ![w] = FALSE]
          /\ active' = MaybeScheduleCompaction(active, mem, flushing, l0)
          /\ Proceed(w, nextMem)
          /\ UNCHANGED <<wdelay, mt, flushing, inserted, signaled>>
    /\ UNCHANGED <<writers, wbatch, seqNext, forced, vsvars, pc, st, idle, fnum,
                   fret, fseq, cin, css, glist, gdel, bgError, faults, shutting,
                   dbState, rvars>>

\* The 1 ms slowdown sleep ends; the writer re-enters the loop.
WriteSleepDone(w) ==
    /\ wpc[w] = "sleep"
    /\ wpc' = [wpc EXCEPT ![w] = "room"]
    /\ UNCHANGED <<writers, wbatch, wforce, wdelay, wmem, seqNext, forced, memvars,
                   vsvars, bgvars, ctlvars, rvars>>

\* bg_cv_.Wait() in MakeRoomForWrite returns after a SignalAll.
WriteWakeup(w) ==
    /\ wpc[w] = "waitbg"
    /\ w \in signaled
    /\ wpc' = [wpc EXCEPT ![w] = "room"]
    /\ signaled' = signaled \ {w}
    /\ UNCHANGED <<writers, wbatch, wforce, wdelay, wmem, seqNext, forced, memvars,
                   vsvars, bgvars, bgError, faults, shutting, dbState, rvars>>

\* WriteBatchInternal::InsertInto(updates, mem_) with the mutex released
\* completes: the batch lands in the memtable the writer read.
WriteInsert(w) ==
    /\ wpc[w] = "insert"
    /\ mt' = [mt EXCEPT ![wmem[w]] = @ \cup {wbatch[w]}]
    /\ inserted' = inserted \cup {wbatch[w]}
    /\ wpc' = [wpc EXCEPT ![w] = "finish"]
    /\ UNCHANGED <<writers, wbatch, wforce, wdelay, wmem, seqNext, forced, mem, imm,
                   nextMem, flushing, isWritingMem, vsvars, bgvars, ctlvars, rvars>>

\* The locked tail of Write: pop the queue, wake the next head, clear
\* is_writting_mem_ and signal writting_mem_cv_.
WriteFinish(w) ==
    /\ wpc[w] = "finish"
    /\ IsHead(w)
    /\ writers' = Tail(writers)
    /\ isWritingMem' = FALSE
    /\ wpc' = [wpc EXCEPT ![w] = "idle"]
    /\ UNCHANGED <<wbatch, wforce, wdelay, wmem, seqNext, forced, mem, imm, mt, nextMem,
                   flushing, inserted, vsvars, bgvars, ctlvars, rvars>>

(***************************************************************************)
(* BackgroundCall / BackgroundCompaction, CompactMemTable and              *)
(* WriteLevel0Table.  A dump is run by its owner thread th (a background   *)
(* task, a compaction that dumps imm_ in passing, or the Shutdown thread)  *)
(* and returns to fret[th].                                                *)
(***************************************************************************)
CompPcs == {"compWork", "compInstall", "compManifest"}
\* A task holds its Compaction (and the input version) from PickCompaction
\* until CleanupCompaction, including while it dumps imm inline from
\* HandleCompactionWork.
InCompaction(u) ==
    \/ pc[u] \in CompPcs
    \/ pc[u] \in {"flushBuild", "flushApply", "flushManifest"} /\ fret[u] = "compWork"
Compacting == \E u \in Tasks : InCompaction(u)
\* PickCompaction finds work: a due level-0 score and no compaction running.
CanCompact == Cardinality(l0) >= L0CompactTrigger /\ ~Compacting
ImmToDump == imm # 0 /\ ~flushing

\* The locked tail of BackgroundCall on success (or during shutdown): the
\* task leaves bg_compaction_tasks_, reschedules unless sched_idle, and
\* signals bg_cv_.
\* Mutation: the task is never erased from bg_compaction_tasks_.
BgTailKeepsTask(t, schedIdle) ==
    /\ active' = IF schedIdle THEN active
                 ELSE MaybeScheduleCompaction(active, imm, flushing, l0)
    /\ SignalAll

BgTail(t, schedIdle) ==
    /\ active' = IF schedIdle THEN active \ {t}
                 ELSE MaybeScheduleCompaction(active \ {t}, imm, flushing, l0)
    /\ SignalAll

\* CompactMemTable up to the unlock in WriteLevel0Table: mark imm_ as
\* being flushed, take a file number and protect it in pending_outputs_.
DumpBegin(th, ret) ==
    /\ nextFile <= MaxFiles
    /\ flushing' = TRUE
    /\ fnum' = [fnum EXCEPT ![th] = nextFile]
    /\ nextFile' = nextFile + 1
    /\ pending' = pending \cup {nextFile}
    /\ fret' = [fret EXCEPT ![th] = ret]
    /\ pc' = [pc EXCEPT ![th] = "flushBuild"]

\* A scheduled task runs BackgroundCall: nothing to do once shutting down;
\* otherwise BackgroundCompaction dumps imm_ (an empty imm_ is dropped and
\* counts as idle), or starts ParallelCompaction, or finds nothing to do.
BackgroundCall(t) ==
    /\ t \in active
    /\ pc[t] = "none"
    /\ \/ /\ shutting
          /\ BgTail(t, TRUE)
          /\ UNCHANGED <<memvars, vsvars, pc, idle, fnum, fret, cin, css>>
       \/ /\ ~shutting /\ ImmToDump /\ mt[imm] = {}
          /\ imm' = 0
          /\ BgTail(t, TRUE)
          /\ UNCHANGED <<mem, mt, nextMem, flushing, isWritingMem, inserted, vsvars,
                         pc, idle, fnum, fret, cin, css>>
       \/ /\ ~shutting /\ ImmToDump /\ mt[imm] # {}
          /\ DumpBegin(t, "bgEnd")
          /\ idle' = [idle EXCEPT ![t] = FALSE]
          /\ UNCHANGED <<mem, imm, mt, nextMem, isWritingMem, inserted, l0, l1,
                         fileRecs, dfs, lastSeq, manifest, active, cin, css, signaled>>
       \/ /\ ~shutting /\ ~ImmToDump /\ CanCompact
          /\ cin' = [cin EXCEPT ![t] = l0 \cup l1]
          /\ css' = [css EXCEPT ![t] = SmallestSnapshot]
          /\ idle' = [idle EXCEPT ![t] = FALSE]
          /\ pc' = [pc EXCEPT ![t] = "compWork"]
          /\ UNCHANGED <<memvars, vsvars, active, fnum, fret, signaled>>
       \/ /\ ~shutting /\ ~ImmToDump /\ ~CanCompact
          /\ BgTail(t, TRUE)
          /\ UNCHANGED <<memvars, vsvars, pc, idle, fnum, fret, cin, css>>
    /\ UNCHANGED <<wvars, st, fseq, glist, gdel, bgError, faults, shutting, dbState, rvars>>

\* BuildTable with the mutex released: the table holds every entry of
\* imm_, or the build fails and leaves no file.
DumpBuild(th) ==
    /\ pc[th] = "flushBuild"
    /\ \/ /\ dfs' = dfs \cup {fnum[th]}
          /\ fileRecs' = [fileRecs EXCEPT ![fnum[th]] = mt[imm]]
          /\ st' = [st EXCEPT ![th] = "ok"]
          /\ UNCHANGED faults
       \/ /\ faults < MaxFaults
          /\ \E e \in {"io", "denied"} : st' = [st EXCEPT ![th] = e]
          /\ faults' = faults + 1
          /\ UNCHANGED <<dfs, fileRecs>>
    /\ pc' = [pc EXCEPT ![th] = "flushApply"]
    /\ UNCHANGED <<wvars, memvars, l0, l1, nextFile, pending, lastSeq, manifest,
                   active, idle, fnum, fret, fseq, cin, css, glist, gdel, bgError,
                   signaled, shutting, dbState, rvars>>

\* Back in CompactMemTable under the lock.  On success the edit records
\* imm_'s last sequence and LogAndApply releases the mutex to write the
\* MANIFEST; on failure BeingFlushed is reset and the error returned.  A
\* dump run inside HandleCompactionWork signals bg_cv_ when it returns.
DumpApply(th) ==
    /\ pc[th] = "flushApply"
    /\ \/ /\ st[th] = "ok"
          /\ manifest = "free"
          /\ manifest' = th
          /\ fseq' = [fseq EXCEPT ![th] = ImmLastSequence]
          /\ pc' = [pc EXCEPT ![th] = "flushManifest"]
          /\ UNCHANGED <<flushing, pending, signaled>>
       \/ /\ st[th] # "ok"
          /\ pending' = pending \ {fnum[th]}
          /\ flushing' = FALSE
          /\ pc' = [pc EXCEPT ![th] = fret[th]]
          /\ IF fret[th] = "compWork" THEN SignalAll ELSE UNCHANGED signaled
          /\ UNCHANGED <<manifest, fseq>>
    /\ UNCHANGED <<wvars, mem, imm, mt, nextMem, isWritingMem, inserted, l0, l1,
                   fileRecs, dfs, nextFile, lastSeq, active, st, idle, fnum, fret,
                   cin, css, glist, gdel, bgError, faults, shutting, dbState, rvars>>

\* LogAndApply finishes: the new version holds the table in level 0 and
\* the last sequence; pending_outputs_ forgets the number and imm_ is
\* released.  If the MANIFEST write fails the table stays an orphan on DFS.
DumpInstall(th) ==
    /\ pc[th] = "flushManifest"
    /\ \/ /\ l0' = l0 \cup {fnum[th]}
          /\ lastSeq' = fseq[th]
          /\ imm' = 0
          /\ UNCHANGED <<st, faults>>
       \/ /\ faults < MaxFaults
          /\ st' = [st EXCEPT ![th] = "io"]
          /\ faults' = faults + 1
          /\ UNCHANGED <<l0, lastSeq, imm>>
    /\ manifest' = "free"
    /\ pending' = pending \ {fnum[th]}
    /\ flushing' = FALSE
    /\ pc' = [pc EXCEPT ![th] = fret[th]]
    /\ IF fret[th] = "compWork" THEN SignalAll ELSE UNCHANGED signaled
    /\ UNCHANGED <<wvars, mem, mt, nextMem, isWritingMem, inserted, l1, fileRecs,
                   dfs, nextFile, active, idle, fnum, fret, fseq, cin, css, glist,
                   gdel, bgError, shutting, dbState, rvars>>

(***************************************************************************)
(* ParallelCompaction, HandleCompactionWork, InstallCompactionResults,     *)
(* CleanupCompaction and DeleteObsoleteFiles.                              *)
(***************************************************************************)
\* last_sequence_for_key when HandleCompactionWork reaches r: the sequence
\* of the entry of the same key just before it (the next newer one).
NewerSeq(S, r) ==
    LET N == {o.seq : o \in {x \in S : x.key = r.key /\ x.seq > r.seq}}
    IN  IF N = {} THEN MaxSeq + 1 ELSE Min(N)

\* The entries HandleCompactionWork keeps: it drops one hidden by a newer
\* entry that every snapshot sees (A), and a deletion every snapshot sees
\* when the output level is the base level for the key.
\* Mutation: the kMaxSequenceNumber test of line 1560 dropped, so the
\* newest entry of a key counts as hidden when no snapshot is held.
KeptByCompactionNoMaxCheck(S, ss) ==
    {r \in S : /\ ~(NewerSeq(S, r) <= ss)
               /\ ~(r.type = "del" /\ r.seq <= ss /\ DropBaseLevelDel)}

KeptByCompaction(S, ss) ==
    {r \in S : /\ ~(NewerSeq(S, r) <= ss /\ NewerSeq(S, r) # MaxSeq + 1)
               /\ ~(r.type = "del" /\ r.seq <= ss /\ DropBaseLevelDel)}

\* Files referenced by a version someone holds: Get's pinned version and
\* the input version of a running compaction (VersionSet::AddLiveFiles).
\* Mutation: the version a Get holds is not counted.
PinnedFilesNoReaders == UNION {cin[u] : u \in {x \in Tasks : InCompaction(x)}}

PinnedFiles ==
    UNION {rview[r].files : r \in {x \in Readers : rpc[x] \in {"lookup", "done"}}}
    \cup UNION {cin[u] : u \in {x \in Tasks : InCompaction(x)}}

\* DeleteObsoleteFiles' live set: pending_outputs_ and AddLiveFiles.
\* Mutation: pending_outputs_ left out.
LiveFilesNoPending == l0 \cup l1 \cup PinnedFiles
LiveFiles == pending \cup l0 \cup l1 \cup PinnedFiles

\* The end of BackgroundCompaction: a compaction error outside shutdown
\* becomes bg_error_ under paranoid_checks.
CompactionReturn(t, s) ==
    /\ bgError' = IF s # "ok" /\ ~shutting /\ ParanoidChecks /\ bgError = "ok"
                  THEN s ELSE bgError
    /\ pc' = [pc EXCEPT ![t] = "bgEnd"]

\* After install: CleanupCompaction drops the output from pending_outputs_,
\* the compaction is released, and DeleteObsoleteFiles runs unless the
\* error is IOPermissionDenied (it returns at once after a bg_error_).
CompactionDone(t, s) ==
    /\ st' = [st EXCEPT ![t] = s]
    /\ pending' = pending \ {fnum[t]}
    /\ IF s # "denied" /\ bgError = "ok"
       THEN /\ pc' = [pc EXCEPT ![t] = "gcList"]
            /\ UNCHANGED bgError
       ELSE CompactionReturn(t, s)

\* The compaction loop, run with the mutex released: it dumps imm_ in
\* passing when there is one, and at the end writes its output (opening
\* it registers the number in pending_outputs_) or stops with an error
\* when the DB is shutting down.
HandleCompactionWork(t) ==
    /\ pc[t] = "compWork"
    /\ \/ /\ ImmToDump /\ mt[imm] = {}
          /\ imm' = 0
          /\ SignalAll
          /\ UNCHANGED <<flushing, pc, st, fnum, fret, nextFile, pending, dfs,
                         fileRecs, faults>>
       \/ /\ ImmToDump /\ mt[imm] # {}
          /\ DumpBegin(t, "compWork")
          /\ UNCHANGED <<imm, st, dfs, fileRecs, faults, signaled>>
       \/ LET out == KeptByCompaction(FilesRecs(cin[t]), css[t])
          IN  /\ \/ /\ shutting
                    /\ st' = [st EXCEPT ![t] = "io"]
                    /\ fnum' = [fnum EXCEPT ![t] = 0]
                    /\ UNCHANGED <<nextFile, pending, dfs, fileRecs, faults>>
                 \/ /\ ~shutting /\ out = {}
                    /\ st' = [st EXCEPT ![t] = "ok"]
                    /\ fnum' = [fnum EXCEPT ![t] = 0]
                    /\ UNCHANGED <<nextFile, pending, dfs, fileRecs, faults>>
                 \/ /\ ~shutting /\ out # {}
                    /\ nextFile <= MaxFiles
                    /\ fnum' = [fnum EXCEPT ![t] = nextFile]
                    /\ nextFile' = nextFile + 1
                    /\ pending' = pending \cup {nextFile}
                    /\ dfs' = dfs \cup {nextFile}
                    /\ fileRecs' = [fileRecs EXCEPT ![nextFile] = out]
                    /\ \/ /\ st' = [st EXCEPT ![t] = "ok"]
                          /\ UNCHANGED faults
                       \/ /\ faults < MaxFaults
                          /\ \E e \in {"io", "denied"} : st' = [st EXCEPT ![t] = e]
                          /\ faults' = faults + 1
              /\ pc' = [pc EXCEPT ![t] = "compInstall"]
              /\ UNCHANGED <<imm, flushing, fret, signaled>>
    /\ UNCHANGED <<wvars, mem, mt, nextMem, isWritingMem, inserted, l0, l1, lastSeq,
                   manifest, active, idle, fseq, cin, css, glist, gdel, bgError,
                   shutting, dbState, rvars>>

\* Back under the lock: InstallCompactionResults hands the edit to
\* LogAndApply (which releases the mutex), or the error skips the install.
InstallCompactionResults(t) ==
    /\ pc[t] = "compInstall"
    /\ \/ /\ st[t] = "ok"
          /\ manifest = "free"
          /\ manifest' = t
          /\ pc' = [pc EXCEPT ![t] = "compManifest"]
          /\ UNCHANGED <<st, pending, bgError>>
       \/ /\ st[t] # "ok"
          /\ CompactionDone(t, st[t])
          /\ UNCHANGED manifest
    /\ UNCHANGED <<wvars, memvars, l0, l1, fileRecs, dfs, nextFile, lastSeq, active,
                   idle, fnum, fret, fseq, cin, css, glist, gdel, faults, signaled,
                   shutting, dbState, rvars>>

\* LogAndApply of the compaction edit finishes: the inputs leave the
\* version and a non-empty output joins level 1; then the cleanup.
CompactionApplied(t) ==
    /\ pc[t] = "compManifest"
    /\ \/ /\ l0' = l0 \ cin[t]
          /\ l1' = (l1 \ cin[t]) \cup (IF fnum[t] # 0 THEN {fnum[t]} ELSE {})
          /\ CompactionDone(t, "ok")
          /\ UNCHANGED faults
       \/ /\ faults < MaxFaults
          /\ faults' = faults + 1
          /\ CompactionDone(t, "io")
          /\ UNCHANGED <<l0, l1>>
    /\ manifest' = "free"
    /\ UNCHANGED <<wvars, memvars, fileRecs, dfs, nextFile, lastSeq, active, idle,
                   fnum, fret, fseq, cin, css, glist, gdel, signaled, shutting,
                   dbState, rvars>>

\* DeleteObsoleteFiles: GetChildren with the mutex released.
DeleteObsoleteFilesList(t) ==
    /\ pc[t] = "gcList"
    /\ glist' = [glist EXCEPT ![t] = dfs]
    /\ pc' = [pc EXCEPT ![t] = "gcDecide"]
    /\ UNCHANGED <<wvars, memvars, vsvars, active, st, idle, fnum, fret, fseq, cin,
                   css, gdel, ctlvars, rvars>>

\* Under the lock again: live = pending_outputs_ plus every file of every
\* live version; every listed table not live is to be deleted.
DeleteObsoleteFilesDecide(t) ==
    /\ pc[t] = "gcDecide"
    /\ gdel' = [gdel EXCEPT ![t] = glist[t] \ LiveFiles]
    /\ pc' = [pc EXCEPT ![t] = "gcDelete"]
    /\ UNCHANGED <<wvars, memvars, vsvars, active, st, idle, fnum, fret, fseq, cin,
                   css, glist, ctlvars, rvars>>

\* Each deletion runs with the mutex released; after the last one the
\* compaction returns its status to BackgroundCall.
DeleteObsoleteFilesDelete(t) ==
    /\ pc[t] = "gcDelete"
    /\ \/ /\ \E f \in gdel[t] :
                /\ dfs' = dfs \ {f}
                /\ gdel' = [gdel EXCEPT ![t] = @ \ {f}]
          /\ UNCHANGED <<pc, bgError>>
       \/ /\ gdel[t] = {}
          /\ CompactionReturn(t, st[t])
          /\ UNCHANGED <<dfs, gdel>>
    /\ UNCHANGED <<wvars, memvars, l0, l1, fileRecs, nextFile, pending, lastSeq,
                   manifest, active, st, idle, fnum, fret, fseq, cin, css, glist,
                   faults, signaled, shutting, dbState, rvars>>

\* The rest of BackgroundCall once BackgroundCompaction has returned: on
\* success (or during shutdown) the locked tail; on error the task signals
\* bg_cv_, turns IOPermissionDenied into bg_error_ and sleeps unlocked.
BackgroundCallEnd(t) ==
    /\ pc[t] = "bgEnd"
    /\ \/ /\ st[t] = "ok" \/ shutting
          /\ BgTail(t, idle[t])
          /\ pc' = [pc EXCEPT ![t] = "none"]
          /\ UNCHANGED bgError
       \/ /\ st[t] # "ok" /\ ~shutting
          /\ SignalAll
          /\ bgError' = IF st[t] = "denied" THEN "denied" ELSE bgError
          /\ pc' = [pc EXCEPT ![t] = "errSleep"]
          /\ UNCHANGED active
    /\ UNCHANGED <<wvars, memvars, vsvars, st, idle, fnum, fret, fseq, cin, css,
                   glist, gdel, faults, shutting, dbState, rvars>>

\* The back-off sleep ends; the task is removed and reschedules.
BackgroundCallRetry(t) ==
    /\ pc[t] = "errSleep"
    /\ BgTail(t, idle[t])
    /\ pc' = [pc EXCEPT ![t] = "none"]
    /\ UNCHANGED <<wvars, memvars, vsvars, st, idle, fnum, fret, fseq, cin, css,
                   glist, gdel, bgError, faults, shutting, dbState, rvars>>

(***************************************************************************)
(* GetSnapshot, ReleaseSnapshot and Get.  Requests are accepted until the  *)
(* tablet enters its second unload phase.                                  *)
(***************************************************************************)
ReadError == -1

\* GetSnapshot(last_sequence) with the tablet's current last sequence.
GetSnapshot(r) ==
    /\ rpc[r] = "idle"
    /\ rheld[r] = NoSnapshot
    /\ dbState \in {"opened", "shutdown1"}
    /\ rheld' = [rheld EXCEPT ![r] = GetLastSequence]
    /\ UNCHANGED <<wvars, memvars, vsvars, bgvars, ctlvars, rpc, rkey, rsnap, rview, rres>>

\* ReleaseSnapshot erases one copy from snapshots_.
ReleaseSnapshot(r) ==
    /\ rpc[r] = "idle"
    /\ rheld[r] # NoSnapshot
    /\ rheld' = [rheld EXCEPT ![r] = NoSnapshot]
    /\ UNCHANGED <<wvars, memvars, vsvars, bgvars, ctlvars, rpc, rkey, rsnap, rview, rres>>

\* The locked head of Get: the snapshot is the one the caller holds or the
\* last sequence; mem_, imm_ and the current version are referenced.
GetBegin(r) ==
    /\ rpc[r] = "idle"
    /\ dbState \in {"opened", "shutdown1"}
    /\ \E k \in Keys : rkey' = [rkey EXCEPT ![r] = k]
    /\ \/ rsnap' = [rsnap EXCEPT ![r] = GetLastSequence]
       \/ /\ rheld[r] # NoSnapshot
          /\ rsnap' = [rsnap EXCEPT ![r] = rheld[r]]
    /\ rview' = [rview EXCEPT ![r] = [mem |-> mem, imm |-> imm, files |-> l0 \cup l1]]
    /\ rpc' = [rpc EXCEPT ![r] = "lookup"]
    /\ UNCHANGED <<wvars, memvars, vsvars, bgvars, ctlvars, rheld, rres>>

\* With the mutex released: the memtable, then the immutable memtable,
\* then the version's tables; a table gone from DFS is a read error.
GetLookup(r) ==
    /\ rpc[r] = "lookup"
    /\ LET v == rview[r]
           k == rkey[r]
           s == rsnap[r]
           inMem == Visible(mt[v.mem], k, s)
           inImm == IF v.imm # 0 THEN Visible(mt[v.imm], k, s) ELSE NoRec
       IN  rres' = [rres EXCEPT ![r] =
                      IF inMem # NoRec THEN Answer(inMem)
                      ELSE IF inImm # NoRec THEN Answer(inImm)
                      ELSE IF v.files \subseteq dfs
                           THEN Answer(Visible(FilesRecs(v.files), k, s))
                           ELSE ReadError]
    /\ rpc' = [rpc EXCEPT ![r] = "done"]
    /\ UNCHANGED <<wvars, memvars, vsvars, bgvars, ctlvars, rkey, rsnap, rheld, rview>>

\* The locked tail of Get releases the references.
GetEnd(r) ==
    /\ rpc[r] = "done"
    /\ rpc' = [rpc EXCEPT ![r] = "idle"]
    /\ UNCHANGED <<wvars, memvars, vsvars, bgvars, ctlvars, rkey, rsnap, rheld, rview, rres>>

(***************************************************************************)
(* Shutdown1 and Shutdown2, run by the unloading thread Fg.                *)
(***************************************************************************)
\* Shutdown1 sets shutting_down_ and waits for bg_compaction_tasks_ to drain.
Shutdown1(th) ==
    /\ th = Fg
    /\ pc[Fg] = "none"
    /\ dbState = "opened"
    /\ dbState' = "shutdown1"
    /\ shutting' = TRUE
    /\ pc' = [pc EXCEPT ![Fg] = "s1wait"]
    /\ signaled' = signaled \ {Fg}
    /\ UNCHANGED <<wvars, memvars, vsvars, active, st, idle, fnum, fret, fseq, cin,
                   css, glist, gdel, bgError, faults, rvars>>

\* The bg_cv_ wait loop: re-check after a signal, or go on once no task is
\* left.  Then: return bg_error_ if it is IOPermissionDenied, return if
\* dump_mem_on_shutdown is off, else dump imm_ if there is one.
Shutdown1Drained(th) ==
    /\ th = Fg
    /\ pc[Fg] = "s1wait"
    /\ \/ /\ active # {}
          /\ Fg \in signaled
          /\ signaled' = signaled \ {Fg}
          /\ UNCHANGED <<memvars, vsvars, pc, fnum, fret, st>>
       \/ /\ active = {}
          /\ \/ /\ bgError = "denied"
                /\ st' = [st EXCEPT ![Fg] = "denied"]
                /\ pc' = [pc EXCEPT ![Fg] = "closed"]
                /\ UNCHANGED <<memvars, vsvars, fnum, fret>>
             \/ /\ bgError # "denied" /\ ~DumpMemOnShutdown
                /\ pc' = [pc EXCEPT ![Fg] = "s1ok"]
                /\ UNCHANGED <<memvars, vsvars, fnum, fret, st>>
             \/ /\ bgError # "denied" /\ DumpMemOnShutdown
                /\ IF imm = 0 THEN TRUE ELSE mt[imm] = {}
                /\ imm' = 0
                /\ st' = [st EXCEPT ![Fg] = "ok"]
                /\ pc' = [pc EXCEPT ![Fg] = "s1imm"]
                /\ UNCHANGED <<mem, mt, nextMem, flushing, isWritingMem, inserted,
                               vsvars, fnum, fret>>
             \/ /\ bgError # "denied" /\ DumpMemOnShutdown
                /\ imm # 0 /\ mt[imm] # {}
                /\ DumpBegin(Fg, "s1imm")
                /\ UNCHANGED <<mem, imm, mt, nextMem, isWritingMem, inserted, l0, l1,
                               fileRecs, dfs, lastSeq, manifest, st>>
          /\ UNCHANGED signaled
    /\ UNCHANGED <<wvars, active, idle, fseq, cin, css, glist, gdel, bgError, faults,
                   shutting, dbState, rvars>>

\* Mutation: mem_ is swapped without waiting for is_writting_mem_.
Shutdown1DumpMemNoWait(th) ==
    /\ th = Fg
    /\ pc[Fg] = "s1imm"
    /\ \/ /\ st[Fg] # "ok"
          /\ pc' = [pc EXCEPT ![Fg] = "closed"]
          /\ UNCHANGED <<memvars, vsvars, fnum, fret>>
       \/ /\ st[Fg] = "ok"
          /\ nextMem <= MaxMemTables
          /\ mem' = nextMem
          /\ nextMem' = nextMem + 1
          /\ IF mt[mem] = {}
             THEN /\ imm' = 0
                  /\ pc' = [pc EXCEPT ![Fg] = "s1ok"]
                  /\ UNCHANGED <<flushing, fnum, fret, nextFile, pending>>
             ELSE /\ imm' = mem
                  /\ DumpBegin(Fg, "s1mem")
          /\ UNCHANGED <<mt, isWritingMem, inserted, l0, l1, fileRecs, dfs, lastSeq,
                         manifest>>
    /\ UNCHANGED <<wvars, active, st, idle, fseq, cin, css, glist, gdel, ctlvars, rvars>>

\* After the imm_ dump: wait until no writer is inside InsertInto, make
\* mem_ the new imm_ and dump it too.
Shutdown1DumpMem(th) ==
    /\ th = Fg
    /\ pc[Fg] = "s1imm"
    /\ \/ /\ st[Fg] # "ok"
          /\ pc' = [pc EXCEPT ![Fg] = "closed"]
          /\ UNCHANGED <<memvars, vsvars, fnum, fret>>
       \/ /\ st[Fg] = "ok"
          /\ ~isWritingMem
          /\ nextMem <= MaxMemTables
          /\ mem' = nextMem
          /\ nextMem' = nextMem + 1
          /\ IF mt[mem] = {}
             THEN /\ imm' = 0
                  /\ pc' = [pc EXCEPT ![Fg] = "s1ok"]
                  /\ UNCHANGED <<flushing, fnum, fret, nextFile, pending>>
             ELSE /\ imm' = mem
                  /\ DumpBegin(Fg, "s1mem")
          /\ UNCHANGED <<mt, isWritingMem, inserted, l0, l1, fileRecs, dfs, lastSeq,
                         manifest>>
    /\ UNCHANGED <<wvars, active, st, idle, fseq, cin, css, glist, gdel, ctlvars, rvars>>

\* Shutdown1 returns the status of the last dump.
Shutdown1Return(th) ==
    /\ th = Fg
    /\ pc[Fg] = "s1mem"
    /\ pc' = [pc EXCEPT ![Fg] = IF st[Fg] = "ok" THEN "s1ok" ELSE "closed"]
    /\ UNCHANGED <<wvars, memvars, vsvars, active, st, idle, fnum, fret, fseq, cin,
                   css, glist, gdel, ctlvars, rvars>>

\* Shutdown2, called once Shutdown1 succeeded and the tablet has stopped
\* taking requests: mem_ becomes imm_, mem_ becomes NULL, and imm_ is dumped.
Shutdown2(th) ==
    /\ th = Fg
    /\ pc[Fg] = "s1ok"
    /\ writers = <<>>
    /\ \A r \in Readers : rpc[r] = "idle"
    /\ dbState' = "shutdown2"
    /\ \/ /\ bgError = "denied" \/ ~DumpMemOnShutdown
          /\ pc' = [pc EXCEPT ![Fg] = "closed"]
          /\ UNCHANGED <<memvars, nextFile, pending, fnum, fret>>
       \/ /\ bgError # "denied" /\ DumpMemOnShutdown
          /\ mem' = 0
          /\ IF mt[mem] = {}
             THEN /\ imm' = 0
                  /\ pc' = [pc EXCEPT ![Fg] = "closed"]
                  /\ UNCHANGED <<flushing, fnum, fret, nextFile, pending>>
             ELSE /\ imm' = mem
                  /\ DumpBegin(Fg, "closed")
          /\ UNCHANGED <<mt, nextMem, isWritingMem, inserted>>
    /\ UNCHANGED <<wvars, l0, l1, fileRecs, dfs, lastSeq, manifest, active, st, idle,
                   fseq, cin, css, glist, gdel, bgError, faults, signaled, shutting,
                   rvars>>

\* The engine is closed and nothing is left to run.
Closed ==
    /\ pc[Fg] = "closed"
    /\ UNCHANGED vars

(***************************************************************************)
(* The specification.  Every step of a thread already running is weakly   *)
(* fair (the mutex and condition variables are fair enough, and the env's *)
(* thread pool runs every scheduled task); starting a write, a read, a    *)
(* snapshot or the unload is up to the callers and is not.                *)
(***************************************************************************)
WriterStep(w) ==
    \/ MakeRoomForWrite(w) \/ WriteSleepDone(w) \/ WriteWakeup(w)
    \/ WriteInsert(w) \/ WriteFinish(w)

TaskStep(t) ==
    \/ BackgroundCall(t) \/ HandleCompactionWork(t) \/ InstallCompactionResults(t)
    \/ CompactionApplied(t) \/ DeleteObsoleteFilesList(t)
    \/ DeleteObsoleteFilesDecide(t) \/ DeleteObsoleteFilesDelete(t)
    \/ BackgroundCallEnd(t) \/ BackgroundCallRetry(t)

DumpStep(th) == DumpBuild(th) \/ DumpApply(th) \/ DumpInstall(th)

FgStep == Shutdown1Drained(Fg) \/ Shutdown1DumpMem(Fg) \/ Shutdown1Return(Fg)

Next ==
    \/ \E w \in Writers : WriteEnqueue(w) \/ WriterStep(w)
    \/ \E t \in Tasks : TaskStep(t)
    \/ \E th \in Threads : DumpStep(th)
    \/ Shutdown1(Fg) \/ FgStep \/ Shutdown2(Fg)
    \/ \E r \in Readers : GetSnapshot(r) \/ ReleaseSnapshot(r) \/ GetBegin(r)
                         \/ GetLookup(r) \/ GetEnd(r)
    \/ Closed

Fairness ==
    /\ \A w \in Writers : WF_vars(WriterStep(w))
    /\ \A t \in Tasks : WF_vars(TaskStep(t))
    /\ \A th \in Threads : WF_vars(DumpStep(th))
    /\ WF_vars(FgStep)
    /\ \A r \in Readers : WF_vars(GetLookup(r) \/ GetEnd(r))

Spec == Init /\ [][Next]_vars /\ Fairness

(***************************************************************************)
(* Properties.                                                             *)
(***************************************************************************)
TypeOK ==
    /\ Len(writers) <= Cardinality(Writers)
    /\ wpc \in [Writers -> {"idle", "room", "sleep", "waitbg", "insert", "finish"}]
    /\ wbatch \in [Writers -> Rec \cup {NoBatch}]
    /\ wmem \in [Writers -> MemIds \cup {0}]
    /\ mem \in MemIds \cup {0} /\ imm \in MemIds \cup {0}
    /\ mt \in [MemIds -> SUBSET Rec]
    /\ inserted \subseteq Rec
    /\ l0 \subseteq FileNums /\ l1 \subseteq FileNums /\ dfs \subseteq FileNums
    /\ pending \subseteq FileNums
    /\ lastSeq \in 0..MaxSeq
    /\ manifest \in Threads \cup {"free"}
    /\ active \subseteq Tasks
    /\ st \in [Threads -> Status]
    /\ bgError \in Status
    /\ rres \in [Readers -> {ReadError} \cup 0..MaxSeq]

\* Crash safety of the dump protocol (CompactMemTable, LogAndApply,
\* DeleteObsoleteFiles): recovery replays only WAL records above the
\* MANIFEST's last sequence, so for every key the tables of the current
\* version must answer exactly as the history of inserted writes does at
\* that sequence, and every one of those tables must still be on DFS.
RecoverableFromManifest ==
    /\ l0 \cup l1 \subseteq dfs
    /\ \A k \in Keys :
          Answer(Visible(FilesRecs(l0 \cup l1), k, lastSeq))
            = Answer(Visible(inserted, k, lastSeq))

\* No table that a version in use refers to (the current one, one pinned by
\* a Get, a running compaction's input) or that pending_outputs_ protects
\* is deleted by DeleteObsoleteFiles, whose directory listing is taken
\* with the mutex released.
LiveFilesOnDfs ==
    /\ l0 \cup l1 \subseteq dfs
    /\ \A r \in Readers : rpc[r] \in {"lookup", "done"} => rview[r].files \subseteq dfs
    /\ \A u \in Tasks : InCompaction(u) => cin[u] \subseteq dfs

\* Get with a snapshot (held through GetSnapshot, or the last sequence)
\* returns the newest write at or below it, across memtable swaps, dumps,
\* compactions that drop hidden entries, and file deletion.
GetSeesSnapshot ==
    \A r \in Readers :
        rpc[r] = "done" => rres[r] = Answer(Visible(inserted, rkey[r], rsnap[r]))

\* A clean unload with dump_mem_on_shutdown leaves nothing to replay: once
\* Shutdown2's dump has committed, the MANIFEST's last sequence covers
\* every write that reached a memtable.
ShutdownDumpsEverything ==
    (pc[Fg] = "closed" /\ dbState = "shutdown2" /\ st[Fg] = "ok"
     /\ DumpMemOnShutdown /\ bgError # "denied")
        => lastSeq = LastSeqOf(inserted)

(***************************************************************************)
(* Refinement.  The engine implements KvStore: the newest record of each  *)
(* key over mem_, imm_ and the current version's tables is the abstract   *)
(* map, and the last sequence inserted into a memtable is its last write. *)
(***************************************************************************)
MemRecs(m) == IF m = 0 THEN {} ELSE mt[m]

\* What a Get at kMaxSequenceNumber reads through: MemTable::Get on mem_
\* and imm_, then Version::Get on the tables of the current version.
Contents == MemRecs(mem) \cup MemRecs(imm) \cup FilesRecs(l0 \cup l1)

KV == INSTANCE KvStore WITH
        store <- [k \in Keys |-> Answer(Visible(Contents, k, MaxSeq))],
        last <- LastSeqOf(inserted)

\* Every step of the engine is either one write applied at the next
\* sequence, or leaves the newest value of every key as it was: a memtable
\* swap, a dump (BuildTable of imm_ and the LogAndApply that releases it),
\* and a compaction that drops hidden entries and base-level deletions
\* neither lose nor resurrect a write.
KvRefinement == KV!Spec

\* Every write that enters the queue returns (with OK or bg_error_): the
\* MakeRoomForWrite waits on bg_cv_ are always ended by a background task.
WritesComplete == \A w \in Writers : wpc[w] # "idle" ~> wpc[w] = "idle"

\* Shutdown1's wait for the background tasks ends.
ShutdownCompletes == pc[Fg] = "s1wait" ~> pc[Fg] \in {"s1ok", "closed"}
=============================================================================
