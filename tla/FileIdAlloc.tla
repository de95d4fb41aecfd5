---------------------------- MODULE FileIdAlloc ----------------------------
(***************************************************************************)
(* File-id allocation of the persistent block cache (BlockCacheImpl in     *)
(* src/src/leveldb/util/block_cache.cc): FileId, AllocFileId, DeleteFile   *)
(* and the per-key lock LockAndPut that all three go through, with a       *)
(* restart that recovers new_fid_/prev_fid_ from the FID# record as        *)
(* LoadCache does.  The same lock guards the data sets: GetAndAllocBlock   *)
(* takes its block's DataSet through GetDataSet, whose LockAndPut on the   *)
(* kDataSetKey creates it (ReloadDataSet) at most once.                    *)
(*                                                                         *)
(* Each action is one stretch of code between two operations on mu_, or   *)
(* the unlocked meta-db access LockAndPut makes with mu_ released.  The    *)
(* meta db is modelled by the two key families it holds: the FID# counter *)
(* (dbFid) and the FNAME#<file> records (dbName).  Its writes are durable  *)
(* across a process restart (the leveldb log is written before Put        *)
(* returns).                                                               *)
(***************************************************************************)
EXTENDS Integers, FiniteSets

CONSTANTS
    Threads,       \* threads opening (FileId) or deleting (DeleteFile) files
    Files,         \* SSTable names
    FidBatchNum,   \* options_.fid_batch_num
    MaxFid,        \* no FileId starts once new_fid_ has reached this bound
    MaxRestarts,   \* bound on process restarts
    NoThread,      \* model value: mu_ is free
    BadFid,        \* model value: DecodeFixed64 of an empty value
    Sids,          \* data set ids, 0..options_.dataset_num-1
    Blocks         \* (fid, block_idx) keys GetAndAllocBlock is called with

FidKey == "FID#"
\* The keys LockContent::Encode gives: FNAME#<file>, FID# and DS#<sid>.
Keys == Files \cup {FidKey} \cup Sids
\* hash % options_.dataset_num: some fixed map of blocks to data sets.
SidOf == CHOOSE h \in [Blocks -> Sids] : TRUE
\* The lock value of a kDeleteDBKey LockContent.
Del == -2
\* An absent FNAME# record, or a Get that returned NotFound.
NoVal == -1
\* A sid data_set_cache_ has no entry for.
NoDs == 0
NoWaiter == [wait_num |-> 0, done |-> FALSE]
Pcs == {"idle", "get", "alloc", "lapWait", "lapWaitRelock", "lapPut",
        "lapPutRelock", "lapSignal", "lapRelock", "dsLock"}

VARIABLES
    new_fid, prev_fid,  \* BlockCacheImpl::new_fid_, prev_fid_
    mu,                 \* holder of BlockCacheImpl::mu_
    lock_key,           \* lock_key_: key -> Waiter (NoWaiter if absent)
    dbFid, dbName,      \* the meta db: FID# and FNAME#<file>
    pc, op, file,       \* per thread: program counter, operation, file
    fid,                \* FileId's local fid
    lk, lv, val,        \* the LockContent in flight: key, lock value, *db_val
    handed,             \* history: ids FileId has returned, per file
    restarts,
    dsCache,            \* data_set_cache_: sid -> its DataSet, or NoDs
    reloads,            \* ReloadDataSet calls per sid since the restart
    dsBlocks,           \* the CacheBlocks in each DataSet's cache: <<ds, b>>
    blk                 \* per thread: GetAndAllocBlock's block key

mem == <<new_fid, prev_fid, mu, lock_key>>
db == <<dbFid, dbName>>
locals == <<pc, op, file, fid, lk, lv, val, blk>>
dsv == <<dsCache, reloads, dsBlocks>>
vars == <<mem, db, locals, handed, restarts, dsv>>

Init ==
    /\ prev_fid = 0
    /\ new_fid = FidBatchNum
    /\ mu = NoThread
    /\ lock_key = [k \in Keys |-> NoWaiter]
    /\ dbFid = 0
    /\ dbName = [f \in Files |-> NoVal]
    /\ pc = [t \in Threads |-> "idle"]
    /\ op = [t \in Threads |-> "fileid"]
    /\ file = [t \in Threads |-> CHOOSE f \in Files : TRUE]
    /\ fid = [t \in Threads |-> 0]
    /\ lk = [t \in Threads |-> FidKey]
    /\ lv = [t \in Threads |-> 0]
    /\ val = [t \in Threads |-> NoVal]
    /\ handed = [f \in Files |-> {}]
    /\ restarts = 0
    /\ dsCache = [s \in Sids |-> NoDs]
    /\ reloads = [s \in Sids |-> 0]
    /\ dsBlocks = {}
    /\ blk = [t \in Threads |-> CHOOSE b \in Blocks : TRUE]

(***************************************************************************)
(* LockAndPut entered with mu_ held: wait on the key's Waiter if one is    *)
(* registered, else register one and put; mu_ is released either way.     *)
(***************************************************************************)
LockAndPut(t, k, v, locks) ==
    /\ lk' = [lk EXCEPT ![t] = k]
    /\ lv' = [lv EXCEPT ![t] = v]
    /\ mu' = NoThread
    /\ IF locks[k] # NoWaiter
         THEN /\ lock_key' = [locks EXCEPT ![k].wait_num = @ + 1]
              /\ pc' = [pc EXCEPT ![t] = "lapWait"]
         ELSE /\ lock_key' = [locks EXCEPT ![k] = [wait_num |-> 1, done |-> FALSE]]
              /\ pc' = [pc EXCEPT ![t] = "lapPut"]

\* --wait_num; the last one erases the key from lock_key_.
UnrefNoErase(locks, k) == [locks EXCEPT ![k].wait_num = @ - 1]
Unref(locks, k) ==
    IF locks[k].wait_num = 1 THEN [locks EXCEPT ![k] = NoWaiter]
    ELSE [locks EXCEPT ![k].wait_num = @ - 1]

(***************************************************************************)
(* The while loop of AllocFileId, with mu_ held: while the batch is used   *)
(* up, LockAndPut FID# := new_fid_; once it is not, FileId goes on to      *)
(* LockAndPut FNAME#<file> := fid.                                         *)
(***************************************************************************)
AllocFileIdLoop(t, nf, pf, f_id, locks) ==
    IF nf - pf >= FidBatchNum
      THEN LockAndPut(t, FidKey, nf, locks)
      ELSE LockAndPut(t, file[t], f_id, locks)

\* A FileId call returns id x for file f.
Return(t, x) ==
    /\ handed' = [handed EXCEPT ![file[t]] = @ \cup {x}]
    /\ pc' = [pc EXCEPT ![t] = "idle"]

(***************************************************************************)
(* Operations a thread starts from idle.                                   *)
(***************************************************************************)
StartFileId(t, f) ==
    /\ pc[t] = "idle"
    /\ new_fid < MaxFid
    /\ op' = [op EXCEPT ![t] = "fileid"]
    /\ file' = [file EXCEPT ![t] = f]
    /\ pc' = [pc EXCEPT ![t] = "get"]
    /\ UNCHANGED <<mem, db, fid, lk, lv, val, handed, restarts, dsv, blk>>

\* DeleteFile: lock mu_, LockAndPut a kDeleteDBKey on FNAME#<file>.
DeleteFile(t, f) ==
    /\ pc[t] = "idle"
    /\ mu = NoThread
    /\ op' = [op EXCEPT ![t] = "delete"]
    /\ file' = [file EXCEPT ![t] = f]
    /\ LockAndPut(t, f, Del, lock_key)
    /\ UNCHANGED <<new_fid, prev_fid, db, fid, val, handed, restarts, dsv, blk>>

\* FileId's unlocked db_->Get of FNAME#<file>: a hit returns the id.
FileIdGet(t) ==
    /\ pc[t] = "get"
    /\ IF dbName[file[t]] # NoVal
         THEN Return(t, dbName[file[t]])
         ELSE /\ pc' = [pc EXCEPT ![t] = "alloc"]
              /\ UNCHANGED handed
    /\ UNCHANGED <<mem, db, op, file, fid, lk, lv, val, restarts, dsv, blk>>

\* A miss: lock mu_, fid = AllocFileId() (++new_fid_ and its loop).
FileIdAlloc(t) ==
    /\ pc[t] = "alloc"
    /\ mu = NoThread
    /\ new_fid' = new_fid + 1
    /\ fid' = [fid EXCEPT ![t] = new_fid + 1]
    /\ AllocFileIdLoop(t, new_fid + 1, prev_fid, new_fid + 1, lock_key)
    /\ UNCHANGED <<prev_fid, db, op, file, val, handed, restarts, dsv, blk>>

\* A waiter: Wait() until the holder signals, then GetContentAfterWait:
\* the data set from data_set_cache_, or a Get of the meta db.
LapWait(t) ==
    /\ pc[t] = "lapWait"
    /\ lock_key[lk[t]].done
    /\ val' = [val EXCEPT ![t] =
                 CASE lk[t] \in Sids -> dsCache[lk[t]]
                   [] lv[t] = Del -> val[t]
                   [] lk[t] = FidKey -> dbFid
                   [] OTHER -> dbName[lk[t]]]
    /\ pc' = [pc EXCEPT ![t] = "lapWaitRelock"]
    /\ UNCHANGED <<mem, db, op, file, fid, lk, lv, handed, restarts, dsv, blk>>

\* ReloadDataSet: a new DataSet for sid s (its 2Q cache and cache file),
\* inserted into data_set_cache_.  The DS# records it reloads into the new
\* cache are the BlockCache module's.  A DataSet is named by the number of
\* its creation for its sid (its block keys say which sid it is for).
ReloadDataSet(t, s) ==
    LET d == reloads[s] + 1
    IN /\ reloads' = [reloads EXCEPT ![s] = @ + 1]
       /\ dsCache' = [dsCache EXCEPT ![s] = d]
       /\ val' = [val EXCEPT ![t] = d]

\* Mutation: the "cannot double insert" lookup dropped; the holder always
\* reloads the data set.
PutDataSetNoRecheck(t) == ReloadDataSet(t, lk[t])

\* PutContentAfterLock for a kDataSetKey: take the data set a holder before
\* this one inserted, else reload it.
PutDataSet(t) ==
    IF dsCache[lk[t]] # NoDs
      THEN /\ val' = [val EXCEPT ![t] = dsCache[lk[t]]]
           /\ UNCHANGED <<dsCache, reloads>>
      ELSE ReloadDataSet(t, lk[t])

\* PutContentAfterLock for a db key: a Put or Delete of the meta db.
PutDbKey(t) ==
    /\ IF lk[t] = FidKey
         THEN /\ dbFid' = lv[t]
              /\ UNCHANGED dbName
         ELSE /\ dbName' = [dbName EXCEPT ![lk[t]] = IF lv[t] = Del THEN NoVal ELSE lv[t]]
              /\ UNCHANGED dbFid
    /\ val' = [val EXCEPT ![t] = IF lv[t] = Del THEN @ ELSE lv[t]]

\* The holder: PutContentAfterLock with mu_ released.
LapPut(t) ==
    /\ pc[t] = "lapPut"
    /\ IF lk[t] \in Sids
         THEN PutDataSet(t) /\ UNCHANGED db
         ELSE PutDbKey(t) /\ UNCHANGED <<dsCache, reloads>>
    /\ pc' = [pc EXCEPT ![t] = "lapPutRelock"]
    /\ UNCHANGED <<mem, op, file, fid, lk, lv, handed, restarts, dsBlocks, blk>>

\* Under ds->mu: Lookup the block in ds->cache and Insert a new CacheBlock
\* on a miss; then Release the data set's handle.
AllocBlock(d, b) == dsBlocks' = dsBlocks \cup {<<d, b>>}

(***************************************************************************)
(* The rest of the caller once LockAndPut returns with mu_ held: the loop  *)
(* of AllocFileId takes prev_fid_ from the FID# value and checks again;    *)
(* DeleteFile returns; GetDataSet unlocks and hands lc.data_set to         *)
(* GetAndAllocBlock; FileId decodes *db_val as its id and unlocks.  A      *)
(* Get that found nothing leaves *db_val empty, so with assert(s.ok())     *)
(* compiled out DecodeFixed64 reads past it: BadFid.                      *)
(***************************************************************************)
LapReturn(t, locks) ==
    CASE lk[t] = FidKey ->
           /\ prev_fid' = val[t]
           /\ AllocFileIdLoop(t, new_fid, val[t], fid[t], locks)
           /\ UNCHANGED <<handed, dsBlocks>>
      [] op[t] = "delete" ->
           /\ mu' = NoThread
           /\ lock_key' = locks
           /\ pc' = [pc EXCEPT ![t] = "idle"]
           /\ UNCHANGED <<prev_fid, lk, lv, handed, dsBlocks>>
      [] op[t] = "block" ->
           /\ mu' = NoThread
           /\ lock_key' = locks
           /\ AllocBlock(val[t], blk[t])
           /\ pc' = [pc EXCEPT ![t] = "idle"]
           /\ UNCHANGED <<prev_fid, lk, lv, handed>>
      [] OTHER ->
           /\ mu' = NoThread
           /\ lock_key' = locks
           /\ Return(t, IF val[t] = NoVal THEN BadFid ELSE val[t])
           /\ UNCHANGED <<prev_fid, lk, lv, dsBlocks>>

\* A waiter relocks mu_ and drops its reference on the Waiter.
LapWaitRelock(t) ==
    /\ pc[t] = "lapWaitRelock"
    /\ mu = NoThread
    /\ LapReturn(t, Unref(lock_key, lk[t]))
    /\ UNCHANGED <<new_fid, db, op, file, fid, val, restarts, dsCache, reloads, blk>>

\* Mutation: with waiters present the holder never signals them.
LapPutRelockNoSignal(t) ==
    /\ pc[t] = "lapPutRelock"
    /\ mu = NoThread
    /\ IF lock_key[lk[t]].wait_num = 1
         THEN LapReturn(t, Unref(lock_key, lk[t]))
         ELSE /\ lock_key' = Unref(lock_key, lk[t])
              /\ pc' = [pc EXCEPT ![t] = "lapRelock"]
              /\ UNCHANGED <<mu, prev_fid, lk, lv, handed, dsBlocks>>
    /\ UNCHANGED <<new_fid, db, op, file, fid, val, restarts, dsCache, reloads, blk>>

\* The holder relocks mu_ after the put; the last reference erases the key,
\* otherwise it unlocks again to SignalAll the waiters.
LapPutRelock(t) ==
    /\ pc[t] = "lapPutRelock"
    /\ mu = NoThread
    /\ IF lock_key[lk[t]].wait_num = 1
         THEN LapReturn(t, Unref(lock_key, lk[t]))
         ELSE /\ lock_key' = Unref(lock_key, lk[t])
              /\ pc' = [pc EXCEPT ![t] = "lapSignal"]
              /\ UNCHANGED <<mu, prev_fid, lk, lv, handed, dsBlocks>>
    /\ UNCHANGED <<new_fid, db, op, file, fid, val, restarts, dsCache, reloads, blk>>

\* Waiter::SignalAll.
LapSignal(t) ==
    /\ pc[t] = "lapSignal"
    /\ lock_key' = [lock_key EXCEPT ![lk[t]].done = TRUE]
    /\ pc' = [pc EXCEPT ![t] = "lapRelock"]
    /\ UNCHANGED <<new_fid, prev_fid, mu, db, op, file, fid, lk, lv, val, handed, restarts, dsv, blk>>

\* mu_.Lock() after SignalAll.
LapRelock(t) ==
    /\ pc[t] = "lapRelock"
    /\ mu = NoThread
    /\ LapReturn(t, lock_key)
    /\ UNCHANGED <<new_fid, db, op, file, fid, val, restarts, dsCache, reloads, blk>>

(***************************************************************************)
(* GetAndAllocBlock(fid, block_idx): GetDataSet's unlocked Lookup of       *)
(* data_set_cache_, then, on a miss, mu_ and LockAndPut of DS#<sid>; with  *)
(* the data set, lock ds->mu and find or insert the block in ds->cache.    *)
(* The ds->mu section only touches that data set's block cache, so it     *)
(* commutes with every other step and runs in the step that obtained the  *)
(* data set (AllocBlock, in LapReturn or on a Lookup hit).                 *)
(***************************************************************************)
\* GetDataSet's Lookup, made without mu_: a hit allocates the block at
\* once, a miss goes on to lock mu_.
StartGetAndAllocBlock(t, b) ==
    /\ pc[t] = "idle"
    /\ IF dsCache[SidOf[b]] # NoDs
         THEN /\ AllocBlock(dsCache[SidOf[b]], b)
              /\ UNCHANGED <<op, blk, pc>>
         ELSE /\ op' = [op EXCEPT ![t] = "block"]
              /\ blk' = [blk EXCEPT ![t] = b]
              /\ pc' = [pc EXCEPT ![t] = "dsLock"]
              /\ UNCHANGED dsBlocks
    /\ UNCHANGED <<mem, db, file, fid, lk, lv, val, handed, restarts, dsCache, reloads>>

\* A miss: lock mu_ and LockAndPut the kDataSetKey of the block's sid.
GetDataSetLock(t) ==
    /\ pc[t] = "dsLock"
    /\ mu = NoThread
    /\ LockAndPut(t, SidOf[blk[t]], 0, lock_key)
    /\ UNCHANGED <<new_fid, prev_fid, db, op, file, fid, val, blk, handed, restarts, dsv>>

(***************************************************************************)
(* A process restart: memory is lost, the meta db is kept, and LoadCache   *)
(* recovers prev_fid_ from FID# (0 if absent) and sets new_fid_ one batch  *)
(* above it.                                                               *)
(***************************************************************************)
RestartNoBatch ==
    /\ restarts < MaxRestarts
    /\ restarts' = restarts + 1
    /\ prev_fid' = dbFid
    /\ new_fid' = dbFid
    /\ mu' = NoThread
    /\ lock_key' = [k \in Keys |-> NoWaiter]
    /\ pc' = [t \in Threads |-> "idle"]
    /\ dsCache' = [s \in Sids |-> NoDs]
    /\ reloads' = [s \in Sids |-> 0]
    /\ dsBlocks' = {}
    /\ UNCHANGED <<db, op, file, fid, lk, lv, val, handed, blk>>

Restart ==
    /\ restarts < MaxRestarts
    /\ restarts' = restarts + 1
    /\ prev_fid' = dbFid
    /\ new_fid' = dbFid + FidBatchNum
    /\ mu' = NoThread
    /\ lock_key' = [k \in Keys |-> NoWaiter]
    /\ pc' = [t \in Threads |-> "idle"]
    /\ dsCache' = [s \in Sids |-> NoDs]
    /\ reloads' = [s \in Sids |-> 0]
    /\ dsBlocks' = {}
    /\ UNCHANGED <<db, op, file, fid, lk, lv, val, handed, blk>>

ThreadStep(t) ==
    \/ FileIdGet(t)
    \/ FileIdAlloc(t)
    \/ LapWait(t)
    \/ LapWaitRelock(t)
    \/ LapPut(t)
    \/ LapPutRelock(t)
    \/ LapSignal(t)
    \/ LapRelock(t)
    \/ GetDataSetLock(t)

Next ==
    \/ \E t \in Threads, f \in Files : StartFileId(t, f) \/ DeleteFile(t, f)
    \/ \E t \in Threads, b \in Blocks : StartGetAndAllocBlock(t, b)
    \/ \E t \in Threads : ThreadStep(t)
    \/ Restart

\* Every step of a started call runs: mu_ and the Waiter's condition
\* variable hand over to a blocked thread once released or signalled.
Fairness == \A t \in Threads : WF_vars(ThreadStep(t))

Spec == Init /\ [][Next]_vars /\ Fairness

-----------------------------------------------------------------------------
\* Type invariant: in particular a registered Waiter always has a thread
\* referring to it, or LockAndPut would wait on a freed Waiter.
TypeOK ==
    /\ new_fid \in Nat /\ prev_fid \in Nat /\ dbFid \in Nat
    /\ mu \in Threads \cup {NoThread}
    /\ \A k \in Keys : lock_key[k] = NoWaiter
                       \/ /\ lock_key[k].wait_num \in 1..Cardinality(Threads)
                          /\ lock_key[k].done \in BOOLEAN
    /\ dbName \in [Files -> Nat \cup {NoVal}]
    /\ pc \in [Threads -> Pcs]
    /\ lv \in [Threads -> Nat \cup {Del}]
    /\ handed \in [Files -> SUBSET (Nat \cup {BadFid})]
    /\ dsCache \in [Sids -> Nat] /\ reloads \in [Sids -> Nat]
    /\ dsBlocks \subseteq (Nat \X Blocks)

\* The ids a file holds: every id FileId ever returned for it and the one its
\* FNAME# record names.
IdsOf(f) == (handed[f] \cup {dbName[f]}) \ {NoVal, BadFid}

\* AllocFileId never grants an id twice, not even across a restart: the FID#
\* record is advanced before the batch above it is used up, and LoadCache
\* resumes one batch above it, so no two files ever share a cache file id
\* (and so their cached blocks).
FidsDistinct ==
    \A f, g \in Files : f # g => IdsOf(f) \cap IdsOf(g) = {}

\* FileId always returns an id it decoded from a value it read or wrote:
\* never the decode of the empty value a NotFound Get leaves behind.
FileIdDecoded == \A f \in Files : BadFid \notin handed[f]

\* Every FileId and DeleteFile call returns: each LockAndPut waiter is
\* signalled by the key's holder, and the loop of AllocFileId ends once
\* FID# has been advanced.
OpsComplete == \A t \in Threads : pc[t] # "idle" ~> pc[t] = "idle"

\* Every DeleteFile returns, even when it waits on the FNAME# lock of a
\* FileId that is putting the same key: the holder signals its waiters.
DeleteFileCompletes ==
    \A t \in Threads : (pc[t] # "idle" /\ op[t] = "delete") ~> pc[t] = "idle"

\* One CacheBlock per file block: GetDataSet's Lookup is made without mu_,
\* so two GetAndAllocBlock calls can both miss and reach LockAndPut of the
\* same DS#<sid> one after the other; the second holder must find the data
\* set the first inserted (PutContentAfterLock's "cannot double insert"
\* lookup), or the block gets a second CacheBlock in a second DataSet.
BlockAllocatedOnce ==
    \A p, q \in dsBlocks : p[2] = q[2] => p = q
====
