---------------------------- MODULE BlockCache ----------------------------
(***************************************************************************)
(* The read path of the persistent SSD block cache                         *)
(* (src/src/leveldb/util/block_cache.cc): one CacheBlock, identified by    *)
(* (fid, block_idx), shared by concurrent BlockCacheRandomAccessFile::Read *)
(* calls, and the three thread-pool tasks a read dispatches on it:         *)
(* HandleDfsRead, HandleCacheRead and                                     *)
(* HandleCacheWrite.  The block's state bits, its status `s`, its shared   *)
(* data buffer and reference count, the SSD slot and the DS# record are    *)
(* modelled; bytes are abstracted to "dfs" (the file's true contents) and  *)
(* "junk" (anything else).                                                 *)
(*                                                                         *)
(* The file may first be written through the cache by                      *)
(* BlockCacheWritableFile: Append goes to the DFS and to the               *)
(* BlockCacheWriteBuffer, full blocks are filled into the cache by BGFlush *)
(* tasks on bg_flush_, and Close fills the last block and waits for them.  *)
(* A file's bytes are abstracted to their offsets; the block the readers  *)
(* share is the file's first one.  Nothing reads an SSTable before its     *)
(* writer has closed it, so the readers start once the writer is done (or  *)
(* when the file was written by another server, without the cache).      *)
(***************************************************************************)
EXTENDS Integers, FiniteSets, Sequences

CONSTANTS
    Readers,        \* concurrent Read calls on the block
    MaxReads,       \* Read calls per reader
    MaxDfsFaults,   \* failed dfs_file_->Read calls
    MaxSsdFaults,   \* failed pread / pwrite calls
    MaxRestarts,    \* process restarts (LoadCache reloads DS# records)
    BlockSize,      \* options_.block_size, in bytes
    AppendSizes,    \* sizes of the writer's Append calls
    MaxWriteBytes   \* bound on the bytes the writer appends

\* The state bits kCacheBlockValid .. kCacheBlockCacheFill.
Flags == {"Valid", "Locked", "DfsRead", "CacheRead", "CacheFill"}
Bytes == {"dfs", "junk"}
Status == {"ok", "err"}
Jobs == {"dfsRead", "cacheRead", "cacheFill"}
\* Read's three lists: c_valid, c_miss, c_locked.
Lists == {"valid", "miss", "locked", "none"}
\* A reader holds a reference to the block (and its data buffer) from
\* GetAndAllocBlock until ReleaseBlock.
HoldPcs == {"wait", "fillWait", "fill", "release"}
\* The block of the file the readers read.
ReadIdx == 0

VARIABLES
    state,      \* block->state
    bs,         \* block->s
    buf,        \* block->data_block contents; "none" when freed
    refs,       \* block->data_block_refs
    ssd,        \* the block's slot in the data-set file
    meta,       \* state bits of the block's DS# record in the meta db
    jobs,       \* tasks scheduled on bg_dfs_read_, bg_read_, bg_fill_
    rpc,        \* program counter of each Read
    rlist,      \* the list Read put the block in
    rs,         \* the Read's local status s
    res,        \* the bytes the Read returns ("error": a failed status)
    nreads, dfsFaults, ssdFaults, restarts,
    wpc,        \* the writer: "open", "waiting" (in Close), "closed", "absent"
    offset,     \* write_buffer_.offset_, the bytes appended
    blocks,     \* write_buffer_.block_list_: each block the offsets it holds
    blockIdx,   \* write_buffer_.block_idx_, the index of the front block
    bgFlush,    \* bg_block_flush_
    pending,    \* pending_block_num_
    queued,     \* BGFlush tasks scheduled on bg_flush_ and not yet started
    inflight,   \* [idx, data] popped by running BGFlush tasks
    filled,     \* [idx, data] the writer's FillCache left Valid in the cache
    bgStatus    \* bg_status_

writeVars == <<wpc, offset, blocks, blockIdx, bgFlush, pending, queued,
               inflight, filled, bgStatus>>
vars == <<state, bs, buf, refs, ssd, meta, jobs, rpc, rlist, rs, res,
          nreads, dfsFaults, ssdFaults, restarts, writeVars>>

Holders == {r \in Readers : rpc[r] \in HoldPcs}

Init ==
    /\ state = {}
    /\ bs = "ok"
    /\ buf = "none"
    /\ refs = 0
    /\ ssd = "junk"
    /\ meta = {}
    /\ jobs = {}
    /\ rpc = [r \in Readers |-> "idle"]
    /\ rlist = [r \in Readers |-> "none"]
    /\ rs = [r \in Readers |-> "ok"]
    /\ res = [r \in Readers |-> "none"]
    /\ nreads = [r \in Readers |-> 0]
    /\ dfsFaults = 0
    /\ ssdFaults = 0
    /\ restarts = 0
    /\ wpc \in {"open", "absent"}
    /\ offset = 0 /\ blocks = <<>> /\ blockIdx = 0
    /\ bgFlush = 0 /\ pending = 0 /\ queued = 0
    /\ inflight = {} /\ filled = {}
    /\ bgStatus = "ok"

\* A Read whose local status is bad takes the block's failed status.
Degrade(r) == rs' = [rs EXCEPT ![r] = IF bs # "ok" THEN "err" ELSE rs[r]]

(***************************************************************************)
(* CacheBlock::GetDataBlock: the first reference allocates an             *)
(* uninitialised buffer (new char[]), later ones share it.                 *)
(***************************************************************************)
GetDataBlockAlwaysAlloc == "junk"
GetDataBlock == IF refs = 0 THEN "junk" ELSE buf

(***************************************************************************)
(* Read, first loop: GetAndAllocBlock, GetDataBlock and the three-way      *)
(* split under block->mu, then the dispatch of the miss read to            *)
(* bg_dfs_read_ and of the valid read to bg_read_.  The AioCacheRead path  *)
(* is dead code: aio_enabled_ = false is the flag's only assignment (the  *)
(* BlockCacheRandomAccessFile constructor).                                *)
(***************************************************************************)
ReadGetBlocksNoLockCheck(r) ==
    /\ rpc[r] \in {"idle", "done"} /\ wpc \in {"closed", "absent"}
    /\ nreads[r] < MaxReads
    /\ refs' = refs + 1
    /\ buf' = GetDataBlock
    /\ \/ /\ "Valid" \in state
          /\ state' = state \cup {"Locked", "CacheRead"}
          /\ rlist' = [rlist EXCEPT ![r] = "valid"]
          /\ jobs' = jobs \cup {"cacheRead"}
          /\ UNCHANGED ssdFaults
       \/ /\ "Locked" \notin state /\ "Valid" \notin state
          /\ state' = state \cup {"Locked", "DfsRead"}
          /\ rlist' = [rlist EXCEPT ![r] = "miss"]
          /\ jobs' = jobs \cup {"dfsRead"}
          /\ UNCHANGED ssdFaults
       \/ /\ "Locked" \in state /\ "Valid" \notin state
          /\ rlist' = [rlist EXCEPT ![r] = "locked"]
          /\ UNCHANGED <<state, jobs, ssdFaults>>
    /\ rpc' = [rpc EXCEPT ![r] = "wait"]
    /\ rs' = [rs EXCEPT ![r] = "ok"]
    /\ res' = [res EXCEPT ![r] = "none"]
    /\ nreads' = [nreads EXCEPT ![r] = @ + 1]
    /\ UNCHANGED <<bs, ssd, meta, dfsFaults, restarts,
                   writeVars>>

ReadGetBlocks(r) ==
    /\ rpc[r] \in {"idle", "done"} /\ wpc \in {"closed", "absent"}
    /\ nreads[r] < MaxReads
    /\ refs' = refs + 1
    /\ buf' = GetDataBlock
    /\ \/ /\ "Locked" \notin state /\ "Valid" \in state
          /\ state' = state \cup {"Locked", "CacheRead"}
          /\ rlist' = [rlist EXCEPT ![r] = "valid"]
          /\ jobs' = jobs \cup {"cacheRead"}
          /\ UNCHANGED ssdFaults
       \/ /\ "Locked" \notin state /\ "Valid" \notin state
          /\ state' = state \cup {"Locked", "DfsRead"}
          /\ rlist' = [rlist EXCEPT ![r] = "miss"]
          /\ jobs' = jobs \cup {"dfsRead"}
          /\ UNCHANGED ssdFaults
       \/ /\ "Locked" \in state
          /\ rlist' = [rlist EXCEPT ![r] = "locked"]
          /\ UNCHANGED <<state, jobs, ssdFaults>>
    /\ rpc' = [rpc EXCEPT ![r] = "wait"]
    /\ rs' = [rs EXCEPT ![r] = "ok"]
    /\ res' = [res EXCEPT ![r] = "none"]
    /\ nreads' = [nreads EXCEPT ![r] = @ + 1]
    /\ UNCHANGED <<bs, ssd, meta, dfsFaults, restarts,
                   writeVars>>

(***************************************************************************)
(* The thread-pool tasks.  Each does its I/O without the block lock, then *)
(* clears its bit and signals under block->mu.                             *)
(***************************************************************************)
\* HandleDfsRead: dfs_file_->Read into the shared buffer; a failed read
\* may leave part of the buffer written.
HandleDfsRead ==
    /\ "dfsRead" \in jobs
    /\ \/ bs' = "ok" /\ buf' = "dfs" /\ UNCHANGED dfsFaults
       \/ /\ dfsFaults < MaxDfsFaults
          /\ dfsFaults' = dfsFaults + 1
          /\ bs' = "err"
          /\ buf' \in {buf, "junk"}
    /\ state' = state \ {"DfsRead"}
    /\ jobs' = jobs \ {"dfsRead"}
    /\ UNCHANGED <<refs, ssd, meta, rpc, rlist, rs, res, nreads, ssdFaults, restarts,
                   writeVars>>

\* HandleCacheRead: ReadCache preads the slot;
\* a failed pread writes nothing.
HandleCacheRead ==
    /\ "cacheRead" \in jobs
    /\ \/ bs' = "ok" /\ buf' = ssd /\ UNCHANGED ssdFaults
       \/ /\ ssdFaults < MaxSsdFaults
          /\ ssdFaults' = ssdFaults + 1
          /\ bs' = "err"
          /\ UNCHANGED buf
    /\ state' = state \ {"CacheRead"}
    /\ jobs' = jobs \ {"cacheRead"}
    /\ UNCHANGED <<refs, ssd, meta, rpc, rlist, rs, res, nreads, dfsFaults, restarts,
                   writeVars>>

\* HandleCacheWrite: LogRecord writes the DS# record with the current state
\* bits, then FillCache pwrites the buffer into the slot; each overwrites
\* block->s.  A failed pwrite may leave part of the slot written.
HandleCacheWriteNoFill ==
    /\ "cacheFill" \in jobs
    /\ meta' = state
    /\ bs' = "ok"
    /\ state' = state \ {"CacheFill"}
    /\ jobs' = jobs \ {"cacheFill"}
    /\ UNCHANGED <<buf, refs, ssd, rpc, rlist, rs, res, nreads, dfsFaults, ssdFaults, restarts,
                   writeVars>>

HandleCacheWrite ==
    /\ "cacheFill" \in jobs
    /\ \/ /\ meta' = state
          /\ bs' = "ok" /\ ssd' = buf
          /\ UNCHANGED ssdFaults
       \/ /\ ssdFaults < MaxSsdFaults
          /\ ssdFaults' = ssdFaults + 1
          /\ bs' = "err"
          /\ \/ UNCHANGED <<meta, ssd>>                  \* LogRecord failed
             \/ meta' = state /\ ssd' \in {ssd, "junk"}  \* FillCache failed
    /\ state' = state \ {"CacheFill"}
    /\ jobs' = jobs \ {"cacheFill"}
    /\ UNCHANGED <<buf, refs, rpc, rlist, rs, res, nreads, dfsFaults, restarts,
                   writeVars>>

(***************************************************************************)
(* Read, the wait loops.  Each is one pass under block->mu after           *)
(* WaitOnClear returns.                                                    *)
(***************************************************************************)
ReadWaitCacheRead(r) ==
    /\ rpc[r] = "wait" /\ rlist[r] = "valid"
    /\ "CacheRead" \notin state
    /\ Degrade(r)
    /\ state' = state \ {"Locked"}
    /\ rpc' = [rpc EXCEPT ![r] = "fill"]
    /\ UNCHANGED <<bs, buf, refs, ssd, meta, jobs, rlist, res, nreads, dfsFaults, ssdFaults, restarts,
                   writeVars>>

\* The dfs wait loop, then the scheduling of AsyncCacheWrite, which Read
\* does for every block of c_miss.
ReadWaitDfsRead(r) ==
    /\ rpc[r] = "wait" /\ rlist[r] = "miss"
    /\ "DfsRead" \notin state
    /\ state' = state \cup {"CacheFill"}
    /\ Degrade(r)
    /\ jobs' = jobs \cup {"cacheFill"}
    /\ rpc' = [rpc EXCEPT ![r] = "fillWait"]
    /\ UNCHANGED <<bs, buf, refs, ssd, meta, rlist, res, nreads, dfsFaults, ssdFaults, restarts,
                   writeVars>>

ReadWaitCacheFillKeepsLock(r) ==
    /\ rpc[r] = "fillWait"
    /\ "CacheFill" \notin state
    /\ IF bs = "ok"
       THEN state' = state \cup {"Valid"} /\ UNCHANGED rs
       ELSE UNCHANGED state /\ Degrade(r)
    /\ rpc' = [rpc EXCEPT ![r] = "fill"]
    /\ UNCHANGED <<bs, buf, refs, ssd, meta, jobs, rlist, res, nreads, dfsFaults, ssdFaults, restarts,
                   writeVars>>

ReadWaitCacheFill(r) ==
    /\ rpc[r] = "fillWait"
    /\ "CacheFill" \notin state
    /\ IF bs = "ok"
       THEN state' = (state \cup {"Valid"}) \ {"Locked"} /\ UNCHANGED rs
       ELSE state' = state \ {"Locked"} /\ Degrade(r)
    /\ rpc' = [rpc EXCEPT ![r] = "fill"]
    /\ UNCHANGED <<bs, buf, refs, ssd, meta, jobs, rlist, res, nreads, dfsFaults, ssdFaults, restarts,
                   writeVars>>

\* The c_locked loop only waits for the bit; it never looks at block->s.
ReadWaitLocked(r) ==
    /\ rpc[r] = "wait" /\ rlist[r] = "locked"
    /\ "Locked" \notin state
    /\ rpc' = [rpc EXCEPT ![r] = "fill"]
    /\ UNCHANGED <<state, bs, buf, refs, ssd, meta, jobs, rlist, rs, res, nreads, dfsFaults, ssdFaults, restarts,
                   writeVars>>

\* "fill user mem": memcpy from the shared buffer, without any lock.
ReadFillUserMem(r) ==
    /\ rpc[r] = "fill"
    /\ res' = [res EXCEPT ![r] = buf]
    /\ rpc' = [rpc EXCEPT ![r] = "release"]
    /\ UNCHANGED <<state, bs, buf, refs, ssd, meta, jobs, rlist, rs, nreads, dfsFaults, ssdFaults, restarts,
                   writeVars>>

(***************************************************************************)
(* BlockCacheImpl::ReleaseBlock: for a miss (need_sync) LogRecord first,   *)
(* then under block->mu ReleaseDataBlock and the reset of block->s.        *)
(***************************************************************************)
ReleaseDataBlockEager == "none"
ReleaseDataBlock == IF refs = 1 THEN "none" ELSE buf

ReadReleaseBlockNoUnref(r) ==
    /\ rpc[r] = "release"
    /\ meta' = IF rlist[r] = "miss" THEN state ELSE meta
    /\ bs' = "ok"
    /\ rpc' = [rpc EXCEPT ![r] = "degrade"]
    /\ UNCHANGED <<state, buf, refs, ssd, jobs, rlist, rs, res, nreads, dfsFaults, ssdFaults, restarts,
                   writeVars>>

ReadReleaseBlock(r) ==
    /\ rpc[r] = "release"
    /\ meta' = IF rlist[r] = "miss" THEN state ELSE meta
    /\ refs' = refs - 1
    /\ buf' = ReleaseDataBlock
    /\ bs' = "ok"
    /\ rpc' = [rpc EXCEPT ![r] = "degrade"]
    /\ UNCHANGED <<state, ssd, jobs, rlist, rs, res, nreads, dfsFaults, ssdFaults, restarts,
                   writeVars>>

\* The end of Read: a bad status re-reads the whole range from the DFS.
ReadReturn(r) ==
    /\ rpc[r] = "degrade"
    /\ \/ rs[r] = "ok" /\ UNCHANGED <<res, dfsFaults>>
       \/ rs[r] = "err" /\ res' = [res EXCEPT ![r] = "dfs"] /\ UNCHANGED dfsFaults
       \/ /\ rs[r] = "err" /\ dfsFaults < MaxDfsFaults
          /\ dfsFaults' = dfsFaults + 1
          /\ res' = [res EXCEPT ![r] = "error"]
    /\ rpc' = [rpc EXCEPT ![r] = "done"]
    /\ UNCHANGED <<state, bs, buf, refs, ssd, meta, jobs, rlist, rs, nreads, ssdFaults, restarts,
                   writeVars>>

(***************************************************************************)
(* The data set's LRU evicts the block once no handle to it is held; the   *)
(* next GetAndAllocBlock creates a fresh CacheBlock with state 0.  The DS# *)
(* record and the slot's bytes stay.                                       *)
(***************************************************************************)
Evict ==
    /\ Holders = {} /\ jobs = {}
    /\ state # {}
    /\ state' = {}
    /\ UNCHANGED <<bs, buf, refs, ssd, meta, jobs, rpc, rlist, rs, res, nreads, dfsFaults, ssdFaults, restarts,
                   writeVars>>

\* A process restart: reads in flight are lost; LoadCache and
\* ReloadDataSet rebuild the block from its DS# record, keeping only Valid.
Restart ==
    /\ wpc \in {"closed", "absent"}
    /\ restarts < MaxRestarts
    /\ restarts' = restarts + 1
    /\ state' = meta \cap {"Valid"}
    /\ bs' = "ok" /\ buf' = "none" /\ refs' = 0 /\ jobs' = {}
    /\ rpc' = [r \in Readers |-> IF rpc[r] = "done" THEN "done" ELSE "idle"]
    /\ UNCHANGED <<ssd, meta, rlist, rs, res, nreads, dfsFaults, ssdFaults,
                   writeVars>>

(***************************************************************************)
(* BlockCacheWriteBuffer.  block_list_ is a sequence of blocks, a block    *)
(* the sequence of file offsets it holds.  tmp_storage_ is the last block; *)
(* it is NULL only before the first Append, the only time the list is      *)
(* empty while the file is open (PopFrontBlock takes only full blocks and  *)
(* the last block is never full).                                          *)
(***************************************************************************)
\* The offsets offset .. offset + n - 1 an Append of n bytes adds.
AppendData(n) == [k \in 1..n |-> offset + k - 1]

\* BlockCacheWriteBuffer::Append: data that stays in the block of offset_
\* goes into tmp_storage_; otherwise tmp_storage_ is filled up to
\* block_size_ and one block is pushed for each index begin+1 .. end, the
\* last taking the rest (possibly nothing).
BufferAppend(n) ==
    LET data  == AppendData(n)
        bl    == IF blocks = <<>> THEN <<<<>>>> ELSE blocks
        begin == offset \div BlockSize
        end   == (offset + n) \div BlockSize
        tmp   == BlockSize - (offset % BlockSize)
        rest  == SubSeq(data, tmp + 1, n)
        new   == [j \in 1..(end - begin) |->
                    SubSeq(rest, (j - 1) * BlockSize + 1,
                           IF j < end - begin THEN j * BlockSize ELSE Len(rest))]
    IN  IF begin = end
        THEN [bl EXCEPT ![Len(bl)] = @ \o data]
        ELSE [bl EXCEPT ![Len(bl)] = @ \o SubSeq(data, 1, tmp)] \o new

\* NumFullBlock of the block list bl.
NumFullBlock(bl) ==
    IF bl = <<>> THEN 0
    ELSE IF Len(bl[Len(bl)]) < BlockSize THEN Len(bl) - 1
    ELSE Len(bl)

\* PopFrontBlock hands out the front block only when it is full.
FrontFull == blocks # <<>> /\ Len(Head(blocks)) = BlockSize

\* The index PopBackBlock gives the last block: offset_ / block_size_.
\* Mutation: the index of the front block instead.
BackIdxFront == blockIdx
BackIdx == offset \div BlockSize

\* BlockCacheWritableFile::MaybeScheduleBGFlush, with the mutex held and
\* bg_block_flush_ at bg: while it is below NumFullBlock plus
\* pending_block_num_, increment it and schedule a BGFlush task.
MaybeScheduleBGFlush(bg, q, nfull, pend) ==
    LET want == nfull + pend IN
    /\ bgFlush' = IF bg < want THEN want ELSE bg
    /\ queued' = q + (bgFlush' - bg)

(***************************************************************************)
(* The writer's FillCache of block f = [idx, data]: GetAndAllocBlock (it   *)
(* retries until it gets one), state = 0 and the buffer copied in,         *)
(* LogRecord, pwrite into the slot, kCacheBlockValid if both succeeded,    *)
(* and ReleaseBlock with need_sync, whose LogRecord status is what         *)
(* FillCache returns; block->s is not looked at.  out is the step that     *)
(* failed, if any.  Only the file's first block is the CacheBlock the      *)
(* readers share; of the others, filled records which were left Valid.     *)
(***************************************************************************)
FillOutcomes ==
    {"ok"} \cup (IF ssdFaults < MaxSsdFaults
                 THEN {"logFail", "pwriteFail", "releaseFail"} ELSE {})

\* The file's bytes of block i, given the offset_ reached.
FileBlock(i) ==
    LET hi == IF (i + 1) * BlockSize < offset THEN (i + 1) * BlockSize ELSE offset
    IN  [k \in 1..(hi - i * BlockSize) |-> i * BlockSize + k - 1]

Content(f) == IF f.data = FileBlock(f.idx) THEN "dfs" ELSE "junk"

WriterFillCache(f, out) ==
    LET valid == out \in {"ok", "releaseFail"} IN
    /\ ssdFaults' = IF out = "ok" THEN ssdFaults ELSE ssdFaults + 1
    /\ filled' = IF valid THEN filled \cup {f} ELSE filled
    /\ IF f.idx = ReadIdx
       THEN /\ state' = IF valid THEN {"Valid"} ELSE {}
            /\ meta' = IF out = "ok" THEN {"Valid"} ELSE {}
            /\ \/ valid /\ ssd' = Content(f)
               \/ out = "pwriteFail" /\ ssd' \in {ssd, "junk"}
               \/ out = "logFail" /\ UNCHANGED ssd
       ELSE UNCHANGED <<state, meta, ssd>>

FillStatus(out) == IF out = "releaseFail" THEN "err" ELSE "ok"

\* bg_status_ keeps the first failure; with statuses abstracted to ok and
\* err, the order the failures come in does not matter.
KeepStatus(st) == bgStatus' = IF bgStatus = "ok" THEN st ELSE bgStatus

(***************************************************************************)
(* BlockCacheWritableFile::Append: the DFS append, then the buffer append  *)
(* and MaybeScheduleBGFlush.                                               *)
(***************************************************************************)
WriterAppend ==
    /\ wpc = "open"
    /\ \E n \in AppendSizes :
        /\ offset + n <= MaxWriteBytes
        /\ blocks' = BufferAppend(n)
        /\ offset' = offset + n
        /\ MaybeScheduleBGFlush(bgFlush, queued, NumFullBlock(BufferAppend(n)),
                                pending)
    /\ UNCHANGED <<wpc, blockIdx, pending, inflight, filled, bgStatus>>
    /\ UNCHANGED <<state, bs, buf, refs, ssd, meta, jobs, rpc, rlist, rs, res,
                   nreads, dfsFaults, ssdFaults, restarts>>

(***************************************************************************)
(* BGFlush, under mu_: PopFrontBlock.  No full block at the front: the     *)
(* task ends at once (bg_block_flush_--, MaybeScheduleBGFlush).  A block:  *)
(* pending_block_num_++ and mu_ is released for FillCache.                 *)
(***************************************************************************)
BGFlushPop ==
    /\ queued > 0
    /\ IF FrontFull
       THEN /\ inflight' = inflight \cup {[idx |-> blockIdx, data |-> Head(blocks)]}
            /\ blocks' = Tail(blocks)
            /\ blockIdx' = blockIdx + 1
            /\ pending' = pending + 1
            /\ queued' = queued - 1
            /\ UNCHANGED bgFlush
       ELSE /\ MaybeScheduleBGFlush(bgFlush - 1, queued - 1,
                                     NumFullBlock(blocks), pending)
            /\ UNCHANGED <<blocks, blockIdx, pending, inflight>>
    /\ UNCHANGED <<wpc, offset, filled, bgStatus>>
    /\ UNCHANGED <<state, bs, buf, refs, ssd, meta, jobs, rpc, rlist, rs, res,
                   nreads, dfsFaults, ssdFaults, restarts>>

(***************************************************************************)
(* BGFlush after FillCache, under mu_ again: pending_block_num_--,         *)
(* bg_status_, bg_block_flush_--, MaybeScheduleBGFlush and the signal to   *)
(* Close.                                                                  *)
(***************************************************************************)
BGFlushFill ==
    /\ \E f \in inflight, out \in FillOutcomes :
        /\ WriterFillCache(f, out)
        /\ KeepStatus(FillStatus(out))
        /\ inflight' = inflight \ {f}
        /\ pending' = pending - 1
        /\ MaybeScheduleBGFlush(bgFlush - 1, queued, NumFullBlock(blocks),
                                pending - 1)
    /\ UNCHANGED <<wpc, offset, blocks, blockIdx>>
    /\ UNCHANGED <<bs, buf, refs, jobs, rpc, rlist, rs, res, nreads, dfsFaults,
                   restarts>>

(***************************************************************************)
(* Close: the DFS file is closed, PopBackBlock, and FillCache of that last *)
(* block on the caller's thread; then Close waits under mu_ until          *)
(* bg_block_flush_ is zero and returns bg_status_, which takes Close's     *)
(* own status if it was still OK.                                          *)
(***************************************************************************)
CloseFill ==
    /\ wpc = "open"
    /\ wpc' = "waiting"
    /\ IF blocks = <<>>
       THEN UNCHANGED <<blocks, state, meta, ssd, ssdFaults, filled, bgStatus>>
       ELSE /\ blocks' = SubSeq(blocks, 1, Len(blocks) - 1)
            /\ \E out \in FillOutcomes :
                 /\ WriterFillCache([idx |-> BackIdx, data |-> blocks[Len(blocks)]], out)
                 /\ KeepStatus(FillStatus(out))
    /\ UNCHANGED <<offset, blockIdx, bgFlush, pending, queued, inflight>>
    /\ UNCHANGED <<bs, buf, refs, jobs, rpc, rlist, rs, res, nreads, dfsFaults,
                   restarts>>

\* Mutation: Close returns without waiting for the BGFlush tasks.
CloseWaitNoWait ==
    /\ wpc = "waiting"
    /\ wpc' = "closed"
    /\ UNCHANGED <<offset, blocks, blockIdx, bgFlush, pending, queued,
                   inflight, filled, bgStatus>>
    /\ UNCHANGED <<state, bs, buf, refs, ssd, meta, jobs, rpc, rlist, rs, res,
                   nreads, dfsFaults, ssdFaults, restarts>>

CloseWait ==
    /\ wpc = "waiting"
    /\ bgFlush = 0
    /\ wpc' = "closed"
    /\ UNCHANGED <<offset, blocks, blockIdx, bgFlush, pending, queued,
                   inflight, filled, bgStatus>>
    /\ UNCHANGED <<state, bs, buf, refs, ssd, meta, jobs, rpc, rlist, rs, res,
                   nreads, dfsFaults, ssdFaults, restarts>>

WriterStep == WriterAppend \/ CloseFill \/ CloseWait

FlushStep == BGFlushPop \/ BGFlushFill

\* Every reader has made all its reads and nothing is scheduled.
Quiescent ==
    /\ \A r \in Readers : rpc[r] \in {"idle", "done"} /\ nreads[r] = MaxReads
    /\ jobs = {} /\ wpc \in {"closed", "absent"}
    /\ UNCHANGED vars

ReaderStep(r) ==
    \/ ReadGetBlocks(r) \/ ReadWaitCacheRead(r) \/ ReadWaitDfsRead(r)
    \/ ReadWaitCacheFill(r) \/ ReadWaitLocked(r) \/ ReadFillUserMem(r)
    \/ ReadReleaseBlock(r) \/ ReadReturn(r)

TaskStep == HandleDfsRead \/ HandleCacheRead \/ HandleCacheWrite

Next ==
    \/ \E r \in Readers : ReaderStep(r)
    \/ TaskStep
    \/ WriterStep
    \/ FlushStep
    \/ Evict
    \/ Restart
    \/ Quiescent

\* Thread pools run what is scheduled, and a woken waiter runs; eviction
\* and restarts are not forced.
Fairness ==
    /\ \A r \in Readers : WF_vars(ReaderStep(r))
    /\ WF_vars(HandleDfsRead) /\ WF_vars(HandleCacheRead) /\ WF_vars(HandleCacheWrite)
    /\ WF_vars(FlushStep) /\ WF_vars(CloseWait)

Spec == Init /\ [][Next]_vars /\ Fairness

-----------------------------------------------------------------------------
TypeOK ==
    /\ state \subseteq Flags /\ meta \subseteq Flags
    /\ bs \in Status /\ buf \in Bytes \cup {"none"} /\ ssd \in Bytes
    /\ refs \in 0..Cardinality(Readers)
    /\ jobs \subseteq Jobs
    /\ rpc \in [Readers -> {"idle", "done", "degrade"} \cup HoldPcs]
    /\ rlist \in [Readers -> Lists]
    /\ rs \in [Readers -> Status]
    /\ res \in [Readers -> Bytes \cup {"none", "error"}]
    /\ nreads \in [Readers -> 0..MaxReads]
    /\ wpc \in {"open", "waiting", "closed", "absent"}
    /\ offset \in 0..MaxWriteBytes /\ blockIdx \in Nat
    /\ bgFlush \in Nat /\ pending \in Nat /\ queued \in Nat
    /\ bgStatus \in Status

\* ReleaseBlock frees the shared data buffer only with the last reference:
\* the count equals the Reads between GetAndAllocBlock and ReleaseBlock, and
\* none of them (in particular none copying user data) sees a freed buffer.
BufferOwnedByHolders ==
    /\ refs = Cardinality(Holders)
    /\ (buf = "none") <=> (Holders = {})

\* The Locked bit gives one Read at a time the block's I/O: Locked is set
\* exactly while one Read of c_valid or c_miss has not yet cleared it, and
\* each I/O bit is set only while its owner's task is pending or running.
Owners == {r \in Readers : rlist[r] \in {"valid", "miss"} /\ rpc[r] \in {"wait", "fillWait"}}
ExclusiveBlockIO ==
    /\ Cardinality(Owners) <= 1
    /\ ("Locked" \in state) <=> (Owners # {})
    /\ \A f \in {"DfsRead", "CacheRead", "CacheFill"} : f \in state => Owners # {}

\* Spec 8.4: a block in state Valid, in memory or in the DS# record a restart
\* reloads, holds the same bytes as the DFS.
ValidBlockMatchesDfs == ("Valid" \in state \cup meta) => ssd = "dfs"

\* Spec 4.5: a Read that returns OK returns the DFS bytes; on any block
\* error it degrades to a direct DFS read.
ReadReturnsDfsBytes == \A r \in Readers : rpc[r] = "done" => res[r] \in {"dfs", "error"}

\* Every Read returns: each WaitOnClear is ended by a clear and SignalAll.
ReadCompletes == \A r \in Readers : rpc[r] \notin {"idle", "done"} ~> rpc[r] \in {"idle", "done"}

(***************************************************************************)
(* Write-through puts every block of the file in the cache at its own      *)
(* index: each block the writer's FillCache left Valid holds exactly the   *)
(* file's bytes for that block_idx (a block pushed past the end at a       *)
(* block boundary holds nothing), and when no cache I/O failed, every      *)
(* block of the closed file was filled.  BGFlush numbers the front blocks  *)
(* by block_idx_, Close the last one by offset_ / block_size_, in          *)
(* whatever order the tasks and Close run.                                 *)
(***************************************************************************)
WriteBlocksExact ==
    /\ \A f \in filled : f.data = FileBlock(f.idx)
    /\ wpc = "closed" /\ ssdFaults = 0 =>
         \A i \in 0..((offset - 1) \div BlockSize) : \E f \in filled : f.idx = i

(***************************************************************************)
(* No BGFlush task outlives Close: once Close returns, the caller deletes  *)
(* the file object, so no task may still be scheduled or filling, and the  *)
(* write buffer is empty, as ~BlockCacheWriteBuffer asserts.               *)
(***************************************************************************)
CloseDrainsBuffer ==
    wpc = "closed" =>
        /\ blocks = <<>>
        /\ bgFlush = 0 /\ queued = 0 /\ inflight = {} /\ pending = 0
=============================================================================
