# TLA+ models of the Tera tablet server's storage layer

This directory holds TLA+ models of three concurrent components of Tera's
tablet server, together with the TLC configurations that check them:

* the tablet server's handlers for one key range (`TabletNodeImpl`,
  `src/src/tabletnode/tabletnode_impl.cc`): load, unload, exit, the
  force-unload of the background-error loop, and the data RPCs (the
  sharded `ReadTablet`, `WriteTablet`, `CompactTablet`, `ScanTablet`);

* the LSM engine underneath every tablet (`DBImpl`,
  `src/src/leveldb/db/db_impl.cc`);
* the persistent SSD block cache in front of DFS
  (`src/src/leveldb/util/block_cache.cc`).

`PROJECT.json` lists every component, run, mutant, source mapping, finding
and hazard. This file explains them.

## The system and how its parts interact

A tablet node (`TabletNodeImpl`) serves tablets. Each tablet is a TabletIO
that owns one LSM engine (`DBImpl`) per locality group. The TabletManager
maps key ranges to TabletIO objects. Every handler takes a reference
(`GetTablet`, `AddTablet`, `GetAllTablets`) and drops it with `DecRef`.
The object is deleted when its last reference goes.

* **Control.** The master sends `LoadTablet` and `UnloadTablet`. `Exit`
  unloads every tablet on threads of its own and waits for them. The
  periodic `GetBackgroundErrors` and `RefreshLevelSize` loops unload and
  remove a tablet whose engine reports a permission error.
* **Read RPCs.** `ReadTablet` splits a request into shards that run on the
  read thread pool. Each row does its own `GetTablet`, and the last shard
  to finish answers.
* **Write RPCs.** `WriteTablet` looks up the tablet of each row and groups
  the rows by TabletIO, keeping one reference per group. Each group goes to
  `TabletIO::Write`, whose callback runs later on the writer's thread.
  Rows without a tablet, and groups Write refuses, fail through
  `WriteTabletFail`. The callback that brings the shared `row_done_counter`
  to the batch size answers. `CompactTablet` and `ScanTablet` hold a
  reference across `Compact` and `ScanRows`.

* **Writes.** A `Write` joins a writer queue and makes room in the memtable.
  Making room may mean stalling, sleeping, or turning `mem_` into `imm_`.
  The writer then inserts with the mutex released.
* **Background work.** Tasks from a thread pool dump `imm_` into a level-0
  table and compact tables. They install each result through
  `VersionSet::LogAndApply`, which writes the MANIFEST with the mutex
  released, and then delete obsolete files.
* **Reads.** `Get` takes a reference on `mem_`, `imm_` and the current
  version under the mutex, then searches them with the mutex released.
* **Unload.** A tablet is unloaded with `Shutdown1`, which waits for
  background tasks and dumps the memtable, followed by `Shutdown2`.

Table files live on DFS. `BlockCacheEnv` wraps DFS files so that reads go
through the block cache. That cache keeps fixed-size blocks of each file in
SSD data sets, and records their state in a local leveldb (the `DS#`
records). A `Read` classifies every block it needs:

* valid: serve it from SSD;
* missing: read it from DFS, then fill the cache in the background;
* locked: another read owns the block's I/O, so wait for it.

The blocks' I/O goes through a thread pool, and a shared
reference-counted buffer per block carries the bytes.

A new SSTable is written through the cache (`BlockCacheWritableFile`).
`Append` writes to DFS and to a buffer of blocks. Each full block is filled
into the cache by a `BGFlush` task, and `Close` fills the last block and
then waits for the tasks.

## Modules

| Module | Models | Source |
|---|---|---|
| `LsmEngine` | write queue, `MakeRoomForWrite`, memtable swap, flush (`CompactMemTable`/`WriteLevel0Table`), `MaybeScheduleCompaction`, `BackgroundCall`/`BackgroundCompaction`, compaction (`HandleCompactionWork`, `InstallCompactionResults`), `DeleteObsoleteFiles`, `Get`, `GetSnapshot`/`ReleaseSnapshot`, `Shutdown1`/`Shutdown2` | db_impl.cc |
| `MCLsmEngine` | TLC instance of `LsmEngine` | — |
| `KvStore` | the engine's promise: a map from keys to the newest write, changed one write at a time in sequence order; `LsmEngine` refines it | spec §3, §5 |
| `BlockCache` | one `CacheBlock` of one file, read by several `Read` calls: state bits, block status `s`, shared `data_block` with its refcount, the `HandleDfsRead`/`HandleCacheRead`/`HandleCacheWrite` tasks, `ReleaseBlock`, eviction, and a restart through `ReloadDataSet`; before the reads, the file's write-through (`BlockCacheWritableFile::Append`/`BGFlush`/`Close`/`FillCache`, `BlockCacheWriteBuffer`) | block_cache.cc |
| `MCBlockCache` | TLC instance of `BlockCache` | — |
| `FileIdAlloc` | `FileId`, `AllocFileId`, `DeleteFile`, `GetDataSet`/`ReloadDataSet`/`GetAndAllocBlock` and the per-key lock `LockAndPut` (Waiter, `GetContentAfterWait`, `PutContentAfterLock`, `SignalAll`), with a restart recovering `new_fid_`/`prev_fid_` from `FID#` (`LoadCache`) | block_cache.cc |
| `MCFileIdAlloc` | TLC instance of `FileIdAlloc` | — |
| `TabletNode` | one key range of the TabletManager and its TabletIO objects (status, refcount); `LoadTablet`, both `UnloadTablet` handlers, `Exit` with `UnloadTabletProc`, the force-unload loop of `GetBackgroundErrors`, `ReadTabletTask` (`StartRead`, `DoRead`, `FinishShardRequest`), `WriteTablet` with `WriteTabletFail`/`WriteTabletCallback`, `CompactTablet` and `ScanTablet` | tabletnode_impl.cc, tablet_io.h |
| `MCTabletNode` | TLC instance of `TabletNode` | — |

### LsmEngine

**Granularity.** Every action is one stretch of code that runs under
`mutex_`, or one unlocked stretch between two lock acquisitions. So an
interleaving that the code allows between a `Wait`/`Unlock` and the next
`Lock` is an interleaving of the model. Each writer, reader and background
task has a program counter (`wpc`, `rpc`, `pc`). Its actions follow the code
in order.

**Writer actions.**

* `WriteEnqueue`: join the writers deque.
* `MakeRoomForWrite`: all five branches.
  * slowdown sleep: `WriteSleepDone`;
  * wait for `imm_`, or for L0 under the stop trigger: `WriteWakeup`;
  * swap `mem_` into `imm_` and schedule a task.
* `WriteInsert`: the unlocked `InsertInto` on the `mem_` read before the
  unlock, with `is_writting_mem_` set.
* `WriteFinish`: publish `last_sequence`, pop, and signal the next writer.

**Background task actions.**

* `BackgroundCall`: enter the task and choose a dump or a compaction.
* Dump:
  * `DumpBegin`/`DumpBuild`: `WriteLevel0Table` with the mutex released;
  * `DumpApply`/`DumpInstall`: erase and re-insert `pending_outputs_`, take
    the `LastSequence` from `imm_`, `LogAndApply`, and drop `imm_`.
* Compaction:
  * `HandleCompactionWork` covers the compaction loop, including the inline
    dump of `imm_` and the drop rules. The drop rules apply to a shadowed
    entry below `smallest_snapshot`, and to a deletion at the base level
    (`DropBaseLevelDel`).
  * `InstallCompactionResults`/`CompactionApplied` install the result.
  * `CompactionDone` performs `CleanupCompaction`.
* Obsolete-file GC: `DeleteObsoleteFilesList`, `DeleteObsoleteFilesDecide`,
  `DeleteObsoleteFilesDelete`. These cover the unlocked listing, the live
  set (`pending_outputs_` plus every live version) and the unlocked deletes.
* Task exit: `BackgroundCallEnd`/`BackgroundCallRetry`. They cover the error
  back-off sleep, `IOPermissionDenied` setting `bg_error_`, erasing the task,
  rescheduling, and `bg_cv_.SignalAll`.

**Reader and shutdown actions.**

* `GetBegin`/`GetLookup`/`GetEnd`: the locked capture, the unlocked lookup,
  and the unref.
* `GetSnapshot`/`ReleaseSnapshot` keep `snapshots_` as a multiset.
* `Shutdown1`: mark `shutting_down_`, wait for the tasks and for
  `is_writting_mem_`, then dump the memtable (`DumpMemOnShutdown`).
* `Shutdown2`.

**Data abstraction.**

* A key is a model value and a write is a record `[key, seq, del]`.
* A table file is a set of such records, and the tree has two levels.
* DFS is the set of table numbers that exist.
* `manifest` is the version that a restart would recover.
* Sequence numbers are stamped when a write joins the queue. The code does
  this for the head's batch, which has the same order.

**Refinement.** `LsmEngine` defines `KV == INSTANCE KvStore WITH
store <- ..., last <- ...`. The mapping takes every record held by `mem_`,
`imm_` and the tables of the current version (`Contents`, what `Get`
searches), and maps each key to the sequence of its newest visible entry
(0 for a deletion or no entry). `last` is the sequence of the newest
acknowledged write. The run `lsm_snapshot` checks `KvRefinement ==
KV!Spec` as a property. It shows that memtable swaps, dumps, compactions
(with their drop rules) and GC never change what a read at the latest
sequence sees, and that `WriteFinish` changes it by exactly one write. The
mutant that drops the `!= kMaxSequenceNumber` test of db_impl.cc:1560 (so
that the newest entry of a key is dropped as hidden when no snapshot is
held) breaks it.

### BlockCache

The model is one `CacheBlock` and the reads of it.

**State.**

| Variable | Code |
|---|---|
| `state` | `CacheBlock::state` |
| `bs` | `block->s` |
| `buf`/`refs` | `data_block` and `data_block_refs` |
| `ssd` | the bytes in the SSD slot |
| `meta` | the state recorded in `DS#` |
| `jobs` | tasks queued on the thread pool |

**Actions.**

* `ReadGetBlocks`: the classification loop of `Read`. The aio path
  (`AioCacheRead`) is not modelled: it is dead code, because
  `aio_enabled_ = false` in the `BlockCacheRandomAccessFile` constructor
  (line 738) is the flag's only assignment.
* The wait loops: `ReadWaitCacheRead`, `ReadWaitDfsRead`,
  `ReadWaitCacheFill`, `ReadWaitLocked`.
* `ReadFillUserMem`.
* `ReadReleaseBlock`: `ReleaseBlock`, which logs the record, drops a
  reference and resets `s`.
* `ReadReturn`: the degrade-to-DFS path.
* The three thread-pool handlers: `HandleDfsRead`, `HandleCacheRead`,
  `HandleCacheWrite`.
* `Evict`: the LRU deleter.
* `Restart`: `ReloadDataSet` keeps only the Valid bit of the record.

**Data abstraction.** Bytes are either `"dfs"` (the file's content) or
`"junk"` (anything else: an uninitialised allocation or a partial read).

**Write-through.** The writer (`wpc`) either writes the file through the
cache first, or is `"absent"` (the file was written by another server).
The readers start only once the writer has closed the file. Nothing opens
an SSTable for reading before its writer has closed it, so the race of
line 690 (`FillCache` setting `state = 0` without the Locked bit) with a
reader of the same block cannot occur. For the writer, a file's bytes are
their offsets, and a block is the sequence of offsets it holds:

| Variable | Code |
|---|---|
| `offset`, `blocks`, `blockIdx` | `offset_`, `block_list_`, `block_idx_` of the write buffer |
| `bgFlush`, `pending`, `bgStatus` | `bg_block_flush_`, `pending_block_num_`, `bg_status_` |
| `queued`, `inflight` | `BGFlush` tasks scheduled and not started; blocks popped by running tasks |
| `filled` | the blocks the writer's `FillCache` left Valid, as `[idx, data]` |

The actions are `WriterAppend` (`Append` with `MaybeScheduleBGFlush`),
`BGFlushPop` and `BGFlushFill` (the two halves of `BGFlush`, around the
unlocked `FillCache`), `CloseFill` and `CloseWait`. `BufferAppend`,
`NumFullBlock`, `FrontFull` and `BackIdx` translate the buffer's
arithmetic. The writer's `FillCache` on the file's first block is the
`CacheBlock` the readers share, so `ValidBlockMatchesDfs` also covers what
the writer put there. `FillCache` returns the status of `ReleaseBlock`'s
`LogRecord` and ignores `block->s`. So a failed `DS#` write fails the
SSTable's `Close`, while a failed `pwrite` does not. The model keeps this
as it is; no property is about `Close`'s status.

### FileIdAlloc

Threads call `FileId(file)`, `DeleteFile(file)` or
`GetAndAllocBlock(block)`. Each action is one stretch
between two operations on `mu_`, or the unlocked meta-db access that
`LockAndPut` makes with `mu_` released.

**Actions.**

* `FileIdGet`: the unlocked `FNAME#` lookup.
* `FileIdAlloc`: `++new_fid_`, then the first check of `AllocFileId`'s loop
  and entry into `LockAndPut`.
* `LapWait`: the waiter path, `Wait`, then `GetContentAfterWait`.
* `LapPut`: the holder path, `PutContentAfterLock`.
* `LapWaitRelock`, `LapPutRelock`, `LapSignal`, `LapRelock`: the relock,
  unref/erase, `SignalAll` and relock steps.
* `LapReturn`: the caller's continuation. It re-checks the loop and takes
  `prev_fid_` from the value it read, or decodes the id, or returns from
  `DeleteFile`.
* `StartGetAndAllocBlock`: `GetDataSet`'s `Lookup` of `data_set_cache_`,
  made without `mu_`. A hit allocates the block at once (`AllocBlock`).
* `GetDataSetLock`: on a miss, lock `mu_` and enter `LockAndPut` on
  `DS#<sid>`.
* `LapPut` for a data-set key is `PutDataSet`. It looks the data set up
  again ("cannot double insert") and otherwise calls `ReloadDataSet`.
  `LapWait` takes the data set from `data_set_cache_`.
* `AllocBlock`: the `ds->mu` section of `GetAndAllocBlock`, which finds or
  inserts the block's `CacheBlock`. It only touches that data set's block
  cache, so it commutes with every other step. It therefore runs in the
  step that obtained the data set (`LapReturn`, or a lookup hit).
* `Restart`: memory is lost (`data_set_cache_` included), and the meta db
  (`dbFid`, `dbName`) is kept.

**Meta-db writes.** They are durable across a process restart: the
leveldb log is written before `Put` returns, and a machine crash is not
modelled.

**History.** `handed` records every id that `FileId` returned. `reloads`
counts the `ReloadDataSet` calls for each sid since the last restart, and a
DataSet is named by that count. `dsBlocks` holds the pairs of a data set and
a block allocated in it. The `DS#` records that `ReloadDataSet` reads back
are modelled in `BlockCache`.

### TabletNode

**State.** `mgr` is the TabletIO the manager maps for the range (or
none). `tio[x]` holds each object's `TabletStatus` and reference count.
Object ids stand for allocations: an id is never reused. Each control
thread has a program counter `cpc[p]` and a handle `hold[p]`. These threads
are the master's RPCs (`Ctrl`), Exit's `UnloadTabletProc` (`ExitProc`) and
the background-error loop (`BgProc`). The data RPCs are served one at a
time, in one request slot `req` whose `kind` is read, write, compact or
scan. A read request has the variables `ReadTabletTask` has:

* `status`, the response's row statuses, `Uninit` until a shard sets one;
* per shard `sh[i]`: its loop index, `is_timeout`, its result vector and
  its handle;
* `finished`, `success` and `hasTimeout`, the task's counters and flag;
* `expired`, set once the clock passes `end_time_ms_`.

A write request has `wrow` (the row loop's index) and `wt`, which is
`tablet_task_map`. `wt` maps each TabletIO found (or `NoTablet`) to its rows
and the task's progress: grouped, queued in the writer, or called back. The
write reuses `status` as `row_status_list` and `finished` as
`row_done_counter`. `chold` is the handle `CompactTablet` or `ScanTablet`
holds.

**Actions.** Each action is one stretch of a handler between two calls
into TabletIO or the manager:

* `LoadTablet`, `LoadAddFailed`, `LoadDone`, `LoadRemove`;
* `UnloadTablet`, `UnloadRemove`;
* `ExitStart`, `ExitWait`;
* `BgGetAllTablets`, `BgRemove`;
* `UnloadStart`, `UnloadPhase2`, `UnloadDone` (TabletIO::Unload), shared by
  the three unloading threads. `AfterUnload` continues each of them the way
  its code does.
* `StartRead`, `DoReadGet`, `DoReadCells`, `DoReadStore`,
  `FinishShardRequest` and `Expire`;
* `WriteEmpty`, `WriteGroupRow` (one row of the grouping loop),
  `WriteSubmit` (one task of the submit loop, the NULL task first as in the
  map's order) and `WriteDone` (the writer's callback).
  `WriteTabletCallback` and `WriteTabletFail` are their operators;
* `CompactGet`/`CompactDone`, `ScanGet`/`ScanDone`;
* `NextRequest`, the next data RPC once the previous one is released.

**Modelled from the spec.** `TabletIO` and `TabletManager` are declared in
`tablet_io.h` but their code is not in the tree. Their lifecycle,
refcounts and the outcomes of `ReadCells`, `Write` and `ScanRows` follow
spec §4.7 and are marked `spec_modelled`. `Write` takes a batch only from
a kReady tablet and may refuse it when busy. kOnLoad is not a step of its own: every reader of the
status treats it like kNotInit.

**Sharding.** `RowsPerTask`, `ShardCnt` and the `RECURSIVE` `ShardLoop`
translate `StartRead`'s arithmetic. The properties check this arithmetic
against a reference (a partition of the rows, within `shard_cnt`) for every
request of up to `MaxPlanRows` rows and every flag value in range. TLC
evaluates that part once, as a constant.

## Runs

| Run | Config | Expect | What it shows |
|---|---|---|---|
| lsm_safety | MCLsmEngine.cfg | pass | Two tasks, flush, compaction with inline dump, GC, one I/O fault and shutdown are interleaved. `RecoverableFromManifest`: every acknowledged write is recoverable from the MANIFEST and the DFS tables. `LiveFilesOnDfs`: no table of the current version or of a running compaction is deleted. `ShutdownDumpsEverything`: after `Shutdown1` with dump, every acknowledged write is on DFS. Under weak fairness, every `Write` returns even through stalls, slowdown and failed compactions (`WritesComplete`), and `Shutdown1` returns (`ShutdownCompletes`). |
| lsm_snapshot | MCLsmEngine_read.cfg | pass | A `Get`, at the latest sequence or under a snapshot, returns exactly the newest visible write (`GetSeesSnapshot`), while compaction drops entries and GC deletes inputs. Tables a `Get` holds stay on DFS. The engine refines the abstract map `KvStore` (`KvRefinement`). |
| bc_safety | MCBlockCache.cfg | pass | Under DFS and SSD faults (in reads and in the writer's `FillCache`), eviction and a restart, three things hold. The shared buffer is live exactly while a read holds it (`BufferOwnedByHolders`). At most one read owns the block's I/O, and the Locked bit says so (`ExclusiveBlockIO`). Every `Read` returns (`ReadCompletes`). |
| bc_data | MCBlockCache_data.cfg | pass | With no faults, the file is first written through the cache in appends of 1–3 bytes with 2-byte blocks. Every block is filled at its own index with the file's bytes, in whatever order `BGFlush` and `Close` run (`WriteBlocksExact`). `Close` returns only when no `BGFlush` task is left and the buffer is empty (`CloseDrainsBuffer`). A Valid block holds the DFS bytes (`ValidBlockMatchesDfs`), and every read returns them (`ReadReturnsDfsBytes`). |
| fid_alloc | MCFileIdAlloc.cfg | pass | FileId and DeleteFile calls on two files, and GetAndAllocBlock calls on one block, run with a restart at any point. No id is ever held by two files (`FidsDistinct`). A block never gets a second CacheBlock in a second DataSet, even when both calls miss the unlocked lookup (`BlockAllocatedOnce`). Every `DeleteFile` returns (`DeleteFileCompletes`). |
| fid_livelock | MCFileIdAlloc_livelock.cfg | violation | Finding 3. |
| fid_delete_race | MCFileIdAlloc_delete.cfg | violation | Finding 4. |
| bc_dfs_error_valid | MCBlockCache_dfsfail.cfg | violation | Finding 1. |
| bc_locked_reader | MCBlockCache_locked.cfg | violation | Finding 2. |
| tn_safety | MCTabletNode.cfg | pass | Two loads and an unload of one range run with Exit, one force-unload pass, and a stream of data RPCs: sharded reads with a deadline, two-row writes, compactions and scans. The shards partition the rows (`ShardsPartitionRows`) within the reserved vectors (`ShardsReserved`). A read or write reply is made exactly when every shard or write task is through (`AnsweredQuiescent`). An OK read reply has no unset or timed-out row (`OkReplyComplete`). A write reply reports OK only for rows a tablet's `Write` took (`WriteReplyTruthful`). Every reference count equals its holders, and nothing mapped or held is deleted (`RefsBalanced`). Under the fairness of Exit's own threads alone, a started `Exit` returns (`ExitCompletes`). |
| tn_force_unload_orphan | MCTabletNode_orphan.cfg | violation | Finding 5. |

Each property of a passing run has a mutant in `PROJECT.json`. A mutant
replaces one mapped definition by a plausible bug, and TLC finds the
property violated. Examples:

* the flush edit taking the `LastSequence` of the new `mem_`;
* GC ignoring `pending_outputs_`;
* `Shutdown1` not waiting for `is_writting_mem_`;
* compaction ignoring `smallest_snapshot`;
* `ReleaseDataBlock` freeing while references remain;
* a read taking a locked block.
* the write buffer popping its back block at the front block's index;
* `Close` returning without waiting for the `BGFlush` tasks;
* `WriteTabletFail` reporting the failed rows as OK.

## Findings

1. **block_cache.cc:1079.** A failed DFS read is still written to the
   cache. `HandleCacheWrite` overwrites `block->s` with the status of
   `LogRecord`/`FillCache`, so `Read` sets `kCacheBlockValid` (line 885) on
   the bytes the buffer happened to hold, and the `DS#` record keeps it
   Valid across restarts. The spec says only successful misses are filled
   (§4.5) and that Valid blocks match DFS (§8.4).
2. **block_cache.cc:903.** A read that waited on a Locked block copies the
   shared buffer without looking at `block->s`. If the owner's SSD read
   failed, the copy is an uninitialised allocation returned with OK.
3. **block_cache.cc:1491, livelock in `AllocFileId`.** A Waiter stays in
   `lock_key_` while some thread counts on it, and its `done` stays true.
   * Two threads can reach the `FID#` `LockAndPut` of the loop while the
     last holder's Waiter is still registered. This happens when one thread
     stalls after `Wait` while the other uses up a batch of ids.
   * Each thread then re-reads the old `FID#`, still finds
     `new_fid_ - prev_fid_ >= fid_batch_num`, and takes its count back in
     the same critical section in which it dropped it.
   * `wait_num` never reaches 0, and nobody puts `FID#` again. Both
     `FileId` calls spin forever, and so does every later miss.
   * Two threads are enough for any batch size.
4. **block_cache.cc:1540.** A `FileId` that waits on the `FNAME#` lock of a
   `DeleteFile` of the same file reads NotFound.
   * A debug build aborts on `assert(s.ok())`.
   * A release build decodes an empty value as the file's id.
   * It needs a delete that races the file's open. Nothing in
     `BlockCacheImpl` excludes that.
5. **tabletnode_impl.cc:1190, force-unload removes the wrong tablet.**
   `GetBackgroundErrors` works on the TabletIO pointers of a
   `GetAllTablets` snapshot (`RefreshLevelSize`, line 1238, does the same).
   * For a tablet whose engine reports IOPermissionDenied it calls
     `Unload`, ignores a failure, and then `RemoveTablet` with that tablet's
     name and key range.
   * The model forces only a tablet that is kReady when the snapshot
     tests it, the one state in which its DB can report the error.
   * In between, an `UnloadTablet` RPC may have begun unloading it, so that
     the forced `Unload` fails, and the range may then be loaded again.
     `RemoveTablet` drops the manager's reference to whichever object maps
     the range now, and the RPC's own `RemoveTablet` after its unload drops
     the reloaded one as well.
   * A kReady tablet becomes unreachable, and it is deleted once its last
     handle goes, while the master believes it is loaded (`LoadedStaysMapped`).
     TLC's trace takes 12 steps: load, force-unload snapshot, unload RPC,
     failed forced unload and removal, reload, end of the RPC's unload.

## Bounds

**LSM.**

* Settings: one key, one writer, and `MaxSeq = 2` writes. `MemCap = 1`, so
  every write fills the memtable. The safety run's L0 triggers are 1
  (compaction), 1 (slowdown) and 2 (stop). The snapshot run uses a
  compaction trigger of 2.
* Behaviours reached:
  * a memtable swap while `imm_` is being dumped;
  * a compaction with an inline dump;
  * the stop and slowdown branches;
  * a shadowed and a deleted entry being dropped;
  * GC racing a flush.
* Faults: one DFS fault (`MaxFaults`) exercises the error back-off and the
  failed flush.
* Readers and tasks: with one reader and one task, the snapshot run has a
  `Get` overlapping each step of a compaction. Two tasks with a reader
  exceed TLC's reach, which is why the state is split across two runs.

**Block cache.**

* Two reads exercise each pair of valid, miss and locked paths.
* Writer: 2-byte blocks and appends of 1, 2 or 3 bytes, up to 5 bytes in
  `bc_data` (3 in `bc_safety`). That covers an append within a block, one
  ending on a boundary (which pushes an empty block), and one spanning two
  blocks. It also covers `Close` overtaking queued `BGFlush` tasks. The
  violation runs leave the file empty (`MaxWriteBytes = 0`).
* `MaxReads = 2` lets a read repeat after an eviction or a restart.
* One fault of each kind and one restart are enough to reach each failure
  branch.

**File ids.**

* Settings: two threads, two files, `fid_batch_num = 2`, `MaxFid = 4` and
  one restart.
* The batch is used up inside one run, so `FID#` is put by one holder while
  the other thread waits on it.
* With two threads, each of the two lock paths (waiter and holder) meets
  each caller (`AllocFileId`, `FileId`, `DeleteFile`).
* The livelock needs only two threads, whatever the batch size, so the
  bound does not create it.
* Data sets: one sid and one block. The double reload needs two calls on
  the same sid and nothing else, so more sids or blocks add no case. With
  two threads a second miss meets the first holder both while it holds the
  key (and waits) and after it erased it (and becomes the next holder).
  The violation runs use the same sets.

**Tablet node.**

* Control: two loads and an unload without a session id. The two loads
  reach the `AddTablet` failure path, a reload after an unload, and a load
  racing the unload. `MaxTablets = 2` objects are enough for one reload.
* Threads: Exit's thread and one pass of the background loop run beside
  them.
* Reads: requests of 0 or 3 rows with `parallel_read_task_num = 2` and
  `rows_per_task = 1`. That gives a 2-row shard on the pool and a 1-row
  shard on the caller thread, a timeout in either, and a `GetTablet` racing
  each control step.
* Arithmetic: checked for every request of up to 24 rows, 0–6 tasks and
  1–4 rows per task.
* Writes: batches of 0 or 2 rows. Two rows can find different tablets (or
  none) when a control step falls between their lookups, which gives a
  NULL task, a refused task and an accepted task in one batch.

## Fairness

The background thread pool runs every scheduled task, and `Wait` returns
once it is signalled. So the LSM model assumes weak fairness for each task's
and each writer's steps, and for shutdown. It assumes no fairness for the
environment (new writes, faults).

In the block cache, each handler queued on the pool, each `BGFlush` task,
`Close`'s wait, and each read step that is enabled, is weakly fair.

`TabletNode` states weak fairness for every started handler thread, every
read shard, write, compact and scan step, Exit's poll and `StartRead`. RPC arrival, the background pass
and the deadline are not fair. The run checks `ExitCompletes` under
`ExitSpec`, which keeps only the fairness of `UnloadTabletProc`'s steps and
of Exit's poll (`ExitFairness`). That is a weaker assumption than the
full `Fairness`, so the property holds under the full one too. It is
justified because no other thread blocks those steps: the master's RPCs and
the background pass only change the status and refcount that the poll
reads. With the full fairness the liveness check does not finish in a
run's time. `AnsweredQuiescent` checks the state-level half of "every read
is answered".

In `FileIdAlloc`, every step of a started call is weakly fair. `mu_` and
the Waiter's condition variable hand over to a blocked thread. Starting a
call, and restarts, are not fair.

## Assumptions and what is not modelled

* **Shutdown2.** It does not wait for `is_writting_mem_`. The model assumes
  the tablet's unload has stopped writes and reads first (the guard of
  `Shutdown2`).
* **LSM features left out.** These are absent:
  * manual compaction, trivial moves and parallel sub-compactions (one
    compaction at a time);
  * `PickLevelForMemTableOutput` (flushes go to L0);
  * recovery replay, since the WAL code is not in the tree;
  * iterators, split and Rollback.
* **BuildTable.** `builder.cc` is not in the tree, so the model assumes it
  keeps every entry.
* **Block cache features left out.** These are absent:
  * a DFS `Append` or `Close` failure in the writer, and a restart while a
    file is being written (the file is then never read);
  * `BGControlThread` (statistics only). `GetDataSet` is modelled in
    `FileIdAlloc`;
  * reads that span several blocks.
* **Tablet node simplifications.**
  * Session ids are one of current, stale or absent. The prefix compare at
    line 400 is not modelled.
  * An unload without a session id is accepted (masters older than 2.10),
    as the code does. The spec says every request carries one.
  * Response codes are not told apart.
  * One data RPC at a time. Two concurrent data RPCs share no state beyond
    the refcounts, which the control threads already interleave with.
* **Not modelled at all.** These components are not modelled:
  * `FlashEnv`. Its races (the `FlashRandomAccessFile` constructor copying
    a file while the background `UpdateFlashFile` copies it too) turn on
    POSIX open and truncate semantics, which are not in the tree;
  * the new-db transaction of `Recover` (`BeginNewDbTransaction`,
    `DbExists`, `CommitNewDbTransaction`). Its caller and the
    `VersionSet::Recover` it depends on are not in the tree;
  * `TabletNodeImpl`'s split and query handlers, `RefreshLevelSize` as a
    thread of its own (its force-unload loop is the one `BgProc` runs),
    garbage collection, and the zk session;
  * the tablet writer, which is a header only;
  * the SSTable reader, the SDK, the RPC client and the observer.

  `PROJECT.json` gives the reason for each.

## Plan for later sittings

1. Liveness of every read in `TabletNode` (`Exit` is done).
2. A `FlashEnv` module for rescheduling and priority halving, with
   liveness of the copy.
3. More of `db_impl.cc`: manual
   compaction, and the new-db transaction of `Recover`
   (`BeginNewDbTransaction`) under crashes.
4. The TabletIO of `TabletNode` composed with `KvStore` (the refinement
   of `LsmEngine` is done).
5. The compaction drop rule as a `RECURSIVE` operator, checked against a
   reference definition over bounded inputs.
