----------------------------- MODULE TabletNode -----------------------------
(***************************************************************************)
(* The tablet server core of src/tabletnode/tabletnode_impl.cc: the        *)
(* control handlers LoadTablet, UnloadTablet and Exit (with its            *)
(* UnloadTabletProc threads), and the batch read ReadTabletTask, all       *)
(* sharing the tablet manager's range map and the reference counts of the  *)
(* TabletIO objects it hands out.                                          *)
(*                                                                         *)
(* One key range is modelled.  TabletManager and TabletIO are not in the   *)
(* repository: their behaviour is taken from the specification (section    *)
(* 4.7: Add rejects an overlap, every lookup returns a handle the caller    *)
(* must DecRef; the lifecycle kNotInit -> kOnLoad -> kReady -> kUnLoading  *)
(* -> kUnLoading2).  The manager holds one reference on the tablet it       *)
(* maps, and an object is deleted when its count drops to zero.            *)
(*                                                                         *)
(* A read request of total_row_num_ rows is split by StartRead into shards *)
(* of rows_per_task consecutive rows; every shard but the last runs DoRead *)
(* on the read pool, the last one on the RPC thread.  The shards share the *)
(* per-row status array, read_success_num_, finished_ and has_timeout_;   *)
(* the shard whose finished_.Add reaches total_row_num_ answers.  The      *)
(* request size and the two flags are chosen per request from small sets. *)
(*                                                                         *)
(* WriteTablet groups the rows of a batch by the TabletIO GetTablet finds  *)
(* for each, keeping one reference per group, and hands every group to     *)
(* TabletIO::Write, whose callback (or WriteTabletFail) sets the group's   *)
(* row statuses and adds to the shared row_done_counter.  CompactTablet   *)
(* and ScanTablet hold a reference across TabletIO::Compact and ScanRows. *)
(* The data RPCs are served one at a time: the model has one request      *)
(* slot, holding a read, a write, a compaction or a scan.                  *)
(***************************************************************************)
EXTENDS Integers, Sequences, SequencesExt, FiniteSets

CONSTANTS
    ReadSizes,       \* the row_info_list_size values of read requests
    WriteSizes,      \* the row_list_size values of write requests
    TaskNums,        \* values of FLAGS_tera_tabletnode_parallel_read_task_num
    RowsPerTaskNums, \* values of FLAGS_tera_tabletnode_parallel_read_rows_per_task
    Ctrl,            \* the control RPCs the master sends: [type, session, lgs]
    MaxTablets,      \* TabletIO objects that may be created for the range
    ExitProc,        \* the thread Exit starts to unload the range's tablet
    BgProc,          \* the thread running GetBackgroundErrors
    MaxPlanRows, MaxPlanTasks, MaxPlanRowsPerTask
                     \* the ranges over which StartRead's plan is checked

ASSUME ReadSizes \subseteq Nat /\ WriteSizes \subseteq Nat /\ TaskNums \subseteq Nat
ASSUME RowsPerTaskNums \subseteq Nat \ {0}
ASSUME \A c \in Ctrl : c.type \in {"load", "unload"}
                       /\ c.session \in {"cur", "old", "none"}
                       /\ c.lgs \in Nat
ASSUME MaxTablets \in Nat \ {0}

Procs == Ctrl \cup {ExitProc, BgProc}
Ids == 1..MaxTablets
NoTablet == 0

\* Row status codes: kTabletNodeOk, any failure of ReadCells or GetTablet
\* (kKeyNotExist, kTabletNodeIsBusy, kKeyNotInRange, ...), kRPCTimeout, and
\* the value an element keeps after AddAlreadyReserved, which protobuf leaves
\* uninitialised for a POD element.
Codes == {"ok", "fail", "timeout"}
Uninit == "uninit"

\* TabletIO::TabletStatus, plus "none" before the object exists.  A deleted
\* object keeps the status it had (see Deleted).
TabletStatus == {"none", "notinit", "ready", "unloading",
                 "unloading2"}

NoReply == [status |-> "none", rows |-> <<>>, success_num |-> 0]

VARIABLES
    mgr,        \* the TabletIO the manager maps the range to, or NoTablet
    tio,        \* per TabletIO: [st, refs]
    cpc,        \* program counter of each control RPC and of ExitProc
    hold,       \* the TabletIO handle each of them holds, or NoTablet
    epc,        \* Exit: "running", "wait", "exited"
    req,        \* [kind, total, maxTask, minRows] of the request being served
    phase,      \* "new", "reading", "grouping", "submit", "compacting",
                \* "scanning", "answered"
    shards,     \* sequence of ShardRequest [offset, row_num]
    sh,         \* per shard: [pc, index, is_timeout, results, hold]
    status,     \* response detail status (a write's row_status_list), per row
    success,    \* read_success_num_
    finished,   \* finished_, or a write's row_done_counter
    hasTimeout, \* has_timeout_
    expired,    \* the client deadline end_time_ms_ has passed
    reply,      \* what the request's done->Run() hands back
    wrow,       \* the next row of WriteTablet's grouping loop
    wt,         \* tablet_task_map: TabletIO (or NoTablet) -> [rows, pc]
    chold       \* the handle CompactTablet or ScanTablet holds, or NoTablet

ctrlVars == <<mgr, tio, cpc, hold, epc>>
readVars == <<req, phase, shards, sh, status, success, finished, hasTimeout,
              expired, reply>>
writeVars == <<wrow, wt, chold>>
dataVars == <<readVars, writeVars>>
vars == <<ctrlVars, dataVars>>

MaxRows == Max(ReadSizes)

\* A write or a compaction uses only total (its row_list_size).
Requests ==
    [kind : {"read"}, total : ReadSizes, maxTask : TaskNums,
     minRows : RowsPerTaskNums]
    \cup [kind : {"write"}, total : WriteSizes, maxTask : {0}, minRows : {1}]
    \cup [kind : {"compact", "scan"}, total : {0}, maxTask : {0}, minRows : {1}]

(***************************************************************************)
(* Reference counting of TabletIO handles.                                 *)
(***************************************************************************)
IncRef(t, x) == [t EXCEPT ![x].refs = @ + 1]

\* DecRef: the object is deleted when the last reference goes.
DecRef(t, x) == [t EXCEPT ![x].refs = @ - 1]

Deleted(x) == tio[x].st # "none" /\ tio[x].refs = 0

\* TabletManager::RemoveTablet: the range is unmapped and the manager's
\* reference dropped.
RemoveTablet(t) == IF mgr = NoTablet THEN t ELSE DecRef(t, mgr)

(***************************************************************************)
(* The sharding of StartRead, as operators.                                *)
(***************************************************************************)
\* Mutation: rows_per_task without the + 1, so the shards outnumber the tasks.
RowsPerTaskNoRoundUp(total, maxTask, minRows) ==
    IF maxTask * minRows >= total THEN minRows
    ELSE IF maxTask <= 1 THEN total
    ELSE total \div maxTask

\* rows_per_task
RowsPerTask(total, maxTask, minRows) ==
    IF maxTask * minRows >= total THEN minRows
    ELSE IF maxTask <= 1 THEN total
    ELSE total \div maxTask + 1

\* Mutation: shard_cnt without the + 1.
ShardCntNoSlack(total, rows) == total \div rows

\* shard_cnt, the capacity reserved for row_results_list_
ShardCnt(total, rows) == total \div rows + 1

\* The while (row_to_read > 0) loop: one ShardRequest per iteration.
RECURSIVE ShardLoop(_, _, _)
ShardLoop(rowToRead, offset, rows) ==
    IF rowToRead <= 0 THEN <<>>
    ELSE << [offset |-> offset,
             row_num |-> IF rows < rowToRead THEN rows ELSE rowToRead] >>
         \o ShardLoop(rowToRead - rows, offset + rows, rows)

ShardsOf(r) ==
    ShardLoop(r.total, 0, RowsPerTask(r.total, r.maxTask, r.minRows))

Rows(s) == s.offset .. s.offset + s.row_num - 1

NoShard == [pc |-> "run", index |-> 0, is_timeout |-> FALSE, results |-> <<>>,
            hold |-> NoTablet]

ReadInit ==
    /\ req \in Requests
    /\ phase = "new"
    /\ shards = <<>>
    /\ sh = <<>>
    /\ status = <<>>
    /\ success = 0
    /\ finished = 0
    /\ hasTimeout = FALSE
    /\ expired = FALSE
    /\ reply = NoReply
    /\ wrow = 0
    /\ wt = <<>>
    /\ chold = NoTablet

Init ==
    /\ mgr = NoTablet
    /\ tio = [x \in Ids |-> [st |-> "none", refs |-> 0]]
    /\ cpc = [p \in Procs |-> "idle"]
    /\ hold = [p \in Procs |-> NoTablet]
    /\ epc = "running"
    /\ ReadInit

(***************************************************************************)
(* LoadTablet.  The session and schema checks and AddTablet are one step:  *)
(* the session does not change while the handler runs.  AddTablet either   *)
(* maps the range to a new kNotInit TabletIO (one reference for the       *)
(* manager, one for the caller) or fails on the tablet already there and  *)
(* still returns a reference to it.                                        *)
(***************************************************************************)
FreshId == CHOOSE x \in Ids : tio[x].st = "none"

\* response->set_status(code) and the handler returns; no property tells the
\* codes apart, so only the return is kept.
Answer(c, code) == cpc' = [cpc EXCEPT ![c] = "done"]

LoadTablet(c) ==
    /\ c.type = "load" /\ cpc[c] = "idle"
    /\ IF c.session # "cur" \/ c.lgs < 1
       THEN /\ Answer(c, "illegal")
            /\ UNCHANGED <<mgr, tio, hold>>
       ELSE IF mgr = NoTablet
       THEN /\ \E x \in Ids : tio[x].st = "none"
            /\ mgr' = FreshId
            /\ tio' = [tio EXCEPT ![FreshId] = [st |-> "notinit", refs |-> 2]]
            /\ hold' = [hold EXCEPT ![c] = FreshId]
            /\ cpc' = [cpc EXCEPT ![c] = "load"]
       ELSE /\ tio' = IncRef(tio, mgr)
            /\ hold' = [hold EXCEPT ![c] = mgr]
            /\ cpc' = [cpc EXCEPT ![c] = "addfail"]
            /\ UNCHANGED mgr
    /\ UNCHANGED <<epc, dataVars>>

\* Mutation: the AddTablet failure path returns without DecRef.
LoadAddFailedNoDecRef(c) ==
    /\ cpc[c] = "addfail"
    /\ Answer(c, tio[hold[c]].st)
    /\ hold' = [hold EXCEPT ![c] = NoTablet]
    /\ UNCHANGED <<mgr, tio, epc, dataVars>>

\* AddTablet failed: answer the existing tablet's status and DecRef it.
LoadAddFailed(c) ==
    /\ cpc[c] = "addfail"
    /\ Answer(c, tio[hold[c]].st)
    /\ tio' = DecRef(tio, hold[c])
    /\ hold' = [hold EXCEPT ![c] = NoTablet]
    /\ UNCHANGED <<mgr, epc, dataVars>>

\* TabletIO::Load runs and returns; the handler DecRefs either way and
\* answers kTabletNodeOk, or goes on to remove the tablet after a failure.
\* Load's kOnLoad is not a step of its own: every reader of the status
\* (ReadCells, Unload, the AddTablet failure path) treats it as kNotInit.
LoadDone(c) ==
    LET x == hold[c] IN
    /\ cpc[c] = "load"
    /\ \E ok \in BOOLEAN :
        /\ tio' = DecRef([tio EXCEPT ![x].st = IF ok THEN "ready" ELSE "notinit"], x)
        /\ IF ok THEN Answer(c, "ok")
           ELSE cpc' = [cpc EXCEPT ![c] = "remove"]
    /\ hold' = [hold EXCEPT ![c] = NoTablet]
    /\ UNCHANGED <<mgr, epc, dataVars>>

\* After a failed load: RemoveTablet of the range, then kIOError.
LoadRemove(c) ==
    /\ c.type = "load" /\ cpc[c] = "remove"
    /\ tio' = RemoveTablet(tio)
    /\ mgr' = NoTablet
    /\ Answer(c, "ioerror")
    /\ UNCHANGED <<hold, epc, dataVars>>

(***************************************************************************)
(* UnloadTablet.  A request without a session id (a master older than     *)
(* 2.10) skips the session check.  GetTablet takes a reference; an Unload  *)
(* that fails answers the tablet's status.                                 *)
(***************************************************************************)
UnloadTablet(c) ==
    /\ c.type = "unload" /\ cpc[c] = "idle"
    /\ IF c.session = "old"
       THEN /\ Answer(c, "illegal")
            /\ UNCHANGED <<tio, hold>>
       ELSE IF mgr = NoTablet
       THEN /\ Answer(c, "notinrange")
            /\ UNCHANGED <<tio, hold>>
       ELSE /\ tio' = IncRef(tio, mgr)
            /\ hold' = [hold EXCEPT ![c] = mgr]
            /\ cpc' = [cpc EXCEPT ![c] = "unload"]
    /\ UNCHANGED <<mgr, epc, dataVars>>

(***************************************************************************)
(* What each caller does once TabletIO::Unload has returned ok, with t the *)
(* TabletIO state Unload left.                                             *)
(***************************************************************************)
\* UnloadTablet: DecRef; a failed Unload answers the tablet's status, a
\* successful one goes on to RemoveTablet.
UnloadTabletEnd(c, t, ok) ==
    /\ tio' = DecRef(t, hold[c])
    /\ hold' = [hold EXCEPT ![c] = NoTablet]
    /\ IF ok THEN cpc' = [cpc EXCEPT ![c] = "remove"]
       ELSE Answer(c, t[hold[c]].st)

\* Mutation: UnloadTabletProc returns on a failed Unload before
\* worker_count->Dec().
UnloadTabletProcEndNoDec(p, t, ok) ==
    /\ tio' = DecRef(t, hold[p])
    /\ hold' = [hold EXCEPT ![p] = NoTablet]
    /\ cpc' = [cpc EXCEPT ![p] = IF ok THEN "done" ELSE "failed"]

\* UnloadTabletProc: DecRef and worker_count->Dec() whatever Unload returned.
UnloadTabletProcEnd(p, t, ok) ==
    /\ tio' = DecRef(t, hold[p])
    /\ hold' = [hold EXCEPT ![p] = NoTablet]
    /\ cpc' = [cpc EXCEPT ![p] = "done"]

\* GetBackgroundErrors: RemoveTablet follows whatever Unload returned.
ForceUnloadEnd(p, t, ok) ==
    /\ tio' = t
    /\ cpc' = [cpc EXCEPT ![p] = "bgremove"]
    /\ UNCHANGED hold

AfterUnload(p, t, ok) ==
    CASE p = ExitProc -> UnloadTabletProcEnd(p, t, ok)
      [] p = BgProc   -> ForceUnloadEnd(p, t, ok)
      [] OTHER        -> UnloadTabletEnd(p, t, ok)

(***************************************************************************)
(* TabletIO::Unload, called by UnloadTablet, by UnloadTabletProc           *)
(* (p = ExitProc) and by GetBackgroundErrors (p = BgProc).  Only a kReady  *)
(* tablet unloads; it passes kUnLoading, where reads are still served, and *)
(* kUnLoading2, and ends closed in kNotInit.                               *)
(***************************************************************************)
UnloadStart(p) ==
    LET x == hold[p] IN
    /\ cpc[p] = "unload"
    /\ IF tio[x].st = "ready"
       THEN /\ tio' = [tio EXCEPT ![x].st = "unloading"]
            /\ cpc' = [cpc EXCEPT ![p] = "unloading"]
            /\ UNCHANGED hold
       ELSE AfterUnload(p, tio, FALSE)
    /\ UNCHANGED <<mgr, epc, dataVars>>

UnloadPhase2(p) ==
    /\ cpc[p] = "unloading"
    /\ tio' = [tio EXCEPT ![hold[p]].st = "unloading2"]
    /\ cpc' = [cpc EXCEPT ![p] = "unloading2"]
    /\ UNCHANGED <<mgr, hold, epc, dataVars>>

UnloadDone(p) ==
    /\ cpc[p] = "unloading2"
    /\ AfterUnload(p, [tio EXCEPT ![hold[p]].st = "notinit"], TRUE)
    /\ UNCHANGED <<mgr, epc, dataVars>>

UnloadRemove(c) ==
    /\ c.type = "unload" /\ cpc[c] = "remove"
    /\ tio' = RemoveTablet(tio)
    /\ mgr' = NoTablet
    /\ Answer(c, "ok")
    /\ UNCHANGED <<hold, epc, dataVars>>

(***************************************************************************)
(* Exit: running_ = false, GetAllTablets takes a reference on every mapped *)
(* tablet, one UnloadTabletProc thread per tablet, and Exit waits until    *)
(* worker_count drops to zero.                                             *)
(***************************************************************************)
ExitStart ==
    /\ epc = "running"
    /\ epc' = "wait"
    /\ IF mgr = NoTablet
       THEN UNCHANGED <<tio, hold, cpc>>
       ELSE /\ tio' = IncRef(tio, mgr)
            /\ hold' = [hold EXCEPT ![ExitProc] = mgr]
            /\ cpc' = [cpc EXCEPT ![ExitProc] = "unload"]
    /\ UNCHANGED <<mgr, dataVars>>

ExitWait ==
    /\ epc = "wait"
    /\ cpc[ExitProc] \in {"idle", "done"}
    /\ epc' = "exited"
    /\ UNCHANGED <<mgr, tio, cpc, hold, dataVars>>

(***************************************************************************)
(* GetBackgroundErrors (called for Query, and the same loop in              *)
(* RefreshLevelSize): GetAllTablets, then for each tablet whose engine     *)
(* asks for it (ShouldForceUnloadOnError), Unload and RemoveTablet of the  *)
(* tablet's table and key range; every handle is DecRef'd.  One pass of    *)
(* the loop is modelled.                                                   *)
(***************************************************************************)
\* GetAllTablets takes a reference; ShouldForceUnloadOnError picks the
\* tablet, or CheckBackgroundError runs and the reference is dropped again.
\* Only a kReady tablet has an opened DB whose bg_error_ can be
\* IOPermissionDenied (DBImpl::ShouldForceUnloadOnError), so only a kReady
\* one is forced.
BgGetAllTablets ==
    /\ cpc[BgProc] = "idle"
    /\ IF mgr = NoTablet
       THEN /\ cpc' = [cpc EXCEPT ![BgProc] = "done"]
            /\ UNCHANGED <<tio, hold>>
       ELSE \E force \in BOOLEAN :
            IF force /\ tio[mgr].st = "ready"
            THEN /\ tio' = IncRef(tio, mgr)
                 /\ hold' = [hold EXCEPT ![BgProc] = mgr]
                 /\ cpc' = [cpc EXCEPT ![BgProc] = "unload"]
            ELSE /\ cpc' = [cpc EXCEPT ![BgProc] = "done"]
                 /\ UNCHANGED <<tio, hold>>
    /\ UNCHANGED <<mgr, epc, dataVars>>

\* RemoveTablet by the held tablet's range, which removes whatever tablet
\* the manager maps there now, then DecRef of the held handle.
BgRemove ==
    /\ cpc[BgProc] = "bgremove"
    /\ tio' = DecRef(RemoveTablet(tio), hold[BgProc])
    /\ mgr' = NoTablet
    /\ hold' = [hold EXCEPT ![BgProc] = NoTablet]
    /\ cpc' = [cpc EXCEPT ![BgProc] = "done"]
    /\ UNCHANGED <<epc, dataVars>>

(***************************************************************************)
(* ReadTablet / StartRead: an empty request is answered at once;           *)
(* otherwise the status array is reserved with uninitialised elements and  *)
(* every shard is handed to its thread.                                    *)
(***************************************************************************)
StartRead ==
    /\ req.kind = "read" /\ phase = "new"
    /\ IF req.total = 0
       THEN /\ reply' = [status |-> "ok", rows |-> <<>>, success_num |-> success]
            /\ phase' = "answered"
            /\ UNCHANGED <<shards, sh, status>>
       ELSE LET ss == ShardsOf(req) IN
            /\ shards' = ss
            /\ sh' = [i \in 1..Len(ss) |-> [NoShard EXCEPT !.index = ss[i].offset]]
            /\ status' = [i \in 1..req.total |-> Uninit]
            /\ phase' = "reading"
            /\ UNCHANGED reply
    /\ UNCHANGED <<ctrlVars, req, success, finished, hasTimeout, expired,
                   writeVars>>

\* The end of a DoRead iteration that set the row's status to code: the
\* loop breaks on kRPCTimeout or once another shard stored has_timeout_,
\* and a loop left with is_timeout set goes on to store has_timeout_.
EndRow(s, code, end) ==
    LET brk == code = "timeout" \/ hasTimeout IN
    [pc |-> IF brk THEN "store" ELSE IF s.index + 1 = end THEN "finish" ELSE "run",
     index |-> IF brk THEN s.index ELSE s.index + 1,
     is_timeout |-> brk,
     results |-> IF code = "ok" THEN Append(s.results, s.index) ELSE s.results,
     hold |-> NoTablet]

ShardEnd(i) == shards[i].offset + shards[i].row_num

(***************************************************************************)
(* DoRead, first half of an iteration for shard i: GetTablet for the row's *)
(* key.  No tablet: the row gets kKeyNotInRange and the iteration ends.    *)
(* Row indexes are 0-based in the code and 1-based in status.              *)
(***************************************************************************)
DoReadGet(i) ==
    LET s == sh[i] IN
    /\ s.pc = "run"
    /\ IF mgr = NoTablet
       THEN /\ status' = [status EXCEPT ![s.index + 1] = "fail"]
            /\ sh' = [sh EXCEPT ![i] = EndRow(s, "fail", ShardEnd(i))]
            /\ UNCHANGED tio
       ELSE /\ tio' = IncRef(tio, mgr)
            /\ sh' = [sh EXCEPT ![i].pc = "read", ![i].hold = mgr]
            /\ UNCHANGED status
    /\ UNCHANGED <<mgr, cpc, hold, epc, req, phase, shards, success,
                   finished, hasTimeout, expired, reply, writeVars>>

\* What TabletIO::ReadCells may answer: rows are served while the tablet is
\* kReady or in the first unload phase; kRPCTimeout once the deadline passed.
ReadOutcomes(st) ==
    {"fail"} \cup (IF st \in {"ready", "unloading"} THEN {"ok"} ELSE {})
             \cup (IF expired THEN {"timeout"} ELSE {})

\* DoRead, second half: ReadCells, read_success_num_, DecRef, the row status.
DoReadCells(i) ==
    LET s == sh[i] IN
    /\ s.pc = "read"
    /\ \E code \in ReadOutcomes(tio[s.hold].st) :
        /\ status' = [status EXCEPT ![s.index + 1] = code]
        /\ success' = IF code = "ok" THEN success + 1 ELSE success
        /\ sh' = [sh EXCEPT ![i] = EndRow(s, code, ShardEnd(i))]
    /\ tio' = DecRef(tio, s.hold)
    /\ UNCHANGED <<mgr, cpc, hold, epc, req, phase, shards, finished,
                   hasTimeout, expired, reply, writeVars>>

\* Mutation: the store of has_timeout_ after a broken loop is left out.
DoReadStoreDropped(i) ==
    /\ sh[i].pc = "store"
    /\ sh' = [sh EXCEPT ![i].pc = "finish"]
    /\ UNCHANGED <<ctrlVars, req, phase, shards, status, success, finished,
                   hasTimeout, expired, reply, writeVars>>

\* After the loop: if (is_timeout) has_timeout_.store(true).
DoReadStore(i) ==
    /\ sh[i].pc = "store"
    /\ hasTimeout' = TRUE
    /\ sh' = [sh EXCEPT ![i].pc = "finish"]
    /\ UNCHANGED <<ctrlVars, req, phase, shards, status, success, finished,
                   expired, reply, writeVars>>

\* The results of every shard, in shard order.
Gathered == FlattenSeq([i \in 1..Len(sh) |-> sh[i].results])

\* Mutation: a shard that sees has_timeout_ answers kRPCTimeout at once
\* instead of waiting for finished_ to reach total_row_num_.
FinishShardRequestFastTimeout(i) ==
    LET f == finished + shards[i].row_num IN
    /\ sh[i].pc = "finish"
    /\ finished' = f
    /\ sh' = [sh EXCEPT ![i].pc = "done"]
    /\ IF hasTimeout \/ f = req.total
       THEN /\ reply' = IF hasTimeout
                        THEN [NoReply EXCEPT !.status = "timeout"]
                        ELSE [status |-> "ok", rows |-> Gathered,
                              success_num |-> success]
            /\ phase' = "answered"
       ELSE UNCHANGED <<reply, phase>>
    /\ UNCHANGED <<ctrlVars, req, shards, status, success, hasTimeout, expired,
                   writeVars>>

(***************************************************************************)
(* FinishShardRequest: finished_.Add(row_num); the shard that brings it to *)
(* total_row_num_ answers kRPCTimeout if has_timeout_ is set and otherwise *)
(* the gathered results with kTabletNodeOk and read_success_num_.          *)
(***************************************************************************)
FinishShardRequest(i) ==
    LET f == finished + shards[i].row_num IN
    /\ sh[i].pc = "finish"
    /\ finished' = f
    /\ sh' = [sh EXCEPT ![i].pc = "done"]
    /\ IF f = req.total
       THEN /\ reply' = IF hasTimeout
                        THEN [NoReply EXCEPT !.status = "timeout"]
                        ELSE [status |-> "ok", rows |-> Gathered,
                              success_num |-> success]
            /\ phase' = "answered"
       ELSE UNCHANGED <<reply, phase>>
    /\ UNCHANGED <<ctrlVars, req, shards, status, success, hasTimeout, expired,
                   writeVars>>

\* The clock passes end_time_ms_ while the request is being served.
Expire ==
    /\ req.kind = "read" /\ phase # "answered"
    /\ ~expired
    /\ expired' = TRUE
    /\ UNCHANGED <<ctrlVars, req, phase, shards, sh, status, success, finished,
                   hasTimeout, reply, writeVars>>

(***************************************************************************)
(* WriteTablet.  An empty batch is answered at once.  Otherwise each       *)
(* iteration of the row loop is a GetTablet for the row's key: the first  *)
(* row of a TabletIO (or of NULL) opens a task that keeps the reference,  *)
(* a later one DecRefs it again.  After the loop the row_status_list is   *)
(* reserved with uninitialised elements.  Row indexes are 0-based.        *)
(***************************************************************************)
WriteEmpty ==
    /\ req.kind = "write" /\ phase = "new" /\ req.total = 0
    /\ reply' = [NoReply EXCEPT !.status = "ok"]
    /\ phase' = "answered"
    /\ UNCHANGED <<ctrlVars, req, shards, sh, status, success, finished,
                   hasTimeout, expired, writeVars>>

WriteGroupRow ==
    LET x == mgr IN
    /\ req.kind = "write" /\ phase \in {"new", "grouping"} /\ req.total > 0
    /\ IF x \in DOMAIN wt
       THEN /\ wt' = [wt EXCEPT ![x].rows = @ \cup {wrow}]
            /\ UNCHANGED tio
       ELSE /\ wt' = wt @@ (x :> [rows |-> {wrow}, pc |-> "grouped"])
            /\ tio' = IF x = NoTablet THEN tio ELSE IncRef(tio, x)
    /\ wrow' = wrow + 1
    /\ IF wrow + 1 = req.total
       THEN /\ status' = [k \in 1..req.total |-> Uninit]
            /\ phase' = "submit"
       ELSE /\ phase' = "grouping"
            /\ UNCHANGED status
    /\ UNCHANGED <<mgr, cpc, hold, epc, req, shards, sh, success, finished,
                   hasTimeout, expired, reply, chold>>

(***************************************************************************)
(* WriteTabletCallback for the task of x, the vector codes holding its     *)
(* rows' statuses and how ends the task's pc: the statuses are copied into *)
(* the response, row_done_counter->Add, and the task whose Add reaches     *)
(* row_list_size runs done.                                                *)
(***************************************************************************)
WriteTabletCallback(x, codes, how) ==
    LET f == finished + Cardinality(wt[x].rows) IN
    /\ status' = [k \in DOMAIN status |->
                    IF k - 1 \in wt[x].rows THEN codes[k - 1] ELSE status[k]]
    /\ finished' = f
    /\ wt' = [wt EXCEPT ![x].pc = how]
    /\ IF f = req.total
       THEN /\ reply' = [NoReply EXCEPT !.status = "ok"]
            /\ phase' = "answered"
       ELSE UNCHANGED <<reply, phase>>

\* Mutation: WriteTabletFail leaves row_status_vec as pushed (kTabletNodeOk).
WriteTabletFailNoStatus(x, code) ==
    WriteTabletCallback(x, [r \in wt[x].rows |-> "ok"], "failed")

\* WriteTabletFail: every row of the task gets code, then the callback.
WriteTabletFail(x, code) ==
    WriteTabletCallback(x, [r \in wt[x].rows |-> code], "failed")

\* TabletIO::Write takes a batch only from a kReady tablet, and may refuse
\* it (kTabletNodeIsBusy) whatever the status.
WriteAccepts(x) == IF tio[x].st = "ready" THEN BOOLEAN ELSE {FALSE}

(***************************************************************************)
(* The task loop over tablet_task_map, in key order, so the NULL task      *)
(* first: it fails with kKeyNotInRange.  Any other task goes to            *)
(* TabletIO::Write and its reference is dropped; a refused one fails with  *)
(* the status Write set, an accepted one waits for its callback.           *)
(***************************************************************************)
WriteSubmit ==
    /\ phase = "submit"
    /\ \E x \in DOMAIN wt :
        /\ wt[x].pc = "grouped"
        /\ NoTablet \in DOMAIN wt /\ wt[NoTablet].pc = "grouped" => x = NoTablet
        /\ IF x = NoTablet
           THEN /\ WriteTabletFail(x, "fail")
                /\ UNCHANGED tio
           ELSE /\ tio' = DecRef(tio, x)
                /\ \E ok \in WriteAccepts(x) :
                     IF ok THEN /\ wt' = [wt EXCEPT ![x].pc = "queued"]
                                /\ UNCHANGED <<status, finished, reply, phase>>
                     ELSE WriteTabletFail(x, "fail")
    /\ UNCHANGED <<mgr, cpc, hold, epc, req, shards, sh, success, hasTimeout,
                   expired, wrow, chold>>

\* The tablet writer runs the callback of an accepted batch with a status
\* per row.
WriteDone ==
    /\ \E x \in DOMAIN wt :
        /\ wt[x].pc = "queued"
        /\ \E codes \in [wt[x].rows -> {"ok", "fail"}] :
             WriteTabletCallback(x, codes, "called")
    /\ UNCHANGED <<ctrlVars, req, shards, sh, success, hasTimeout, expired,
                   wrow, chold>>

(***************************************************************************)
(* CompactTablet: GetTablet for the range (kKeyNotInRange without one),    *)
(* then TabletIO::Compact with the reference held, DecRef and the answer.  *)
(* Compact only runs on a kReady tablet and reports the status otherwise.  *)
(***************************************************************************)
CompactGet ==
    /\ req.kind = "compact" /\ phase = "new"
    /\ IF mgr = NoTablet
       THEN /\ reply' = [NoReply EXCEPT !.status = "fail"]
            /\ phase' = "answered"
            /\ UNCHANGED <<tio, chold>>
       ELSE /\ tio' = IncRef(tio, mgr)
            /\ chold' = mgr
            /\ phase' = "compacting"
            /\ UNCHANGED reply
    /\ UNCHANGED <<mgr, cpc, hold, epc, req, shards, sh, status, success,
                   finished, hasTimeout, expired, wrow, wt>>

CompactDone ==
    /\ phase = "compacting"
    /\ reply' = [NoReply EXCEPT !.status =
                    IF tio[chold].st = "ready" THEN "ok" ELSE "fail"]
    /\ tio' = DecRef(tio, chold)
    /\ chold' = NoTablet
    /\ phase' = "answered"
    /\ UNCHANGED <<mgr, cpc, hold, epc, req, shards, sh, status, success,
                   finished, hasTimeout, expired, wrow, wt>>

(***************************************************************************)
(* ScanTablet: GetTablet for the scan's start key (the lookup's status is  *)
(* the answer without one), then TabletIO::ScanRows with the reference     *)
(* held, and DecRef.  ScanRows serves a kReady or kUnLoading tablet, like  *)
(* ReadCells, and may fail on its own.                                     *)
(***************************************************************************)
ScanGet ==
    /\ req.kind = "scan" /\ phase = "new"
    /\ IF mgr = NoTablet
       THEN /\ reply' = [NoReply EXCEPT !.status = "fail"]
            /\ phase' = "answered"
            /\ UNCHANGED <<tio, chold>>
       ELSE /\ tio' = IncRef(tio, mgr)
            /\ chold' = mgr
            /\ phase' = "scanning"
            /\ UNCHANGED reply
    /\ UNCHANGED <<mgr, cpc, hold, epc, req, shards, sh, status, success,
                   finished, hasTimeout, expired, wrow, wt>>

ScanDone ==
    /\ phase = "scanning"
    /\ \E code \in {"fail"} \cup (IF tio[chold].st \in {"ready", "unloading"}
                                 THEN {"ok"} ELSE {}) :
         reply' = [NoReply EXCEPT !.status = code]
    /\ tio' = DecRef(tio, chold)
    /\ chold' = NoTablet
    /\ phase' = "answered"
    /\ UNCHANGED <<mgr, cpc, hold, epc, req, shards, sh, status, success,
                   finished, hasTimeout, expired, wrow, wt>>

\* The next data RPC arrives once the previous one is released: a read
\* when its shards have all returned, a write when every task has called
\* back.
NextRequest ==
    /\ phase = "answered"
    /\ \A i \in DOMAIN sh : sh[i].pc = "done"
    /\ \A x \in DOMAIN wt : wt[x].pc \in {"called", "failed"}
    /\ req' \in Requests
    /\ phase' = "new"
    /\ shards' = <<>> /\ sh' = <<>> /\ status' = <<>>
    /\ success' = 0 /\ finished' = 0 /\ hasTimeout' = FALSE
    /\ expired' = FALSE /\ reply' = NoReply
    /\ wrow' = 0 /\ wt' = <<>>
    /\ UNCHANGED <<ctrlVars, chold>>

WriteStep == WriteEmpty \/ WriteGroupRow \/ WriteSubmit \/ WriteDone

CompactStep == CompactGet \/ CompactDone

ScanStep == ScanGet \/ ScanDone

ShardStep(i) ==
    /\ i \in DOMAIN sh
    /\ \/ DoReadGet(i) \/ DoReadCells(i) \/ DoReadStore(i)
       \/ FinishShardRequest(i)

\* A step of a control RPC's thread, of Exit's UnloadTabletProc thread or of
\* the background-error thread.
CtrlStep(p) ==
    \/ /\ p \in Ctrl
       /\ \/ LoadTablet(p) \/ LoadAddFailed(p) \/ LoadDone(p)
          \/ LoadRemove(p) \/ UnloadTablet(p) \/ UnloadRemove(p)
    \/ p = BgProc /\ (BgGetAllTablets \/ BgRemove)
    \/ UnloadStart(p) \/ UnloadPhase2(p) \/ UnloadDone(p)

Next ==
    \/ \E p \in Procs : CtrlStep(p)
    \/ ExitStart \/ ExitWait
    \/ StartRead
    \/ \E i \in 1..MaxRows : ShardStep(i)
    \/ WriteStep
    \/ CompactStep
    \/ ScanStep
    \/ Expire
    \/ NextRequest

(***************************************************************************)
(* Every control RPC, unload thread and read shard runs on a thread of its *)
(* own (the RPC pools and the read pool run every task they are given),    *)
(* and Exit's thread polls worker_count until it drops to zero.  Arrival   *)
(* of RPCs, Exit itself and the deadline are not forced.                   *)
(***************************************************************************)
Fairness ==
    /\ \A p \in Procs : WF_vars(cpc[p] # "idle" /\ CtrlStep(p))
    /\ WF_vars(ExitWait)
    /\ WF_vars(StartRead)
    /\ WF_vars(WriteStep)
    /\ WF_vars(CompactStep)
    /\ WF_vars(ScanStep)
    /\ \A i \in 1..MaxRows : WF_vars(ShardStep(i))

Spec == Init /\ [][Next]_vars /\ Fairness

\* Exit's return needs only its own threads to run: the UnloadTabletProc
\* thread, whose steps no other thread blocks, and the worker_count poll.
ExitFairness ==
    /\ WF_vars(cpc[ExitProc] # "idle" /\ CtrlStep(ExitProc))
    /\ WF_vars(ExitWait)

ExitSpec == Init /\ [][Next]_vars /\ ExitFairness
-----------------------------------------------------------------------------
TypeOK ==
    /\ mgr \in {NoTablet} \cup Ids
    /\ tio \in [Ids -> [st : TabletStatus, refs : Nat]]
    /\ cpc \in [Procs -> {"idle", "addfail", "load", "remove",
                          "unload", "unloading", "unloading2",
                          "bgremove", "done"}]
    /\ hold \in [Procs -> {NoTablet} \cup Ids]
    /\ epc \in {"running", "wait", "exited"}
    /\ req \in Requests
    /\ phase \in {"new", "reading", "grouping", "submit", "compacting",
                  "scanning", "answered"}
    /\ \A i \in DOMAIN sh :
         /\ sh[i].pc \in {"run", "read", "store", "finish", "done"}
         /\ sh[i].index \in 0..MaxRows
    /\ \A r \in DOMAIN status : status[r] \in Codes \cup {Uninit}
    /\ success \in 0..MaxRows /\ finished \in 0..MaxRows
    /\ hasTimeout \in BOOLEAN /\ expired \in BOOLEAN
    /\ reply.status \in {"none", "ok", "timeout", "fail"}
    /\ DOMAIN wt \subseteq {NoTablet} \cup Ids
    /\ \A x \in DOMAIN wt : wt[x].pc \in {"grouped", "queued", "called", "failed"}
    /\ chold \in {NoTablet} \cup Ids

\* The handles on TabletIO x held by control threads and read shards.
Holders(x) ==
    Cardinality({p \in Procs : hold[p] = x})
    + Cardinality({i \in DOMAIN sh : sh[i].hold = x})
    + (IF x \in DOMAIN wt /\ wt[x].pc = "grouped" THEN 1 ELSE 0)
    + (IF chold = x THEN 1 ELSE 0)

(***************************************************************************)
(* Reference counts balance: across every interleaving of LoadTablet,      *)
(* UnloadTablet, Exit's unload thread and the read shards' GetTablet,      *)
(* each TabletIO's count is exactly the handles held on it plus the        *)
(* manager's own, so no path leaks a reference or drops one twice, and no  *)
(* object that is mapped or held has been deleted.                         *)
(***************************************************************************)
RefsBalanced ==
    \A x \in Ids :
        /\ tio[x].st # "none" =>
             tio[x].refs = Holders(x) + (IF mgr = x THEN 1 ELSE 0)
        /\ (mgr = x \/ Holders(x) > 0) => ~Deleted(x)

\* The rows whose status is kTabletNodeOk, as 0-based indexes in row order.
OkRows == SelectSeq([k \in 1..Len(status) |-> k - 1],
                    LAMBDA k : status[k + 1] = "ok")

\* The requests and flag values over which StartRead's plan is checked.
PlanRequests ==
    [total : 0..MaxPlanRows, maxTask : 0..MaxPlanTasks,
     minRows : 1..MaxPlanRowsPerTask]

\* The shards of request r are a partition of its rows into at most
\* max(1, task_num) non-empty consecutive ranges.
PartitionsRows(r) ==
    LET ss == ShardsOf(r) IN
    /\ \A i \in DOMAIN ss : ss[i].row_num >= 1
    /\ \A i \in 1..Len(ss) - 1 : ss[i + 1].offset = ss[i].offset + ss[i].row_num
    /\ UNION {Rows(ss[i]) : i \in DOMAIN ss} = 0..r.total - 1
    /\ Len(ss) <= IF r.maxTask > 1 THEN r.maxTask ELSE 1

PlansPartitionRows == \A r \in PlanRequests : PartitionsRows(r)

(***************************************************************************)
(* StartRead's shards partition every request: they are non-empty, cover   *)
(* rows 0..total_row_num_-1 in order without overlap, and there are no     *)
(* more of them than FLAGS_tera_tabletnode_parallel_read_task_num (or one  *)
(* when that flag is at most 1), checked against this reference for every  *)
(* request size and flag value in PlanRequests, and for the request       *)
(* being served.                                                           *)
(***************************************************************************)
ShardsPartitionRows ==
    PlansPartitionRows /\ (req.kind = "read" => PartitionsRows(req))

\* StartRead emplaces no more results vectors for r than shard_cnt.
WithinReserve(r) ==
    Len(ShardsOf(r)) <= ShardCnt(r.total, RowsPerTask(r.total, r.maxTask, r.minRows))

PlansWithinReserve == \A r \in PlanRequests : WithinReserve(r)

(***************************************************************************)
(* Every shard keeps &row_results_list_.back() as its result vector, so    *)
(* row_results_list_ must never grow past the shard_cnt elements reserved  *)
(* for it: a reallocation would leave the earlier shards writing into      *)
(* freed memory.  Checked for PlanRequests and the request being served.  *)
(***************************************************************************)
ShardsReserved ==
    PlansWithinReserve /\ (req.kind = "read" => WithinReserve(req))

(***************************************************************************)
(* The reply is made exactly when the shards, or a write's tasks, are     *)
(* through.  Not before: done->Run() frees the request and the response,  *)
(* so no shard may still be reading rows or have yet to add to finished_, *)
(* and no write task may still wait for its callback.  Not never: once    *)
(* every shard has added its rows to finished_, or every row of the batch *)
(* has been grouped and every task called back, whatever rows timed out   *)
(* or failed, one of them has answered.                                    *)
(***************************************************************************)
AnsweredQuiescent ==
    /\ req.kind = "read" /\ phase # "new" =>
         (phase = "answered" <=> \A i \in DOMAIN sh : sh[i].pc = "done")
    /\ req.kind = "write" /\ phase # "new" =>
         (phase = "answered" <=>
            /\ wrow = req.total
            /\ \A x \in DOMAIN wt : wt[x].pc \in {"called", "failed"})

(***************************************************************************)
(* A kTabletNodeOk reply is complete: no row status is kRPCTimeout or left *)
(* as the uninitialised element AddAlreadyReserved made, the results are  *)
(* successful rows in request order, and success_num counts them.          *)
(***************************************************************************)
OkReplyComplete ==
    req.kind = "read" /\ reply.status = "ok" /\ req.total > 0 =>
        /\ \A k \in DOMAIN status : status[k] \notin {Uninit, "timeout"}
        /\ reply.rows = OkRows
        /\ reply.success_num = Len(OkRows)

(***************************************************************************)
(* A tablet that LoadTablet brought to kReady stays the one the manager   *)
(* maps for its range until an unload of it starts, so reads of the range *)
(* find it and it is not deleted while it serves.  GetBackgroundErrors'   *)
(* RemoveTablet by key range breaks this when the range was unloaded and  *)
(* loaded again after its GetAllTablets snapshot.                         *)
(***************************************************************************)
LoadedStaysMapped == \A x \in Ids : tio[x].st = "ready" => mgr = x

(***************************************************************************)
(* A write reply reports a row kTabletNodeOk only if the row went to a     *)
(* TabletIO whose Write took it and whose callback reported it: a row that *)
(* no tablet covered, or whose tablet refused the batch, must carry the    *)
(* failure through WriteTabletFail, and no row is left uninitialised.      *)
(***************************************************************************)
WriteReplyTruthful ==
    req.kind = "write" /\ phase = "answered" =>
        \A k \in DOMAIN status :
            /\ status[k] # Uninit
            /\ status[k] = "ok" =>
                 \E x \in DOMAIN wt : k - 1 \in wt[x].rows /\ wt[x].pc = "called"

\* Exit returns: once running_ is false and the UnloadTabletProc threads
\* are started, every one of them calls worker_count->Dec() (whatever its
\* Unload returned, also for a tablet that was not kReady or that a
\* concurrent UnloadTablet or force-unload is closing), so the poll loop
\* of Exit ends.
ExitCompletes == epc = "wait" ~> epc = "exited"
====
