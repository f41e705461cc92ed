---------------------------- MODULE TaskRequests ----------------------------
(***************************************************************************)
(* The operations of transfer.Service that HTTP handlers run: Create, the  *)
(* two aria2 hooks, Retry in both modes and Delete; Start runs deleteTask  *)
(* too, for the rows a previous process left deleting.  One step per store *)
(* transaction, per call or batch of calls to aria2, and per directory     *)
(* removal.                                                                *)
(***************************************************************************)
EXTENDS TransferWorker

CONSTANTS
  DuringCreate,  \* the requests that reach a task whose Create has not answered
                 \* yet: "delete" from a client that saw the row in a list,
                 \* "hook" from a download that is done before its GID is saved
  RetryIds       \* the ids newID returns inside a full retry; the others are
                 \* returned to clients that create a task

ASSUME DuringCreateAssumption == DuringCreate \subseteq {"delete", "hook"}
ASSUME RetryIdsAssumption == RetryIds \subseteq Tasks

VARIABLES
  hpc,    \* hpc[p]: the step p is at
  htask,  \* htask[p]: the task p works on
  local   \* local[p]: what p read earlier and still uses

handlerVars == <<hpc, htask, local>>

CreatePcs == {"add", "saveGid", "saveFailure"}
HookPcs == {"resolve", "rememberNotReady", "rememberError", "notReady", "error",
            "commit", "enqueue", "stopped"}
DeletePcs == {"cancelRun", "awaitRun", "removeAria2", "removeDir", "erase"}
HandlerPcs == {"idle", "retryUpload", "recreate"} \cup CreatePcs \cup HookPcs \cup DeletePcs

\* gid: the GID of the hook, then the resolved one; snap: the row's GID when it
\* was read; todo: downloads deleteTask still has to remove; full: whether the
\* Delete is the first half of a full retry.
Locals == [gid : Gids \cup {"none"}, snap : Gids \cup {"none"}, todo : SUBSET Gids, full : BOOLEAN]
NoLocal == [gid |-> "none", snap |-> "none", todo |-> {}, full |-> FALSE]

RequestType ==
  /\ hpc \in [Procs -> HandlerPcs]
  /\ htask \in [Procs -> Tasks \cup {None}]
  /\ local \in [Procs -> Locals]

RequestInit ==
  /\ hpc = [p \in Procs |-> "idle"]
  /\ htask = [p \in Procs |-> None]
  /\ local = [p \in Procs |-> NoLocal]

Step(p, pc) == hpc' = [hpc EXCEPT ![p] = pc] /\ UNCHANGED <<htask, local>>
StepWith(p, pc, l) ==
  hpc' = [hpc EXCEPT ![p] = pc] /\ local' = [local EXCEPT ![p] = l] /\ UNCHANGED htask
Begin(p, pc, t, l) ==
  /\ hpc' = [hpc EXCEPT ![p] = pc]
  /\ htask' = [htask EXCEPT ![p] = t]
  /\ local' = [local EXCEPT ![p] = l]
Answer(p) == Begin(p, "idle", None, NoLocal)

BeingCreated(t) == \E p \in Procs : hpc[p] \in CreatePcs /\ htask[p] = t
Reaches(kind, t) == HasRow(t) /\ (kind \in DuringCreate \/ ~BeingCreated(t))

\* The server accepts requests until Shutdown.
Accepts(p) == p \in Handlers /\ hpc[p] = "idle" /\ phase = "up"

-----------------------------------------------------------------------------
\* Create: the directory and the row.  The second half of a full retry starts
\* here too; it ends without a task when the row is refused (here also when
\* the bound on RetryIds is reached).
CreateRow(p, t) ==
  /\ (t \notin RetryIds /\ Accepts(p)) \/ (t \in RetryIds /\ hpc[p] = "recreate")
  /\ status[t] = "new"
  /\ SetStatus(t, "queued")
  /\ dir' = [dir EXCEPT ![t] = "partial"]
  /\ Begin(p, "add", t, NoLocal)
  /\ UNCHANGED <<gid, final, dl, hooks, phase, workerVars>>

CreateRefused(p) ==
  /\ hpc[p] = "recreate"
  /\ Faults \cap {"destination", "store", "disk"} # {} \/ \A t \in RetryIds : status[t] # "new"
  /\ Answer(p)
  /\ UNCHANGED <<storeVars, aria2Vars, phase, workerVars>>

\* AddURI, AddTorrent or AddMetalink.
AddDownload(p) ==
  LET t == htask[p] IN
  /\ hpc[p] = "add"
  /\ \/ dl' = [dl EXCEPT ![<<t, "root">>] = "active"] /\ Step(p, "saveGid")
     \/ /\ "lostReply" \in Faults
        /\ dl' = [dl EXCEPT ![<<t, "root">>] = "active"]
        /\ Step(p, "saveFailure")
     \/ "rpc" \in Faults /\ Step(p, "saveFailure") /\ UNCHANGED dl
  /\ UNCHANGED <<dir, hooks, storeVars, phase, workerVars>>

\* Mutant of SaveGid: Create does not store the GID of its download.
SaveStatusOnly(p) ==
  /\ hpc[p] = "saveGid"
  /\ HasRow(htask[p]) /\ SetStatus(htask[p], "downloading")
  /\ Answer(p)
  /\ UNCHANGED <<gid, final, aria2Vars, phase, workerVars>>

\* The two Updates that end Create write whatever the status has become.
SaveGid(p) ==
  LET t == htask[p] IN
  /\ hpc[p] = "saveGid"
  /\ \/ /\ HasRow(t)
        /\ SetStatus(t, "downloading")
        /\ gid' = [gid EXCEPT ![t] = "root"]
     \/ (~HasRow(t) \/ "store" \in Faults) /\ UNCHANGED <<status, gid>>
  /\ Answer(p)
  /\ UNCHANGED <<final, aria2Vars, phase, workerVars>>

SaveFailure(p) ==
  LET t == htask[p] IN
  /\ hpc[p] = "saveFailure"
  /\ \/ HasRow(t) /\ SetStatus(t, "failed")
     \/ (~HasRow(t) \/ "store" \in Faults) /\ UNCHANGED status
  /\ Answer(p)
  /\ UNCHANGED <<gid, final, aria2Vars, phase, workerVars>>

-----------------------------------------------------------------------------
\* HandleCompleted up to its early return: the row is found by the GID, or by
\* the path of a file inside the task's directory; metadata has no such path.
\* The script stays: curl repeats a request that had no answer in time.
Completed(p, t, g) ==
  /\ Accepts(p)
  /\ <<"completed", t, g>> \in hooks
  /\ Reaches("hook", t)
  /\ FindByGID(t, g) \/ ~OnlyMetadata(t, g)
  /\ status[t] \in {"queued", "downloading", "failed"}
  /\ Begin(p, "resolve", t, [NoLocal EXCEPT !.gid = g, !.snap = gid[t]])
  /\ UNCHANGED <<storeVars, aria2Vars, phase, workerVars>>

\* resolveFinalFiles and the choice among its outcomes.
Resolve(p) ==
  LET t == htask[p]  l == local[p] IN
  /\ hpc[p] = "resolve"
  /\ \E r \in ResolveFinalFiles(t, l.gid) :
       LET known == r[2] = l.snap
           next == IF r[1] = "ready" THEN "commit"
                   ELSE IF r[1] = "notReady"
                          THEN IF known THEN "notReady" ELSE "rememberNotReady"
                          ELSE IF known THEN "error" ELSE "rememberError"
       IN  StepWith(p, next, [l EXCEPT !.gid = r[2], !.snap = "none"])
  /\ UNCHANGED <<storeVars, aria2Vars, phase, workerVars>>

RememberGID(p) ==
  LET t == htask[p] IN
  /\ hpc[p] \in {"rememberNotReady", "rememberError"}
  /\ \/ /\ Writable(t)
        /\ gid' = [gid EXCEPT ![t] = local[p].gid]
        /\ Step(p, IF hpc[p] = "rememberError" THEN "error" ELSE "notReady")
     \/ Refused(t) /\ Answer(p) /\ UNCHANGED gid
  /\ UNCHANGED <<status, final, aria2Vars, phase, workerVars>>

\* An Update that only refuses a task being deleted, then the answer.
MarkStatus(p, pc, s) ==
  LET t == htask[p] IN
  /\ hpc[p] = pc
  /\ \/ Writable(t) /\ SetStatus(t, s)
     \/ Refused(t) /\ UNCHANGED status
  /\ Answer(p)
  /\ UNCHANGED <<gid, final, aria2Vars, phase, workerVars>>

MarkNotReady(p) == MarkStatus(p, "notReady", "downloading")
MarkResolveError(p) == MarkStatus(p, "error", "failed")
MarkStopped(p) == MarkStatus(p, "stopped", "failed")

\* Mutant of CommitPending: the Update does not refuse a row being deleted.
CommitDeleting(p) ==
  LET t == htask[p] IN
  /\ hpc[p] = "commit" /\ HasRow(t)
  /\ SetStatus(t, "transfer_pending")
  /\ gid' = [gid EXCEPT ![t] = local[p].gid]
  /\ final' = [final EXCEPT ![t] = TRUE]
  /\ StepWith(p, "enqueue", NoLocal)
  /\ UNCHANGED <<aria2Vars, phase, workerVars>>

\* Mutant of CommitPending: the resolved files are not stored.
CommitNoFiles(p) ==
  LET t == htask[p] IN
  /\ hpc[p] = "commit" /\ Writable(t)
  /\ SetStatus(t, "transfer_pending")
  /\ gid' = [gid EXCEPT ![t] = local[p].gid]
  /\ StepWith(p, "enqueue", NoLocal)
  /\ UNCHANGED <<final, aria2Vars, phase, workerVars>>

CommitPending(p) ==
  LET t == htask[p] IN
  /\ hpc[p] = "commit"
  /\ \/ /\ Writable(t)
        /\ SetStatus(t, "transfer_pending")
        /\ gid' = [gid EXCEPT ![t] = local[p].gid]
        /\ final' = [final EXCEPT ![t] = TRUE]
        /\ StepWith(p, "enqueue", NoLocal)
     \/ Refused(t) /\ Answer(p) /\ UNCHANGED storeVars
  /\ UNCHANGED <<aria2Vars, phase, workerVars>>

\* Mutant of Enqueue: a task that is being transferred is not queued again.
EnqueueUnlessRunning(p) ==
  /\ hpc[p] = "enqueue"
  /\ queuedJobs' = queuedJobs \cup {t \in {htask[p]} : taskRuns[t] = None}
  /\ Answer(p)
  /\ UNCHANGED <<storeVars, aria2Vars, phase, taskRuns, wpc, wtask, cancelled, awaits, uploaded>>

\* enqueue; a stopped service refuses it, when no worker reads the job set.
Enqueue(p) ==
  /\ hpc[p] = "enqueue"
  /\ queuedJobs' = queuedJobs \cup {htask[p]}
  /\ Answer(p)
  /\ UNCHANGED <<storeVars, aria2Vars, phase, taskRuns, wpc, wtask, cancelled, awaits, uploaded>>

\* HandleStopped up to its Update.
Stopped(p, t, g) ==
  /\ Accepts(p)
  /\ <<"stopped", t, g>> \in hooks
  /\ Reaches("hook", t) /\ FindByGID(t, g)
  /\ status[t] \in {"queued", "downloading", "failed"}
  /\ Begin(p, "stopped", t, NoLocal)
  /\ UNCHANGED <<storeVars, aria2Vars, phase, workerVars>>

-----------------------------------------------------------------------------
\* Retry with mode upload: the row is read and the directory looked at.
RetryUpload(p, t) ==
  /\ Accepts(p)
  /\ HasRow(t) /\ final[t] /\ dir[t] # "absent"
  /\ Begin(p, "retryUpload", t, NoLocal)
  /\ UNCHANGED <<storeVars, aria2Vars, phase, workerVars>>

MarkRetry(p) ==
  LET t == htask[p] IN
  /\ hpc[p] = "retryUpload"
  /\ \/ Writable(t) /\ SetStatus(t, "transfer_pending") /\ Step(p, "enqueue")
     \/ Refused(t) /\ Answer(p) /\ UNCHANGED status
  /\ UNCHANGED <<gid, final, aria2Vars, phase, workerVars>>

-----------------------------------------------------------------------------
\* Delete, DeleteByGID and Retry with mode full: the Update to deleting.
Delete(p, t, full) ==
  /\ Accepts(p)
  /\ Reaches("delete", t)
  /\ SetStatus(t, "deleting")
  /\ Begin(p, "cancelRun", t, [NoLocal EXCEPT !.snap = gid[t], !.full = full])
  /\ UNCHANGED <<gid, final, aria2Vars, phase, workerVars>>

\* Start: deleteTask for a row that was left deleting.
RecoverDelete(t) ==
  /\ phase = "recovering" /\ hpc[Boot] = "idle"
  /\ status[t] = "deleting"
  /\ Begin(Boot, "cancelRun", t, [NoLocal EXCEPT !.snap = gid[t]])
  /\ UNCHANGED <<storeVars, aria2Vars, phase, workerVars>>

\* deleteTask returns an error and the row stays deleting; Start then fails and
\* the process exits.
Abort(p) ==
  /\ Answer(p)
  /\ phase' = IF p = Boot THEN "down" ELSE phase

\* Mutant of CancelTaskRun: the run is cancelled but not waited for.
CancelWithoutWait(p) ==
  LET w == taskRuns[htask[p]] IN
  /\ hpc[p] = "cancelRun"
  /\ cancelled' = [v \in Workers |-> cancelled[v] \/ v = w]
  /\ Step(p, "awaitRun")
  /\ UNCHANGED <<storeVars, aria2Vars, phase, queuedJobs, taskRuns, wpc, wtask, awaits, uploaded>>

\* cancelTaskRun up to <-run.done.
CancelTaskRun(p) ==
  LET w == taskRuns[htask[p]] IN
  /\ hpc[p] = "cancelRun"
  /\ IF w = None
       THEN UNCHANGED <<cancelled, awaits>>
       ELSE /\ cancelled' = [cancelled EXCEPT ![w] = TRUE]
            /\ awaits' = [awaits EXCEPT ![p] = IF wpc[w] = "unregister" THEN None ELSE w]
  /\ Step(p, "awaitRun")
  /\ UNCHANGED <<storeVars, aria2Vars, phase, queuedJobs, taskRuns, wpc, wtask, uploaded>>

\* The run is over; cancelAria2Task collects the downloads that followed.
FindFollowed(p) ==
  LET t == htask[p]  l == local[p] IN
  /\ hpc[p] = "awaitRun" /\ awaits[p] = None
  /\ \/ l.snap = "none" /\ Step(p, "removeDir") /\ UNCHANGED phase
     \/ /\ l.snap # "none"
        /\ StepWith(p, "removeAria2", [l EXCEPT !.todo = {l.snap} \cup Followed(t, l.snap)])
        /\ UNCHANGED phase
     \/ l.snap # "none" /\ "rpc" \in Faults /\ Abort(p)
  /\ UNCHANGED <<storeVars, aria2Vars, workerVars>>

\* One forceRemove; the followed download goes first.  A call that fails may
\* still have reached the daemon.
RemoveAria2(p) ==
  LET t == htask[p]  l == local[p]
      g == IF "child" \in l.todo THEN "child" ELSE "root"
      rest == l.todo \ {g} IN
  /\ hpc[p] = "removeAria2"
  /\ \/ /\ Remove(t, g)
        /\ StepWith(p, IF rest = {} THEN "removeDir" ELSE "removeAria2", [l EXCEPT !.todo = rest])
        /\ UNCHANGED phase
     \/ "rpc" \in Faults /\ Abort(p) /\ (Remove(t, g) \/ UNCHANGED <<dl, hooks>>)
  /\ UNCHANGED <<dir, storeVars, workerVars>>

RemoveDownloadIfPresent(p) ==
  LET t == htask[p] IN
  /\ hpc[p] = "removeDir"
  /\ \/ dir' = [dir EXCEPT ![t] = "absent"] /\ Step(p, "erase") /\ UNCHANGED phase
     \/ /\ "disk" \in Faults /\ dir[t] # "absent"
        /\ dir' \in {dir, [dir EXCEPT ![t] = "partial"]}
        /\ Abort(p)
  /\ UNCHANGED <<dl, hooks, storeVars, workerVars>>

\* Store.Delete; a row that is gone already counts as deleted.
EraseRow(p) ==
  LET t == htask[p] IN
  /\ hpc[p] = "erase"
  /\ \/ /\ SetStatus(t, "erased")
        /\ IF local[p].full THEN Begin(p, "recreate", None, NoLocal) ELSE Answer(p)
        /\ UNCHANGED phase
     \/ "store" \in Faults /\ Abort(p) /\ UNCHANGED status
  /\ UNCHANGED <<gid, final, aria2Vars, workerVars>>

-----------------------------------------------------------------------------
NewRequest(p) ==
  \E t \in Tasks :
    \/ CreateRow(p, t)
    \/ \E g \in Gids : Completed(p, t, g) \/ Stopped(p, t, g)
    \/ RetryUpload(p, t)
    \/ \E full \in BOOLEAN : Delete(p, t, full)

CreateStep(p) == CreateRefused(p) \/ AddDownload(p) \/ SaveGid(p) \/ SaveFailure(p)
HookStep(p) ==
  \/ Resolve(p) \/ RememberGID(p) \/ MarkNotReady(p) \/ MarkResolveError(p)
  \/ CommitPending(p) \/ Enqueue(p) \/ MarkStopped(p) \/ MarkRetry(p)
DeleteStep(p) ==
  \/ CancelTaskRun(p) \/ FindFollowed(p) \/ RemoveAria2(p)
  \/ RemoveDownloadIfPresent(p) \/ EraseRow(p)
=============================================================================
