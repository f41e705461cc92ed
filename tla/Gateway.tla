------------------------------- MODULE Gateway -------------------------------
(***************************************************************************)
(* The gateway process: cmd/gateway/main.go starts the transfer service,   *)
(* serves requests, drains and exits, may be killed at any step and is     *)
(* started again on the same database and download directory.  This module *)
(* composes the HTTP handlers, the workers, the tasks table and the aria2  *)
(* daemon and states what the whole promises.                              *)
(***************************************************************************)
EXTENDS TaskRequests

vars == <<storeVars, aria2Vars, phase, workerVars, handlerVars>>

\* A goroutine past its first step holds a task.
TaskKnown ==
  /\ \A w \in Workers : wpc[w] # "idle" => wtask[w] \in Tasks
  /\ \A p \in Procs : hpc[p] \notin {"idle", "recreate"} => htask[p] \in Tasks

\* Rows, downloads, job set, table of runs and every goroutine's step are typed.
TypeOK == StoreType /\ Aria2Type /\ WorkerType /\ RequestType /\ TaskKnown

Init == StoreInit /\ Aria2Init /\ WorkerInit /\ RequestInit

-----------------------------------------------------------------------------
StartService ==
  /\ phase = "down"
  /\ phase' = "recovering"
  /\ UNCHANGED <<storeVars, aria2Vars, workerVars, handlerVars>>

\* Mutant of ServiceStarted: transfers a previous process began are not resumed.
StartedWithoutRunning ==
  /\ phase = "recovering" /\ hpc[Boot] = "idle"
  /\ \A t \in Tasks : status[t] # "deleting"
  /\ phase' = "up"
  /\ queuedJobs' = {t \in Tasks : status[t] = "transfer_pending"}
  /\ UNCHANGED <<storeVars, aria2Vars, handlerVars, taskRuns, wpc, wtask, cancelled, awaits, uploaded>>

\* Mutant of ServiceStarted: Start goes on although rows are left deleting.
StartedWithDeletes ==
  /\ phase = "recovering" /\ hpc[Boot] = "idle"
  /\ phase' = "up"
  /\ queuedJobs' = PendingTransfers
  /\ UNCHANGED <<storeVars, aria2Vars, handlerVars, taskRuns, wpc, wtask, cancelled, awaits, uploaded>>

\* Start once no row is deleting: it queues what PendingTransfers lists, the
\* workers run and the server listens.
ServiceStarted ==
  /\ phase = "recovering" /\ hpc[Boot] = "idle"
  /\ \A t \in Tasks : status[t] # "deleting"
  /\ phase' = "up"
  /\ queuedJobs' = PendingTransfers
  /\ UNCHANGED <<storeVars, aria2Vars, handlerVars, taskRuns, wpc, wtask, cancelled, awaits, uploaded>>

\* SIGTERM: no new requests, and the context of every run is cancelled.
Shutdown ==
  /\ phase = "up"
  /\ phase' = "draining"
  /\ UNCHANGED <<storeVars, aria2Vars, workerVars, handlerVars>>

\* The memory of the process is gone.
LoseMemory ==
  /\ phase' = "down"
  /\ queuedJobs' = {}
  /\ taskRuns' = [t \in Tasks |-> None]
  /\ wpc' = [w \in Workers |-> "idle"]
  /\ wtask' = [w \in Workers |-> None]
  /\ cancelled' = [w \in Workers |-> FALSE]
  /\ awaits' = [p \in Procs |-> None]
  /\ hpc' = [p \in Procs |-> "idle"]
  /\ htask' = [p \in Procs |-> None]
  /\ local' = [p \in Procs |-> NoLocal]
  /\ UNCHANGED <<storeVars, aria2Vars, uploaded>>

\* Wait has seen every worker return; requests that outlive the ten seconds
\* Shutdown waits for them end with the process.
Exit ==
  /\ phase = "draining"
  /\ "abandon" \in Faults \/ \A p \in Procs : hpc[p] = "idle"
  /\ \A w \in Workers : wpc[w] = "idle"
  /\ LoseMemory

Crash ==
  /\ "crash" \in Faults
  /\ phase # "down"
  /\ LoseMemory

\* Start fails when it cannot list the rows, and main exits.  (A SIGTERM that
\* ends the context of Start's deleteTask calls is a Crash in this phase.)
StartFails ==
  /\ phase = "recovering" /\ hpc[Boot] = "idle"
  /\ "store" \in Faults
  /\ LoseMemory

ProcStep(p) == CreateStep(p) \/ HookStep(p) \/ DeleteStep(p)

GatewayStep ==
  \/ \E p \in Procs : NewRequest(p) \/ ProcStep(p)
  \/ \E t \in Tasks : RecoverDelete(t)
  \/ \E w \in Workers : WorkerStep(w) /\ UNCHANGED handlerVars
  \/ StartService \/ StartFails \/ ServiceStarted \/ Shutdown \/ Exit \/ Crash

Aria2Step == Aria2Next /\ UNCHANGED <<phase, workerVars, handlerVars>>

Next == GatewayStep \/ Aria2Step

Spec == Init /\ [][Next]_vars

\* Goroutines are scheduled, aria2 and SQLite answer, and a supervisor starts
\* the process again.  A provider call ends at the latest when its context is
\* cancelled: rclone is killed and the HTTP requests carry the context.
Fairness ==
  /\ \A w \in Workers :
       /\ WF_vars(RunStep(w) /\ UNCHANGED handlerVars)
       /\ WF_vars((\E t \in Tasks : Dequeue(w, t)) /\ UNCHANGED handlerVars)
       /\ WF_vars(ContextDone(w) /\ UploadFails(w) /\ UNCHANGED handlerVars)
  /\ \A p \in Procs : WF_vars(ProcStep(p))
  /\ WF_vars(\E t \in Tasks : RecoverDelete(t))
  /\ WF_vars(StartService) /\ WF_vars(ServiceStarted) /\ WF_vars(Exit)

FairSpec == Spec /\ Fairness

\* Provider calls also end by themselves.
UploadsEnd == \A w \in Workers : WF_vars(UploadEnds(w) /\ UNCHANGED handlerVars)

-----------------------------------------------------------------------------
Touching == {"check", "upload", "cleanup", "complete"}
Removing == {"removeAria2", "removeDir", "erase"}

\* A run of a task and the removal of its downloads, directory and row never
\* overlap: deleteTask marks the row, cancels the run and waits for its end; a
\* worker registers its run and then claims only a row that is not marked.
NoTransferDuringDelete ==
  \A p \in Procs, w \in Workers :
    hpc[p] \in Removing /\ wtask[w] = htask[p] => wpc[w] \notin Touching

\* At most one worker transfers a task.
OneRunPerTask ==
  \A v, w \in Workers :
    v # w /\ wpc[v] \in RunPcs /\ wpc[w] \in RunPcs => wtask[v] # wtask[w]

\* The files of a task that still has a row are on disk or at the destination:
\* only a finished upload or a Delete removes the directory.
FilesKept ==
  \A t \in Tasks :
    Writable(t) /\ dir[t] = "absent" => uploaded[t]

\* A completed task has all its files at the destination.
CompletedMeansUploaded ==
  \A t \in Tasks : status[t] = "completed" => uploaded[t]

\* A task a worker can be given has FinalFiles, so runTransfer never resolves
\* them itself.
JobsHaveFiles ==
  \A t \in Tasks :
    t \in queuedJobs \cup PendingTransfers \cup {wtask[w] : w \in Workers \ {v \in Workers : wpc[v] = "idle"}}
      => final[t]

\* A row being deleted is only ever erased.
DeletingIsFinal ==
  [][\A t \in Tasks : status[t] = "deleting" => status'[t] \in {"deleting", "erased"}]_vars

InTable(w) == wpc[w] \in RunPcs \cup {"unregister"}

\* taskRuns holds exactly the runs between their registration and its removal.
RunsRegistered ==
  /\ \A w \in Workers : InTable(w) => taskRuns[wtask[w]] = w
  /\ \A t \in Tasks : taskRuns[t] # None => InTable(taskRuns[t]) /\ wtask[taskRuns[t]] = t

\* Who waits for a run waits for one of its own task that has not closed yet.
WaitsForRun ==
  \A p \in Procs :
    awaits[p] # None =>
      /\ hpc[p] = "awaitRun"
      /\ taskRuns[htask[p]] = awaits[p]
      /\ wpc[awaits[p]] \in RunPcs

\* A row in the hands of deleteTask is deleting or gone.
DeletingRows ==
  \A p \in Procs : hpc[p] \in DeletePcs => status[htask[p]] \in {"deleting", "erased"}

\* A row in the hands of Create is there and nobody deletes it.
CreatingRows ==
  \A p \in Procs : hpc[p] \in CreatePcs => Writable(htask[p])

\* Once deleteTask has cancelled and waited, no run touches the task's files.
PastCancel(p) == hpc[p] \in Removing \/ (hpc[p] = "awaitRun" /\ awaits[p] = None)
ClearOfRuns ==
  \A p \in Procs, w \in Workers :
    PastCancel(p) /\ wtask[w] = htask[p] => wpc[w] \notin Touching

\* deleteTask, Create and the runs agree on who holds a row: the strengthening
\* of NoTransferDuringDelete, OneRunPerTask and DeletingIsFinal that every step
\* keeps.
SafetyInv == RunsRegistered /\ WaitsForRun /\ DeletingRows /\ CreatingRows /\ ClearOfRuns

\* The files of a task are complete on disk, or have been at the destination.
FilesSafe(t) == uploaded[t] \/ dir[t] = "complete"

\* Somebody works on a task, or will.
Held(t) ==
  \/ t \in queuedJobs
  \/ \E w \in Workers : wpc[w] # "idle" /\ wtask[w] = t
  \/ \E p \in Procs : hpc[p] \notin {"idle", "recreate"} /\ htask[p] = t

\* A worker transfers the task or will, or a retry is about to make it pending.
Wanted(t) ==
  \/ t \in queuedJobs \cup PendingTransfers
  \/ \E w \in Workers : wpc[w] # "idle" /\ wtask[w] = t
  \/ \E p \in Procs : hpc[p] \in {"enqueue", "retryUpload"} /\ htask[p] = t

\* A hook is about to store the final files.
Resolved(t) == \E p \in Procs : hpc[p] = "commit" /\ htask[p] = t

\* A worker goes by an upload that succeeded.
Sent(t) == \E w \in Workers : wpc[w] \in {"cleanup", "complete"} /\ wtask[w] = t

\* What every step keeps of a task's row, files and holders, as long as nobody
\* takes its row back out of deleting: the strengthening of FilesKept,
\* CompletedMeansUploaded and JobsHaveFiles.
FilesFit(t) ==
  /\ status[t] = "new" => ~final[t] /\ ~Held(t) /\ \A g \in Gids : dl[<<t, g>>] = "none"
  /\ Wanted(t) => final[t]
  /\ status[t] = "completed" => uploaded[t]
  /\ Writable(t) =>
       /\ dir[t] = "absent" => uploaded[t]
       /\ final[t] \/ Resolved(t) => FilesSafe(t)
       /\ Sent(t) => uploaded[t]
  /\ \A w \in Workers : wtask[w] = t /\ wpc[w] \in Touching => HasRow(t)
FilesInv == \A t \in Tasks : FilesFit(t)

\* A pending task of a running service is queued, about to be queued, or in the
\* hands of a worker that will still set its status.
Owned(t) ==
  \/ t \in queuedJobs
  \/ \E p \in Procs : hpc[p] = "enqueue" /\ htask[p] = t
  \/ \E w \in Workers : wtask[w] = t /\ wpc[w] \in WorkerPcs \ {"idle", "close", "unregister"}
PendingIsOwned ==
  phase = "up" => \A t \in PendingTransfers : Owned(t)

\* The download Create added for a task does not run on when the task is erased.
\* (A child that aria2 starts between the calls of cancelAria2Task may.)
EraseStopsDownloads ==
  \A t \in Tasks : status[t] = "erased" => dl[<<t, "root">>] # "active"

RowOf(s) == CASE s = "new" -> "none"
              [] s = "deleting" -> "closing"
              [] s = "erased" -> "gone"
              [] OTHER -> "open"

\* What the rows, directories and uploads of the gateway are to a client.
Contract == INSTANCE TaskContract WITH
  row <- [t \in Tasks |-> RowOf(status[t])],
  local <- [t \in Tasks |-> dir[t] # "absent"],
  delivered <- uploaded,
  done <- [t \in Tasks |-> status[t] = "completed"]

\* Through hooks, retries, deletes, faults and restarts every task lives the
\* life TaskContract describes.
ImplementsContract == Contract!Spec

\* A completed task does not go back to downloading.
CompletedStaysDownloaded ==
  [][\A t \in Tasks : status[t] = "completed" => status'[t] # "downloading"]_vars

\* A delete that was accepted ends: the upload it interrupts ends first, and when
\* the process exits before deleteTask is done, the next Start goes on with it.
DeleteCompletes == \A t \in Tasks : status[t] = "deleting" ~> status[t] = "erased"

\* While the service stays up and uploads end, a pending task is uploaded, fails
\* or is deleted.
PendingSettles ==
  UploadsEnd /\ <>[](phase = "up") =>
    \A t \in Tasks :
      status[t] = "transfer_pending" ~> status[t] \in {"completed", "failed", "deleting", "erased"}
=============================================================================
