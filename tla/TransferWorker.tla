--------------------------- MODULE TransferWorker ---------------------------
(***************************************************************************)
(* The worker goroutines of transfer.Service: runTransfer with the table   *)
(* of running tasks (taskRuns) through which deleteTask cancels a run and  *)
(* waits for its end.  A worker's steps are the store transactions, the    *)
(* provider call and the directory removal of runTransfer; between two of  *)
(* them any other goroutine may move.                                      *)
(*                                                                         *)
(* A check of shouldStopTransfer is one step with what it guards: every    *)
(* write after it refuses a task being deleted by itself, so a cancel that *)
(* lands between the two is the same as one that lands after both.         *)
(***************************************************************************)
EXTENDS Aria2

CONSTANTS Workers,   \* the goroutines Start launches
          Handlers,  \* the goroutines of HTTP requests served at the same time
          Boot,      \* the goroutine that runs Service.Start
          None       \* no run, no task

ASSUME BootAssumption == Boot \notin Handlers
ASSUME NoneAssumption == None \notin Tasks \cup Workers

\* The goroutines that call deleteTask.
Procs == Handlers \cup {Boot}

VARIABLES
  phase,       \* the process: "down", "recovering" (Start), "up", "draining"
  queuedJobs,  \* the job set workers take from
  taskRuns,    \* taskRuns[t]: the worker whose run is registered for t, or None
  wpc,         \* wpc[w]: the step of runTransfer worker w is at
  wtask,       \* wtask[w]: the task of that run
  cancelled,   \* cancelled[w]: whether the run's context was cancelled
  awaits,      \* awaits[p]: the run whose done channel p is blocked on, or None
  uploaded     \* uploaded[t]: history, all final files reached the destination

workerVars == <<queuedJobs, taskRuns, wpc, wtask, cancelled, awaits, uploaded>>

WorkerPcs == {"idle", "get", "register", "reread", "claim", "check", "upload",
              "cleanup", "complete", "fail", "close", "unregister"}
\* Between registerTaskRun and close(run.done).
RunPcs == {"reread", "claim", "check", "upload", "cleanup", "complete", "fail", "close"}

WorkerType ==
  /\ phase \in {"down", "recovering", "up", "draining"}
  /\ queuedJobs \subseteq Tasks
  /\ taskRuns \in [Tasks -> Workers \cup {None}]
  /\ wpc \in [Workers -> WorkerPcs]
  /\ wtask \in [Workers -> Tasks \cup {None}]
  /\ cancelled \in [Workers -> BOOLEAN]
  /\ awaits \in [Procs -> Workers \cup {None}]
  /\ uploaded \in [Tasks -> BOOLEAN]

WorkerInit ==
  /\ phase = "down"
  /\ queuedJobs = {}
  /\ taskRuns = [t \in Tasks |-> None]
  /\ wpc = [w \in Workers |-> "idle"]
  /\ wtask = [w \in Workers |-> None]
  /\ cancelled = [w \in Workers |-> FALSE]
  /\ awaits = [p \in Procs |-> None]
  /\ uploaded = [t \in Tasks |-> FALSE]

Goto(w, pc) == wpc' = [wpc EXCEPT ![w] = pc]

\* transferCtx.Err(): the run's context derives from the workers' context.
ContextDone(w) == cancelled[w] \/ phase # "up"

\* shouldStopTransfer answers true, also when it cannot read the row; the two
\* exclude each other unless SQLite can fail.
ShouldStopTransfer(w) == ContextDone(w) \/ Refused(wtask[w])
MayContinue(w) == ~ContextDone(w) /\ Writable(wtask[w])

\* What every step between the lookup and the end of a run leaves alone.
runFrame == <<gid, final, dl, hooks, phase, queuedJobs, taskRuns, wtask, cancelled, awaits>>

-----------------------------------------------------------------------------
Dequeue(w, t) ==
  /\ wpc[w] = "idle" /\ phase = "up"
  /\ t \in queuedJobs
  /\ queuedJobs' = queuedJobs \ {t}
  /\ wtask' = [wtask EXCEPT ![w] = t]
  /\ Goto(w, "get")
  /\ UNCHANGED <<phase, taskRuns, cancelled, awaits, uploaded, storeVars, aria2Vars>>

\* Mutant of DropJob: the early return is missing.
DropJobKeepsRunning(w) ==
  /\ wtask' = [wtask EXCEPT ![w] = None]
  /\ UNCHANGED wpc

\* runTransfer ends before it registered: the job is dropped.
DropJob(w) ==
  /\ wtask' = [wtask EXCEPT ![w] = None]
  /\ Goto(w, "idle")

GetTask(w) ==
  /\ wpc[w] = "get"
  /\ \/ Writable(wtask[w]) /\ Goto(w, "register") /\ UNCHANGED wtask
     \/ Refused(wtask[w]) /\ DropJob(w)
  /\ UNCHANGED <<phase, queuedJobs, taskRuns, cancelled, awaits, uploaded, storeVars, aria2Vars>>

\* Mutant of RegisterTaskRun: a registered run is overwritten.
RegisterOverRun(w) ==
  /\ wpc[w] = "register"
  /\ taskRuns' = [taskRuns EXCEPT ![wtask[w]] = w]
  /\ Goto(w, "reread")
  /\ UNCHANGED <<phase, queuedJobs, wtask, cancelled, awaits, uploaded, storeVars, aria2Vars>>

RegisterTaskRun(w) ==
  /\ wpc[w] = "register"
  /\ \/ /\ taskRuns[wtask[w]] = None
        /\ taskRuns' = [taskRuns EXCEPT ![wtask[w]] = w]
        /\ Goto(w, "reread")
        /\ UNCHANGED wtask
     \/ /\ taskRuns[wtask[w]] # None
        /\ DropJob(w)
        /\ UNCHANGED taskRuns
  /\ UNCHANGED <<phase, queuedJobs, cancelled, awaits, uploaded, storeVars, aria2Vars>>

\* The second Get, then the lookup of the destination and its provider.
Reread(w) ==
  /\ wpc[w] = "reread"
  /\ \/ Writable(wtask[w]) /\ Goto(w, "claim")
     \/ Writable(wtask[w]) /\ "destination" \in Faults /\ Goto(w, "fail")
     \/ Refused(wtask[w]) /\ Goto(w, "close")
  /\ UNCHANGED <<status, dir, uploaded, runFrame>>

Claim(w) ==
  /\ wpc[w] = "claim"
  /\ \/ /\ Writable(wtask[w])
        /\ SetStatus(wtask[w], "transferring")
        /\ Goto(w, "check")
     \/ Refused(wtask[w]) /\ Goto(w, "close") /\ UNCHANGED status
  /\ UNCHANGED <<dir, uploaded, runFrame>>

\* The stop check and cleanupDownloadMetadata, whose walk fails when the
\* directory is gone.
CleanupMetadata(w) ==
  /\ wpc[w] = "check"
  /\ \/ ShouldStopTransfer(w) /\ Goto(w, "close")
     \/ /\ MayContinue(w)
        /\ dir[wtask[w]] # "absent"
        /\ Goto(w, "upload")
     \/ /\ MayContinue(w)
        /\ dir[wtask[w]] = "absent" \/ "disk" \in Faults
        /\ Goto(w, "fail")
  /\ UNCHANGED <<status, dir, uploaded, runFrame>>

\* provider.Transfer returns nil, then the stop check.
UploadSucceeds(w) ==
  LET t == wtask[w] IN
  /\ wpc[w] = "upload"
  /\ dir[t] # "absent"
  /\ uploaded' = [uploaded EXCEPT ![t] = @ \/ dir[t] = "complete"]
  /\ \/ ShouldStopTransfer(w) /\ Goto(w, "close")
     \/ MayContinue(w) /\ t \in CleanupTasks /\ Goto(w, "cleanup")
     \/ MayContinue(w) /\ t \notin CleanupTasks /\ Goto(w, "complete")
  /\ UNCHANGED <<status, dir, runFrame>>

\* provider.Transfer returns an error.
UploadFails(w) ==
  /\ wpc[w] = "upload"
  /\ Goto(w, "fail")
  /\ UNCHANGED <<status, dir, uploaded, runFrame>>

RemoveUploaded(w) ==
  LET t == wtask[w] IN
  /\ wpc[w] = "cleanup"
  /\ \/ dir' = [dir EXCEPT ![t] = "absent"] /\ Goto(w, "complete")
     \/ /\ "disk" \in Faults /\ dir[t] # "absent"
        /\ dir' \in {dir, [dir EXCEPT ![t] = "partial"]}
        /\ Goto(w, "fail")
  /\ UNCHANGED <<status, uploaded, runFrame>>

\* The last stop check and markCompleted, which gives up after three failed
\* transactions and leaves the task transferring.
MarkCompleted(w) ==
  /\ wpc[w] = "complete"
  /\ \/ MayContinue(w) /\ SetStatus(wtask[w], "completed")
     \/ ShouldStopTransfer(w) /\ UNCHANGED status
  /\ Goto(w, "close")
  /\ UNCHANGED <<dir, uploaded, runFrame>>

\* Mutant of MarkFailed: a failed run takes the directory with it.
MarkFailedAndClean(w) ==
  /\ wpc[w] = "fail"
  /\ \/ /\ MayContinue(w)
        /\ SetStatus(wtask[w], "failed") /\ dir' = [dir EXCEPT ![wtask[w]] = "absent"]
     \/ ShouldStopTransfer(w) /\ UNCHANGED <<status, dir>>
  /\ Goto(w, "close")
  /\ UNCHANGED <<uploaded, runFrame>>

\* Every error path: the stop check, then markFailed.
MarkFailed(w) ==
  /\ wpc[w] = "fail"
  /\ \/ MayContinue(w) /\ SetStatus(wtask[w], "failed")
     \/ ShouldStopTransfer(w) /\ UNCHANGED status
  /\ Goto(w, "close")
  /\ UNCHANGED <<dir, uploaded, runFrame>>

\* Mutant of CloseRun: done is never closed.
CloseNothing(w) ==
  /\ wpc[w] = "close"
  /\ Goto(w, "unregister")
  /\ UNCHANGED <<phase, queuedJobs, taskRuns, wtask, cancelled, awaits, uploaded, storeVars, aria2Vars>>

\* close(run.done) wakes every deleteTask that waits for this run.
CloseRun(w) ==
  /\ wpc[w] = "close"
  /\ Goto(w, "unregister")
  /\ awaits' = [p \in Procs |-> IF awaits[p] = w THEN None ELSE awaits[p]]
  /\ UNCHANGED <<phase, queuedJobs, taskRuns, wtask, cancelled, uploaded, storeVars, aria2Vars>>

UnregisterTaskRun(w) ==
  /\ wpc[w] = "unregister"
  /\ taskRuns' = [taskRuns EXCEPT ![wtask[w]] = None]
  /\ wtask' = [wtask EXCEPT ![w] = None]
  /\ cancelled' = [cancelled EXCEPT ![w] = FALSE]
  /\ Goto(w, "idle")
  /\ UNCHANGED <<phase, queuedJobs, awaits, uploaded, storeVars, aria2Vars>>

UploadEnds(w) == UploadSucceeds(w) \/ UploadFails(w)

\* Every step of a run but the provider's own work.
RunStep(w) ==
  \/ GetTask(w) \/ RegisterTaskRun(w) \/ Reread(w) \/ Claim(w)
  \/ CleanupMetadata(w) \/ RemoveUploaded(w) \/ MarkCompleted(w) \/ MarkFailed(w)
  \/ CloseRun(w) \/ UnregisterTaskRun(w)

WorkerStep(w) ==
  \/ \E t \in Tasks : Dequeue(w, t)
  \/ RunStep(w)
  \/ UploadEnds(w)
=============================================================================
