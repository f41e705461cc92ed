----------------------------- MODULE GatewayFiles -----------------------------
(***************************************************************************)
(* No file is lost, completed means uploaded, and every task lives the     *)
(* life TaskContract describes: proved for every set of tasks, workers and *)
(* handlers and every combination of faults, when clients delete only      *)
(* tasks whose Create has answered.                                        *)
(***************************************************************************)
EXTENDS GatewaySafety

AllInv == Inv /\ FilesInv

USE DEF AllInv, Inv

\* What a step may do to the files of a task and to who holds it.
FileStep(t) ==
  /\ uploaded[t] => uploaded'[t]
  /\ final[t] => final'[t]
  /\ final'[t] => final[t] \/ (FilesSafe(t)' /\ status'[t] # "new")
  /\ dir'[t] = dir[t] \/ dir'[t] = "complete" \/ uploaded'[t] \/ ~Writable(t)' \/ status[t] = "new"
  /\ status[t] = "new" /\ Writable(t)' => dir'[t] # "absent"
  /\ status'[t] = "completed" => status[t] = "completed" \/ uploaded'[t]
  /\ Held(t)' => Held(t) \/ status'[t] # "new"
  /\ \A g \in Gids : dl'[<<t, g>>] # dl[<<t, g>>] => status'[t] # "new"
  /\ Wanted(t)' => Wanted(t) \/ final'[t]
  /\ Resolved(t)' => Resolved(t) \/ FilesSafe(t)'
  /\ Sent(t)' => Sent(t) \/ uploaded'[t] \/ ~Writable(t)'
  /\ \A w \in Workers : wtask'[w] = t /\ wpc'[w] \in Touching => HasRow(t)'

\* In the initial state there are no rows, files or holders.
LEMMA FilesInit == Init => AllInv
  <1>. SUFFICES ASSUME Init, NEW t \in Tasks PROVE FilesFit(t)
    BY SafetyInit DEF FilesInv
  <1>. QED
    BY DEF Init, StoreInit, Aria2Init, Gids, WorkerInit, RequestInit, FilesFit, Held, Wanted, Resolved, Sent, Writable,
       HasRow, Statuses, PendingTransfers, Touching

\* Such a step keeps the invariant.
LEMMA FilesKeep ==
  ASSUME AllInv, NEW t \in Tasks, RowStep(t), FileStep(t)
  PROVE  FilesFit(t)'
  <1>1. FilesFit(t)
    BY DEF FilesInv
  <1>2. status'[t] = "new" => status[t] = "new"
    BY DEF RowStep, Writable, HasRow, Statuses
  <1>3. Writable(t)' => Writable(t) \/ status[t] = "new"
    BY DEF RowStep, Writable, HasRow, Statuses
  <1>4. status[t] = "new" => ~Resolved(t) /\ ~Sent(t)
    BY <1>1 DEF FilesFit, Held, Resolved, Sent
  <1>5. Wanted(t)' => final'[t]
    BY <1>1 DEF FilesFit, FileStep
  <1>6. status'[t] = "new" => ~final'[t] /\ ~Held(t)' /\ \A g \in Gids : dl'[<<t, g>>] = "none"
    BY <1>1, <1>2 DEF FilesFit, FileStep
  <1>7. Writable(t)' =>
          /\ dir'[t] = "absent" => uploaded'[t]
          /\ final'[t] \/ Resolved(t)' => FilesSafe(t)'
          /\ Sent(t)' => uploaded'[t]
    BY <1>1, <1>3, <1>4 DEF FilesFit, FileStep, FilesSafe, Writable, HasRow, Statuses
  <1>. QED
    BY <1>1, <1>5, <1>6, <1>7 DEF FilesFit, FileStep

-----------------------------------------------------------------------------
(* The steps of a worker. *)

\* What a worker's step does: it holds its own task or one from the queue; it
\* removes a directory or reports completion only past its upload; and it gets
\* past its upload only when that has delivered what was there.
WorkerEffect(w) ==
  /\ UNCHANGED <<final, dl, hpc, htask>>
  /\ UNCHANGED <<status, dir>> \/ UNCHANGED <<status, uploaded>> \/ UNCHANGED <<dir, uploaded>>
  /\ \A v \in Workers \ {w} : wpc'[v] = wpc[v] /\ wtask'[v] = wtask[v]
  /\ queuedJobs' \subseteq queuedJobs
  /\ wpc'[w] # "idle" =>
       (wpc[w] = "idle" /\ wtask'[w] \in queuedJobs) \/ (wpc[w] # "idle" /\ wtask'[w] = wtask[w])
  /\ \A t \in Tasks :
       /\ uploaded[t] => uploaded'[t]
       /\ uploaded'[t] # uploaded[t] => wpc[w] = "upload" /\ t = wtask[w] /\ dir[t] # "absent"
       /\ dir'[t] # dir[t] => wpc[w] = "cleanup" /\ t = wtask[w]
       /\ status'[t] # status[t] =>
            /\ t = wtask[w] /\ wpc[w] \in RunPcs /\ Writable(t)
            /\ \/ status'[t] \in {"transferring", "failed"}
               \/ status'[t] = "completed" /\ wpc[w] = "complete"
  /\ wpc'[w] \in {"cleanup", "complete"} =>
       \/ wpc[w] \in {"cleanup", "complete"}
       \/ wpc[w] = "upload" /\ (dir[wtask[w]] = "complete" => uploaded'[wtask[w]])
  /\ wpc'[w] \in Touching => wpc[w] \in Touching \/ (wpc[w] = "claim" /\ Writable(wtask[w]))

\* Every step of a worker is of that kind.
LEMMA WorkerEffects ==
  ASSUME AllInv, NEW w \in Workers, WorkerStep(w), UNCHANGED handlerVars
  PROVE  WorkerEffect(w)
  <1>. USE DEF WorkerEffect, TypeOK, WorkerType, StoreType, Aria2Type, handlerVars, storeVars, aria2Vars,
           runFrame, Goto, Touching, RunPcs
  <1>0. wpc[w] # "idle" => wtask[w] \in Tasks
    BY DEF TaskKnown
  <1>1. ASSUME NEW t \in Tasks, Dequeue(w, t) PROVE WorkerEffect(w)
    BY <1>1 DEF Dequeue
  <1>2. CASE GetTask(w)
    BY <1>2 DEF GetTask, DropJob
  <1>3. CASE RegisterTaskRun(w)
    BY <1>3 DEF RegisterTaskRun, DropJob
  <1>4. CASE Reread(w)
    BY <1>4 DEF Reread
  <1>5. CASE Claim(w)
    BY <1>0, <1>5 DEF Claim, SetStatus
  <1>6. CASE CleanupMetadata(w)
    BY <1>6 DEF CleanupMetadata
  <1>7. CASE UploadSucceeds(w)
    BY <1>0, <1>7 DEF UploadSucceeds
  <1>8. CASE UploadFails(w)
    BY <1>8 DEF UploadFails
  <1>9. CASE RemoveUploaded(w)
    BY <1>0, <1>9 DEF RemoveUploaded
  <1>10. CASE MarkCompleted(w)
    BY <1>0, <1>10 DEF MarkCompleted, MayContinue, SetStatus
  <1>11. CASE MarkFailed(w)
    BY <1>0, <1>11 DEF MarkFailed, MayContinue, SetStatus
  <1>12. CASE CloseRun(w)
    BY <1>12 DEF CloseRun
  <1>13. CASE UnregisterTaskRun(w)
    BY <1>13 DEF UnregisterTaskRun
  <1>. QED
    BY ONLY WorkerStep(w), <1>1, <1>2, <1>3, <1>4, <1>5, <1>6, <1>7, <1>8, <1>9, <1>10, <1>11, <1>12, <1>13
       DEF WorkerStep, RunStep, UploadEnds

\* So it does to every task's files what a step may do.
LEMMA WorkerFiles ==
  ASSUME AllInv, NEW w \in Workers, WorkerStep(w), UNCHANGED handlerVars, NEW t \in Tasks
  PROVE  FileStep(t)
  <1>. USE DEF Writable, HasRow, Statuses, Touching
  <1>1. WorkerEffect(w)
    BY WorkerEffects
  <1>2. /\ \A u \in Tasks : FilesFit(u)
        /\ wpc[w] # "idle" => wtask[w] \in Tasks
    BY DEF FilesInv, TypeOK, TaskKnown
  <1>3. Held(t)' => Held(t)
    BY <1>1 DEF WorkerEffect, Held
  <1>4. Resolved(t)' => Resolved(t)
    BY <1>1 DEF WorkerEffect, Resolved
  <1>5. Wanted(t)' => Wanted(t)
    BY <1>1 DEF WorkerEffect, Wanted, PendingTransfers, RunPcs
  <1>6. wpc[w] \in {"cleanup", "complete"} /\ Writable(wtask[w]) => uploaded[wtask[w]]
    BY <1>2 DEF FilesFit, Sent
  <1>7. wpc[w] = "upload" /\ Writable(wtask[w]) => uploaded[wtask[w]] \/ dir[wtask[w]] = "complete"
    <2>1. wpc[w] # "idle" => final[wtask[w]]
      BY <1>2 DEF FilesFit, Wanted
    <2>. QED
      BY <1>2, <2>1 DEF FilesFit, FilesSafe
  <1>8. wpc[w] # "idle" => status[wtask[w]] # "new"
    BY <1>2 DEF FilesFit, Held
  <1>9. Writable(t)' => Writable(t)
    BY <1>1 DEF WorkerEffect
  <1>10. Sent(t)' => Sent(t) \/ uploaded'[t] \/ ~Writable(t)'
    BY <1>1, <1>2, <1>7, <1>9 DEF WorkerEffect, Sent
  <1>11. \A v \in Workers : wtask'[v] = t /\ wpc'[v] \in Touching => HasRow(t)'
    BY <1>1, <1>2 DEF WorkerEffect, FilesFit
  <1>12. /\ dir'[t] = dir[t] \/ uploaded'[t] \/ ~Writable(t)'
         /\ status'[t] = "completed" => status[t] = "completed" \/ uploaded'[t]
    BY <1>1, <1>6, <1>9 DEF WorkerEffect
  <1>13. /\ uploaded[t] => uploaded'[t]
         /\ final'[t] = final[t] /\ dl' = dl
         /\ ~(status[t] = "new" /\ Writable(t)')
    BY <1>1, <1>9 DEF WorkerEffect
  <1>. QED
    BY <1>3, <1>4, <1>5, <1>10, <1>11, <1>12, <1>13 DEF FileStep

-----------------------------------------------------------------------------
(* The steps of a request. *)

\* What a step of request p does: it takes up tasks that have a row, retries and
\* queues those with final files, stores final files where it found them all,
\* and removes directories under rows that nobody may write.
RequestEffect(p) ==
  /\ UNCHANGED <<wpc, wtask, uploaded>>
  /\ \A q \in Procs \ {p} : hpc'[q] = hpc[q] /\ htask'[q] = htask[q]
  /\ queuedJobs' # queuedJobs => hpc[p] = "enqueue" /\ queuedJobs' = queuedJobs \cup {htask[p]}
  /\ hpc'[p] \notin {"idle", "recreate"} =>
       (hpc[p] \notin {"idle", "recreate"} /\ htask'[p] = htask[p]) \/ status'[htask'[p]] # "new"
  /\ hpc'[p] \in {"enqueue", "retryUpload"} =>
       (hpc[p] = "retryUpload" /\ htask'[p] = htask[p]) \/ final'[htask'[p]]
  /\ hpc'[p] = "commit" => dir'[htask'[p]] = "complete"
  /\ \A t \in Tasks :
       /\ final'[t] # final[t] =>
            /\ final'[t] /\ t = htask[p] /\ hpc[p] = "commit"
            /\ Writable(t) /\ status'[t] # "new" /\ dir'[t] = dir[t]
       /\ dir'[t] # dir[t] => ~Writable(t)' \/ status[t] = "new"
       /\ status[t] = "new" /\ Writable(t)' => dir'[t] # "absent"
       /\ status'[t] = "completed" => status[t] = "completed"
       /\ t \in PendingTransfers' =>
            t \in PendingTransfers \/ final'[t] \/ (hpc[p] = "retryUpload" /\ htask[p] = t)
       /\ HasRow(t) => HasRow(t)' \/ (hpc[p] = "erase" /\ t = htask[p])
       /\ \A g \in Gids : dl'[<<t, g>>] # dl[<<t, g>>] => status'[t] # "new"

\* A task in the hands of a request has a row, or had one.
LEMMA HeldNotNew ==
  ASSUME AllInv, NEW p \in Procs, hpc[p] \notin {"idle", "recreate"}
  PROVE  htask[p] \in Tasks /\ status[htask[p]] # "new"
  BY DEF FilesInv, FilesFit, Held, TypeOK, TaskKnown

\* The requests the server accepts.
LEMMA NewRequestEffect ==
  ASSUME AllInv, NEW p \in Procs, NewRequest(p)
  PROVE  RequestEffect(p)
  <1>. USE DEF RequestEffect, TypeOK, StoreType, Aria2Type, storeVars, aria2Vars, workerVars,
           Writable, HasRow, Statuses, PendingTransfers, SetStatus
  <1>1. ASSUME NEW t \in Tasks, CreateRow(p, t) PROVE RequestEffect(p)
    <2>1. /\ hpc'[p] = "add" /\ htask'[p] = t
          /\ \A q \in Procs \ {p} : hpc'[q] = hpc[q] /\ htask'[q] = htask[q]
      BY <1>1, Moved DEF CreateRow
    <2>. QED
      BY <1>1, <2>1 DEF CreateRow
  <1>2. ASSUME NEW t \in Tasks, NEW g \in Gids, Completed(p, t, g) \/ Stopped(p, t, g)
        PROVE  RequestEffect(p)
    <2>1. /\ hpc'[p] \in {"resolve", "stopped"} /\ htask'[p] = t
          /\ \A q \in Procs \ {p} : hpc'[q] = hpc[q] /\ htask'[q] = htask[q]
      BY <1>2, Moved DEF Completed, Stopped
    <2>. QED
      BY <1>2, <2>1 DEF Completed, Stopped
  <1>3. ASSUME NEW t \in Tasks, RetryUpload(p, t) PROVE RequestEffect(p)
    <2>1. /\ hpc'[p] = "retryUpload" /\ htask'[p] = t
          /\ \A q \in Procs \ {p} : hpc'[q] = hpc[q] /\ htask'[q] = htask[q]
      BY <1>3, Moved DEF RetryUpload
    <2>. QED
      BY <1>3, <2>1 DEF RetryUpload
  <1>4. ASSUME NEW t \in Tasks, NEW full \in BOOLEAN, Delete(p, t, full) PROVE RequestEffect(p)
    <2>1. /\ hpc'[p] = "cancelRun" /\ htask'[p] = t
          /\ \A q \in Procs \ {p} : hpc'[q] = hpc[q] /\ htask'[q] = htask[q]
      BY <1>4, Moved DEF Delete
    <2>. QED
      BY <1>4, <2>1 DEF Delete
  <1>. QED
    BY <1>1, <1>2, <1>3, <1>4 DEF NewRequest

\* The steps of Create.
LEMMA CreateEffect ==
  ASSUME AllInv, NEW p \in Procs, CreateStep(p)
  PROVE  RequestEffect(p)
  <1>. USE DEF RequestEffect, TypeOK, StoreType, Aria2Type, storeVars, aria2Vars, workerVars,
           Writable, HasRow, Statuses, PendingTransfers, SetStatus
  <1>1. CASE CreateRefused(p)
    BY <1>1, Answered DEF CreateRefused
  <1>2. CASE AddDownload(p)
    <2>1. /\ hpc'[p] \in {"saveGid", "saveFailure"} /\ htask' = htask
          /\ \A q \in Procs \ {p} : hpc'[q] = hpc[q]
      BY <1>2, Stepped DEF AddDownload
    <2>. QED
      BY <1>2, <2>1, HeldNotNew DEF AddDownload
  <1>3. CASE SaveGid(p)
    BY <1>3, Answered, HeldNotNew DEF SaveGid
  <1>4. CASE SaveFailure(p)
    BY <1>4, Answered, HeldNotNew DEF SaveFailure
  <1>. QED
    BY <1>1, <1>2, <1>3, <1>4 DEF CreateStep

\* resolveFinalFiles is ready only when every file is there.
LEMMA ReadyIsComplete ==
  ASSUME NEW t, NEW g, NEW r \in ResolveFinalFiles(t, g), r[1] = "ready"
  PROVE  dir[t] = "complete"
  BY DEF ResolveFinalFiles

\* The steps of the hooks and of a retry.
LEMMA HookEffect ==
  ASSUME AllInv, NEW p \in Procs, HookStep(p)
  PROVE  RequestEffect(p)
  <1>. USE DEF RequestEffect, TypeOK, StoreType, Aria2Type, WorkerType, storeVars, aria2Vars, workerVars,
           Writable, HasRow, Statuses, PendingTransfers, SetStatus
  <1>0. hpc[p] \notin {"idle", "recreate"} => htask[p] \in Tasks /\ status[htask[p]] # "new"
    BY HeldNotNew
  <1>1. CASE Resolve(p)
    <2>1. /\ hpc'[p] \in {"commit", "notReady", "rememberNotReady", "error", "rememberError"}
          /\ htask' = htask /\ \A q \in Procs \ {p} : hpc'[q] = hpc[q]
      BY <1>1, Stepped DEF Resolve
    <2>2. hpc'[p] = "commit" => dir[htask[p]] = "complete"
      <3>1. PICK r \in ResolveFinalFiles(htask[p], local[p].gid) :
              \E l : StepWith(p, IF r[1] = "ready" THEN "commit"
                                 ELSE IF r[1] = "notReady"
                                   THEN IF r[2] = local[p].snap THEN "notReady" ELSE "rememberNotReady"
                                   ELSE IF r[2] = local[p].snap THEN "error" ELSE "rememberError", l)
        BY <1>1 DEF Resolve
      <3>2. hpc'[p] = "commit" => r[1] = "ready"
        BY <3>1 DEF StepWith, RequestType
      <3>. QED
        BY <3>2, ReadyIsComplete
    <2>. QED
      BY <1>0, <1>1, <2>1, <2>2 DEF Resolve
  <1>2. CASE RememberGID(p)
    <2>1. /\ hpc'[p] \in {"idle", "notReady", "error"}
          /\ hpc'[p] # "idle" => htask'[p] = htask[p]
          /\ \A q \in Procs \ {p} : hpc'[q] = hpc[q] /\ htask'[q] = htask[q]
      BY <1>2, Stepped, Answered DEF RememberGID
    <2>. QED
      BY <1>0, <1>2, <2>1 DEF RememberGID
  <1>3. CASE MarkNotReady(p) \/ MarkResolveError(p) \/ MarkStopped(p)
    BY <1>0, <1>3, Answered DEF MarkNotReady, MarkResolveError, MarkStopped, MarkStatus
  <1>4. CASE CommitPending(p)
    <2>1. /\ hpc'[p] \in {"idle", "enqueue"}
          /\ hpc'[p] # "idle" => htask'[p] = htask[p]
          /\ \A q \in Procs \ {p} : hpc'[q] = hpc[q] /\ htask'[q] = htask[q]
      <3>1. Answer(p) \/ StepWith(p, "enqueue", NoLocal)
        BY <1>4 DEF CommitPending
      <3>2. CASE Answer(p)
        BY ONLY <3>2, Answered, AllInv, p \in Procs
      <3>3. CASE StepWith(p, "enqueue", NoLocal)
        BY ONLY <3>3, Stepped, AllInv, p \in Procs
      <3>. QED
        BY ONLY <3>1, <3>2, <3>3
    <2>2. hpc'[p] = "enqueue" => final'[htask[p]]
      BY <1>0, <1>4, Answered DEF CommitPending
    <2>. QED
      BY <1>0, <1>4, <2>1, <2>2 DEF CommitPending
  <1>5. CASE Enqueue(p)
    BY <1>5, Answered DEF Enqueue
  <1>6. CASE MarkRetry(p)
    <2>1. /\ hpc'[p] \in {"idle", "enqueue"}
          /\ hpc'[p] # "idle" => htask'[p] = htask[p]
          /\ \A q \in Procs \ {p} : hpc'[q] = hpc[q] /\ htask'[q] = htask[q]
      BY <1>6, Stepped, Answered DEF MarkRetry
    <2>. QED
      BY <1>0, <1>6, <2>1 DEF MarkRetry
  <1>. QED
    BY <1>1, <1>2, <1>3, <1>4, <1>5, <1>6 DEF HookStep

\* The steps of deleteTask, and Start taking one up.
LEMMA DeleteEffect ==
  ASSUME AllInv, NEW p \in Procs, DeleteStep(p)
  PROVE  RequestEffect(p)
  <1>. USE DEF RequestEffect, TypeOK, StoreType, Aria2Type, storeVars, aria2Vars, workerVars,
           Writable, HasRow, Statuses, PendingTransfers, SetStatus, Abort, Remove
  <1>0. /\ hpc[p] \in DeletePcs /\ hpc[p] \notin {"idle", "recreate", "enqueue", "commit"}
        /\ htask[p] \in Tasks /\ status[htask[p]] \in {"deleting", "erased"}
    BY DEF DeleteStep, CancelTaskRun, FindFollowed, RemoveAria2, RemoveDownloadIfPresent, EraseRow,
       DeletePcs, TaskKnown, SafetyInv, DeletingRows
  <1>1. CASE CancelTaskRun(p)
    BY <1>0, <1>1, Stepped DEF CancelTaskRun
  <1>2. CASE FindFollowed(p)
    <2>1. /\ hpc'[p] \in {"idle", "removeDir", "removeAria2"}
          /\ hpc'[p] # "idle" => htask'[p] = htask[p]
          /\ \A q \in Procs \ {p} : hpc'[q] = hpc[q] /\ htask'[q] = htask[q]
      <3>1. \/ Answer(p) \/ Step(p, "removeDir")
            \/ \E l : StepWith(p, "removeAria2", l)
        BY <1>2 DEF FindFollowed
      <3>2. CASE Answer(p)
        BY ONLY <3>2, Answered, AllInv, p \in Procs
      <3>3. CASE Step(p, "removeDir") \/ \E l : StepWith(p, "removeAria2", l)
        BY ONLY <3>3, Stepped, AllInv, p \in Procs
      <3>. QED
        BY ONLY <3>1, <3>2, <3>3
    <2>. QED
      BY <1>0, <1>2, <2>1 DEF FindFollowed
  <1>3. CASE RemoveAria2(p)
    <2>1. /\ hpc'[p] \in {"idle", "removeDir", "removeAria2"}
          /\ hpc'[p] # "idle" => htask'[p] = htask[p]
          /\ \A q \in Procs \ {p} : hpc'[q] = hpc[q] /\ htask'[q] = htask[q]
      BY <1>3, Stepped, Answered DEF RemoveAria2
    <2>. QED
      BY <1>0, <1>3, <2>1 DEF RemoveAria2
  <1>4. CASE RemoveDownloadIfPresent(p)
    <2>1. /\ hpc'[p] \in {"idle", "erase"}
          /\ hpc'[p] # "idle" => htask'[p] = htask[p]
          /\ \A q \in Procs \ {p} : hpc'[q] = hpc[q] /\ htask'[q] = htask[q]
      BY <1>4, Stepped, Answered DEF RemoveDownloadIfPresent
    <2>. QED
      BY <1>0, <1>4, <2>1 DEF RemoveDownloadIfPresent
  <1>5. CASE EraseRow(p)
    <2>1. /\ hpc'[p] \in {"idle", "recreate"}
          /\ \A q \in Procs \ {p} : hpc'[q] = hpc[q] /\ htask'[q] = htask[q]
      BY <1>5, Moved, Answered DEF EraseRow
    <2>. QED
      BY <1>0, <1>5, <2>1 DEF EraseRow
  <1>. QED
    BY <1>1, <1>2, <1>3, <1>4, <1>5 DEF DeleteStep

LEMMA RecoverEffect ==
  ASSUME AllInv, NEW t \in Tasks, RecoverDelete(t)
  PROVE  RequestEffect(Boot)
  <1>1. /\ hpc'[Boot] = "cancelRun" /\ htask'[Boot] = t
        /\ \A q \in Procs \ {Boot} : hpc'[q] = hpc[q] /\ htask'[q] = htask[q]
    BY Moved DEF RecoverDelete, Procs
  <1>2. UNCHANGED <<status, final, dir, dl, wpc, wtask, uploaded, queuedJobs>> /\ status[t] = "deleting"
    BY DEF RecoverDelete, storeVars, aria2Vars, workerVars
  <1>3. PendingTransfers' = PendingTransfers
    BY <1>2 DEF PendingTransfers
  <1>. QED
    BY <1>1, <1>2, <1>3 DEF RequestEffect, Writable, HasRow, Statuses

\* So they do to every task's files what a step may do.
LEMMA RequestFiles ==
  ASSUME AllInv, NEW p \in Procs, RequestEffect(p), NEW t \in Tasks, RowStep(t)
  PROVE  FileStep(t)
  <1>. USE DEF RequestEffect
  <1>1. /\ \A u \in Tasks : FilesFit(u)
        /\ hpc[p] \notin {"idle", "recreate"} => htask[p] \in Tasks /\ status[htask[p]] # "new"
    BY HeldNotNew DEF FilesInv
  <1>2. Held(t)' => Held(t) \/ status'[t] # "new"
    BY <1>1 DEF Held
  <1>3. Wanted(t)' => Wanted(t) \/ final'[t]
    BY <1>1 DEF Wanted
  <1>4. Resolved(t)' => Resolved(t) \/ FilesSafe(t)'
    BY DEF Resolved, FilesSafe
  <1>5. Sent(t)' = Sent(t)
    BY DEF Sent
  <1>6. /\ uploaded[t] => uploaded'[t]
        /\ final[t] => final'[t]
        /\ final'[t] => final[t] \/ (FilesSafe(t)' /\ status'[t] # "new")
    BY <1>1 DEF FilesFit, Resolved, FilesSafe
  <1>7. /\ dir'[t] = dir[t] \/ ~Writable(t)' \/ status[t] = "new"
        /\ status[t] = "new" /\ Writable(t)' => dir'[t] # "absent"
        /\ status'[t] = "completed" => status[t] = "completed"
    OBVIOUS
  <1>8. \A w \in Workers : wtask'[w] = t /\ wpc'[w] \in Touching => HasRow(t)'
    <2>. SUFFICES ASSUME NEW w \in Workers, wtask[w] = t, wpc[w] \in Touching
                  PROVE  HasRow(t)'
      OBVIOUS
    <2>1. HasRow(t)
      BY <1>1 DEF FilesFit
    <2>2. ~(hpc[p] = "erase" /\ t = htask[p])
      BY DEF SafetyInv, ClearOfRuns, PastCancel, Removing
    <2>. QED
      BY <2>1, <2>2
  <1>. QED
    BY <1>2, <1>3, <1>4, <1>5, <1>6, <1>7, <1>8 DEF FileStep

-----------------------------------------------------------------------------
(* The process as a whole. *)

\* A process that lost its memory holds no task.
LEMMA MemoryLostFiles ==
  ASSUME AllInv, LoseMemory, NEW t \in Tasks
  PROVE  FileStep(t)
  <1>1. /\ \A w \in Workers : wpc'[w] = "idle"
        /\ \A p \in Procs : hpc'[p] = "idle"
        /\ queuedJobs' = {} /\ UNCHANGED <<status, final, dir, dl, uploaded>>
    BY DEF LoseMemory, storeVars, aria2Vars
  <1>2. ~Held(t)' /\ ~Resolved(t)' /\ ~Sent(t)'
    BY <1>1 DEF Held, Resolved, Sent
  <1>3. Wanted(t)' => Wanted(t)
    BY <1>1 DEF Wanted, PendingTransfers
  <1>. QED
    BY <1>1, <1>2, <1>3 DEF FileStep, Writable, HasRow, Statuses, Touching

\* A step of nobody who holds a task: Start queues pending tasks, aria2 writes.
LEMMA OutsideFiles ==
  ASSUME AllInv, NEW t \in Tasks, UNCHANGED <<status, final, uploaded, wpc, wtask, hpc, htask>>,
         queuedJobs' \subseteq queuedJobs \cup PendingTransfers,
         dir'[t] \in {dir[t], "complete"},
         \A g \in Gids : dl'[<<t, g>>] # dl[<<t, g>>] => status[t] # "new"
  PROVE  FileStep(t)
  <1>1. FilesFit(t)
    BY DEF FilesInv
  <1>2. Held(t)' => Held(t) \/ status'[t] # "new"
    BY DEF Held, PendingTransfers
  <1>3. Wanted(t)' => Wanted(t)
    BY DEF Wanted, PendingTransfers
  <1>4. Resolved(t)' = Resolved(t) /\ Sent(t)' = Sent(t)
    BY DEF Resolved, Sent
  <1>. QED
    BY <1>1, <1>2, <1>3, <1>4 DEF FileStep, FilesFit, Writable, HasRow, Statuses

\* aria2 completes downloads that were started for a row.
LEMMA Aria2Files ==
  ASSUME AllInv, Aria2Step, NEW t \in Tasks
  PROVE  FileStep(t)
  <1>. USE DEF TypeOK, Aria2Type
  <1>1. /\ UNCHANGED <<status, final, uploaded, wpc, wtask, hpc, htask, queuedJobs>>
        /\ dir'[t] \in {dir[t], "complete"}
    BY DEF Aria2Step, Aria2Next, MetadataCompletes, DownloadCompletes, DownloadStops, HookExits,
       storeVars, workerVars, handlerVars
  <1>2. \A g \in Gids : dl'[<<t, g>>] # dl[<<t, g>>] =>
          \E h \in Gids : dl[<<t, h>>] = "active"
    <2>1. ASSUME NEW u \in Tasks, MetadataCompletes(u)
          PROVE  \A g \in Gids : dl'[<<t, g>>] # dl[<<t, g>>] => dl[<<t, "root">>] = "active"
      BY <2>1 DEF MetadataCompletes, Gids
    <2>2. ASSUME NEW u \in Tasks, NEW h \in Gids, DownloadCompletes(u, h) \/ DownloadStops(u, h)
          PROVE  \A g \in Gids : dl'[<<t, g>>] # dl[<<t, g>>] => dl[<<t, g>>] = "active"
      BY <2>2 DEF DownloadCompletes, DownloadStops, Remove
    <2>3. ASSUME NEW h \in hooks, HookExits(h) PROVE dl' = dl
      BY <2>3 DEF HookExits
    <2>. QED
      BY <2>1, <2>2, <2>3 DEF Aria2Step, Aria2Next, Gids
  <1>3. status[t] = "new" => \A h \in Gids : dl[<<t, h>>] # "active"
    BY DEF FilesInv, FilesFit
  <1>. QED
    BY <1>1, <1>2, <1>3, OutsideFiles

\* Every step keeps the invariant, and treats every task as FileStep says.
LEMMA FilesStep ==
  ASSUME AllInv, [Next]_vars, "delete" \notin DuringCreate
  PROVE  AllInv' /\ \A t \in Tasks : RowStep(t) /\ FileStep(t)
  <1>1. Inv' /\ \A t \in Tasks : RowStep(t)
    BY SafetyStep
  <1>2. ASSUME NEW t \in Tasks PROVE FileStep(t)
    <2>1. ASSUME NEW p \in Procs, NewRequest(p) \/ ProcStep(p) PROVE FileStep(t)
      BY <1>1, <2>1, NewRequestEffect, CreateEffect, HookEffect, DeleteEffect, RequestFiles DEF ProcStep
    <2>2. ASSUME NEW u \in Tasks, RecoverDelete(u) PROVE FileStep(t)
      BY <1>1, <2>2, RecoverEffect, RequestFiles DEF Procs
    <2>3. ASSUME NEW w \in Workers, WorkerStep(w), UNCHANGED handlerVars PROVE FileStep(t)
      BY <2>3, WorkerFiles
    <2>4. CASE StartService \/ ServiceStarted \/ Shutdown \/ UNCHANGED vars
      BY <2>4, OutsideFiles DEF StartService, ServiceStarted, Shutdown, vars, storeVars, aria2Vars,
         workerVars, handlerVars
    <2>5. CASE StartFails \/ Exit \/ Crash
      BY <2>5, MemoryLostFiles DEF StartFails, Exit, Crash
    <2>6. CASE Aria2Step
      BY <2>6, Aria2Files
    <2>. QED
      BY <2>1, <2>2, <2>3, <2>4, <2>5, <2>6 DEF Next, GatewayStep
  <1>3. FilesInv'
    BY <1>1, <1>2, FilesKeep DEF FilesInv
  <1>. QED
    BY <1>1, <1>2, <1>3

\* The invariant says what it is for.
LEMMA FilesInvImplies == AllInv => FilesKept /\ CompletedMeansUploaded /\ JobsHaveFiles
  <1>1. AllInv => FilesKept /\ CompletedMeansUploaded
    BY DEF FilesInv, FilesFit, FilesKept, CompletedMeansUploaded
  <1>2. AllInv => JobsHaveFiles
    BY DEF FilesInv, FilesFit, Wanted, JobsHaveFiles
  <1>. QED
    BY <1>1, <1>2

-----------------------------------------------------------------------------
(* The steps of the gateway are steps of TaskContract.  Each one changes    *)
(* the status, the directory or the upload of one task, or nothing; only   *)
(* CreateRow changes two of them.                                          *)

Rows == [t \in Tasks |-> RowOf(status[t])]
HasDir == [t \in Tasks |-> dir[t] # "absent"]
Reported == [t \in Tasks |-> status[t] = "completed"]

ContractStep == Contract!Next \/ UNCHANGED <<Rows, HasDir, uploaded, Reported>>

\* A status that changes: a task is reported or not, closed or erased.
LEMMA ContractStatus ==
  ASSUME AllInv, AllInv', NEW t \in Tasks, NEW s, status' = [status EXCEPT ![t] = s],
         UNCHANGED <<dir, uploaded>>, RowStep(t), status[t] = "new" => status'[t] = "new"
  PROVE  ContractStep
  <1>. USE DEF TypeOK, StoreType
  <1>1. /\ Rows' = [Rows EXCEPT ![t] = RowOf(s)]
        /\ Reported' = [Reported EXCEPT ![t] = (s = "completed")]
        /\ UNCHANGED <<HasDir, uploaded>>
    BY DEF Rows, Reported, HasDir
  <1>2. s = "completed" => uploaded[t]
    BY DEF FilesInv, FilesFit
  <1>3. /\ Rows[t] = RowOf(status[t])
        /\ Reported[t] = (status[t] = "completed")
    BY DEF Rows, Reported
  <1>4. CASE RowOf(s) = RowOf(status[t])
    <2>1. Rows' = Rows
      BY <1>1, <1>3, <1>4 DEF Rows
    <2>2. CASE s = "completed"
      <3>1. RowOf(s) = "open" /\ Reported' = [Reported EXCEPT ![t] = TRUE]
        BY <1>1, <2>2 DEF RowOf
      <3>. QED
        BY <1>1, <1>2, <1>3, <1>4, <2>1, <2>2, <3>1 DEF ContractStep, Contract!Next, Contract!Report, Rows, Reported, HasDir
    <2>3. CASE s # "completed" /\ status[t] = "completed"
      <3>1. RowOf(status[t]) = "open" /\ Reported[t] /\ Reported' = [Reported EXCEPT ![t] = FALSE]
        BY <1>1, <1>3, <2>3 DEF RowOf
      <3>. QED
        BY <1>1, <1>3, <2>1, <3>1 DEF ContractStep, Contract!Next, Contract!Reopen, Rows, Reported, HasDir
    <2>4. CASE s # "completed" /\ status[t] # "completed"
      <3>1. Reported' = Reported
        BY <1>1, <2>4 DEF Reported
      <3>. QED
        BY <1>1, <2>1, <3>1 DEF ContractStep
    <2>. QED
      BY <2>2, <2>3, <2>4
  <1>5. CASE RowOf(s) = "closing" /\ RowOf(status[t]) = "open"
    <2>1. /\ Rows' = [Rows EXCEPT ![t] = "closing"]
          /\ Reported' = [Reported EXCEPT ![t] = FALSE]
      BY <1>1, <1>5 DEF RowOf
    <2>. QED
      BY <1>1, <1>3, <1>5, <2>1 DEF ContractStep, Contract!Next, Contract!Close, Rows, Reported, HasDir
  <1>6. CASE RowOf(s) = "gone" /\ RowOf(status[t]) = "closing"
    <2>1. Rows' = [Rows EXCEPT ![t] = "gone"] /\ Reported' = Reported
      BY <1>1, <1>6 DEF RowOf, Reported
    <2>. QED
      BY <1>1, <1>3, <1>6, <2>1 DEF ContractStep, Contract!Next, Contract!Erase, Rows, Reported, HasDir
  <1>. QED
    BY <1>4, <1>5, <1>6 DEF RowStep, RowOf, Writable, HasRow, Statuses

\* A directory that changes: it goes when it may, or aria2 writes it again.
LEMMA ContractDir ==
  ASSUME AllInv, NEW t \in Tasks, NEW d, dir' = [dir EXCEPT ![t] = d],
         UNCHANGED <<status, uploaded>>, status[t] # "new",
         d = "absent" => uploaded[t] \/ status[t] \in {"deleting", "erased"}
  PROVE  ContractStep
  <1>. USE DEF TypeOK, StoreType, Aria2Type
  <1>1. /\ HasDir' = [HasDir EXCEPT ![t] = (d # "absent")]
        /\ UNCHANGED <<Rows, Reported, uploaded>>
    BY DEF Rows, Reported, HasDir
  <1>2. CASE (d = "absent") <=> (dir[t] = "absent")
    BY <1>1, <1>2 DEF ContractStep, HasDir
  <1>3. CASE d = "absent" /\ dir[t] # "absent"
    <2>1. RowOf(status[t]) \in {"closing", "gone"} \/ (RowOf(status[t]) = "open" /\ uploaded[t])
      BY <1>3 DEF RowOf
    <2>. QED
      BY <1>1, <1>3, <2>1 DEF ContractStep, Contract!Next, Contract!Discard, Rows, Reported, HasDir
  <1>4. CASE d # "absent" /\ dir[t] = "absent"
    <2>1. RowOf(status[t]) # "none"
      BY DEF RowOf
    <2>. QED
      BY <1>1, <1>4, <2>1 DEF ContractStep, Contract!Next, Contract!WriteAgain, Rows, Reported, HasDir
  <1>. QED
    BY <1>2, <1>3, <1>4

\* An upload that ends: there was a directory to send, and the row is not gone.
LEMMA ContractSent ==
  ASSUME AllInv, NEW t \in Tasks, NEW b \in BOOLEAN, uploaded' = [uploaded EXCEPT ![t] = b],
         UNCHANGED <<status, dir>>, uploaded[t] => b, HasRow(t), dir[t] # "absent"
  PROVE  ContractStep
  <1>. USE DEF TypeOK, StoreType, WorkerType
  <1>1. UNCHANGED <<Rows, Reported, HasDir>>
    BY DEF Rows, Reported, HasDir
  <1>2. CASE b = uploaded[t]
    BY <1>1, <1>2 DEF ContractStep
  <1>3. CASE b # uploaded[t]
    <2>1. Rows[t] \in {"open", "closing"} /\ HasDir[t]
      BY DEF Rows, HasDir, RowOf, HasRow, Statuses
    <2>2. uploaded' = [uploaded EXCEPT ![t] = TRUE]
      BY <1>3
    <2>. QED
      BY <1>1, <2>1, <2>2 DEF ContractStep, Contract!Next, Contract!Deliver, Rows, Reported, HasDir
  <1>. QED
    BY <1>2, <1>3

\* Create: the row and its directory.
LEMMA ContractAccept ==
  ASSUME AllInv, NEW p \in Procs, NEW t \in Tasks, CreateRow(p, t)
  PROVE  ContractStep
  <1>. USE DEF TypeOK, StoreType, Aria2Type
  <1>1. /\ status[t] = "new" /\ status' = [status EXCEPT ![t] = "queued"]
        /\ dir' = [dir EXCEPT ![t] = "partial"] /\ uploaded' = uploaded
    BY DEF CreateRow, SetStatus, workerVars
  <1>2. /\ Rows[t] = "none" /\ Rows' = [Rows EXCEPT ![t] = "open"]
        /\ HasDir' = [HasDir EXCEPT ![t] = TRUE] /\ Reported' = Reported
    BY <1>1 DEF Rows, HasDir, Reported, RowOf
  <1>. QED
    BY <1>1, <1>2 DEF ContractStep, Contract!Next, Contract!Accept, Rows, Reported, HasDir

\* The other steps of a request change one status, one directory or neither.
OneChange ==
  \/ UNCHANGED <<status, dir, uploaded>>
  \/ /\ UNCHANGED <<dir, uploaded>>
     /\ \E t \in Tasks, s \in Statuses \cup {"erased"} :
          status[t] # "new" /\ status' = [status EXCEPT ![t] = s]
  \/ /\ UNCHANGED <<status, uploaded>>
     /\ \E t \in Tasks, d \in {"absent", "partial", "complete"} :
          /\ status[t] # "new" /\ dir' = [dir EXCEPT ![t] = d]
          /\ d = "absent" => uploaded[t] \/ status[t] \in {"deleting", "erased"}

LEMMA ContractOneChange ==
  ASSUME AllInv, AllInv', OneChange, \A t \in Tasks : RowStep(t)
  PROVE  ContractStep
  <1>1. CASE UNCHANGED <<status, dir, uploaded>>
    BY <1>1 DEF ContractStep, Rows, Reported, HasDir
  <1>2. ASSUME NEW t \in Tasks, NEW s \in Statuses \cup {"erased"}, UNCHANGED <<dir, uploaded>>,
               status[t] # "new", status' = [status EXCEPT ![t] = s]
        PROVE  ContractStep
    BY <1>2, ContractStatus
  <1>3. ASSUME NEW t \in Tasks, NEW d \in {"absent", "partial", "complete"},
               UNCHANGED <<status, uploaded>>, status[t] # "new", dir' = [dir EXCEPT ![t] = d],
               d = "absent" => uploaded[t] \/ status[t] \in {"deleting", "erased"}
        PROVE  ContractStep
    BY <1>3, ContractDir
  <1>. QED
    BY <1>1, <1>2, <1>3 DEF OneChange

LEMMA RequestOneChange ==
  ASSUME AllInv, NEW p \in Procs, NewRequest(p) \/ ProcStep(p)
  PROVE  OneChange \/ \E t \in Tasks : CreateRow(p, t)
  <1>. USE DEF OneChange, storeVars, aria2Vars, workerVars, SetStatus, Writable, HasRow, Statuses
  <1>0. hpc[p] \notin {"idle", "recreate"} => htask[p] \in Tasks /\ status[htask[p]] # "new"
    BY HeldNotNew
  <1>1. ASSUME NEW t \in Tasks, NEW g \in Gids, NEW full \in BOOLEAN,
               Completed(p, t, g) \/ Stopped(p, t, g) \/ RetryUpload(p, t) \/ Delete(p, t, full)
        PROVE  OneChange
    BY <1>1 DEF Completed, Stopped, RetryUpload, Delete, Reaches
  <1>2. CASE CreateStep(p)
    BY <1>0, <1>2 DEF CreateStep, CreateRefused, AddDownload, SaveGid, SaveFailure
  <1>3. CASE HookStep(p)
    BY <1>0, <1>3 DEF HookStep, Resolve, RememberGID, MarkNotReady, MarkResolveError, MarkStopped,
       MarkStatus, CommitPending, Enqueue, MarkRetry
  <1>4. CASE CancelTaskRun(p) \/ FindFollowed(p) \/ RemoveAria2(p) \/ EraseRow(p)
    BY <1>0, <1>4 DEF CancelTaskRun, FindFollowed, RemoveAria2, EraseRow
  <1>5. CASE RemoveDownloadIfPresent(p)
    <2>1. status[htask[p]] \in {"deleting", "erased"}
      BY <1>5 DEF RemoveDownloadIfPresent, SafetyInv, DeletingRows, DeletePcs
    <2>. QED
      BY <1>0, <1>5, <2>1 DEF RemoveDownloadIfPresent
  <1>. QED
    BY <1>1, <1>2, <1>3, <1>4, <1>5 DEF NewRequest, ProcStep, DeleteStep, Gids

\* A worker's steps.
LEMMA WorkerContract ==
  ASSUME AllInv, AllInv', NEW w \in Workers, WorkerStep(w), UNCHANGED handlerVars,
         \A t \in Tasks : RowStep(t)
  PROVE  ContractStep
  <1>. USE DEF storeVars, aria2Vars, runFrame, SetStatus
  <1>0. wpc[w] # "idle" => wtask[w] \in Tasks /\ status[wtask[w]] # "new"
    BY DEF TypeOK, TaskKnown, FilesInv, FilesFit, Held
  <1>1. CASE \/ \E t \in Tasks : Dequeue(w, t)
             \/ GetTask(w) \/ RegisterTaskRun(w) \/ Reread(w) \/ CleanupMetadata(w)
             \/ UploadFails(w) \/ CloseRun(w) \/ UnregisterTaskRun(w)
    <2>1. UNCHANGED <<status, dir, uploaded>>
      BY <1>1 DEF Dequeue, GetTask, RegisterTaskRun, Reread, CleanupMetadata, UploadFails, CloseRun,
         UnregisterTaskRun
    <2>. QED
      BY <2>1, ContractOneChange DEF OneChange
  <1>2. CASE Claim(w) \/ MarkCompleted(w) \/ MarkFailed(w)
    <2>1. OneChange
      BY <1>0, <1>2 DEF Claim, MarkCompleted, MarkFailed, OneChange, Statuses
    <2>. QED
      BY <2>1, ContractOneChange
  <1>3. CASE RemoveUploaded(w)
    <2>1. uploaded[wtask[w]] \/ status[wtask[w]] \in {"deleting", "erased"}
      BY <1>0, <1>3 DEF RemoveUploaded, FilesInv, FilesFit, Sent, Writable, HasRow, TypeOK, StoreType
    <2>2. OneChange
      BY <1>0, <1>3, <2>1 DEF RemoveUploaded, OneChange
    <2>. QED
      BY <2>2, ContractOneChange
  <1>4. CASE UploadSucceeds(w)
    <2>1. HasRow(wtask[w])
      BY <1>0, <1>4 DEF UploadSucceeds, FilesInv, FilesFit, Touching
    <2>. QED
      BY <1>0, <1>4, <2>1, ContractSent DEF UploadSucceeds, TypeOK, WorkerType
  <1>. QED
    BY <1>1, <1>2, <1>3, <1>4 DEF WorkerStep, RunStep, UploadEnds

\* Every step is one of TaskContract, or none.
LEMMA ContractSteps ==
  ASSUME AllInv, AllInv', [Next]_vars, \A t \in Tasks : RowStep(t)
  PROVE  ContractStep
  <1>1. ASSUME NEW p \in Procs, NewRequest(p) \/ ProcStep(p) PROVE ContractStep
    BY <1>1, RequestOneChange, ContractOneChange, ContractAccept
  <1>2. ASSUME NEW w \in Workers, WorkerStep(w), UNCHANGED handlerVars PROVE ContractStep
    BY <1>2, WorkerContract
  <1>3. CASE \/ \E t \in Tasks : RecoverDelete(t)
             \/ StartService \/ StartFails \/ ServiceStarted \/ Shutdown \/ Exit \/ Crash
             \/ UNCHANGED vars
    <2>1. UNCHANGED <<status, dir, uploaded>>
      BY <1>3 DEF RecoverDelete, StartService, StartFails, ServiceStarted, Shutdown, Exit, Crash,
         LoseMemory, vars, storeVars, aria2Vars, workerVars
    <2>. QED
      BY <2>1, ContractOneChange DEF OneChange
  <1>4. CASE Aria2Step
    <2>1. UNCHANGED <<status, uploaded>>
      BY <1>4 DEF Aria2Step, Aria2Next, MetadataCompletes, DownloadCompletes, DownloadStops, HookExits,
         storeVars, workerVars
    <2>2. OneChange
      <3>1. ASSUME NEW t \in Tasks, NEW g \in Gids, DownloadCompletes(t, g) PROVE OneChange
        <4>1. status[t] # "new"
          BY <3>1 DEF DownloadCompletes, FilesInv, FilesFit
        <4>. QED
          BY <2>1, <3>1, <4>1 DEF DownloadCompletes, OneChange
      <3>2. ASSUME UNCHANGED dir PROVE OneChange
        BY <2>1, <3>2 DEF OneChange
      <3>. QED
        BY <1>4, <3>1, <3>2 DEF Aria2Step, Aria2Next, MetadataCompletes, DownloadStops, HookExits
    <2>. QED
      BY <2>2, ContractOneChange
  <1>. QED
    BY <1>1, <1>2, <1>3, <1>4 DEF Next, GatewayStep

\* Whatever clients, hooks, aria2 and faults do, a task lives the life
\* TaskContract describes: its files are given up only once delivered or when
\* the user deletes it, and it is reported completed only once they are.
THEOREM GatewayKeepsContract ==
  ASSUME "delete" \notin DuringCreate
  PROVE  Spec => ImplementsContract
  <1>1. Init => Contract!Init
    <2>. SUFFICES ASSUME Init PROVE Contract!Init
      OBVIOUS
    <2>1. \A t \in Tasks : status[t] = "new" /\ dir[t] = "absent"
      BY DEF Init, StoreInit, Aria2Init
    <2>2. [t \in Tasks |-> RowOf(status[t])] = [t \in Tasks |-> "none"]
      BY <2>1 DEF RowOf
    <2>3. /\ [t \in Tasks |-> dir[t] # "absent"] = [t \in Tasks |-> FALSE]
          /\ [t \in Tasks |-> status[t] = "completed"] = [t \in Tasks |-> FALSE]
      BY <2>1
    <2>. QED
      BY <2>2, <2>3 DEF Init, WorkerInit, Contract!Init
  <1>2. AllInv /\ [Next]_vars => AllInv'
    BY FilesStep
  <1>3. AllInv /\ AllInv' /\ [Next]_vars => [Contract!Next]_Contract!vars
    <2>. SUFFICES ASSUME AllInv, AllInv', [Next]_vars PROVE ContractStep
      BY DEF ContractStep, Rows, HasDir, Reported, Contract!vars
    <2>. QED
      BY FilesStep, ContractSteps
  <1>. QED
    BY FilesInit, <1>1, <1>2, <1>3, PTL DEF Spec, ImplementsContract, Contract!Spec

-----------------------------------------------------------------------------
\* Whatever hooks, retries, uploads and restarts do to a task with a row, its
\* directory goes only after its files have reached the destination.
THEOREM FilesNeverLost ==
  ASSUME "delete" \notin DuringCreate
  PROVE  Spec => []FilesKept
  <1>1. AllInv /\ [Next]_vars => AllInv'
    BY FilesStep
  <1>2. AllInv => FilesKept
    BY FilesInvImplies
  <1>. QED
    BY FilesInit, <1>1, <1>2, PTL DEF Spec

\* No order of hooks, retries and failures reports a task completed whose files
\* have not all reached the destination.
THEOREM CompletedIsUploaded ==
  ASSUME "delete" \notin DuringCreate
  PROVE  Spec => []CompletedMeansUploaded
  <1>1. AllInv /\ [Next]_vars => AllInv'
    BY FilesStep
  <1>2. AllInv => CompletedMeansUploaded
    BY FilesInvImplies
  <1>. QED
    BY FilesInit, <1>1, <1>2, PTL DEF Spec

\* Whatever reaches a worker has final files: runTransfer need not resolve them.
THEOREM JobsComeWithFiles ==
  ASSUME "delete" \notin DuringCreate
  PROVE  Spec => []JobsHaveFiles
  <1>1. AllInv /\ [Next]_vars => AllInv'
    BY FilesStep
  <1>2. AllInv => JobsHaveFiles
    BY FilesInvImplies
  <1>. QED
    BY FilesInit, <1>1, <1>2, PTL DEF Spec

\* A task with final files has them on disk or at the destination, whoever holds
\* it, and whoever may be given a task has its final files.
THEOREM FilesAlwaysFit ==
  ASSUME "delete" \notin DuringCreate
  PROVE  Spec => []FilesInv
  <1>1. AllInv /\ [Next]_vars => AllInv'
    BY FilesStep
  <1>2. AllInv => FilesInv
    OBVIOUS
  <1>. QED
    BY FilesInit, <1>1, <1>2, PTL DEF Spec
=============================================================================
