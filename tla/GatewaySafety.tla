---------------------------- MODULE GatewaySafety ----------------------------
(***************************************************************************)
(* Type correctness of Gateway for every value of the constants; then: a   *)
(* run and the removal of its task's files never overlap, no task is       *)
(* transferred twice at once and a row being deleted stays so until it is  *)
(* erased: proved for every set of tasks, workers and handlers and every   *)
(* combination of faults, all but the second when clients delete only      *)
(* tasks whose Create has answered.                                        *)
(***************************************************************************)
EXTENDS Gateway, TLAPS

(* The part TaskKnown of TypeOK is what makes it inductive: Enqueue puts   *)
(* htask[p] into the job set, so p's step must say that it holds a task.   *)
(* TypeOK is taken apart by component (store, aria2, workers, handlers),   *)
(* so that a step is only asked about the components it changes.           *)

\* Forgetting what a request read is well typed.
LEMMA NoLocalType == NoLocal \in Locals
  BY DEF NoLocal, Locals, Gids

\* What a request may note of the GIDs it saw is well typed.
LEMMA LocalUpdates ==
  ASSUME NEW l \in Locals, NEW g \in Gids \cup {"none"}, NEW n \in Gids \cup {"none"},
         NEW d \in SUBSET Gids, NEW b \in BOOLEAN
  PROVE  /\ [l EXCEPT !.gid = g, !.snap = n] \in Locals
         /\ [l EXCEPT !.snap = n] \in Locals
         /\ [l EXCEPT !.snap = n, !.full = b] \in Locals
         /\ [l EXCEPT !.todo = d] \in Locals
  BY DEF Locals

\* An outcome of resolveFinalFiles names a download.
LEMMA ResolvedType ==
  ASSUME NEW t \in Tasks, NEW g \in Gids \cup {"none"}, NEW r \in ResolveFinalFiles(t, g)
  PROVE  r[2] \in Gids \cup {"none"}
  BY DEF ResolveFinalFiles, Gids

\* A request past its first step holds a task: the handlers' part of TypeOK.
HandlersOK ==
  /\ RequestType
  /\ \A p \in Procs : hpc[p] \notin {"idle", "recreate"} => htask[p] \in Tasks

\* Taking up a task, answering and going on keep the handlers' part.
LEMMA BeginType ==
  ASSUME HandlersOK, NEW p \in Procs, NEW pc \in HandlerPcs, NEW t \in Tasks \cup {None},
         NEW l \in Locals, pc \in {"idle", "recreate"} \/ t \in Tasks, Begin(p, pc, t, l)
  PROVE  HandlersOK'
  BY DEF HandlersOK, RequestType, Begin

LEMMA AnswerType ==
  ASSUME HandlersOK, NEW p \in Procs, Answer(p)
  PROVE  HandlersOK'
  <1>1. "idle" \in HandlerPcs
    BY DEF HandlerPcs
  <1>. QED
    BY <1>1, NoLocalType, BeginType DEF Answer

LEMMA StepWithType ==
  ASSUME HandlersOK, NEW p \in Procs, NEW pc \in HandlerPcs, NEW l \in Locals,
         hpc[p] \notin {"idle", "recreate"}, StepWith(p, pc, l)
  PROVE  HandlersOK'
  BY DEF HandlersOK, RequestType, StepWith

LEMMA StepType ==
  ASSUME HandlersOK, NEW p \in Procs, NEW pc \in HandlerPcs,
         hpc[p] \notin {"idle", "recreate"}, Step(p, pc)
  PROVE  HandlersOK'
  BY DEF HandlersOK, RequestType, Step

\* Setting the status of a row keeps the rows typed.
LEMMA SetStatusType ==
  ASSUME StoreType, NEW t, NEW s \in Statuses \cup {"new", "erased"}, SetStatus(t, s),
         UNCHANGED <<gid, final>>
  PROVE  StoreType'
  BY DEF StoreType, SetStatus

LEMMA SameStore == StoreType /\ UNCHANGED storeVars => StoreType'
  BY DEF StoreType, storeVars

LEMMA SameAria2 == Aria2Type /\ UNCHANGED aria2Vars => Aria2Type'
  BY DEF Aria2Type, aria2Vars

\* A worker past its first step holds a task: the workers' part of TypeOK.
WorkersOK == WorkerType /\ \A w \in Workers : wpc[w] # "idle" => wtask[w] \in Tasks

\* TypeOK by component, before and after a step.
LEMMA TypeParts ==
  /\ TypeOK <=> StoreType /\ Aria2Type /\ WorkersOK /\ HandlersOK
  /\ TypeOK' <=> StoreType' /\ Aria2Type' /\ WorkersOK' /\ HandlersOK'
  BY DEF TypeOK, TaskKnown, HandlersOK, WorkersOK

LEMMA SameWorkers == WorkersOK /\ UNCHANGED <<phase, workerVars>> => WorkersOK'
  BY DEF WorkersOK, WorkerType, workerVars

-----------------------------------------------------------------------------
\* The initial state is well typed.
LEMMA TypeInit == Init => TypeOK
  <1>. SUFFICES ASSUME Init PROVE TypeOK
    OBVIOUS
  <1>1. StoreType /\ Aria2Type
    BY DEF Init, StoreInit, Aria2Init, StoreType, Aria2Type, DownloadStates, Hooks
  <1>2. WorkersOK
    BY DEF Init, WorkerInit, WorkersOK, WorkerType, WorkerPcs
  <1>3. HandlersOK
    BY NoLocalType DEF Init, RequestInit, HandlersOK, RequestType, HandlerPcs
  <1>. QED
    BY <1>1, <1>2, <1>3, TypeParts

\* The steps of a worker keep the types.
LEMMA WorkerTypes ==
  ASSUME TypeOK, NEW w \in Workers, WorkerStep(w), UNCHANGED handlerVars
  PROVE  TypeOK'
  <1>. USE TypeParts
  <1>1. HandlersOK'
    BY DEF handlerVars, HandlersOK, RequestType
  <1>2. StoreType'
    <2>1. CASE UNCHANGED storeVars
      BY <2>1, SameStore
    <2>2. CASE UNCHANGED <<gid, final>> /\ \E s \in Statuses : SetStatus(wtask[w], s)
      BY <2>2, SetStatusType
    <2>. QED
      BY <2>1, <2>2
         DEF WorkerStep, RunStep, UploadEnds, Dequeue, GetTask, RegisterTaskRun, Reread, Claim,
             CleanupMetadata, UploadSucceeds, UploadFails, RemoveUploaded, MarkCompleted,
             MarkFailed, CloseRun, UnregisterTaskRun, runFrame, storeVars, Statuses
  <1>3. Aria2Type'
    <2>1. CASE UNCHANGED aria2Vars
      BY <2>1, SameAria2
    <2>2. CASE /\ UNCHANGED <<dl, hooks>>
               /\ \E d \in {"absent", "partial"} : dir' = dir \/ dir' = [dir EXCEPT ![wtask[w]] = d]
      BY <2>2 DEF Aria2Type
    <2>. QED
      BY <2>1, <2>2
         DEF WorkerStep, RunStep, UploadEnds, Dequeue, GetTask, RegisterTaskRun, Reread, Claim,
             CleanupMetadata, UploadSucceeds, UploadFails, RemoveUploaded, MarkCompleted,
             MarkFailed, CloseRun, UnregisterTaskRun, runFrame, aria2Vars
  <1>4. WorkersOK'
    <2>. USE DEF WorkersOK, WorkerType, Goto
    <2>0. WorkersOK
      OBVIOUS
    <2>1. ASSUME NEW t \in Tasks, Dequeue(w, t) PROVE WorkersOK'
      BY <2>0, <2>1 DEF Dequeue, WorkerPcs
    <2>2. CASE GetTask(w)
      BY <2>0, <2>2 DEF GetTask, DropJob, WorkerPcs
    <2>3. CASE RegisterTaskRun(w)
      <3>1. CASE taskRuns[wtask[w]] = None /\ taskRuns' = [taskRuns EXCEPT ![wtask[w]] = w]
        BY <2>0, <2>3, <3>1 DEF RegisterTaskRun, DropJob, WorkerPcs
      <3>2. CASE DropJob(w) /\ UNCHANGED taskRuns
        BY <2>0, <2>3, <3>2 DEF RegisterTaskRun, DropJob, WorkerPcs
      <3>. QED
        BY <2>3, <3>1, <3>2 DEF RegisterTaskRun
    <2>4. CASE /\ UNCHANGED <<phase, queuedJobs, taskRuns, wtask, cancelled, awaits, uploaded>>
               /\ wpc[w] # "idle"
               /\ \E pc \in WorkerPcs : Goto(w, pc)
      BY <2>0, <2>4
    <2>5. CASE CloseRun(w)
      BY <2>0, <2>5 DEF CloseRun, WorkerPcs
    <2>6. CASE UnregisterTaskRun(w)
      BY <2>0, <2>6 DEF UnregisterTaskRun, WorkerPcs
    <2>7. CASE UploadSucceeds(w)
      <3>1. \E pc \in WorkerPcs : Goto(w, pc)
        BY <2>7 DEF UploadSucceeds, WorkerPcs
      <3>. QED
        BY <2>0, <2>7, <3>1 DEF UploadSucceeds, runFrame
    <2>8. CASE Reread(w) \/ Claim(w) \/ CleanupMetadata(w) \/ UploadFails(w)
      BY <2>4, <2>8 DEF Reread, Claim, CleanupMetadata, UploadFails, runFrame, WorkerPcs
    <2>9. CASE RemoveUploaded(w) \/ MarkCompleted(w) \/ MarkFailed(w)
      BY <2>4, <2>9 DEF RemoveUploaded, MarkCompleted, MarkFailed, runFrame, WorkerPcs
    <2>. QED
      BY <2>1, <2>2, <2>3, <2>5, <2>6, <2>7, <2>8, <2>9 DEF WorkerStep, RunStep, UploadEnds
  <1>. QED
    BY <1>1, <1>2, <1>3, <1>4

\* The requests the server accepts keep the types.
LEMMA NewRequestTypes ==
  ASSUME TypeOK, NEW p \in Procs, NewRequest(p)
  PROVE  TypeOK'
  <1>0. /\ StoreType /\ Aria2Type /\ WorkersOK /\ HandlersOK
        /\ hpc[p] \in HandlerPcs
    BY TypeParts DEF WorkersOK, HandlersOK, RequestType
  <1>. PICK t \in Tasks :
         \/ CreateRow(p, t)
         \/ \E g \in Gids : Completed(p, t, g) \/ Stopped(p, t, g)
         \/ RetryUpload(p, t)
         \/ \E full \in BOOLEAN : Delete(p, t, full)
    BY DEF NewRequest
  <1>1. WorkersOK'
    BY <1>0, SameWorkers DEF CreateRow, Completed, Stopped, RetryUpload, Delete
  <1>2. Aria2Type'
    BY <1>0 DEF CreateRow, Completed, Stopped, RetryUpload, Delete, Aria2Type, aria2Vars
  <1>3. StoreType'
    BY <1>0, SameStore, SetStatusType
       DEF CreateRow, Completed, Stopped, RetryUpload, Delete, Statuses
  <1>4. HandlersOK'
    <2>1. ASSUME NEW pc \in HandlerPcs, NEW l \in Locals, Begin(p, pc, t, l) PROVE HandlersOK'
      BY <1>0, <2>1, BeginType
    <2>2. {"add", "resolve", "stopped", "retryUpload", "cancelRun"} \subseteq HandlerPcs
      BY DEF HandlerPcs, CreatePcs, HookPcs, DeletePcs
    <2>3. gid[t] \in Gids \cup {"none"}
      BY <1>0 DEF StoreType
    <2>4. ASSUME NEW g \in Gids, Completed(p, t, g) PROVE HandlersOK'
      BY <2>1, <2>2, <2>3, <2>4, LocalUpdates, NoLocalType DEF Completed
    <2>5. ASSUME NEW full \in BOOLEAN, Delete(p, t, full) PROVE HandlersOK'
      BY <2>1, <2>2, <2>3, <2>5, LocalUpdates, NoLocalType DEF Delete
    <2>. QED
      BY <2>1, <2>2, <2>4, <2>5, NoLocalType DEF CreateRow, Stopped, RetryUpload
  <1>. QED
    BY <1>0, <1>1, <1>2, <1>3, <1>4, TypeParts

\* The later steps of Create keep the types.
LEMMA CreateTypes ==
  ASSUME TypeOK, NEW p \in Procs, CreateStep(p)
  PROVE  TypeOK'
  <1>0. StoreType /\ Aria2Type /\ WorkersOK /\ HandlersOK
    BY TypeParts
  <1>1. WorkersOK'
    BY <1>0, SameWorkers DEF CreateStep, CreateRefused, AddDownload, SaveGid, SaveFailure
  <1>2. Aria2Type'
    BY <1>0 DEF CreateStep, CreateRefused, AddDownload, SaveGid, SaveFailure,
                Aria2Type, aria2Vars, DownloadStates, Gids
  <1>3. StoreType'
    <2>1. CASE SaveGid(p)
      BY <1>0, <2>1 DEF SaveGid, SetStatus, StoreType, Gids, Statuses
    <2>2. CASE SaveFailure(p)
      BY <1>0, <2>2 DEF SaveFailure, SetStatus, StoreType, Statuses
    <2>. QED
      BY <1>0, <2>1, <2>2, SameStore DEF CreateStep, CreateRefused, AddDownload
  <1>4. HandlersOK'
    <2>1. CASE AddDownload(p)
      BY <1>0, <2>1, StepType DEF AddDownload, HandlerPcs, CreatePcs
    <2>. QED
      BY <1>0, <2>1, AnswerType DEF CreateStep, CreateRefused, SaveGid, SaveFailure
  <1>. QED
    BY <1>1, <1>2, <1>3, <1>4, TypeParts

\* The steps of the hook handlers and of an upload retry keep the types.
LEMMA HookTypes ==
  ASSUME TypeOK, NEW p \in Procs, HookStep(p)
  PROVE  TypeOK'
  <1>0. StoreType /\ Aria2Type /\ WorkersOK /\ HandlersOK
    BY TypeParts
  <1>1. local[p] \in Locals /\ local[p].gid \in Gids \cup {"none"}
    BY <1>0 DEF HandlersOK, RequestType, Locals
  <1>2. Aria2Type'
    BY <1>0, SameAria2
       DEF HookStep, Resolve, RememberGID, MarkNotReady, MarkResolveError, MarkStopped, MarkStatus,
           CommitPending, Enqueue, MarkRetry
  <1>3. WorkersOK'
    <2>1. CASE Enqueue(p)
      <3>1. htask[p] \in Tasks
        BY <1>0, <2>1 DEF Enqueue, HandlersOK
      <3>. QED
        BY <1>0, <2>1, <3>1 DEF Enqueue, WorkersOK, WorkerType
    <2>. QED
      BY <1>0, <2>1, SameWorkers
         DEF HookStep, Resolve, RememberGID, MarkNotReady, MarkResolveError, MarkStopped, MarkStatus,
             CommitPending, MarkRetry
  <1>4. StoreType'
    <2>1. CASE RememberGID(p)
      BY <1>0, <1>1, <2>1 DEF RememberGID, StoreType
    <2>2. CASE CommitPending(p)
      BY <1>0, <1>1, <2>2 DEF CommitPending, StoreType, SetStatus, Statuses, storeVars
    <2>3. CASE MarkRetry(p)
      BY <1>0, <2>3, SameStore, SetStatusType DEF MarkRetry, Statuses, storeVars
    <2>4. ASSUME NEW pc, NEW s \in {"downloading", "failed"}, MarkStatus(p, pc, s)
          PROVE  StoreType'
      BY <1>0, <2>4, SameStore, SetStatusType DEF MarkStatus, Statuses, storeVars
    <2>. QED
      BY <1>0, <2>1, <2>2, <2>3, <2>4, SameStore
         DEF HookStep, Resolve, MarkNotReady, MarkResolveError, MarkStopped, Enqueue
  <1>5. HandlersOK'
    <2>1. CASE Resolve(p)
      <3>1. htask[p] \in Tasks
        BY <1>0, <2>1 DEF Resolve, HandlersOK
      <3>2. PICK r \in ResolveFinalFiles(htask[p], local[p].gid), pc \in HandlerPcs :
              StepWith(p, pc, [local[p] EXCEPT !.gid = r[2], !.snap = "none"])
        BY <2>1 DEF Resolve, HandlerPcs, HookPcs
      <3>3. [local[p] EXCEPT !.gid = r[2], !.snap = "none"] \in Locals
        BY <1>1, <3>1, ResolvedType, LocalUpdates
      <3>. QED
        BY <1>0, <2>1, <3>2, <3>3, StepWithType DEF Resolve
    <2>2. CASE RememberGID(p)
      BY <1>0, <2>2, StepType, AnswerType DEF RememberGID, HandlerPcs, HookPcs
    <2>3. CASE CommitPending(p)
      BY <1>0, <2>3, NoLocalType, StepWithType, AnswerType DEF CommitPending, HandlerPcs, HookPcs
    <2>4. CASE MarkRetry(p)
      BY <1>0, <2>4, StepType, AnswerType DEF MarkRetry, HandlerPcs, HookPcs
    <2>. QED
      BY <1>0, <2>1, <2>2, <2>3, <2>4, AnswerType
         DEF HookStep, MarkNotReady, MarkResolveError, MarkStopped, MarkStatus, Enqueue
  <1>. QED
    BY <1>2, <1>3, <1>4, <1>5, TypeParts

\* The steps of deleteTask keep the types.
LEMMA DeleteTypes ==
  ASSUME TypeOK, NEW p \in Procs, DeleteStep(p)
  PROVE  TypeOK'
  <1>0. StoreType /\ Aria2Type /\ WorkersOK /\ HandlersOK
    BY TypeParts
  <1>1. /\ hpc[p] \in {"cancelRun", "awaitRun", "removeAria2", "removeDir", "erase"}
        /\ htask[p] \in Tasks /\ local[p] \in Locals
    BY <1>0 DEF DeleteStep, CancelTaskRun, FindFollowed, RemoveAria2, RemoveDownloadIfPresent,
                EraseRow, HandlersOK, RequestType
  <1>2. StoreType'
    BY <1>0, SameStore, SetStatusType
       DEF DeleteStep, CancelTaskRun, FindFollowed, RemoveAria2, RemoveDownloadIfPresent, EraseRow,
           Statuses, storeVars
  <1>3. Aria2Type'
    <2>1. CASE RemoveAria2(p)
      <3>1. PICK g \in Gids : Remove(htask[p], g) \/ UNCHANGED <<dl, hooks>>
        BY <2>1 DEF RemoveAria2, Gids
      <3>2. dl' \in [Tasks \X Gids -> DownloadStates] /\ hooks' \subseteq Hooks
        BY <1>0, <1>1, <3>1 DEF Aria2Type, Remove, DownloadStates, Hooks
      <3>. QED
        BY <1>0, <2>1, <3>2 DEF RemoveAria2, Aria2Type
    <2>2. CASE RemoveDownloadIfPresent(p)
      BY <1>0, <2>2 DEF RemoveDownloadIfPresent, Aria2Type
    <2>. QED
      BY <1>0, <2>1, <2>2, SameAria2 DEF DeleteStep, CancelTaskRun, FindFollowed, EraseRow
  <1>4. WorkersOK'
    <2>1. CASE CancelTaskRun(p)
      BY <1>0, <1>1, <2>1 DEF CancelTaskRun, WorkersOK, WorkerType
    <2>2. CASE UNCHANGED workerVars /\ (Abort(p) \/ UNCHANGED phase)
      BY <1>0, <2>2 DEF Abort, WorkersOK, WorkerType, workerVars
    <2>. QED
      BY <2>1, <2>2
         DEF DeleteStep, FindFollowed, RemoveAria2, RemoveDownloadIfPresent, EraseRow
  <1>5. HandlersOK'
    <2>. DEFINE Todo(d) == [local[p] EXCEPT !.todo = d]
    <2>0. {"awaitRun", "removeAria2", "removeDir", "erase", "recreate"} \subseteq HandlerPcs
      BY DEF HandlerPcs, DeletePcs
    <2>1. ASSUME NEW d \in SUBSET Gids, NEW pc \in HandlerPcs, StepWith(p, pc, Todo(d))
          PROVE  HandlersOK'
      <3>1. Todo(d) \in Locals
        BY <1>1, LocalUpdates
      <3>. QED
        BY <1>0, <1>1, <2>1, <3>1, StepWithType
    <2>2. ASSUME NEW pc \in HandlerPcs, Step(p, pc) PROVE HandlersOK'
      BY <1>0, <1>1, <2>2, StepType
    <2>3. CASE Abort(p)
      BY <1>0, <2>3, AnswerType DEF Abort
    <2>4. CASE FindFollowed(p)
      <3>1. local[p].snap # "none" => {local[p].snap} \cup Followed(htask[p], local[p].snap) \subseteq Gids
        BY <1>1 DEF Followed, Gids, Locals
      <3>. QED
        BY <2>0, <2>1, <2>2, <2>3, <2>4, <3>1 DEF FindFollowed
    <2>5. CASE RemoveAria2(p)
      <3>1. \A g : local[p].todo \ {g} \in SUBSET Gids
        BY <1>1 DEF Locals
      <3>. QED
        BY <2>0, <2>1, <2>3, <2>5, <3>1 DEF RemoveAria2
    <2>6. CASE EraseRow(p)
      <3>1. CASE Begin(p, "recreate", None, NoLocal)
        BY <1>0, <2>0, <3>1, NoLocalType, BeginType
      <3>. QED
        BY <1>0, <2>3, <2>6, <3>1, AnswerType DEF EraseRow
    <2>. QED
      BY <2>0, <2>2, <2>3, <2>4, <2>5, <2>6
         DEF DeleteStep, CancelTaskRun, RemoveDownloadIfPresent
  <1>. QED
    BY <1>2, <1>3, <1>4, <1>5, TypeParts

\* Start, shutdown and the loss of the process's memory keep the types.
LEMMA LifecycleTypes ==
  ASSUME TypeOK,
         \/ StartService \/ StartFails \/ ServiceStarted \/ Shutdown \/ Exit \/ Crash
         \/ \E t \in Tasks : RecoverDelete(t)
  PROVE  TypeOK'
  <1>0. StoreType /\ Aria2Type /\ WorkersOK /\ HandlersOK
    BY TypeParts
  <1>1. StoreType' /\ Aria2Type'
    BY <1>0, SameStore, SameAria2
       DEF StartService, StartFails, ServiceStarted, Shutdown, Exit, Crash, LoseMemory, RecoverDelete
  <1>2. CASE StartService \/ ServiceStarted \/ Shutdown
    <2>1. HandlersOK'
      BY <1>0, <1>2 DEF StartService, ServiceStarted, Shutdown, handlerVars, HandlersOK, RequestType
    <2>2. WorkersOK'
      BY <1>0, <1>2 DEF StartService, ServiceStarted, Shutdown, PendingTransfers,
                        WorkersOK, WorkerType, workerVars
    <2>. QED
      BY <1>1, <2>1, <2>2, TypeParts
  <1>3. CASE StartFails \/ Exit \/ Crash
    <2>1. LoseMemory
      BY <1>3 DEF StartFails, Exit, Crash
    <2>2. HandlersOK'
      BY <1>0, <2>1, NoLocalType DEF LoseMemory, HandlersOK, RequestType, HandlerPcs
    <2>3. WorkersOK'
      BY <1>0, <2>1 DEF LoseMemory, WorkersOK, WorkerType, WorkerPcs
    <2>. QED
      BY <1>1, <2>2, <2>3, TypeParts
  <1>4. ASSUME NEW t \in Tasks, RecoverDelete(t) PROVE TypeOK'
    <2>1. [NoLocal EXCEPT !.snap = gid[t]] \in Locals
      BY <1>0, NoLocalType, LocalUpdates DEF StoreType
    <2>2. HandlersOK'
      BY <1>0, <1>4, <2>1, BeginType DEF RecoverDelete, HandlerPcs, DeletePcs, Procs
    <2>. QED
      BY <1>0, <1>1, <1>4, <2>2, SameWorkers, TypeParts DEF RecoverDelete, WorkersOK
  <1>. QED
    BY <1>2, <1>3, <1>4

\* The daemon and the hook scripts keep the types.
LEMMA Aria2Types ==
  ASSUME TypeOK, Aria2Step
  PROVE  TypeOK'
  <1>0. StoreType /\ Aria2Type /\ WorkersOK /\ HandlersOK
    BY TypeParts
  <1>1. StoreType' /\ WorkersOK' /\ HandlersOK'
    BY <1>0, SameStore, SameWorkers
       DEF Aria2Step, Aria2Next, MetadataCompletes, DownloadCompletes, DownloadStops, HookExits,
           handlerVars, HandlersOK, RequestType
  <1>2. ASSUME NEW t \in Tasks, MetadataCompletes(t) PROVE Aria2Type'
    BY <1>0, <1>2 DEF MetadataCompletes, Aria2Type, DownloadStates, Hooks, Gids
  <1>3. ASSUME NEW t \in Tasks, NEW g \in Gids, DownloadCompletes(t, g) PROVE Aria2Type'
    <2>1. dir' \in [Tasks -> {"absent", "partial", "complete"}]
      BY <1>0, <1>3 DEF DownloadCompletes, Aria2Type
    <2>2. dl' \in [Tasks \X Gids -> DownloadStates] /\ hooks' \subseteq Hooks
      BY <1>0, <1>3 DEF DownloadCompletes, Aria2Type, DownloadStates, Hooks
    <2>. QED
      BY <2>1, <2>2 DEF Aria2Type
  <1>4. ASSUME NEW t \in Tasks, NEW g \in Gids, DownloadStops(t, g) PROVE Aria2Type'
    <2>1. /\ dl' = [dl EXCEPT ![<<t, g>>] = "stopped"]
          /\ hooks' = hooks \cup {<<"stopped", t, g>>}
          /\ UNCHANGED dir
      BY <1>4 DEF DownloadStops, Remove
    <2>. QED
      BY <1>0, <2>1 DEF Aria2Type, DownloadStates, Hooks
  <1>5. ASSUME NEW h \in hooks, HookExits(h) PROVE Aria2Type'
    BY <1>0, <1>5 DEF HookExits, Aria2Type
  <1>6. Aria2Type'
    BY <1>2, <1>3, <1>4, <1>5 DEF Aria2Step, Aria2Next
  <1>. QED
    BY <1>1, <1>6, TypeParts

\* Every step keeps the types.
LEMMA TypeStep == TypeOK /\ [Next]_vars => TypeOK'
  <1>. SUFFICES ASSUME TypeOK, [Next]_vars PROVE TypeOK'
    OBVIOUS
  <1>1. CASE GatewayStep
    BY <1>1, NewRequestTypes, CreateTypes, HookTypes, DeleteTypes, WorkerTypes, LifecycleTypes
       DEF GatewayStep, ProcStep
  <1>2. CASE Aria2Step
    BY <1>2, Aria2Types
  <1>3. CASE UNCHANGED vars
    BY <1>3, SameStore, SameAria2, SameWorkers, TypeParts
       DEF vars, handlerVars, HandlersOK, RequestType, WorkersOK
  <1>. QED
    BY <1>1, <1>2, <1>3 DEF Next

\* In every reachable state the rows, the daemon's downloads, the job set, the
\* table of runs and every goroutine's step are well typed, and a goroutine that
\* is past its first step holds a task.
THEOREM TypeCorrect == Spec => []TypeOK
  BY TypeInit, TypeStep, PTL DEF Spec

-----------------------------------------------------------------------------
(* The table of runs, which needs nothing but the types. *)

\* A worker enters the table where nobody is registered and leaves it itself.
LEMMA WorkerRuns ==
  ASSUME TypeOK, RunsRegistered, NEW w \in Workers, WorkerStep(w)
  PROVE  RunsRegistered'
  <1>. USE NoneAssumption DEF TypeOK, WorkerType, RunsRegistered, InTable, RunPcs, Goto
  <1>0. wpc[w] # "idle" => wtask[w] \in Tasks
    BY DEF TaskKnown
  <1>1. ASSUME NEW t \in Tasks, Dequeue(w, t) PROVE RunsRegistered'
    BY <1>1 DEF Dequeue
  <1>2. CASE GetTask(w)
    BY <1>2 DEF GetTask, DropJob
  <1>3. CASE RegisterTaskRun(w)
    <2>1. CASE taskRuns' = [taskRuns EXCEPT ![wtask[w]] = w]
      BY <1>0, <1>3, <2>1 DEF RegisterTaskRun
    <2>. QED
      BY <1>3, <2>1 DEF RegisterTaskRun, DropJob
  <1>4. CASE Reread(w) \/ Claim(w) \/ CleanupMetadata(w) \/ UploadEnds(w)
             \/ RemoveUploaded(w) \/ MarkCompleted(w) \/ MarkFailed(w) \/ CloseRun(w)
    <2>1. /\ wpc[w] \in RunPcs
          /\ \E pc \in RunPcs \cup {"unregister"} : wpc' = [wpc EXCEPT ![w] = pc]
          /\ UNCHANGED <<taskRuns, wtask>>
      BY <1>4 DEF Reread, Claim, CleanupMetadata, UploadEnds, UploadSucceeds, UploadFails,
         RemoveUploaded, MarkCompleted, MarkFailed, CloseRun, runFrame
    <2>. QED
      BY <2>1
  <1>5. CASE UnregisterTaskRun(w)
    <2>1. /\ wpc[w] = "unregister" /\ wtask[w] \in Tasks /\ taskRuns[wtask[w]] = w
          /\ wpc' = [wpc EXCEPT ![w] = "idle"]
          /\ wtask' = [wtask EXCEPT ![w] = None]
          /\ taskRuns' = [taskRuns EXCEPT ![wtask[w]] = None]
      BY <1>0, <1>5 DEF UnregisterTaskRun
    <2>. QED
      BY <2>1
  <1>. QED
    BY ONLY WorkerStep(w), <1>1, <1>2, <1>3, <1>4, <1>5 DEF WorkerStep, RunStep

\* Nobody else touches the table; a process that lost its memory has none.
LEMMA RunsStep ==
  ASSUME TypeOK, RunsRegistered, [Next]_vars
  PROVE  RunsRegistered'
  <1>1. ASSUME NEW w \in Workers, WorkerStep(w) PROVE RunsRegistered'
    BY <1>1, WorkerRuns
  <1>2. CASE UNCHANGED <<taskRuns, wpc, wtask>>
    BY <1>2 DEF RunsRegistered, InTable
  <1>3. CASE LoseMemory
    BY <1>3, NoneAssumption DEF LoseMemory, RunsRegistered, InTable, RunPcs
  <1>4. ASSUME NEW p \in Procs, NewRequest(p) \/ ProcStep(p)
        PROVE  UNCHANGED <<taskRuns, wpc, wtask>>
    <2>1. CASE NewRequest(p)
      BY <2>1 DEF NewRequest, CreateRow, Completed, Stopped, RetryUpload, Delete, workerVars
    <2>2. CASE CreateStep(p) \/ HookStep(p)
      BY <2>2 DEF CreateStep, CreateRefused, AddDownload, SaveGid, SaveFailure, HookStep, Resolve,
         RememberGID, MarkNotReady, MarkResolveError, MarkStopped, MarkStatus, CommitPending,
         Enqueue, MarkRetry, workerVars
    <2>3. CASE DeleteStep(p)
      BY <2>3 DEF DeleteStep, CancelTaskRun, FindFollowed, RemoveAria2, RemoveDownloadIfPresent,
         EraseRow, workerVars
    <2>. QED
      BY <1>4, <2>1, <2>2, <2>3 DEF ProcStep
  <1>5. CASE \/ \E t \in Tasks : RecoverDelete(t)
             \/ StartService \/ ServiceStarted \/ Shutdown \/ Aria2Step \/ UNCHANGED vars
    <2>1. UNCHANGED <<taskRuns, wpc, wtask>>
      BY <1>5 DEF RecoverDelete, StartService, ServiceStarted, Shutdown, Aria2Step, vars, workerVars
    <2>. QED
      BY <1>2, <2>1
  <1>6. CASE StartFails \/ Exit \/ Crash
    BY <1>3, <1>6 DEF StartFails, Exit, Crash
  <1>. QED
    BY <1>1, <1>2, <1>4, <1>5, <1>6 DEF Next, GatewayStep

\* registerTaskRun admits one run of a task, and nothing but that run's own end
\* takes it out of taskRuns again; whoever deletes, and whenever.
THEOREM ExclusiveRuns == Spec => []OneRunPerTask
  <1>1. Init => RunsRegistered
    BY DEF Init, WorkerInit, RunsRegistered, InTable, RunPcs
  <1>2. TypeOK /\ RunsRegistered /\ [Next]_vars => RunsRegistered'
    BY RunsStep
  <1>3. RunsRegistered => OneRunPerTask
    BY DEF RunsRegistered, OneRunPerTask, InTable
  <1>. QED
    BY TypeInit, TypeStep, <1>1, <1>2, <1>3, PTL DEF Spec

-----------------------------------------------------------------------------
(* Runs, deletes and creates keep out of each other's way.                 *)

Inv == TypeOK /\ SafetyInv

USE DEF Inv, SafetyInv
USE BootAssumption, NoneAssumption DEF Procs

\* In the initial state nobody runs, waits, deletes or creates.
LEMMA SafetyInit == Init => Inv
  <1>. SUFFICES ASSUME Init PROVE SafetyInv
    BY TypeInit
  <1>1. /\ \A w \in Workers : wpc[w] = "idle"
        /\ \A t \in Tasks : taskRuns[t] = None
        /\ \A p \in Procs : hpc[p] = "idle" /\ awaits[p] = None
    BY DEF Init, WorkerInit, RequestInit
  <1>. QED
    BY <1>1 DEF RunsRegistered, InTable, RunPcs, WaitsForRun, DeletingRows, CreatingRows,
       DeletePcs, CreatePcs, ClearOfRuns, PastCancel, Removing, Touching

-----------------------------------------------------------------------------
(* The steps of a worker. *)

\* Rows change under the hands of a worker only while they are writable, and
\* stay writable.
RowsStayWritable ==
  \A t \in Tasks : status'[t] # status[t] => Writable(t) /\ Writable(t)'

\* Such a step leaves the rows in the hands of deleteTask and Create as they
\* have to be.
LEMMA RowsKept ==
  ASSUME Inv, RowsStayWritable, UNCHANGED <<hpc, htask>>
  PROVE  DeletingRows' /\ CreatingRows'
  <1>1. \A p \in Procs : hpc[p] \in DeletePcs \cup CreatePcs => htask[p] \in Tasks
    BY DEF TypeOK, TaskKnown, DeletePcs, CreatePcs
  <1>2. DeletingRows'
    BY <1>1 DEF DeletingRows, RowsStayWritable, Writable, HasRow, Statuses
  <1>3. CreatingRows'
    BY <1>1 DEF CreatingRows, RowsStayWritable, Writable, HasRow
  <1>. QED
    BY <1>2, <1>3

\* A step from one point of a run to another: it reaches the task's files only
\* from a point that already could, or with the row seen writable.
RunMove(w, pc) ==
  /\ wpc[w] \in RunPcs /\ pc \in RunPcs
  /\ wpc' = [wpc EXCEPT ![w] = pc]
  /\ pc \in Touching => wpc[w] \in Touching \/ Writable(wtask[w])
  /\ UNCHANGED <<taskRuns, wtask, awaits, hpc, htask>>

\* Such a step keeps the waiters and the separation of runs from deletions.
LEMMA RunMoveSafe ==
  ASSUME Inv, NEW w \in Workers, NEW pc, RunMove(w, pc)
  PROVE  WaitsForRun' /\ ClearOfRuns'
  <1>. USE DEF RunMove, TypeOK, WorkerType
  <1>1. WaitsForRun'
    BY DEF RunsRegistered, InTable, WaitsForRun
  <1>2. ClearOfRuns'
    <2>. SUFFICES ASSUME NEW p \in Procs, NEW v \in Workers,
                         PastCancel(p)', wtask'[v] = htask'[p], wpc'[v] \in Touching
                  PROVE  FALSE
      BY DEF ClearOfRuns
    <2>1. PastCancel(p) /\ wtask[v] = htask[p]
      BY DEF PastCancel
    <2>2. wpc[v] \notin Touching
      BY <2>1 DEF ClearOfRuns
    <2>3. v = w /\ Writable(wtask[w])
      BY <2>2
    <2>4. status[htask[p]] \in {"deleting", "erased"}
      BY <2>1 DEF DeletingRows, PastCancel, Removing, DeletePcs
    <2>. QED
      BY <2>1, <2>3, <2>4 DEF Writable, HasRow, Statuses
  <1>. QED
    BY <1>1, <1>2

\* Every step between the registration and the close of a run is of that kind.
LEMMA RunMoves ==
  ASSUME Inv, NEW w \in Workers, UNCHANGED handlerVars,
         \/ Reread(w) \/ Claim(w) \/ CleanupMetadata(w) \/ UploadEnds(w)
         \/ RemoveUploaded(w) \/ MarkCompleted(w) \/ MarkFailed(w)
  PROVE  RowsStayWritable /\ \E pc : RunMove(w, pc)
  <1>. USE DEF TypeOK, WorkerType, StoreType, handlerVars, runFrame, Goto, RunPcs, Touching,
           RunMove, RowsStayWritable
  <1>1. CASE Reread(w)
    BY <1>1 DEF Reread
  <1>2. CASE Claim(w)
    BY <1>2 DEF Claim, SetStatus, Writable, HasRow, Statuses
  <1>3. CASE CleanupMetadata(w)
    BY <1>3 DEF CleanupMetadata
  <1>4. CASE UploadEnds(w)
    BY <1>4 DEF UploadEnds, UploadSucceeds, UploadFails
  <1>5. CASE RemoveUploaded(w)
    BY <1>5 DEF RemoveUploaded
  <1>6. CASE MarkCompleted(w)
    BY <1>6 DEF MarkCompleted, MayContinue, SetStatus, Writable, HasRow, Statuses
  <1>7. CASE MarkFailed(w)
    BY <1>7 DEF MarkFailed, MayContinue, SetStatus, Writable, HasRow, Statuses
  <1>. QED
    BY <1>1, <1>2, <1>3, <1>4, <1>5, <1>6, <1>7

\* The remaining steps, which enter and leave the table of runs.
LEMMA TableSteps ==
  ASSUME Inv, NEW w \in Workers, UNCHANGED handlerVars,
         \/ \E t \in Tasks : Dequeue(w, t)
         \/ GetTask(w) \/ RegisterTaskRun(w) \/ CloseRun(w) \/ UnregisterTaskRun(w)
  PROVE  RowsStayWritable /\ WaitsForRun' /\ ClearOfRuns'
  <1>. USE DEF TypeOK, WorkerType, handlerVars, storeVars, Goto
  <1>0. RowsStayWritable
    BY DEF RowsStayWritable, Dequeue, GetTask, RegisterTaskRun, CloseRun, UnregisterTaskRun
  <1>1. CASE (\E t \in Tasks : Dequeue(w, t)) \/ GetTask(w)
    <2>1. /\ wpc[w] \in {"idle", "get"}
          /\ wpc' \in {[wpc EXCEPT ![w] = pc] : pc \in {"idle", "get", "register"}}
          /\ \A v \in Workers \ {w} : wtask'[v] = wtask[v]
          /\ UNCHANGED <<taskRuns, awaits, hpc, htask>>
      BY <1>1 DEF Dequeue, GetTask, DropJob
    <2>2. WaitsForRun'
      BY <2>1 DEF WaitsForRun, RunPcs
    <2>3. ClearOfRuns'
      BY <2>1 DEF ClearOfRuns, PastCancel, Touching
    <2>. QED
      BY <1>0, <2>2, <2>3
  <1>2. CASE RegisterTaskRun(w) /\ taskRuns[wtask[w]] = None
    <2>1. /\ wpc[w] = "register" /\ wtask[w] \in Tasks
          /\ wpc' = [wpc EXCEPT ![w] = "reread"]
          /\ taskRuns' = [taskRuns EXCEPT ![wtask[w]] = w]
          /\ UNCHANGED <<wtask, awaits, hpc, htask>>
      BY <1>2 DEF RegisterTaskRun, TaskKnown
    <2>2. WaitsForRun'
      BY <1>2, <2>1 DEF WaitsForRun, RunPcs
    <2>3. ClearOfRuns'
      BY <2>1 DEF ClearOfRuns, PastCancel, Touching
    <2>. QED
      BY <1>0, <2>2, <2>3
  <1>3. CASE RegisterTaskRun(w) /\ taskRuns[wtask[w]] # None
    <2>1. /\ wpc[w] = "register"
          /\ wpc' = [wpc EXCEPT ![w] = "idle"]
          /\ wtask' = [wtask EXCEPT ![w] = None]
          /\ UNCHANGED <<taskRuns, awaits, hpc, htask>>
      BY <1>3 DEF RegisterTaskRun, DropJob
    <2>2. WaitsForRun'
      BY <2>1 DEF WaitsForRun, RunPcs
    <2>3. ClearOfRuns'
      BY <2>1 DEF ClearOfRuns, PastCancel, Touching
    <2>. QED
      BY <1>0, <2>2, <2>3
  <1>4. CASE CloseRun(w)
    <2>1. /\ wpc[w] = "close"
          /\ wpc' = [wpc EXCEPT ![w] = "unregister"]
          /\ awaits' = [p \in Procs |-> IF awaits[p] = w THEN None ELSE awaits[p]]
          /\ UNCHANGED <<taskRuns, wtask, hpc, htask>>
      BY <1>4 DEF CloseRun
    <2>2. WaitsForRun'
      BY <2>1 DEF WaitsForRun
    <2>3. ClearOfRuns'
      <3>. SUFFICES ASSUME NEW p \in Procs, NEW v \in Workers,
                           PastCancel(p)', wtask'[v] = htask'[p], wpc'[v] \in Touching
                    PROVE  FALSE
        BY DEF ClearOfRuns
      <3>1. v # w /\ wpc[v] \in Touching /\ wtask[v] = htask[p]
        BY <2>1 DEF Touching
      <3>2. CASE PastCancel(p)
        BY <3>1, <3>2 DEF ClearOfRuns
      <3>3. CASE awaits[p] = w
        BY <3>1, <3>3 DEF WaitsForRun, RunsRegistered, InTable, Touching, RunPcs
      <3>. QED
        BY <2>1, <3>2, <3>3 DEF PastCancel
    <2>. QED
      BY <1>0, <2>2, <2>3
  <1>5. CASE UnregisterTaskRun(w)
    <2>1. /\ wpc[w] = "unregister"
          /\ wpc' = [wpc EXCEPT ![w] = "idle"]
          /\ wtask' = [wtask EXCEPT ![w] = None]
          /\ taskRuns' = [taskRuns EXCEPT ![wtask[w]] = None]
          /\ UNCHANGED <<awaits, hpc, htask>>
      BY <1>5 DEF UnregisterTaskRun
    <2>2. WaitsForRun'
      BY <2>1 DEF WaitsForRun, RunsRegistered, InTable, RunPcs, TaskKnown
    <2>3. ClearOfRuns'
      BY <2>1 DEF ClearOfRuns, PastCancel, Touching
    <2>. QED
      BY <1>0, <2>2, <2>3
  <1>. QED
    BY <1>1, <1>2, <1>3, <1>4, <1>5

\* A worker's step keeps the invariant.
LEMMA WorkerSafe ==
  ASSUME Inv, NEW w \in Workers, WorkerStep(w), UNCHANGED handlerVars
  PROVE  SafetyInv' /\ RowsStayWritable
  <1>1. RowsStayWritable /\ WaitsForRun' /\ ClearOfRuns'
    BY RunMoves, RunMoveSafe, TableSteps DEF WorkerStep, RunStep
  <1>2. RunsRegistered'
    BY WorkerRuns
  <1>. QED
    BY <1>1, <1>2, RowsKept DEF handlerVars

-----------------------------------------------------------------------------
(* The steps of a request. *)

\* What may happen to a row: it is created; changes while it is writable; is
\* marked deleting when no Create still works on it; is erased once deleting.
RowStep(t) ==
  \/ status'[t] = status[t]
  \/ Writable(t) /\ Writable(t)'
  \/ status[t] = "new" /\ Writable(t)'
  \/ ~BeingCreated(t) /\ HasRow(t) /\ status'[t] = "deleting"
  \/ status[t] \in {"deleting", "erased"} /\ status'[t] = "erased"

\* A step of p only: the workers and the other requests stay where they are,
\* and p does not get past the cancel of a run.
RequestMove(p) ==
  /\ UNCHANGED <<taskRuns, wpc, wtask, awaits>>
  /\ \A q \in Procs \ {p} : hpc'[q] = hpc[q] /\ htask'[q] = htask[q]
  /\ hpc[p] = "awaitRun" => awaits[p] = None
  /\ PastCancel(p)' => PastCancel(p) /\ htask'[p] = htask[p]

\* The row q works on is as q's next step expects it.
RowFits(q) ==
  /\ hpc'[q] \in DeletePcs => status'[htask'[q]] \in {"deleting", "erased"}
  /\ hpc'[q] \in CreatePcs => Writable(htask[q])'

RequestSafe(p) == RequestMove(p) /\ RowFits(p) /\ \A t \in Tasks : RowStep(t)

\* Such a step keeps the invariant.
LEMMA RequestMoveSafe ==
  ASSUME Inv, NEW p \in Procs, RequestMove(p)
  PROVE  RunsRegistered' /\ WaitsForRun' /\ ClearOfRuns'
  <1>1. RunsRegistered'
    BY DEF RunsRegistered, InTable, RequestMove
  <1>2. WaitsForRun'
    BY DEF WaitsForRun, RequestMove
  <1>3. ClearOfRuns'
    BY DEF ClearOfRuns, RequestMove, PastCancel
  <1>. QED
    BY <1>1, <1>2, <1>3

\* Where a request does not move, its row still fits.
LEMMA OtherRows ==
  ASSUME Inv, NEW q \in Procs, \A t \in Tasks : RowStep(t),
         hpc'[q] = hpc[q], htask'[q] = htask[q]
  PROVE  RowFits(q)
  <1>1. CASE hpc[q] \in DeletePcs
    <2>1. htask[q] \in Tasks /\ status[htask[q]] \in {"deleting", "erased"}
      BY <1>1 DEF DeletingRows, TypeOK, TaskKnown, DeletePcs
    <2>. QED
      BY <1>1, <2>1 DEF RowFits, RowStep, Writable, HasRow, Statuses, DeletePcs, CreatePcs
  <1>2. CASE hpc[q] \in CreatePcs
    <2>1. htask[q] \in Tasks /\ Writable(htask[q])
      BY <1>2 DEF CreatingRows, TypeOK, TaskKnown, CreatePcs
    <2>2. BeingCreated(htask[q])
      BY <1>2 DEF BeingCreated
    <2>. QED
      BY <1>2, <2>1, <2>2 DEF RowFits, RowStep, Writable, HasRow, Statuses, DeletePcs, CreatePcs
  <1>. QED
    BY <1>1, <1>2 DEF RowFits

\* A step of one request keeps the invariant.
LEMMA RequestSafeInv ==
  ASSUME Inv, NEW p \in Procs, RequestSafe(p)
  PROVE  SafetyInv'
  <1>1. \A q \in Procs : RowFits(q)
    BY OtherRows DEF RequestSafe, RequestMove
  <1>2. DeletingRows' /\ CreatingRows'
    BY <1>1 DEF RowFits, DeletingRows, CreatingRows
  <1>. QED
    BY <1>2, RequestMoveSafe DEF RequestSafe

\* What an action does to p's own record, read off Begin, Answer and Step.
LEMMA Moved ==
  ASSUME Inv, NEW p \in Procs, NEW pc, NEW t, NEW l, Begin(p, pc, t, l)
  PROVE  /\ hpc'[p] = pc /\ htask'[p] = t
         /\ \A q \in Procs \ {p} : hpc'[q] = hpc[q] /\ htask'[q] = htask[q]
  BY DEF Begin, TypeOK, RequestType

\* The same for a step that keeps the task.
LEMMA Stepped ==
  ASSUME Inv, NEW p \in Procs, NEW pc, Step(p, pc) \/ \E l : StepWith(p, pc, l)
  PROVE  /\ hpc'[p] = pc /\ htask' = htask
         /\ \A q \in Procs \ {p} : hpc'[q] = hpc[q]
  BY DEF Step, StepWith, TypeOK, RequestType

\* The requests the server accepts are safe when clients wait for Create.
LEMMA NewRequestSafe ==
  ASSUME Inv, NEW p \in Procs, NewRequest(p), "delete" \notin DuringCreate
  PROVE  RequestSafe(p)
  <1>. USE DEF RequestSafe, RequestMove, RowFits, RowStep, PastCancel, Removing, DeletePcs, CreatePcs,
           workerVars, storeVars, TypeOK, StoreType, Accepts
  <1>1. ASSUME NEW t \in Tasks, CreateRow(p, t) PROVE RequestSafe(p)
    <2>1. /\ hpc'[p] = "add" /\ htask'[p] = t
          /\ \A q \in Procs \ {p} : hpc'[q] = hpc[q] /\ htask'[q] = htask[q]
      BY <1>1, Moved DEF CreateRow
    <2>2. status[t] = "new" /\ status' = [status EXCEPT ![t] = "queued"]
      BY <1>1 DEF CreateRow, SetStatus
    <2>. QED
      BY <1>1, <2>1, <2>2 DEF CreateRow, Writable, HasRow, Statuses
  <1>2. ASSUME NEW t \in Tasks, NEW g \in Gids, Completed(p, t, g) \/ Stopped(p, t, g)
        PROVE  RequestSafe(p)
    <2>1. /\ hpc'[p] \in {"resolve", "stopped"}
          /\ \A q \in Procs \ {p} : hpc'[q] = hpc[q] /\ htask'[q] = htask[q]
      BY <1>2, Moved DEF Completed, Stopped
    <2>. QED
      BY <1>2, <2>1 DEF Completed, Stopped
  <1>3. ASSUME NEW t \in Tasks, RetryUpload(p, t) PROVE RequestSafe(p)
    <2>1. /\ hpc'[p] = "retryUpload"
          /\ \A q \in Procs \ {p} : hpc'[q] = hpc[q] /\ htask'[q] = htask[q]
      BY <1>3, Moved DEF RetryUpload
    <2>. QED
      BY <1>3, <2>1 DEF RetryUpload
  <1>4. ASSUME NEW t \in Tasks, NEW full \in BOOLEAN, Delete(p, t, full) PROVE RequestSafe(p)
    <2>1. /\ hpc'[p] = "cancelRun" /\ htask'[p] = t
          /\ \A q \in Procs \ {p} : hpc'[q] = hpc[q] /\ htask'[q] = htask[q]
      BY <1>4, Moved DEF Delete
    <2>2. /\ HasRow(t) /\ ~BeingCreated(t)
          /\ status' = [status EXCEPT ![t] = "deleting"]
      BY <1>4 DEF Delete, Reaches, SetStatus
    <2>. QED
      BY <1>4, <2>1, <2>2 DEF Delete
  <1>. QED
    BY <1>1, <1>2, <1>3, <1>4 DEF NewRequest

\* An answer leaves the request with no task and no step.
LEMMA Answered ==
  ASSUME Inv, NEW p \in Procs, Answer(p)
  PROVE  /\ hpc'[p] = "idle"
         /\ \A q \in Procs \ {p} : hpc'[q] = hpc[q] /\ htask'[q] = htask[q]
  BY Moved DEF Answer

\* The later steps of Create write whatever the status is, which CreatingRows
\* shows to be writable.
LEMMA CreateSafe ==
  ASSUME Inv, NEW p \in Procs, CreateStep(p)
  PROVE  RequestSafe(p)
  <1>. USE DEF RequestSafe, RequestMove, RowFits, RowStep, PastCancel, Removing, DeletePcs, CreatePcs,
           workerVars, storeVars
  <1>0. CreateRefused(p) \/ /\ hpc[p] \in CreatePcs
                            /\ htask[p] \in Tasks /\ Writable(htask[p])
    BY DEF CreateStep, AddDownload, SaveGid, SaveFailure, CreatingRows, TypeOK, TaskKnown
  <1>1. CASE CreateRefused(p)
    BY <1>1, Answered DEF CreateRefused
  <1>2. CASE AddDownload(p)
    <2>1. /\ hpc'[p] \in {"saveGid", "saveFailure"} /\ htask' = htask
          /\ \A q \in Procs \ {p} : hpc'[q] = hpc[q]
      BY <1>2, Stepped DEF AddDownload
    <2>2. htask[p] \in Tasks /\ Writable(htask[p]) /\ status' = status /\ hpc[p] = "add"
      BY <1>0, <1>2 DEF AddDownload, CreateRefused
    <2>3. Writable(htask[p])'
      BY <2>1, <2>2 DEF Writable, HasRow
    <2>. QED
      BY <1>2, <2>1, <2>2, <2>3 DEF AddDownload
  <1>3. CASE SaveGid(p) \/ SaveFailure(p)
    <2>1. /\ hpc'[p] = "idle"
          /\ \A q \in Procs \ {p} : hpc'[q] = hpc[q] /\ htask'[q] = htask[q]
      BY <1>3, Answered DEF SaveGid, SaveFailure
    <2>2. htask[p] \in Tasks /\ Writable(htask[p])
      BY <1>0, <1>3 DEF SaveGid, SaveFailure, CreateRefused
    <2>3. \E s \in {"downloading", "failed"} :
            status' = status \/ status' = [status EXCEPT ![htask[p]] = s]
      BY <1>3 DEF SaveGid, SaveFailure, SetStatus
    <2>4. \A t \in Tasks : RowStep(t)
      BY <2>2, <2>3 DEF Writable, HasRow, Statuses, TypeOK, StoreType
    <2>5. RequestMove(p) /\ RowFits(p)
      BY <1>3, <2>1 DEF SaveGid, SaveFailure
    <2>. QED
      BY <2>4, <2>5
  <1>. QED
    BY <1>1, <1>2, <1>3 DEF CreateStep

\* The hook handlers and the upload retry refuse a row being deleted.
LEMMA HookSafe ==
  ASSUME Inv, NEW p \in Procs, HookStep(p)
  PROVE  RequestSafe(p)
  <1>1. hpc[p] \in HookPcs \cup {"retryUpload"} /\ htask[p] \in Tasks
    BY DEF HookStep, Resolve, RememberGID, MarkNotReady, MarkResolveError, MarkStopped, MarkStatus,
       CommitPending, Enqueue, MarkRetry, HookPcs, TypeOK, TaskKnown
  <1>2. /\ hpc'[p] \in HookPcs \cup {"idle"}
        /\ \A q \in Procs \ {p} : hpc'[q] = hpc[q] /\ htask'[q] = htask[q]
    BY Stepped, Answered
       DEF HookStep, Resolve, RememberGID, MarkNotReady, MarkResolveError, MarkStopped, MarkStatus,
       CommitPending, Enqueue, MarkRetry, HookPcs
  <1>3. UNCHANGED <<taskRuns, wpc, wtask, awaits>>
    BY DEF HookStep, Resolve, RememberGID, MarkNotReady, MarkResolveError, MarkStopped, MarkStatus,
       CommitPending, Enqueue, MarkRetry, workerVars
  <1>4. \/ status' = status
        \/ /\ Writable(htask[p])
           /\ \E s \in {"downloading", "failed", "transfer_pending"} :
                status' = [status EXCEPT ![htask[p]] = s]
    BY DEF HookStep, Resolve, RememberGID, MarkNotReady, MarkResolveError, MarkStopped, MarkStatus,
       CommitPending, Enqueue, MarkRetry, SetStatus, storeVars
  <1>5. \A t \in Tasks : RowStep(t)
    BY <1>1, <1>4 DEF RowStep, Writable, HasRow, Statuses, TypeOK, StoreType
  <1>6. RequestMove(p)
    BY <1>1, <1>2, <1>3 DEF RequestMove, PastCancel, Removing, HookPcs
  <1>7. RowFits(p)
    BY <1>2 DEF RowFits, HookPcs, DeletePcs, CreatePcs
  <1>. QED
    BY <1>5, <1>6, <1>7 DEF RequestSafe

\* After the wait for the run, deleteTask only moves on or gives up.
LEMMA DeleteSafe ==
  ASSUME Inv, NEW p \in Procs, DeleteStep(p), ~CancelTaskRun(p)
  PROVE  RequestSafe(p)
  <1>. USE DEF DeleteStep, FindFollowed, RemoveAria2, RemoveDownloadIfPresent, EraseRow, Abort
  <1>1. PastCancel(p) /\ hpc[p] \in DeletePcs /\ htask[p] \in Tasks
    BY DEF PastCancel, Removing, DeletePcs, TypeOK, TaskKnown
  <1>2. status[htask[p]] \in {"deleting", "erased"}
    BY <1>1 DEF DeletingRows
  <1>3. UNCHANGED <<taskRuns, wpc, wtask, awaits>>
    BY DEF workerVars
  <1>4. \/ status' = status
        \/ status' = [status EXCEPT ![htask[p]] = "erased"]
    BY DEF SetStatus, storeVars
  <1>5. \/ Answer(p) \/ Begin(p, "recreate", None, NoLocal)
        \/ \E pc \in Removing : Step(p, pc) \/ \E l : StepWith(p, pc, l)
    BY DEF Removing
  <1>6. /\ \/ hpc'[p] \in {"idle", "recreate"}
           \/ hpc'[p] \in Removing /\ htask'[p] = htask[p]
        /\ \A q \in Procs \ {p} : hpc'[q] = hpc[q] /\ htask'[q] = htask[q]
    <2>1. CASE Answer(p)
      BY ONLY <2>1, Answered, Inv, p \in Procs
    <2>2. CASE Begin(p, "recreate", None, NoLocal)
      BY ONLY <2>2, Moved, Inv, p \in Procs
    <2>3. ASSUME NEW pc \in Removing, Step(p, pc) \/ \E l : StepWith(p, pc, l)
          PROVE  hpc'[p] \in Removing /\ htask' = htask /\ \A q \in Procs \ {p} : hpc'[q] = hpc[q]
      BY ONLY <2>3, pc \in Removing, Stepped, Inv, p \in Procs
    <2>. QED
      BY ONLY <1>5, <2>1, <2>2, <2>3
  <1>7. \A t \in Tasks : RowStep(t)
    BY <1>1, <1>2, <1>4 DEF RowStep, TypeOK, StoreType
  <1>8. RequestMove(p)
    BY <1>1, <1>3, <1>6 DEF RequestMove, PastCancel, Removing, DeletePcs
  <1>9. RowFits(p)
    BY <1>1, <1>2, <1>4, <1>6 DEF RowFits, Removing, DeletePcs, CreatePcs, TypeOK, StoreType
  <1>. QED
    BY <1>7, <1>8, <1>9 DEF RequestSafe

\* cancelTaskRun looks the run up, so that it waits for a registered one, or
\* finds none that can touch the files.
LEMMA CancelSafe ==
  ASSUME Inv, NEW p \in Procs, CancelTaskRun(p)
  PROVE  SafetyInv' /\ \A t \in Tasks : RowStep(t)
  <1>. USE DEF TypeOK, WorkerType, storeVars
  <1>1. /\ hpc[p] = "cancelRun" /\ htask[p] \in Tasks
        /\ hpc'[p] = "awaitRun" /\ htask' = htask
        /\ \A q \in Procs \ {p} : hpc'[q] = hpc[q]
    BY Stepped DEF CancelTaskRun, TaskKnown
  <1>2. UNCHANGED <<status, taskRuns, wpc, wtask>> /\ \A t \in Tasks : RowStep(t)
    BY DEF CancelTaskRun, RowStep
  <1>3. /\ \A q \in Procs \ {p} : awaits'[q] = awaits[q]
        /\ taskRuns[htask[p]] = None => awaits'[p] = awaits[p]
        /\ taskRuns[htask[p]] # None =>
             awaits'[p] = IF wpc[taskRuns[htask[p]]] = "unregister" THEN None ELSE taskRuns[htask[p]]
    BY DEF CancelTaskRun
  <1>4. awaits[p] = None
    BY <1>1 DEF WaitsForRun
  <1>5. RunsRegistered'
    BY <1>2 DEF RunsRegistered, InTable
  <1>6. WaitsForRun'
    <2>. SUFFICES ASSUME NEW q \in Procs, awaits'[q] # None
                  PROVE  /\ hpc'[q] = "awaitRun"
                         /\ taskRuns[htask[q]] = awaits'[q]
                         /\ wpc[awaits'[q]] \in RunPcs
      BY <1>1, <1>2 DEF WaitsForRun
    <2>1. CASE q = p
      BY <1>1, <1>3, <1>4, <2>1 DEF RunsRegistered, InTable
    <2>2. CASE q # p
      BY <1>1, <1>3, <2>2 DEF WaitsForRun
    <2>. QED
      BY <2>1, <2>2
  <1>7. DeletingRows' /\ CreatingRows'
    BY <1>1, <1>2 DEF DeletingRows, CreatingRows, DeletePcs, CreatePcs, Writable, HasRow
  <1>8. ClearOfRuns'
    <2>. SUFFICES ASSUME NEW q \in Procs, NEW v \in Workers,
                         PastCancel(q)', wtask[v] = htask[q], wpc[v] \in Touching
                  PROVE  FALSE
      BY <1>1, <1>2 DEF ClearOfRuns
    <2>1. CASE q # p
      BY <1>1, <1>3, <2>1 DEF ClearOfRuns, PastCancel
    <2>2. CASE q = p
      <3>1. taskRuns[htask[p]] = v /\ wpc[v] # "unregister"
        BY <2>2 DEF RunsRegistered, InTable, RunPcs, Touching
      <3>2. awaits'[p] = None
        BY <1>1, <2>2 DEF PastCancel, Removing
      <3>. QED
        BY <1>3, <3>1, <3>2
    <2>. QED
      BY <2>1, <2>2
  <1>. QED
    BY <1>2, <1>5, <1>6, <1>7, <1>8

\* Start finds the rows a previous process left deleting.
LEMMA RecoverSafe ==
  ASSUME Inv, NEW t \in Tasks, RecoverDelete(t)
  PROVE  RequestSafe(Boot)
  <1>1. /\ hpc'[Boot] = "cancelRun" /\ htask'[Boot] = t
        /\ \A q \in Procs \ {Boot} : hpc'[q] = hpc[q] /\ htask'[q] = htask[q]
    BY Moved DEF RecoverDelete
  <1>. QED
    BY <1>1 DEF RecoverDelete, RequestSafe, RequestMove, RowFits, RowStep, PastCancel, Removing,
       DeletePcs, CreatePcs, workerVars, storeVars

-----------------------------------------------------------------------------
(* The process as a whole. *)

\* A process that lost its memory has no runs, no waiters and no requests.
LEMMA MemoryLostSafe ==
  ASSUME LoseMemory
  PROVE  SafetyInv' /\ \A t \in Tasks : RowStep(t)
  <1>1. /\ \A w \in Workers : wpc'[w] = "idle"
        /\ \A t \in Tasks : taskRuns'[t] = None
        /\ \A p \in Procs : hpc'[p] = "idle" /\ awaits'[p] = None
    BY DEF LoseMemory
  <1>2. SafetyInv'
    BY <1>1 DEF RunsRegistered, InTable, RunPcs, WaitsForRun, DeletingRows, CreatingRows,
       DeletePcs, CreatePcs, ClearOfRuns, PastCancel, Removing, Touching
  <1>. QED
    BY <1>2 DEF LoseMemory, RowStep, storeVars

\* A step that leaves the runs, the requests and the rows alone.
LEMMA FrameSafe ==
  ASSUME Inv, UNCHANGED <<status, taskRuns, wpc, wtask, awaits, hpc, htask>>
  PROVE  SafetyInv' /\ \A t \in Tasks : RowStep(t)
  BY DEF RunsRegistered, InTable, WaitsForRun, DeletingRows, CreatingRows, Writable, HasRow,
     ClearOfRuns, PastCancel, RowStep

\* Every step keeps the invariant, and treats every row as RowStep says.
LEMMA SafetyStep ==
  ASSUME Inv, [Next]_vars, "delete" \notin DuringCreate
  PROVE  Inv' /\ \A t \in Tasks : RowStep(t)
  <1>1. TypeOK'
    BY TypeStep
  <1>2. ASSUME NEW p \in Procs, NewRequest(p) \/ ProcStep(p)
        PROVE  SafetyInv' /\ \A t \in Tasks : RowStep(t)
    BY <1>2, NewRequestSafe, CreateSafe, HookSafe, DeleteSafe, CancelSafe, RequestSafeInv
       DEF ProcStep, RequestSafe
  <1>3. ASSUME NEW t \in Tasks, RecoverDelete(t)
        PROVE  SafetyInv' /\ \A u \in Tasks : RowStep(u)
    BY <1>3, RecoverSafe, RequestSafeInv DEF RequestSafe
  <1>4. ASSUME NEW w \in Workers, WorkerStep(w), UNCHANGED handlerVars
        PROVE  SafetyInv' /\ \A t \in Tasks : RowStep(t)
    BY <1>4, WorkerSafe DEF RowStep, RowsStayWritable
  <1>5. CASE StartService \/ ServiceStarted \/ Shutdown \/ Aria2Step
    BY <1>1, <1>5, FrameSafe DEF StartService, ServiceStarted, Shutdown, Aria2Step, Aria2Next,
       MetadataCompletes, DownloadCompletes, DownloadStops, HookExits,
       storeVars, workerVars, handlerVars
  <1>6. CASE StartFails \/ Exit \/ Crash
    BY <1>1, <1>6, MemoryLostSafe DEF StartFails, Exit, Crash
  <1>7. CASE UNCHANGED vars
    BY <1>1, <1>7, FrameSafe DEF vars, storeVars, workerVars, handlerVars
  <1>8. SafetyInv' /\ \A t \in Tasks : RowStep(t)
    BY <1>2, <1>3, <1>4, <1>5, <1>6, <1>7 DEF Next, GatewayStep
  <1>. QED
    BY <1>1, <1>8

\* The invariant says what it is for: the removal of a task's files excludes the
\* runs that touch them.
LEMMA InvImplies == Inv => NoTransferDuringDelete
  BY DEF NoTransferDuringDelete, ClearOfRuns, PastCancel

-----------------------------------------------------------------------------
\* deleteTask removes the downloads, the directory and the row of a task only
\* when no worker can read or remove the task's files or set its status: the
\* mark before the lookup of the run and the worker's claim after its
\* registration leave no order in which each misses the other.
THEOREM TransferDeleteExclusion ==
  ASSUME "delete" \notin DuringCreate
  PROVE  Spec => []NoTransferDuringDelete
  <1>1. Inv /\ [Next]_vars => Inv'
    BY SafetyStep
  <1>2. Inv => NoTransferDuringDelete
    BY InvImplies
  <1>. QED
    BY SafetyInit, <1>1, <1>2, PTL DEF Spec

\* No hook, retry, worker or late Create takes a row out of deleting: it stays
\* deleting, over failed deletes and restarts, until it is erased.
THEOREM DeletingFinality ==
  ASSUME "delete" \notin DuringCreate
  PROVE  Spec => DeletingIsFinal
  <1>1. Inv /\ [Next]_vars => Inv'
    BY SafetyStep
  <1>2. Inv /\ [Next]_vars =>
          [\A t \in Tasks : status[t] = "deleting" => status'[t] \in {"deleting", "erased"}]_vars
    BY SafetyStep DEF RowStep, Writable
  <1>. QED
    BY SafetyInit, <1>1, <1>2, PTL DEF Spec, DeletingIsFinal

\* taskRuns, the runs that deletes wait for and the rows in the hands of Create
\* and deleteTask agree in every state, whatever fails and restarts.
THEOREM HoldersAgree ==
  ASSUME "delete" \notin DuringCreate
  PROVE  Spec => []SafetyInv
  <1>1. Inv /\ [Next]_vars => Inv'
    BY SafetyStep
  <1>2. Inv => SafetyInv
    OBVIOUS
  <1>. QED
    BY SafetyInit, <1>1, <1>2, PTL DEF Spec
=============================================================================
