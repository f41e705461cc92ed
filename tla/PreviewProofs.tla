---------------------------- MODULE PreviewProofs ----------------------------
(***************************************************************************)
(* Previews clean up after themselves, a job that can be found is alive,   *)
(* its status moves forward and the shutdown reaches every job: proved for *)
(* any number of jobs and clients and every combination of faults.         *)
(***************************************************************************)
EXTENDS PreviewJobs, TLAPS

\* A job that was not created leaves no trace.
Untouched(j) ==
  jobStatus[j] = "none" =>
    /\ pc[j] = "none" /\ timer[j] = "unset" /\ jobCtx[j] = "live"
    /\ j \notin previewJobs \cup toMark
    /\ \A c \in Clients : deleting[c] # j

\* The status and the step of the goroutine agree, but for a cancellation.
StepFits(j) ==
  /\ pc[j] = "none" => jobStatus[j] = "none"
  /\ pc[j] \in MagnetPcs => j \in magnets
  /\ pc[j] = "start" => jobStatus[j] \in {"queued", "cancelled"}
  /\ pc[j] \in MagnetPcs \cup TorrentPcs \cup {"finish"} => jobStatus[j] \in {"running", "cancelled"}
  /\ pc[j] = "release" => jobStatus[j] \in {"completed", "failed", "cancelled"}
  /\ HasEnded(j) => pc[j] \in {"release", "end", "killed"}

\* Whoever is about to cancel a job has taken it out before.
FoundIsSafe(j) ==
  j \in previewJobs =>
    /\ jobStatus[j] # "cancelled"
    /\ jobCtx[j] = "cancelled" => HasEnded(j)
    /\ j \notin toMark /\ timer[j] # "firing"
    /\ \A c \in Clients : c \in removed => deleting[c] # j

\* A directory or download that the preview knows of exists only between the
\* step that makes it and the step that removes it.
TempFits(j) ==
  j \notin spoiled =>
    /\ <<j, "torrent">> \in dirs => pc[j] \in {"addTorrent", "files", "cancelTorrent", "rmTorrent", "killed"}
    /\ dl[<<j, "torrent">>] \in {"active", "paused"} => pc[j] \in {"files", "cancelTorrent", "killed"}
    /\ <<j, "meta">> \in dirs => pc[j] \in (MagnetPcs \cup TorrentPcs \cup {"killed"}) \ {"mkMeta"}
    /\ <<j, "meta">> \in dirs /\ pc[j] \in TorrentPcs => j \in magnets
    /\ dl[<<j, "meta">>] \in {"active", "paused"} => pc[j] \in {"wait", "cancelMeta", "killed"}
    /\ HasEnded(j) => Leftovers(j) = {}

\* Close marks only between its two steps, and after the second one has taken
\* its list only late jobs are left.  A DELETE that has taken a job out has one.
CloserFits ==
  /\ \A c \in removed : deleting[c] # None
  /\ toMark # {} => closer \in {"marking", "markingAgain"}
  /\ closer \in {"markingAgain", "closed"} => previewJobs \subseteq late

\* Somebody still holds every job whose context is live.
Accounted(j) ==
  closer # "exited" /\ jobStatus[j] # "none" =>
    \/ j \in previewJobs \cup toMark
    \/ jobCtx[j] = "cancelled" \/ timer[j] = "firing"
    \/ \E c \in Clients : deleting[c] = j /\ c \in removed

JobFits(j) ==
  Untouched(j) /\ StepFits(j) /\ FoundIsSafe(j) /\ TempFits(j) /\ Accounted(j)

Inv == TypeOK /\ CloserFits /\ \A j \in Jobs : JobFits(j)

USE JobsAssumption

\* The leftovers of a job, one by one.
LEMMA LeftoversAre ==
  ASSUME NEW j \in Jobs, TypeOK
  PROVE  Leftovers(j) = {} <=>
           /\ \A k \in Kinds : <<j, k>> \notin dirs
           /\ \A k \in Kinds : dl[<<j, k>>] \notin {"active", "paused"}
  BY DEF Leftovers, TypeOK, PreviewType

LEMMA LeftoversAreNext ==
  ASSUME NEW j \in Jobs, TypeOK'
  PROVE  Leftovers(j)' = {} <=>
           /\ \A k \in Kinds : <<j, k>> \notin dirs'
           /\ \A k \in Kinds : dl'[<<j, k>>] \notin {"active", "paused"}
  BY DEF Leftovers, TypeOK, PreviewType

LEMMA InvInit == Init => Inv
  <1>. SUFFICES ASSUME Init PROVE Inv
    OBVIOUS
  <1>1. TypeOK /\ CloserFits
    BY DEF Init, TypeOK, ServerType, PreviewType, ControlType, CloserFits, JobPcs, Closing
  <1>2. ASSUME NEW j \in Jobs PROVE JobFits(j)
    BY <1>1, LeftoversAre DEF Init, JobFits, Untouched, StepFits, FoundIsSafe, TempFits, Accounted,
       HasEnded, MagnetPcs, TorrentPcs, Kinds
  <1>. QED
    BY <1>1, <1>2 DEF Inv

\* The steps of a goroutine, one by one.
LEMMA Steps ==
  {"none", "start", "killed", "mkMeta", "addMeta", "wait", "find", "cancelMeta", "rmMeta",
   "mkTorrent", "addTorrent", "files", "cancelTorrent", "rmTorrent", "finish", "release", "end"}
    \subseteq JobPcs
  BY DEF JobPcs, MagnetPcs, TorrentPcs, EndPcs

\* A step of a goroutine keeps the types.
LEMMA JobStepTypes ==
  ASSUME TypeOK, NEW j \in Jobs, JobStep(j)
  PROVE  TypeOK'
  <1>. USE Steps DEF TypeOK, Goto, Fail, jobFrame, AfterTorrent
  <1>1. ControlType'
    BY DEF JobStep, OwnStep, MarkRunning, MakeMetaDir, MakeTorrentDir, MakeDir, AddMagnet, AddPausedTorrent,
       Add, WaitForCompletion, PollFails, FindTorrent, ListFiles, CleanUp, CancelDownload, RemoveDir, Finish,
       ReleaseCtx, ControlType, controlVars
  <1>2. ServerType'
    BY DEF JobStep, OwnStep, MarkRunning, MakeMetaDir, MakeTorrentDir, MakeDir, AddMagnet, AddPausedTorrent,
       Add, WaitForCompletion, PollFails, FindTorrent, ListFiles, CleanUp, CancelDownload, RemoveDir, Finish,
       ReleaseCtx, CancelCtx, ServerType, JobStatuses
  <1>. USE DEF PreviewType, Kinds
  <1>3. CASE MarkRunning(j)
    BY <1>1, <1>2, <1>3 DEF MarkRunning
  <1>4. CASE MakeMetaDir(j) \/ MakeTorrentDir(j)
    BY <1>1, <1>2, <1>4 DEF MakeMetaDir, MakeTorrentDir, MakeDir
  <1>5. CASE AddMagnet(j)
    BY <1>1, <1>2, <1>5 DEF AddMagnet, Add
  <1>6. CASE AddPausedTorrent(j)
    BY <1>1, <1>2, <1>6 DEF AddPausedTorrent, Add
  <1>7. CASE WaitForCompletion(j) \/ PollFails(j) \/ FindTorrent(j) \/ ListFiles(j)
    BY <1>1, <1>2, <1>7 DEF WaitForCompletion, PollFails, FindTorrent, ListFiles
  <1>8. CASE CleanUp(j)
    <2>1. ASSUME NEW kind \in Kinds, NEW at, NEW next \in JobPcs, CancelDownload(j, kind, at, next)
          PROVE  PreviewType' /\ spoiled' \subseteq Jobs
      BY <2>1 DEF CancelDownload
    <2>2. ASSUME NEW kind \in Kinds, NEW at, NEW next \in JobPcs, RemoveDir(j, kind, at, next)
          PROVE  PreviewType' /\ spoiled' \subseteq Jobs
      BY <2>2 DEF RemoveDir
    <2>. QED
      BY <1>1, <1>2, <1>8, <2>1, <2>2 DEF CleanUp
  <1>9. CASE Finish(j) \/ ReleaseCtx(j)
    BY <1>1, <1>2, <1>9 DEF Finish, ReleaseCtx
  <1>. QED
    BY <1>3, <1>4, <1>5, <1>6, <1>7, <1>8, <1>9 DEF JobStep, OwnStep

LEMMA InvTypes == TypeOK /\ [Next]_vars => TypeOK'
  <1>. SUFFICES ASSUME TypeOK, [Next]_vars PROVE TypeOK'
    OBVIOUS
  <1>. USE Steps DEF TypeOK, ServerType, ControlType, Goto, CancelCtx, CancelAndMark,
       serverVars, previewVars, controlVars
  <1>1. ASSUME NEW j \in Jobs, CreatePreviewJob(j) PROVE TypeOK'
    BY <1>1 DEF CreatePreviewJob, PreviewType, JobStatuses
  <1>2. ASSUME NEW j \in Jobs, TimerFires(j) \/ TimerCancels(j) \/ CloseMark(j)
        PROVE  TypeOK'
    BY <1>2 DEF TimerFires, TimerCancels, CloseMark, PreviewType, JobStatuses
  <1>3. ASSUME NEW j \in Jobs, Expire(j) \/ MetadataArrives(j) \/ MetadataFails(j)
        PROVE  TypeOK'
    BY <1>3 DEF Expire, MetadataArrives, MetadataFails, PreviewType, Kinds
  <1>4. ASSUME NEW c \in Clients,
               DeleteTakeOut(c) \/ DeleteMark(c) \/ \E j \in Jobs : DeleteLookup(c, j)
        PROVE  TypeOK'
    <2>. UNCHANGED previewVars
      BY <1>4 DEF DeleteTakeOut, DeleteMark, DeleteLookup
    <2>1. PreviewType'
      BY DEF PreviewType
    <2>. QED
      BY <1>4, <2>1 DEF DeleteTakeOut, DeleteMark, DeleteLookup, JobStatuses
  <1>5. CASE Shutdown \/ CloseTakeOut \/ CloseReturns
    BY <1>5 DEF Shutdown, CloseTakeOut, CloseReturns, Closing, PreviewType
  <1>6. CASE Exit
    BY <1>6 DEF Exit, Closing, PreviewType
  <1>7. CASE UNCHANGED vars
    BY <1>7 DEF vars, PreviewType
  <1>. QED
    BY <1>1, <1>2, <1>3, <1>4, <1>5, <1>6, <1>7, JobStepTypes DEF Next
-----------------------------------------------------------------------------
(* Requests, timers and the closing server leave the previews alone. *)

LEMMA RequestsKeep ==
  ASSUME Inv, TypeOK',
         \/ \E j \in Jobs : TimerFires(j) \/ TimerCancels(j) \/ CloseMark(j)
         \/ \E c \in Clients : DeleteTakeOut(c) \/ DeleteMark(c) \/ \E j \in Jobs : DeleteLookup(c, j)
         \/ Shutdown \/ CloseTakeOut \/ CloseReturns
  PROVE  CloserFits' /\ \A k \in Jobs : JobFits(k)'
  <1>. USE DEF Inv, TypeOK, ServerType, ControlType, JobFits, Goto, CancelCtx, CancelAndMark
  <1>1. UNCHANGED <<previewVars, magnets, late, spoiled>>
    BY DEF TimerFires, TimerCancels, CloseMark, DeleteTakeOut, DeleteMark, DeleteLookup,
       Shutdown, CloseTakeOut, CloseReturns, controlVars
  <1>2. ASSUME NEW k \in Jobs
        PROVE  \/ jobStatus'[k] = jobStatus[k]
               \/ jobStatus'[k] = "cancelled" /\ jobStatus[k] # "none"
    BY DEF Untouched, TimerFires, TimerCancels, CloseMark, DeleteTakeOut, DeleteMark, DeleteLookup,
       Shutdown, CloseTakeOut, CloseReturns, serverVars
  <1>3. CloserFits'
    BY <1>1 DEF CloserFits, TimerFires, TimerCancels, CloseMark, DeleteTakeOut, DeleteMark,
       DeleteLookup, Shutdown, CloseTakeOut, CloseReturns, serverVars, controlVars
  <1>4. ASSUME NEW k \in Jobs PROVE Untouched(k)'
    BY <1>1 DEF Untouched, FoundIsSafe, TimerFires, TimerCancels, CloseMark, DeleteTakeOut, DeleteMark,
       DeleteLookup, Shutdown, CloseTakeOut, CloseReturns, serverVars, controlVars, previewVars
  <1>5. ASSUME NEW k \in Jobs PROVE StepFits(k)'
    BY <1>1, <1>2 DEF StepFits, HasEnded, previewVars
  <1>6. ASSUME NEW k \in Jobs PROVE FoundIsSafe(k)'
    <2>. USE DEF FoundIsSafe, HasEnded
    <2>1. ASSUME NEW j \in Jobs, TimerFires(j) \/ TimerCancels(j) PROVE FoundIsSafe(k)'
      BY <2>1 DEF TimerFires, TimerCancels, controlVars
    <2>2. ASSUME NEW j \in Jobs, CloseMark(j) PROVE FoundIsSafe(k)'
      BY <2>2 DEF CloseMark
    <2>3. ASSUME NEW c \in Clients, NEW j \in Jobs, DeleteLookup(c, j) PROVE FoundIsSafe(k)'
      <3>1. c \notin removed
        BY <2>3 DEF DeleteLookup, CloserFits
      <3>. QED
        BY <2>3, <3>1 DEF DeleteLookup, serverVars
    <2>4. ASSUME NEW c \in Clients, DeleteTakeOut(c) PROVE FoundIsSafe(k)'
      BY <2>4 DEF DeleteTakeOut
    <2>5. ASSUME NEW c \in Clients, DeleteMark(c) PROVE FoundIsSafe(k)'
      BY <2>5 DEF DeleteMark
    <2>6. CASE Shutdown \/ CloseTakeOut \/ CloseReturns
      BY <2>6 DEF Shutdown, CloseTakeOut, CloseReturns, serverVars
    <2>. QED
      BY <2>1, <2>2, <2>3, <2>4, <2>5, <2>6
  <1>7. ASSUME NEW k \in Jobs PROVE TempFits(k)'
    BY <1>1, <1>2 DEF TempFits, HasEnded, Leftovers, previewVars
  <1>8. ASSUME NEW k \in Jobs PROVE Accounted(k)'
    BY <1>1 DEF Accounted, TimerFires, TimerCancels, CloseMark, DeleteTakeOut, DeleteMark,
       DeleteLookup, Shutdown, CloseTakeOut, CloseReturns, CloserFits, serverVars, controlVars
  <1>. QED
    BY <1>3, <1>4, <1>5, <1>6, <1>7, <1>8

LEMMA CreateKeeps ==
  ASSUME Inv, TypeOK', NEW j \in Jobs, CreatePreviewJob(j)
  PROVE  CloserFits' /\ \A k \in Jobs : JobFits(k)'
  <1>. USE DEF Inv, TypeOK, ServerType, PreviewType, ControlType, JobFits, CreatePreviewJob, Goto
  <1>1. CloserFits'
    BY DEF CloserFits, Running, Closing
  <1>2. ASSUME NEW k \in Jobs, k # j PROVE JobFits(k)'
    BY <1>2 DEF Untouched, StepFits, FoundIsSafe, TempFits, Accounted, HasEnded, Leftovers
  <1>3. Untouched(j) /\ StepFits(j) /\ TempFits(j)
    OBVIOUS
  <1>4. Untouched(j)' /\ StepFits(j)' /\ Accounted(j)'
    BY <1>3 DEF Untouched, StepFits, Accounted, HasEnded, MagnetPcs, TorrentPcs
  <1>5. FoundIsSafe(j)'
    BY <1>3 DEF Untouched, FoundIsSafe
  <1>6. TempFits(j)'
    BY <1>3 DEF Untouched, TempFits, HasEnded, MagnetPcs, TorrentPcs
  <1>. QED
    BY <1>1, <1>2, <1>4, <1>5, <1>6

\* The deadline of a preview and the progress of its download.
LEMMA DaemonKeeps ==
  ASSUME Inv, TypeOK', NEW j \in Jobs, Expire(j) \/ MetadataArrives(j) \/ MetadataFails(j)
  PROVE  CloserFits' /\ \A k \in Jobs : JobFits(k)'
  <1>. USE DEF Inv, TypeOK, PreviewType, JobFits
  <1>1. UNCHANGED <<serverVars, controlVars, pc, spoiled>>
    BY DEF Expire, MetadataArrives, MetadataFails, controlVars
  <1>2. CloserFits' /\ \A k \in Jobs : (Untouched(k) /\ StepFits(k) /\ FoundIsSafe(k) /\ Accounted(k))'
    BY <1>1 DEF CloserFits, Untouched, StepFits, FoundIsSafe, Accounted, HasEnded, serverVars, controlVars
  <1>3. ASSUME NEW k \in Jobs, k # j PROVE TempFits(k)'
    <2>1. \A kind \in Kinds : dl'[<<k, kind>>] = dl[<<k, kind>>]
      BY <1>3 DEF Expire, MetadataArrives, MetadataFails, Kinds
    <2>2. \A kind \in Kinds : <<k, kind>> \in dirs' <=> <<k, kind>> \in dirs
      BY <1>3 DEF Expire, MetadataArrives, MetadataFails
    <2>. QED
      BY <1>1, <2>1, <2>2, LeftoversAre, LeftoversAreNext DEF TempFits, HasEnded, Kinds, serverVars, controlVars
  <1>4. TempFits(j)'
    <2>. USE DEF Kinds
    <2>1. CASE Expire(j)
      BY <2>1 DEF Expire, TempFits, HasEnded, Leftovers, serverVars, controlVars
    <2>2. CASE MetadataArrives(j) \/ MetadataFails(j)
      <3>1. j \in spoiled \/ (pc[j] \in {"wait", "cancelMeta", "killed"} /\ ~HasEnded(j))
        BY <2>2, LeftoversAre DEF MetadataArrives, MetadataFails, TempFits
      <3>2. /\ dl'[<<j, "torrent">>] = dl[<<j, "torrent">>]
            /\ dl'[<<j, "meta">>] \in {"complete", "stopped"}
            /\ <<j, "torrent">> \in dirs' => <<j, "torrent">> \in dirs
        BY <2>2 DEF MetadataArrives, MetadataFails
      <3>. QED
        BY <1>1, <3>1, <3>2 DEF TempFits, HasEnded, MagnetPcs, TorrentPcs, serverVars, controlVars
    <2>. QED
      BY <2>1, <2>2
  <1>. QED
    BY <1>2, <1>3, <1>4

LEMMA ExitKeeps ==
  ASSUME Inv, TypeOK', Exit
  PROVE  CloserFits' /\ \A k \in Jobs : JobFits(k)'
  <1>. USE DEF Inv, TypeOK, PreviewType, JobFits, Exit
  <1>1. CloserFits'
    BY DEF CloserFits
  <1>2. ASSUME NEW k \in Jobs PROVE (Untouched(k) /\ StepFits(k) /\ FoundIsSafe(k) /\ Accounted(k))'
    BY DEF Untouched, StepFits, FoundIsSafe, Accounted, HasEnded, MagnetPcs, TorrentPcs, ControlType
  <1>3. ASSUME NEW k \in Jobs PROVE TempFits(k)'
    BY DEF TempFits, HasEnded, Leftovers, MagnetPcs, TorrentPcs
  <1>. QED
    BY <1>1, <1>2, <1>3

-----------------------------------------------------------------------------
(* The goroutine of a job. *)

\* The other jobs do not notice.
LEMMA OthersKept ==
  ASSUME Inv, TypeOK', NEW j \in Jobs, JobStep(j), NEW k \in Jobs, k # j
  PROVE  JobFits(k)'
  <1>. USE DEF Inv, TypeOK, ServerType, PreviewType, JobFits, Goto, Fail
  <1>1. /\ pc'[k] = pc[k] /\ jobStatus'[k] = jobStatus[k] /\ jobCtx'[k] = jobCtx[k]
        /\ k \in spoiled => k \in spoiled'
        /\ UNCHANGED <<previewJobs, timer, controlVars>>
    BY DEF JobStep, OwnStep, MarkRunning, MakeMetaDir, MakeTorrentDir, MakeDir, AddMagnet, AddPausedTorrent,
       Add, WaitForCompletion, PollFails, FindTorrent, ListFiles, CleanUp, CancelDownload, RemoveDir, Finish,
       ReleaseCtx, CancelCtx, jobFrame
  <1>2. \A kind \in Kinds : dl'[<<k, kind>>] = dl[<<k, kind>>] /\ (<<k, kind>> \in dirs' <=> <<k, kind>> \in dirs)
    BY DEF JobStep, OwnStep, MarkRunning, MakeMetaDir, MakeTorrentDir, MakeDir, AddMagnet, AddPausedTorrent,
       Add, WaitForCompletion, PollFails, FindTorrent, ListFiles, CleanUp, CancelDownload, RemoveDir, Finish,
       ReleaseCtx, Kinds
  <1>3. (Untouched(k) /\ StepFits(k) /\ FoundIsSafe(k) /\ Accounted(k))'
    BY <1>1 DEF Untouched, StepFits, FoundIsSafe, Accounted, HasEnded, controlVars
  <1>4. TempFits(k)'
    BY <1>1, <1>2, LeftoversAre, LeftoversAreNext DEF TempFits, HasEnded, Kinds, controlVars
  <1>. QED
    BY <1>3, <1>4

\* Its own job, step by step.
LEMMA JobKept ==
  ASSUME Inv, TypeOK', NEW j \in Jobs, JobStep(j)
  PROVE  CloserFits' /\ JobFits(j)'
  <1>. USE DEF Inv, TypeOK, ServerType, PreviewType, JobFits, Goto, Fail, jobFrame, controlVars
  <1>1. UNCHANGED <<previewJobs, timer, controlVars>>
    BY DEF JobStep, OwnStep, MarkRunning, MakeMetaDir, MakeTorrentDir, MakeDir, AddMagnet, AddPausedTorrent,
       Add, WaitForCompletion, PollFails, FindTorrent, ListFiles, CleanUp, CancelDownload, RemoveDir, Finish,
       ReleaseCtx
  <1>2. CloserFits'
    BY <1>1 DEF CloserFits
  <1>3. jobStatus[j] # "none" /\ jobStatus'[j] # "none"
    BY DEF Untouched, JobStatuses, JobStep, OwnStep, MarkRunning, MakeMetaDir, MakeTorrentDir, MakeDir,
       AddMagnet, AddPausedTorrent, Add, WaitForCompletion, PollFails, FindTorrent, ListFiles, CleanUp,
       CancelDownload, RemoveDir, Finish, ReleaseCtx
  <1>4. \/ jobCtx'[j] = jobCtx[j]
        \/ /\ jobCtx'[j] = "cancelled" /\ jobStatus'[j] = jobStatus[j]
           /\ pc[j] = "release" /\ pc'[j] = "end"
    <2>1. CASE ReleaseCtx(j)
      BY <2>1 DEF ReleaseCtx, CancelCtx
    <2>2. ReleaseCtx(j) \/ UNCHANGED jobCtx
      BY DEF JobStep, OwnStep, MarkRunning, MakeMetaDir, MakeTorrentDir, MakeDir, AddMagnet,
         AddPausedTorrent, Add, WaitForCompletion, PollFails, FindTorrent, ListFiles, CleanUp, CancelDownload,
         RemoveDir, Finish
    <2>. QED
      BY <2>1, <2>2
  <1>5. \/ jobStatus'[j] = jobStatus[j]
        \/ jobStatus[j] = "queued" /\ jobStatus'[j] = "running" /\ pc[j] = "start"
        \/ jobStatus[j] # "cancelled" /\ jobStatus'[j] \in {"completed", "failed"} /\ pc[j] = "finish"
    BY DEF JobStep, OwnStep, MarkRunning, MakeMetaDir, MakeTorrentDir, MakeDir, AddMagnet, AddPausedTorrent,
       Add, WaitForCompletion, PollFails, FindTorrent, ListFiles, CleanUp, CancelDownload, RemoveDir, Finish,
       ReleaseCtx
  <1>6. Untouched(j)' /\ Accounted(j)'
    BY <1>1, <1>3, <1>4 DEF Untouched, Accounted
  <1>7. StepFits(j)'
    <2>. USE DEF StepFits, HasEnded, MagnetPcs, TorrentPcs
    <2>1. CASE MarkRunning(j)
      BY <2>1 DEF MarkRunning
    <2>2. CASE MakeMetaDir(j) \/ MakeTorrentDir(j)
      BY <2>2 DEF MakeMetaDir, MakeTorrentDir, MakeDir, AfterTorrent
    <2>3. CASE AddMagnet(j) \/ AddPausedTorrent(j)
      BY <2>3 DEF AddMagnet, AddPausedTorrent, Add
    <2>4. CASE WaitForCompletion(j) \/ PollFails(j) \/ FindTorrent(j) \/ ListFiles(j)
      BY <2>4 DEF WaitForCompletion, PollFails, FindTorrent, ListFiles
    <2>5. CASE CleanUp(j)
      BY <2>5 DEF CleanUp, CancelDownload, RemoveDir, AfterTorrent
    <2>6. CASE Finish(j) \/ ReleaseCtx(j)
      BY <2>6 DEF Finish, ReleaseCtx
    <2>. QED
      BY <2>1, <2>2, <2>3, <2>4, <2>5, <2>6 DEF JobStep, OwnStep
  <1>8. FoundIsSafe(j)'
    <2>1. pc[j] = "release" => jobStatus[j] \in {"completed", "failed", "cancelled"}
      BY DEF StepFits
    <2>2. CASE jobCtx'[j] = jobCtx[j]
      BY <1>1, <1>5, <2>2 DEF FoundIsSafe, HasEnded
    <2>3. CASE jobCtx'[j] # jobCtx[j]
      BY <1>1, <1>4, <2>1, <2>3 DEF FoundIsSafe, HasEnded
    <2>. QED
      BY <2>2, <2>3
  <1>9. TempFits(j)'
    <2>. USE DEF TempFits, HasEnded, MagnetPcs, TorrentPcs, Kinds
    <2>0. pc[j] \in MagnetPcs \cup TorrentPcs \cup {"start", "finish"} => ~HasEnded(j)
      BY DEF StepFits
    <2>1. CASE MarkRunning(j)
      <3>1. /\ pc[j] = "start" /\ pc'[j] \in {"mkMeta", "mkTorrent"}
            /\ UNCHANGED <<dirs, dl, spoiled>>
        BY <2>1 DEF MarkRunning
      <3>2. ~HasEnded(j)'
        BY <1>5, <2>0, <3>1
      <3>. QED
        BY <3>1, <3>2
    <2>2. CASE MakeMetaDir(j)
      BY <2>0, <2>2 DEF MakeMetaDir, MakeDir
    <2>3. CASE MakeTorrentDir(j)
      BY <2>0, <2>3 DEF MakeTorrentDir, MakeDir, AfterTorrent
    <2>4. CASE AddMagnet(j)
      BY <2>0, <2>4 DEF AddMagnet, Add
    <2>5. CASE AddPausedTorrent(j)
      BY <2>0, <2>5 DEF AddPausedTorrent, Add
    <2>6. CASE WaitForCompletion(j) \/ PollFails(j)
      BY <2>0, <2>6 DEF WaitForCompletion, PollFails
    <2>7. CASE FindTorrent(j) \/ ListFiles(j)
      BY <2>0, <2>7 DEF FindTorrent, ListFiles, StepFits
    <2>8. CASE CancelDownload(j, "torrent", "cancelTorrent", "rmTorrent")
               \/ CancelDownload(j, "meta", "cancelMeta", "rmMeta")
      BY <2>0, <2>8 DEF CancelDownload
    <2>9. CASE RemoveDir(j, "torrent", "rmTorrent", AfterTorrent(j))
               \/ RemoveDir(j, "meta", "rmMeta", "finish")
      BY <2>0, <2>9 DEF RemoveDir, AfterTorrent
    <2>10. CASE Finish(j)
      BY <2>0, <2>10, LeftoversAreNext DEF Finish
    <2>11. CASE ReleaseCtx(j)
      BY <2>11, LeftoversAre, LeftoversAreNext DEF ReleaseCtx
    <2>. QED
      BY <2>1, <2>2, <2>3, <2>4, <2>5, <2>6, <2>7, <2>8, <2>9, <2>10, <2>11 DEF JobStep, OwnStep, CleanUp
  <1>. QED
    BY <1>2, <1>6, <1>7, <1>8, <1>9

-----------------------------------------------------------------------------
LEMMA InvNext == Inv /\ [Next]_vars => Inv'
  <1>. SUFFICES ASSUME Inv, [Next]_vars PROVE Inv'
    OBVIOUS
  <1>1. TypeOK'
    BY InvTypes DEF Inv
  <1>2. CASE UNCHANGED vars
    BY <1>1, <1>2 DEF vars, serverVars, previewVars, controlVars, Inv, CloserFits, JobFits, Untouched,
       StepFits, FoundIsSafe, TempFits, Accounted, HasEnded, Leftovers
  <1>3. ASSUME NEW j \in Jobs, JobStep(j) PROVE CloserFits' /\ \A k \in Jobs : JobFits(k)'
    BY <1>1, <1>3, JobKept, OthersKept
  <1>. QED
    BY <1>1, <1>2, <1>3, CreateKeeps, DaemonKeeps, RequestsKeep, ExitKeeps DEF Next, Inv

LEMMA InvAlways == Spec => []Inv
  BY InvInit, InvNext, PTL DEF Spec

\* Jobs, goroutines, directories and requests keep their types.
THEOREM PreviewTypes == Spec => []TypeOK
  <1>1. Inv => TypeOK
    BY DEF Inv
  <1>. QED
    BY <1>1, InvAlways, PTL

\* However a preview ends, by its result, an error, a cancellation or its two
\* minutes, its deferred calls have removed its directories and its downloads.
THEOREM PreviewsCleanUp == Spec => []NothingLeftBehind
  <1>1. Inv => NothingLeftBehind
    BY LeftoversAre DEF Inv, NothingLeftBehind, JobFits, TempFits, MagnetPcs, TorrentPcs, Kinds
  <1>. QED
    BY <1>1, InvAlways, PTL

\* The DELETE, the timer and Close each take a job out before they end it, so
\* that no client finds a dead one.
THEOREM JobsFoundAreLive == Spec => []FoundJobsLive
  <1>1. Inv => FoundJobsLive
    BY DEF Inv, FoundJobsLive, JobFits, Untouched, FoundIsSafe, TypeOK, ServerType
  <1>. QED
    BY <1>1, InvAlways, PTL

\* The second Close reaches every job that the first one could not see, but for
\* those that requests outliving the shutdown create after it.
THEOREM CloseReachesAll == Spec => []ClosedCancelsAll
  <1>1. Inv => ClosedCancelsAll
    BY DEF Inv, ClosedCancelsAll, CloserFits, JobFits, Accounted
  <1>. QED
    BY <1>1, InvAlways, PTL

\* No goroutine that comes late replaces the status a job has got.
THEOREM StatusForward == Spec => StatusMovesForward
  <1>. DEFINE Step(j) ==
         jobStatus'[j] # jobStatus[j] =>
           /\ <<jobStatus[j], jobStatus'[j]>> \in Forward
           /\ jobStatus'[j] = "cancelled" =>
                j \in toMark \/ \E c \in Clients : deleting[c] = j
  <1>1. ASSUME Inv, [Next]_vars PROVE [\A j \in Jobs : Step(j)]_vars
    <2>. SUFFICES ASSUME Next, NEW k \in Jobs PROVE Step(k)
      BY <1>1
    <2>. USE <1>1 DEF Inv, TypeOK, ServerType, Forward, JobStatuses
    <2>1. ASSUME NEW j \in Jobs, JobStep(j) PROVE Step(k)
      <3>1. UNCHANGED jobStatus \/ MarkRunning(j) \/ Finish(j)
        BY <2>1 DEF JobStep, OwnStep, MakeMetaDir, MakeTorrentDir, MakeDir, AddMagnet, AddPausedTorrent,
           Add, WaitForCompletion, PollFails, FindTorrent, ListFiles, CleanUp, CancelDownload, RemoveDir, ReleaseCtx
      <3>2. CASE MarkRunning(j)
        BY <3>2 DEF MarkRunning, JobFits, StepFits
      <3>3. CASE Finish(j)
        BY <3>3 DEF Finish, JobFits, StepFits
      <3>. QED
        BY <3>1, <3>2, <3>3
    <2>2. ASSUME NEW j \in Jobs, CreatePreviewJob(j) PROVE Step(k)
      BY <2>2 DEF CreatePreviewJob
    <2>3. ASSUME NEW j \in Jobs, CloseMark(j) PROVE Step(k)
      BY <2>3 DEF CloseMark, CancelAndMark, JobFits, Untouched
    <2>4. ASSUME NEW c \in Clients, DeleteMark(c) PROVE Step(k)
      BY <2>4 DEF DeleteMark, CancelAndMark, JobFits, Untouched
    <2>5. \/ UNCHANGED jobStatus
          \/ \E j \in Jobs : JobStep(j) \/ CreatePreviewJob(j) \/ CloseMark(j)
          \/ \E c \in Clients : DeleteMark(c)
      BY DEF Next, TimerFires, TimerCancels, Expire, MetadataArrives, MetadataFails, DeleteTakeOut,
         DeleteLookup, Shutdown, CloseTakeOut, CloseReturns, Exit, serverVars
    <2>. QED
      BY <2>1, <2>2, <2>3, <2>4, <2>5
  <1>. QED
    BY <1>1, InvAlways, PTL DEF Spec, StatusMovesForward
=============================================================================
