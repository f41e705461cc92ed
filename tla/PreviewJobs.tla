----------------------------- MODULE PreviewJobs -----------------------------
(***************************************************************************)
(* Previews of torrents and magnet links: httpapi/server.go keeps a job    *)
(* per request in memory and runs Service.PreviewMagnet or PreviewTorrent  *)
(* in a goroutine of its own.  Clients poll the job and may cancel it; a   *)
(* timer forgets it; the shutdown of the process cancels what is left.     *)
(* Each preview works in temporary directories with temporary downloads,   *)
(* which its deferred calls remove.                                        *)
(*                                                                         *)
(* GET changes nothing: what it can answer is a job of previewJobs with    *)
(* its status, which the invariants below speak of.                        *)
(***************************************************************************)
EXTENDS Naturals, FiniteSets

CONSTANTS
  Jobs,        \* the job ids newPreviewJobID can return in one behaviour
  Clients,     \* the goroutines of DELETE requests served at the same time
  None,        \* no job
  Faults       \* "rpc": aria2 answers with an error, or its answer is lost;
               \* "disk": directories are not made, or not removed;
               \* "abandon": requests outlive the ten seconds of Shutdown

ASSUME JobsAssumption == None \notin Jobs
ASSUME PreviewFaults == Faults \subseteq {"rpc", "disk", "abandon"}

VARIABLES
  magnets,      \* jobs with a magnet link; the others have a torrent file
  previewJobs,  \* the jobs a client can find
  jobStatus,    \* jobStatus[j]: "none" before the job is created
  jobCtx,       \* jobCtx[j]: "live" or "cancelled"
  timer,        \* timer[j]: the retention timer
  pc,           \* pc[j]: the step of the goroutine of job j
  outcome,      \* outcome[j]: what the preview returns, as far as it is known
  expired,      \* jobs whose preview has used up magnetPreviewTimeout
  dirs,         \* temporary directories, <<job, kind>>
  dl,           \* dl[<<j, kind>>]: state of a temporary download in aria2
  deleting,     \* deleting[c]: the job DELETE c has looked up, or None
  removed,      \* the DELETEs that have taken their job out of previewJobs
  closer,       \* the goroutines of main that end the server
  toMark,       \* jobs Close has taken out and not marked yet
  spoiled,      \* history: jobs whose clean-up cannot be complete
  late          \* history: jobs created after the last look of Close

serverVars == <<previewJobs, jobStatus, jobCtx, timer>>
previewVars == <<pc, outcome, expired, dirs, dl>>
controlVars == <<magnets, deleting, removed, closer, toMark, late>>
vars == <<serverVars, previewVars, controlVars, spoiled>>

Kinds == {"meta", "torrent"}
JobStatuses == {"queued", "running", "completed", "failed", "cancelled"}
MagnetPcs == {"mkMeta", "addMeta", "wait", "find", "cancelMeta", "rmMeta"}
TorrentPcs == {"mkTorrent", "addTorrent", "files", "cancelTorrent", "rmTorrent"}
EndPcs == {"finish", "release", "end"}
JobPcs == {"none", "start", "killed"} \cup MagnetPcs \cup TorrentPcs \cup EndPcs
Closing == {"up", "shutdown", "marking", "closedOnce", "markingAgain", "closed", "exited"}

ServerType ==
  /\ previewJobs \subseteq Jobs
  /\ jobStatus \in [Jobs -> JobStatuses \cup {"none"}]
  /\ jobCtx \in [Jobs -> {"live", "cancelled"}]
  /\ timer \in [Jobs -> {"unset", "set", "firing", "fired"}]

PreviewType ==
  /\ pc \in [Jobs -> JobPcs]
  /\ outcome \in [Jobs -> {"ok", "error"}]
  /\ expired \subseteq Jobs
  /\ dirs \subseteq Jobs \X Kinds
  /\ dl \in [Jobs \X Kinds -> {"none", "active", "paused", "complete", "stopped"}]

ControlType ==
  /\ magnets \subseteq Jobs
  /\ deleting \in [Clients -> Jobs \cup {None}]
  /\ removed \subseteq Clients
  /\ closer \in Closing
  /\ toMark \subseteq Jobs
  /\ late \subseteq Jobs

\* Jobs, their goroutines and temporary files, requests and the closing server.
TypeOK == ServerType /\ PreviewType /\ ControlType /\ spoiled \subseteq Jobs

Init ==
  /\ magnets = {}
  /\ previewJobs = {}
  /\ jobStatus = [j \in Jobs |-> "none"]
  /\ jobCtx = [j \in Jobs |-> "live"]
  /\ timer = [j \in Jobs |-> "unset"]
  /\ pc = [j \in Jobs |-> "none"]
  /\ outcome = [j \in Jobs |-> "ok"]
  /\ expired = {}
  /\ dirs = {}
  /\ dl = [d \in Jobs \X Kinds |-> "none"]
  /\ deleting = [c \in Clients |-> None]
  /\ removed = {}
  /\ closer = "up"
  /\ toMark = {}
  /\ spoiled = {}
  /\ late = {}

Running == closer # "exited"
Goto(j, step) == pc' = [pc EXCEPT ![j] = step]
Fail(j, step) == Goto(j, step) /\ outcome' = [outcome EXCEPT ![j] = "error"]
CancelCtx(j) == jobCtx' = [jobCtx EXCEPT ![j] = "cancelled"]

\* previewCtx.Done(): the job's context, or its two minutes.
CtxDone(j) == jobCtx[j] = "cancelled" \/ j \in expired

-----------------------------------------------------------------------------
(* Requests, the timer and the end of the server. *)

\* The server accepts requests until Shutdown, which waits ten seconds for those
\* it has accepted; one that takes longer may act at any later step.
Served == closer \in {"up", "shutdown"} \/ ("abandon" \in Faults /\ Running)

\* Mutant of CreatePreviewJob: no timer is started.
CreateWithoutTimer(j) ==
  /\ Served /\ jobStatus[j] = "none"
  /\ magnets' \in {magnets, magnets \cup {j}}
  /\ previewJobs' = previewJobs \cup {j}
  /\ jobStatus' = [jobStatus EXCEPT ![j] = "queued"]
  /\ Goto(j, "start")
  /\ late' = IF closer \in {"markingAgain", "closed"} THEN late \cup {j} ELSE late
  /\ UNCHANGED <<jobCtx, timer, outcome, expired, dirs, dl, deleting, removed, closer, toMark, spoiled>>

\* createPreviewJob.
CreatePreviewJob(j) ==
  /\ Served /\ jobStatus[j] = "none"
  /\ magnets' \in {magnets, magnets \cup {j}}
  /\ previewJobs' = previewJobs \cup {j}
  /\ jobStatus' = [jobStatus EXCEPT ![j] = "queued"]
  /\ timer' = [timer EXCEPT ![j] = "set"]
  /\ Goto(j, "start")
  /\ late' = IF closer \in {"markingAgain", "closed"} THEN late \cup {j} ELSE late
  /\ UNCHANGED <<jobCtx, outcome, expired, dirs, dl, deleting, removed, closer, toMark, spoiled>>

\* handlePreviewJob with DELETE: look up, take out, cancelAndMark.
DeleteLookup(c, j) ==
  /\ Served /\ deleting[c] = None
  /\ j \in previewJobs
  /\ deleting' = [deleting EXCEPT ![c] = j]
  /\ UNCHANGED <<serverVars, previewVars, magnets, removed, closer, toMark, late, spoiled>>

DeleteTakeOut(c) ==
  /\ Running /\ deleting[c] # None /\ c \notin removed
  /\ previewJobs' = previewJobs \ {deleting[c]}
  /\ removed' = removed \cup {c}
  /\ UNCHANGED <<jobStatus, jobCtx, timer, previewVars, magnets, deleting, closer, toMark, late, spoiled>>

CancelAndMark(j) == jobStatus' = [jobStatus EXCEPT ![j] = "cancelled"] /\ CancelCtx(j)

DeleteMark(c) ==
  /\ Running /\ deleting[c] # None /\ c \in removed
  /\ CancelAndMark(deleting[c])
  /\ deleting' = [deleting EXCEPT ![c] = None]
  /\ removed' = removed \ {c}
  /\ UNCHANGED <<previewJobs, timer, previewVars, magnets, closer, toMark, late, spoiled>>

\* Mutant of TimerFires: the context ends while the job can still be found.
TimerCancelsFirst(j) ==
  /\ Running /\ timer[j] = "set"
  /\ timer' = [timer EXCEPT ![j] = "firing"]
  /\ CancelCtx(j)
  /\ UNCHANGED <<previewJobs, jobStatus, previewVars, controlVars, spoiled>>

\* previewJobRetention is over: the job is taken out, then its context ends.
TimerFires(j) ==
  /\ Running /\ timer[j] = "set"
  /\ timer' = [timer EXCEPT ![j] = "firing"]
  /\ previewJobs' = previewJobs \ {j}
  /\ UNCHANGED <<jobStatus, jobCtx, previewVars, controlVars, spoiled>>

TimerCancels(j) ==
  /\ Running /\ timer[j] = "firing"
  /\ timer' = [timer EXCEPT ![j] = "fired"]
  /\ CancelCtx(j)
  /\ UNCHANGED <<previewJobs, jobStatus, previewVars, controlVars, spoiled>>

\* SIGTERM, then server.Shutdown: no new requests.
Shutdown ==
  /\ closer = "up"
  /\ closer' = "shutdown"
  /\ UNCHANGED <<serverVars, previewVars, magnets, deleting, removed, toMark, late, spoiled>>

\* Close takes all jobs out under the lock.  main closes when Shutdown has
\* returned, and once more before it waits for the service.
CloseTakeOut ==
  /\ \/ /\ closer = "shutdown" /\ closer' = "marking"
        /\ "abandon" \in Faults \/ \A c \in Clients : deleting[c] = None
     \/ closer = "closedOnce" /\ closer' = "markingAgain"
  /\ toMark' = previewJobs
  /\ previewJobs' = {}
  /\ UNCHANGED <<jobStatus, jobCtx, timer, previewVars, magnets, deleting, removed, late, spoiled>>

CloseMark(j) ==
  /\ j \in toMark
  /\ CancelAndMark(j)
  /\ toMark' = toMark \ {j}
  /\ UNCHANGED <<previewJobs, timer, previewVars, magnets, deleting, removed, closer, late, spoiled>>

\* Mutant of CloseReturns: main closes the server only once.
CloseOnce ==
  /\ toMark = {}
  /\ closer \in {"marking", "markingAgain"} /\ closer' = "closed"
  /\ UNCHANGED <<serverVars, previewVars, magnets, deleting, removed, toMark, late, spoiled>>

CloseReturns ==
  /\ toMark = {}
  /\ \/ closer = "marking" /\ closer' = "closedOnce"
     \/ closer = "markingAgain" /\ closer' = "closed"
  /\ UNCHANGED <<serverVars, previewVars, magnets, deleting, removed, toMark, late, spoiled>>

\* main returns, or the process is killed: nobody waits for the goroutines of
\* previews, and their directories and downloads stay.
Exit ==
  /\ Running
  /\ closer' = "exited"
  /\ previewJobs' = {} /\ toMark' = {}
  /\ pc' = [j \in Jobs |-> IF pc[j] \in {"none", "end"} THEN pc[j] ELSE "killed"]
  /\ deleting' = [c \in Clients |-> None]
  /\ removed' = {}
  /\ UNCHANGED <<magnets, jobStatus, jobCtx, timer, outcome, expired, dirs, dl, late, spoiled>>

-----------------------------------------------------------------------------
(* The goroutine of a job: runPreviewJob. *)

\* What a step of the goroutine leaves alone, unless it says otherwise.
jobFrame == <<previewJobs, jobCtx, timer, expired, controlVars>>

MarkRunning(j) ==
  /\ pc[j] = "start"
  /\ jobStatus' = [jobStatus EXCEPT ![j] = IF @ = "queued" THEN "running" ELSE @]
  /\ Goto(j, IF j \in magnets THEN "mkMeta" ELSE "mkTorrent")
  /\ UNCHANGED <<jobFrame, outcome, dirs, dl, spoiled>>

\* The two minutes of a preview are over.
Expire(j) ==
  /\ pc[j] \in MagnetPcs \cup TorrentPcs
  /\ j \notin expired
  /\ expired' = expired \cup {j}
  /\ UNCHANGED <<serverVars, pc, outcome, dirs, dl, controlVars, spoiled>>

\* Where a preview goes on when previewTorrentFiles, or all of it, is over.
AfterTorrent(j) == IF j \in magnets THEN "cancelMeta" ELSE "finish"

\* os.MkdirTemp.
MakeDir(j, at, kind, next, otherwise) ==
  /\ pc[j] = at
  /\ \/ dirs' = dirs \cup {<<j, kind>>} /\ Goto(j, next) /\ UNCHANGED outcome
     \/ "disk" \in Faults /\ Fail(j, otherwise) /\ UNCHANGED dirs
  /\ UNCHANGED <<jobFrame, jobStatus, dl, spoiled>>

MakeMetaDir(j) == MakeDir(j, "mkMeta", "meta", "addMeta", "finish")
MakeTorrentDir(j) == MakeDir(j, "mkTorrent", "torrent", "addTorrent", AfterTorrent(j))

\* AddURI or AddTorrent.  A call whose context ends, or whose answer is lost,
\* may have been executed: the download is then unknown to the preview.
Add(j, at, kind, state, next, otherwise) ==
  /\ pc[j] = at
  /\ \/ /\ ~CtxDone(j)
        /\ dl' = [dl EXCEPT ![<<j, kind>>] = state]
        /\ Goto(j, next)
        /\ UNCHANGED <<outcome, spoiled>>
     \/ /\ CtxDone(j) \/ "rpc" \in Faults
        /\ Fail(j, otherwise)
        /\ \/ UNCHANGED <<dl, spoiled>>
           \/ dl' = [dl EXCEPT ![<<j, kind>>] = state] /\ spoiled' = spoiled \cup {j}
  /\ UNCHANGED <<jobFrame, jobStatus, dirs>>

AddMagnet(j) == Add(j, "addMeta", "meta", "active", "wait", "rmMeta")
AddPausedTorrent(j) == Add(j, "addTorrent", "torrent", "paused", "files", "rmTorrent")

\* Mutant of WaitForCompletion: the loop does not look at its context.
WaitForever(j) ==
  LET state == dl[<<j, "meta">>] IN
  /\ pc[j] = "wait"
  /\ \/ state = "complete" /\ Goto(j, "find") /\ UNCHANGED outcome
     \/ state = "stopped" /\ Fail(j, "cancelMeta")
  /\ UNCHANGED <<jobFrame, jobStatus, dirs, dl, spoiled>>

\* One poll of waitForAria2Completion that is the last one: the download has
\* ended, or the context has.
WaitForCompletion(j) ==
  LET state == dl[<<j, "meta">>] IN
  /\ pc[j] = "wait"
  /\ \/ state = "complete" /\ ~CtxDone(j) /\ Goto(j, "find") /\ UNCHANGED outcome
     \/ (state = "stopped" \/ CtxDone(j)) /\ Fail(j, "cancelMeta")
  /\ UNCHANGED <<jobFrame, jobStatus, dirs, dl, spoiled>>

\* Or GetStatus fails, which nobody promises it will.
PollFails(j) ==
  /\ "rpc" \in Faults
  /\ pc[j] = "wait"
  /\ Fail(j, "cancelMeta")
  /\ UNCHANGED <<jobFrame, jobStatus, dirs, dl, spoiled>>

\* findSavedTorrent and the read of the file, which aria2 may not have saved.
FindTorrent(j) ==
  /\ pc[j] = "find"
  /\ \/ <<j, "meta">> \in dirs /\ Goto(j, "mkTorrent") /\ UNCHANGED outcome
     \/ Fail(j, "cancelMeta")
  /\ UNCHANGED <<jobFrame, jobStatus, dirs, dl, spoiled>>

\* GetFiles and torrentFileList, then the deferred clean-up.
ListFiles(j) ==
  /\ pc[j] = "files"
  /\ \/ ~CtxDone(j) /\ Goto(j, "cancelTorrent") /\ UNCHANGED outcome
     \/ Fail(j, "cancelTorrent")
  /\ UNCHANGED <<jobFrame, jobStatus, dirs, dl, spoiled>>

\* Mutant of CancelDownload: it is called with the preview's own context.
CancelInContext(j, kind, at, next) ==
  LET d == <<j, kind>> IN
  /\ pc[j] = at
  /\ dl' = [dl EXCEPT ![d] = IF @ \in {"active", "paused"} /\ ~CtxDone(j) THEN "stopped" ELSE @]
  /\ Goto(j, next)
  /\ UNCHANGED <<jobFrame, jobStatus, outcome, dirs, spoiled>>

\* cleanupPreview, first half: cancelAria2Task with five seconds of its own, so
\* that it works when the job's context has ended.  Its error is dropped.
CancelDownload(j, kind, at, next) ==
  LET d == <<j, kind>> IN
  /\ pc[j] = at
  /\ \/ /\ dl' = [dl EXCEPT ![d] = IF @ \in {"active", "paused"} THEN "stopped" ELSE @]
        /\ UNCHANGED spoiled
     \/ /\ "rpc" \in Faults
        /\ spoiled' = spoiled \cup {j}
        /\ UNCHANGED dl
  /\ Goto(j, next)
  /\ UNCHANGED <<jobFrame, jobStatus, outcome, dirs>>

\* os.RemoveAll of cleanupPreview or of the failed add; its error is dropped.
RemoveDir(j, kind, at, next) ==
  /\ pc[j] = at
  /\ \/ dirs' = dirs \ {<<j, kind>>} /\ UNCHANGED spoiled
     \/ "disk" \in Faults /\ spoiled' = spoiled \cup {j} /\ UNCHANGED dirs
  /\ Goto(j, next)
  /\ UNCHANGED <<jobFrame, jobStatus, outcome, dl>>

CleanUp(j) ==
  \/ CancelDownload(j, "torrent", "cancelTorrent", "rmTorrent")
  \/ RemoveDir(j, "torrent", "rmTorrent", AfterTorrent(j))
  \/ CancelDownload(j, "meta", "cancelMeta", "rmMeta")
  \/ RemoveDir(j, "meta", "rmMeta", "finish")

\* Mutant of Finish: a cancelled job takes the result of its goroutine.
FinishAnyway(j) ==
  /\ pc[j] = "finish"
  /\ jobStatus' = [jobStatus EXCEPT ![j] = IF outcome[j] = "ok" THEN "completed" ELSE "failed"]
  /\ Goto(j, "release")
  /\ UNCHANGED <<jobFrame, outcome, dirs, dl, spoiled>>

\* finish: a job that was cancelled stays so, else its context is released.
Finish(j) ==
  /\ pc[j] = "finish"
  /\ \/ jobStatus[j] = "cancelled" /\ Goto(j, "end") /\ UNCHANGED jobStatus
     \/ /\ jobStatus[j] # "cancelled"
        /\ jobStatus' = [jobStatus EXCEPT ![j] = IF outcome[j] = "ok" THEN "completed" ELSE "failed"]
        /\ Goto(j, "release")
  /\ UNCHANGED <<jobFrame, outcome, dirs, dl, spoiled>>

ReleaseCtx(j) ==
  /\ pc[j] = "release"
  /\ CancelCtx(j)
  /\ Goto(j, "end")
  /\ UNCHANGED <<previewJobs, jobStatus, timer, outcome, expired, dirs, dl, controlVars, spoiled>>

\* What the goroutine does by itself, or because its context has ended.
OwnStep(j) ==
  \/ MarkRunning(j) \/ MakeMetaDir(j) \/ AddMagnet(j) \/ WaitForCompletion(j)
  \/ FindTorrent(j) \/ MakeTorrentDir(j) \/ AddPausedTorrent(j) \/ ListFiles(j)
  \/ CleanUp(j) \/ Finish(j) \/ ReleaseCtx(j)

JobStep(j) == OwnStep(j) \/ PollFails(j)

-----------------------------------------------------------------------------
\* aria2 has the metadata: it saves the torrent file, in a directory that it
\* makes again when it is gone.
MetadataArrives(j) ==
  /\ dl[<<j, "meta">>] = "active"
  /\ dl' = [dl EXCEPT ![<<j, "meta">>] = "complete"]
  /\ dirs' = dirs \cup {<<j, "meta">>}
  /\ UNCHANGED <<serverVars, pc, outcome, expired, controlVars, spoiled>>

MetadataFails(j) ==
  /\ dl[<<j, "meta">>] = "active"
  /\ dl' = [dl EXCEPT ![<<j, "meta">>] = "stopped"]
  /\ UNCHANGED <<serverVars, pc, outcome, expired, dirs, controlVars, spoiled>>

Next ==
  \/ \E j \in Jobs :
       \/ CreatePreviewJob(j) \/ TimerFires(j) \/ TimerCancels(j) \/ CloseMark(j)
       \/ JobStep(j) \/ Expire(j) \/ MetadataArrives(j) \/ MetadataFails(j)
  \/ \E c \in Clients : DeleteTakeOut(c) \/ DeleteMark(c) \/ \E j \in Jobs : DeleteLookup(c, j)
  \/ Shutdown \/ CloseTakeOut \/ CloseReturns \/ Exit

Spec == Init /\ [][Next]_vars

\* Goroutines are scheduled, a call of a preview ends at the latest with its
\* context, and timers fire.  Clients and aria2 owe nothing: that the metadata
\* arrives, or fails to, or that a poll fails, is not fair.
Fairness ==
  /\ \A j \in Jobs :
       /\ WF_vars(OwnStep(j)) /\ WF_vars(Expire(j))
       /\ WF_vars(TimerFires(j)) /\ WF_vars(TimerCancels(j))
FairSpec == Spec /\ Fairness

-----------------------------------------------------------------------------
HasEnded(j) == jobStatus[j] \in {"completed", "failed"}
Leftovers(j) ==
  {d \in dirs : d[1] = j} \cup {d \in {j} \X Kinds : dl[d] \in {"active", "paused"}}

\* A preview that reports a result, or whose goroutine is over, has removed its
\* directories and downloads, unless a call for it was executed unanswered or
\* its clean-up failed.
NothingLeftBehind ==
  \A j \in Jobs \ spoiled :
    HasEnded(j) \/ pc[j] = "end" => Leftovers(j) = {}

\* A job a client can find is not cancelled, and while it has no result its
\* preview can still succeed: nobody has ended its context.
FoundJobsLive ==
  \A j \in previewJobs :
    /\ jobStatus[j] \in JobStatuses \ {"cancelled"}
    /\ jobCtx[j] = "cancelled" => HasEnded(j)

\* When main has closed the server for the second time, every context has ended
\* or its timer or DELETE is about to end it; only a job that was created later
\* goes on.
ClosedCancelsAll ==
  closer = "closed" =>
    \A j \in Jobs \ late :
      jobStatus[j] # "none" =>
        \/ jobCtx[j] = "cancelled"
        \/ timer[j] = "firing"
        \/ \E c \in Clients : deleting[c] = j /\ c \in removed

\* The status of a job moves forward: a result or a cancellation is not replaced
\* by the goroutine that comes late; only a DELETE or Close that had found the
\* job marks it cancelled.
Forward == {<<"none", "queued">>, <<"queued", "running">>, <<"running", "completed">>,
            <<"running", "failed">>} \cup (JobStatuses \X {"cancelled"})
StatusMovesForward ==
  [][\A j \in Jobs : jobStatus'[j] # jobStatus[j] =>
       /\ <<jobStatus[j], jobStatus'[j]>> \in Forward
       /\ jobStatus'[j] = "cancelled" =>
            j \in toMark \/ \E c \in Clients : deleting[c] = j]_vars

\* Every preview ends, although aria2 may never have the metadata nor fail: the
\* wait looks at its context, which ends after two minutes.  And the job of
\* every preview is forgotten.
PreviewsEnd == \A j \in Jobs : pc[j] = "start" ~> pc[j] \in {"end", "killed"}
JobsForgotten == \A j \in Jobs : j \in previewJobs ~> j \notin previewJobs
=============================================================================
