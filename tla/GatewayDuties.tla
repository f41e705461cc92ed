----------------------------- MODULE GatewayDuties -----------------------------
(***************************************************************************)
(* What nobody may forget: a download that Create added is removed with    *)
(* its task, and a pending task of a running service is with a worker or   *)
(* on its way to one.  Proved for every set of tasks and handlers, with    *)
(* the faults named that make a goroutine forget.                          *)
(***************************************************************************)
EXTENDS GatewayFiles

Runs(t) == dl[<<t, "root">>] = "active"

\* A row's GID is one of its downloads, and the child comes after the root.
GidFits(t) ==
  /\ dl[<<t, "child">>] # "none" => dl[<<t, "root">>] \notin {"none", "active"}
  /\ gid[t] = "child" => dl[<<t, "child">>] # "none"
  /\ <<"completed", t, "child">> \in hooks => dl[<<t, "child">>] # "none"

\* One request creates a task, and its download is the first one.
CreateFits(p) ==
  /\ hpc[p] \in CreatePcs => \A q \in Procs \ {p} : hpc[q] \in CreatePcs => htask[q] # htask[p]
  /\ hpc[p] = "add" => \A g \in Gids : dl[<<htask[p], g>>] = "none"

\* The steps of a hook that still use its GID.
WithGid == {"resolve", "rememberNotReady", "rememberError", "notReady", "error", "commit"}
HookFits(p) ==
  hpc[p] \in WithGid =>
    /\ local[p].gid # "none"
    /\ local[p].gid = "child" => dl[<<htask[p], "child">>] # "none"

\* deleteTask knows a download that runs on, when its GID was ever stored.
DeleteFits(p) ==
  hpc[p] \in DeletePcs /\ Runs(htask[p]) /\ gid[htask[p]] # "none" =>
    /\ hpc[p] \in {"cancelRun", "awaitRun"} => local[p].snap = "root"
    /\ hpc[p] = "removeAria2" => "root" \in local[p].todo
    /\ hpc[p] \notin {"removeDir", "erase"}

\* The download of a task whose GID was stored does not run on when the task is
\* erased.
KnownDownloadsStop ==
  \A t \in Tasks : status[t] = "erased" /\ gid[t] # "none" => ~Runs(t)

DownloadsInv ==
  /\ \A t \in Tasks : GidFits(t)
  /\ \A p \in Procs : CreateFits(p) /\ HookFits(p) /\ DeleteFits(p)
  /\ KnownDownloadsStop

\* The GID of a download that runs is stored, or about to be.
GidKept ==
  \A t \in Tasks : Runs(t) =>
    gid[t] = "root" \/ \E p \in Procs : hpc[p] = "saveGid" /\ htask[p] = t

\* A run is cancelled only for a task that is being deleted.
CancelledFits ==
  \A w \in Workers : cancelled[w] => InTable(w) /\ status[wtask[w]] \in {"deleting", "erased"}

USE DEF AllInv, Inv, DownloadsInv

-----------------------------------------------------------------------------
(* What a step may do. *)

\* A step starts a download where there was none, and stores a GID, only for a
\* row that is not being deleted; a download is not forgotten again.
DownloadStep(t) ==
  /\ GidFits(t)'
  /\ \A g \in Gids : dl[<<t, g>>] # "none" => dl'[<<t, g>>] # "none"
  /\ (\A g \in Gids : dl'[<<t, g>>] = "none")
     \/ (\E g \in Gids : dl[<<t, g>>] # "none")
     \/ (\E p \in Procs : hpc[p] = "add" /\ htask[p] = t /\ hpc'[p] # "add")
  /\ (Runs(t)' /\ ~Runs(t)) \/ gid'[t] # gid[t] => Writable(t)
  /\ status'[t] = "erased" => status[t] = "erased" \/ ~Runs(t)' \/ gid'[t] = "none"

Stays(q) == hpc'[q] = hpc[q] /\ htask'[q] = htask[q] /\ local'[q] = local[q]

\* A request that moves creates a task that was new, or goes on with the one it
\* has; and it knows what its next step needs.
Moves(p) ==
  /\ hpc'[p] \in CreatePcs =>
       (hpc[p] \in CreatePcs /\ htask'[p] = htask[p]) \/ status[htask'[p]] = "new"
  /\ hpc'[p] = "add" => \A g \in Gids : dl'[<<htask'[p], g>>] = "none"
  /\ HookFits(p)' /\ DeleteFits(p)'

\* Such a step keeps what the requests that do not move know.
LEMMA StayFits ==
  ASSUME AllInv, DownloadsInv, NEW q \in Procs, Stays(q), \A t \in Tasks : DownloadStep(t)
  PROVE  /\ hpc'[q] = "add" => \A g \in Gids : dl'[<<htask'[q], g>>] = "none"
         /\ HookFits(q)' /\ DeleteFits(q)'
  <1>1. CASE hpc[q] \in {"idle", "recreate"}
    BY <1>1 DEF Stays, HookFits, DeleteFits, WithGid, DeletePcs
  <1>2. CASE hpc[q] \notin {"idle", "recreate"}
    <2>1. PICK t \in Tasks : t = htask[q]
      BY <1>2 DEF TypeOK, TaskKnown
    <2>2. DownloadStep(t)
      OBVIOUS
    <2>3. hpc'[q] = hpc[q] /\ htask'[q] = t /\ local'[q] = local[q]
      BY <2>1 DEF Stays
    <2>4. hpc[q] = "add" => \A g \in Gids : dl'[<<t, g>>] = "none"
      <3>. SUFFICES ASSUME hpc[q] = "add" PROVE \A g \in Gids : dl'[<<t, g>>] = "none"
        OBVIOUS
      <3>1. \A p \in Procs : hpc[p] = "add" /\ htask[p] = t => p = q
        BY <2>1 DEF CreateFits, CreatePcs
      <3>2. \A g \in Gids : dl[<<t, g>>] = "none"
        BY <2>1 DEF CreateFits
      <3>. QED
        BY <2>2, <2>3, <3>1, <3>2 DEF DownloadStep
    <2>5. HookFits(q)'
      BY <2>1, <2>2, <2>3 DEF HookFits, DownloadStep, Gids
    <2>6. DeleteFits(q)'
      <3>1. hpc[q] \in DeletePcs => ~Writable(t)
        BY <2>1 DEF SafetyInv, DeletingRows, Writable, HasRow, Statuses
      <3>2. hpc[q] \in DeletePcs /\ dl'[<<t, "root">>] = "active" /\ gid'[t] # "none" =>
              Runs(htask[q]) /\ gid[htask[q]] # "none"
        BY <2>1, <2>2, <3>1 DEF DownloadStep, Runs
      <3>. QED
        BY <2>3, <3>2 DEF DeleteFits, Runs
    <2>. QED
      BY <2>3, <2>4, <2>5, <2>6
  <1>. QED
    BY <1>1, <1>2

\* So it keeps the invariant.
LEMMA DownloadsKeep ==
  ASSUME AllInv, AllInv', DownloadsInv, \A t \in Tasks : DownloadStep(t),
         NEW p \in Procs, Moves(p) \/ Stays(p), \A q \in Procs \ {p} : Stays(q)
  PROVE  DownloadsInv'
  <1>1. \A t \in Tasks : GidFits(t)'
    BY DEF DownloadStep
  <1>2. ASSUME NEW q \in Procs
        PROVE  /\ hpc'[q] = "add" => \A g \in Gids : dl'[<<htask'[q], g>>] = "none"
               /\ HookFits(q)' /\ DeleteFits(q)'
    BY StayFits DEF Moves
  <1>3. ASSUME NEW q \in Procs, NEW r \in Procs \ {q}, hpc'[q] \in CreatePcs, hpc'[r] \in CreatePcs,
               htask'[q] = htask'[r]
        PROVE  FALSE
    <2>1. ASSUME NEW a \in Procs, NEW b \in Procs \ {a}, Stays(b), hpc'[b] \in CreatePcs,
                 hpc'[a] \in CreatePcs, htask'[a] = htask'[b]
          PROVE  hpc[a] \in CreatePcs /\ htask'[a] = htask[a]
      <3>1. Held(htask'[a]) /\ htask'[a] \in Tasks
        BY <2>1 DEF Held, Stays, CreatePcs, TypeOK, TaskKnown
      <3>2. status[htask'[a]] # "new"
        BY <3>1 DEF FilesInv, FilesFit
      <3>. QED
        BY <2>1, <3>2 DEF Stays, Moves
    <2>2. CASE q # p
      BY <1>3, <2>1, <2>2 DEF CreateFits, Stays
    <2>3. CASE q = p
      BY <1>3, <2>1, <2>3 DEF CreateFits, Stays
    <2>. QED
      BY <2>2, <2>3
  <1>4. KnownDownloadsStop'
    BY DEF KnownDownloadsStop, DownloadStep, Writable, HasRow, Statuses
  <1>. QED
    BY <1>1, <1>2, <1>3, <1>4 DEF CreateFits

-----------------------------------------------------------------------------
(* The steps of a request. *)

\* What a request's step does to its own record, and to no other.
LEMMA BeginMoves ==
  ASSUME AllInv, NEW p \in Procs, NEW pc, NEW t, NEW l, Begin(p, pc, t, l)
  PROVE  /\ hpc'[p] = pc /\ htask'[p] = t /\ local'[p] = l
         /\ \A q \in Procs \ {p} : Stays(q)
  BY DEF Begin, Stays, TypeOK, RequestType

LEMMA AnswerMoves ==
  ASSUME AllInv, NEW p \in Procs, Answer(p)
  PROVE  hpc'[p] = "idle" /\ Moves(p) /\ \A q \in Procs \ {p} : Stays(q)
  <1>1. hpc'[p] = "idle" /\ \A q \in Procs \ {p} : Stays(q)
    BY BeginMoves DEF Answer
  <1>. QED
    BY <1>1 DEF Moves, HookFits, DeleteFits, WithGid, CreatePcs, DeletePcs

LEMMA StepMoves ==
  ASSUME AllInv, NEW p \in Procs, NEW pc, NEW l,
         StepWith(p, pc, l) \/ (Step(p, pc) /\ l = local[p])
  PROVE  /\ hpc'[p] = pc /\ htask'[p] = htask[p] /\ local'[p] = l
         /\ \A q \in Procs \ {p} : Stays(q)
  BY DEF Step, StepWith, Stays, TypeOK, RequestType

Goes(p) == Moves(p) /\ (\A q \in Procs \ {p} : Stays(q)) /\ \A t \in Tasks : DownloadStep(t)

\* Where rows and downloads stay as they are, there is little to ask.
LEMMA SameDownloads ==
  ASSUME DownloadsInv, UNCHANGED <<gid, dl, hooks>>,
         NEW t \in Tasks, status'[t] = "erased" => status[t] = "erased"
  PROVE  DownloadStep(t)
  BY DEF DownloadStep, GidFits, Runs, Gids

\* The requests the server accepts.
LEMMA NewRequestGoes ==
  ASSUME AllInv, DownloadsInv, NEW p \in Procs, NewRequest(p)
  PROVE  Goes(p)
  <1>. USE DEF Goes, Moves, HookFits, DeleteFits, WithGid, CreatePcs, DeletePcs
  <1>1. ASSUME NEW t \in Tasks, CreateRow(p, t) PROVE Goes(p)
    <2>1. /\ hpc'[p] = "add" /\ htask'[p] = t
          /\ \A q \in Procs \ {p} : Stays(q)
      BY <1>1, BeginMoves DEF CreateRow
    <2>2. status[t] = "new" /\ UNCHANGED <<gid, dl, hooks>>
          /\ status' = [status EXCEPT ![t] = "queued"]
      BY <1>1 DEF CreateRow, SetStatus
    <2>3. \A g \in Gids : dl[<<t, g>>] = "none"
      BY <2>2 DEF FilesInv, FilesFit
    <2>4. \A u \in Tasks : DownloadStep(u)
      BY <2>2, SameDownloads DEF TypeOK, StoreType
    <2>. QED
      BY <2>1, <2>2, <2>3, <2>4
  <1>2. ASSUME NEW t \in Tasks, NEW g \in Gids, Completed(p, t, g) PROVE Goes(p)
    <2>1. /\ hpc'[p] = "resolve" /\ htask'[p] = t
          /\ local'[p] = [NoLocal EXCEPT !.gid = g, !.snap = gid[t]]
          /\ \A q \in Procs \ {p} : Stays(q)
      BY <1>2, BeginMoves DEF Completed
    <2>2. local'[p].gid = g
      BY <2>1 DEF NoLocal
    <2>3. g = "child" => dl[<<t, "child">>] # "none"
      BY <1>2 DEF Completed, GidFits
    <2>4. UNCHANGED <<status, gid, dl, hooks>>
      BY <1>2 DEF Completed, storeVars, aria2Vars
    <2>. QED
      BY <2>1, <2>2, <2>3, <2>4, SameDownloads DEF Gids
  <1>3. ASSUME NEW t \in Tasks, NEW g \in Gids, Stopped(p, t, g) \/ RetryUpload(p, t) PROVE Goes(p)
    <2>1. hpc'[p] \in {"stopped", "retryUpload"} /\ \A q \in Procs \ {p} : Stays(q)
      BY <1>3, BeginMoves DEF Stopped, RetryUpload
    <2>2. UNCHANGED <<status, gid, dl, hooks>>
      BY <1>3 DEF Stopped, RetryUpload, storeVars, aria2Vars
    <2>. QED
      BY <2>1, <2>2, SameDownloads
  <1>4. ASSUME NEW t \in Tasks, NEW full \in BOOLEAN, Delete(p, t, full) PROVE Goes(p)
    <2>1. /\ hpc'[p] = "cancelRun" /\ htask'[p] = t
          /\ local'[p] = [NoLocal EXCEPT !.snap = gid[t], !.full = full]
          /\ \A q \in Procs \ {p} : Stays(q)
      BY <1>4, BeginMoves DEF Delete
    <2>2. local'[p].snap = gid[t]
      BY <2>1 DEF NoLocal
    <2>3. Runs(t) => gid[t] \in {"none", "root"}
      BY DEF GidFits, Runs, TypeOK, StoreType, Gids
    <2>4. UNCHANGED <<gid, dl, hooks>> /\ status' = [status EXCEPT ![t] = "deleting"]
      BY <1>4 DEF Delete, SetStatus, aria2Vars
    <2>5. \A u \in Tasks : DownloadStep(u)
      BY <2>4, SameDownloads DEF TypeOK, StoreType
    <2>. QED
      BY <2>1, <2>2, <2>3, <2>4, <2>5 DEF Runs
  <1>. QED
    BY <1>1, <1>2, <1>3, <1>4 DEF NewRequest, Gids

\* The steps of Create.
LEMMA CreateGoes ==
  ASSUME AllInv, DownloadsInv, NEW p \in Procs, CreateStep(p)
  PROVE  Goes(p)
  <1>. USE DEF TypeOK, StoreType, Aria2Type, CreatePcs
  <1>0. hpc[p] \in CreatePcs => htask[p] \in Tasks /\ Writable(htask[p])
    BY DEF TaskKnown, SafetyInv, CreatingRows
  <1>1. CASE CreateRefused(p)
    BY <1>1, AnswerMoves, SameDownloads DEF CreateRefused, Goes, storeVars, aria2Vars
  <1>2. CASE AddDownload(p)
    <2>1. PICK pc \in {"saveGid", "saveFailure"} : Step(p, pc)
      BY <1>2 DEF AddDownload
    <2>2. /\ hpc'[p] = pc /\ htask'[p] = htask[p]
          /\ \A q \in Procs \ {p} : Stays(q)
      BY <2>1, StepMoves
    <2>3. Moves(p)
      BY <1>2, <2>2 DEF AddDownload, Moves, HookFits, DeleteFits, WithGid, DeletePcs
    <2>4. ASSUME NEW t \in Tasks PROVE DownloadStep(t)
      <3>1. UNCHANGED <<status, gid, hooks>>
        BY <1>2 DEF AddDownload, storeVars
      <3>2. CASE dl' = dl
        BY <3>1, <3>2, SameDownloads
      <3>3. CASE dl' = [dl EXCEPT ![<<htask[p], "root">>] = "active"]
        <4>1. /\ hpc[p] = "add" /\ hpc'[p] # "add"
              /\ htask[p] \in Tasks /\ Writable(htask[p])
              /\ \A g \in Gids : dl[<<htask[p], g>>] = "none"
          BY <1>0, <1>2, <2>2 DEF AddDownload, CreateFits
        <4>2. CASE t = htask[p]
          <5>1. /\ dl'[<<t, "child">>] = "none" /\ dl'[<<t, "root">>] = "active"
                /\ gid[t] # "child" /\ <<"completed", t, "child">> \notin hooks
            BY <3>3, <4>1, <4>2 DEF GidFits, Gids
          <5>. QED
            BY <3>1, <4>1, <4>2, <5>1 DEF DownloadStep, GidFits, Writable, HasRow, Statuses
        <4>3. CASE t # htask[p]
          <5>1. \A g \in Gids : dl'[<<t, g>>] = dl[<<t, g>>]
            BY <3>3, <4>3
          <5>. QED
            BY <3>1, <5>1 DEF DownloadStep, GidFits, Runs, Gids
        <4>. QED
          BY <4>2, <4>3
      <3>. QED
        BY <1>2, <3>2, <3>3 DEF AddDownload
    <2>. QED
      BY <2>2, <2>3, <2>4 DEF Goes
  <1>3. CASE SaveGid(p)
    <2>1. ASSUME NEW t \in Tasks PROVE DownloadStep(t)
      <3>1. UNCHANGED <<dl, hooks>> /\ Writable(htask[p]) /\ htask[p] \in Tasks
        BY <1>0, <1>3 DEF SaveGid, aria2Vars
      <3>2. CASE UNCHANGED <<status, gid>>
        BY <3>1, <3>2, SameDownloads
      <3>3. CASE /\ status' = [status EXCEPT ![htask[p]] = "downloading"]
                 /\ gid' = [gid EXCEPT ![htask[p]] = "root"]
        BY <3>1, <3>3 DEF DownloadStep, GidFits, Runs, Gids
      <3>. QED
        BY <1>3, <3>2, <3>3 DEF SaveGid, SetStatus
    <2>. QED
      BY <1>3, <2>1, AnswerMoves DEF SaveGid, Goes
  <1>4. CASE SaveFailure(p)
    <2>1. \A t \in Tasks : status'[t] = "erased" => status[t] = "erased"
      BY <1>4 DEF SaveFailure, SetStatus
    <2>2. UNCHANGED <<gid, dl, hooks>>
      BY <1>4 DEF SaveFailure, aria2Vars
    <2>. QED
      BY <1>4, <2>1, <2>2, AnswerMoves, SameDownloads DEF SaveFailure, Goes
  <1>. QED
    BY <1>1, <1>2, <1>3, <1>4 DEF CreateStep

\* The GID a hook ends at is one of the task's downloads.
LEMMA ResolvedFits ==
  ASSUME NEW t, NEW g \in Gids, g = "child" => dl[<<t, "child">>] # "none",
         NEW r \in ResolveFinalFiles(t, g)
  PROVE  r[2] # "none" /\ (r[2] = "child" => dl[<<t, "child">>] # "none")
  BY DEF ResolveFinalFiles, Gids

\* A hook stores the GID it resolved under a writable row.
LEMMA StoreGid ==
  ASSUME AllInv, DownloadsInv, NEW p \in Procs, hpc[p] \in WithGid, Writable(htask[p]),
         gid' = [gid EXCEPT ![htask[p]] = local[p].gid], UNCHANGED <<dl, hooks>>,
         NEW t \in Tasks, status'[t] = "erased" => status[t] = "erased"
  PROVE  DownloadStep(t)
  <1>1. HookFits(p) /\ GidFits(t)
    OBVIOUS
  <1>2. gid'[t] = "child" => dl[<<t, "child">>] # "none"
    BY <1>1 DEF HookFits, GidFits, TypeOK, StoreType
  <1>3. gid'[t] # gid[t] => Writable(t)
    BY DEF TypeOK, StoreType
  <1>. QED
    BY <1>1, <1>2, <1>3 DEF DownloadStep, GidFits, Runs, Gids

\* The steps of the hooks and of a retry.
LEMMA HookGoes ==
  ASSUME AllInv, DownloadsInv, NEW p \in Procs, HookStep(p)
  PROVE  Goes(p)
  <1>. USE DEF Goes, Moves, DeleteFits, CreatePcs, DeletePcs
  <1>0. local[p] \in Locals /\ HookFits(p)
    BY DEF TypeOK, RequestType
  <1>1. CASE Resolve(p)
    <2>1. PICK r \in ResolveFinalFiles(htask[p], local[p].gid),
               pc \in {"commit", "notReady", "rememberNotReady", "error", "rememberError"} :
            StepWith(p, pc, [local[p] EXCEPT !.gid = r[2], !.snap = "none"])
      BY <1>1 DEF Resolve
    <2>2. /\ hpc'[p] = pc /\ htask'[p] = htask[p]
          /\ local'[p] = [local[p] EXCEPT !.gid = r[2], !.snap = "none"]
          /\ \A q \in Procs \ {p} : Stays(q)
      BY <2>1, StepMoves
    <2>3. local'[p].gid = r[2]
      BY <1>0, <2>2 DEF Locals
    <2>4. local[p].gid \in Gids /\ (local[p].gid = "child" => dl[<<htask[p], "child">>] # "none")
      BY <1>0, <1>1 DEF Resolve, HookFits, WithGid, Locals
    <2>5. r[2] # "none" /\ (r[2] = "child" => dl[<<htask[p], "child">>] # "none")
      BY <2>4, ResolvedFits
    <2>6. UNCHANGED <<status, gid, dl, hooks>>
      BY <1>1 DEF Resolve, storeVars, aria2Vars
    <2>. QED
      BY <2>2, <2>3, <2>5, <2>6, SameDownloads DEF HookFits
  <1>2. CASE RememberGID(p)
    <2>1. ASSUME NEW t \in Tasks PROVE DownloadStep(t)
      BY <1>2, StoreGid, SameDownloads DEF RememberGID, WithGid, aria2Vars
    <2>2. ASSUME NEW pc \in {"error", "notReady"}, Step(p, pc), UNCHANGED dl PROVE Goes(p)
      <3>1. /\ hpc'[p] = pc /\ htask'[p] = htask[p] /\ local'[p] = local[p]
            /\ \A q \in Procs \ {p} : Stays(q)
        BY <2>2, StepMoves
      <3>. QED
        BY <1>0, <1>2, <2>1, <2>2, <3>1 DEF RememberGID, HookFits, WithGid
    <2>. QED
      BY <1>2, <2>1, <2>2, AnswerMoves DEF RememberGID, aria2Vars
  <1>3. CASE MarkNotReady(p) \/ MarkResolveError(p) \/ MarkStopped(p)
    <2>1. Answer(p) /\ UNCHANGED <<gid, dl, hooks>>
      BY <1>3 DEF MarkNotReady, MarkResolveError, MarkStopped, MarkStatus, aria2Vars
    <2>2. \A t \in Tasks : status'[t] = "erased" => status[t] = "erased"
      BY <1>3 DEF MarkNotReady, MarkResolveError, MarkStopped, MarkStatus, SetStatus, TypeOK, StoreType
    <2>. QED
      BY <2>1, <2>2, AnswerMoves, SameDownloads
  <1>4. CASE CommitPending(p)
    <2>1. UNCHANGED <<dl, hooks>> /\ \A t \in Tasks : status'[t] = "erased" => status[t] = "erased"
      BY <1>4 DEF CommitPending, SetStatus, TypeOK, StoreType, storeVars, aria2Vars
    <2>2. ASSUME NEW t \in Tasks PROVE DownloadStep(t)
      BY <1>4, <2>1, StoreGid, SameDownloads DEF CommitPending, WithGid, storeVars
    <2>3. CASE StepWith(p, "enqueue", NoLocal)
      <3>1. hpc'[p] = "enqueue" /\ \A q \in Procs \ {p} : Stays(q)
        BY <2>3, StepMoves
      <3>. QED
        BY <2>2, <3>1 DEF HookFits, WithGid
    <2>. QED
      BY <1>4, <2>2, <2>3, AnswerMoves DEF CommitPending
  <1>5. CASE Enqueue(p)
    BY <1>5, AnswerMoves, SameDownloads DEF Enqueue, storeVars, aria2Vars
  <1>6. CASE MarkRetry(p)
    <2>1. UNCHANGED <<gid, dl, hooks>> /\ \A t \in Tasks : status'[t] = "erased" => status[t] = "erased"
      BY <1>6 DEF MarkRetry, SetStatus, TypeOK, StoreType, aria2Vars
    <2>2. CASE Step(p, "enqueue")
      <3>1. hpc'[p] = "enqueue" /\ \A q \in Procs \ {p} : Stays(q)
        BY <2>2, StepMoves
      <3>. QED
        BY <2>1, <3>1, SameDownloads DEF HookFits, WithGid
    <2>. QED
      BY <1>6, <2>1, <2>2, AnswerMoves, SameDownloads DEF MarkRetry
  <1>. QED
    BY <1>1, <1>2, <1>3, <1>4, <1>5, <1>6 DEF HookStep

\* forceRemove stops a download and starts none.
LEMMA RemoveDownloads ==
  ASSUME AllInv, DownloadsInv, NEW u \in Tasks, NEW g \in Gids, Remove(u, g),
         NEW t \in Tasks, status'[t] = status[t], gid'[t] = gid[t]
  PROVE  DownloadStep(t) /\ (Runs(t)' => Runs(t) /\ <<t, "root">> # <<u, g>>)
  <1>1. GidFits(t)
    OBVIOUS
  <1>2. CASE dl[<<u, g>>] = "active"
    <2>1. /\ dl' = [dl EXCEPT ![<<u, g>>] = "stopped"]
          /\ hooks' = hooks \cup {<<"stopped", u, g>>}
      BY <1>2 DEF Remove
    <2>2. \A h \in Gids : dl'[<<t, h>>] = IF <<t, h>> = <<u, g>> THEN "stopped" ELSE dl[<<t, h>>]
      BY <2>1 DEF TypeOK, Aria2Type
    <2>3. <<"completed", t, "child">> \in hooks' => <<"completed", t, "child">> \in hooks
      BY <2>1
    <2>. QED
      BY <1>1, <1>2, <2>2, <2>3 DEF DownloadStep, GidFits, Runs, Gids, Writable, HasRow, Statuses
  <1>3. CASE dl[<<u, g>>] # "active"
    BY <1>1, <1>3 DEF Remove, DownloadStep, GidFits, Runs, Gids
  <1>. QED
    BY <1>2, <1>3

\* The steps of deleteTask.
LEMMA DeleteGoes ==
  ASSUME AllInv, DownloadsInv, NEW p \in Procs, DeleteStep(p)
  PROVE  Goes(p)
  <1>. USE DEF Goes, Moves, HookFits, WithGid, CreatePcs
  <1>0. /\ hpc[p] \in {"cancelRun", "awaitRun", "removeAria2", "removeDir", "erase"}
        /\ htask[p] \in Tasks /\ local[p] \in Locals
        /\ DeleteFits(p)
    BY DEF DeleteStep, CancelTaskRun, FindFollowed, RemoveAria2, RemoveDownloadIfPresent, EraseRow,
       TypeOK, TaskKnown, RequestType
  <1>. PICK u \in Tasks : u = htask[p]
    BY <1>0
  <1>. DEFINE Known == Runs(u) /\ gid[u] # "none"
  <1>1. ASSUME NEW pc \in DeletePcs, NEW l, StepWith(p, pc, l) \/ (Step(p, pc) /\ l = local[p]),
               gid' = gid, \A t \in Tasks : DownloadStep(t),
               Runs(u)' /\ gid[u] # "none" =>
                 /\ pc \in {"cancelRun", "awaitRun"} => l.snap = "root"
                 /\ pc = "removeAria2" => "root" \in l.todo
                 /\ pc \notin {"removeDir", "erase"}
        PROVE  Goes(p)
    <2>1. /\ hpc'[p] = pc /\ htask'[p] = htask[p] /\ local'[p] = l
          /\ \A q \in Procs \ {p} : Stays(q)
      BY <1>1, StepMoves
    <2>2. DeleteFits(p)'
      BY <1>1, <2>1 DEF DeleteFits, Runs
    <2>. QED
      BY <1>1, <2>1, <2>2 DEF DeletePcs
  <1>2. CASE CancelTaskRun(p)
    <2>1. UNCHANGED <<status, gid, dl, hooks>> /\ hpc[p] = "cancelRun" /\ Step(p, "awaitRun")
      BY <1>2 DEF CancelTaskRun, storeVars, aria2Vars
    <2>2. Known => local[p].snap = "root"
      BY <1>0, <2>1 DEF DeleteFits, DeletePcs, Runs
    <2>. QED
      BY <1>1, <2>1, <2>2, SameDownloads DEF Runs, DeletePcs
  <1>3. CASE FindFollowed(p)
    <2>1. UNCHANGED <<status, gid, dl, hooks>> /\ hpc[p] = "awaitRun"
      BY <1>3 DEF FindFollowed, storeVars, aria2Vars
    <2>2. Known => local[p].snap = "root"
      BY <1>0, <2>1 DEF DeleteFits, DeletePcs, Runs
    <2>3. CASE Step(p, "removeDir") /\ local[p].snap = "none"
      BY <1>1, <2>1, <2>2, <2>3, SameDownloads DEF Runs, DeletePcs
    <2>4. ASSUME NEW d, {local[p].snap} \subseteq d,
                 StepWith(p, "removeAria2", [local[p] EXCEPT !.todo = d])
          PROVE  Goes(p)
      <3>1. [local[p] EXCEPT !.todo = d].todo = d
        BY <1>0 DEF Locals
      <3>. QED
        BY <1>1, <2>1, <2>2, <2>4, <3>1, SameDownloads DEF Runs, DeletePcs
    <2>5. CASE Abort(p)
      BY <2>1, <2>5, AnswerMoves, SameDownloads DEF Abort
    <2>. QED
      BY <1>3, <2>3, <2>4, <2>5 DEF FindFollowed
  <1>4. CASE RemoveAria2(p)
    <2>. DEFINE g == IF "child" \in local[p].todo THEN "child" ELSE "root"
                rest == local[p].todo \ {g}
                l == [local[p] EXCEPT !.todo = rest]
    <2>1. UNCHANGED <<status, gid>> /\ hpc[p] = "removeAria2"
      BY <1>4 DEF RemoveAria2, storeVars
    <2>2. Known => "root" \in local[p].todo
      BY <1>0, <2>1 DEF DeleteFits, DeletePcs, Runs
    <2>3. g \in Gids /\ l.todo = rest
      BY <1>0 DEF Gids, Locals
    <2>4. CASE Remove(u, g) /\ StepWith(p, IF rest = {} THEN "removeDir" ELSE "removeAria2", l)
      <3>1. /\ \A t \in Tasks : DownloadStep(t)
            /\ Runs(u)' => Runs(u) /\ g # "root"
        BY <1>0, <2>1, <2>3, <2>4, RemoveDownloads
      <3>2. Runs(u)' /\ gid[u] # "none" => "root" \in rest
        BY <2>2, <3>1
      <3>. QED
        BY <1>1, <2>1, <2>3, <2>4, <3>1, <3>2 DEF DeletePcs
    <2>5. CASE Abort(p) /\ (Remove(u, g) \/ UNCHANGED <<dl, hooks>>)
      <3>1. \A t \in Tasks : DownloadStep(t)
        BY <1>0, <2>1, <2>3, <2>5, RemoveDownloads, SameDownloads
      <3>. QED
        BY <2>5, <3>1, AnswerMoves DEF Abort
    <2>. QED
      BY <1>4, <2>4, <2>5 DEF RemoveAria2
  <1>5. CASE RemoveDownloadIfPresent(p)
    <2>1. UNCHANGED <<status, gid, dl, hooks>> /\ hpc[p] = "removeDir"
      BY <1>5 DEF RemoveDownloadIfPresent, storeVars
    <2>2. ~Known
      BY <1>0, <2>1 DEF DeleteFits, DeletePcs, Runs
    <2>3. CASE Step(p, "erase")
      BY <1>1, <2>1, <2>2, <2>3, SameDownloads DEF Runs, DeletePcs
    <2>4. CASE Abort(p)
      BY <2>1, <2>4, AnswerMoves, SameDownloads DEF Abort
    <2>. QED
      BY <1>5, <2>3, <2>4 DEF RemoveDownloadIfPresent
  <1>6. CASE EraseRow(p)
    <2>1. UNCHANGED <<gid, dl, hooks>> /\ hpc[p] = "erase"
      BY <1>6 DEF EraseRow, aria2Vars
    <2>2. ~Known
      BY <1>0, <2>1 DEF DeleteFits, DeletePcs, Runs
    <2>3. ASSUME NEW t \in Tasks PROVE DownloadStep(t)
      <3>1. status' = status \/ status' = [status EXCEPT ![htask[p]] = "erased"]
        BY <1>6 DEF EraseRow, SetStatus
      <3>2. CASE t = u
        BY <2>1, <2>2, <3>2 DEF DownloadStep, GidFits, Runs, Gids
      <3>3. CASE t # u
        BY <2>1, <3>1, <3>3, SameDownloads DEF TypeOK, StoreType
      <3>. QED
        BY <3>2, <3>3
    <2>4. CASE Begin(p, "recreate", None, NoLocal)
      <3>1. hpc'[p] = "recreate" /\ \A q \in Procs \ {p} : Stays(q)
        BY <2>4, BeginMoves
      <3>. QED
        BY <2>3, <3>1 DEF DeleteFits, DeletePcs, Runs
    <2>. QED
      BY <1>6, <2>3, <2>4, AnswerMoves DEF EraseRow, Abort
  <1>. QED
    BY <1>2, <1>3, <1>4, <1>5, <1>6 DEF DeleteStep

\* Start takes up a row that nobody creates any more.
LEMMA RecoverGoes ==
  ASSUME AllInv, DownloadsInv, NEW t \in Tasks, RecoverDelete(t)
  PROVE  Goes(Boot)
  <1>1. /\ hpc'[Boot] = "cancelRun" /\ htask'[Boot] = t
        /\ local'[Boot] = [NoLocal EXCEPT !.snap = gid[t]]
        /\ \A q \in Procs \ {Boot} : Stays(q)
    BY BeginMoves DEF RecoverDelete, Procs
  <1>2. local'[Boot].snap = gid[t]
    BY <1>1 DEF NoLocal
  <1>3. Runs(t) => gid[t] \in {"none", "root"}
    BY DEF GidFits, Runs, TypeOK, StoreType, Gids
  <1>4. UNCHANGED <<status, gid, dl, hooks>>
    BY DEF RecoverDelete, storeVars, aria2Vars
  <1>. QED
    BY <1>1, <1>2, <1>3, <1>4, SameDownloads
       DEF Goes, Moves, HookFits, DeleteFits, WithGid, CreatePcs, DeletePcs, Runs

-----------------------------------------------------------------------------
(* The others, and the whole. *)

\* aria2 starts a child when the root is complete, and forgets no download.
LEMMA Aria2Goes ==
  ASSUME AllInv, DownloadsInv, Aria2Step, NEW t \in Tasks
  PROVE  DownloadStep(t) /\ (Runs(t)' => Runs(t))
  <1>. USE DEF TypeOK, Aria2Type
  <1>1. GidFits(t) /\ UNCHANGED <<status, gid>>
    BY DEF Aria2Step, Aria2Next, MetadataCompletes, DownloadCompletes, DownloadStops, HookExits, storeVars
  <1>2. ASSUME NEW u \in Tasks, MetadataCompletes(u) PROVE DownloadStep(t) /\ (Runs(t)' => Runs(t))
    <2>1. /\ dl[<<u, "root">>] = "active"
          /\ dl' = [dl EXCEPT ![<<u, "root">>] = "complete", ![<<u, "child">>] = "active"]
          /\ hooks' = hooks \cup {<<"completed", u, "root">>}
      BY <1>2 DEF MetadataCompletes
    <2>2. CASE t = u
      <3>1. dl'[<<t, "root">>] = "complete" /\ dl'[<<t, "child">>] = "active"
        BY <2>1, <2>2 DEF Gids
      <3>. QED
        BY <1>1, <2>1, <2>2, <3>1 DEF DownloadStep, GidFits, Runs, Gids
    <2>3. CASE t # u
      <3>1. \A g \in Gids : dl'[<<t, g>>] = dl[<<t, g>>]
        BY <2>1, <2>3
      <3>. QED
        BY <1>1, <2>1, <2>3, <3>1 DEF DownloadStep, GidFits, Runs, Gids
    <2>. QED
      BY <2>2, <2>3
  <1>3. ASSUME NEW u \in Tasks, NEW g \in Gids, DownloadCompletes(u, g)
        PROVE  DownloadStep(t) /\ (Runs(t)' => Runs(t))
    <2>1. /\ dl[<<u, g>>] = "active"
          /\ dl' = [dl EXCEPT ![<<u, g>>] = "complete"]
          /\ hooks' = hooks \cup {<<"completed", u, g>>}
      BY <1>3 DEF DownloadCompletes
    <2>2. \A h \in Gids : dl'[<<t, h>>] = IF <<t, h>> = <<u, g>> THEN "complete" ELSE dl[<<t, h>>]
      BY <2>1
    <2>. QED
      BY <1>1, <2>1, <2>2 DEF DownloadStep, GidFits, Runs, Gids
  <1>4. ASSUME NEW u \in Tasks, NEW g \in Gids, DownloadStops(u, g)
        PROVE  DownloadStep(t) /\ (Runs(t)' => Runs(t))
    BY <1>1, <1>4, RemoveDownloads DEF DownloadStops
  <1>5. ASSUME NEW h \in hooks, HookExits(h) PROVE DownloadStep(t) /\ (Runs(t)' => Runs(t))
    BY <1>1, <1>5 DEF HookExits, DownloadStep, GidFits, Runs, Gids
  <1>. QED
    BY <1>2, <1>3, <1>4, <1>5 DEF Aria2Step, Aria2Next

\* A process that lost its memory knows nothing, and the rows and downloads stay.
LEMMA MemoryLostGoes ==
  ASSUME DownloadsInv, LoseMemory
  PROVE  DownloadsInv'
  <1>1. /\ \A p \in Procs : hpc'[p] = "idle"
        /\ UNCHANGED <<status, gid, dl, hooks>>
    BY DEF LoseMemory, storeVars, aria2Vars
  <1>2. \A p \in Procs : CreateFits(p)' /\ HookFits(p)' /\ DeleteFits(p)'
    BY <1>1 DEF CreateFits, HookFits, DeleteFits, CreatePcs, WithGid, DeletePcs
  <1>3. (\A t \in Tasks : GidFits(t)') /\ KnownDownloadsStop'
    BY <1>1 DEF GidFits, KnownDownloadsStop, Runs
  <1>. QED
    BY <1>2, <1>3

LEMMA DownloadsInit == Init => AllInv /\ DownloadsInv
  <1>. SUFFICES ASSUME Init PROVE DownloadsInv
    BY FilesInit
  <1>1. \A t \in Tasks : GidFits(t)
    BY DEF Init, StoreInit, Aria2Init, GidFits, Gids
  <1>2. \A p \in Procs : CreateFits(p) /\ HookFits(p) /\ DeleteFits(p)
    BY DEF Init, RequestInit, CreateFits, HookFits, DeleteFits, CreatePcs, WithGid, DeletePcs
  <1>3. KnownDownloadsStop
    BY DEF Init, StoreInit, KnownDownloadsStop
  <1>. QED
    BY <1>1, <1>2, <1>3

\* Every step keeps the invariant.
LEMMA DownloadsStep ==
  ASSUME AllInv, DownloadsInv, [Next]_vars, "delete" \notin DuringCreate
  PROVE  AllInv' /\ DownloadsInv'
  <1>1. AllInv' /\ \A t \in Tasks : RowStep(t)
    BY FilesStep
  <1>2. SUFFICES DownloadsInv'
    BY <1>1
  <1>3. ASSUME NEW p \in Procs, NewRequest(p) \/ ProcStep(p) PROVE DownloadsInv'
    BY <1>1, <1>3, NewRequestGoes, CreateGoes, HookGoes, DeleteGoes, DownloadsKeep DEF ProcStep, Goes
  <1>4. ASSUME NEW t \in Tasks, RecoverDelete(t) PROVE DownloadsInv'
    BY <1>1, <1>4, RecoverGoes, DownloadsKeep DEF Goes, Procs
  <1>5. ASSUME UNCHANGED handlerVars, \A t \in Tasks : DownloadStep(t) PROVE DownloadsInv'
    BY <1>1, <1>5, DownloadsKeep DEF handlerVars, Stays, Procs
  <1>6. ASSUME NEW w \in Workers, WorkerStep(w), UNCHANGED handlerVars PROVE DownloadsInv'
    <2>1. RowsStayWritable
      BY <1>6, WorkerSafe
    <2>2. UNCHANGED <<gid, dl, hooks>>
      BY <1>6 DEF WorkerStep, RunStep, UploadEnds, Dequeue, GetTask, RegisterTaskRun, Reread, Claim,
         CleanupMetadata, UploadSucceeds, UploadFails, RemoveUploaded, MarkCompleted, MarkFailed,
         CloseRun, UnregisterTaskRun, runFrame, storeVars, aria2Vars
    <2>. QED
      BY <1>5, <1>6, <2>1, <2>2, SameDownloads DEF RowsStayWritable, Writable, HasRow, Statuses
  <1>7. CASE StartService \/ ServiceStarted \/ Shutdown \/ UNCHANGED vars
    BY <1>5, <1>7, SameDownloads
       DEF StartService, ServiceStarted, Shutdown, vars, storeVars, aria2Vars
  <1>8. CASE StartFails \/ Exit \/ Crash
    BY <1>8, MemoryLostGoes DEF StartFails, Exit, Crash
  <1>9. CASE Aria2Step
    BY <1>5, <1>9, Aria2Goes DEF Aria2Step
  <1>. QED
    BY <1>3, <1>4, <1>6, <1>7, <1>8, <1>9 DEF Next, GatewayStep

\* Whatever fails, crashes and starts again: once the GID of a download was
\* stored, no hook that follows it to its child, no second delete and no delete
\* that failed half way leaves it running when the task is erased.
THEOREM KnownDownloadsAreStopped ==
  ASSUME "delete" \notin DuringCreate
  PROVE  Spec => []KnownDownloadsStop
  <1>1. AllInv /\ DownloadsInv /\ [Next]_vars => AllInv' /\ DownloadsInv'
    BY DownloadsStep
  <1>2. DownloadsInv => KnownDownloadsStop
    OBVIOUS
  <1>. QED
    BY DownloadsInit, <1>1, <1>2, PTL DEF Spec

-----------------------------------------------------------------------------
(* Create stores the GID of its download: the proof for every hazard but   *)
(* the ones that make Create forget it.                                    *)

\* A step keeps GidKept when what it starts is stored or in Create's hands.
LEMMA GidStaysKept ==
  ASSUME GidKept,
         \A t \in Tasks : Runs(t)' =>
           \/ Runs(t) /\ gid'[t] \in {gid[t], "root"}
           \/ \E p \in Procs : hpc'[p] = "saveGid" /\ htask'[p] = t,
         \A p \in Procs : hpc[p] = "saveGid" =>
           \/ hpc'[p] = "saveGid" /\ htask'[p] = htask[p]
           \/ gid'[htask[p]] = "root"
  PROVE  GidKept'
  BY DEF GidKept

\* Without a lost answer, Create knows the download it added; without a failed
\* transaction, it stores its GID.
LEMMA CreateKeepsGid ==
  ASSUME AllInv, DownloadsInv, GidKept, NEW p \in Procs, CreateStep(p),
         "lostReply" \notin Faults, "store" \notin Faults
  PROVE  GidKept'
  <1>. USE DEF TypeOK, StoreType, Aria2Type
  <1>1. CASE CreateRefused(p) \/ SaveFailure(p)
    <2>1. hpc[p] # "saveGid" /\ \A q \in Procs \ {p} : Stays(q)
      BY <1>1, AnswerMoves DEF CreateRefused, SaveFailure
    <2>2. UNCHANGED <<gid, dl>>
      BY <1>1 DEF CreateRefused, SaveFailure, storeVars, aria2Vars
    <2>. QED
      BY <2>1, <2>2, GidStaysKept DEF Runs, Stays
  <1>2. CASE AddDownload(p)
    <2>1. PICK pc \in {"saveGid", "saveFailure"} : Step(p, pc)
      BY <1>2 DEF AddDownload
    <2>2. /\ hpc[p] = "add" /\ hpc'[p] = pc /\ htask'[p] = htask[p]
          /\ \A q \in Procs \ {p} : Stays(q)
      BY <1>2, <2>1, StepMoves DEF AddDownload
    <2>3. /\ gid' = gid
          /\ dl' = dl \/ (hpc'[p] = "saveGid" /\ dl' = [dl EXCEPT ![<<htask[p], "root">>] = "active"])
      BY <1>2, <2>2 DEF AddDownload, Step, storeVars, RequestType
    <2>. QED
      BY <2>2, <2>3, GidStaysKept DEF Runs, Stays
  <1>3. CASE SaveGid(p)
    <2>1. Writable(htask[p]) /\ htask[p] \in Tasks /\ hpc[p] = "saveGid"
      BY <1>3 DEF SaveGid, SafetyInv, CreatingRows, CreatePcs, TaskKnown
    <2>2. gid' = [gid EXCEPT ![htask[p]] = "root"] /\ dl' = dl
      BY <1>3, <2>1 DEF SaveGid, Writable, aria2Vars
    <2>3. \A q \in Procs \ {p} : Stays(q)
      BY <1>3, AnswerMoves DEF SaveGid
    <2>. QED
      BY <2>1, <2>2, <2>3, GidStaysKept DEF Runs, Stays
  <1>. QED
    BY <1>1, <1>2, <1>3 DEF CreateStep

\* While the root runs it has no child, so a hook stores no other GID.
LEMMA HookKeepsGid ==
  ASSUME AllInv, DownloadsInv, NEW p \in Procs, HookStep(p), NEW t \in Tasks, Runs(t)'
  PROVE  Runs(t) /\ gid'[t] \in {gid[t], "root"}
  <1>1. dl' = dl
    BY DEF HookStep, Resolve, RememberGID, MarkNotReady, MarkResolveError, MarkStopped, MarkStatus,
       CommitPending, Enqueue, MarkRetry, aria2Vars
  <1>2. CASE hpc[p] \in WithGid /\ gid' = [gid EXCEPT ![htask[p]] = local[p].gid]
    <2>1. HookFits(p) /\ GidFits(t) /\ local[p].gid \in Gids \cup {"none"}
      BY DEF TypeOK, RequestType, Locals
    <2>. QED
      BY <1>1, <1>2, <2>1 DEF HookFits, GidFits, Runs, TypeOK, StoreType, Gids
  <1>3. CASE gid' = gid
    BY <1>1, <1>3 DEF Runs
  <1>. QED
    BY <1>2, <1>3 DEF HookStep, Resolve, RememberGID, MarkNotReady, MarkResolveError, MarkStopped,
       MarkStatus, CommitPending, Enqueue, MarkRetry, WithGid, storeVars

\* The other requests start no download and store no GID.
LEMMA OthersKeepGid ==
  ASSUME AllInv, DownloadsInv, NEW p \in Procs, NewRequest(p) \/ DeleteStep(p)
  PROVE  /\ gid' = gid /\ hpc[p] # "saveGid"
         /\ \A t \in Tasks : Runs(t)' => Runs(t)
  <1>1. CASE NewRequest(p)
    BY <1>1 DEF NewRequest, CreateRow, Completed, Stopped, RetryUpload, Delete, Accepts, Runs,
       storeVars, aria2Vars
  <1>2. CASE DeleteStep(p)
    <2>1. gid' = gid /\ hpc[p] # "saveGid"
      BY <1>2 DEF DeleteStep, CancelTaskRun, FindFollowed, RemoveAria2, RemoveDownloadIfPresent,
         EraseRow, storeVars
    <2>2. CASE RemoveAria2(p)
      <3>1. PICK u \in Tasks, g \in Gids : Remove(u, g) \/ UNCHANGED <<dl, hooks>>
        BY <2>2 DEF RemoveAria2, Gids, TypeOK, TaskKnown
      <3>2. UNCHANGED <<status, gid>>
        BY <2>2 DEF RemoveAria2, storeVars
      <3>. QED
        BY <2>1, <3>1, <3>2, RemoveDownloads DEF Runs
    <2>3. CASE dl' = dl
      BY <2>1, <2>3 DEF Runs
    <2>. QED
      BY <1>2, <2>2, <2>3
         DEF DeleteStep, CancelTaskRun, FindFollowed, RemoveDownloadIfPresent, EraseRow, aria2Vars
  <1>. QED
    BY <1>1, <1>2

\* The faults after which nobody knows the GID of a download that runs.
Forgets == {"lostReply", "store", "crash", "abandon"}

\* Without them no step loses a GID.
LEMMA GidKeptStep ==
  ASSUME AllInv, DownloadsInv, GidKept, [Next]_vars, Faults \cap Forgets = {}
  PROVE  GidKept'
  <1>0. {"lostReply", "store", "crash", "abandon"} \cap Faults = {}
    BY DEF Forgets
  <1>1. ASSUME NEW p \in Procs, NewRequest(p) \/ ProcStep(p) PROVE GidKept'
    <2>1. Goes(p)
      BY <1>1, NewRequestGoes, CreateGoes, HookGoes, DeleteGoes DEF ProcStep
    <2>2. CASE CreateStep(p)
      BY <1>0, <2>2, CreateKeepsGid
    <2>3. CASE HookStep(p)
      <3>1. hpc[p] # "saveGid"
        BY <2>3 DEF HookStep, Resolve, RememberGID, MarkNotReady, MarkResolveError, MarkStopped,
           MarkStatus, CommitPending, Enqueue, MarkRetry
      <3>. QED
        BY <2>1, <2>3, <3>1, HookKeepsGid, GidStaysKept DEF Goes, Stays
    <2>4. CASE NewRequest(p) \/ DeleteStep(p)
      BY <2>1, <2>4, OthersKeepGid, GidStaysKept DEF Goes, Stays
    <2>. QED
      BY <1>1, <2>2, <2>3, <2>4 DEF ProcStep
  <1>2. ASSUME NEW t \in Tasks, RecoverDelete(t) PROVE GidKept'
    <2>1. Goes(Boot) /\ hpc[Boot] = "idle" /\ UNCHANGED <<gid, dl>>
      BY <1>2, RecoverGoes DEF RecoverDelete, storeVars, aria2Vars
    <2>. QED
      BY <2>1, GidStaysKept DEF Goes, Stays, Runs, Procs
  <1>3. ASSUME UNCHANGED <<gid, hpc, htask>>, \A t \in Tasks : Runs(t)' => Runs(t) PROVE GidKept'
    BY <1>3, GidStaysKept
  <1>4. ASSUME NEW w \in Workers, WorkerStep(w), UNCHANGED handlerVars PROVE GidKept'
    <2>1. UNCHANGED <<gid, dl, hpc, htask>>
      BY <1>4 DEF WorkerStep, RunStep, UploadEnds, Dequeue, GetTask, RegisterTaskRun, Reread, Claim,
         CleanupMetadata, UploadSucceeds, UploadFails, RemoveUploaded, MarkCompleted, MarkFailed,
         CloseRun, UnregisterTaskRun, runFrame, storeVars, aria2Vars, handlerVars
    <2>. QED
      BY <1>3, <2>1 DEF Runs
  <1>5. CASE Exit
    <2>1. /\ \A p \in Procs : hpc[p] = "idle"
          /\ UNCHANGED <<gid, dl>>
      BY <1>0, <1>5 DEF Exit, LoseMemory, storeVars, aria2Vars
    <2>. QED
      BY <2>1, GidStaysKept DEF Runs
  <1>6. CASE StartService \/ ServiceStarted \/ Shutdown \/ UNCHANGED vars
    BY <1>3, <1>6 DEF StartService, ServiceStarted, Shutdown, vars, storeVars, aria2Vars, handlerVars, Runs
  <1>7. CASE Aria2Step
    <2>1. UNCHANGED <<gid, hpc, htask>>
      BY <1>7 DEF Aria2Step, Aria2Next, MetadataCompletes, DownloadCompletes, DownloadStops,
         HookExits, storeVars, handlerVars
    <2>. QED
      BY <1>3, <1>7, <2>1, Aria2Goes
  <1>8. ~StartFails /\ ~Crash
    BY <1>0 DEF StartFails, Crash
  <1>. QED
    BY <1>1, <1>2, <1>4, <1>5, <1>6, <1>7, <1>8 DEF Next, GatewayStep

\* The download that Create added for a task does not run on when the task is
\* erased, however many requests, workers and hooks run, calls to aria2 fail,
\* directories cannot be removed and destinations are missing: every download
\* that runs has its GID in the row that Delete reads, unless Create itself could
\* not learn it or store it.
THEOREM ErasedTasksDownloadNothing ==
  ASSUME "delete" \notin DuringCreate, Faults \cap Forgets = {}
  PROVE  Spec => []EraseStopsDownloads
  <1>1. Init => GidKept
    BY DEF Init, Aria2Init, GidKept, Runs, Gids
  <1>2. AllInv /\ DownloadsInv /\ GidKept /\ [Next]_vars => AllInv' /\ DownloadsInv' /\ GidKept'
    BY DownloadsStep, GidKeptStep
  <1>3. AllInv /\ DownloadsInv /\ GidKept => EraseStopsDownloads
    <2>. SUFFICES ASSUME AllInv, DownloadsInv, GidKept, NEW t \in Tasks, status[t] = "erased", Runs(t)
                  PROVE  FALSE
      BY DEF EraseStopsDownloads, Runs
    <2>1. ~Writable(t)
      BY DEF Writable, HasRow, Statuses
    <2>2. gid[t] = "root"
      BY <2>1 DEF GidKept, SafetyInv, CreatingRows, CreatePcs
    <2>. QED
      BY <2>2 DEF KnownDownloadsStop
  <1>. QED
    BY DownloadsInit, <1>1, <1>2, <1>3, PTL DEF Spec

-----------------------------------------------------------------------------
(* A pending task is with a worker or on its way to one: the proof for one *)
(* worker.  (With two, a job taken while the run of its task ends is lost.) *)

\* A run stays cancelled while it ends, and nobody else is.
LEMMA CancelledStays ==
  ASSUME TypeOK, CancelledFits, \A t \in Tasks : RowStep(t),
         \A w \in Workers : cancelled'[w] =>
           \/ cancelled[w] /\ InTable(w)' /\ wtask'[w] = wtask[w]
           \/ InTable(w)' /\ status'[wtask'[w]] \in {"deleting", "erased"}
  PROVE  CancelledFits'
  <1>. SUFFICES ASSUME NEW w \in Workers, cancelled'[w], cancelled[w], InTable(w)',
                       wtask'[w] = wtask[w]
                PROVE  status'[wtask'[w]] \in {"deleting", "erased"}
    BY DEF CancelledFits
  <1>1. InTable(w) /\ status[wtask[w]] \in {"deleting", "erased"}
    BY DEF CancelledFits
  <1>2. PICK t \in Tasks : t = wtask[w]
    BY <1>1 DEF TypeOK, TaskKnown, InTable, RunPcs
  <1>3. status'[t] \in {"deleting", "erased"}
    BY <1>1, <1>2 DEF RowStep, Writable, HasRow, Statuses
  <1>. QED
    BY <1>2, <1>3

\* Only a delete cancels a run, and it marked the row before.
LEMMA CancelledStep ==
  ASSUME AllInv, AllInv', CancelledFits, [Next]_vars, \A t \in Tasks : RowStep(t)
  PROVE  CancelledFits'
  <1>. USE DEF TypeOK, WorkerType
  <1>1. ASSUME UNCHANGED <<cancelled, wpc, wtask>> PROVE CancelledFits'
    BY <1>1, CancelledStays DEF CancelledFits, InTable
  <1>2. ASSUME NEW p \in Procs, CancelTaskRun(p) PROVE CancelledFits'
    <2>1. PICK t \in Tasks : t = htask[p]
      BY <1>2 DEF CancelTaskRun, TaskKnown
    <2>2. /\ status[t] \in {"deleting", "erased"} /\ UNCHANGED <<status, wpc, wtask>>
          /\ taskRuns[t] = None => cancelled' = cancelled
          /\ taskRuns[t] # None => cancelled' = [cancelled EXCEPT ![taskRuns[t]] = TRUE]
      BY <1>2, <2>1 DEF CancelTaskRun, SafetyInv, DeletingRows, DeletePcs, storeVars
    <2>3. CASE taskRuns[t] = None
      BY <1>1, <2>2, <2>3
    <2>4. CASE taskRuns[t] # None
      <3>1. InTable(taskRuns[t]) /\ wtask[taskRuns[t]] = t /\ taskRuns[t] \in Workers
        BY <2>4 DEF SafetyInv, RunsRegistered
      <3>. QED
        BY <2>2, <2>4, <3>1, CancelledStays DEF CancelledFits, InTable
    <2>. QED
      BY <2>3, <2>4
  <1>3. ASSUME NEW p \in Procs, NewRequest(p) \/ ProcStep(p) PROVE CancelledFits'
    BY <1>1, <1>2, <1>3
       DEF NewRequest, CreateRow, Completed, Stopped, RetryUpload, Delete, ProcStep,
       CreateStep, CreateRefused, AddDownload, SaveGid, SaveFailure, HookStep, Resolve, RememberGID,
       MarkNotReady, MarkResolveError, MarkStopped, MarkStatus, CommitPending, Enqueue, MarkRetry,
       DeleteStep, FindFollowed, RemoveAria2, RemoveDownloadIfPresent, EraseRow, workerVars
  <1>4. ASSUME NEW w \in Workers, WorkerStep(w), UNCHANGED handlerVars PROVE CancelledFits'
    <2>1. /\ \A v \in Workers \ {w} : wpc'[v] = wpc[v] /\ wtask'[v] = wtask[v]
          /\ wpc[w] # "idle" /\ wpc'[w] # "idle" => wtask'[w] = wtask[w]
      BY <1>4, WorkerEffects DEF WorkerEffect
    <2>2. CASE UnregisterTaskRun(w)
      <3>1. cancelled' = [cancelled EXCEPT ![w] = FALSE]
        BY <2>2 DEF UnregisterTaskRun
      <3>. QED
        BY <2>1, <3>1, CancelledStays DEF CancelledFits, InTable
    <2>3. CASE cancelled' = cancelled /\ (InTable(w) => InTable(w)')
      BY <2>1, <2>3, CancelledStays DEF CancelledFits, InTable, RunPcs
    <2>. QED
      BY <1>4, <2>2, <2>3 DEF WorkerStep, RunStep, UploadEnds, Dequeue, GetTask, RegisterTaskRun,
         Reread, Claim, CleanupMetadata, UploadSucceeds, UploadFails, RemoveUploaded, MarkCompleted,
         MarkFailed, CloseRun, runFrame, Goto, InTable, RunPcs
  <1>5. CASE StartFails \/ Exit \/ Crash
    BY <1>5 DEF StartFails, Exit, Crash, LoseMemory, CancelledFits
  <1>6. CASE StartService \/ ServiceStarted \/ Shutdown \/ Aria2Step \/ UNCHANGED vars
    BY <1>1, <1>6 DEF StartService, ServiceStarted, Shutdown, Aria2Step, vars, workerVars
  <1>7. ASSUME NEW t \in Tasks, RecoverDelete(t) PROVE CancelledFits'
    BY <1>1, <1>7 DEF RecoverDelete, workerVars
  <1>. QED
    BY <1>3, <1>4, <1>5, <1>6, <1>7 DEF Next, GatewayStep

\* What is queued or about to be stays so in a step that keeps the queue.
LEMMA OwnedStays ==
  ASSUME NEW t \in Tasks, Owned(t), queuedJobs \subseteq queuedJobs', UNCHANGED <<wpc, wtask>>,
         \A q \in Procs : hpc[q] = "enqueue" /\ htask[q] = t =>
           (hpc'[q] = "enqueue" /\ htask'[q] = t) \/ t \in queuedJobs'
  PROVE  Owned(t)'
  BY DEF Owned

\* A hook or a retry that makes a task pending puts it into the queue next.
LEMMA RequestOwns ==
  ASSUME AllInv, PendingIsOwned, NEW p \in Procs, NewRequest(p) \/ ProcStep(p), phase' = "up",
         NEW t \in Tasks, t \in PendingTransfers'
  PROVE  Owned(t)'
  <1>. USE DEF TypeOK, StoreType
  <1>0. phase = "up" /\ UNCHANGED <<wpc, wtask>>
    BY DEF NewRequest, CreateRow, Completed, Stopped, RetryUpload, Delete, ProcStep,
       CreateStep, CreateRefused, AddDownload, SaveGid, SaveFailure, HookStep, Resolve, RememberGID,
       MarkNotReady, MarkResolveError, MarkStopped, MarkStatus, CommitPending, Enqueue, MarkRetry,
       DeleteStep, CancelTaskRun, FindFollowed, RemoveAria2, RemoveDownloadIfPresent, EraseRow,
       Abort, workerVars
  <1>1. \A q \in Procs \ {p} : hpc'[q] = hpc[q] /\ htask'[q] = htask[q]
    BY NewRequestEffect, CreateEffect, HookEffect, DeleteEffect DEF RequestEffect, ProcStep
  <1>2. ASSUME hpc[p] # "enqueue", t \in PendingTransfers, queuedJobs' = queuedJobs PROVE Owned(t)'
    BY <1>0, <1>1, <1>2, OwnedStays DEF PendingIsOwned
  <1>3. ASSUME Step(p, "enqueue") \/ StepWith(p, "enqueue", NoLocal), hpc[p] # "enqueue",
               t = htask[p] \/ t \in PendingTransfers, queuedJobs' = queuedJobs
        PROVE  Owned(t)'
    <2>1. hpc'[p] = "enqueue" /\ htask'[p] = htask[p]
      BY <1>3, StepMoves
    <2>. QED
      BY <1>2, <1>3, <2>1 DEF Owned
  <1>4. CASE CommitPending(p)
    <2>1. hpc[p] = "commit" /\ queuedJobs' = queuedJobs
      BY <1>4 DEF CommitPending, workerVars
    <2>2. t = htask[p] \/ t \in PendingTransfers
      BY <1>4 DEF CommitPending, SetStatus, PendingTransfers, storeVars
    <2>3. StepWith(p, "enqueue", NoLocal) \/ t \in PendingTransfers
      BY <1>4 DEF CommitPending, PendingTransfers, storeVars
    <2>. QED
      BY <1>2, <1>3, <2>1, <2>2, <2>3
  <1>5. CASE MarkRetry(p)
    <2>1. hpc[p] = "retryUpload" /\ queuedJobs' = queuedJobs
      BY <1>5 DEF MarkRetry, workerVars
    <2>2. t = htask[p] \/ t \in PendingTransfers
      BY <1>5 DEF MarkRetry, SetStatus, PendingTransfers
    <2>3. Step(p, "enqueue") \/ t \in PendingTransfers
      BY <1>5 DEF MarkRetry, PendingTransfers
    <2>. QED
      BY <1>2, <1>3, <2>1, <2>2, <2>3
  <1>6. CASE Enqueue(p)
    <2>1. t \in PendingTransfers /\ queuedJobs' = queuedJobs \cup {htask[p]}
      BY <1>6 DEF Enqueue, PendingTransfers, storeVars
    <2>. QED
      BY <1>0, <1>1, <2>1, OwnedStays DEF PendingIsOwned
  <1>7. CASE NewRequest(p) \/ CreateStep(p) \/ DeleteStep(p)
    <2>1. hpc[p] # "enqueue" /\ queuedJobs' = queuedJobs
      BY <1>7 DEF NewRequest, CreateRow, Completed, Stopped, RetryUpload, Delete, Accepts,
         CreateStep, CreateRefused, AddDownload, SaveGid, SaveFailure, DeleteStep, CancelTaskRun,
         FindFollowed, RemoveAria2, RemoveDownloadIfPresent, EraseRow, workerVars
    <2>2. t \in PendingTransfers
      BY <1>7 DEF NewRequest, CreateRow, Completed, Stopped, RetryUpload, Delete, CreateStep,
         CreateRefused, AddDownload, SaveGid, SaveFailure, DeleteStep, CancelTaskRun, FindFollowed,
         RemoveAria2, RemoveDownloadIfPresent, EraseRow, SetStatus, PendingTransfers, storeVars
    <2>. QED
      BY <1>2, <2>1, <2>2
  <1>8. CASE Resolve(p) \/ RememberGID(p) \/ MarkNotReady(p) \/ MarkResolveError(p) \/ MarkStopped(p)
    <2>1. hpc[p] # "enqueue" /\ queuedJobs' = queuedJobs
      BY <1>8 DEF Resolve, RememberGID, MarkNotReady, MarkResolveError, MarkStopped, MarkStatus, workerVars
    <2>2. t \in PendingTransfers
      BY <1>8 DEF Resolve, RememberGID, MarkNotReady, MarkResolveError, MarkStopped, MarkStatus,
         SetStatus, PendingTransfers, storeVars
    <2>. QED
      BY <1>2, <2>1, <2>2
  <1>. QED
    BY <1>4, <1>5, <1>6, <1>7, <1>8 DEF ProcStep, HookStep

\* The only worker finds no run of its task, and leaves one only when the row
\* says that the task is done with, or somebody deletes it.
LEMMA WorkerOwns ==
  ASSUME AllInv, CancelledFits, PendingIsOwned, \A v, w \in Workers : v = w, "store" \notin Faults,
         NEW w \in Workers, WorkerStep(w), UNCHANGED handlerVars, phase' = "up",
         NEW t \in Tasks, t \in PendingTransfers'
  PROVE  Owned(t)'
  <1>. USE DEF TypeOK, StoreType, WorkerType
  <1>. DEFINE Holds == wtask[w] = t /\ wpc[w] \in WorkerPcs \ {"idle", "close", "unregister"}
              Waits == t \in queuedJobs \/ \E p \in Procs : hpc[p] = "enqueue" /\ htask[p] = t
  <1>0. phase = "up" /\ UNCHANGED <<hpc, htask>>
    BY DEF WorkerStep, RunStep, UploadEnds, Dequeue, GetTask, RegisterTaskRun, Reread, Claim,
       CleanupMetadata, UploadSucceeds, UploadFails, RemoveUploaded, MarkCompleted, MarkFailed,
       CloseRun, UnregisterTaskRun, runFrame, handlerVars
  <1>1. ASSUME t \in PendingTransfers PROVE Waits \/ Holds
    BY <1>0, <1>1 DEF PendingIsOwned, Owned
  <1>2. ASSUME Waits, queuedJobs' = queuedJobs PROVE Owned(t)'
    BY <1>0, <1>2 DEF Owned
  <1>3. ASSUME wtask'[w] = t, wpc'[w] \in WorkerPcs \ {"idle", "close", "unregister"} PROVE Owned(t)'
    BY <1>3 DEF Owned
  <1>4. ASSUME NEW u \in Tasks, Dequeue(w, u) PROVE Owned(t)'
    <2>1. /\ wpc[w] = "idle" /\ queuedJobs' = queuedJobs \ {u} /\ UNCHANGED status
          /\ wtask'[w] = u /\ wpc'[w] = "get"
      BY <1>4 DEF Dequeue, Goto, storeVars
    <2>2. Waits
      BY <1>1, <2>1 DEF PendingTransfers
    <2>. QED
      BY <1>0, <1>3, <2>1, <2>2 DEF Owned, WorkerPcs
  <1>5. ASSUME RunStep(w) \/ UploadEnds(w) PROVE Owned(t)'
    <2>1. queuedJobs' = queuedJobs
      BY <1>5 DEF RunStep, UploadEnds, GetTask, RegisterTaskRun, Reread, Claim, CleanupMetadata,
         UploadSucceeds, UploadFails, RemoveUploaded, MarkCompleted, MarkFailed, CloseRun,
         UnregisterTaskRun, runFrame
    <2>2. t \in PendingTransfers \/ (Claim(w) /\ t = wtask[w] /\ Writable(t))
      BY <1>5 DEF RunStep, UploadEnds, GetTask, RegisterTaskRun, Reread, Claim, CleanupMetadata,
         UploadSucceeds, UploadFails, RemoveUploaded, MarkCompleted, MarkFailed, CloseRun,
         UnregisterTaskRun, runFrame, SetStatus, PendingTransfers, storeVars
    <2>3. CASE Waits
      BY <1>2, <2>1, <2>3
    <2>4. CASE Claim(w) /\ t = wtask[w] /\ Writable(t)
      BY <1>3, <2>4 DEF Claim, Refused, Goto, WorkerPcs, runFrame
    <2>5. CASE Holds /\ t \in PendingTransfers
      <3>1. Writable(t) /\ ~Refused(t)
        BY <2>5 DEF PendingTransfers, Writable, HasRow, Statuses, Refused
      <3>2. ~cancelled[w]
        BY <2>5 DEF CancelledFits, PendingTransfers
      <3>3. ~ShouldStopTransfer(w)
        BY <1>0, <2>5, <3>1, <3>2 DEF ShouldStopTransfer, ContextDone
      <3>4. wpc[w] = "register" => taskRuns[t] = None
        BY <2>5 DEF SafetyInv, RunsRegistered, InTable, RunPcs
      <3>5. ~MarkCompleted(w) /\ ~MarkFailed(w)
        BY <2>5, <3>3 DEF MarkCompleted, MarkFailed, SetStatus, PendingTransfers
      <3>. QED
        BY <1>3, <1>5, <2>5, <3>1, <3>3, <3>4, <3>5
           DEF RunStep, UploadEnds, GetTask, RegisterTaskRun, Reread, Claim, CleanupMetadata,
           UploadSucceeds, UploadFails, RemoveUploaded, CloseRun, UnregisterTaskRun, runFrame, Goto,
           WorkerPcs
    <2>. QED
      BY <1>1, <2>2, <2>3, <2>4, <2>5
  <1>. QED
    BY <1>4, <1>5 DEF WorkerStep

\* Every other step keeps the holders, or ends with the service down; Start
\* queues what PendingTransfers lists.
LEMMA PendingStep ==
  ASSUME AllInv, CancelledFits, PendingIsOwned, [Next]_vars,
         \A v, w \in Workers : v = w, "store" \notin Faults
  PROVE  PendingIsOwned'
  <1>. SUFFICES ASSUME phase' = "up", NEW t \in Tasks, t \in PendingTransfers' PROVE Owned(t)'
    BY DEF PendingIsOwned, PendingTransfers
  <1>1. ASSUME NEW p \in Procs, NewRequest(p) \/ ProcStep(p) PROVE Owned(t)'
    BY <1>1, RequestOwns
  <1>2. ASSUME NEW w \in Workers, WorkerStep(w), UNCHANGED handlerVars PROVE Owned(t)'
    BY <1>2, WorkerOwns
  <1>3. CASE Aria2Step \/ UNCHANGED vars
    <2>1. /\ phase = "up" /\ t \in PendingTransfers
          /\ UNCHANGED <<queuedJobs, wpc, wtask, hpc, htask>>
      BY <1>3 DEF Aria2Step, Aria2Next, MetadataCompletes, DownloadCompletes, DownloadStops,
         HookExits, vars, storeVars, workerVars, handlerVars, PendingTransfers
    <2>. QED
      BY <2>1, OwnedStays DEF PendingIsOwned
  <1>4. CASE ServiceStarted
    BY <1>4 DEF ServiceStarted, PendingTransfers, Owned, storeVars
  <1>5. ASSUME NEW u \in Tasks, RecoverDelete(u) PROVE FALSE
    BY <1>5 DEF RecoverDelete
  <1>6. ~StartService /\ ~Shutdown /\ ~StartFails /\ ~Exit /\ ~Crash
    BY DEF StartService, Shutdown, StartFails, Exit, Crash, LoseMemory
  <1>. QED
    BY <1>1, <1>2, <1>3, <1>4, <1>5, <1>6 DEF Next, GatewayStep

\* With one worker and a database that works, no hook, retry, delete, restart or
\* fault outside lets a pending task of a running service fall between the job
\* set and the worker.
THEOREM PendingTasksAreOwned ==
  ASSUME \A v, w \in Workers : v = w, "store" \notin Faults, "delete" \notin DuringCreate
  PROVE  Spec => []PendingIsOwned
  <1>1. Init => CancelledFits /\ PendingIsOwned
    BY DEF Init, WorkerInit, CancelledFits, PendingIsOwned
  <1>2. AllInv /\ CancelledFits /\ PendingIsOwned /\ [Next]_vars
          => AllInv' /\ CancelledFits' /\ PendingIsOwned'
    BY FilesStep, CancelledStep, PendingStep
  <1>. QED
    BY FilesInit, <1>1, <1>2, PTL DEF Spec
=============================================================================
