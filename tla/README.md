# TLA+ development of aria2-transfer-gateway

The gateway accepts download tasks over HTTP, has aria2 download them, and
uploads the finished files to a destination (OpenList or rclone).  What is hard
in it is not one request but several: a hook that overtakes the Create it
belongs to, a Delete while a worker uploads, a retry of a task that is still
running, a preview that is cancelled while it finishes, a restart in the middle
of any of them.  This directory models those parts, checks small instances with
TLC and proves the most important invariants, and that the gateway implements
an abstract contract of a task, with TLAPS.

References such as `service.go:1008` are to `src/internal/transfer/service.go`
unless a path is given.

## 1. The system

| component | state it keeps | operations | interacts with |
|---|---|---|---|
| task store (`internal/store/store.go`) | the `tasks` table in SQLite | `Create`, `Get`, `Update`, `Delete`, `FindByGID`, `ListFiltered` | called by everything; one mutex and one transaction per call |
| transfer requests (`service.go`) | nothing of its own | `Create`, `HandleCompleted`, `HandleStopped`, `Retry`, `Delete`, `DeleteByGID` | one goroutine per HTTP request; store, aria2 RPC, directories, job queue, table of runs |
| transfer worker (`service.go:1251-1478`) | `taskRuns`, one `taskRun` per running task | `runTransfer`, `cancelTaskRun` | store, provider, directories; cancelled by `deleteTask` and by the end of the process's context |
| job queue (`service.go:226-297, 1231-1274`) | `queuedJobs`, `jobsMu`, `jobsCond`, `started`, `stopped` | `enqueue`, `worker`, `Start`, `Wait` | requests put, workers take |
| lifecycle (`cmd/gateway/main.go`, `Start`, `Wait`) | the process | start with recovery, shutdown, exit | everything in memory ends with it |
| destinations (`transfer/destinations.go`, `store/destinations.go`) | `destinations` and `gateway_settings` tables, a copy in memory | create, update, delete, set default | `Create` looks its destination up twice; `DeleteDestination` looks through the tasks |
| aria2 client and daemon (`internal/aria2`) | the daemon's downloads | add, status, files, followers, remove | hook scripts call `HandleCompleted` and `HandleStopped` |
| file resolution (`service.go:703-828`) | none | which files of a download are final | aria2 RPC and the task's directory |
| previews (`service.go:397-601`, `httpapi/server.go:66-380`) | preview jobs in memory, a temporary download | create, poll, cancel, expire | aria2 RPC |
| tracker updater (`internal/tracker`) | the list last fetched and last applied | refresh with back-off | aria2's global options, task options |
| providers (`internal/provider`) | none | `Transfer`, file by file | OpenList HTTP, the rclone binary |
| HTTP API (`httpapi/server.go`) | none besides preview jobs | routing, requests that name several tasks, lists in pages | the service |
| JSON-RPC proxy (`httpapi/rpc.go`) | none | authorize, decode, create managed tasks, forward the rest | the service, aria2's RPC endpoint |
| configuration, domain values (`internal/config`, `internal/domain`) | none | read the file; normalise paths and proxies | used by all |

The behaviours that are hard, and the line where each bites, are the hazards of
`PROJECT.json`.  In short: the row of a task is written by its Create, by hooks,
by retries, by workers and by deletes, each of which reads it, leaves the store's
mutex, waits for RPC or disk, and writes it again; deletes must outlive the
process; the worker pool must neither lose a job nor hang at the end; references
from tasks to destinations must survive races with destination management.

What makes each component correct:

* requests and worker together: nobody uploads what is being removed; one run
  per task; a row being deleted is only ever erased; files go away only after
  they arrived or by a Delete; completed means uploaded; a pending task has
  somebody who will move it; an accepted Delete ends;
* pool: a queued job is taken while a worker is free, and shutdown wakes all;
* destinations: references and the default resolve, memory equals database;
* aria2: erased tasks leave no download behind;
* trackers: what the updater remembers is what aria2 has, and a failed refresh
  costs nothing that was cached;
* previews: they end, remove what they made, and a cancelled job stays cancelled;
* files: only final files are sent, whole, and they stay on disk until they were;
* requests of several parts: every part is done and answered once, and what the
  answer says is true.

## 2. The modules

```
TaskStore  <-  Aria2  <-  TransferWorker  <-  TaskRequests  <-  Gateway  <-  MCGateway
                                                 Gateway  <~  TaskContract
        proofs:   Gateway  <-  GatewaySafety  <-  GatewayFiles  <-  GatewayDuties
WorkerPool    <-  MCWorkerPool, WorkerPoolProofs;   WorkerPool  <~  JobQueue
Destinations  <-  MCDestinations, DestinationsProofs
TrackerUpdater  <-  MCTrackerUpdater, TrackerProofs
PreviewJobs   <-  MCPreviewJobs, PreviewProofs
FileTransfer, RpcProxy, BatchTasks, TaskListing  <-  MCParts, PartProofs

A <- B: B extends A        A <~ B: A implements B
```

**TaskStore**: the rows.  `status`, `gid` and `final` (is `FinalFiles` filled
in) are what the code branches on; the statuses are those of
`domain/types.go`, plus "new" and "erased" for a row that is not there.
A store method holds the store's mutex for its transaction, so every call of it
is one atomic step.  `Writable` is the row that an `Update` with the
`errTaskDeleting` guard lets through, `Refused` is when such an Update
writes nothing.

**Aria2**: the daemon (`dl`), the task directories (`dir`) and the hook scripts
that still try to reach the gateway (`hooks`).  The daemon is external: its steps
are those that the client's calls and the hooks presuppose.  A magnet link is two
downloads, the added `root` and the `child` that aria2 starts when the metadata
is there.  Hooks are delivered any number of times (curl retries a request that
timed out) or not at all.  `ResolveFinalFiles` is the set of outcomes the code
can come to, with the GID it ends at.

**TransferWorker**: the goroutines of `worker` and `runTransfer`.  `wpc[w]` is the
next store transaction, provider call or directory removal; `taskRuns`,
`cancelled` and `awaits` are the table of runs, their contexts and the `done`
channels that `deleteTask` blocks on.

| `wpc` | code |
|---|---|
| idle | the loop of `worker` |
| get, register, reread, claim | `service.go:1277`, 1283, 1292-1309, 1310 |
| check | stop check and `cleanupDownloadMetadata`, 1362-1370 |
| upload | `backend.Transfer`, 1371-1385 |
| cleanup, complete, fail | 1386-1393, 1394-1399, the `markFailed` paths |
| close, unregister | the deferred function, 1287-1291 |

**TaskRequests**: the goroutines of HTTP requests, and `Start`'s own goroutine
(`Boot`), which runs `deleteTask` too.  `hpc[p]` names the step, `local[p]` what
the goroutine has read and still uses: the GID of the hook and of the row as it
was, and the downloads that are left to remove.  Every re-read or unguarded
write of the code is one here: `SaveGid` and `SaveFailure` write whatever
the status is, `MarkStatus` refuses only deleting.  A batch request is the
same goroutine running several operations.

**Gateway**: composes them with the process: "down", "recovering" (`Start` before
the workers run), "up", "draining" (SIGTERM: no new requests, contexts
cancelled).  `Crash` at any step and `Exit` lose what is in memory and keep rows,
directories and downloads.  `uploaded` is a history variable: all final files of
the task have reached the destination once.

**TaskContract**: what a client is promised of one task, in four variables: its
row (none, open, closing, gone), its local files, whether they were delivered,
whether it is reported completed.  Files are given up only after delivery or by a
Delete, completed implies delivered, a Delete is not taken back.  `Gateway` maps
to it with `RowOf` and its own `dir`, `uploaded` and `status`
(`Contract == INSTANCE TaskContract WITH ...`).  The mapping holds with every fault
of the model on, under one assumption (section 4).

**JobQueue** and **WorkerPool**: TransferWorker takes jobs from a set as
JobQueue describes it; WorkerPool shows that mutex, condition variable, the
broadcasting goroutine and `Wait` implement that queue, fairness included
(`Queue == INSTANCE JobQueue WITH ...`).

**Destinations**: rows, default, the copy in memory, and the references of tasks.
Management holds `destinationsMu` throughout; only `CreateDestination` has an
intermediate state others can see after a crash (`half`: stored, not yet the
default).  `Create`'s look-up and insert are separate steps.

**TrackerUpdater**: the cached list of `Source`, the loop of `Updater.Run` (`pc` is
before the fetch, before the call to aria2, or in `waitFor`) and the options
that `Downloader` gives to a new download.  `ParseList` and `mergeOptions` are
recursive functions over sequences of entries, with the body of their common loop
in `Kept`; which bytes make a valid address is left out.  The list server and the daemon are external: lists change, calls fail
before or after they took effect, aria2 restarts without the option.  `behind`
and `failures` are history variables.

**PreviewJobs**: `pc[j]` is the step of the goroutine `runPreviewJob`, down into
`PreviewMagnet` and `previewTorrentFiles`; every temporary directory and download is
in `dirs` and `dl`, and the deferred calls are steps of their own
(`CancelDownload`, `RemoveDir`) in the order Go runs them.

| `pc` | code |
|---|---|
| start, finish, release | `httpapi/server.go` 300, 319-339: `markRunning`, `finish`, its `cancel` |
| mkMeta, addMeta, wait, find | `PreviewMagnet`: directory, `AddURI`, `waitForAria2Completion`, `findSavedTorrent` |
| mkTorrent, addTorrent, files | `previewTorrentFiles`: directory, `AddTorrent` paused, `GetFiles` |
| cancelMeta, rmMeta, cancelTorrent, rmTorrent | the two halves of `cleanupPreview` |

A DELETE is three steps (look up, take out, mark), the retention timer two,
`Close` one and then one per job; `main` calls `Close` twice, and nobody waits for
the goroutines.  A request that was accepted may act while `Shutdown` waits for it,
and later if it outlives the ten seconds (`Served`).  `spoiled` and `late` are history: jobs whose clean-up cannot be
complete since a call was executed without an answer or failed, and jobs created
by a request that outlived `Shutdown` after the last `Close` looked.

**FileTransfer**: one task at the grain of files, where Gateway knows a
directory that is complete or not.  A file on disk is absent, short, reserved (its
length allocated, its content not there) or whole; at the destination there is
none, a part, something hollow, or all of it.  It covers `resolveFinalFiles` (status
asked before lengths are looked at), `cleanupDownloadMetadata`, the walk and the
uploads of OpenList, the list file of rclone, `removeDownloadIfPresent`, and
restarts between any two of these.

**RpcProxy**: one request to `/jsonrpc` from header to answer.  A call is a record of
what `handleRPC` branches on: well-formed or not, managed or forwarded, with an id or
a notification, which token, which parameters.  **BatchTasks**: one request that
names several tasks, with repeated and blank names, while other clients delete.
**TaskListing**: paging through `ListFiltered` while tasks enter and leave the
filter; `Text` is what RFC3339Nano does to a fraction (trailing zeros dropped),
with two binary digits for nine decimal ones.

### What is abstracted

* A stop check (`shouldStopTransfer`) and the write it guards are one step.
  The write refuses a row being deleted by itself, and the other reason to stop
  is the end of the process's context, which commutes with what happens between.
* Names, paths, options, error texts, times and retry counts are left out; no
  branch of the modelled operations depends on them.  `ensureTaskName`
  writes a name into a row and nothing else, so it is left out.
* `Create` makes the directory and inserts the row in one step; a crash in
  between leaves an empty directory without a task, which no property is about.
* `runTransfer` resolves final files itself when the row has none.  That branch
  is not modelled, and `JobsHaveFiles` shows that it cannot be reached.
* In Gateway a provider call is one step that succeeds or fails; success on a
  complete directory means that all files arrived.  `FileTransfer` is where this
  is checked (`CompletedIsRemote`).
* In `FileTransfer` there is one request or worker at a time: that two of them
  exclude each other is the business of Gateway.
* `BatchTasks` takes `Delete` and `Retry` by their results on rows; their steps are
  TaskRequests.  `RpcProxy` takes `Create` likewise.
* In `RpcProxy` a call has one token, its leading parameter, as for `rpcTokenFromParams`
  and `rewriteRPCParams`.  The code does not look into the calls that a
  `system.multicall` has as its parameter; they are part of what is forwarded as it came.
* The listener's own failure (a port in use) is left out: the process then ends
  as in `Exit`.

## 3. What TLC checks

Every passing run is exhaustive for its instance.

| run | instance | shows |
|---|---|---|
| `core` | 1 task with clean-up, 2 workers, 2 handlers; RPC, disk, SQLite and destination faults, lost replies, crashes, early hooks | type invariant, exclusion of runs and deletes, `FilesKept`, `JobsHaveFiles`, `ImplementsContract` |
| `magnet` | 1 magnet task, 1 worker, 2 handlers; RPC faults | completion is not taken from metadata; every pending task is owned; `EraseStopsDownloads` |
| `progress` | a magnet task and the task a full retry of it makes, 1 worker, 1 handler; requests abandoned at the exit; weak fairness | `DeleteCompletes`, `PendingSettles` |
| `manage` | 3 destinations, 2 providers, 2 tasks, 2 creators; crashes, default not writable | references, default, cache |
| `pool` | 3 workers, 2 jobs, 2 callers, weak fairness | no lost wake-up, nobody asleep after the broadcast, refinement of `JobQueue`, `Wait` returns |
| `tracker` | 3 trackers, 3 lists, limit 2, the code's delays in minutes, 2 faults, weak fairness | cache, retry delay, aria2's option and the downloads' options; a stable list reaches aria2 |
| `preview` | 1 job, torrent or magnet, 2 DELETEs at once, timer, both `Close`s; RPC and disk faults, requests that outlive `Shutdown`, weak fairness | previews end and clean up, jobs found are live, no status is taken back, `Close` reaches all, jobs are forgotten |
| `parts` | four parts side by side: 4 files (2 selected, 1 unselected, 1 control file), all faults; up to 3 calls of 6 kinds; up to 3 names, 2 tasks; 3 tasks, 5 clock readings | the files of a transfer, JSON-RPC batches, requests that name several tasks, pages of a list |

**Bounds.**  The properties of tasks relate one row, its directory, its
downloads and the goroutines that work on it; tasks share only the pool, which is
modelled by itself, and the handlers' and workers' time.  One task with two
goroutines of each kind therefore has the interleavings that matter: delete
against delete, hook against hook, hook against Create, run against run,
run against delete.  Two ids are needed only where one operation touches two
tasks, the full retry: `RetryIds` are the ids such a retry may draw, and the second
task of `progress` comes to be by a retry of the first only, or the two would be two
copies of one instance.  Two workers are needed for two runs of one task, three in
the pool so that one sleeps, one is woken and one comes back from a transfer.
Three lists are one to be remembered, one to change to, and one that fails;
a limit of two trackers is met in either loop of `mergeOptions`; two faults put
a failure or restart on each side of a good call; the delay reaches its limit
after seven failures (`MaxFailures`).  Previews share the
map of jobs and nothing else, and every step on it is per job or for all at once, so
that one job with two DELETEs meets all of them.  The four parts of `parts` share no
state: `part` says which of them a behaviour is about, the others rest, so
that the run is the sum of four and not their product.  Among its files two are
selected, so that one can be sent while the other fails, one gets pieces without
being selected and one is removed by aria2; three calls or names let one be before, at
and after another; clock readings 0 to 4 reach from one second into the next.
No other counter grows.  `progress` needs the fault "abandon": without it, or a
crash, `Exit` waits until every request has ended, no row is deleting when the
process starts again, and `RecoverDelete` would never run.  With it `EraseStopsDownloads`
is false (Create may be abandoned between `AddURI` and the Update that stores the
GID), which is why that one belongs to `magnet`.  In the pool a run may end for good
(all workers returned), so deadlock is not an error there.  The same is true of previews and
parts, which end.  `Faults` selects what goes wrong in an instance; no run turns all on, to keep the
state space exhaustive, but every fault is on in some run.

**`DuringCreate`** says which requests reach a task whose Create has not
answered.  A client learns the task's id and GID from that answer, but a
fast download runs its hook earlier, and a list shows the row earlier.  Hooks
are on in `core` and `magnet`.  Deletes are a finding (below), and the
properties they break are checked, and proved, without them.

**Fairness.**  Weak fairness of every goroutine's step, of `Start` and of
`Exit`: the Go scheduler runs what can run, RPC and SQLite answer with a result
or an error, and the container is restarted.  A provider call is only required
to end when its context is cancelled (`exec.CommandContext` kills rclone, HTTP
requests carry the context); that uploads end by themselves (`UploadsEnd`) is a
premise of `PendingSettles` alone.  Clients,
hooks, the daemon's progress, shutdowns and crashes are never fair.  `Updater.Run`
is a goroutine whose calls have a timeout of 30 seconds and whose timers fire.
The goroutine of a preview is scheduled, its two minutes pass (`Expire`) and its
retention timer fires; clients and aria2 owe it nothing.  In particular a poll that
fails (`PollFails`) is a step that may happen and is not fair: a preview that waits
for metadata ends because the loop of `waitForAria2Completion` looks at its context,
and not because aria2 is bound to answer with an error.  `PendingSettles` is
claimed of one open task at a time: `worker` takes any key of a Go map
(`service.go:1263`), so that a task could in principle be passed over for ever by
others that are retried again and again.

### Disagreements between code and documents

Four runs are expected to find a violation; each states what a test or message of
the repository says, and shows a behaviour of the code that contradicts it.

| run | what happens |
|---|---|
| `lostretry` | a worker takes a retried task while its previous run is not unregistered: `registerTaskRun` refuses and the job is dropped, the task stays transfer_pending until a restart |
| `stalehook` | the hook of the metadata download, slow in its RPC calls, writes downloading over a completed task |
| `earlydelete` | Create's last Update takes a row out of deleting; the task is then uploaded while its directory is removed |
| `listfails` | `DeleteDestination` sees no tasks when the list fails, since `Store.List` drops the error |

Three more are in the model without a run of their own.  Create's last Update also
writes downloading over what a hook that came first made of the row (the same
unguarded write as `earlydelete`).  And a child that aria2 starts after
`GetFollowedBy` was answered survives the Delete of its task, which is why
`EraseStopsDownloads` speaks of the added download; `PendingSettles` is checked
with one handler, since a stale hook (`stalehook`) takes a pending task back to
downloading too.

The third is in the tracker updater, about which no document says anything.  When
aria2 restarts, or executed a change whose answer was lost before the server
went back to the list that was applied before, `refresh` skips the call
(`updater.go:84`) and aria2 keeps the wrong option until the list changes.
`DaemonKnown` and `DaemonFollows` therefore exclude changes behind the
updater's back (`behind`).

## 4. What is proved

All proofs are for arbitrary sets of tasks, workers, handlers, destinations,
jobs, clients and files, and any set of faults; what is assumed of constants is
named in the modules (`TaskKinds`, `FaultsAssumption`, `BootAssumption`,
`NoneAssumption`, `DuringCreateAssumption`, `WorkersFinite`, `JobsFinite`,
`JobsAssumption`, `FilesAssumption`, ...), what is assumed beyond that in the
theorem.  Every inductive invariant below was an
invariant of a TLC run before it was proved; the runs keep what it is for.

* `GatewaySafety!TypeCorrect`: the type invariant of the composition, one lemma
  per group of actions.  The type invariants of the pool, destinations, updater
  and previews are proved too and not run (`PoolTypes`, `DestinationTypes`,
  `TrackerTypes` with the bounds of the retry delay, `PreviewTypes`).
* `GatewaySafety!ExclusiveRuns`, without any assumption on faults or requests:
  `taskRuns` holds exactly the runs between registration and deregistration
  (`RunsRegistered`), which needs nothing but the types.
* `GatewaySafety`: `TransferDeleteExclusion` and `DeletingFinality`, under the
  assumption that no Delete reaches a task inside Create
  (`"delete" \notin DuringCreate`; without it both are false, see `earlydelete`).
  The exclusion is not inductive: it needs to know why the worker is not there.
  `SafetyInv` says it (`HoldersAgree`): besides `RunsRegistered`, who waits, waits for
  a run of its own task that has not closed (`WaitsForRun`); rows in the hands of
  `deleteTask` are deleting or gone (`DeletingRows`), so a worker that was not
  registered in time to be cancelled cannot claim them; rows in the hands of Create
  are not being deleted (`CreatingRows`); and past the wait no run touches the
  files (`ClearOfRuns`).
* `GatewayFiles`: `GatewayKeepsContract`, that Gateway implements `TaskContract`, and
  `FilesNeverLost`, `CompletedIsUploaded` and `JobsComeWithFiles`, under the same
  assumption.  The invariant is `AllInv`: types, `SafetyInv` and `FilesInv`
  (`FilesAlwaysFit`), which says of each task how row, files and holders fit
  (`FilesFit`): nobody holds a task that is not there yet (`Held`); what a worker
  transfers or will (`Wanted`) has final files; a row with final files, or one a
  hook is about to give them (`Resolved`), has its complete directory or was
  delivered; and a worker past its upload (`Sent`) has delivered.  The step
  simulation has one lemma per variable of the contract (`ContractStatus`,
  `ContractDir`, `ContractSent`, ...) and two that say that a step changes only one
  of them at a time or is the one contract action that changes more
  (`ContractOneChange`, `ContractAccept`).
* `GatewayDuties`, three things the gateway owes, all without a Delete inside Create:
  * `KnownDownloadsAreStopped`, with every fault on: a download whose GID was stored
    is stopped before its task is erased.  `DownloadsInv` says what a hook may know
    (`HookFits`: the child only once aria2 has started it), that a stored GID is
    of a download that exists (`GidFits`), and that a Delete that knows a running
    download still has it to remove (`DeleteFits`).
  * `ErasedTasksDownloadNothing`, that is `EraseStopsDownloads`, when Create cannot
    lose the GID.  Four faults (`Forgets`) make it lose it: the reply to `AddURI` is
    lost, the write of the GID fails, the process crashes between the two, or the
    request is abandoned there.  With one of them a download runs that no row
    knows, and nothing in the code looks for it.  All other faults may happen.  `GidKept` is the strengthening.
  * `PendingTasksAreOwned`, that is `PendingIsOwned`, for one worker and a database
    that works.  With two workers it is false (`lostretry`), and when the
    status cannot be written after an upload the task stays as it is until a
    restart.  `CancelledFits` is what the proof needs: a run is cancelled for the
    sake of a Delete only, so that a worker that gives up leaves no pending row.
* `DestinationsProofs`: `RestartFindsDefault` for any faults,
  `MemoryMatchesDatabase` unless taking a half-created destination back fails,
  `ReferencesAlwaysResolve` unless listing the tasks fails.  The invariant
  adds that a half-created destination is not yet used.
* `WorkerPoolProofs`: `PoolImplementsQueue` (step simulation, without fairness),
  `WakeupsAreEnough` by counting sleepers and awake workers over every step, and
  `NobodySleepsThroughShutdown`.
* `TrackerProofs`: `AppliedIsKnown` and `CacheIsKept`, each inductive as it stands;
  `DelaysDouble`, that is `BackOff`, from `DelaysFit`: the next delay is the shortest
  one doubled once per failure, the one waited for that before the last failure.
  The provers know nothing of `^`: that 2^(k+1) = 2 * 2^k and 2^k is a natural
  number (`PowersDouble`) is the hypothesis of the theorem, and `CountAssumption`
  says that failures are counted until the longest delay is reached.
  `CacheIsRight` and `DownloadsAreRight` are about what `ParseList` and `mergeOptions`
  compute, for lists of any length.  The library's induction theorems take
  operators, which cannot be instantiated here, so the module derives induction for
  sets from the well-foundedness of inclusion (`Least`, `Induction`) and the
  existence of the functions that loops define (`LoopExists`).  The loop invariant
  is `FirstCome`: what is collected so far is in the order of the first places
  met so far, and what is left out was met behind a full list (`OneMore` for
  an entry, `LineCollected` for a line, `ParsedInOrder` for a body; the client's
  and the cached trackers are two lines, `MergedInOrder`).
* `PreviewProofs`: `PreviewsCleanUp`, `JobsFoundAreLive`, `CloseReachesAll` and
  `StatusForward`.  The invariant ties each step of a job's goroutine to the
  directories and downloads that exist then, each cancelled context to who
  cancelled it, and the jobs that `Close` has not marked to `toMark`.
* `PartProofs`, files: `FinalsAreKept`, `CompletedHasAll`, `WhitelistHolds` (only final
  files are sent), `NoHollowUploads` and `CutsAreNoticed`.  `FileInv` says, for each
  step, what is known of the files that were looked at (`ListFits`), of the disk
  (`DiskFits`), of the sizes the walk saw (`WalkFits`), of what is left to send
  (`SendFits`) and of the destination (`RemoteFits`): in particular a list of final
  files only exists once the download was complete when its status was asked,
  so that no file of it can be in the reserved state, and a final file that is
  absent has been sent.
* `PartProofs`, JSON-RPC: `RepliesMatch` and `DoneOnceInOrder`, for batches of any
  length.  `RpcInv` ties the answers and the deeds so far to the calls before the
  one in hand, both in the order of their places (`AnswersFit`, `DoingsFit`), and a
  missing answer to a call aria2 said nothing to (`silent`).
* `PartProofs`, requests that name several tasks: `NamesReportedOnce` and
  `ReportsHold`, for any number of names, repeats and blanks.  `BatchInv` counts
  how often each name is in a list so far (`ReportsFit`), and knows that what is
  reported gone, by an id or by a GID, is gone and stays so (`GoneFit`, `NoneHasKept`).
* `PartProofs`, pages: `PagingIsComplete` and `PagesDescend`, for any tasks and clock.
  The rank of a task is the number of tasks ahead of it.  `ListingInv` says that while
  no task leaves the next page begins no later than the rank of any task that was
  there from the start and has not been listed (`OldFits`), and while none enters it
  begins behind the rank of every one that was (`ListedFits`).  That the text order is
  total (`BeforeIsTotal`), and follows the seconds although fractions are cut
  (`SecondsFirst`), are lemmas about `Text`.

Only model-checked is everything under fairness, which is out of the prover's
reach: `DeleteCompletes`, `PendingSettles`, `StopCompletes`, `DaemonFollows`,
`PreviewsEnd`, `JobsForgotten` and the liveness half of `ImplementsQueue`.  The
safety properties of the passing runs are all theorems.  Of the assumptions above,
those that a run can refute are refuted: `earlydelete` (a Delete inside Create),
`lostretry` (two workers) and `listfails` (a list that fails).

## 5. Not modelled

* Configuration (`internal/config`) is read once at start and keeps no state.
* Path, proxy and display-name functions (`domain/types.go`), the building of
  URLs and of the rclone command line: functions of strings whose properties are
  about characters, which the unit tests list.
* CORS, JSON bodies, status codes and the views of the HTTP API: formatting.
* The name `ensureTaskName` stores, the other columns and the upgrade of the
  database schema: no modelled branch depends on them.
* aria2's pausing and global options other than trackers: the gateway does not
  use them but for what is forwarded.
* Images, the Docker files and hook scripts: how often the scripts try again is in
  `Aria2` (hooks are delivered any number of times, or never).

Next would be: `FileTransfer` as an implementation of the upload step of
Gateway, and destinations that change their root or provider while
a transfer reads them.
