------------------------------ MODULE TaskStore ------------------------------
(***************************************************************************)
(* The tasks table of internal/store.  A store method holds the store's    *)
(* mutex for one whole SQLite transaction, so each of them is one step of  *)
(* its caller.  What is kept of a row is what decides the caller's next    *)
(* step: the status, the aria2 GID and whether FinalFiles is filled in.    *)
(***************************************************************************)
EXTENDS Integers, FiniteSets

CONSTANTS
  Tasks,         \* the ids newID can return in one behaviour
  Magnets,       \* tasks whose download is a magnet link: metadata first,
                 \* then a child download that aria2 starts by itself
  CleanupTasks,  \* tasks created with cleanup = true
  Faults         \* what may go wrong outside the gateway in this instance

FaultKinds == {"rpc",          \* aria2 answers with an error, or not at all
               "lostReply",    \* aria2 accepted a download, the answer is lost
               "disk",         \* removing or walking a directory fails
               "store",        \* a SQLite transaction fails
               "destination",  \* the destination or its provider is missing
               "abandon",      \* requests outlive the shutdown timeout
               "crash"}        \* the gateway process is killed

ASSUME TaskKinds == Magnets \subseteq Tasks /\ CleanupTasks \subseteq Tasks
ASSUME FaultsAssumption == Faults \subseteq FaultKinds

VARIABLES
  status,  \* status[t]: "new" before the row exists, "erased" after Delete
  gid,     \* gid[t]: the row's GID: none yet, the added or the followed download
  final    \* final[t]: whether the row's FinalFiles is non-empty

storeVars == <<status, gid, final>>

Statuses == {"queued", "downloading", "transfer_pending", "transferring",
             "completed", "failed", "deleting"}

Gids == {"root", "child"}

StoreType ==
  /\ status \in [Tasks -> Statuses \cup {"new", "erased"}]
  /\ gid \in [Tasks -> Gids \cup {"none"}]
  /\ final \in [Tasks -> BOOLEAN]

StoreInit ==
  /\ status = [t \in Tasks |-> "new"]
  /\ gid = [t \in Tasks |-> "none"]
  /\ final = [t \in Tasks |-> FALSE]

HasRow(t) == status[t] \in Statuses

SetStatus(t, s) == status' = [status EXCEPT ![t] = s]

\* The row a mutator that answers errTaskDeleting lets through.
Writable(t) == HasRow(t) /\ status[t] # "deleting"

\* Such an Update writes nothing: ErrNotFound, errTaskDeleting or SQLite.
Refused(t) == ~Writable(t) \/ "store" \in Faults

\* GIDs name one download each, so a hook's GID finds a row or none.
FindByGID(t, g) == HasRow(t) /\ gid[t] = g

PendingTransfers == {t \in Tasks : status[t] \in {"transfer_pending", "transferring"}}
=============================================================================
