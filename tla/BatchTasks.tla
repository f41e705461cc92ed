------------------------------ MODULE BatchTasks ------------------------------
(***************************************************************************)
(* POST /tasks/retry, /tasks/delete and /tasks/delete-by-gid of            *)
(* httpapi/server.go: one request names several tasks, each is handled for *)
(* itself and reported in one of the lists of the answer, while other      *)
(* clients delete tasks too.                                               *)
(***************************************************************************)
EXTENDS Naturals, Sequences, FiniteSets, Functions

CONSTANTS
  TaskIds,    \* the tasks there may be
  NewIds,     \* the ids of tasks that full retries create
  Names,      \* the GIDs of tasks
  Blank,      \* a name that is empty after TrimSpace
  MaxNames    \* bound on the names in a request

ASSUME BatchAssumption == TaskIds \cap NewIds = {} /\ Blank \notin TaskIds \cup Names

VARIABLES
  operation,   \* delete, deleteByGid, retryUpload or retryFull
  names,       \* the names of the request, ids or GIDs
  place,       \* the one that is next
  gidOf,       \* gidOf[t]: the GID of task t
  rows,        \* the tasks that exist
  seen,        \* names that were met
  good,        \* the answer: names that succeeded,
  bad,         \* failed,
  missing,     \* or were not found
  answered     \* the answer is written

batchVars == <<operation, names, place, gidOf, rows, seen, good, bad, missing, answered>>
asked == <<operation, names, gidOf>>

BatchInit ==
  /\ operation \in {"delete", "deleteByGid", "retryUpload", "retryFull"}
  /\ \E n \in 1 .. MaxNames :
       names \in [1 .. n -> {Blank} \cup IF operation = "deleteByGid" THEN Names ELSE TaskIds]
  /\ gidOf \in Injection(TaskIds, Names)
  /\ rows \in SUBSET TaskIds
  /\ place = 1 /\ seen = {} /\ answered = FALSE
  /\ good = <<>> /\ bad = <<>> /\ missing = <<>>

Name == names[place]
Turn == ~answered /\ place <= Len(names)
NextName == place' = place + 1 /\ UNCHANGED <<asked, answered>>

\* The task a name stands for, if it exists: itself, or FindByGID.
Named == IF operation = "deleteByGid" THEN {t \in rows \cap TaskIds : gidOf[t] = Name}
                                      ELSE rows \cap {Name}

BlankName ==
  /\ Turn /\ Name = Blank
  /\ bad' = Append(bad, Blank)
  /\ NextName /\ UNCHANGED <<rows, seen, good, missing>>

RepeatedName ==
  /\ Turn /\ Name \in seen
  /\ NextName /\ UNCHANGED <<rows, seen, good, bad, missing>>

\* Mutant of New: names that were met are handled again.
NewOrRepeated == Turn /\ Name # Blank
New == Turn /\ Name # Blank /\ Name \notin seen
Meet == seen' = seen \cup {Name} /\ NextName

Succeeds == good' = Append(good, Name) /\ UNCHANGED <<bad, missing>>
Fails == bad' = Append(bad, Name) /\ UNCHANGED <<good, missing>>

\* store.ErrNotFound is a list of its own for GIDs only.
NotFound ==
  /\ New /\ Named = {}
  /\ \/ operation = "deleteByGid" /\ missing' = Append(missing, Name) /\ UNCHANGED <<good, bad>>
     \/ operation # "deleteByGid" /\ Fails
  /\ Meet /\ UNCHANGED rows

\* Mutant of Delete: the answer to a delete by GID forgets an error that is not
\* ErrNotFound.
DeleteByGIDReported ==
  /\ New /\ Named # {} /\ operation \in {"delete", "deleteByGid"}
  /\ \/ rows' = rows \ Named /\ Succeeds
     \/ operation = "delete" /\ Fails /\ rows' \in {rows, rows \ Named}
     \/ operation = "deleteByGid" /\ Succeeds /\ rows' \in {rows, rows \ Named}
  /\ Meet

\* Service.Delete and DeleteByGID.  A failure leaves the row, being deleted; a
\* client that is faster leaves none, and Delete may find out at any step.
Delete ==
  /\ New /\ Named # {} /\ operation \in {"delete", "deleteByGid"}
  /\ \/ rows' = rows \ Named /\ Succeeds
     \/ Fails /\ rows' \in {rows, rows \ Named}
     \/ /\ operation = "deleteByGid"
        /\ rows' = rows \ Named
        /\ missing' = Append(missing, Name) /\ UNCHANGED <<good, bad>>
  /\ Meet

\* Service.Retry: a full retry erases the task and creates another; when that
\* fails the task may be gone, and is reported as failed.
Retry ==
  /\ New /\ Named # {} /\ operation \in {"retryUpload", "retryFull"}
  /\ \/ operation = "retryUpload" /\ (Succeeds \/ Fails) /\ UNCHANGED rows
     \/ /\ operation = "retryFull"
        /\ \E n \in NewIds \ rows : rows' = (rows \ Named) \cup {n}
        /\ Succeeds
     \/ operation = "retryFull" /\ Fails /\ rows' \in {rows, rows \ Named}
  /\ Meet

\* Another client deletes a task.
OtherDelete(t) ==
  /\ t \in rows /\ ~answered
  /\ rows' = rows \ {t}
  /\ UNCHANGED <<asked, place, seen, good, bad, missing, answered>>

WriteAnswer ==
  /\ ~answered /\ place > Len(names)
  /\ answered' = TRUE
  /\ UNCHANGED <<asked, place, rows, seen, good, bad, missing>>

BatchNext ==
  \/ BlankName \/ RepeatedName \/ NotFound \/ Delete \/ Retry \/ WriteAnswer
  \/ \E t \in TaskIds : OtherDelete(t)

BatchSpec == BatchInit /\ [][BatchNext]_batchVars

-----------------------------------------------------------------------------
Reports(list, name) == Cardinality({k \in DOMAIN list : list[k] = name})

NoTaskHas(gid) == \A t \in rows \cap TaskIds : gidOf[t] # gid

\* The answer reports each name of the request once, in one list, however often
\* it occurs and whatever other clients do, and one failure for each blank name.
ReportedOnce ==
  answered =>
    \A k \in DOMAIN names :
      Reports(good, names[k]) + Reports(bad, names[k]) + Reports(missing, names[k])
        = IF names[k] = Blank THEN Reports(names, Blank) ELSE 1

\* A task that is reported deleted, by its id or its GID, or retried from the
\* start, is gone for good; a GID that is reported missing has no task.
ReportsAreTrue ==
  \A k \in DOMAIN names :
    /\ Reports(good, names[k]) > 0 /\ operation \in {"delete", "retryFull"} => names[k] \notin rows
    /\ Reports(good, names[k]) > 0 /\ operation = "deleteByGid" => NoTaskHas(names[k])
    /\ Reports(missing, names[k]) > 0 => NoTaskHas(names[k])
=============================================================================
