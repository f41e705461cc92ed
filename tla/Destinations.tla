----------------------------- MODULE Destinations -----------------------------
(***************************************************************************)
(* The destinations that clients manage at run time: the rows of the       *)
(* database, the copy that transfer.Service keeps in memory, the default,  *)
(* and the tasks that refer to them.  A management operation holds         *)
(* destinationsMu from start to end; Service.Create takes it twice, for    *)
(* the look-up and for the insert; Service.Delete does not take it.  A     *)
(* store call that fails by itself changes nothing and is no step.         *)
(***************************************************************************)
CONSTANTS
  Dests,      \* destination ids
  Providers,  \* what a destination's settings are told apart by
  Tasks,      \* task ids
  Creators,   \* requests inside Service.Create
  Failures,   \* which store calls can fail in this instance
  None        \* no destination

FailureKinds == {"default",  \* writing the default destination
                 "undo",     \* the delete that takes a half-created one back
                 "list",     \* listing the tasks; Store.List drops the error
                 "crash"}    \* the gateway process is killed

ASSUME FailuresAssumption == Failures \subseteq FailureKinds
ASSUME NoneAssumption == None \notin Dests \cup Providers

VARIABLES
  rows,         \* rows[d]: the destinations table, None where there is no row
  defaultRow,   \* default_destination_id in gateway_settings
  cache,        \* Service.destinations
  default,      \* Service.defaultDestinationID
  half,         \* the destination CreateDestination has not made the default yet
  up,           \* NewService has returned and the process runs
  refs,         \* refs[t]: DestinationID of the task's row, None without a row
  chosen        \* chosen[c]: the destination a request has looked up

vars == <<rows, defaultRow, cache, default, half, up, refs, chosen>>

\* The types, and what a half-created destination is: stored
\* and known, with no default yet.
TypeOK ==
  /\ rows \in [Dests -> Providers \cup {None}]
  /\ cache \in [Dests -> Providers \cup {None}]
  /\ {defaultRow, default, half} \subseteq Dests \cup {None}
  /\ up \in BOOLEAN
  /\ refs \in [Tasks -> Dests \cup {None}]
  /\ chosen \in [Creators -> Dests \cup {None}]
  /\ half # None => up /\ default = None /\ cache[half] # None /\ rows[half] # None

NoRows == [d \in Dests |-> None]

Init ==
  /\ rows = NoRows /\ defaultRow = None
  /\ cache = NoRows /\ default = None /\ half = None
  /\ up = FALSE
  /\ refs = [t \in Tasks |-> None]
  /\ chosen = [c \in Creators |-> None]

\* destinationsMu is free.
Unlocked == up /\ half = None

Known(d) == d # None /\ cache[d] # None

-----------------------------------------------------------------------------
\* NewService: main configures no destinations, so the database decides; a
\* default without its row makes it fail.
NewService ==
  /\ ~up
  /\ defaultRow # None => rows[defaultRow] # None
  /\ up' = TRUE
  /\ cache' = rows /\ default' = defaultRow
  /\ UNCHANGED <<rows, defaultRow, half, refs, chosen>>

\* CreateDestination up to the default: a row the cache does not know makes it
\* answer that the destination exists.
CreateDestination(d, v) ==
  /\ Unlocked
  /\ ~Known(d) /\ rows[d] = None
  /\ rows' = [rows EXCEPT ![d] = v]
  /\ cache' = [cache EXCEPT ![d] = v]
  /\ half' = IF default = None THEN d ELSE None
  /\ UNCHANGED <<defaultRow, default, up, refs, chosen>>

\* The first destination becomes the default.
MakeDefault ==
  /\ half # None
  /\ defaultRow' = half /\ default' = half
  /\ half' = None
  /\ UNCHANGED <<rows, cache, up, refs, chosen>>

\* It cannot be made the default and is taken back; an error of that is dropped.
UndoCreate ==
  /\ half # None /\ "default" \in Failures
  /\ cache' = [cache EXCEPT ![half] = None]
  /\ \/ rows' = [rows EXCEPT ![half] = None]
     \/ "undo" \in Failures /\ UNCHANGED rows
  /\ half' = None
  /\ UNCHANGED <<defaultRow, default, up, refs, chosen>>

UpdateDestination(d, v) ==
  /\ Unlocked
  /\ Known(d) /\ rows[d] # None
  /\ rows' = [rows EXCEPT ![d] = v]
  /\ cache' = [cache EXCEPT ![d] = v]
  /\ UNCHANGED <<defaultRow, default, half, up, refs, chosen>>

\* Mutant of DeleteDestination: the default can be deleted.
DeleteDefaultToo(d) ==
  /\ Unlocked
  /\ Known(d) /\ \A t \in Tasks : refs[t] # d
  /\ rows' = [rows EXCEPT ![d] = None]
  /\ cache' = [cache EXCEPT ![d] = None]
  /\ UNCHANGED <<defaultRow, default, half, up, refs, chosen>>

DeleteDestination(d) ==
  /\ Unlocked
  /\ Known(d) /\ d # default
  /\ "list" \in Failures \/ \A t \in Tasks : refs[t] # d
  /\ rows[d] # None
  /\ rows' = [rows EXCEPT ![d] = None]
  /\ cache' = [cache EXCEPT ![d] = None]
  /\ UNCHANGED <<defaultRow, default, half, up, refs, chosen>>

\* Mutant of SetDefaultDestination: only the database learns the new default.
SetDefaultRow(d) ==
  /\ Unlocked
  /\ Known(d) /\ rows[d] # None
  /\ defaultRow' = d
  /\ UNCHANGED <<rows, cache, default, half, up, refs, chosen>>

SetDefaultDestination(d) ==
  /\ Unlocked
  /\ Known(d) /\ rows[d] # None
  /\ defaultRow' = d /\ default' = d
  /\ UNCHANGED <<rows, cache, half, up, refs, chosen>>

-----------------------------------------------------------------------------
\* Service.Create looks its destination up, the default one without an id.
DestinationOrDefault(c, d) ==
  /\ Unlocked
  /\ chosen[c] = None /\ Known(d)
  /\ chosen' = [chosen EXCEPT ![c] = d]
  /\ UNCHANGED <<rows, defaultRow, cache, default, half, up, refs>>

\* Mutant of InsertTask: the destination is not looked up again under the lock.
InsertUnchecked(c, t) ==
  /\ Unlocked
  /\ chosen[c] # None /\ refs[t] = None
  /\ refs' = [refs EXCEPT ![t] = chosen[c]]
  /\ chosen' = [chosen EXCEPT ![c] = None]
  /\ UNCHANGED <<rows, defaultRow, cache, default, half, up>>

\* The second look and Store.Create, under destinationsMu; the row may also be
\* refused by the store.
InsertTask(c, t) ==
  /\ Unlocked
  /\ chosen[c] # None /\ refs[t] = None
  /\ \/ Known(chosen[c]) /\ refs' = [refs EXCEPT ![t] = chosen[c]]
     \/ UNCHANGED refs
  /\ chosen' = [chosen EXCEPT ![c] = None]
  /\ UNCHANGED <<rows, defaultRow, cache, default, half, up>>

\* Store.Delete at the end of Service.Delete.  A full retry is this step and then
\* a Create, whose look-up fails when the destination was deleted meanwhile.
DeleteTask(t) ==
  /\ up /\ refs[t] # None
  /\ refs' = [refs EXCEPT ![t] = None]
  /\ UNCHANGED <<rows, defaultRow, cache, default, half, up, chosen>>

\* What the process held in memory is gone.
Crash ==
  /\ up /\ "crash" \in Failures
  /\ up' = FALSE
  /\ cache' = NoRows /\ default' = None /\ half' = None
  /\ chosen' = [c \in Creators |-> None]
  /\ UNCHANGED <<rows, defaultRow, refs>>

Manage(d) ==
  \/ \E v \in Providers : CreateDestination(d, v) \/ UpdateDestination(d, v)
  \/ DeleteDestination(d)
  \/ SetDefaultDestination(d)

Request(c) ==
  \/ \E d \in Dests : DestinationOrDefault(c, d)
  \/ \E t \in Tasks : InsertTask(c, t)

Next ==
  \/ NewService \/ MakeDefault \/ UndoCreate \/ Crash
  \/ \E d \in Dests : Manage(d)
  \/ \E c \in Creators : Request(c)
  \/ \E t \in Tasks : DeleteTask(t)

Spec == Init /\ [][Next]_vars

-----------------------------------------------------------------------------
\* A task never refers to a destination that is gone, so its upload does not
\* fail with "destination not found": not between the look-up and the insert of
\* a Create, not across a restart, not with a creation that is taken back.
ReferencesResolve ==
  \A t \in Tasks : refs[t] # None =>
    rows[refs[t]] # None /\ (up => cache[refs[t]] # None)

\* The stored default has a row at every moment the process can be killed, so
\* that NewService does not fail at the next start.
DefaultHasRow == defaultRow # None => rows[defaultRow] # None

\* Between operations the service works with what the database holds.
CacheCoherent == Unlocked => cache = rows /\ default = defaultRow
=============================================================================
