----------------------------- MODULE TaskContract -----------------------------
(***************************************************************************)
(* What the gateway promises of a task, without requests, workers, hooks,  *)
(* aria2 or the process: files that were fetched for a task are given up   *)
(* only when they are at the destination or the user deletes the task, a   *)
(* task is reported completed only when its files are there, and a Delete  *)
(* that was accepted is not taken back.  Gateway implements this module.   *)
(***************************************************************************)
CONSTANT Tasks

VARIABLES
  row,        \* row[t]: "none", then "open", "closing" (being deleted), "gone"
  local,      \* local[t]: the task's directory exists
  delivered,  \* delivered[t]: all its files have reached the destination
  done        \* done[t]: the task is reported completed

vars == <<row, local, delivered, done>>

Init ==
  /\ row = [t \in Tasks |-> "none"]
  /\ local = [t \in Tasks |-> FALSE]
  /\ delivered = [t \in Tasks |-> FALSE]
  /\ done = [t \in Tasks |-> FALSE]

Accept(t) ==
  /\ row[t] = "none"
  /\ row' = [row EXCEPT ![t] = "open"]
  /\ local' = [local EXCEPT ![t] = TRUE]
  /\ UNCHANGED <<delivered, done>>

\* The provider ends: with a directory to send, and never after the task is gone.
Deliver(t) ==
  /\ row[t] \in {"open", "closing"} /\ local[t]
  /\ delivered' = [delivered EXCEPT ![t] = TRUE]
  /\ UNCHANGED <<row, local, done>>

\* A second Delete may still be removing the directory of a task that is gone.
Discard(t) ==
  /\ local[t]
  /\ row[t] \in {"closing", "gone"} \/ (row[t] = "open" /\ delivered[t])
  /\ local' = [local EXCEPT ![t] = FALSE]
  /\ UNCHANGED <<row, delivered, done>>

\* aria2 writes into a directory that was removed under a running download.
WriteAgain(t) ==
  /\ row[t] # "none" /\ ~local[t]
  /\ local' = [local EXCEPT ![t] = TRUE]
  /\ UNCHANGED <<row, delivered, done>>

Report(t) ==
  /\ row[t] = "open" /\ delivered[t]
  /\ done' = [done EXCEPT ![t] = TRUE]
  /\ UNCHANGED <<row, local, delivered>>

\* A retry, or a hook that comes late.
Reopen(t) ==
  /\ row[t] = "open" /\ done[t]
  /\ done' = [done EXCEPT ![t] = FALSE]
  /\ UNCHANGED <<row, local, delivered>>

Close(t) ==
  /\ row[t] = "open"
  /\ row' = [row EXCEPT ![t] = "closing"]
  /\ done' = [done EXCEPT ![t] = FALSE]
  /\ UNCHANGED <<local, delivered>>

Erase(t) ==
  /\ row[t] = "closing"
  /\ row' = [row EXCEPT ![t] = "gone"]
  /\ UNCHANGED <<local, delivered, done>>

Next ==
  \E t \in Tasks :
    \/ Accept(t) \/ Deliver(t) \/ Discard(t) \/ WriteAgain(t)
    \/ Report(t) \/ Reopen(t) \/ Close(t) \/ Erase(t)

Spec == Init /\ [][Next]_vars
=============================================================================
