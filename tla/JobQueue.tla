------------------------------- MODULE JobQueue -------------------------------
(***************************************************************************)
(* What transfer.Service promises of its job queue, without the mutex and  *)
(* the condition variable behind it: a job that was put is taken by some   *)
(* free worker, a job put twice before it is taken is one job, and once    *)
(* the queue is closed every worker that is free leaves.  TransferWorker   *)
(* takes its jobs the way this module says.                                *)
(***************************************************************************)
CONSTANTS Workers,  \* the goroutines Start launches
          Jobs,     \* task ids
          Free,     \* what a worker without a job does
          Gone      \* what a worker that left does

VARIABLES
  queue,  \* the jobs that wait
  open,   \* the service runs
  does    \* does[w]: the job worker w works on, Free or Gone

vars == <<queue, open, does>>

Init == queue = {} /\ open = TRUE /\ does = [w \in Workers |-> Free]

Put(t) == queue' = queue \cup {t} /\ UNCHANGED <<open, does>>

Take(w, t) ==
  /\ open /\ does[w] = Free /\ t \in queue
  /\ queue' = queue \ {t}
  /\ does' = [does EXCEPT ![w] = t]
  /\ UNCHANGED open

Finish(w) ==
  /\ does[w] \in Jobs
  /\ does' = [does EXCEPT ![w] = Free]
  /\ UNCHANGED <<queue, open>>

Close == open /\ open' = FALSE /\ UNCHANGED <<queue, does>>

Leave(w) ==
  /\ ~open /\ does[w] = Free
  /\ does' = [does EXCEPT ![w] = Gone]
  /\ UNCHANGED <<queue, open>>

Next ==
  \/ \E t \in Jobs : Put(t)
  \/ \E w \in Workers : Finish(w) \/ Leave(w) \/ \E t \in Jobs : Take(w, t)
  \/ Close

Spec == Init /\ [][Next]_vars

\* A job is taken while a worker is free, and a free worker of a closed queue
\* leaves.
FairSpec ==
  /\ Spec
  /\ WF_vars(\E w \in Workers, t \in Jobs : Take(w, t))
  /\ \A w \in Workers : WF_vars(Leave(w))
=============================================================================
