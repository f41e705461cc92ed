------------------------------ MODULE WorkerPool ------------------------------
(***************************************************************************)
(* The job queue of transfer.Service as it is built: the set queuedJobs    *)
(* under jobsMu, the condition variable on which idle workers sleep, the   *)
(* goroutine that wakes them when their context ends, and Wait.  What a    *)
(* goroutine does between taking jobsMu and giving it up (or sleeping) is  *)
(* one step.                                                               *)
(***************************************************************************)
EXTENDS Integers, FiniteSets

CONSTANTS Workers,  \* the goroutines Start launches
          Jobs,     \* task ids
          Callers,  \* goroutines that call enqueue
          None      \* no job

ASSUME WorkersFinite == IsFiniteSet(Workers)
ASSUME JobsFinite == IsFiniteSet(Jobs)
ASSUME NoneAssumption == None \notin Jobs

VARIABLES
  queuedJobs,  \* Service.queuedJobs
  wstate,      \* wstate[w]: what worker w does
  job,         \* job[w]: the job it runs
  adding,      \* adding[c]: the job caller c adds next, past the stopped check
  cancelled,   \* the workers' context is done
  announced,   \* the goroutine that waits for the context has broadcast
  stopper      \* how far Wait is

vars == <<queuedJobs, wstate, job, adding, cancelled, announced, stopper>>

TypeOK ==
  /\ queuedJobs \subseteq Jobs
  /\ wstate \in [Workers -> {"check", "asleep", "busy", "exited"}]
  /\ job \in [Workers -> Jobs \cup {None}]
  /\ \A w \in Workers : wstate[w] = "busy" <=> job[w] # None
  /\ adding \in [Callers -> Jobs \cup {None}]
  /\ cancelled \in BOOLEAN /\ announced \in BOOLEAN
  /\ stopper \in {"none", "stopped", "cancelled", "joining", "returned"}

Init ==
  /\ queuedJobs = {}
  /\ wstate = [w \in Workers |-> "check"]
  /\ job = [w \in Workers |-> None]
  /\ adding = [c \in Callers |-> None]
  /\ cancelled = FALSE /\ announced = FALSE
  /\ stopper = "none"

InState(s) == {w \in Workers : wstate[w] = s}

\* jobsCond.Signal wakes one sleeper, which then takes jobsMu again.
Signal ==
  IF InState("asleep") = {}
    THEN UNCHANGED wstate
    ELSE \E w \in InState("asleep") : wstate' = [wstate EXCEPT ![w] = "check"]

\* Mutant of Broadcast: Signal is called instead.
SignalOnce == Signal

\* jobsCond.Broadcast
Broadcast ==
  wstate' = [w \in Workers |-> IF wstate[w] = "asleep" THEN "check" ELSE wstate[w]]

-----------------------------------------------------------------------------
\* enqueue up to the check of stopped, under lifecycleMu.
CheckStopped(c, t) ==
  /\ adding[c] = None
  /\ stopper = "none"
  /\ adding' = [adding EXCEPT ![c] = t]
  /\ UNCHANGED <<queuedJobs, wstate, job, cancelled, announced, stopper>>

\* Mutant of AddJob: a worker is woken only when the first job comes in.
SignalWhenEmpty(c) ==
  /\ adding[c] # None
  /\ queuedJobs' = queuedJobs \cup {adding[c]}
  /\ IF queuedJobs = {} THEN Signal ELSE UNCHANGED wstate
  /\ adding' = [adding EXCEPT ![c] = None]
  /\ UNCHANGED <<job, cancelled, announced, stopper>>

\* The rest of enqueue, under jobsMu.
AddJob(c) ==
  /\ adding[c] # None
  /\ queuedJobs' = queuedJobs \cup {adding[c]}
  /\ Signal
  /\ adding' = [adding EXCEPT ![c] = None]
  /\ UNCHANGED <<job, cancelled, announced, stopper>>

\* The loop of worker, with its three ways to give jobsMu up.
TakeJob(w, t) ==
  /\ wstate[w] = "check" /\ ~cancelled
  /\ t \in queuedJobs
  /\ queuedJobs' = queuedJobs \ {t}
  /\ wstate' = [wstate EXCEPT ![w] = "busy"]
  /\ job' = [job EXCEPT ![w] = t]
  /\ UNCHANGED <<adding, cancelled, announced, stopper>>

\* Mutant of Sleep: the loop condition leaves the context out.
SleepThroughCancel(w) ==
  /\ wstate[w] = "check" /\ queuedJobs = {}
  /\ wstate' = [wstate EXCEPT ![w] = "asleep"]
  /\ UNCHANGED <<queuedJobs, job, adding, cancelled, announced, stopper>>

Sleep(w) ==
  /\ wstate[w] = "check" /\ ~cancelled
  /\ queuedJobs = {}
  /\ wstate' = [wstate EXCEPT ![w] = "asleep"]
  /\ UNCHANGED <<queuedJobs, job, adding, cancelled, announced, stopper>>

Return(w) ==
  /\ wstate[w] = "check" /\ cancelled
  /\ wstate' = [wstate EXCEPT ![w] = "exited"]
  /\ UNCHANGED <<queuedJobs, job, adding, cancelled, announced, stopper>>

\* Mutant of EndTransfer: the worker returns after its job.
EndWorker(w) ==
  /\ wstate[w] = "busy"
  /\ wstate' = [wstate EXCEPT ![w] = "exited"]
  /\ job' = [job EXCEPT ![w] = None]
  /\ UNCHANGED <<queuedJobs, adding, cancelled, announced, stopper>>

\* runTransfer returns.
EndTransfer(w) ==
  /\ wstate[w] = "busy"
  /\ wstate' = [wstate EXCEPT ![w] = "check"]
  /\ job' = [job EXCEPT ![w] = None]
  /\ UNCHANGED <<queuedJobs, adding, cancelled, announced, stopper>>

-----------------------------------------------------------------------------
\* The context that main gave to Start ends: SIGINT or SIGTERM.
CancelContext ==
  /\ ~cancelled
  /\ cancelled' = TRUE
  /\ UNCHANGED <<queuedJobs, wstate, job, adding, announced, stopper>>

\* The goroutine Start leaves behind.
AnnounceDone ==
  /\ cancelled /\ ~announced
  /\ Broadcast
  /\ announced' = TRUE
  /\ UNCHANGED <<queuedJobs, job, adding, cancelled, stopper>>

\* Wait: no more jobs are accepted, the context ends, the sleepers are woken and
\* the workers are waited for.
Stop ==
  /\ stopper = "none"
  /\ stopper' = "stopped"
  /\ UNCHANGED <<queuedJobs, wstate, job, adding, cancelled, announced>>

CancelWorkers ==
  /\ stopper = "stopped"
  /\ cancelled' = TRUE
  /\ stopper' = "cancelled"
  /\ UNCHANGED <<queuedJobs, wstate, job, adding, announced>>

WakeAll ==
  /\ stopper = "cancelled"
  /\ Broadcast
  /\ stopper' = "joining"
  /\ UNCHANGED <<queuedJobs, job, adding, cancelled, announced>>

Join ==
  /\ stopper = "joining"
  /\ InState("exited") = Workers
  /\ stopper' = "returned"
  /\ UNCHANGED <<queuedJobs, wstate, job, adding, cancelled, announced>>

WorkerStep(w) ==
  \/ \E t \in Jobs : TakeJob(w, t)
  \/ Sleep(w) \/ Return(w)

Next ==
  \/ \E c \in Callers : AddJob(c) \/ \E t \in Jobs : CheckStopped(c, t)
  \/ \E w \in Workers : WorkerStep(w) \/ EndTransfer(w)
  \/ CancelContext \/ AnnounceDone
  \/ Stop \/ CancelWorkers \/ WakeAll \/ Join

Spec == Init /\ [][Next]_vars

\* Every goroutine that can take jobsMu gets it, transfers end, and a Wait that
\* began goes on.
Fairness ==
  /\ \A w \in Workers : WF_vars(WorkerStep(w)) /\ WF_vars(EndTransfer(w))
  /\ WF_vars(AnnounceDone)
  /\ WF_vars(CancelWorkers) /\ WF_vars(WakeAll) /\ WF_vars(Join)

FairSpec == Spec /\ Fairness

-----------------------------------------------------------------------------
\* While a worker sleeps, the others that are on their way to the queue are at
\* least as many as the jobs in it: no wake-up is lost between an enqueue, a
\* worker that comes back from a transfer and one that was woken but came late.
NoLostWakeup ==
  ~cancelled /\ InState("asleep") # {} =>
    Cardinality(queuedJobs) <= Cardinality(InState("check"))

\* Once the end of the context was broadcast, by whoever came first, no worker
\* sleeps again and Wait cannot hang on one.
AwakeAfterCancel ==
  announced \/ stopper \in {"joining", "returned"} => InState("asleep") = {}

\* A Wait that began returns.
StopCompletes == stopper = "stopped" ~> stopper = "returned"

\* What a worker does, to someone who does not see jobsMu: one that is woken or
\* asleep is free.
Does ==
  [w \in Workers |-> CASE wstate[w] = "busy" -> job[w]
                       [] wstate[w] = "exited" -> "gone"
                       [] OTHER -> "free"]

Queue == INSTANCE JobQueue WITH
           Free <- "free", Gone <- "gone",
           queue <- queuedJobs, open <- ~cancelled, does <- Does

\* The mutex, the condition variable and the broadcasts implement the abstract
\* queue, with its promise that a waiting job is taken while a worker is free.
ImplementsQueue == Queue!FairSpec
=============================================================================
