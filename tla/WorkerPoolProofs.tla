--------------------------- MODULE WorkerPoolProofs ---------------------------
(***************************************************************************)
(* For every set of workers, jobs and callers: the condition variable      *)
(* implements the abstract queue, no wake-up is lost and no worker sleeps  *)
(* through a shutdown.                                                     *)
(***************************************************************************)
EXTENDS WorkerPool, FiniteSetTheorems, TLAPS

USE NoneAssumption

\* The initial state is well typed.
LEMMA TypeInit == Init => TypeOK
  BY DEF Init, TypeOK

\* A signal wakes one sleeper or nobody.
LEMMA SignalWakes ==
  ASSUME Signal, wstate \in [Workers -> {"check", "asleep", "busy", "exited"}]
  PROVE  \/ InState("asleep") = {} /\ wstate' = wstate
         \/ \E w \in Workers : wstate[w] = "asleep" /\ wstate' = [wstate EXCEPT ![w] = "check"]
  BY DEF Signal, InState

\* Every step keeps the types.
LEMMA TypeStep == TypeOK /\ [Next]_vars => TypeOK'
  <1>. SUFFICES ASSUME TypeOK, [Next]_vars PROVE TypeOK'
    OBVIOUS
  <1>. USE DEF TypeOK
  <1>1. ASSUME NEW c \in Callers, AddJob(c) PROVE TypeOK'
    <2>1. CASE wstate' = wstate
      BY <1>1, <2>1 DEF AddJob
    <2>2. ASSUME NEW w \in Workers, wstate[w] = "asleep", wstate' = [wstate EXCEPT ![w] = "check"]
          PROVE  TypeOK'
      BY <1>1, <2>2 DEF AddJob
    <2>. QED
      BY <1>1, <2>1, <2>2, SignalWakes DEF AddJob
  <1>2. ASSUME NEW c \in Callers, NEW t \in Jobs, CheckStopped(c, t) PROVE TypeOK'
    BY <1>2 DEF CheckStopped
  <1>3. ASSUME NEW w \in Workers, WorkerStep(w) \/ EndTransfer(w) PROVE TypeOK'
    BY <1>3 DEF WorkerStep, TakeJob, Sleep, Return, EndTransfer
  <1>4. CASE AnnounceDone \/ WakeAll
    BY <1>4 DEF AnnounceDone, WakeAll, Broadcast
  <1>5. CASE CancelContext \/ Stop \/ CancelWorkers \/ Join
    BY <1>5 DEF CancelContext, Stop, CancelWorkers, Join
  <1>6. CASE UNCHANGED vars
    BY <1>6 DEF vars
  <1>. QED
    BY <1>1, <1>2, <1>3, <1>4, <1>5, <1>6 DEF Next

\* Waking workers changes nothing for someone who sees only the queue.
LEMMA WakingIsInvisible ==
  ASSUME TypeOK, job' = job, wstate' \in [Workers -> {"check", "asleep", "busy", "exited"}],
         \A w \in Workers : wstate'[w] = wstate[w] \/ (wstate[w] = "asleep" /\ wstate'[w] = "check")
  PROVE  Does' = Does
  BY DEF Does, TypeOK

\* The initial states of the pool are initial states of the queue.
LEMMA QueueInit == Init => Queue!Init
  BY DEF Init, Queue!Init, Does

\* Every step of the pool is a step of the queue or invisible.
LEMMA QueueStep ==
  ASSUME TypeOK, TypeOK', [Next]_vars
  PROVE  [Queue!Next]_(Queue!vars)
  <1>. USE DEF Queue!vars, TypeOK
  <1>1. ASSUME NEW c \in Callers, AddJob(c) PROVE Queue!Next
    <2>1. Does' = Does
      BY <1>1, SignalWakes, WakingIsInvisible DEF AddJob
    <2>2. Queue!Put(adding[c]) /\ adding[c] \in Jobs
      BY <1>1, <2>1 DEF AddJob, Queue!Put
    <2>. QED
      BY <2>2 DEF Queue!Next
  <1>2. ASSUME NEW c \in Callers, NEW t \in Jobs, CheckStopped(c, t) PROVE UNCHANGED Queue!vars
    BY <1>2 DEF CheckStopped, Does
  <1>3. ASSUME NEW w \in Workers, NEW t \in Jobs, TakeJob(w, t) PROVE Queue!Next
    <2>1. Does[w] = "free" /\ Does' = [Does EXCEPT ![w] = t]
      BY <1>3 DEF TakeJob, Does
    <2>2. Queue!Take(w, t)
      BY <1>3, <2>1 DEF TakeJob, Queue!Take
    <2>. QED
      BY <2>2 DEF Queue!Next
  <1>4. ASSUME NEW w \in Workers, Sleep(w) PROVE UNCHANGED Queue!vars
    BY <1>4 DEF Sleep, Does
  <1>5. ASSUME NEW w \in Workers, Return(w) PROVE Queue!Next
    <2>1. Does[w] = "free" /\ Does' = [Does EXCEPT ![w] = "gone"]
      BY <1>5 DEF Return, Does
    <2>2. Queue!Leave(w)
      BY <1>5, <2>1 DEF Return, Queue!Leave
    <2>. QED
      BY <2>2 DEF Queue!Next
  <1>6. ASSUME NEW w \in Workers, EndTransfer(w) PROVE Queue!Next
    <2>1. Does[w] \in Jobs /\ Does' = [Does EXCEPT ![w] = "free"]
      BY <1>6 DEF EndTransfer, Does
    <2>2. Queue!Finish(w)
      BY <1>6, <2>1 DEF EndTransfer, Queue!Finish
    <2>. QED
      BY <2>2 DEF Queue!Next
  <1>7. CASE AnnounceDone \/ WakeAll
    <2>1. Does' = Does
      BY <1>7, WakingIsInvisible DEF AnnounceDone, WakeAll, Broadcast
    <2>. QED
      BY <1>7, <2>1 DEF AnnounceDone, WakeAll
  <1>8. CASE CancelContext \/ CancelWorkers
    <2>1. Does' = Does
      BY <1>8 DEF CancelContext, CancelWorkers, Does
    <2>. QED
      BY <1>8, <2>1 DEF CancelContext, CancelWorkers, Queue!Next, Queue!Close
  <1>9. CASE Stop \/ Join \/ UNCHANGED vars
    BY <1>9 DEF Stop, Join, vars, Does
  <1>. QED
    BY <1>1, <1>2, <1>3, <1>4, <1>5, <1>6, <1>7, <1>8, <1>9 DEF Next, WorkerStep

\* queuedJobs under jobsMu, with its sleeping and woken workers, behaves as the
\* abstract queue from which TransferWorker takes its jobs.
THEOREM PoolImplementsQueue == Spec => Queue!Spec
  <1>1. TypeOK /\ [Next]_vars => TypeOK'
    BY TypeStep
  <1>2. TypeOK /\ TypeOK' /\ [Next]_vars => [Queue!Next]_(Queue!vars)
    BY QueueStep
  <1>. QED
    BY TypeInit, QueueInit, <1>1, <1>2, PTL DEF Spec, Queue!Spec

-----------------------------------------------------------------------------
\* The subsets of the workers and jobs have a cardinality.
LEMMA Finiteness ==
  ASSUME TypeOK
  PROVE  /\ IsFiniteSet(queuedJobs) /\ Cardinality(queuedJobs) \in Nat
         /\ \A s : IsFiniteSet(InState(s)) /\ Cardinality(InState(s)) \in Nat
  <1>1. queuedJobs \subseteq Jobs /\ \A s : InState(s) \subseteq Workers
    BY DEF TypeOK, InState
  <1>. QED
    BY <1>1, WorkersFinite, JobsFinite, FS_Subset, FS_CardinalityType

\* One more job in the queue, and one more worker on its way to it.
LEMMA WakeupKept ==
  ASSUME TypeOK, NoLostWakeup, NEW t \in Jobs, NEW w \in Workers, wstate[w] = "asleep",
         queuedJobs' = queuedJobs \cup {t}, wstate' = [wstate EXCEPT ![w] = "check"],
         UNCHANGED cancelled
  PROVE  NoLostWakeup'
  <1>. SUFFICES ASSUME ~cancelled
                PROVE  Cardinality(queuedJobs') <= Cardinality(InState("check")')
    BY DEF NoLostWakeup
  <1>1. InState("check")' = InState("check") \cup {w} /\ w \notin InState("check")
    BY DEF InState, TypeOK
  <1>2. Cardinality(InState("check")') = Cardinality(InState("check")) + 1
    BY <1>1, Finiteness, FS_AddElement
  <1>3. Cardinality(queuedJobs) <= Cardinality(InState("check"))
    BY DEF NoLostWakeup, InState
  <1>4. Cardinality(queuedJobs') =
          IF t \in queuedJobs THEN Cardinality(queuedJobs) ELSE Cardinality(queuedJobs) + 1
    <2>1. IsFiniteSet(queuedJobs)
      BY Finiteness
    <2>. QED
      BY <2>1, FS_AddElement
  <1>. QED
    BY <1>2, <1>3, <1>4, Finiteness

\* One job less in the queue, and one worker less on its way to it.
LEMMA TakeKeepsWakeup ==
  ASSUME TypeOK, NoLostWakeup, NEW t \in Jobs, NEW w \in Workers, TakeJob(w, t)
  PROVE  NoLostWakeup'
  <1>. SUFFICES ASSUME InState("asleep")' # {}
                PROVE  Cardinality(queuedJobs') <= Cardinality(InState("check")')
    BY DEF NoLostWakeup
  <1>1. InState("asleep")' = InState("asleep") /\ ~cancelled
    BY DEF InState, TakeJob, TypeOK
  <1>2. InState("check")' = InState("check") \ {w} /\ w \in InState("check")
    BY DEF InState, TakeJob, TypeOK
  <1>3. Cardinality(InState("check")') = Cardinality(InState("check")) - 1
    BY <1>2, Finiteness, FS_RemoveElement
  <1>4. Cardinality(queuedJobs') = Cardinality(queuedJobs) - 1
    BY Finiteness, FS_RemoveElement DEF TakeJob
  <1>5. Cardinality(queuedJobs) <= Cardinality(InState("check"))
    BY <1>1 DEF NoLostWakeup
  <1>. QED
    BY <1>3, <1>4, <1>5, Finiteness

\* The empty queue needs no worker.
LEMMA EmptyQueueWakeup ==
  ASSUME TypeOK', queuedJobs' = {}
  PROVE  NoLostWakeup'
  <1>1. IsFiniteSet(InState("check")') /\ Cardinality(InState("check")') \in Nat
    <2>1. InState("check")' \subseteq Workers
      BY DEF InState
    <2>. QED
      BY <2>1, WorkersFinite, FS_Subset, FS_CardinalityType
  <1>. QED
    BY <1>1, FS_EmptySet DEF NoLostWakeup

\* Every step keeps the wake-ups.
LEMMA WakeupStep ==
  ASSUME TypeOK, TypeOK', NoLostWakeup, [Next]_vars
  PROVE  NoLostWakeup'
  <1>1. ASSUME NEW c \in Callers, AddJob(c) PROVE NoLostWakeup'
    <2>1. CASE InState("asleep") = {} /\ wstate' = wstate
      BY <2>1 DEF NoLostWakeup, InState
    <2>2. ASSUME NEW w \in Workers, wstate[w] = "asleep", wstate' = [wstate EXCEPT ![w] = "check"]
          PROVE  NoLostWakeup'
      BY <1>1, <2>2, WakeupKept DEF AddJob, TypeOK
    <2>. QED
      BY <1>1, <2>1, <2>2, SignalWakes DEF AddJob, TypeOK
  <1>2. ASSUME NEW c \in Callers, NEW t \in Jobs, CheckStopped(c, t) PROVE NoLostWakeup'
    BY <1>2 DEF CheckStopped, NoLostWakeup, InState
  <1>3. ASSUME NEW w \in Workers, NEW t \in Jobs, TakeJob(w, t) PROVE NoLostWakeup'
    BY <1>3, TakeKeepsWakeup
  <1>4. ASSUME NEW w \in Workers, Sleep(w) PROVE NoLostWakeup'
    BY <1>4, EmptyQueueWakeup DEF Sleep
  <1>5. ASSUME NEW w \in Workers, Return(w) PROVE NoLostWakeup'
    BY <1>5 DEF Return, NoLostWakeup
  <1>6. ASSUME NEW w \in Workers, EndTransfer(w) PROVE NoLostWakeup'
    <2>1. InState("asleep")' = InState("asleep") /\ UNCHANGED <<queuedJobs, cancelled>>
      BY <1>6 DEF EndTransfer, InState, TypeOK
    <2>2. InState("check")' = InState("check") \cup {w} /\ w \notin InState("check")
      BY <1>6 DEF EndTransfer, InState, TypeOK
    <2>3. Cardinality(InState("check")') = Cardinality(InState("check")) + 1
      BY <2>2, Finiteness, FS_AddElement
    <2>. QED
      BY <2>1, <2>3, Finiteness DEF NoLostWakeup
  <1>7. CASE AnnounceDone \/ WakeAll
    <2>1. InState("asleep")' = {}
      BY <1>7 DEF AnnounceDone, WakeAll, Broadcast, InState
    <2>. QED
      BY <2>1 DEF NoLostWakeup
  <1>8. CASE CancelContext \/ CancelWorkers
    BY <1>8 DEF CancelContext, CancelWorkers, NoLostWakeup
  <1>9. CASE Stop \/ Join \/ UNCHANGED vars
    BY <1>9 DEF Stop, Join, vars, NoLostWakeup, InState
  <1>. QED
    BY <1>1, <1>2, <1>3, <1>4, <1>5, <1>6, <1>7, <1>8, <1>9 DEF Next, WorkerStep

\* However many workers and jobs there are: while a worker sleeps on jobsCond,
\* the workers on their way to queuedJobs are at least as many as its jobs.
THEOREM WakeupsAreEnough == Spec => []NoLostWakeup
  <1>1. Init => NoLostWakeup
    BY DEF Init, NoLostWakeup, InState
  <1>2. TypeOK /\ [Next]_vars => TypeOK'
    BY TypeStep
  <1>3. TypeOK /\ TypeOK' /\ NoLostWakeup /\ [Next]_vars => NoLostWakeup'
    BY WakeupStep
  <1>. QED
    BY TypeInit, <1>1, <1>2, <1>3, PTL DEF Spec

\* No order of the end of the context, the two broadcasts and the workers' way to
\* sleep leaves a worker asleep for good.
THEOREM NobodySleepsThroughShutdown == Spec => []AwakeAfterCancel
  <1>. DEFINE IInv ==
         /\ TypeOK /\ AwakeAfterCancel
         /\ announced \/ stopper \in {"cancelled", "joining", "returned"} => cancelled
  <1>1. Init => IInv
    BY TypeInit DEF Init, AwakeAfterCancel
  <1>2. ASSUME IInv, [Next]_vars PROVE IInv'
    <2>. USE DEF AwakeAfterCancel, InState
    <2>0. TypeOK /\ TypeOK'
      BY <1>2, TypeStep
    <2>1. ASSUME NEW c \in Callers, AddJob(c) PROVE IInv'
      <3>1. \A w \in Workers : wstate'[w] = "asleep" => wstate[w] = "asleep"
        BY <2>0, <2>1, SignalWakes DEF AddJob, TypeOK
      <3>. QED
        BY <1>2, <2>0, <2>1, <3>1 DEF AddJob
    <2>2. ASSUME NEW c \in Callers, NEW t \in Jobs, CheckStopped(c, t) PROVE IInv'
      BY <1>2, <2>0, <2>2 DEF CheckStopped
    <2>3. ASSUME NEW w \in Workers, WorkerStep(w) \/ EndTransfer(w) PROVE IInv'
      BY <1>2, <2>0, <2>3 DEF WorkerStep, TakeJob, Sleep, Return, EndTransfer, TypeOK
    <2>4. CASE AnnounceDone \/ WakeAll
      BY <1>2, <2>0, <2>4 DEF AnnounceDone, WakeAll, Broadcast
    <2>5. CASE CancelContext \/ Stop \/ CancelWorkers \/ Join
      BY <1>2, <2>0, <2>5 DEF CancelContext, Stop, CancelWorkers, Join
    <2>6. CASE UNCHANGED vars
      BY <1>2, <2>0, <2>6 DEF vars
    <2>. QED
      BY <1>2, <2>1, <2>2, <2>3, <2>4, <2>5, <2>6 DEF Next
  <1>3. IInv => AwakeAfterCancel
    OBVIOUS
  <1>4. IInv /\ [Next]_vars => IInv'
    BY <1>2
  <1>. HIDE DEF IInv
  <1>. QED
    BY <1>1, <1>3, <1>4, PTL DEF Spec

\* Workers, jobs and callers are well typed.
THEOREM PoolTypes == Spec => []TypeOK
  BY TypeInit, TypeStep, PTL DEF Spec
=============================================================================
