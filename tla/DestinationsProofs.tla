-------------------------- MODULE DestinationsProofs --------------------------
(***************************************************************************)
(* For every set of destinations, tasks and requests: no task refers to a  *)
(* missing destination as long as Store.List does not fail, and the stored *)
(* default always has a row, whatever fails.                               *)
(***************************************************************************)
EXTENDS Destinations, TLAPS

\* The memory agrees with the database on the default.
DefaultsAgree == up => default = defaultRow

\* The memory knows no destination that has no row, and the one that
\* CreateDestination may still take back is no task's.
NothingDangling ==
  /\ up => \A d \in Dests : cache[d] # None => rows[d] # None
  /\ half # None => \A t \in Tasks : refs[t] # half

USE NoneAssumption DEF Unlocked, Known, NoRows

\* Nothing is stored and nothing is known at first.
LEMMA InitHolds ==
  Init => /\ TypeOK /\ DefaultsAgree /\ NothingDangling
          /\ DefaultHasRow /\ ReferencesResolve /\ CacheCoherent
  BY DEF Init, TypeOK, DefaultsAgree, NothingDangling, DefaultHasRow, ReferencesResolve, CacheCoherent

\* Every step keeps the types.
LEMMA TypeStep == TypeOK /\ [Next]_vars => TypeOK'
  <1>. SUFFICES ASSUME TypeOK, [Next]_vars PROVE TypeOK'
    OBVIOUS
  <1>. USE DEF TypeOK
  <1>1. CASE NewService \/ MakeDefault \/ UndoCreate \/ Crash
    BY <1>1 DEF NewService, MakeDefault, UndoCreate, Crash
  <1>2. ASSUME NEW d \in Dests, Manage(d) PROVE TypeOK'
    BY <1>2 DEF Manage, CreateDestination, UpdateDestination, DeleteDestination, SetDefaultDestination
  <1>3. ASSUME NEW c \in Creators, Request(c) PROVE TypeOK'
    BY <1>3 DEF Request, DestinationOrDefault, InsertTask
  <1>4. ASSUME NEW t \in Tasks, DeleteTask(t) PROVE TypeOK'
    BY <1>4 DEF DeleteTask
  <1>5. CASE UNCHANGED vars
    BY <1>5 DEF vars
  <1>. QED
    BY <1>1, <1>2, <1>3, <1>4, <1>5 DEF Next

\* Every step but a deletion that could not list the tasks keeps the references.
LEMMA ReferenceStep ==
  ASSUME TypeOK, NothingDangling, ReferencesResolve, [Next]_vars, "list" \notin Failures
  PROVE  ReferencesResolve'
  <1>. USE DEF TypeOK, NothingDangling, ReferencesResolve
  <1>1. CASE NewService
    BY <1>1 DEF NewService
  <1>2. CASE MakeDefault \/ Crash
    BY <1>2 DEF MakeDefault, Crash
  <1>3. CASE UndoCreate
    BY <1>3 DEF UndoCreate
  <1>4. ASSUME NEW d \in Dests, NEW v \in Providers, CreateDestination(d, v) \/ UpdateDestination(d, v)
        PROVE  ReferencesResolve'
    BY <1>4 DEF CreateDestination, UpdateDestination
  <1>5. ASSUME NEW d \in Dests, DeleteDestination(d) PROVE ReferencesResolve'
    BY <1>5 DEF DeleteDestination
  <1>6. ASSUME NEW d \in Dests, SetDefaultDestination(d) PROVE ReferencesResolve'
    BY <1>6 DEF SetDefaultDestination
  <1>7. ASSUME NEW c \in Creators, NEW d \in Dests, DestinationOrDefault(c, d)
        PROVE  ReferencesResolve'
    BY <1>7 DEF DestinationOrDefault
  <1>8. ASSUME NEW c \in Creators, NEW t \in Tasks, InsertTask(c, t)
        PROVE  ReferencesResolve'
    <2>1. CASE UNCHANGED refs
      BY <1>8, <2>1 DEF InsertTask
    <2>2. CASE cache[chosen[c]] # None /\ refs' = [refs EXCEPT ![t] = chosen[c]]
      BY <1>8, <2>2 DEF InsertTask
    <2>. QED
      BY <1>8, <2>1, <2>2 DEF InsertTask
  <1>9. ASSUME NEW t \in Tasks, DeleteTask(t) PROVE ReferencesResolve'
    BY <1>9 DEF DeleteTask
  <1>10. CASE UNCHANGED vars
    BY <1>10 DEF vars
  <1>. QED
    BY <1>1, <1>2, <1>3, <1>4, <1>5, <1>6, <1>7, <1>8, <1>9, <1>10 DEF Next, Manage, Request

\* The memory keeps agreeing with the stored default, which keeps its row: the
\* default is not deleted, and what is taken back never became the default.
LEMMA DefaultStep ==
  ASSUME TypeOK, DefaultsAgree, DefaultHasRow, [Next]_vars
  PROVE  DefaultsAgree' /\ DefaultHasRow'
  <1>. USE DEF TypeOK, DefaultsAgree, DefaultHasRow
  <1>1. CASE NewService
    BY <1>1 DEF NewService
  <1>2. CASE MakeDefault \/ Crash
    BY <1>2 DEF MakeDefault, Crash
  <1>3. CASE UndoCreate
    BY <1>3 DEF UndoCreate
  <1>4. ASSUME NEW d \in Dests, Manage(d) PROVE DefaultsAgree' /\ DefaultHasRow'
    BY <1>4 DEF Manage, CreateDestination, UpdateDestination, DeleteDestination,
       SetDefaultDestination
  <1>5. ASSUME NEW c \in Creators, Request(c) PROVE DefaultsAgree' /\ DefaultHasRow'
    BY <1>5 DEF Request, InsertTask, DestinationOrDefault
  <1>6. ASSUME NEW t \in Tasks, DeleteTask(t) PROVE DefaultsAgree' /\ DefaultHasRow'
    BY <1>6 DEF DeleteTask
  <1>7. CASE UNCHANGED vars
    BY <1>7 DEF vars
  <1>. QED
    BY <1>1, <1>2, <1>3, <1>4, <1>5, <1>6, <1>7 DEF Next

\* Nobody comes to refer to a destination that is still being created.
LEMMA DanglingStep ==
  ASSUME TypeOK, NothingDangling, ReferencesResolve, [Next]_vars
  PROVE  NothingDangling'
  <1>. USE DEF TypeOK, NothingDangling
  <1>1. CASE NewService
    BY <1>1 DEF NewService
  <1>2. CASE MakeDefault \/ Crash
    BY <1>2 DEF MakeDefault, Crash
  <1>3. CASE UndoCreate
    BY <1>3 DEF UndoCreate
  <1>4. ASSUME NEW d \in Dests, Manage(d) PROVE NothingDangling'
    BY <1>4 DEF Manage, CreateDestination, UpdateDestination, DeleteDestination,
       SetDefaultDestination, ReferencesResolve
  <1>5. ASSUME NEW c \in Creators, Request(c) PROVE NothingDangling'
    BY <1>5 DEF Request, InsertTask, DestinationOrDefault
  <1>6. ASSUME NEW t \in Tasks, DeleteTask(t) PROVE NothingDangling'
    BY <1>6 DEF DeleteTask
  <1>7. CASE UNCHANGED vars
    BY <1>7 DEF vars
  <1>. QED
    BY <1>1, <1>2, <1>3, <1>4, <1>5, <1>6, <1>7 DEF Next

\* Every operation changes the memory as it changes the database.
LEMMA CoherentStep ==
  ASSUME TypeOK, up => cache = rows, [Next]_vars, "undo" \notin Failures
  PROVE  (up => cache = rows)'
  <1>. USE DEF TypeOK
  <1>1. CASE NewService
    BY <1>1 DEF NewService
  <1>2. CASE MakeDefault \/ Crash
    BY <1>2 DEF MakeDefault, Crash
  <1>3. CASE UndoCreate
    BY <1>3 DEF UndoCreate
  <1>4. ASSUME NEW d \in Dests, Manage(d) PROVE (up => cache = rows)'
    <2>1. ASSUME NEW v \in Providers, CreateDestination(d, v) \/ UpdateDestination(d, v)
          PROVE  (up => cache = rows)'
      BY <2>1 DEF CreateDestination, UpdateDestination
    <2>2. CASE DeleteDestination(d)
      BY <2>2 DEF DeleteDestination
    <2>3. CASE SetDefaultDestination(d)
      BY <2>3 DEF SetDefaultDestination
    <2>. QED
      BY <1>4, <2>1, <2>2, <2>3 DEF Manage
  <1>5. ASSUME NEW c \in Creators, Request(c) PROVE (up => cache = rows)'
    BY <1>5 DEF Request, InsertTask, DestinationOrDefault
  <1>6. ASSUME NEW t \in Tasks, DeleteTask(t) PROVE (up => cache = rows)'
    BY <1>6 DEF DeleteTask
  <1>7. CASE UNCHANGED vars
    BY <1>7 DEF vars
  <1>. QED
    BY <1>1, <1>2, <1>3, <1>4, <1>5, <1>6, <1>7 DEF Next

\* Whatever creations, updates, deletions, restarts and failed creations happen
\* in between, a task with a row finds its destination, provided the task list
\* that DeleteDestination looks through is the real one.
THEOREM ReferencesAlwaysResolve ==
  ASSUME "list" \notin Failures
  PROVE  Spec => []ReferencesResolve
  <1>. DEFINE IInv == TypeOK /\ NothingDangling /\ ReferencesResolve
  <1>1. Init => IInv
    BY InitHolds
  <1>2. IInv /\ [Next]_vars => IInv'
    BY TypeStep, ReferenceStep, DanglingStep
  <1>3. IInv => ReferencesResolve
    OBVIOUS
  <1>. HIDE DEF IInv
  <1>. QED
    BY <1>1, <1>2, <1>3, PTL DEF Spec

\* NewService finds a row for the stored default after every crash, also when
\* making the default fails, taking a destination back fails, or a list fails.
THEOREM RestartFindsDefault == Spec => []DefaultHasRow
  <1>. DEFINE IInv == TypeOK /\ DefaultsAgree /\ DefaultHasRow
  <1>1. Init => IInv
    BY InitHolds
  <1>2. IInv /\ [Next]_vars => IInv'
    BY TypeStep, DefaultStep
  <1>3. IInv => DefaultHasRow
    OBVIOUS
  <1>. HIDE DEF IInv
  <1>. QED
    BY <1>1, <1>2, <1>3, PTL DEF Spec

\* As long as a half-created destination can be taken back, the service works
\* with exactly the destinations and the default that the database holds.
THEOREM MemoryMatchesDatabase ==
  ASSUME "undo" \notin Failures
  PROVE  Spec => []CacheCoherent
  <1>. DEFINE IInv == TypeOK /\ DefaultsAgree /\ DefaultHasRow /\ (up => cache = rows)
  <1>1. Init => IInv
    BY InitHolds DEF Init
  <1>2. IInv /\ [Next]_vars => IInv'
    BY TypeStep, DefaultStep, CoherentStep
  <1>3. IInv => CacheCoherent
    BY DEF CacheCoherent, DefaultsAgree
  <1>. HIDE DEF IInv
  <1>. QED
    BY <1>1, <1>2, <1>3, PTL DEF Spec

\* Rows, memory, references and the operation under way are well typed.
THEOREM DestinationTypes == Spec => []TypeOK
  <1>1. Init => TypeOK
    BY InitHolds
  <1>. QED
    BY <1>1, TypeStep, PTL DEF Spec
=============================================================================
