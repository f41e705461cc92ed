---------------------------- MODULE TrackerProofs ----------------------------
(***************************************************************************)
(* Theorems about TrackerUpdater, for any lists, options, delays and       *)
(* bounds: first its state machine, then, by induction over their loops,   *)
(* what ParseList and MergeOptions compute.                                *)
(***************************************************************************)
EXTENDS TrackerUpdater, FiniteSetTheorems, WellFoundedInduction, TLAPS

\* A list that was parsed is one of the lists.
LEMMA ParsedIsList == Parsed[served] \in Lists \/ served \notin Bodies
  BY DEF Lists

\* Doubling stays between the shortest and the longest delay.
LEMMA DelayBounds ==
  ASSUME NEW d \in MinRetryDelay .. MaxRetryDelay
  PROVE  NextRetryDelay(d) \in MinRetryDelay .. MaxRetryDelay
  BY DelaysAssumption DEF NextRetryDelay

LEMMA TypeInit == Init => TypeOK
  <1>. SUFFICES ASSUME Init PROVE TypeOK
    OBVIOUS
  <1>1. <<>> \in Lists /\ NoOption \in Options /\ NoOption \in Merged
    BY DEF Lists, Options, Merged
  <1>2. /\ served \in Bodies
        /\ list = <<>> /\ option = <<>> /\ lastApplied = <<>>
        /\ applied = FALSE /\ cancelled = FALSE /\ behind = FALSE
        /\ retryDelay = MinRetryDelay /\ wait = 0 /\ pc = "fetch"
        /\ added.user = NoOption /\ added.cached = <<>> /\ added.sent = NoOption
        /\ failures = 0 /\ faults = 0
    BY DEF Init, NoDownload
  <1>3. retryDelay \in MinRetryDelay .. MaxRetryDelay /\ failures \in 0 .. MaxFailures
        /\ faults \in 0 .. MaxFaults
    BY <1>2, DelaysAssumption, BoundsAssumption
  <1>4. wait \in {0, Interval} \cup (MinRetryDelay .. MaxRetryDelay)
    BY <1>2
  <1>. QED
    BY <1>1, <1>2, <1>3, <1>4, Zenon DEF TypeOK

\* The two ends of a cycle keep the delays in their bounds.
LEMMA CycleEnds ==
  ASSUME TypeOK, Succeed \/ Fail
  PROVE  /\ retryDelay' \in MinRetryDelay .. MaxRetryDelay
         /\ wait' \in {0, Interval} \cup (MinRetryDelay .. MaxRetryDelay)
         /\ failures' \in 0 .. MaxFailures
         /\ pc' = "wait"
  <1>1. CASE Succeed
    BY <1>1, DelaysAssumption, BoundsAssumption DEF Succeed, TypeOK
  <1>2. CASE Fail
    BY <1>2, DelayBounds, BoundsAssumption DEF Fail, TypeOK
  <1>. QED
    BY <1>1, <1>2

LEMMA FaultBounds ==
  ASSUME TypeOK, Fault \/ UNCHANGED faults
  PROVE  faults' \in 0 .. MaxFaults
  BY BoundsAssumption DEF Fault, TypeOK

LEMMA TypeStep == TypeOK /\ [Next]_vars => TypeOK'
  <1>. SUFFICES ASSUME TypeOK, [Next]_vars PROVE TypeOK'
    OBVIOUS
  <1>1. CASE Fetch
    <2>1. list' \in Lists
      BY <1>1, ParsedIsList DEF Fetch, TypeOK
    <2>2. CASE Succeed
      BY <1>1, <2>1, <2>2, CycleEnds DEF Fetch, TypeOK
    <2>3. CASE pc' = "apply" /\ UNCHANGED <<retryDelay, wait, failures>>
      BY <1>1, <2>1, <2>3 DEF Fetch, TypeOK
    <2>. QED
      BY <1>1, <2>2, <2>3 DEF Fetch
  <1>2. CASE FetchFails
    BY <1>2, CycleEnds, FaultBounds DEF FetchFails, TypeOK
  <1>3. CASE Apply
    BY <1>3, CycleEnds DEF Apply, TypeOK
  <1>4. CASE ApplyFails
    <2>1. faults' \in 0 .. MaxFaults
      BY <1>4, FaultBounds DEF ApplyFails
    <2>2. option' \in Lists /\ behind' \in BOOLEAN
      BY <1>4 DEF ApplyFails, TypeOK
    <2>. QED
      BY <1>4, <2>1, <2>2, CycleEnds DEF ApplyFails, TypeOK
  <1>5. CASE TimerFires \/ Return \/ Publish \/ Cancel
    BY <1>5 DEF TimerFires, Return, Publish, Cancel, TypeOK, updater
  <1>6. CASE DaemonRestarts
    <2>1. <<>> \in Lists /\ faults' \in 0 .. MaxFaults
      BY <1>6, BoundsAssumption DEF DaemonRestarts, TypeOK, Lists
    <2>. QED
      BY <1>6, <2>1 DEF DaemonRestarts, TypeOK, updater
  <1>7. ASSUME NEW user \in Options, AddTorrentOrMagnet(user) \/ AddPlainURI(user) PROVE TypeOK'
    <2>1. /\ added'.user \in Options
          /\ added'.cached \in Lists
          /\ added'.sent \in Merged
      BY <1>7 DEF AddTorrentOrMagnet, AddPlainURI, TypeOK, Lists, Merged
    <2>. QED
      BY <1>7, <2>1 DEF AddTorrentOrMagnet, AddPlainURI, TypeOK, updater
  <1>8. CASE UNCHANGED vars
    BY <1>8 DEF vars, updater, TypeOK
  <1>. QED
    BY <1>1, <1>2, <1>3, <1>4, <1>5, <1>6, <1>7, <1>8 DEF Next, UpdaterStep, Environment, Options

\* Every reachable state is well typed: in particular the retry delay never
\* leaves its bounds, however many refreshes fail in a row.
THEOREM TrackerTypes == Spec => []TypeOK
  <1>. QED
    BY TypeInit, TypeStep, PTL DEF Spec

-----------------------------------------------------------------------------
\* What the updater remembers is what aria2 has, through any sequence of
\* failed calls, new lists and restarts of aria2 that left no change unseen.
THEOREM AppliedIsKnown == Spec => []DaemonKnown
  <1>1. Init => DaemonKnown
    BY DEF Init, DaemonKnown
  <1>2. DaemonKnown /\ [Next]_vars => DaemonKnown'
    <2>. SUFFICES ASSUME DaemonKnown, [Next]_vars PROVE DaemonKnown'
      OBVIOUS
    <2>1. CASE Fetch \/ FetchFails
      BY <2>1 DEF Fetch, FetchFails, DaemonKnown
    <2>2. CASE Apply
      BY <2>2 DEF Apply, DaemonKnown
    <2>3. CASE ApplyFails
      BY <2>3 DEF ApplyFails, DaemonKnown
    <2>4. CASE DaemonRestarts
      BY <2>4 DEF DaemonRestarts, DaemonKnown
    <2>5. CASE TimerFires \/ Return \/ Publish \/ Cancel \/ UNCHANGED vars
      BY <2>5 DEF TimerFires, Return, Publish, Cancel, vars, updater, DaemonKnown
    <2>6. ASSUME NEW user, AddTorrentOrMagnet(user) \/ AddPlainURI(user) PROVE DaemonKnown'
      BY <2>6 DEF AddTorrentOrMagnet, AddPlainURI, updater, DaemonKnown
    <2>. QED
      BY <2>1, <2>2, <2>3, <2>4, <2>5, <2>6 DEF Next, UpdaterStep, Environment
  <1>. QED
    BY <1>1, <1>2, PTL DEF Spec

\* Once trackers are cached, downloads never go without them again.
THEOREM CacheIsKept == Spec => KeepsList
  <1>1. [Next]_vars => [list # <<>> => list' # <<>>]_vars
    <2>. SUFFICES ASSUME Next PROVE list # <<>> => list' # <<>>
      OBVIOUS
    <2>1. CASE Fetch
      BY <2>1 DEF Fetch
    <2>2. CASE FetchFails \/ Apply \/ ApplyFails \/ TimerFires \/ Return
      BY <2>2 DEF FetchFails, Apply, ApplyFails, TimerFires, Return
    <2>3. CASE Environment
      BY <2>3 DEF Environment, Publish, DaemonRestarts, Cancel, AddTorrentOrMagnet, AddPlainURI
    <2>. QED
      BY <2>1, <2>2, <2>3 DEF Next, UpdaterStep
  <1>. QED
    BY <1>1, PTL DEF Spec, KeepsList

-----------------------------------------------------------------------------
(* The delays.  The provers know nothing of powers: what is needed of them *)
(* is a hypothesis of the theorem.                                         *)

PowersDouble == \A k \in Nat : 2 ^ k \in Nat /\ 2 ^ (k + 1) = 2 * 2 ^ k

\* What doubling the shortest delay gives after k failures, up to the longest.
Doubled(k) == MinRetryDelay * 2 ^ k
Capped(d) == IF d < MaxRetryDelay THEN d ELSE MaxRetryDelay

\* The next delay of Run is the one that failures call for; the one it waits
\* for is that before the last failure.
DelaysFit ==
  /\ retryDelay = Capped(Doubled(failures))
  /\ pc = "wait" => wait = IF failures = 0 THEN Interval ELSE Capped(Doubled(failures - 1))

LEMMA DoubledGrows ==
  ASSUME PowersDouble, NEW k \in Nat
  PROVE  Doubled(k) \in Nat /\ Doubled(k + 1) = 2 * Doubled(k)
  <1>1. ASSUME NEW a \in Nat, NEW b \in Nat, NEW c \in Nat, c = 2 * b
        PROVE  a * b \in Nat /\ a * c = 2 * (a * b)
    BY <1>1
  <1>. QED
    BY <1>1, DelaysAssumption DEF Doubled, PowersDouble

\* A failure doubles the delay, and at the bound of the count it is the longest.
LEMMA FailFits ==
  ASSUME PowersDouble, TypeOK, DelaysFit, Fail
  PROVE  DelaysFit'
  <1>1. failures \in Nat /\ failures <= MaxFailures
    BY BoundsAssumption DEF TypeOK
  <1>2. Doubled(failures) \in Nat /\ Doubled(failures + 1) = 2 * Doubled(failures)
    BY <1>1, DoubledGrows
  <1>3. NextRetryDelay(retryDelay) = Capped(Doubled(failures + 1))
    BY <1>2, DelaysAssumption DEF NextRetryDelay, Capped, DelaysFit
  <1>4. CASE failures # MaxFailures
    <2>1. failures' = failures + 1 /\ failures' - 1 = failures /\ failures' # 0
      BY <1>1, <1>4 DEF Fail
    <2>2. wait' = Capped(Doubled(failures' - 1))
      BY <2>1 DEF Fail, DelaysFit
    <2>3. retryDelay' = Capped(Doubled(failures'))
      BY <1>3, <2>1 DEF Fail
    <2>. QED
      BY <2>1, <2>2, <2>3 DEF DelaysFit
  <1>5. CASE failures = MaxFailures
    <2>1. failures' = failures /\ failures # 0 /\ failures - 1 \in Nat /\ (failures - 1) + 1 = failures
      BY <1>1, <1>5, CountAssumption DEF Fail
    <2>2. Doubled(failures - 1) >= MaxRetryDelay
      BY <1>5, CountAssumption DEF Doubled
    <2>3. Doubled(failures - 1) \in Nat /\ Doubled(failures) = 2 * Doubled(failures - 1)
      BY <2>1, DoubledGrows
    <2>4. /\ Capped(Doubled(failures - 1)) = MaxRetryDelay
          /\ Capped(Doubled(failures)) = MaxRetryDelay
          /\ Capped(Doubled(failures + 1)) = MaxRetryDelay
      BY <1>2, <2>2, <2>3, DelaysAssumption DEF Capped
    <2>5. wait' = Capped(Doubled(failures' - 1)) /\ retryDelay' = Capped(Doubled(failures'))
      BY <1>3, <2>1, <2>4 DEF Fail, DelaysFit
    <2>. QED
      BY <2>1, <2>5 DEF DelaysFit
  <1>. QED
    BY <1>4, <1>5

LEMMA DelaysInit == Init => DelaysFit
  <1>1. MinRetryDelay * 2 ^ 0 = MinRetryDelay
    BY DelaysAssumption
  <1>. QED
    BY <1>1, DelaysAssumption DEF Init, DelaysFit, Doubled, Capped

LEMMA DelaysStep ==
  ASSUME PowersDouble
  PROVE  TypeOK /\ DelaysFit /\ [Next]_vars => DelaysFit'
  <1>. SUFFICES ASSUME TypeOK, DelaysFit, [Next]_vars PROVE DelaysFit'
    OBVIOUS
  <1>1. ASSUME Succeed PROVE DelaysFit'
    <2>1. MinRetryDelay * 2 ^ 0 = MinRetryDelay
      BY DelaysAssumption
    <2>. QED
      BY <1>1, <2>1, DelaysAssumption DEF Succeed, DelaysFit, Doubled, Capped
  <1>2. ASSUME Fail PROVE DelaysFit'
    BY <1>2, FailFits
  <1>3. ASSUME UNCHANGED <<retryDelay, wait, failures>>, pc' = pc \/ pc' # "wait" PROVE DelaysFit'
    BY <1>3 DEF DelaysFit
  <1>4. CASE Fetch
    BY <1>1, <1>3, <1>4 DEF Fetch
  <1>5. CASE FetchFails
    BY <1>2, <1>5 DEF FetchFails
  <1>6. CASE Apply
    BY <1>1, <1>6 DEF Apply
  <1>7. CASE ApplyFails
    BY <1>2, <1>7 DEF ApplyFails
  <1>8. CASE TimerFires \/ Return
    BY <1>3, <1>8 DEF TimerFires, Return, updater
  <1>9. CASE Environment
    BY <1>3, <1>9 DEF Environment, Publish, DaemonRestarts, Cancel, AddTorrentOrMagnet, AddPlainURI, updater
  <1>10. CASE UNCHANGED vars
    BY <1>3, <1>10 DEF vars, updater
  <1>. QED
    BY <1>4, <1>5, <1>6, <1>7, <1>8, <1>9, <1>10 DEF Next, UpdaterStep

\* For any delays and however many failures in a row, as far as they are
\* counted: the updater waits twice as long each time, up to the longest delay.
THEOREM DelaysDouble ==
  ASSUME PowersDouble
  PROVE  Spec => []BackOff
  <1>1. TypeOK /\ DelaysFit => BackOff
    BY DEF DelaysFit, BackOff, Capped, Doubled
  <1>2. TypeOK /\ DelaysFit /\ [Next]_vars => (TypeOK /\ DelaysFit)'
    BY TypeStep, DelaysStep
  <1>3. Init => TypeOK /\ DelaysFit
    BY TypeInit, DelaysInit
  <1>. QED
    BY <1>1, <1>2, <1>3, PTL DEF Spec

-----------------------------------------------------------------------------
(* Induction over data.  The induction theorems of the library take an     *)
(* operator, which the provers cannot instantiate; what follows says the   *)
(* same with sets and functions.                                           *)

\* The sets 1 .. n are ordered like their n, and the order of finite sets by
\* inclusion is well-founded.
LEMMA Least ==
  ASSUME NEW T \in SUBSET Nat, T # {}
  PROVE  \E n \in T : \A m \in T : n <= m
  <1>. DEFINE U == {1 .. n : n \in T}
  <1>1. U \subseteq FiniteSubsetsOf(Nat) /\ U # {}
    <2>1. \A n \in T : 1 .. n \subseteq Nat /\ IsFiniteSet(1 .. n)
      BY FS_Interval
    <2>. QED
      BY <2>1 DEF FiniteSubsetsOf
  <1>2. IsWellFoundedOn(StrictSubsetOrdering(Nat), FiniteSubsetsOf(Nat))
    BY FS_StrictSubsetOrderingWellFounded
  <1>. HIDE DEF U
  <1>3. PICK u \in U : \A v \in U : ~(<<v, u>> \in StrictSubsetOrdering(Nat))
    BY <1>1, <1>2, WFMin
  <1>4. PICK n \in T : u = 1 .. n
    BY DEF U
  <1>5. ASSUME NEW m \in T PROVE n <= m
    <2>1. 1 .. m \in U /\ 1 .. m \in SUBSET Nat /\ 1 .. n \in SUBSET Nat
      BY DEF U
    <2>2. ~(1 .. m \subseteq 1 .. n /\ 1 .. m # 1 .. n)
      BY <1>3, <1>4, <2>1 DEF StrictSubsetOrdering
    <2>3. CASE m < n
      <3>1. n \in 1 .. n /\ n \notin 1 .. m /\ 1 .. m \subseteq 1 .. n
        BY <2>3
      <3>. QED
        BY <2>2, <3>1
    <2>. QED
      BY <2>3
  <1>. QED
    BY <1>5

LEMMA Induction ==
  ASSUME NEW T, 0 \in T, \A n \in Nat : n \in T => n + 1 \in T
  PROVE  \A n \in Nat : n \in T
  <1>1. ASSUME Nat \ T # {} PROVE FALSE
    <2>1. PICK n \in Nat \ T : \A m \in Nat \ T : n <= m
      BY <1>1, Least
    <2>2. n # 0 /\ n - 1 \in Nat /\ ~(n <= n - 1)
      BY <2>1
    <2>3. n - 1 \in T /\ (n - 1) + 1 = n
      BY <2>1, <2>2
    <2>. QED
      BY <2>1, <2>2, <2>3
  <1>. QED
    BY <1>1

\* A loop of N turns that goes from one value in A to another defines a function.
Loops(A, n, base, turn) ==
  {f \in [0 .. n -> A] : f[0] = base /\ \A k \in 1 .. n : f[k] = turn[k][f[k - 1]]}

LEMMA LoopExists ==
  ASSUME NEW A, NEW N \in Nat, NEW base \in A, NEW turn \in [1 .. N -> [A -> A]]
  PROVE  Loops(A, N, base, turn) # {}
  <1>. USE DEF Loops
  <1>. DEFINE Upto(n) == Loops(A, n, base, turn)
              T == {n \in Nat : n <= N => Upto(n) # {}}
  <1>1. 0 \in T
    <2>1. [k \in 0 .. 0 |-> base] \in Upto(0)
      OBVIOUS
    <2>. QED
      BY <2>1
  <1>2. ASSUME NEW n \in Nat, n \in T PROVE n + 1 \in T
    <2>. SUFFICES ASSUME n + 1 <= N PROVE Upto(n + 1) # {}
      OBVIOUS
    <2>1. PICK f : f \in Upto(n)
      BY <1>2
    <2>. DEFINE g == [k \in 0 .. n + 1 |-> IF k <= n THEN f[k] ELSE turn[n + 1][f[n]]]
    <2>2. f \in [0 .. n -> A] /\ f[0] = base /\ \A k \in 1 .. n : f[k] = turn[k][f[k - 1]]
      BY <2>1
    <2>3. turn[n + 1][f[n]] \in A
      BY <2>2
    <2>4. g \in [0 .. n + 1 -> A] /\ g[0] = base
      BY <2>2, <2>3
    <2>5. ASSUME NEW k \in 1 .. n + 1 PROVE g[k] = turn[k][g[k - 1]]
      <3>1. CASE k <= n
        BY <2>2, <3>1
      <3>2. CASE k = n + 1
        BY <2>2, <3>2
      <3>. QED
        BY <3>1, <3>2
    <2>. QED
      BY <2>4, <2>5
  <1>3. Upto(N) # {}
    <2>. HIDE DEF T
    <2>1. N \in T
      BY <1>1, <1>2, Induction
    <2>. QED
      BY <2>1 DEF T
  <1>. QED
    BY <1>3

\* Collect and ParseList are such loops.
Collecting(base, s, most) ==
  {f \in [0 .. Len(s) -> Seq(Trackers)] :
     f[0] = base /\ \A k \in 1 .. Len(s) : f[k] = Kept(f[k - 1], s[k], most)}

LEMMA CollectLoop ==
  ASSUME NEW base \in Seq(Trackers), NEW s, Len(s) \in Nat, NEW most
  PROVE  \E f \in Collecting(base, s, most) : Collect(base, s, most) = f[Len(s)]
  <1>. DEFINE turn == [k \in 1 .. Len(s) |-> [acc \in Seq(Trackers) |-> Kept(acc, s[k], most)]]
              Loop(g) == g = [k \in 0 .. Len(s) |-> IF k = 0 THEN base ELSE Kept(g[k - 1], s[k], most)]
              f == CHOOSE g : Loop(g)
  <1>1. ASSUME NEW acc \in Seq(Trackers), NEW e PROVE Kept(acc, e, most) \in Seq(Trackers)
    BY DEF Kept
  <1>2. turn \in [1 .. Len(s) -> [Seq(Trackers) -> Seq(Trackers)]]
    BY <1>1
  <1>3. \A k \in 1 .. Len(s), acc \in Seq(Trackers) : turn[k][acc] = Kept(acc, s[k], most)
    OBVIOUS
  <1>. HIDE DEF turn
  <1>4. PICK g \in [0 .. Len(s) -> Seq(Trackers)] :
          g[0] = base /\ \A k \in 1 .. Len(s) : g[k] = turn[k][g[k - 1]]
    <2>. DEFINE A == Seq(Trackers)
                N == Len(s)
    <2>1. N \in Nat /\ base \in A /\ turn \in [1 .. N -> [A -> A]]
      BY <1>2
    <2>. HIDE DEF A, N
    <2>2. Loops(A, N, base, turn) # {}
      BY <2>1, LoopExists
    <2>. QED
      BY <2>2 DEF A, N, Loops
  <1>5. Loop(g)
    <2>1. ASSUME NEW k \in 1 .. Len(s) PROVE g[k] = Kept(g[k - 1], s[k], most)
      <3>1. g[k - 1] \in Seq(Trackers) /\ g[k] = turn[k][g[k - 1]]
        BY <1>4
      <3>. QED
        BY <1>3, <3>1
    <2>2. \A k \in 0 .. Len(s) : g[k] = IF k = 0 THEN base ELSE Kept(g[k - 1], s[k], most)
      BY <1>4, <2>1
    <2>. QED
      BY <1>4, <2>2
  <1>6. Loop(f)
    BY <1>5, Zenon
  <1>7. Collect(base, s, most) = f[Len(s)]
    BY Zenon DEF Collect
  <1>. HIDE DEF f
  <1>8. f[0] = base /\ \A k \in 1 .. Len(s) : f[k] = Kept(f[k - 1], s[k], most)
    BY <1>6
  <1>9. \A k \in 0 .. Len(s) : f[k] \in Seq(Trackers)
    <2>. DEFINE T == {n \in Nat : n <= Len(s) => f[n] \in Seq(Trackers)}
    <2>1. 0 \in T
      BY <1>8
    <2>2. ASSUME NEW n \in Nat, n \in T PROVE n + 1 \in T
      <3>. SUFFICES ASSUME n + 1 <= Len(s) PROVE f[n + 1] \in Seq(Trackers)
        OBVIOUS
      <3>1. n + 1 \in 1 .. Len(s) /\ (n + 1) - 1 = n /\ f[n] \in Seq(Trackers)
        BY <2>2
      <3>. QED
        BY <1>1, <1>8, <3>1
    <2>. HIDE DEF T
    <2>3. \A n \in Nat : n \in T
      BY <2>1, <2>2, Induction
    <2>. QED
      BY <2>3 DEF T
  <1>10. DOMAIN f = 0 .. Len(s) /\ f = [k \in DOMAIN f |-> f[k]]
    BY <1>6
  <1>11. f \in Collecting(base, s, most)
    BY <1>8, <1>9, <1>10 DEF Collecting
  <1>. QED
    BY <1>7, <1>11

LEMMA CollectKind ==
  ASSUME NEW base \in Seq(Trackers), NEW s, Len(s) \in Nat, NEW most
  PROVE  Collect(base, s, most) \in Seq(Trackers)
  <1>1. PICK f \in Collecting(base, s, most) : Collect(base, s, most) = f[Len(s)]
    BY CollectLoop
  <1>. QED
    BY <1>1 DEF Collecting

Words == Trackers \cup {Hash, Junk}

LEMMA EntriesOf ==
  ASSUME NEW line \in Seq(Words)
  PROVE  /\ Len(Entries(line)) \in Nat
         /\ \/ Len(Entries(line)) = 0 /\ (Len(line) = 0 \/ line[1] = Hash)
            \/ Entries(line) = line /\ line[1] # Hash
  BY DEF Entries

\* A body is a sequence of lines.
Readable(body) ==
  /\ Len(body) \in Nat /\ DOMAIN body = 1 .. Len(body)
  /\ \A i \in 1 .. Len(body) : body[i] \in Seq(Words)

Parsing(body) ==
  {f \in [0 .. Len(body) -> Seq(Trackers)] :
     f[0] = <<>> /\ \A i \in 1 .. Len(body) : f[i] = Collect(f[i - 1], Entries(body[i]), NoLimit)}

LEMMA ParseLoop ==
  ASSUME NEW body, Readable(body)
  PROVE  \E f \in Parsing(body) : ParseList(body) = f[Len(body)]
  <1>. DEFINE line(i) == Entries(body[i])
              none == <<>>
              turn == [i \in 1 .. Len(body) |-> [acc \in Seq(Trackers) |-> Collect(acc, line(i), NoLimit)]]
              Loop(g) == g = [i \in 0 .. Len(body) |-> IF i = 0 THEN none ELSE Collect(g[i - 1], line(i), NoLimit)]
              f == CHOOSE g : Loop(g)
  <1>0. none \in Seq(Trackers)
    OBVIOUS
  <1>1. Len(body) \in Nat /\ \A i \in 1 .. Len(body) : Len(line(i)) \in Nat
    BY EntriesOf DEF Readable
  <1>2. ASSUME NEW acc \in Seq(Trackers), NEW i \in 1 .. Len(body)
        PROVE  Collect(acc, line(i), NoLimit) \in Seq(Trackers)
    BY <1>1, CollectKind
  <1>. HIDE DEF line, none
  <1>3. turn \in [1 .. Len(body) -> [Seq(Trackers) -> Seq(Trackers)]]
    BY <1>2
  <1>4. \A i \in 1 .. Len(body), acc \in Seq(Trackers) : turn[i][acc] = Collect(acc, line(i), NoLimit)
    OBVIOUS
  <1>. HIDE DEF turn
  <1>5. PICK g \in [0 .. Len(body) -> Seq(Trackers)] :
          g[0] = none /\ \A i \in 1 .. Len(body) : g[i] = turn[i][g[i - 1]]
    <2>. DEFINE A == Seq(Trackers)
                N == Len(body)
    <2>1. N \in Nat /\ none \in A /\ turn \in [1 .. N -> [A -> A]]
      BY <1>0, <1>1, <1>3
    <2>. HIDE DEF A, N
    <2>2. Loops(A, N, none, turn) # {}
      BY <2>1, LoopExists
    <2>. QED
      BY <2>2 DEF A, N, Loops
  <1>6. Loop(g)
    <2>1. ASSUME NEW i \in 1 .. Len(body) PROVE g[i] = Collect(g[i - 1], line(i), NoLimit)
      <3>1. g[i - 1] \in Seq(Trackers) /\ g[i] = turn[i][g[i - 1]]
        BY <1>1, <1>5
      <3>. QED
        BY <1>4, <3>1
    <2>2. \A i \in 0 .. Len(body) : g[i] = IF i = 0 THEN none ELSE Collect(g[i - 1], line(i), NoLimit)
      BY <1>1, <1>5, <2>1
    <2>. QED
      BY <1>5, <2>2
  <1>7. Loop(f)
    BY <1>6, Zenon
  <1>8. ParseList(body) = f[Len(body)]
    BY Zenon DEF ParseList, line, none
  <1>. HIDE DEF f
  <1>9. f[0] = none /\ \A i \in 1 .. Len(body) : f[i] = Collect(f[i - 1], line(i), NoLimit)
    <2>1. \A i \in 0 .. Len(body) : f[i] = IF i = 0 THEN none ELSE Collect(f[i - 1], line(i), NoLimit)
      BY <1>7
    <2>2. 0 \in 0 .. Len(body) /\ \A i \in 1 .. Len(body) : i \in 0 .. Len(body) /\ i # 0
      BY <1>1
    <2>. QED
      BY <2>1, <2>2, Zenon
  <1>10. \A i \in 0 .. Len(body) : f[i] \in Seq(Trackers)
    <2>. DEFINE T == {n \in Nat : n <= Len(body) => f[n] \in Seq(Trackers)}
    <2>1. 0 \in T
      BY <1>0, <1>9
    <2>2. ASSUME NEW n \in Nat, n \in T PROVE n + 1 \in T
      <3>. SUFFICES ASSUME n + 1 <= Len(body) PROVE f[n + 1] \in Seq(Trackers)
        OBVIOUS
      <3>1. n + 1 \in 1 .. Len(body) /\ (n + 1) - 1 = n /\ f[n] \in Seq(Trackers)
        BY <1>1, <2>2
      <3>. QED
        BY <1>2, <1>9, <3>1
    <2>. HIDE DEF T
    <2>3. \A n \in Nat : n \in T
      BY <2>1, <2>2, Induction
    <2>. QED
      BY <1>1, <2>3 DEF T
  <1>11. DOMAIN f = 0 .. Len(body) /\ f = [i \in DOMAIN f |-> f[i]]
    BY <1>7
  <1>12. f \in [0 .. Len(body) -> Seq(Trackers)]
    BY <1>10, <1>11
  <1>13. f \in Parsing(body)
    BY <1>9, <1>12 DEF Parsing, line, none
  <1>. QED
    BY <1>8, <1>13

-----------------------------------------------------------------------------
(* What the loops collect.  V[t] are the places where t was met so far.    *)

FirstCome(acc, V, most) ==
  /\ acc \in Seq(Trackers)
  /\ most \in Nat => Len(acc) <= most
  /\ \A n \in DOMAIN acc : V[acc[n]] # {}
  /\ \A m, n \in DOMAIN acc : m < n => Before(V[acc[m]], V[acc[n]])
  /\ \A t \in Trackers : V[t] # {} /\ t \notin ToSet(acc) =>
       Len(acc) = most /\ \A n \in DOMAIN acc : Before(V[acc[n]], V[t])

LEMMA Appending ==
  ASSUME NEW s \in Seq(Trackers), NEW e \in Trackers
  PROVE  /\ Append(s, e) \in Seq(Trackers)
         /\ DOMAIN Append(s, e) = 1 .. Len(s) + 1 /\ Len(Append(s, e)) = Len(s) + 1
         /\ \A k \in 1 .. Len(s) : Append(s, e)[k] = s[k]
         /\ Append(s, e)[Len(s) + 1] = e
  OBVIOUS

\* One more place p, that of e.
Adds(V, e, p, W) == \A t \in Trackers : W[t] = IF t = e THEN V[t] \cup {p} ELSE V[t]

\* One more entry, behind all that were met.
LEMMA OneMore ==
  ASSUME NEW acc, NEW most \in Int, NEW e, NEW p,
         NEW V \in [Trackers -> SUBSET (Nat \X Nat)], FirstCome(acc, V, most),
         \A t \in Trackers : \A q \in V[t] : Earlier(q, p),
         NEW W, Adds(V, e, p, W)
  PROVE  FirstCome(Kept(acc, e, most), W, most)
  <1>0. /\ Len(acc) \in Nat /\ DOMAIN acc = 1 .. Len(acc) /\ acc \in Seq(Trackers)
        /\ \A n \in DOMAIN acc : acc[n] \in Trackers
        /\ Contains(acc, e) <=> e \in ToSet(acc)
    BY DEF FirstCome, Contains, ToSet
  <1>. USE DEF Adds
  <1>1. \A t \in Trackers : V[t] \subseteq W[t]
    OBVIOUS
  <1>2. ASSUME NEW t \in Trackers, NEW u \in Trackers, V[t] # {},
               V[u] = {} \/ Before(V[t], V[u])
        PROVE  Before(W[t], W[u])
    <2>1. PICK q \in V[t] : \A r \in V[u] : Earlier(q, r)
      BY <1>2 DEF Before
    <2>2. \A r \in W[u] : Earlier(q, r)
      BY <2>1
    <2>. QED
      BY <1>1, <2>1, <2>2 DEF Before
  <1>3. ASSUME e \notin Trackers \/ e \in ToSet(acc) \/ Len(acc) = most
        PROVE  FirstCome(acc, W, most)
    <2>1. \A n \in DOMAIN acc : W[acc[n]] # {}
      BY <1>0, <1>1 DEF FirstCome
    <2>2. \A m, n \in DOMAIN acc : m < n => Before(W[acc[m]], W[acc[n]])
      BY <1>0, <1>2 DEF FirstCome
    <2>3. ASSUME NEW t \in Trackers, W[t] # {}, t \notin ToSet(acc)
          PROVE  Len(acc) = most /\ \A n \in DOMAIN acc : Before(W[acc[n]], W[t])
      <3>1. Len(acc) = most
        BY <1>3, <2>3 DEF FirstCome
      <3>2. \A n \in DOMAIN acc : V[acc[n]] # {} /\ (V[t] = {} \/ Before(V[acc[n]], V[t]))
        BY <2>3 DEF FirstCome
      <3>. QED
        BY <1>0, <1>2, <2>3, <3>1, <3>2
    <2>. QED
      BY <2>1, <2>2, <2>3 DEF FirstCome
  <1>4. ASSUME e \in Trackers, e \notin ToSet(acc), Len(acc) # most
        PROVE  FirstCome(Append(acc, e), W, most)
    <2>. DEFINE a == Append(acc, e)
    <2>0. acc \in Seq(Trackers) /\ e \in Trackers
      BY <1>0, <1>4
    <2>1. /\ a \in Seq(Trackers) /\ DOMAIN a = 1 .. Len(acc) + 1 /\ Len(a) = Len(acc) + 1
          /\ \A n \in 1 .. Len(acc) : a[n] = acc[n]
          /\ a[Len(acc) + 1] = e
      <3>. HIDE <1>0, <1>4
      <3>. QED
        BY <2>0, Appending
    <2>. HIDE DEF a
    <2>2. V[e] = {} /\ W[e] # {}
      BY <1>4 DEF FirstCome
    <2>3. ASSUME most \in Nat PROVE Len(a) <= most
      <3>1. Len(acc) <= most /\ Len(acc) # most /\ Len(acc) \in Nat
        BY <1>0, <1>4, <2>3 DEF FirstCome
      <3>2. Len(a) = Len(acc) + 1
        BY <2>1
      <3>. QED
        BY <2>3, <3>1, <3>2
    <2>4. \A n \in 1 .. Len(acc) : V[acc[n]] # {} /\ acc[n] \in Trackers
      BY <1>0 DEF FirstCome
    <2>5. ASSUME NEW n \in DOMAIN a PROVE W[a[n]] # {}
      <3>1. CASE n \in 1 .. Len(acc)
        BY <1>1, <2>1, <2>4, <3>1
      <3>2. CASE n = Len(acc) + 1
        BY <2>1, <2>2, <3>2
      <3>. QED
        BY <1>0, <2>1, <3>1, <3>2
    <2>6. ASSUME NEW m \in DOMAIN a, NEW n \in DOMAIN a, m < n PROVE Before(W[a[m]], W[a[n]])
      <3>1. m \in 1 .. Len(acc) /\ a[m] = acc[m] /\ V[a[m]] # {} /\ a[m] \in Trackers
        BY <1>0, <2>1, <2>4, <2>6
      <3>2. CASE n \in 1 .. Len(acc)
        <4>1. Before(V[a[m]], V[a[n]]) /\ a[n] \in Trackers
          BY <1>0, <2>1, <2>4, <2>6, <3>1, <3>2 DEF FirstCome
        <4>. QED
          BY <1>2, <3>1, <4>1
      <3>3. CASE n = Len(acc) + 1
        <4>1. a[n] = e
          BY <2>1, <3>3
        <4>. QED
          BY <1>2, <1>4, <2>2, <3>1, <4>1
      <3>. QED
        BY <1>0, <2>1, <3>2, <3>3
    <2>7. ASSUME NEW t \in Trackers, W[t] # {}, t \notin ToSet(a) PROVE FALSE
      <3>1. Len(acc) + 1 \in DOMAIN a
        BY <1>0, <2>1
      <3>2. t # e
        BY <2>1, <2>7, <3>1 DEF ToSet
      <3>3. \A n \in DOMAIN acc : n \in DOMAIN a /\ a[n] = acc[n]
        BY <1>0, <2>1
      <3>4. t \notin ToSet(acc)
        BY <2>7, <3>3 DEF ToSet
      <3>. QED
        BY <1>4, <2>7, <3>2, <3>4 DEF FirstCome
    <2>. QED
      BY <2>1, <2>3, <2>5, <2>6, <2>7, Zenon DEF a, FirstCome
  <1>. QED
    BY <1>0, <1>3, <1>4, Zenon DEF Kept

\* The places of each tracker before place p.
MetBefore(body, p) == [t \in Trackers |-> {q \in Places(body, t) : Earlier(q, p)}]

LEMMA PlacesOf ==
  ASSUME NEW body, Readable(body), NEW t
  PROVE  \A p : p \in Places(body, t) <=>
           \E i \in 1 .. Len(body), k \in Nat \ {0} :
             /\ p = <<i, k>> /\ k <= Len(body[i])
             /\ body[i][k] = t /\ body[i][1] # Hash
  BY DEF Places, Readable

LEMMA MetType ==
  ASSUME NEW body, Readable(body), NEW p
  PROVE  MetBefore(body, p) \in [Trackers -> SUBSET (Nat \X Nat)]
  <1>1. \A t \in Trackers : Places(body, t) \subseteq Nat \X Nat
    BY PlacesOf DEF Readable
  <1>. QED
    BY <1>1 DEF MetBefore

\* An entry adds its own place, the end of a line nothing.
LEMMA MetAtEntry ==
  ASSUME NEW body, Readable(body), NEW i \in 1 .. Len(body), NEW k \in 1 .. Len(body[i]),
         body[i][1] # Hash
  PROVE  Adds(MetBefore(body, <<i, k>>), body[i][k], <<i, k>>, MetBefore(body, <<i, k + 1>>))
  <1>. SUFFICES ASSUME NEW t \in Trackers
                PROVE  MetBefore(body, <<i, k + 1>>)[t] =
                         IF t = body[i][k] THEN MetBefore(body, <<i, k>>)[t] \cup {<<i, k>>}
                                           ELSE MetBefore(body, <<i, k>>)[t]
    BY DEF Adds
  <1>1. ASSUME NEW q \in Places(body, t)
        PROVE  Earlier(q, <<i, k + 1>>) <=> Earlier(q, <<i, k>>) \/ q = <<i, k>>
    <2>1. PICK j \in 1 .. Len(body), l \in Nat \ {0} : q = <<j, l>>
      BY PlacesOf
    <2>2. i \in Nat /\ j \in Nat /\ k \in Nat
      BY DEF Readable
    <2>. QED
      BY <2>1, <2>2 DEF Earlier
  <1>2. <<i, k>> \in Places(body, t) <=> t = body[i][k]
    BY PlacesOf DEF Readable
  <1>. QED
    BY <1>1, <1>2 DEF MetBefore

LEMMA MetAtEnd ==
  ASSUME NEW body, Readable(body), NEW i \in 1 .. Len(body), NEW k \in Nat \ {0},
         k > Len(body[i]) \/ body[i][1] = Hash
  PROVE  MetBefore(body, <<i, k>>) = MetBefore(body, <<i + 1, 1>>)
  <1>1. ASSUME NEW t \in Trackers, NEW q \in Places(body, t)
        PROVE  Earlier(q, <<i, k>>) <=> Earlier(q, <<i + 1, 1>>)
    <2>1. PICK j \in 1 .. Len(body), l \in Nat \ {0} :
            q = <<j, l>> /\ l <= Len(body[j]) /\ body[j][1] # Hash
      BY PlacesOf
    <2>2. i \in Nat /\ j \in Nat /\ Len(body[i]) \in Nat
      BY DEF Readable
    <2>3. j = i => l < k
      BY <2>1, <2>2
    <2>. QED
      BY <2>1, <2>2, <2>3 DEF Earlier
  <1>. QED
    BY <1>1 DEF MetBefore

LEMMA LineCollected ==
  ASSUME NEW body, Readable(body), NEW i \in 1 .. Len(body), NEW most \in Int,
         NEW acc, FirstCome(acc, MetBefore(body, <<i, 1>>), most)
  PROVE  FirstCome(Collect(acc, Entries(body[i]), most), MetBefore(body, <<i + 1, 1>>), most)
  <1>. DEFINE line == Entries(body[i])
  <1>1. body[i] \in Seq(Words) /\ acc \in Seq(Trackers)
    BY DEF Readable, FirstCome
  <1>2. Len(line) \in Nat
    BY <1>1, EntriesOf
  <1>. HIDE DEF line
  <1>3. PICK f \in Collecting(acc, line, most) : Collect(acc, line, most) = f[Len(line)]
    BY <1>1, <1>2, CollectLoop
  <1>4. f[0] = acc /\ \A k \in 1 .. Len(line) : f[k] = Kept(f[k - 1], line[k], most)
    BY <1>3 DEF Collecting
  <1>5. CASE Len(line) = 0 /\ (Len(body[i]) = 0 \/ body[i][1] = Hash)
    <2>1. 1 \in Nat \ {0} /\ (1 > Len(body[i]) \/ body[i][1] = Hash)
      BY <1>5
    <2>2. MetBefore(body, <<i, 1>>) = MetBefore(body, <<i + 1, 1>>)
      BY <2>1, MetAtEnd, Zenon
    <2>. QED
      BY <1>3, <1>4, <1>5, <2>2 DEF line
  <1>6. CASE line = body[i] /\ body[i][1] # Hash
    <2>. DEFINE T == {n \in Nat : n <= Len(line) => FirstCome(f[n], MetBefore(body, <<i, n + 1>>), most)}
    <2>1. 0 \in T
      BY <1>4
    <2>2. ASSUME NEW n \in Nat, n \in T PROVE n + 1 \in T
      <3>. SUFFICES ASSUME n + 1 <= Len(line)
                    PROVE  FirstCome(f[n + 1], MetBefore(body, <<i, (n + 1) + 1>>), most)
        OBVIOUS
      <3>1. n + 1 \in 1 .. Len(line) /\ (n + 1) - 1 = n
        BY <1>2
      <3>2. FirstCome(f[n], MetBefore(body, <<i, n + 1>>), most)
        BY <1>2, <2>2
      <3>3. f[n + 1] = Kept(f[n], line[n + 1], most)
        BY <1>4, <3>1
      <3>. DEFINE V == MetBefore(body, <<i, n + 1>>)
                  W == MetBefore(body, <<i, (n + 1) + 1>>)
                  p == <<i, n + 1>>
                  e == line[n + 1]
      <3>4. V \in [Trackers -> SUBSET (Nat \X Nat)]
        BY MetType
      <3>5. \A t \in Trackers : \A q \in V[t] : Earlier(q, p)
        BY DEF MetBefore
      <3>6. Adds(V, e, p, W)
        <4>. DEFINE k == n + 1
        <4>1. k \in 1 .. Len(body[i]) /\ body[i][1] # Hash /\ line = body[i]
          BY <1>6, <3>1
        <4>. HIDE DEF k
        <4>2. Adds(MetBefore(body, <<i, k>>), body[i][k], <<i, k>>, MetBefore(body, <<i, k + 1>>))
          BY <4>1, MetAtEntry
        <4>. QED
          BY <4>1, <4>2 DEF k
      <3>. HIDE DEF V, W, p, e
      <3>7. FirstCome(Kept(f[n], e, most), W, most)
        BY <3>2, <3>4, <3>5, <3>6, OneMore DEF V
      <3>. QED
        BY <3>3, <3>7 DEF W, e
    <2>. HIDE DEF T
    <2>3. \A n \in Nat : n \in T
      BY <2>1, <2>2, Induction
    <2>4. FirstCome(f[Len(line)], MetBefore(body, <<i, Len(line) + 1>>), most)
      BY <1>2, <2>3 DEF T
    <2>5. MetBefore(body, <<i, Len(line) + 1>>) = MetBefore(body, <<i + 1, 1>>)
      BY <1>2, <1>6, MetAtEnd
    <2>. QED
      BY <1>3, <2>4, <2>5 DEF line
  <1>. QED
    BY <1>1, <1>5, <1>6, EntriesOf DEF line

LEMMA NothingCollected ==
  ASSUME NEW body, Readable(body), NEW most \in Int
  PROVE  FirstCome(<<>>, MetBefore(body, <<1, 1>>), most)
  <1>1. ASSUME NEW t \in Trackers PROVE MetBefore(body, <<1, 1>>)[t] = {}
    <2>1. ASSUME NEW q \in Places(body, t) PROVE ~Earlier(q, <<1, 1>>)
      <3>1. PICK i \in 1 .. Len(body), k \in Nat \ {0} : q = <<i, k>>
        BY PlacesOf
      <3>. QED
        BY <3>1 DEF Earlier, Readable
    <2>. QED
      BY <2>1 DEF MetBefore
  <1>. QED
    BY <1>1 DEF FirstCome

LEMMA MetAll ==
  ASSUME NEW body, Readable(body), NEW t \in Trackers
  PROVE  MetBefore(body, <<Len(body) + 1, 1>>)[t] = Places(body, t)
  <1>1. ASSUME NEW q \in Places(body, t) PROVE Earlier(q, <<Len(body) + 1, 1>>)
    <2>1. PICK i \in 1 .. Len(body), k \in Nat \ {0} : q = <<i, k>>
      BY PlacesOf
    <2>. QED
      BY <2>1 DEF Earlier, Readable
  <1>. QED
    BY <1>1 DEF MetBefore

\* What a whole body comes to.
InOrder(acc, body, most) == FirstCome(acc, MetBefore(body, <<Len(body) + 1, 1>>), most)

LEMMA ParsedInOrder ==
  ASSUME NEW body, Readable(body)
  PROVE  InOrder(ParseList(body), body, NoLimit)
  <1>1. PICK f \in Parsing(body) : ParseList(body) = f[Len(body)]
    BY ParseLoop
  <1>2. f[0] = <<>> /\ \A i \in 1 .. Len(body) : f[i] = Collect(f[i - 1], Entries(body[i]), NoLimit)
    BY <1>1 DEF Parsing
  <1>3. Len(body) \in Nat /\ NoLimit \in Int
    BY DEF Readable, NoLimit
  <1>. DEFINE T == {n \in Nat : n <= Len(body) => FirstCome(f[n], MetBefore(body, <<n + 1, 1>>), NoLimit)}
  <1>4. 0 \in T
    BY <1>2, <1>3, NothingCollected
  <1>5. ASSUME NEW n \in Nat, n \in T PROVE n + 1 \in T
    <2>. SUFFICES ASSUME n + 1 <= Len(body)
                  PROVE  FirstCome(f[n + 1], MetBefore(body, <<(n + 1) + 1, 1>>), NoLimit)
      OBVIOUS
    <2>. DEFINE i == n + 1
    <2>1. i \in 1 .. Len(body) /\ i - 1 = n
      BY <1>3
    <2>2. FirstCome(f[n], MetBefore(body, <<i, 1>>), NoLimit)
      BY <1>3, <1>5
    <2>. HIDE DEF i
    <2>3. FirstCome(Collect(f[n], Entries(body[i]), NoLimit), MetBefore(body, <<i + 1, 1>>), NoLimit)
      BY <1>3, <2>1, <2>2, LineCollected
    <2>4. f[i] = Collect(f[n], Entries(body[i]), NoLimit)
      BY <1>2, <2>1
    <2>. QED
      BY <2>3, <2>4 DEF i
  <1>. HIDE DEF T
  <1>6. \A n \in Nat : n \in T
    BY <1>4, <1>5, Induction
  <1>. QED
    BY <1>1, <1>3, <1>6 DEF T, InOrder

\* The client's own trackers and the cached ones are two lines of a body.
LEMMA MergedInOrder ==
  ASSUME NEW own \in Seq(Trackers \cup {Junk}), NEW cached \in Seq(Trackers)
  PROVE  InOrder(Collect(Collect(<<>>, own, MaxTrackers), cached, MaxTrackers),
                 <<own, cached>>, MaxTrackers)
  <1>. DEFINE body == <<own, cached>>
              once == Collect(<<>>, own, MaxTrackers)
  <1>1. own \in Seq(Words) /\ cached \in Seq(Words)
    BY DEF Words
  <1>2. Readable(body) /\ Len(body) = 2 /\ body[1] = own /\ body[2] = cached
    BY <1>1 DEF Readable
  <1>3. Entries(own) = own /\ Entries(cached) = cached
    BY EntriesAssumption DEF Entries
  <1>4. MaxTrackers \in Int
    BY BoundsAssumption
  <1>. HIDE DEF body
  <1>5. FirstCome(<<>>, MetBefore(body, <<1, 1>>), MaxTrackers)
    BY <1>2, <1>4, NothingCollected
  <1>6. FirstCome(Collect(<<>>, Entries(body[1]), MaxTrackers), MetBefore(body, <<1 + 1, 1>>), MaxTrackers)
    <2>1. 1 \in 1 .. Len(body)
      BY <1>2
    <2>. QED
      BY <1>2, <1>4, <1>5, <2>1, LineCollected
  <1>. HIDE DEF once
  <1>7. FirstCome(once, MetBefore(body, <<2, 1>>), MaxTrackers)
    BY <1>2, <1>3, <1>6 DEF once
  <1>8. FirstCome(Collect(once, Entries(body[2]), MaxTrackers), MetBefore(body, <<2 + 1, 1>>), MaxTrackers)
    <2>1. 2 \in 1 .. Len(body)
      BY <1>2
    <2>. QED
      BY <1>2, <1>4, <1>7, <2>1, LineCollected
  <1>. QED
    BY <1>2, <1>3, <1>8 DEF InOrder, body, once

\* For any bodies: the cache holds each tracker that the fetched list names
\* outside comments, once, in the order of the first places.
THEOREM CacheIsRight == Spec => []CacheIsParsed
  <1>1. TypeOK => CacheIsParsed
    <2>. SUFFICES ASSUME TypeOK, list # <<>> PROVE CacheIsParsed
      BY DEF CacheIsParsed
    <2>1. PICK b \in Bodies : list = ParseList(b)
      BY DEF TypeOK, Lists, Parsed
    <2>2. Readable(b)
      BY BodiesAssumption DEF Readable, Words
    <2>. DEFINE V == MetBefore(b, <<Len(b) + 1, 1>>)
    <2>3. FirstCome(list, V, NoLimit)
      BY <2>1, <2>2, ParsedInOrder DEF InOrder
    <2>4. \A t \in Trackers : V[t] = Places(b, t)
      BY <2>2, MetAll
    <2>. HIDE DEF V
    <2>5. list \in Seq(Trackers) /\ Len(list) # NoLimit
      BY <2>3 DEF FirstCome, NoLimit
    <2>6. \A n \in DOMAIN list : list[n] \in Trackers /\ Places(b, list[n]) # {}
      BY <2>3, <2>4, <2>5 DEF FirstCome
    <2>7. \A t \in Trackers : Places(b, t) # {} => t \in ToSet(list)
      BY <2>3, <2>4, <2>5 DEF FirstCome
    <2>8. ToSet(list) = {t \in Trackers : Places(b, t) # {}}
      BY <2>6, <2>7 DEF ToSet
    <2>9. \A m, n \in DOMAIN list : m < n => Before(Places(b, list[m]), Places(b, list[n]))
      BY <2>3, <2>4, <2>6 DEF FirstCome
    <2>. QED
      BY <2>8, <2>9 DEF CacheIsParsed
  <1>. QED
    BY <1>1, TrackerTypes, PTL

\* What the last download got is what the client and the cache say.
AddedFits == added.sent = MergeOptions(added.user, added.cached)

LEMMA AddedKeeps == AddedFits /\ [Next]_vars => AddedFits'
  <1>1. ASSUME UNCHANGED added, AddedFits PROVE AddedFits'
    BY <1>1 DEF AddedFits
  <1>2. ASSUME NEW user, AddTorrentOrMagnet(user) \/ AddPlainURI(user) PROVE AddedFits'
    BY <1>2 DEF AddTorrentOrMagnet, AddPlainURI, AddedFits, MergeOptions
  <1>. QED
    BY <1>1, <1>2 DEF Next, UpdaterStep, Environment, Fetch, FetchFails, Apply, ApplyFails,
       TimerFires, Return, Publish, DaemonRestarts, Cancel, vars

\* For any options, lists and MaxTrackers: a download gets the client's
\* trackers and then the cached ones, as many as there is room for.
THEOREM DownloadsAreRight == Spec => []DownloadsGetTrackers
  <1>1. Init => AddedFits
    BY DEF Init, NoDownload, AddedFits, MergeOptions
  <1>2. TypeOK /\ AddedFits => DownloadsGetTrackers
    <2>. SUFFICES ASSUME TypeOK, AddedFits, added.cached # <<>> PROVE DownloadsGetTrackers
      BY DEF DownloadsGetTrackers, AddedFits, MergeOptions
    <2>. DEFINE own == Own(added.user)
                body == <<own, added.cached>>
                V == MetBefore(body, <<Len(body) + 1, 1>>)
                sent == added.sent
                Given(t) == Places(body, t)
    <2>1. own \in Seq(Trackers \cup {Junk})
      BY UsersAssumption DEF Own, TypeOK, Options
    <2>2. added.cached \in Seq(Trackers)
      <3>1. ASSUME NEW b \in Bodies PROVE ParseList(b) \in Seq(Trackers)
        <4>1. Readable(b)
          BY BodiesAssumption DEF Readable, Words
        <4>. QED
          BY <4>1, ParsedInOrder DEF InOrder, FirstCome
      <3>. QED
        BY <3>1 DEF TypeOK, Lists, Parsed
    <2>3. FirstCome(sent, V, MaxTrackers)
      BY <2>1, <2>2, MergedInOrder DEF InOrder, AddedFits, MergeOptions
    <2>4. Readable(body)
      BY <2>1, <2>2 DEF Readable, Words
    <2>5. \A t \in Trackers : V[t] = Given(t)
      BY <2>4, MetAll
    <2>. HIDE DEF V, Given
    <2>6. sent \in Seq(Trackers) /\ Len(sent) <= MaxTrackers
      BY <2>3, BoundsAssumption DEF FirstCome
    <2>7. \A n \in DOMAIN sent : sent[n] \in Trackers /\ Given(sent[n]) # {}
      BY <2>3, <2>5, <2>6 DEF FirstCome
    <2>8. \A m, n \in DOMAIN sent : m < n => Before(Given(sent[m]), Given(sent[n]))
      BY <2>3, <2>5, <2>7 DEF FirstCome
    <2>9. \A t \in Trackers : Given(t) # {} /\ t \notin ToSet(sent) =>
            Len(sent) = MaxTrackers /\ \A n \in DOMAIN sent : Before(Given(sent[n]), Given(t))
      BY <2>3, <2>5, <2>7 DEF FirstCome
    <2>10. ToSet(sent) \subseteq {t \in Trackers : Given(t) # {}}
      BY <2>7 DEF ToSet
    <2>. QED
      BY <2>6, <2>8, <2>9, <2>10 DEF DownloadsGetTrackers, Given
  <1>3. TypeOK /\ AddedFits /\ [Next]_vars => (TypeOK /\ AddedFits)'
    BY TypeStep, AddedKeeps
  <1>. QED
    BY <1>1, <1>2, <1>3, TypeInit, PTL DEF Spec
=============================================================================
