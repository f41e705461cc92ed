---------------------------- MODULE TrackerUpdater ----------------------------
(***************************************************************************)
(* Package tracker: Source fetches and caches a list of BitTorrent         *)
(* trackers, Updater hands the list to aria2 as its global option          *)
(* bt-tracker, and Downloader adds it to every torrent and magnet link.    *)
(*                                                                         *)
(* A body is the sequence of its lines, a line that of the entries between *)
(* its commas: a tracker, a text that begins with #, or junk (blank, no    *)
(* host, another scheme).  Delays are in minutes.                          *)
(***************************************************************************)
EXTENDS Integers, Sequences, FiniteSets, SequencesExt

CONSTANTS
  Trackers,       \* valid tracker addresses
  Hash, Junk,     \* an entry that begins with #, and any other invalid one
  Bodies,         \* what the list server may answer
  UserOptions,    \* bt-tracker options of clients, their blank entries written Junk
  NoOption,       \* no bt-tracker option
  MaxTrackers,    \* maxTrackers
  Interval,       \* Updater.interval
  MinRetryDelay,  \* minRetryDelay
  MaxRetryDelay,  \* maxRetryDelay
  MaxFaults,      \* bound on failed calls and restarts of aria2
  MaxFailures     \* failures are counted up to this bound

ASSUME BodiesAssumption ==
  /\ Bodies # {}
  /\ \A b \in Bodies : b \in Seq(Seq(Trackers \cup {Hash, Junk}))
ASSUME DelaysAssumption ==
  /\ Interval \in Nat \ {0} /\ MinRetryDelay \in Nat \ {0}
  /\ MaxRetryDelay \in Nat /\ MinRetryDelay <= MaxRetryDelay
ASSUME BoundsAssumption == MaxFaults \in Nat /\ MaxFailures \in Nat /\ MaxTrackers \in Nat \ {0}
\* The count of failures goes on until the longest delay is reached.
ASSUME CountAssumption == MaxFailures > 0 /\ MinRetryDelay * 2 ^ (MaxFailures - 1) >= MaxRetryDelay
ASSUME UsersAssumption == UserOptions \subseteq Seq(Trackers \cup {Junk})
ASSUME EntriesAssumption == Hash \notin Trackers /\ Junk \notin Trackers /\ Hash # Junk

VARIABLES
  served,       \* the body on the list server
  list,         \* Source.list
  option,       \* bt-tracker among aria2's global options, <<>> when unset
  applied,      \* Updater.applied
  lastApplied,  \* Updater.lastApplied
  retryDelay,   \* retryDelay of Run
  wait,         \* what the timer of waitFor was set to
  pc,           \* where Run is: "fetch", "apply", "wait", "done"
  cancelled,    \* main's context is done
  added,        \* the last torrent or link given to aria2: what client, cache and call said
  failures,     \* history: failed cycles since the last good one, up to MaxFailures
  behind,       \* history: aria2's option changed and Updater was not told
  faults        \* faults so far

updater == <<applied, lastApplied, retryDelay, wait, failures>>
vars == <<served, list, option, updater, pc, cancelled, added, behind, faults>>

-----------------------------------------------------------------------------
(* The pure functions of the package. *)

\* What both loops do with an entry: junk and repeats are passed over, and the
\* rest once there are as many as may be.
Kept(acc, e, most) ==
  IF e \notin Trackers \/ Contains(acc, e) \/ Len(acc) = most THEN acc ELSE Append(acc, e)

\* A loop over the entries s that goes on with what is there already.
Collect(base, s, most) ==
  LET acc[k \in 0 .. Len(s)] == IF k = 0 THEN base ELSE Kept(acc[k - 1], s[k], most)
  IN  acc[Len(s)]

NoLimit == -1

\* A line that begins with # is a comment up to its end; elsewhere # spoils
\* the entry it begins.
Entries(line) == IF line # <<>> /\ line[1] = Hash THEN <<>> ELSE line

\* Mutant of ParseList: only repeats within a line are noticed.
ParseRepeats(body) ==
  LET acc[i \in 0 .. Len(body)] ==
        IF i = 0 THEN <<>> ELSE acc[i - 1] \o Collect(<<>>, Entries(body[i]), NoLimit)
  IN  acc[Len(body)]

ParseList(body) ==
  LET acc[i \in 0 .. Len(body)] ==
        IF i = 0 THEN <<>> ELSE Collect(acc[i - 1], Entries(body[i]), NoLimit)
  IN  acc[Len(body)]

\* What the bodies parse to.
Parsed == [b \in Bodies |-> ParseList(b)]

\* The client's own trackers.
Own(user) == IF user = NoOption THEN <<>> ELSE user

\* Mutant of MergeOptions: the client's own are not counted.
MergeCapped(user, cached) ==
  IF cached = <<>> THEN user ELSE Collect(Collect(<<>>, Own(user), NoLimit), cached, MaxTrackers)

\* The option of a new download, given the client's and the cached list: at
\* most MaxTrackers, the client's own first, none twice.
MergeOptions(user, cached) ==
  IF cached = <<>> THEN user ELSE Collect(Collect(<<>>, Own(user), MaxTrackers), cached, MaxTrackers)

NextRetryDelay(current) ==
  IF current * 2 > MaxRetryDelay THEN MaxRetryDelay ELSE current * 2

-----------------------------------------------------------------------------
NoDownload == [user |-> NoOption, cached |-> <<>>, sent |-> NoOption]

Init ==
  /\ served \in Bodies
  /\ list = <<>> /\ option = <<>>
  /\ applied = FALSE /\ lastApplied = <<>>
  /\ retryDelay = MinRetryDelay /\ wait = 0
  /\ pc = "fetch"
  /\ cancelled = FALSE
  /\ added = NoDownload
  /\ failures = 0 /\ behind = FALSE /\ faults = 0

\* Mutant of Succeed: the delay of the next failure is not reset.
SucceedKeepsDelay ==
  /\ wait' = Interval /\ failures' = 0
  /\ pc' = "wait"
  /\ UNCHANGED retryDelay

\* The end of a good cycle.
Succeed ==
  /\ wait' = Interval /\ retryDelay' = MinRetryDelay /\ failures' = 0
  /\ pc' = "wait"

\* The end of a failed cycle.
Fail ==
  /\ wait' = retryDelay /\ retryDelay' = NextRetryDelay(retryDelay)
  /\ failures' = IF failures = MaxFailures THEN failures ELSE failures + 1
  /\ pc' = "wait"

\* A call may fail for the network or its timeout, and does when main's
\* context is done.
Fault ==
  \/ cancelled /\ UNCHANGED faults
  \/ faults < MaxFaults /\ faults' = faults + 1

\* Mutant of Fetch: once a list was applied the call is always skipped.
FetchAppliesOnce ==
  /\ pc = "fetch"
  /\ Parsed[served] # <<>>
  /\ list' = Parsed[served]
  /\ IF applied
       THEN Succeed
       ELSE pc' = "apply" /\ UNCHANGED <<retryDelay, wait, failures>>
  /\ UNCHANGED <<served, option, applied, lastApplied, cancelled, added, behind, faults>>

\* Source.Refresh got a list with trackers; refresh skips the call to aria2
\* when it remembers the list as applied.
Fetch ==
  /\ pc = "fetch"
  /\ Parsed[served] # <<>>
  /\ list' = Parsed[served]
  /\ IF applied /\ list' = lastApplied
       THEN Succeed
       ELSE pc' = "apply" /\ UNCHANGED <<retryDelay, wait, failures>>
  /\ UNCHANGED <<served, option, applied, lastApplied, cancelled, added, behind, faults>>

\* Mutant of FetchFails: the cache is replaced before the list is looked at.
FetchClears ==
  /\ pc = "fetch"
  /\ \/ Parsed[served] = <<>> /\ list' = <<>> /\ UNCHANGED faults
     \/ Fault /\ UNCHANGED list
  /\ Fail
  /\ UNCHANGED <<served, option, applied, lastApplied, cancelled, added, behind>>

\* Source.Refresh found no tracker, or did not get the list.
FetchFails ==
  /\ pc = "fetch"
  /\ (Parsed[served] = <<>> /\ UNCHANGED faults) \/ Fault
  /\ Fail
  /\ UNCHANGED <<served, list, option, applied, lastApplied, cancelled, added, behind>>

\* ChangeGlobalOption is answered.
Apply ==
  /\ pc = "apply"
  /\ option' = list
  /\ applied' = TRUE /\ lastApplied' = list
  /\ behind' = FALSE
  /\ Succeed
  /\ UNCHANGED <<served, list, cancelled, added, faults>>

\* Mutant of ApplyFails: the list is remembered before the call.
ApplyFailsRemembered ==
  /\ pc = "apply"
  /\ Fault
  /\ \/ option' = list /\ behind' = TRUE
     \/ UNCHANGED <<option, behind>>
  /\ applied' = TRUE /\ lastApplied' = list
  /\ Fail
  /\ UNCHANGED <<served, list, cancelled, added>>

\* ChangeGlobalOption fails; aria2 may have executed it all the same.
ApplyFails ==
  /\ pc = "apply"
  /\ Fault
  /\ \/ option' = list /\ behind' = TRUE
     \/ UNCHANGED <<option, behind>>
  /\ Fail
  /\ UNCHANGED <<served, list, applied, lastApplied, cancelled, added>>

\* waitFor: the timer is first.
TimerFires ==
  /\ pc = "wait" /\ ~cancelled
  /\ pc' = "fetch"
  /\ UNCHANGED <<served, list, option, updater, cancelled, added, behind, faults>>

\* waitFor: the context is done, Run returns.
Return ==
  /\ pc = "wait" /\ cancelled
  /\ pc' = "done"
  /\ UNCHANGED <<served, list, option, updater, cancelled, added, behind, faults>>

UpdaterStep == Fetch \/ FetchFails \/ Apply \/ ApplyFails \/ TimerFires \/ Return

-----------------------------------------------------------------------------
(* Everybody else. *)

\* Downloader.AddTorrent, and AddURI with a magnet link among its addresses.
AddTorrentOrMagnet(user) ==
  /\ added' = [user |-> user, cached |-> list, sent |-> MergeOptions(user, list)]
  /\ UNCHANGED <<served, list, option, updater, pc, cancelled, behind, faults>>

\* Downloader.AddURI with plain addresses only.
AddPlainURI(user) ==
  /\ added' = [user |-> user, cached |-> <<>>, sent |-> user]
  /\ UNCHANGED <<served, list, option, updater, pc, cancelled, behind, faults>>

Publish ==
  /\ served' \in Bodies \ {served}
  /\ UNCHANGED <<list, option, updater, pc, cancelled, added, behind, faults>>

\* aria2 restarts with the options of its command line.
DaemonRestarts ==
  /\ faults < MaxFaults /\ faults' = faults + 1
  /\ option' = <<>> /\ behind' = TRUE
  /\ UNCHANGED <<served, list, updater, pc, cancelled, added>>

Cancel ==
  /\ ~cancelled /\ cancelled' = TRUE
  /\ UNCHANGED <<served, list, option, updater, pc, added, behind, faults>>

Environment ==
  \/ Publish \/ DaemonRestarts \/ Cancel
  \/ \E user \in UserOptions \cup {NoOption} : AddTorrentOrMagnet(user) \/ AddPlainURI(user)

Next == UpdaterStep \/ Environment

Spec == Init /\ [][Next]_vars

\* Run is a goroutine whose timers fire and whose calls end.
FairSpec == Spec /\ WF_vars(UpdaterStep)

-----------------------------------------------------------------------------
(* Properties. *)

Lists == {Parsed[b] : b \in Bodies} \cup {<<>>}
Options == UserOptions \cup {NoOption}
Merged == Options \cup {MergeOptions(u, l) : u \in Options, l \in Lists}

\* The variables have their types, and the delays their bounds.
TypeOK ==
  /\ served \in Bodies
  /\ list \in Lists /\ option \in Lists /\ lastApplied \in Lists
  /\ applied \in BOOLEAN /\ cancelled \in BOOLEAN /\ behind \in BOOLEAN
  /\ retryDelay \in MinRetryDelay .. MaxRetryDelay
  /\ wait \in {0, Interval} \cup (MinRetryDelay .. MaxRetryDelay)
  /\ pc \in {"fetch", "apply", "wait", "done"}
  /\ added.user \in Options /\ added.cached \in Lists
  /\ added.sent \in Merged
  /\ failures \in 0 .. MaxFailures /\ faults \in 0 .. MaxFaults

\* Lines are read from top to bottom, entries from left to right.
Earlier(p, q) == p[1] < q[1] \/ (p[1] = q[1] /\ p[2] < q[2])
Before(P, Q) == \E p \in P : \A q \in Q : Earlier(p, q)

\* Where a body names e outside comments.
Places(body, e) ==
  {p \in UNION {{i} \X DOMAIN body[i] : i \in DOMAIN body} :
     body[p[1]][p[2]] = e /\ body[p[1]][1] # Hash}

\* ParseList: the cache holds every tracker that the server's list named when
\* it was fetched, once, in the order of their first places, and nothing else.
CacheIsParsed ==
  list # <<>> =>
    \E b \in Bodies :
      /\ ToSet(list) = {t \in Trackers : Places(b, t) # {}}
      /\ \A m, n \in DOMAIN list : m < n => Before(Places(b, list[m]), Places(b, list[n]))

\* mergeOptions: a new torrent or magnet link gets the client's own trackers
\* first, then the cached ones, none twice, and leaves one out only when
\* MaxTrackers before it are in.  Without a cache, and for a plain address,
\* the client's option goes through as it is.
DownloadsGetTrackers ==
  LET sent == added.sent
      Given(t) == Places(<<Own(added.user), added.cached>>, t)
      wanted == {t \in Trackers : Given(t) # {}}
  IN IF added.cached = <<>>
       THEN sent = added.user
       ELSE /\ Len(sent) <= MaxTrackers
            /\ ToSet(sent) \subseteq wanted
            /\ \A m, n \in DOMAIN sent : m < n => Before(Given(sent[m]), Given(sent[n]))
            /\ \A t \in wanted \ ToSet(sent) :
                 /\ Len(sent) = MaxTrackers
                 /\ \A n \in DOMAIN sent : Before(Given(sent[n]), Given(t))

\* Run: after k failed cycles in a row it waits 2^(k-1) times the shortest
\* delay, up to the longest, and after a good one the whole interval.
BackOff ==
  pc = "wait" =>
    LET doubled == MinRetryDelay * 2 ^ (failures - 1)
    IN wait = IF failures = 0 THEN Interval
              ELSE IF doubled < MaxRetryDelay THEN doubled ELSE MaxRetryDelay

\* refresh: what the updater remembers as applied is what aria2 has, unless a
\* restart of aria2 or a call that was executed but not answered came since.
DaemonKnown == applied /\ ~behind => option = lastApplied

\* Source.Refresh: an empty, broken or unreachable list never takes the
\* trackers away that were cached before.
KeepsList == [][list # <<>> => list' # <<>>]_vars

\* While the server keeps one list, aria2 gets it in the end and keeps it,
\* unless it has changed behind the updater's back.
DaemonFollows ==
  \A b \in Bodies :
    Parsed[b] # <<>> /\ <>[](served = b /\ ~cancelled /\ ~behind)
      => <>[](list = Parsed[b] /\ option = list)

=============================================================================
