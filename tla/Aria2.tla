-------------------------------- MODULE Aria2 --------------------------------
(***************************************************************************)
(* The aria2 daemon, the task directories it downloads into and the hook   *)
(* scripts it starts.  The daemon is not in the repository; it is modelled *)
(* by what internal/aria2/client.go asks of it and what hooks/*.sh send.   *)
(* A magnet link is two downloads: the added one (root) fetches metadata,  *)
(* then the daemon starts the real one (child, its "followedBy").          *)
(***************************************************************************)
EXTENDS TaskStore

VARIABLES
  dl,     \* dl[<<t, g>>]: state of a download in the daemon
  dir,    \* dir[t]: the task's directory: absent, partial or complete
  hooks   \* hook scripts still trying to reach the gateway

aria2Vars == <<dl, dir, hooks>>

DownloadStates == {"none", "active", "complete", "stopped"}
Hooks == {"completed", "stopped"} \X Tasks \X Gids

Aria2Type ==
  /\ dl \in [Tasks \X Gids -> DownloadStates]
  /\ dir \in [Tasks -> {"absent", "partial", "complete"}]
  /\ hooks \subseteq Hooks

Aria2Init ==
  /\ dl = [d \in Tasks \X Gids |-> "none"]
  /\ dir = [t \in Tasks |-> "absent"]
  /\ hooks = {}

\* GetFollowedBy
Followed(t, g) == IF g = "root" /\ dl[<<t, "child">>] # "none" THEN {"child"} ELSE {}

\* A download whose files are metadata: isAria2MetadataFile holds of them.
OnlyMetadata(t, g) == g = "root" /\ t \in Magnets

\* aria2.forceRemove stops an active download, and the daemon then runs the
\* stop hook; any other download answers "GID not found".
Remove(t, g) ==
  IF dl[<<t, g>>] = "active"
    THEN /\ dl' = [dl EXCEPT ![<<t, g>>] = "stopped"]
         /\ hooks' = hooks \cup {<<"stopped", t, g>>}
    ELSE UNCHANGED <<dl, hooks>>

-----------------------------------------------------------------------------
\* The metadata of a magnet link is complete: the daemon starts the child.
MetadataCompletes(t) ==
  /\ t \in Magnets
  /\ dl[<<t, "root">>] = "active"
  /\ dl' = [dl EXCEPT ![<<t, "root">>] = "complete", ![<<t, "child">>] = "active"]
  /\ hooks' = hooks \cup {<<"completed", t, "root">>}
  /\ UNCHANGED <<dir, storeVars>>

\* The files of a download are complete.  A directory removed under a running
\* download may or may not be written again.
DownloadCompletes(t, g) ==
  /\ ~OnlyMetadata(t, g)
  /\ dl[<<t, g>>] = "active"
  /\ dl' = [dl EXCEPT ![<<t, g>>] = "complete"]
  /\ \/ dir' = [dir EXCEPT ![t] = "complete"]
     \/ dir[t] = "absent" /\ UNCHANGED dir
  /\ hooks' = hooks \cup {<<"completed", t, g>>}
  /\ UNCHANGED storeVars

\* A download ends without its files: an error, or a removal at the daemon.
DownloadStops(t, g) ==
  /\ dl[<<t, g>>] = "active"
  /\ Remove(t, g)
  /\ UNCHANGED <<dir, storeVars>>

\* A hook script exits: it had its answer, or curl used up its retries.
HookExits(h) ==
  /\ h \in hooks
  /\ hooks' = hooks \ {h}
  /\ UNCHANGED <<dl, dir, storeVars>>

Aria2Next ==
  \/ \E t \in Tasks :
       \/ MetadataCompletes(t)
       \/ \E g \in Gids : DownloadCompletes(t, g) \/ DownloadStops(t, g)
  \/ \E h \in hooks : HookExits(h)

-----------------------------------------------------------------------------
\* Mutant of ResolveFinalFiles: the status of the download is not asked for.
ResolveExistingFiles(t, g) ==
  LET last == IF OnlyMetadata(t, g) /\ dl[<<t, "child">>] # "none" THEN "child" ELSE g
  IN  {IF OnlyMetadata(t, last) THEN "notReady" ELSE "ready"} \X {last}

\* resolveFinalFiles(t, g): the outcomes it can have now, each with the GID it
\* ends at.  It follows metadata downloads to their child.  A selected file that
\* is missing is an error; one of another size than aria2 wants, or of a download
\* that is not complete, is not ready.
ResolveFinalFiles(t, g) ==
  LET last == IF OnlyMetadata(t, g) /\ dl[<<t, "child">>] # "none" THEN "child" ELSE g
      complete == dl[<<t, last>>] = "complete"
      kinds == IF OnlyMetadata(t, last) THEN {"notReady"}
               ELSE IF complete /\ dir[t] = "complete" THEN {"ready"}
               ELSE IF complete \/ dir[t] = "absent" THEN {"error"}
               ELSE {"notReady", "error"}
  IN  (kinds \X {last})
        \cup (IF "rpc" \in Faults THEN {"error"} \X {g, last} ELSE {})
=============================================================================
