----------------------------- MODULE FileTransfer -----------------------------
(***************************************************************************)
(* The files of one task, one by one: aria2 writes them while a hook has   *)
(* resolveFinalFiles look at them, the row keeps the list of final files,  *)
(* and the worker sends them with provider/openlist.go or rclone.go before *)
(* it may remove the directory.  Gateway treats all this as a directory    *)
(* that is complete or not and an upload that succeeds or fails.           *)
(***************************************************************************)
EXTENDS FiniteSets, Naturals

CONSTANTS
  Files,       \* the files of the task's directory
  Selected,    \* those aria2 lists as selected
  Metadata,    \* those isAria2MetadataFile holds of: .aria2, .torrent
  FileFaults   \* "network": an upload fails, at the server or on the way back;
               \* "disk": removals fail; "crash": the gateway restarts;
               \* "damage": a local file is lost or cut by somebody else

ASSUME FilesAssumption == Selected \subseteq Files /\ Metadata \subseteq Files

VARIABLES
  disk,      \* disk[f]: "absent", "short", "reserved" (its full length, allocated
             \* before its content) or "whole"
  hasDir,    \* the task's directory exists
  download,  \* the status aria2 reports: "active" or "complete"
  provider,  \* the provider of the destination
  step,      \* where the gateway is with the task
  complete,  \* what isCompleteDownload made of the status that was asked for
  todo,      \* files still to look at or to send
  finals,    \* FinalFiles of the row, {} before they are resolved
  sizes,     \* sizes[f]: what the walk of OpenList saw of f, or "absent"
  remote,    \* remote[f]: "none", "part", "hollow" (no content) or "whole"
  sent,      \* history: files that were whole at the destination at some time
  damaged    \* history: files that somebody else lost or cut

fileVars == <<disk, hasDir, download, provider, step, complete, todo, finals, sizes, remote, sent, damaged>>
aria2Side == <<download, provider, damaged>>

DiskStates == {"absent", "short", "reserved", "whole"}
Working == {"pending", "walk", "send", "remove", "removed"}

\* The files of one task, the request or worker that handles them, and history.
FilesTypeOK ==
  /\ disk \in [Files -> DiskStates] /\ sizes \in [Files -> DiskStates]
  /\ hasDir \in BOOLEAN /\ complete \in BOOLEAN
  /\ download \in {"active", "complete"}
  /\ provider \in {"openlist", "rclone"}
  /\ step \in Working \cup {"waiting", "stat", "completed", "failed"}
  /\ todo \subseteq Files /\ finals \subseteq Files
  /\ remote \in [Files -> {"none", "part", "hollow", "whole"}]
  /\ sent \subseteq Files /\ damaged \subseteq Files

FilesInit ==
  /\ disk = [f \in Files |-> "absent"] /\ sizes = disk
  /\ hasDir = TRUE /\ complete = FALSE
  /\ download = "active"
  /\ provider \in {"openlist", "rclone"}
  /\ step = "waiting"
  /\ todo = {} /\ finals = {}
  /\ remote = [f \in Files |-> "none"]
  /\ sent = {} /\ damaged = {}

-----------------------------------------------------------------------------
(* aria2 and the rest of the machine. *)

\* A file grows, in the order of its bytes or in the room allocated for it;
\* unselected files get the pieces they share with selected ones.
Write(f) ==
  /\ download = "active" /\ hasDir
  /\ \/ disk[f] = "absent" /\ disk' \in {[disk EXCEPT ![f] = s] : s \in {"short", "reserved"}}
     \/ disk[f] \in {"short", "reserved"} /\ disk' = [disk EXCEPT ![f] = "whole"]
  /\ UNCHANGED <<hasDir, download, provider, step, complete, todo, finals, sizes, remote, sent, damaged>>

\* The last selected file is complete; the .aria2 control file goes.
DownloadEnds ==
  /\ download = "active"
  /\ \A f \in Selected \ Metadata : disk[f] = "whole"
  /\ download' = "complete"
  /\ disk' = [f \in Files |-> IF f \in Metadata \ Selected THEN "absent" ELSE disk[f]]
  /\ UNCHANGED <<hasDir, provider, step, complete, todo, finals, sizes, remote, sent, damaged>>

Damage(f) ==
  /\ "damage" \in FileFaults /\ download = "complete"
  /\ disk[f] = "whole"
  /\ disk' \in {[disk EXCEPT ![f] = s] : s \in {"absent", "short"}}
  /\ damaged' = damaged \cup {f}
  /\ UNCHANGED <<hasDir, download, provider, step, complete, todo, finals, sizes, remote, sent>>

-----------------------------------------------------------------------------
(* HandleCompleted: resolveFinalFiles on the download of the files. *)

\* A hook of a task that is not queued, sent or completed: GetStatus and
\* GetFiles, in this order.
AskStatus ==
  /\ step \in {"waiting", "failed"}
  /\ step' = "stat"
  /\ complete' = (download = "complete")
  /\ todo' = Selected \ Metadata
  /\ UNCHANGED <<disk, hasDir, finals, sizes, remote, sent, aria2Side>>

\* finalFilePaths, file by file: one that is missing fails the task, one of
\* another length leaves it downloading.
StatFile(f) ==
  /\ step = "stat" /\ f \in todo
  /\ CASE disk[f] = "absent" -> todo' = {} /\ step' = "failed"
       [] disk[f] = "short" -> todo' = {} /\ step' = "waiting"
       [] OTHER -> todo' = todo \ {f} /\ UNCHANGED step
  /\ UNCHANGED <<disk, hasDir, complete, finals, sizes, remote, sent, aria2Side>>

\* Mutant of Resolve: files of the right length are taken for complete.
ResolveByLength ==
  /\ step = "stat" /\ todo = {}
  /\ finals' = Selected \ Metadata
  /\ step' = IF Selected \subseteq Metadata THEN "waiting" ELSE "pending"
  /\ UNCHANGED <<disk, hasDir, complete, todo, sizes, remote, sent, aria2Side>>

\* All files have their length: it counts when the download was complete.  The
\* list is stored, and the task queued, in one transaction.
Resolve ==
  LET ready == complete /\ ~(Selected \subseteq Metadata) IN
  /\ step = "stat" /\ todo = {}
  /\ finals' = IF ready THEN Selected \ Metadata ELSE finals
  /\ step' = IF ready THEN "pending" ELSE "waiting"
  /\ UNCHANGED <<disk, hasDir, complete, todo, sizes, remote, sent, aria2Side>>

-----------------------------------------------------------------------------
(* runTransfer. *)

\* A worker takes the task: cleanupDownloadMetadata removes what is metadata by
\* its name and not a final file, and fails when the directory is gone.
CleanMetadata ==
  /\ step = "pending"
  /\ \/ /\ hasDir
        /\ disk' = [f \in Files |-> IF f \in Metadata \ finals THEN "absent" ELSE disk[f]]
        /\ step' = "walk" /\ todo' = Files
     \/ /\ ~hasDir \/ "disk" \in FileFaults
        /\ step' = "failed" /\ todo' = {}
        /\ UNCHANGED disk
  /\ sizes' = [f \in Files |-> "absent"]
  /\ UNCHANGED <<hasDir, complete, finals, remote, sent, aria2Side>>

\* collectOpenListFiles, or the list file for rclone, which names all final files.
VisitFile(f) ==
  /\ step = "walk" /\ f \in todo
  /\ sizes' = [sizes EXCEPT ![f] = CASE f \notin finals -> "absent"
                                     [] f \in finals /\ provider = "openlist" -> disk[f]
                                     [] OTHER -> "whole"]
  /\ todo' = todo \ {f}
  /\ UNCHANGED <<disk, hasDir, step, complete, finals, remote, sent, aria2Side>>

StartSending ==
  /\ step = "walk" /\ todo = {}
  /\ step' = "send"
  /\ todo' = {f \in Files : sizes[f] # "absent"}
  /\ UNCHANGED <<disk, hasDir, complete, finals, sizes, remote, sent, aria2Side>>

\* What arrives when a file is sent as it is now.
Image == [absent |-> "none", short |-> "part", reserved |-> "hollow", whole |-> "whole"]

Arrives(f, image) ==
  /\ remote' = [remote EXCEPT ![f] = image]
  /\ sent' = IF image = "whole" THEN sent \cup {f} ELSE sent

\* Mutant of SendFile: a section that ends early is not an error.
SendUncounted(f) ==
  /\ step = "send" /\ f \in todo
  /\ disk[f] # "absent"
  /\ Arrives(f, Image[disk[f]])
  /\ todo' = todo \ {f}
  /\ UNCHANGED <<disk, hasDir, step, complete, finals, sizes, aria2Side>>

\* uploadFile sends as many bytes as the walk saw, and counts them; rclone copies
\* what there is.
SendFile(f) ==
  /\ step = "send" /\ f \in todo
  /\ disk[f] # "absent"
  /\ provider = "openlist" /\ sizes[f] # "short" => disk[f] # "short"
  /\ Arrives(f, IF provider = "openlist" /\ sizes[f] = "short" THEN "part" ELSE Image[disk[f]])
  /\ todo' = todo \ {f}
  /\ UNCHANGED <<disk, hasDir, step, complete, finals, sizes, aria2Side>>

\* rclone does not miss a listed file that is gone.
SkipFile(f) ==
  /\ step = "send" /\ f \in todo
  /\ provider = "rclone" /\ disk[f] = "absent"
  /\ todo' = todo \ {f}
  /\ UNCHANGED <<disk, hasDir, step, complete, finals, sizes, remote, sent, aria2Side>>

\* Mutant of SendFails: the other files are tried, and the error is forgotten.
SendFailsOn(f) ==
  /\ step = "send" /\ f \in todo
  /\ "network" \in FileFaults \/ disk[f] = "absent"
  /\ todo' = todo \ {f}
  /\ UNCHANGED <<disk, hasDir, step, complete, finals, sizes, remote, sent, aria2Side>>

\* The first error ends the transfer: the file is gone or too short, or the
\* server refuses it, or takes it and its answer is lost.
SendFails(f) ==
  /\ step = "send" /\ f \in todo
  /\ \/ "network" \in FileFaults
     \/ disk[f] = "absent"
     \/ provider = "openlist" /\ disk[f] = "short" /\ sizes[f] # "short"
  /\ \/ UNCHANGED <<remote, sent>>
     \/ disk[f] # "absent" /\ Arrives(f, "part")
     \/ disk[f] # "absent" /\ "network" \in FileFaults /\ Arrives(f, Image[disk[f]])
  /\ step' = "failed" /\ todo' = {}
  /\ UNCHANGED <<disk, hasDir, complete, finals, sizes, aria2Side>>

\* Mutant of AllSent: the directory goes while files are still being sent.
RemoveWhileSending ==
  /\ step = "send"
  /\ step' \in {"remove", "removed"}
  /\ UNCHANGED <<disk, hasDir, complete, todo, finals, sizes, remote, sent, aria2Side>>

\* Transfer returns nil; tasks without cleanup skip the removal.
AllSent ==
  /\ step = "send" /\ todo = {}
  /\ step' \in {"remove", "removed"}
  /\ UNCHANGED <<disk, hasDir, complete, todo, finals, sizes, remote, sent, aria2Side>>

\* removeDownloadIfPresent: os.RemoveAll ends half-way on an error.
RemoveDir ==
  /\ step = "remove"
  /\ \/ disk' = [f \in Files |-> "absent"] /\ hasDir' = FALSE /\ step' = "removed"
     \/ /\ "disk" \in FileFaults
        /\ \E gone \in SUBSET Files : disk' = [f \in Files |-> IF f \in gone THEN "absent" ELSE disk[f]]
        /\ step' = "failed" /\ UNCHANGED hasDir
  /\ UNCHANGED <<complete, todo, finals, sizes, remote, sent, aria2Side>>

Complete ==
  /\ step = "removed"
  /\ step' = "completed"
  /\ UNCHANGED <<disk, hasDir, complete, todo, finals, sizes, remote, sent, aria2Side>>

\* retryUpload needs final files and the directory.
RetryUpload ==
  /\ step \in {"waiting", "failed", "completed"}
  /\ finals # {} /\ hasDir
  /\ step' = "pending"
  /\ UNCHANGED <<disk, hasDir, complete, todo, finals, sizes, remote, sent, aria2Side>>

\* The process dies and comes back: a transfer starts again with the stored
\* list, and the file it was sending may be there in part.
Restart ==
  /\ "crash" \in FileFaults
  /\ step \in Working \ {"pending"}
  /\ step' = "pending" /\ todo' = {}
  /\ \/ UNCHANGED <<remote, sent>>
     \/ step = "send" /\ \E f \in todo : disk[f] # "absent" /\ Arrives(f, "part")
  /\ UNCHANGED <<disk, hasDir, complete, finals, sizes, aria2Side>>

\* A request is forgotten with the process.
Forget ==
  /\ "crash" \in FileFaults
  /\ step = "stat"
  /\ step' = "waiting" /\ todo' = {}
  /\ UNCHANGED <<disk, hasDir, complete, finals, sizes, remote, sent, aria2Side>>

FilesNext ==
  \/ \E f \in Files :
       \/ Write(f) \/ Damage(f) \/ StatFile(f)
       \/ VisitFile(f) \/ SendFile(f) \/ SkipFile(f) \/ SendFails(f)
  \/ DownloadEnds \/ AskStatus \/ Resolve \/ CleanMetadata \/ StartSending \/ AllSent
  \/ RemoveDir \/ Complete \/ RetryUpload \/ Restart \/ Forget

FilesSpec == FilesInit /\ [][FilesNext]_fileVars

-----------------------------------------------------------------------------
\* A final file stays whole in the task's directory until it has been at the
\* destination, whatever fails and restarts, unless somebody else damages it.
KeptUntilSent ==
  \A f \in finals \ damaged : disk[f] = "whole" \/ f \in sent

\* A completed task, one whose clean-up is over included, has all its final
\* files at the destination as aria2 wrote them, but for damaged ones.
CompletedIsRemote ==
  step \in {"removed", "completed"} =>
    \A f \in finals \ damaged : remote[f] = "whole"

\* Only final files are sent: no unselected file and no metadata.
OnlyFinalsSent == \A f \in Files : remote[f] # "none" => f \in finals

\* Room that aria2 has allocated and not filled is never sent for a file.
NothingHollow == \A f \in Files : remote[f] # "hollow"

\* A file that is cut after the walk has seen it fails the transfer to OpenList.
CutFilesFail ==
  [][step = "send" /\ step' \in {"remove", "removed"} /\ provider = "openlist" =>
       \A f \in Files : sizes[f] = "whole" => remote[f] = "whole"]_fileVars
=============================================================================
