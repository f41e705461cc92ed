------------------------------ MODULE PartProofs ------------------------------
(***************************************************************************)
(* Proofs about the four parts that share no state: the files of a         *)
(* transfer, the calls of a JSON-RPC request, the names of a batch request *)
(* and the pages of a list, for every set of files, calls, tasks and ids   *)
(* and without the bounds of the runs.                                     *)
(***************************************************************************)
EXTENDS FileTransfer, RpcProxy, BatchTasks, TaskListing, TLAPS, FiniteSetTheorems

-----------------------------------------------------------------------------
(* The files of a task.  The argument is one about a final file that       *)
(* nobody damages: from the end of the download on it is whole on disk, or *)
(* whole at the destination, so that whatever a walk or rclone does not    *)
(* find need not be sent again.                                            *)

\* What FinalFiles lists once it is resolved.
Wanted == Selected \ Metadata

\* The stored list is the wanted files of a complete download.
ListFits ==
  /\ finals = {} \/ finals = Wanted
  /\ step \in Working => finals = Wanted
  /\ finals # {} \/ complete => download = "complete"
  /\ step \in Working => download = "complete"

\* After the download a wanted file is whole, or has been delivered and removed,
\* or was damaged; never space that aria2 still has to fill.
DiskFits ==
  download = "complete" =>
    \A f \in Wanted :
      /\ disk[f] # "reserved"
      /\ f \in damaged \/ disk[f] = "whole" \/ (disk[f] = "absent" /\ remote[f] = "whole")

\* The walk sees final files as they are, and lists those that are not there
\* only if they need not be sent.
WalkFits ==
  step \in {"walk", "send"} =>
    /\ \A f \in Files \ finals : sizes[f] = "absent"
    /\ \A f \in finals \ damaged :
         /\ sizes[f] \in {"absent", "whole"}
         /\ sizes[f] = "absent" => (step = "walk" /\ f \in todo) \/ remote[f] = "whole"

\* A file that is done with is at the destination.
SendFits ==
  /\ step = "send" =>
       /\ todo \subseteq finals
       /\ \A f \in (finals \ damaged) \ todo : remote[f] = "whole"
       /\ provider = "openlist" => \A f \in Files \ todo : sizes[f] = "whole" => remote[f] = "whole"
  /\ step \in {"remove", "removed", "completed"} => \A f \in finals \ damaged : remote[f] = "whole"

\* What is at the destination came from the list, and was noted as sent.
RemoteFits ==
  /\ \A f \in Files : remote[f] = "whole" => f \in sent
  /\ OnlyFinalsSent
  /\ NothingHollow

FileInv == FilesTypeOK /\ ListFits /\ DiskFits /\ WalkFits /\ SendFits /\ RemoteFits

USE FilesAssumption DEF Wanted, Working, DiskStates

\* Nothing is downloaded, listed or sent at first.
LEMMA FileInvInit == FilesInit => FileInv
  BY DEF FilesInit, FileInv, FilesTypeOK, ListFits, DiskFits, WalkFits, SendFits, RemoteFits,
     OnlyFinalsSent, NothingHollow

\* Steps of aria2 and of the machine.
LEMMA OutsideKeeps ==
  ASSUME FileInv, \/ \E f \in Files : Write(f) \/ Damage(f)
                  \/ DownloadEnds
  PROVE  FileInv'
  <1>. USE DEF FileInv, FilesTypeOK, ListFits, DiskFits, WalkFits, SendFits, RemoteFits,
           OnlyFinalsSent, NothingHollow
  <1>1. ASSUME NEW f \in Files, Write(f) PROVE FileInv'
    <2>1. PICK s \in DiskStates : disk' = [disk EXCEPT ![f] = s]
      BY <1>1 DEF Write
    <2>. QED
      BY <1>1, <2>1 DEF Write
  <1>2. ASSUME NEW f \in Files, Damage(f) PROVE FileInv'
    <2>1. PICK s \in {"absent", "short"} : disk' = [disk EXCEPT ![f] = s]
      BY <1>2 DEF Damage
    <2>. QED
      BY <1>2, <2>1 DEF Damage
  <1>3. CASE DownloadEnds
    BY <1>3 DEF DownloadEnds
  <1>. QED
    BY <1>1, <1>2, <1>3

\* Steps of a hook.
LEMMA HookKeeps ==
  ASSUME FileInv, AskStatus \/ Resolve \/ Forget \/ \E f \in Files : StatFile(f)
  PROVE  FileInv'
  <1>. USE DEF FileInv, FilesTypeOK, ListFits, DiskFits, WalkFits, SendFits, RemoteFits,
           OnlyFinalsSent, NothingHollow, aria2Side
  <1>1. CASE AskStatus
    BY <1>1 DEF AskStatus
  <1>2. CASE Resolve
    BY <1>2 DEF Resolve
  <1>3. CASE Forget
    BY <1>3 DEF Forget
  <1>4. ASSUME NEW f \in Files, StatFile(f) PROVE FileInv'
    BY <1>4 DEF StatFile
  <1>. QED
    BY <1>1, <1>2, <1>3, <1>4

\* The walk.
LEMMA WalkKeeps ==
  ASSUME FileInv, CleanMetadata \/ StartSending \/ RetryUpload \/ \E f \in Files : VisitFile(f)
  PROVE  FileInv'
  <1>. USE DEF FileInv, FilesTypeOK, ListFits, DiskFits, WalkFits, SendFits, RemoteFits,
           OnlyFinalsSent, NothingHollow, aria2Side
  <1>1. CASE CleanMetadata
    BY <1>1 DEF CleanMetadata
  <1>2. CASE StartSending
    BY <1>2 DEF StartSending
  <1>3. CASE RetryUpload
    BY <1>3 DEF RetryUpload
  <1>4. ASSUME NEW f \in Files, VisitFile(f) PROVE FileInv'
    BY <1>4 DEF VisitFile
  <1>. QED
    BY <1>1, <1>2, <1>3, <1>4

\* What arrives is noted.
LEMMA ArrivesKeeps ==
  ASSUME FileInv, NEW f \in finals, NEW i \in {"none", "part", "whole"}, Arrives(f, i), finals' = finals
  PROVE  RemoteFits'
  BY DEF FileInv, FilesTypeOK, RemoteFits, OnlyFinalsSent, NothingHollow, Arrives

\* Sending.
LEMMA SendKeeps ==
  ASSUME FileInv, NEW f \in Files, SendFile(f) \/ SkipFile(f) \/ SendFails(f)
  PROVE  FileInv'
  <1>. USE DEF FileInv, FilesTypeOK, ListFits, DiskFits, WalkFits, SendFits, aria2Side
  <1>1. /\ step = "send" /\ f \in todo /\ f \in finals /\ f \in Wanted
        /\ download = "complete" /\ disk[f] # "reserved"
    BY DEF SendFile, SkipFile, SendFails
  <1>2. /\ disk[f] # "absent" => Image[disk[f]] \in {"part", "whole"}
        /\ Image[disk[f]] = "whole" <=> disk[f] = "whole"
    BY <1>1 DEF Image
  <1>3. CASE SendFile(f)
    <2>1. PICK i \in {"part", "whole"} :
            /\ Arrives(f, i)
            /\ f \notin damaged => i = "whole"
            /\ provider = "openlist" /\ sizes[f] = "whole" => i = "whole"
      BY <1>1, <1>2, <1>3 DEF SendFile
    <2>2. RemoteFits'
      BY <1>1, <1>3, <2>1, ArrivesKeeps DEF SendFile
    <2>. QED
      BY <1>1, <1>3, <2>1, <2>2 DEF SendFile, Arrives
  <1>4. CASE SkipFile(f)
    BY <1>1, <1>4 DEF SkipFile, RemoteFits, OnlyFinalsSent, NothingHollow
  <1>5. CASE SendFails(f)
    <2>1. CASE UNCHANGED <<remote, sent>>
      BY <1>1, <1>5, <2>1 DEF SendFails, RemoteFits, OnlyFinalsSent, NothingHollow
    <2>2. ASSUME NEW i \in {"part", "whole"}, Arrives(f, i), disk[f] # "absent" PROVE FileInv'
      <3>1. RemoteFits'
        BY <1>1, <1>5, <2>2, ArrivesKeeps DEF SendFails
      <3>. QED
        BY <1>1, <1>5, <2>2, <3>1 DEF SendFails, Arrives
    <2>. QED
      BY <1>2, <1>5, <2>1, <2>2 DEF SendFails
  <1>. QED
    BY <1>3, <1>4, <1>5

\* The end of a transfer, and a restart.
LEMMA EndKeeps ==
  ASSUME FileInv, AllSent \/ RemoveDir \/ Complete \/ Restart
  PROVE  FileInv'
  <1>. USE DEF FileInv, FilesTypeOK, ListFits, DiskFits, WalkFits, SendFits, aria2Side
  <1>1. CASE AllSent
    BY <1>1 DEF AllSent, RemoteFits, OnlyFinalsSent, NothingHollow
  <1>2. CASE RemoveDir
    <2>1. \A f \in Files : disk'[f] \in {"absent", disk[f]}
      BY <1>2 DEF RemoveDir
    <2>2. disk' \in [Files -> DiskStates]
      BY <1>2 DEF RemoveDir
    <2>. QED
      BY <1>2, <2>1, <2>2 DEF RemoveDir, RemoteFits, OnlyFinalsSent, NothingHollow
  <1>3. CASE Complete
    BY <1>3 DEF Complete, RemoteFits, OnlyFinalsSent, NothingHollow
  <1>4. CASE Restart
    <2>1. CASE UNCHANGED <<remote, sent>>
      BY <1>4, <2>1 DEF Restart, RemoteFits, OnlyFinalsSent, NothingHollow
    <2>2. ASSUME step = "send", NEW f \in todo, disk[f] # "absent", Arrives(f, "part") PROVE FileInv'
      <3>1. RemoteFits'
        BY <1>4, <2>2, ArrivesKeeps DEF Restart
      <3>. QED
        BY <1>4, <2>2, <3>1 DEF Restart, Arrives
    <2>. QED
      BY <1>4, <2>1, <2>2 DEF Restart
  <1>. QED
    BY <1>1, <1>2, <1>3, <1>4

\* Every step keeps the invariant.
LEMMA FileInvStep == FileInv /\ [FilesNext]_fileVars => FileInv'
  <1>1. FileInv /\ FilesNext => FileInv'
    BY OutsideKeeps, HookKeeps, WalkKeeps, SendKeeps, EndKeeps DEF FilesNext
  <1>2. FileInv /\ UNCHANGED fileVars => FileInv'
    BY DEF fileVars, FileInv, FilesTypeOK, ListFits, DiskFits, WalkFits, SendFits, RemoteFits,
       OnlyFinalsSent, NothingHollow
  <1>. QED
    BY <1>1, <1>2

\* The invariant holds throughout.
LEMMA FileInvAlways == FilesSpec => []FileInv
  BY FileInvInit, FileInvStep, PTL DEF FilesSpec

-----------------------------------------------------------------------------
\* No failure of a walk, an upload or a removal and no restart leaves a final
\* file neither whole in the task's directory nor at the destination.
THEOREM FinalsAreKept == FilesSpec => []KeptUntilSent
  <1>1. FileInv => KeptUntilSent
    BY DEF FileInv, ListFits, DiskFits, RemoteFits, KeptUntilSent, FilesTypeOK
  <1>. QED
    BY FileInvAlways, <1>1, PTL

\* However often a transfer was retried, interrupted or half cleaned up, a
\* completed task has every final file at the destination.
THEOREM CompletedHasAll == FilesSpec => []CompletedIsRemote
  <1>1. FileInv => CompletedIsRemote
    BY DEF FileInv, SendFits, CompletedIsRemote
  <1>. QED
    BY FileInvAlways, <1>1, PTL

\* The whitelist of openlist.go and the list file of rclone.go keep metadata and
\* unselected files from the destination.
THEOREM WhitelistHolds == FilesSpec => []OnlyFinalsSent
  <1>1. FileInv => OnlyFinalsSent
    BY DEF FileInv, RemoteFits
  <1>. QED
    BY FileInvAlways, <1>1, PTL

\* Preallocated room is not taken for a file, although its length is right.
THEOREM NoHollowUploads == FilesSpec => []NothingHollow
  <1>1. FileInv => NothingHollow
    BY DEF FileInv, RemoteFits
  <1>. QED
    BY FileInvAlways, <1>1, PTL

\* A file cut between the walk and its upload does not pass for uploaded.
THEOREM CutsAreNoticed == FilesSpec => CutFilesFail
  <1>1. FileInv /\ [FilesNext]_fileVars =>
          [step = "send" /\ step' \in {"remove", "removed"} /\ provider = "openlist" =>
             \A f \in Files : sizes[f] = "whole" => remote[f] = "whole"]_fileVars
    <2>. SUFFICES ASSUME FileInv, FilesNext, step = "send", step' \in {"remove", "removed"},
                         provider = "openlist"
                  PROVE  \A f \in Files : sizes[f] = "whole" => remote[f] = "whole"
      OBVIOUS
    <2>1. todo = {}
      BY DEF FilesNext, Write, Damage, StatFile, VisitFile, SendFile, SkipFile, SendFails, DownloadEnds,
         AskStatus, Resolve, CleanMetadata, StartSending, AllSent, RemoveDir, Complete, RetryUpload,
         Restart, Forget
    <2>. QED
      BY <2>1 DEF FileInv, SendFits
  <1>. QED
    BY FileInvAlways, <1>1, PTL DEF FilesSpec, CutFilesFail

HIDE FilesAssumption DEF Wanted, Working, DiskStates

-----------------------------------------------------------------------------
(* The calls of a JSON-RPC request.  Call after call, what was answered    *)
(* and what was done are the places of the calls before the next one that  *)
(* are due, in order; the request and the configuration do not change.     *)

Outcomes == {"result", "forwarded", "error"}
Tokens == {"none", "aria2"}
Responses == [of : Nat, kind : Outcomes]
Doings == [of : Nat, kind : {"create", "forward"}, token : Tokens]

RpcTypeOK ==
  /\ items \in Seq(Calls \cup {Broken})
  /\ at \in 1 .. Len(items) + 1
  /\ phase \in {"authorize", "decode", "calls", "replied"}
  /\ responses \in Seq(Responses)
  /\ done \in Seq(Doings)

\* The places that a sequence of answers or of doings is about, and their order.
PlacesOf(s) == {s[k].of : k \in DOMAIN s}
InOrder(s) == \A k, l \in DOMAIN s : k < l => s[k].of < s[l].of

Earlier == 1 .. at - 1
Due(i) == items[i].id /\ i \notin silent
CanDo(i) ==
  /\ items[i].wellFormed
  /\ IF items[i].managed THEN items[i].params = "good"
                         ELSE conf.endpoint /\ items[i].params # "noArray"

\* Before the calls nothing has happened; a body that is no call gets no turn.
TurnsFit ==
  /\ phase \in {"authorize", "decode"} => at = 1
  /\ phase = "calls" \/ at > 1 => Decodes
  /\ phase # "replied" => reply = NoReply
  /\ reply.status = 401 => at = 1

\* What has been answered and done so far.
AnswersFit ==
  /\ InOrder(responses) /\ PlacesOf(responses) \subseteq Earlier
  /\ \A i \in Earlier : i \in PlacesOf(responses) <=> Due(i)
DoingsFit ==
  /\ InOrder(done) /\ PlacesOf(done) \subseteq Earlier
  /\ client = "there" => \A i \in Earlier : i \in PlacesOf(done) <=> CanDo(i)
  /\ \A k \in DOMAIN done :
       done[k].kind = "forward" => done[k].token = IF conf.secret THEN "aria2" ELSE "none"

\* The reply is the answers.
ReplyFits ==
  Accepted =>
    /\ at = Len(items) + 1
    /\ reply = IF responses = <<>> THEN [status |-> 204, form |-> "none", of |-> <<>>]
               ELSE [status |-> 200, form |-> IF batch THEN "array" ELSE "object",
                     of |-> [k \in DOMAIN responses |-> responses[k].of]]

RpcInv ==
  RpcTypeOK /\ silent \subseteq Earlier /\ TurnsFit /\ AnswersFit /\ DoingsFit /\ ReplyFits

\* One more element at the end.
LEMMA Appended ==
  ASSUME NEW T, NEW s \in Seq(T), NEW e \in T
  PROVE  /\ Append(s, e) \in Seq(T)
         /\ DOMAIN s = 1 .. Len(s) /\ DOMAIN Append(s, e) = 1 .. Len(s) + 1 /\ Len(s) \in Nat
         /\ \A k \in 1 .. Len(s) : Append(s, e)[k] = s[k]
         /\ Append(s, e)[Len(s) + 1] = e
  OBVIOUS

\* One more place at the end.
LEMMA AppendPlace ==
  ASSUME NEW T, NEW s \in Seq(T), NEW e \in T, NEW n \in Nat, e.of = n,
         InOrder(s), PlacesOf(s) \subseteq 1 .. n - 1
  PROVE  /\ Append(s, e) \in Seq(T)
         /\ InOrder(Append(s, e))
         /\ PlacesOf(Append(s, e)) = PlacesOf(s) \cup {n}
  <1>0. \A k \in DOMAIN s : s[k].of \in 1 .. n - 1
    BY DEF PlacesOf
  <1>1. /\ Append(s, e) \in Seq(T)
        /\ DOMAIN Append(s, e) = DOMAIN s \cup {Len(s) + 1}
        /\ \A k \in DOMAIN s : Append(s, e)[k] = s[k] /\ s[k].of < n /\ k < Len(s) + 1
        /\ Append(s, e)[Len(s) + 1] = e
        /\ DOMAIN s \subseteq Nat /\ Len(s) \in Nat
    BY <1>0, Appended
  <1>2. InOrder(Append(s, e))
    BY <1>1 DEF InOrder
  <1>3. PlacesOf(Append(s, e)) = PlacesOf(s) \cup {n}
    BY <1>1 DEF PlacesOf
  <1>. QED
    BY <1>1, <1>2, <1>3

LEMMA RpcInvInit == RpcInit => RpcInv
  <1>. SUFFICES ASSUME RpcInit PROVE RpcInv
    OBVIOUS
  <1>1. PICK n \in 0 .. MaxCalls : items \in [1 .. n -> Calls \cup {Broken}]
    BY DEF RpcInit, Bodies
  <1>2. RpcTypeOK
    BY <1>1, CallsAssumption DEF RpcInit, RpcTypeOK
  <1>3. at = 1 /\ Earlier = {} /\ responses = <<>> /\ done = <<>> /\ silent = {}
    BY DEF RpcInit, Earlier
  <1>4. TurnsFit /\ ReplyFits
    BY <1>3 DEF RpcInit, TurnsFit, ReplyFits, Accepted, NoReply
  <1>5. AnswersFit /\ DoingsFit
    BY <1>3 DEF AnswersFit, DoingsFit, InOrder, PlacesOf
  <1>. QED
    BY <1>2, <1>3, <1>4, <1>5 DEF RpcInv

\* A call that has its turn: it is answered if it is due, and done if it can be.
Answers == (\E kind \in Outcomes : Answer(kind)) /\ silent' = silent
KeepsSilent == silent' = silent \cup {at} /\ UNCHANGED responses
Does == \E kind \in {"create", "forward"}, token \in Tokens :
          /\ Do(kind, token)
          /\ kind = "forward" => token = IF conf.secret THEN "aria2" ELSE "none"

LEMMA CallKeeps ==
  ASSUME RpcInv, More, NextCall, Answers \/ KeepsSilent, Does \/ UNCHANGED done,
         client = "there" => (done' = done <=> ~CanDo(at))
  PROVE  RpcInv'
  <1>. USE DEF RpcInv, RpcTypeOK
  <1>0. PICK n \in Nat : n = at
    OBVIOUS
  <1>1. /\ at' = n + 1 /\ n <= Len(items) /\ phase = "calls"
        /\ UNCHANGED <<given, phase, client, reply>>
        /\ Earlier = 1 .. n - 1 /\ Earlier' = Earlier \cup {n} /\ n \notin Earlier
    BY <1>0 DEF More, NextCall, Earlier, given
  <1>2. /\ responses' \in Seq(Responses) /\ AnswersFit' /\ silent' \subseteq Earlier'
    <2>1. /\ silent' \subseteq Earlier' /\ \A i \in Earlier : Due(i)' <=> Due(i)
      BY <1>0, <1>1 DEF Due, Answers, KeepsSilent, given
    <2>2. ASSUME responses' = responses, ~Due(n)' PROVE responses' \in Seq(Responses) /\ AnswersFit'
      <3>1. InOrder(responses)' /\ PlacesOf(responses)' = PlacesOf(responses)
        BY <2>2 DEF AnswersFit, InOrder, PlacesOf
      <3>. QED
        BY <1>0, <1>1, <2>1, <2>2, <3>1 DEF AnswersFit
    <2>3. KeepsSilent \/ (Answers /\ ~Current.id) => responses' = responses /\ ~Due(n)'
      BY <1>0, <1>1 DEF KeepsSilent, Answers, Answer, Current, Due, given
    <2>4. CASE Answers /\ Current.id
      <3>1. PICK kind \in Outcomes : responses' = Append(responses, [of |-> n, kind |-> kind])
        BY <1>0, <2>4 DEF Answers, Answer
      <3>2. [of |-> n, kind |-> kind] \in Responses
        BY <1>0, <1>1 DEF Responses
      <3>3. /\ responses' \in Seq(Responses) /\ InOrder(responses')
            /\ PlacesOf(responses') = PlacesOf(responses) \cup {n}
        BY <1>0, <1>1, <3>1, <3>2, AppendPlace DEF AnswersFit
      <3>4. Due(n)'
        BY <1>0, <1>1, <2>4 DEF Answers, Current, Due, given
      <3>5. InOrder(responses)' /\ PlacesOf(responses)' = PlacesOf(responses) \cup {n}
        BY <3>3 DEF InOrder, PlacesOf
      <3>. QED
        BY <1>0, <1>1, <2>1, <3>3, <3>4, <3>5 DEF AnswersFit
    <2>. QED
      BY <2>1, <2>2, <2>3, <2>4
  <1>3. done' \in Seq(Doings) /\ DoingsFit'
    <2>1. \A i \in Earlier' : CanDo(i)' <=> CanDo(i)
      BY <1>0, <1>1 DEF CanDo, given
    <2>2. CASE done' = done
      <3>1. InOrder(done)' /\ PlacesOf(done)' = PlacesOf(done)
        BY <2>2 DEF DoingsFit, InOrder, PlacesOf
      <3>. QED
        BY <1>0, <1>1, <2>1, <2>2, <3>1 DEF DoingsFit, given
    <2>3. CASE done' # done
      <3>1. PICK kind \in {"create", "forward"}, token \in Tokens :
              /\ done' = Append(done, [of |-> n, kind |-> kind, token |-> token])
              /\ kind = "forward" => token = IF conf.secret THEN "aria2" ELSE "none"
        BY <1>0, <2>3 DEF Does, Do
      <3>. DEFINE d == [of |-> n, kind |-> kind, token |-> token]
      <3>2. d \in Doings
        BY <1>0, <1>1 DEF Doings
      <3>3. /\ done' \in Seq(Doings) /\ InOrder(done')
            /\ PlacesOf(done') = PlacesOf(done) \cup {n}
        BY <1>0, <1>1, <3>1, <3>2, AppendPlace DEF DoingsFit
      <3>4. InOrder(done)' /\ PlacesOf(done)' = PlacesOf(done) \cup {n}
        BY <3>3 DEF InOrder, PlacesOf
      <3>5. \A k \in DOMAIN done' : (k \in DOMAIN done /\ done'[k] = done[k]) \/ done'[k] = d
        BY <3>1, <3>2, Appended
      <3>6. \A k \in DOMAIN done' :
              done'[k].kind = "forward" => done'[k].token = IF conf.secret THEN "aria2" ELSE "none"
        BY <3>1, <3>5 DEF DoingsFit
      <3>. QED
        BY <1>0, <1>1, <2>1, <2>3, <3>3, <3>4, <3>6 DEF DoingsFit, given
    <2>. QED
      BY <2>2, <2>3
  <1>4. TurnsFit' /\ ReplyFits' /\ RpcTypeOK'
    BY <1>0, <1>1, <1>2, <1>3 DEF TurnsFit, ReplyFits, Accepted, Decodes, given, NoReply
  <1>. QED
    BY <1>2, <1>3, <1>4

LEMMA RpcInvStep == RpcInv /\ [RpcNext]_rpcVars => RpcInv'
  <1>. SUFFICES ASSUME RpcInv, [RpcNext]_rpcVars PROVE RpcInv'
    OBVIOUS
  <1>1. ASSUME UNCHANGED <<given, at, responses, done, silent>>, RpcTypeOK', TurnsFit',
               ReplyFits', client' = client \/ client' = "gone"
        PROVE  RpcInv'
    BY <1>1 DEF RpcInv, AnswersFit, DoingsFit, InOrder, PlacesOf, Earlier, Due, CanDo, given
  <1>. USE DEF RpcInv, RpcTypeOK
  <1>2. CASE Authorize
    BY <1>1, <1>2 DEF Authorize, TurnsFit, ReplyFits, Accepted, NoReply, Decodes, given
  <1>3. CASE DecodeCalls
    BY <1>1, <1>3 DEF DecodeCalls, TurnsFit, ReplyFits, Accepted, NoReply, Decodes, given
  <1>4. CASE InvalidCall
    <2>1. Answers
      BY <1>4 DEF InvalidCall, Answers, Outcomes
    <2>. QED
      BY <1>4, <2>1, CallKeeps DEF InvalidCall, CanDo, Current
  <1>5. CASE ManagedCall
    <2>1. Does \/ UNCHANGED done
      BY <1>5 DEF ManagedCall, Does, Tokens
    <2>2. Answers
      BY <1>5 DEF ManagedCall, Answers, Outcomes
    <2>3. done' = done <=> ~CanDo(at)
      BY <1>5 DEF ManagedCall, CanDo, Current, Do
    <2>. QED
      BY <1>5, <2>1, <2>2, <2>3, CallKeeps DEF ManagedCall
  <1>6. CASE ForwardCall
    <2>1. Does \/ UNCHANGED done
      BY <1>6 DEF ForwardCall, Does, Rewritten, Tokens
    <2>2. Answers \/ KeepsSilent
      BY <1>6 DEF ForwardCall, Answers, KeepsSilent, Outcomes
    <2>3. client = "there" => (done' = done <=> ~CanDo(at))
      BY <1>6 DEF ForwardCall, CanForward, CanDo, Current, Do
    <2>. QED
      BY <1>6, <2>1, <2>2, <2>3, CallKeeps DEF ForwardCall
  <1>7. CASE WriteReply
    BY <1>1, <1>7 DEF WriteReply, TurnsFit, ReplyFits, Accepted, NoReply, Decodes, given
  <1>8. CASE ClientGoes
    BY <1>1, <1>8 DEF ClientGoes, TurnsFit, ReplyFits, Accepted, NoReply, Decodes, given
  <1>9. CASE UNCHANGED rpcVars
    BY <1>1, <1>9 DEF rpcVars, TurnsFit, ReplyFits, Accepted, NoReply, Decodes, given
  <1>. QED
    BY <1>2, <1>3, <1>4, <1>5, <1>6, <1>7, <1>8, <1>9 DEF RpcNext

\* However long a batch is, and whatever aria2 and the tasks answer: its reply
\* is one response for each call with an id, in the order of the calls, and
\* nothing else; a call is missing only when aria2 said nothing to it.
THEOREM RepliesMatch == RpcSpec => []RepliesMatchCalls
  <1>1. RpcInv => RepliesMatchCalls
    <2>. SUFFICES ASSUME RpcInv, Accepted PROVE RepliesMatchCalls
      BY DEF RepliesMatchCalls
    <2>1. Earlier = DOMAIN items
      BY DEF RpcInv, RpcTypeOK, ReplyFits, Earlier
    <2>2. {i \in DOMAIN items : Due(i)} = PlacesOf(responses)
      BY <2>1 DEF RpcInv, AnswersFit
    <2>3. CASE responses = <<>>
      BY <2>2, <2>3 DEF RpcInv, ReplyFits, RepliesMatchCalls, NamesInOrder, Ascending, PlacesOf, Due
    <2>4. CASE responses # <<>>
      <3>. DEFINE of == [k \in DOMAIN responses |-> responses[k].of]
      <3>1. reply.of = of /\ reply.form = (IF batch THEN "array" ELSE "object") /\ reply.status = 200
        BY <2>4 DEF RpcInv, ReplyFits
      <3>2. of # <<>>
        BY <2>4 DEF RpcInv, RpcTypeOK
      <3>3. Ascending(of) /\ {of[k] : k \in DOMAIN of} = PlacesOf(responses)
        BY DEF RpcInv, AnswersFit, InOrder, Ascending, PlacesOf
      <3>. QED
        BY <2>2, <3>1, <3>2, <3>3 DEF RepliesMatchCalls, NamesInOrder, Due
    <2>. QED
      BY <2>3, <2>4
  <1>. QED
    BY RpcInvInit, RpcInvStep, <1>1, PTL DEF RpcSpec

\* And what it asks for is done once each, in order, and with aria2's own secret.
THEOREM DoneOnceInOrder == RpcSpec => []DoneExactlyOnce
  <1>1. RpcInv => DoneExactlyOnce
    <2>. SUFFICES ASSUME RpcInv PROVE DoneExactlyOnce
      OBVIOUS
    <2>. DEFINE calls == [k \in DOMAIN done |-> done[k].of]
    <2>1. at = 1 \/ ~Decodes => done = <<>>
      <3>1. at = 1 \/ ~Decodes => Earlier = {}
        BY DEF RpcInv, RpcTypeOK, TurnsFit, Earlier
      <3>2. PlacesOf(done) = {} => DOMAIN done = {}
        BY DEF PlacesOf
      <3>3. done \in Seq(Doings) /\ PlacesOf(done) \subseteq Earlier
        BY DEF RpcInv, RpcTypeOK, DoingsFit
      <3>4. DOMAIN done = {} => done = <<>>
        BY <3>3
      <3>. QED
        BY <3>1, <3>2, <3>3, <3>4
    <2>2. Ascending(calls) /\ {calls[k] : k \in DOMAIN calls} = PlacesOf(done)
      BY DEF RpcInv, DoingsFit, InOrder, Ascending, PlacesOf
    <2>3. ASSUME Accepted, client = "there"
          PROVE  PlacesOf(done) = {i \in DOMAIN items : CanDo(i)}
      BY <2>3 DEF RpcInv, RpcTypeOK, ReplyFits, DoingsFit, Earlier
    <2>. QED
      BY <2>1, <2>2, <2>3 DEF RpcInv, TurnsFit, DoingsFit, DoneExactlyOnce, NamesInOrder, CanDo
  <1>. QED
    BY RpcInvInit, RpcInvStep, <1>1, PTL DEF RpcSpec

-----------------------------------------------------------------------------
(* The names of a batch request.  A name that was met is in one of the     *)
(* lists of the answer, once; other clients only make tasks go.            *)

\* What names of the request stand for tasks.
Nameable == IF operation = "deleteByGid" THEN Names ELSE TaskIds

BatchTypeOK ==
  /\ operation \in {"delete", "deleteByGid", "retryUpload", "retryFull"}
  /\ names \in Seq({Blank} \cup Nameable)
  /\ place \in 1 .. Len(names) + 1
  /\ rows \subseteq TaskIds \cup NewIds
  /\ good \in Seq(Nameable) /\ missing \in Seq(Nameable)
  /\ bad \in Seq({Blank} \cup Nameable)
  /\ answered => place = Len(names) + 1

\* How often a name is among those before the next one.
Count(f, n, x) == Cardinality({k \in 1 .. n : f[k] = x})
Met(x) == Count(names, place - 1, x)
ReportsOf(x) == Reports(good, x) + Reports(bad, x) + Reports(missing, x)

\* Each name that was met is reported once, and each blank.
ReportsFit ==
  /\ Blank \notin seen
  /\ \A x \in seen : \E k \in 1 .. place - 1 : names[k] = x
  /\ \A k \in 1 .. place - 1 : names[k] # Blank => names[k] \in seen
  /\ \A x \in Nameable : ReportsOf(x) = IF x \in seen THEN 1 ELSE 0
  /\ ReportsOf(Blank) = Met(Blank)

\* None of the GIDs of a list has a task.
NoneHas(gids) == \A k \in DOMAIN gids : NoTaskHas(gids[k])

\* What is reported gone stays gone.
GoneFit ==
  /\ \A k \in DOMAIN good : operation \in {"delete", "retryFull"} => good[k] \notin rows
  /\ operation = "deleteByGid" => NoneHas(good)
  /\ NoneHas(missing)

BatchInv == BatchTypeOK /\ ReportsFit /\ GoneFit

\* Counting in a list that grows, and in one that does not have the name.
LEMMA ReportsInList ==
  ASSUME NEW T, NEW s \in Seq(T), NEW y
  PROVE  /\ IsFiniteSet({k \in DOMAIN s : s[k] = y})
         /\ Reports(s, y) \in Nat
         /\ Reports(s, y) > 0 => \E k \in DOMAIN s : s[k] = y
         /\ (\A k \in DOMAIN s : s[k] # y) => Reports(s, y) = 0
  <1>. DEFINE At == {k \in DOMAIN s : s[k] = y}
  <1>1. IsFiniteSet(1 .. Len(s)) /\ At \subseteq 1 .. Len(s)
    BY FS_Interval
  <1>2. IsFiniteSet(At) /\ Cardinality(At) \in Nat
    BY <1>1, FS_Subset, FS_CardinalityType
  <1>3. At = {} => Cardinality(At) = 0
    BY FS_EmptySet
  <1>. QED
    BY <1>2, <1>3 DEF Reports

LEMMA CountNext ==
  ASSUME NEW f, NEW n \in Nat, NEW y
  PROVE  /\ Count(f, n, y) \in Nat
         /\ Count(f, n + 1, y) = Count(f, n, y) + (IF f[n + 1] = y THEN 1 ELSE 0)
  <1>. DEFINE At == {k \in 1 .. n : f[k] = y}
              After == {k \in 1 .. n + 1 : f[k] = y}
  <1>0. IsFiniteSet(1 .. n) /\ At \subseteq 1 .. n
    BY FS_Interval
  <1>1. IsFiniteSet(At) /\ Cardinality(At) \in Nat
    BY <1>0, FS_Subset, FS_CardinalityType
  <1>2. CASE f[n + 1] = y
    <2>1. After = At \cup {n + 1} /\ n + 1 \notin At
      BY <1>2
    <2>. QED
      BY <1>1, <1>2, <2>1, FS_AddElement DEF Count
  <1>3. CASE f[n + 1] # y
    <2>1. After = At
      BY <1>3
    <2>. QED
      BY <1>1, <1>3, <2>1 DEF Count
  <1>. QED
    BY <1>2, <1>3

LEMMA ReportsAppend ==
  ASSUME NEW T, NEW s \in Seq(T), NEW x \in T, NEW y
  PROVE  /\ Append(s, x) \in Seq(T)
         /\ Reports(Append(s, x), y) = Reports(s, y) + (IF x = y THEN 1 ELSE 0)
  <1>. DEFINE a == Append(s, x)
  <1>1. /\ DOMAIN s = 1 .. Len(s) /\ DOMAIN a = 1 .. Len(s) + 1 /\ Len(s) \in Nat
        /\ \A k \in 1 .. Len(s) : a[k] = s[k]
        /\ a[Len(s) + 1] = x
    BY Appended
  <1>2. Count(a, Len(s), y) = Count(s, Len(s), y)
    <2>1. {k \in 1 .. Len(s) : a[k] = y} = {k \in 1 .. Len(s) : s[k] = y}
      BY <1>1
    <2>. QED
      BY <2>1, Zenon DEF Count
  <1>3. Reports(a, y) = Count(a, Len(s) + 1, y) /\ Reports(s, y) = Count(s, Len(s), y)
    BY <1>1, Zenon DEF Reports, Count
  <1>4. Count(a, Len(s) + 1, y) = Count(a, Len(s), y) + (IF a[Len(s) + 1] = y THEN 1 ELSE 0)
    BY <1>1, CountNext
  <1>. QED
    BY <1>1, <1>2, <1>3, <1>4

\* Turning to the next name: it has been met as often as it occurs.
LEMMA MetNext ==
  ASSUME BatchTypeOK, place <= Len(names), NextName, NEW y
  PROVE  /\ Met(y) \in Nat
         /\ Met(y)' = Met(y) + (IF Name = y THEN 1 ELSE 0)
  <1>1. place - 1 \in Nat /\ place' - 1 = (place - 1) + 1 /\ place = (place - 1) + 1 /\ names' = names
    BY DEF BatchTypeOK, NextName, asked
  <1>2. Met(y)' = Count(names, (place - 1) + 1, y)
    BY <1>1 DEF Met
  <1>. QED
    BY <1>1, <1>2, CountNext DEF Met, Name

\* A name that is met for the first time goes to one of the lists.
LEMMA NewIsReported ==
  ASSUME BatchTypeOK, ReportsFit, New, Meet, rows' \subseteq TaskIds \cup NewIds,
         Succeeds \/ Fails \/ (missing' = Append(missing, Name) /\ UNCHANGED <<good, bad>>)
  PROVE  BatchTypeOK' /\ ReportsFit'
  <1>. DEFINE x == Name
  <1>1. x \in Nameable /\ x # Blank /\ x \notin seen /\ Blank \notin Nameable
    BY BatchAssumption DEF New, Turn, Name, BatchTypeOK, Nameable
  <1>2. Nameable' = Nameable
    BY DEF Meet, NextName, asked, Nameable
  <1>3. /\ good \in Seq(Nameable) /\ missing \in Seq(Nameable) /\ bad \in Seq({Blank} \cup Nameable)
        /\ x \in {Blank} \cup Nameable
    BY <1>1 DEF BatchTypeOK
  <1>4. BatchTypeOK'
    <2>1. good' \in Seq(Nameable) /\ missing' \in Seq(Nameable) /\ bad' \in Seq({Blank} \cup Nameable)
      BY <1>1, <1>3, ReportsAppend DEF Succeeds, Fails
    <2>. QED
      BY <1>2, <2>1 DEF BatchTypeOK, New, Turn, Meet, NextName, asked
  <1>5. \A y : ReportsOf(y) \in Nat /\ ReportsOf(y)' = ReportsOf(y) + (IF x = y THEN 1 ELSE 0)
    <2>. SUFFICES ASSUME NEW y
                  PROVE  ReportsOf(y) \in Nat /\ ReportsOf(y)' = ReportsOf(y) + (IF x = y THEN 1 ELSE 0)
      OBVIOUS
    <2>1. Reports(good, y) \in Nat /\ Reports(bad, y) \in Nat /\ Reports(missing, y) \in Nat
      BY <1>3, ReportsInList
    <2>2. ReportsOf(y)' = Reports(good', y) + Reports(bad', y) + Reports(missing', y)
      BY DEF ReportsOf
    <2>3. /\ Reports(Append(good, x), y) = Reports(good, y) + (IF x = y THEN 1 ELSE 0)
          /\ Reports(Append(bad, x), y) = Reports(bad, y) + (IF x = y THEN 1 ELSE 0)
          /\ Reports(Append(missing, x), y) = Reports(missing, y) + (IF x = y THEN 1 ELSE 0)
      BY <1>1, <1>3, ReportsAppend
    <2>. DEFINE one == IF x = y THEN 1 ELSE 0
    <2>4. one \in Nat
      OBVIOUS
    <2>5. ReportsOf(y) = Reports(good, y) + Reports(bad, y) + Reports(missing, y)
      BY DEF ReportsOf
    <2>. HIDE DEF one
    <2>6. CASE Succeeds
      <3>1. Reports(good', y) = Reports(good, y) + one /\ bad' = bad /\ missing' = missing
        BY <2>3, <2>6 DEF Succeeds, one
      <3>. QED
        BY <2>1, <2>2, <2>4, <2>5, <3>1 DEF one
    <2>7. CASE Fails
      <3>1. Reports(bad', y) = Reports(bad, y) + one /\ good' = good /\ missing' = missing
        BY <2>3, <2>7 DEF Fails, one
      <3>. QED
        BY <2>1, <2>2, <2>4, <2>5, <3>1 DEF one
    <2>8. CASE missing' = Append(missing, Name) /\ UNCHANGED <<good, bad>>
      <3>1. Reports(missing', y) = Reports(missing, y) + one /\ good' = good /\ bad' = bad
        BY <2>3, <2>8 DEF one
      <3>. QED
        BY <2>1, <2>2, <2>4, <2>5, <3>1 DEF one
    <2>. QED
      BY <2>6, <2>7, <2>8
  <1>6. Met(Blank)' = Met(Blank)
    BY <1>1, MetNext DEF New, Turn, Meet, BatchTypeOK
  <1>7. names' = names /\ seen' = seen \cup {x} /\ place' = place + 1 /\ place \in 1 .. Len(names) /\ x = names[place]
    BY DEF Meet, NextName, asked, BatchTypeOK, New, Turn, Name
  <1>. HIDE DEF x
  <1>8. /\ \A z \in seen' : \E k \in 1 .. place' - 1 : names'[k] = z
        /\ \A k \in 1 .. place' - 1 : names'[k] # Blank => names'[k] \in seen'
    BY <1>7 DEF ReportsFit
  <1>9. ReportsOf(Blank)' = Met(Blank)'
    BY <1>1, <1>5, <1>6 DEF ReportsFit
  <1>10. \A y \in Nameable : ReportsOf(y)' = IF y \in seen' THEN 1 ELSE 0
    BY <1>1, <1>5, <1>7 DEF ReportsFit
  <1>11. Blank \notin seen'
    BY <1>1, <1>7 DEF ReportsFit
  <1>. QED
    BY <1>2, <1>4, <1>8, <1>9, <1>10, <1>11, Zenon DEF ReportsFit

\* Rows go, and one more GID is found to have none.
LEMMA NoneHasKept ==
  ASSUME NEW T, NEW s \in Seq(T), NEW x \in T, NEW next, NEW remaining, remaining \subseteq rows \cup NewIds,
         NoneHas(s),
         next = s \/ (next = Append(s, x) /\ \A t \in remaining \cap TaskIds : gidOf[t] # x)
  PROVE  \A k \in DOMAIN next, t \in remaining \cap TaskIds : gidOf[t] # next[k]
  <1>1. \A l \in DOMAIN s, t \in remaining \cap TaskIds : gidOf[t] # s[l]
    BY BatchAssumption DEF NoneHas, NoTaskHas
  <1>2. CASE next = s
    BY <1>1, <1>2
  <1>3. CASE next = Append(s, x) /\ \A t \in remaining \cap TaskIds : gidOf[t] # x
    <2>1. /\ DOMAIN s = 1 .. Len(s) /\ DOMAIN next = 1 .. Len(s) + 1 /\ Len(s) \in Nat
          /\ \A l \in 1 .. Len(s) : next[l] = s[l]
          /\ next[Len(s) + 1] = x
      BY <1>3, Appended
    <2>2. \A k \in DOMAIN next : next[k] = x \/ \E l \in DOMAIN s : next[k] = s[l]
      BY <2>1
    <2>. QED
      BY <1>1, <1>3, <2>2, Zenon
  <1>. QED
    BY <1>2, <1>3

\* What is gone stays gone, and full retries bring ids that no name stands for.
LEMMA GoneKept ==
  ASSUME BatchTypeOK, GoneFit, UNCHANGED <<operation, gidOf>>, rows' \subseteq rows \cup NewIds,
         NEW x \in Nameable,
         \/ good' = good
         \/ /\ good' = Append(good, x)
            /\ operation \in {"delete", "retryFull"} => x \notin rows'
            /\ operation = "deleteByGid" => \A t \in rows' \cap TaskIds : gidOf'[t] # x,
         missing' = missing \/ (missing' = Append(missing, x) /\ \A t \in rows' \cap TaskIds : gidOf'[t] # x)
  PROVE  GoneFit'
  <1>1. ASSUME operation \in {"delete", "retryFull"}, NEW k \in DOMAIN good' PROVE good'[k] \notin rows'
    <2>1. good \in Seq(TaskIds) /\ x \in TaskIds
      BY <1>1 DEF BatchTypeOK, Nameable
    <2>2. \A l \in DOMAIN good : good[l] \notin rows'
      BY <1>1, <2>1, BatchAssumption DEF GoneFit
    <2>3. CASE good' = good
      BY <1>1, <2>2, <2>3
    <2>4. CASE good' = Append(good, x) /\ x \notin rows'
      <3>1. /\ DOMAIN good = 1 .. Len(good) /\ DOMAIN good' = 1 .. Len(good) + 1 /\ Len(good) \in Nat
            /\ \A l \in 1 .. Len(good) : good'[l] = good[l]
            /\ good'[Len(good) + 1] = x
        BY <2>1, <2>4, Appended
      <3>2. k \in 1 .. Len(good) \/ k = Len(good) + 1
        BY <3>1
      <3>3. \A l \in 1 .. Len(good) : good'[l] \notin rows'
        BY <2>2, <3>1
      <3>. QED
        BY <2>4, <3>1, <3>2, <3>3, Zenon
    <2>. QED
      BY <1>1, <2>3, <2>4
  <1>2. good \in Seq(Nameable) /\ missing \in Seq(Nameable)
    BY DEF BatchTypeOK
  <1>3. operation = "deleteByGid" => \A k \in DOMAIN good', t \in rows' \cap TaskIds : gidOf[t] # good'[k]
    <2>. HAVE operation = "deleteByGid"
    <2>1. good' = good \/ (good' = Append(good, x) /\ \A t \in rows' \cap TaskIds : gidOf[t] # x)
      OBVIOUS
    <2>. QED
      BY <1>2, <2>1, NoneHasKept DEF GoneFit
  <1>4. \A k \in DOMAIN missing', t \in rows' \cap TaskIds : gidOf[t] # missing'[k]
    <2>1. missing' = missing \/ (missing' = Append(missing, x) /\ \A t \in rows' \cap TaskIds : gidOf[t] # x)
      OBVIOUS
    <2>. QED
      BY <1>2, <2>1, NoneHasKept DEF GoneFit
  <1>. QED
    BY <1>1, <1>3, <1>4 DEF GoneFit, NoneHas, NoTaskHas

LEMMA BatchInvInit == BatchInit => BatchInv
  <1>. SUFFICES ASSUME BatchInit PROVE BatchInv
    OBVIOUS
  <1>. USE DEF BatchInit
  <1>1. names \in Seq({Blank} \cup Nameable)
    <2>1. PICK n \in 1 .. MaxNames : names \in [1 .. n -> {Blank} \cup Nameable]
      BY DEF Nameable
    <2>. QED
      BY <2>1
  <1>2. BatchTypeOK
    BY <1>1 DEF BatchTypeOK
  <1>3. \A y : Reports(<<>>, y) = 0
    <2>1. \A y : {k \in DOMAIN <<>> : <<>>[k] = y} = {}
      OBVIOUS
    <2>. QED
      BY <2>1, FS_EmptySet, Zenon DEF Reports
  <1>4. 1 .. place - 1 = {}
    OBVIOUS
  <1>5. \A y : Met(y) = 0
    <2>1. \A y : {k \in {} : names[k] = y} = {}
      OBVIOUS
    <2>. QED
      BY <1>4, <2>1, FS_EmptySet DEF Met, Count
  <1>6. \A y : ReportsOf(y) = 0
    BY <1>3 DEF ReportsOf
  <1>7. ReportsFit
    BY <1>4, <1>5, <1>6 DEF ReportsFit
  <1>8. GoneFit
    BY DEF GoneFit, NoneHas
  <1>. QED
    BY <1>2, <1>7, <1>8 DEF BatchInv

LEMMA BatchInvStep == BatchInv /\ [BatchNext]_batchVars => BatchInv'
  <1>. SUFFICES ASSUME BatchInv, [BatchNext]_batchVars PROVE BatchInv'
    OBVIOUS
  <1>. USE DEF BatchInv
  <1>1. ASSUME UNCHANGED <<asked, place, seen, good, bad, missing>>, rows' \subseteq rows, BatchTypeOK'
        PROVE  BatchInv'
    <2>1. ReportsFit'
      BY <1>1 DEF ReportsFit, ReportsOf, Met, Nameable, asked
    <2>2. GoneFit'
      BY <1>1 DEF GoneFit, NoneHas, NoTaskHas, asked
    <2>. QED
      BY <1>1, <2>1, <2>2
  <1>2. ASSUME New PROVE Name \in Nameable
    BY <1>2 DEF New, Turn, Name, BatchTypeOK
  <1>3. CASE BlankName
    <2>. USE <1>3 DEF BlankName
    <2>1. bad \in Seq({Blank} \cup Nameable) /\ Blank \notin Nameable /\ Name = Blank /\ place \in 1 .. Len(names)
      BY BatchAssumption DEF BatchTypeOK, Nameable, Turn
    <2>2. BatchTypeOK'
      BY <2>1, ReportsAppend DEF BatchTypeOK, NextName, asked, Nameable, Turn
    <2>3. \A y : Reports(bad', y) = Reports(bad, y) + (IF Blank = y THEN 1 ELSE 0)
      BY <2>1, ReportsAppend
    <2>4. \A y : Reports(good, y) \in Nat /\ Reports(bad, y) \in Nat /\ Reports(missing, y) \in Nat
      BY ReportsInList DEF BatchTypeOK
    <2>5. \A y : ReportsOf(y)' = Reports(good, y) + Reports(bad', y) + Reports(missing, y)
      BY DEF ReportsOf
    <2>6. \A y \in Nameable : ReportsOf(y)' = ReportsOf(y)
      BY <2>1, <2>3, <2>4, <2>5 DEF ReportsOf
    <2>7. ReportsOf(Blank)' = ReportsOf(Blank) + 1
      BY <2>3, <2>4, <2>5 DEF ReportsOf
    <2>8. Met(Blank)' = Met(Blank) + 1
      BY <2>1, MetNext
    <2>9. names' = names /\ seen' = seen /\ place' = place + 1 /\ names[place] = Blank /\ Nameable' = Nameable
      BY <2>1 DEF NextName, asked, Name, Nameable
    <2>10. /\ \A z \in seen' : \E k \in 1 .. place' - 1 : names'[k] = z
           /\ \A k \in 1 .. place' - 1 : names'[k] # Blank => names'[k] \in seen'
      BY <2>1, <2>9 DEF ReportsFit
    <2>11. ReportsFit'
      BY <2>6, <2>7, <2>8, <2>9, <2>10 DEF ReportsFit
    <2>12. GoneFit'
      BY DEF GoneFit, NoneHas, NoTaskHas, NextName, asked
    <2>. QED
      BY <2>2, <2>11, <2>12
  <1>4. CASE RepeatedName
    <2>. USE <1>4 DEF RepeatedName
    <2>1. place \in 1 .. Len(names) /\ BatchTypeOK'
      BY DEF BatchTypeOK, NextName, asked, Nameable, Turn
    <2>2. Name # Blank
      BY DEF ReportsFit
    <2>3. Met(Blank)' = Met(Blank)
      BY <2>1, <2>2, MetNext
    <2>4. \A y : ReportsOf(y)' = ReportsOf(y)
      BY DEF ReportsOf
    <2>5. names' = names /\ seen' = seen /\ place' = place + 1 /\ names[place] \in seen /\ Nameable' = Nameable
      BY DEF NextName, asked, Name, Nameable
    <2>6. /\ \A z \in seen' : \E l \in 1 .. place' - 1 : names'[l] = z
          /\ \A l \in 1 .. place' - 1 : names'[l] # Blank => names'[l] \in seen'
      BY <2>1, <2>5 DEF ReportsFit
    <2>7. ReportsFit'
      BY <2>3, <2>4, <2>5, <2>6 DEF ReportsFit
    <2>8. GoneFit'
      BY DEF GoneFit, NoneHas, NoTaskHas, NextName, asked
    <2>. QED
      BY <2>1, <2>7, <2>8
  <1>5. CASE NotFound
    <2>. USE <1>5 DEF NotFound
    <2>1. BatchTypeOK' /\ ReportsFit'
      BY NewIsReported DEF BatchTypeOK, Fails
    <2>2. UNCHANGED <<rows, operation, gidOf, good>>
      BY DEF Meet, NextName, asked, Fails
    <2>3. missing' = missing \/ (missing' = Append(missing, Name) /\ \A t \in rows' \cap TaskIds : gidOf'[t] # Name)
      BY <2>2 DEF Named, Fails
    <2>4. GoneFit'
      BY <1>2, <2>2, <2>3, GoneKept
    <2>. QED
      BY <2>1, <2>4
  <1>6. CASE Delete
    <2>. USE <1>6 DEF Delete
    <2>1. BatchTypeOK' /\ ReportsFit'
      BY NewIsReported DEF BatchTypeOK
    <2>2. rows' \subseteq rows \cup NewIds /\ UNCHANGED <<operation, gidOf>>
      BY DEF Meet, NextName, asked
    <2>3. missing' = missing \/ (missing' = Append(missing, Name) /\ \A t \in rows' \cap TaskIds : gidOf'[t] # Name)
      BY <2>2 DEF Named, Fails, Succeeds
    <2>4. good' = good \/ /\ good' = Append(good, Name)
                          /\ operation \in {"delete", "retryFull"} => Name \notin rows'
                          /\ operation = "deleteByGid" => \A t \in rows' \cap TaskIds : gidOf'[t] # Name
      BY <2>2 DEF Named, Fails, Succeeds
    <2>5. GoneFit'
      BY <1>2, <2>2, <2>3, <2>4, GoneKept
    <2>. QED
      BY <2>1, <2>5
  <1>7. CASE Retry
    <2>. USE <1>7 DEF Retry
    <2>1. BatchTypeOK' /\ ReportsFit'
      BY NewIsReported DEF BatchTypeOK
    <2>2. missing' = missing
      BY DEF Fails, Succeeds
    <2>3. good' = good \/ /\ good' = Append(good, Name)
                          /\ operation \in {"delete", "retryFull"} => Name \notin rows'
                          /\ operation = "deleteByGid" => \A t \in rows' \cap TaskIds : gidOf'[t] # Name
      BY <1>2, BatchAssumption DEF Named, Fails, Succeeds, Nameable
    <2>4. rows' \subseteq rows \cup NewIds /\ UNCHANGED <<operation, gidOf>>
      BY DEF Meet, NextName, asked
    <2>5. GoneFit'
      BY <1>2, <2>2, <2>3, <2>4, GoneKept
    <2>. QED
      BY <2>1, <2>5
  <1>8. CASE WriteAnswer
    BY <1>1, <1>8 DEF WriteAnswer, BatchTypeOK, Nameable, asked
  <1>9. ASSUME NEW t \in TaskIds, OtherDelete(t) PROVE BatchInv'
    BY <1>1, <1>9 DEF OtherDelete, BatchTypeOK, Nameable, asked
  <1>10. CASE UNCHANGED batchVars
    BY <1>1, <1>10 DEF batchVars, BatchTypeOK, Nameable, asked
  <1>. QED
    BY <1>3, <1>4, <1>5, <1>6, <1>7, <1>8, <1>9, <1>10 DEF BatchNext

\* However many names a request has, however often each, and whatever other
\* clients delete meanwhile: each name is in one list of the answer, once.
THEOREM NamesReportedOnce == BatchSpec => []ReportedOnce
  <1>1. BatchInv => ReportedOnce
    <2>. SUFFICES ASSUME BatchInv, answered, NEW j \in DOMAIN names
                  PROVE  ReportsOf(names[j]) = IF names[j] = Blank THEN Reports(names, Blank) ELSE 1
      BY Zenon DEF ReportedOnce, ReportsOf
    <2>. USE DEF BatchInv
    <2>1. DOMAIN names = 1 .. place - 1 /\ names[j] \in {Blank} \cup Nameable
      BY DEF BatchTypeOK
    <2>2. Met(Blank) = Reports(names, Blank)
      BY <2>1, Zenon DEF Met, Count, Reports
    <2>. QED
      BY <2>1, <2>2 DEF ReportsFit
  <1>. QED
    BY BatchInvInit, BatchInvStep, <1>1, PTL DEF BatchSpec

\* And the lists are true when the answer is written, and stay so: what is
\* reported deleted, by its id or its GID, retried from the start, or missing is
\* not there.
THEOREM ReportsHold == BatchSpec => []ReportsAreTrue
  <1>1. BatchInv => ReportsAreTrue
    <2>. SUFFICES ASSUME BatchInv PROVE ReportsAreTrue
      OBVIOUS
    <2>1. \A y : Reports(good, y) > 0 => \E k \in DOMAIN good : good[k] = y
      BY ReportsInList DEF BatchInv, BatchTypeOK
    <2>2. \A y : Reports(missing, y) > 0 => \E k \in DOMAIN missing : missing[k] = y
      BY ReportsInList DEF BatchInv, BatchTypeOK
    <2>. QED
      BY <2>1, <2>2 DEF BatchInv, GoneFit, NoneHas, ReportsAreTrue
  <1>. QED
    BY BatchInvInit, BatchInvStep, <1>1, PTL DEF BatchSpec

-----------------------------------------------------------------------------
(* The pages of a list.  The place of a task in the order is the number of *)
(* tasks before it: others that enter push it back, others that leave pull *)
(* it forward, and the offset of the client is between what it has and     *)
(* what it still gets.                                                     *)

ListingTypeOK ==
  /\ time \in 0 .. LastTime
  /\ created \in [Ids -> 0 .. NotYet]
  /\ matching \subseteq Ids /\ IsFiniteSet(matching)
  /\ \A t \in matching : created[t] # NotYet
  /\ paging \in {"idle", "pages", "over"}
  /\ limit \in Nat /\ offset \in Nat
  /\ listed \in Seq(Ids) /\ page \in Seq(Ids)
  /\ paging = "idle" => listed = <<>> /\ offset = 0

PageFits == SecondsDescend /\ \A k \in DOMAIN page : created[page[k]] # NotYet

Ahead(S, t) == {u \in S : Before(u, t)}
Rank(t) == Cardinality(Ahead(matching, t))

\* What is old was listed or is still to come; what was listed is behind the offset.
OldFits ==
  paging = "pages" /\ ~left =>
    \A t \in old : t \in matching /\ (t \in ToSet(listed) \/ offset <= Rank(t))
ListedFits ==
  paging = "pages" /\ ~entered =>
    /\ IsInjective(listed)
    /\ \A t \in ToSet(listed) \cap matching : Rank(t) < offset

ListingInv == ListingTypeOK /\ PageFits /\ OldFits /\ ListedFits /\ PagesComplete

\* What formatTaskTime writes of the four quarters of a second.
LEMMA TextShape ==
  ASSUME NEW n \in Nat
  PROVE  /\ n \div 4 \in Nat /\ n % 4 \in 0 .. 3
         /\ n % 4 = 0 => Text(n) = <<n \div 4, 3>>
         /\ n % 4 = 1 => Text(n) = <<n \div 4, 0, 1, 2, 3>>
         /\ n % 4 = 2 => Text(n) = <<n \div 4, 0, 2, 3>>
         /\ n % 4 = 3 => Text(n) = <<n \div 4, 0, 2, 2, 3>>
  <1>1. n \div 4 \in Nat /\ n % 4 \in 0 .. 3
    OBVIOUS
  <1>2. /\ n % 4 = 0 => n % 2 = 0
        /\ n % 4 = 1 => n % 2 = 1 /\ (n % 4) \div 2 = 0
        /\ n % 4 = 2 => n % 2 = 0 /\ (n % 4) \div 2 = 1
        /\ n % 4 = 3 => n % 2 = 1 /\ (n % 4) \div 2 = 1
    OBVIOUS
  <1>. USE DEF Text, Point, Digit, Zulu
  <1>3. ASSUME n % 4 = 0 PROVE Text(n) = <<n \div 4, 3>>
    BY <1>3, Zenon
  <1>4. ASSUME n % 4 = 1 PROVE Text(n) = <<n \div 4, 0, 1, 2, 3>>
    <2>1. Text(n) = <<n \div 4, 0, 1 + 0, 1 + 1, 3>>
      BY <1>2, <1>4, n % 4 # 0, n % 2 # 0, Zenon
    <2>. QED
      BY <2>1
  <1>5. ASSUME n % 4 = 2 PROVE Text(n) = <<n \div 4, 0, 2, 3>>
    <2>1. Text(n) = <<n \div 4, 0, 1 + 1, 3>>
      BY <1>2, <1>5, n % 4 # 0, Zenon
    <2>. QED
      BY <2>1
  <1>6. ASSUME n % 4 = 3 PROVE Text(n) = <<n \div 4, 0, 2, 2, 3>>
    <2>1. Text(n) = <<n \div 4, 0, 1 + 1, 1 + 1, 3>>
      BY <1>2, <1>6, n % 4 # 0, n % 2 # 0, Zenon
    <2>. QED
      BY <2>1
  <1>. QED
    BY <1>1, <1>3, <1>4, <1>5, <1>6, Zenon

\* The seconds are compared first.
LEMMA SecondsFirst ==
  ASSUME NEW a \in Nat, NEW b \in Nat, a \div 4 < b \div 4
  PROVE  TextBelow(Text(a), Text(b))
  <1>1. 1 \in DOMAIN Text(a) /\ Text(a)[1] = a \div 4
    BY TextShape
  <1>2. 1 \in DOMAIN Text(b) /\ Text(b)[1] = b \div 4
    BY TextShape
  <1>. QED
    BY <1>1, <1>2 DEF TextBelow

\* Two times within a second have texts that differ at a character of both.
LEMMA TextsDiffer ==
  ASSUME NEW a \in Nat, NEW b \in Nat, a # b
  PROVE  TextBelow(Text(a), Text(b)) \/ TextBelow(Text(b), Text(a))
  <1>1. CASE a \div 4 # b \div 4
    BY <1>1, SecondsFirst, TextShape
  <1>2. CASE a \div 4 = b \div 4
    <2>. DEFINE q == a \div 4
    <2>1. a % 4 # b % 4 /\ q \in Nat
      BY <1>2
    <2>2. /\ TextBelow(<<q, 0, 1, 2, 3>>, <<q, 3>>) /\ TextBelow(<<q, 0, 2, 3>>, <<q, 3>>)
          /\ TextBelow(<<q, 0, 2, 2, 3>>, <<q, 3>>)
      BY <2>1 DEF TextBelow
    <2>3. /\ TextBelow(<<q, 0, 1, 2, 3>>, <<q, 0, 2, 3>>)
          /\ TextBelow(<<q, 0, 1, 2, 3>>, <<q, 0, 2, 2, 3>>)
      BY <2>1 DEF TextBelow
    <2>4. TextBelow(<<q, 0, 2, 2, 3>>, <<q, 0, 2, 3>>)
      BY <2>1 DEF TextBelow
    <2>. QED
      BY <1>2, <2>1, <2>2, <2>3, <2>4, TextShape
  <1>. QED
    BY <1>1, <1>2

LEMMA NotBelowItself ==
  ASSUME NEW n \in Nat
  PROVE  ~TextBelow(Text(n), Text(n))
  <1>1. \A k \in DOMAIN Text(n) : Text(n)[k] \in Nat
    BY TextShape
  <1>. QED
    BY <1>1 DEF TextBelow

\* So one of two tasks is before the other one, and none before itself.
LEMMA BeforeIsTotal ==
  ASSUME ListingTypeOK, NEW t \in matching, NEW u \in matching
  PROVE  ~Before(t, t) /\ (t # u => Before(t, u) \/ Before(u, t))
  <1>1. t \in Nat /\ u \in Nat /\ created[t] \in Nat /\ created[u] \in Nat
    BY ListingAssumption DEF ListingTypeOK, NotYet
  <1>. QED
    BY <1>1, TextsDiffer, NotBelowItself DEF Before

\* In what SQLite gives, each task stands behind as many as are before it.
LEMMA OrdersRank ==
  ASSUME ListingTypeOK, NEW s \in Orders
  PROVE  /\ s \in Seq(matching) /\ DOMAIN s = 1 .. Len(s) /\ Len(s) \in Nat
         /\ \A j, k \in 1 .. Len(s) : j # k => s[j] # s[k]
         /\ \A k \in 1 .. Len(s) : Rank(s[k]) = k - 1
         /\ \A t \in matching : \E k \in 1 .. Len(s) : s[k] = t
  <1>. DEFINE n == Cardinality(matching)
  <1>1. n \in Nat
    BY FS_CardinalityType DEF ListingTypeOK
  <1>2. s \in [1 .. n -> matching] /\ \A j, k \in 1 .. n : j # k => s[j] # s[k]
    BY DEF Orders, SetToSeqs
  <1>3. \A k, l \in 1 .. n : k < l => ~Before(s[l], s[k])
    BY <1>2 DEF Orders
  <1>. HIDE DEF n
  <1>4. s \in Seq(matching) /\ DOMAIN s = 1 .. Len(s) /\ Len(s) = n
    BY <1>1, <1>2
  <1>5. s \in Surjection(1 .. n, matching)
    <2>1. s \in Injection(1 .. n, matching)
      BY <1>2 DEF Injection, IsInjective
    <2>2. Cardinality(1 .. n) = Cardinality(matching)
      BY <1>1, FS_Interval DEF n
    <2>. QED
      BY <2>1, <2>2, FS_Injection DEF ListingTypeOK
  <1>6. \A t \in matching : \E k \in 1 .. n : s[k] = t
    BY <1>5 DEF Surjection
  <1>7. ASSUME NEW k \in 1 .. n PROVE Rank(s[k]) = k - 1
    <2>. DEFINE f == [j \in 1 .. k - 1 |-> s[j]]
    <2>0. k - 1 \in Nat /\ 1 .. k - 1 \subseteq 1 .. n
      BY <1>1
    <2>1. ASSUME NEW j \in 1 .. n PROVE Before(s[j], s[k]) <=> j < k
      BY <1>1, <1>2, <1>3, BeforeIsTotal
    <2>2. ASSUME NEW u PROVE u \in Ahead(matching, s[k]) <=> \E j \in 1 .. k - 1 : s[j] = u
      <3>1. ASSUME u \in Ahead(matching, s[k]) PROVE \E j \in 1 .. k - 1 : s[j] = u
        <4>1. PICK j \in 1 .. n : s[j] = u
          BY <1>6, <3>1 DEF Ahead
        <4>. QED
          BY <1>1, <2>1, <3>1, <4>1 DEF Ahead
      <3>2. ASSUME NEW j \in 1 .. k - 1 PROVE s[j] \in Ahead(matching, s[k])
        BY <1>1, <1>2, <2>0, <2>1 DEF Ahead
      <3>. QED
        BY <3>1, <3>2
    <2>3. f \in Injection(1 .. k - 1, Ahead(matching, s[k]))
      <3>1. f \in [1 .. k - 1 -> Ahead(matching, s[k])]
        BY <2>2
      <3>2. \A i, j \in 1 .. k - 1 : f[i] = f[j] => i = j
        BY <1>2, <2>0
      <3>. QED
        BY <3>1, <3>2 DEF Injection, IsInjective
    <2>4. f \in Surjection(1 .. k - 1, Ahead(matching, s[k]))
      BY <2>2, <2>3 DEF Surjection, Injection
    <2>5. IsFiniteSet(1 .. k - 1) /\ Cardinality(1 .. k - 1) = k - 1
      BY <2>0, FS_Interval
    <2>. HIDE DEF f
    <2>. QED
      BY <2>3, <2>4, <2>5, FS_Surjection DEF Rank
  <1>. QED
    BY <1>1, <1>2, <1>4, <1>6, <1>7

\* A page is what is behind the offset, as far as the limit goes.
LEMMA PageIsCut ==
  ASSUME NEW T, NEW s \in Seq(T), limit \in Nat, offset \in Nat
  PROVE  /\ Cut(s) \in Seq(T)
         /\ \A k \in 1 .. Len(Cut(s)) : Cut(s)[k] = s[offset + k] /\ offset + k \in 1 .. Len(s)
         /\ limit > 0 => Len(Cut(s)) <= limit
         /\ \A k \in 1 .. Len(s) :
              offset < k /\ (limit = 0 \/ Len(Cut(s)) < limit \/ k <= offset + limit)
                => k - offset \in 1 .. Len(Cut(s))
  <1>. DEFINE end == IF limit > 0 /\ offset + limit < Len(s) THEN offset + limit ELSE Len(s)
              m == IF offset < end THEN end - offset ELSE 0
  <1>1. end \in Nat /\ end <= Len(s) /\ Len(s) \in Nat /\ Cut(s) = SubSeq(s, offset + 1, end)
    BY DEF Cut
  <1>. HIDE DEF end
  <1>2. /\ Cut(s) \in Seq(T) /\ Len(Cut(s)) = m
        /\ \A k \in 1 .. m : Cut(s)[k] = s[offset + k]
    BY <1>1
  <1>. QED
    BY <1>1, <1>2 DEF end

\* Tasks that get their times are not in the list yet.
LEMMA TimesKept ==
  ASSUME ListingTypeOK, PageFits, UNCHANGED <<matching, page>>,
         \/ created' = created
         \/ \E t \in Ids : created[t] = NotYet /\ created' = [created EXCEPT ![t] = time]
  PROVE  PageFits' /\ \A t \in matching : Rank(t)' = Rank(t)
  <1>1. \A t \in Ids : created[t] # NotYet => created'[t] = created[t]
    BY DEF ListingTypeOK
  <1>2. ASSUME NEW t \in matching PROVE Rank(t)' = Rank(t)
    <2>1. \A u \in matching : Before(u, t)' <=> Before(u, t)
      BY <1>1 DEF Before, ListingTypeOK
    <2>2. Ahead(matching, t)' = Ahead(matching, t)
      BY <2>1 DEF Ahead
    <2>. QED
      BY <2>2 DEF Rank
  <1>3. \A k \in DOMAIN page : page[k] \in Ids /\ created[page[k]] # NotYet
    BY DEF PageFits, ListingTypeOK
  <1>4. \A k \in DOMAIN page : created'[page[k]] = created[page[k]]
    BY <1>1, <1>3
  <1>5. PageFits'
    BY <1>3, <1>4 DEF PageFits, SecondsDescend, NotYet
  <1>. QED
    BY <1>2, <1>5

\* Others that enter push a task back, others that leave pull it forward.
LEMMA RankGrows ==
  ASSUME NEW S, NEW R, IsFiniteSet(S), R \subseteq S, NEW t
  PROVE  /\ IsFiniteSet(R)
         /\ Cardinality(Ahead(R, t)) \in Nat /\ Cardinality(Ahead(S, t)) \in Nat
         /\ Cardinality(Ahead(R, t)) <= Cardinality(Ahead(S, t))
  <1>1. Ahead(R, t) \subseteq Ahead(S, t) /\ Ahead(S, t) \subseteq S
    BY DEF Ahead
  <1>2. IsFiniteSet(Ahead(S, t)) /\ IsFiniteSet(Ahead(R, t)) /\ IsFiniteSet(R)
    BY <1>1, FS_Subset
  <1>. QED
    BY <1>1, <1>2, FS_Subset, FS_CardinalityType

LEMMA ListingInvInit == ListingInit => ListingInv
  <1>. SUFFICES ASSUME ListingInit PROVE ListingInv
    OBVIOUS
  <1>. USE DEF ListingInit
  <1>1. ListingTypeOK
    BY ListingAssumption, FS_EmptySet DEF ListingTypeOK, NotYet
  <1>2. PageFits /\ OldFits /\ ListedFits /\ PagesComplete
    BY DEF PageFits, SecondsDescend, OldFits, ListedFits, PagesComplete
  <1>. QED
    BY <1>1, <1>2 DEF ListingInv

\* One page: those behind the old offset that fit are new to the client.
LEMMA GetPageKeeps ==
  ASSUME ListingInv, GetPage
  PROVE  ListingInv'
  <1>. USE DEF ListingInv
  <1>1. PICK s \in Orders :
          /\ page' = Cut(s)
          /\ listed' = listed \o Cut(s)
          /\ offset' = offset + limit
          /\ paging' = IF limit = 0 \/ Len(Cut(s)) < limit THEN "over" ELSE "pages"
    BY DEF GetPage
  <1>2. paging = "pages" /\ UNCHANGED <<time, created, matching, limit, old, entered, left>>
    BY DEF GetPage
  <1>3. /\ s \in Seq(matching) /\ DOMAIN s = 1 .. Len(s) /\ Len(s) \in Nat
        /\ \A j, k \in 1 .. Len(s) : j # k => s[j] # s[k]
        /\ \A k \in 1 .. Len(s) : s[k] \in matching /\ Rank(s[k]) = k - 1
        /\ \A t \in matching : \E k \in 1 .. Len(s) : s[k] = t
    BY OrdersRank
  <1>4. limit \in Nat /\ offset \in Nat /\ matching \subseteq Ids /\ listed \in Seq(Ids)
    BY DEF ListingTypeOK
  <1>. DEFINE c == Cut(s)
  <1>5. /\ c \in Seq(matching)
        /\ \A k \in 1 .. Len(c) : c[k] = s[offset + k] /\ offset + k \in 1 .. Len(s)
        /\ limit > 0 => Len(c) <= limit
        /\ \A k \in 1 .. Len(s) :
             offset < k /\ (limit = 0 \/ Len(c) < limit \/ k <= offset + limit)
               => k - offset \in 1 .. Len(c)
    BY <1>3, <1>4, PageIsCut
  <1>. HIDE DEF c
  <1>6. /\ DOMAIN c = 1 .. Len(c) /\ Len(c) \in Nat /\ c \in Seq(Ids)
        /\ \A k \in DOMAIN c : c[k] \in matching /\ Rank(c[k]) = offset + k - 1
    <2>1. DOMAIN c = 1 .. Len(c) /\ Len(c) \in Nat /\ c \in Seq(Ids)
      BY <1>4, <1>5
    <2>2. ASSUME NEW k \in 1 .. Len(c) PROVE c[k] \in matching /\ Rank(c[k]) = offset + k - 1
      <3>. DEFINE j == offset + k
      <3>1. c[k] = s[j] /\ j \in 1 .. Len(s)
        BY <1>5
      <3>. HIDE DEF j
      <3>2. c[k] \in matching /\ Rank(c[k]) = j - 1
        BY <1>3, <3>1
      <3>. QED
        BY <1>4, <2>1, <3>2 DEF j
    <2>. QED
      BY <2>1, <2>2
  <1>7. /\ listed' \in Seq(Ids) /\ Len(listed) \in Nat /\ Len(listed') = Len(listed) + Len(c)
        /\ DOMAIN listed = 1 .. Len(listed) /\ DOMAIN listed' = 1 .. Len(listed')
        /\ \A k \in 1 .. Len(listed) : listed'[k] = listed[k]
        /\ \A k \in 1 .. Len(listed') : Len(listed) < k =>
             listed'[k] = c[k - Len(listed)] /\ k - Len(listed) \in 1 .. Len(c)
    BY <1>1, <1>4, <1>6 DEF c
  <1>8. ToSet(listed') = ToSet(listed) \cup ToSet(c)
    <2>1. \A k \in 1 .. Len(c) : Len(listed) + k \in 1 .. Len(listed') /\ listed'[Len(listed) + k] = c[k]
      BY <1>6, <1>7
    <2>2. ToSet(listed') \subseteq ToSet(listed) \cup ToSet(c)
      BY <1>6, <1>7 DEF ToSet
    <2>3. ToSet(listed) \subseteq ToSet(listed')
      BY <1>6, <1>7 DEF ToSet
    <2>4. ToSet(c) \subseteq ToSet(listed')
      <3>. SUFFICES ASSUME NEW k \in 1 .. Len(c) PROVE c[k] \in ToSet(listed')
        BY <1>6 DEF ToSet
      <3>. QED
        BY <1>7, <2>1 DEF ToSet
    <2>. QED
      BY <2>2, <2>3, <2>4
  <1>9. ListingTypeOK'
    BY <1>1, <1>2, <1>4, <1>6, <1>7 DEF ListingTypeOK, NotYet, c
  <1>10. PageFits'
    <2>1. ASSUME NEW k \in DOMAIN c, NEW l \in DOMAIN c, k < l
          PROVE  created[c[l]] \div 4 <= created[c[k]] \div 4
      <3>. DEFINE i == offset + k
                  j == offset + l
      <3>1. c[k] = s[i] /\ c[l] = s[j] /\ i \in 1 .. Len(s) /\ j \in 1 .. Len(s)
        BY <1>5, <1>6
      <3>0. i < j
        BY <1>4, <1>6, <2>1
      <3>. HIDE DEF i, j
      <3>2. ~Before(c[l], c[k])
        BY <1>3, <3>0, <3>1 DEF Orders
      <3>3. created[c[k]] \in Nat /\ created[c[l]] \in Nat
        <4>1. \A t \in matching : created[t] \in Nat
          BY <1>4, ListingAssumption DEF ListingTypeOK, NotYet
        <4>. QED
          BY <1>6, <4>1
      <3>4. ~(created[c[k]] \div 4 < created[c[l]] \div 4)
        BY <3>2, <3>3, SecondsFirst DEF Before
      <3>. QED
        BY <3>3, <3>4
    <2>2. \A k \in DOMAIN c : created[c[k]] # NotYet
      BY <1>6 DEF ListingTypeOK
    <2>. QED
      BY <1>1, <1>2, <2>1, <2>2 DEF PageFits, SecondsDescend, NotYet, c
  <1>11. \A t : Rank(t)' = Rank(t)
    BY <1>2 DEF Rank, Ahead, Before
  <1>12. ASSUME ~left, NEW t \in old
         PROVE  /\ t \in matching
                /\ t \in ToSet(listed') \/ offset + limit <= Rank(t)
                /\ limit = 0 \/ Len(c) < limit => t \in ToSet(listed')
    <2>1. t \in matching /\ (t \in ToSet(listed) \/ offset <= Rank(t))
      BY <1>2, <1>12 DEF OldFits
    <2>2. PICK k \in 1 .. Len(s) : s[k] = t /\ Rank(t) = k - 1
      BY <1>3, <2>1
    <2>3. offset < k /\ k - offset \in 1 .. Len(c) => t \in ToSet(c)
      BY <1>4, <1>5, <1>6, <2>2 DEF ToSet
    <2>. QED
      BY <1>3, <1>4, <1>5, <1>8, <2>1, <2>2, <2>3
  <1>13. ASSUME ~entered
         PROVE  /\ IsInjective(listed')
                /\ limit > 0 => \A t \in ToSet(listed') \cap matching : Rank(t) < offset + limit
    <2>1. IsInjective(listed) /\ \A t \in ToSet(listed) \cap matching : Rank(t) < offset
      BY <1>2, <1>13 DEF ListedFits
    <2>2. \A k \in DOMAIN c : c[k] \notin ToSet(listed)
      BY <1>4, <1>6, <2>1
    <2>3. \A j, k \in DOMAIN c : c[j] = c[k] => j = k
      BY <1>4, <1>6
    <2>4. IsInjective(listed')
      <3>5. \A a \in 1 .. Len(listed) : listed'[a] \in ToSet(listed)
        BY <1>7 DEF ToSet
      <3>6. ASSUME NEW b \in 1 .. Len(listed'), Len(listed) < b PROVE listed'[b] \notin ToSet(listed)
        BY <1>6, <1>7, <2>2, <3>6
      <3>. SUFFICES ASSUME NEW a \in DOMAIN listed', NEW b \in DOMAIN listed', listed'[a] = listed'[b]
                    PROVE  a = b
        BY DEF IsInjective
      <3>1. CASE a <= Len(listed) /\ b <= Len(listed)
        <4>1. a \in DOMAIN listed /\ b \in DOMAIN listed /\ listed[a] = listed[b]
          BY <1>7, <3>1
        <4>. QED
          BY <2>1, <4>1, Zenon DEF IsInjective
      <3>2. CASE a <= Len(listed) /\ Len(listed) < b
        <4>1. listed'[a] \in ToSet(listed) /\ listed'[b] \notin ToSet(listed)
          BY <1>7, <3>2, <3>5, <3>6
        <4>. QED
          BY <4>1
      <3>3. CASE Len(listed) < a /\ b <= Len(listed)
        <4>1. listed'[b] \in ToSet(listed) /\ listed'[a] \notin ToSet(listed)
          BY <1>7, <3>3, <3>5, <3>6
        <4>. QED
          BY <4>1
      <3>4. CASE Len(listed) < a /\ Len(listed) < b
        BY <1>6, <1>7, <2>3, <3>4
      <3>. QED
        BY <1>7, <3>1, <3>2, <3>3, <3>4
    <2>5. ASSUME limit > 0, NEW t \in ToSet(listed') \cap matching PROVE Rank(t) < offset + limit
      <3>1. CASE t \in ToSet(listed)
        <4>1. PICK k \in 1 .. Len(s) : s[k] = t /\ Rank(t) = k - 1
          BY <1>3, <2>5
        <4>. QED
          BY <1>4, <2>1, <2>5, <3>1, <4>1
      <3>2. CASE t \in ToSet(c)
        BY <1>4, <1>5, <1>6, <2>5, <3>2 DEF ToSet
      <3>. QED
        BY <1>8, <2>5, <3>1, <3>2
    <2>. QED
      BY <2>4, <2>5
  <1>14. OldFits'
    BY <1>1, <1>2, <1>11, <1>12 DEF OldFits, c
  <1>15. ListedFits'
    BY <1>1, <1>2, <1>4, <1>11, <1>13 DEF ListedFits, c
  <1>16. PagesComplete'
    BY <1>1, <1>2, <1>12, <1>13 DEF PagesComplete, c
  <1>. QED
    BY <1>9, <1>10, <1>14, <1>15, <1>16

LEMMA ListingInvStep == ListingInv /\ [ListingNext]_listingVars => ListingInv'
  <1>. SUFFICES ASSUME ListingInv, [ListingNext]_listingVars PROVE ListingInv'
    OBVIOUS
  <1>. USE DEF ListingInv
  <1>1. ASSUME ListingTypeOK', UNCHANGED <<matching, reader, entered, left>>,
               \/ created' = created
               \/ \E t \in Ids : created[t] = NotYet /\ created' = [created EXCEPT ![t] = time]
        PROVE  ListingInv'
    <2>1. PageFits' /\ \A t \in matching : Rank(t)' = Rank(t)
      BY <1>1, TimesKept DEF reader
    <2>2. OldFits' /\ ListedFits' /\ PagesComplete'
      BY <1>1, <2>1 DEF OldFits, ListedFits, PagesComplete, reader
    <2>. QED
      BY <1>1, <2>1, <2>2
  <1>2. CASE Tick
    BY <1>1, <1>2, ListingAssumption DEF Tick, ListingTypeOK, NotYet, reader
  <1>3. ASSUME NEW t \in Ids, TakeTime(t) PROVE ListingInv'
    <2>1. ListingTypeOK'
      BY <1>3, ListingAssumption DEF TakeTime, ListingTypeOK, NotYet, reader
    <2>. QED
      BY <1>1, <1>3, <2>1 DEF TakeTime
  <1>4. ASSUME NEW x \in Ids, Enter(x) PROVE ListingInv'
    <2>. USE <1>4 DEF Enter
    <2>1. ListingTypeOK'
      BY FS_AddElement DEF ListingTypeOK, NotYet, reader
    <2>2. PageFits'
      BY DEF PageFits, SecondsDescend, NotYet, reader
    <2>3. ASSUME NEW t PROVE Rank(t) \in Nat /\ Rank(t)' \in Nat /\ Rank(t) <= Rank(t)'
      <3>1. IsFiniteSet(matching') /\ matching \subseteq matching'
        BY <2>1 DEF ListingTypeOK
      <3>2. Rank(t)' = Cardinality(Ahead(matching', t))
        BY DEF Rank, Ahead, Before
      <3>. QED
        BY <3>1, <3>2, RankGrows DEF Rank
    <2>4. OldFits'
      BY <2>3 DEF OldFits, reader, ListingTypeOK
    <2>5. ListedFits' /\ PagesComplete'
      BY DEF ListedFits, PagesComplete, reader
    <2>. QED
      BY <2>1, <2>2, <2>4, <2>5
  <1>5. ASSUME NEW x \in Ids, Leave(x) PROVE ListingInv'
    <2>. USE <1>5 DEF Leave
    <2>1. ListingTypeOK'
      BY FS_RemoveElement DEF ListingTypeOK, NotYet, reader
    <2>2. PageFits'
      BY DEF PageFits, SecondsDescend, NotYet, reader
    <2>3. ASSUME NEW t PROVE Rank(t) \in Nat /\ Rank(t)' \in Nat /\ Rank(t)' <= Rank(t)
      <3>1. IsFiniteSet(matching) /\ matching' \subseteq matching
        BY DEF ListingTypeOK
      <3>2. Rank(t)' = Cardinality(Ahead(matching', t))
        BY DEF Rank, Ahead, Before
      <3>. QED
        BY <3>1, <3>2, RankGrows DEF Rank
    <2>4. ListedFits'
      BY <2>3 DEF ListedFits, reader, ListingTypeOK
    <2>5. OldFits' /\ PagesComplete'
      BY DEF OldFits, PagesComplete, reader
    <2>. QED
      BY <2>1, <2>2, <2>4, <2>5
  <1>6. CASE StartPaging
    <2>. USE <1>6 DEF StartPaging
    <2>1. ListingTypeOK'
      BY ListingAssumption, FS_CardinalityType DEF ListingTypeOK, NotYet
    <2>2. PageFits'
      BY DEF PageFits, SecondsDescend, NotYet
    <2>3. listed = <<>> /\ offset = 0
      BY DEF ListingTypeOK
    <2>4. ASSUME NEW t PROVE Rank(t) \in Nat /\ Rank(t)' = Rank(t)
      <3>1. Rank(t) \in Nat
        BY RankGrows DEF Rank, ListingTypeOK
      <3>. QED
        BY <3>1 DEF Rank, Ahead, Before
    <2>5. OldFits'
      BY <2>3, <2>4 DEF OldFits
    <2>6. ListedFits' /\ PagesComplete'
      BY <2>3 DEF ListedFits, PagesComplete, IsInjective, ToSet
    <2>. QED
      BY <2>1, <2>2, <2>5, <2>6
  <1>7. CASE GetPage
    BY <1>7, GetPageKeeps
  <1>8. CASE UNCHANGED listingVars
    BY <1>1, <1>8 DEF listingVars, ListingTypeOK, NotYet, reader
  <1>. QED
    BY <1>2, <1>3, <1>4, <1>5, <1>6, <1>7, <1>8 DEF ListingNext

\* However many tasks there are, and whatever comes and goes between two pages.
THEOREM PagingIsComplete == ListingSpec => []PagesComplete
  <1>1. ListingInv => PagesComplete
    BY DEF ListingInv
  <1>. QED
    BY ListingInvInit, ListingInvStep, <1>1, PTL DEF ListingSpec

\* And for every clock: the order by text is that of the seconds.
THEOREM PagesDescend == ListingSpec => []SecondsDescend
  <1>1. ListingInv => SecondsDescend
    BY DEF ListingInv, PageFits
  <1>. QED
    BY ListingInvInit, ListingInvStep, <1>1, PTL DEF ListingSpec
=============================================================================
