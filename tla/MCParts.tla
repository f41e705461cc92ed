------------------------------- MODULE MCParts -------------------------------
(***************************************************************************)
(* Small instances of four parts that share no state: the files of a       *)
(* transfer, JSON-RPC requests, requests that name several tasks and the   *)
(* pages of a list.  A behaviour is one of one part, the rest rests.       *)
(***************************************************************************)
EXTENDS FileTransfer, RpcProxy, BatchTasks, TaskListing

VARIABLE part  \* "files", "rpc", "batch" or "listing"

Call(wellFormed, managed, id, token, params) ==
  [wellFormed |-> wellFormed, managed |-> managed, id |-> id, token |-> token, params |-> params]

\* An add with the gateway's token, one without an id, one that cannot be read;
\* a call to forward, a notification with neither array nor good token; junk.
SmallCalls ==
  { Call(TRUE, TRUE, TRUE, "gateway", "good"), Call(TRUE, TRUE, FALSE, "aria2", "good"),
    Call(TRUE, TRUE, TRUE, "none", "bad"), Call(TRUE, FALSE, TRUE, "aria2", "good"),
    Call(TRUE, FALSE, FALSE, "wrong", "noArray"), Call(FALSE, FALSE, FALSE, "gateway", "good") }

FilesRest == FilesInit /\ provider = "openlist"

RpcRest ==
  /\ RpcInit
  /\ conf = [token |-> TRUE, secret |-> TRUE, endpoint |-> TRUE]
  /\ header /\ batch /\ items = <<>>

BatchRest == BatchInit /\ operation = "delete" /\ names = <<Blank>> /\ rows = {}
             /\ gidOf = CHOOSE g \in Injection(TaskIds, Names) : TRUE

Init ==
  \/ part = "files" /\ FilesInit /\ RpcRest /\ BatchRest /\ ListingInit
  \/ part = "rpc" /\ FilesRest /\ RpcInit /\ BatchRest /\ ListingInit
  \/ part = "batch" /\ FilesRest /\ RpcRest /\ BatchInit /\ ListingInit
  \/ part = "listing" /\ FilesRest /\ RpcRest /\ BatchRest /\ ListingInit

FilesMove == part = "files" /\ FilesNext /\ UNCHANGED <<part, rpcVars, batchVars, listingVars>>
RpcMoves == part = "rpc" /\ RpcNext /\ UNCHANGED <<part, fileVars, batchVars, listingVars>>
BatchMoves == part = "batch" /\ BatchNext /\ UNCHANGED <<part, fileVars, rpcVars, listingVars>>
ListingMoves == part = "listing" /\ ListingNext /\ UNCHANGED <<part, fileVars, rpcVars, batchVars>>

Next == FilesMove \/ RpcMoves \/ BatchMoves \/ ListingMoves

Spec == Init /\ [][Next]_<<part, fileVars, rpcVars, batchVars, listingVars>>
=============================================================================
