------------------------------- MODULE RpcProxy -------------------------------
(***************************************************************************)
(* POST /jsonrpc of httpapi/rpc.go: a request holds one call or a batch.   *)
(* aria2.addUri, addTorrent and addMetalink become tasks of the gateway,   *)
(* every other method is forwarded to aria2 with aria2's own secret.  The  *)
(* behaviour is one request; requests share nothing but what they call.    *)
(***************************************************************************)
EXTENDS Naturals, Sequences, FiniteSets

CONSTANTS
  Calls,     \* the calls a client makes: records of CallType
  Broken,    \* an item that is no JSON-RPC object
  MaxCalls   \* bound on the calls of a request

\* wellFormed: version 2.0 and a method; managed: one of the three adds; id: not
\* a notification; token: the "token:" parameter in front; params: an array the
\* method can use, an array it cannot, or no array.
CallType ==
  [wellFormed : BOOLEAN, managed : BOOLEAN, id : BOOLEAN,
   token : {"none", "gateway", "aria2", "wrong"}, params : {"good", "bad", "noArray"}]

ASSUME CallsAssumption == Calls \subseteq CallType /\ Broken \notin CallType /\ MaxCalls \in Nat

VARIABLES
  conf,      \* what is configured: gateway token, aria2 secret, aria2 endpoint
  header,    \* the request has the gateway's token in a header
  batch,     \* the body is an array
  items,     \* its calls, in order
  phase,     \* authorize, decode, calls or replied
  at,        \* the call that is next
  responses, \* [of, kind] of the calls answered so far, "of" the call's place
  done,      \* [of, kind, token] of what was called for the client
  silent,    \* history: calls that aria2 answered with nothing
  client,    \* "there" or "gone": then the request's context has ended
  reply      \* [status, form, of]: what is written, of the calls in "of"

rpcVars == <<conf, header, batch, items, phase, at, responses, done, silent, client, reply>>
given == <<conf, header, batch, items>>

NoReply == [status |-> 0, form |-> "none", of |-> <<>>]

Bodies == UNION {[1 .. n -> Calls \cup {Broken}] : n \in 0 .. MaxCalls}

RpcInit ==
  /\ conf \in [token : BOOLEAN, secret : BOOLEAN, endpoint : BOOLEAN]
  /\ header \in BOOLEAN /\ batch \in BOOLEAN
  /\ items \in Bodies /\ (~batch => Len(items) = 1)
  /\ phase = "authorize" /\ at = 1
  /\ responses = <<>> /\ done = <<>> /\ silent = {}
  /\ client = "there" /\ reply = NoReply

-----------------------------------------------------------------------------
\* decodeRPCCalls takes all calls or none; an empty batch is refused.
Decodes == items # <<>> /\ \A i \in DOMAIN items : items[i] # Broken

\* rpcSecretEqual with either secret; one that is not configured never fits.
TokenFits(call) ==
  \/ call.token = "gateway" /\ conf.token
  \/ call.token = "aria2" /\ conf.secret

\* rpcBodyAuthorized: every call of the body brings a token.
BodyAuthorized ==
  Decodes /\ \A i \in DOMAIN items : items[i].params # "noArray" /\ TokenFits(items[i])

Authorize ==
  /\ phase = "authorize"
  /\ \/ /\ ~conf.token \/ header \/ BodyAuthorized
        /\ phase' = "decode" /\ UNCHANGED reply
     \/ /\ conf.token /\ ~header /\ ~BodyAuthorized
        /\ phase' = "replied"
        /\ reply' = [status |-> 401, form |-> "object", of |-> <<0>>]
  /\ UNCHANGED <<given, at, responses, done, silent, client>>

\* What cannot be decoded is answered by one error without an id, no array.
DecodeCalls ==
  /\ phase = "decode"
  /\ IF Decodes
       THEN phase' = "calls" /\ UNCHANGED reply
       ELSE phase' = "replied" /\ reply' = [status |-> 200, form |-> "object", of |-> <<0>>]
  /\ UNCHANGED <<given, at, responses, done, silent, client>>

Current == items[at]
More == phase = "calls" /\ at <= Len(items) /\ Current # Broken

\* Every call takes its turn; only calls with an id are answered.
Answer(kind) ==
  responses' = IF Current.id THEN Append(responses, [of |-> at, kind |-> kind]) ELSE responses
NextCall == at' = at + 1 /\ UNCHANGED <<given, phase, client, reply>>
Do(kind, token) == done' = Append(done, [of |-> at, kind |-> kind, token |-> token])

\* Mutant of InvalidCall: it is answered without an id as well.
InvalidCallAnswered ==
  /\ More /\ ~Current.wellFormed
  /\ responses' = Append(responses, [of |-> at, kind |-> "error"])
  /\ NextCall /\ UNCHANGED <<done, silent>>

InvalidCall ==
  /\ More /\ ~Current.wellFormed
  /\ Answer("error")
  /\ NextCall /\ UNCHANGED <<done, silent>>

\* Mutant of ManagedCall: nobody waits for a notification, so it is not done.
ManagedUnlessSilent ==
  /\ More /\ Current.wellFormed /\ Current.managed
  /\ IF Current.params = "good" /\ Current.id THEN Do("create", "none") ELSE UNCHANGED done
  /\ IF Current.params = "good" /\ client = "there" THEN Answer("result") ELSE Answer("error")
  /\ NextCall /\ UNCHANGED silent

\* createRPCManagedTask: taskInputFromRPCCall, then Service.Create, which fails
\* on its own account and when the client has gone.
ManagedCall ==
  /\ More /\ Current.wellFormed /\ Current.managed
  /\ \/ Current.params # "good" /\ Answer("error") /\ UNCHANGED done
     \/ /\ Current.params = "good"
        /\ Do("create", "none")
        /\ Answer("error") \/ (client = "there" /\ Answer("result"))
  /\ NextCall /\ UNCHANGED silent

\* rewriteRPCParams: the client's token, any, makes way for aria2's secret.  The
\* code knows the leading parameter only; what is nested in the others, as in the
\* calls of a system.multicall, it forwards as it came.
Rewritten(call) == IF conf.secret THEN "aria2" ELSE "none"

\* forwardRPCCall sends the call when it can.
CanForward == conf.endpoint /\ Current.params # "noArray" /\ client = "there"

ForwardCall ==
  /\ More /\ Current.wellFormed /\ ~Current.managed
  /\ \/ ~CanForward /\ Answer("error") /\ UNCHANGED <<done, silent>>
     \/ /\ CanForward
        /\ Do("forward", Rewritten(Current))
        /\ \/ Answer("forwarded") /\ UNCHANGED silent
           \/ Answer("error") /\ UNCHANGED silent
           \/ silent' = silent \cup {at} /\ UNCHANGED responses
  /\ NextCall

\* writeRPCPayloads
WriteReply ==
  /\ phase = "calls" /\ at > Len(items)
  /\ phase' = "replied"
  /\ reply' = IF responses = <<>> THEN [status |-> 204, form |-> "none", of |-> <<>>]
              ELSE [status |-> 200, form |-> IF batch THEN "array" ELSE "object",
                    of |-> [k \in DOMAIN responses |-> responses[k].of]]
  /\ UNCHANGED <<given, at, responses, done, silent, client>>

ClientGoes ==
  /\ phase # "replied" /\ client = "there"
  /\ client' = "gone"
  /\ UNCHANGED <<given, phase, at, responses, done, silent, reply>>

RpcNext ==
  \/ Authorize \/ DecodeCalls \/ InvalidCall \/ ManagedCall \/ ForwardCall
  \/ WriteReply \/ ClientGoes

RpcSpec == RpcInit /\ [][RpcNext]_rpcVars

-----------------------------------------------------------------------------
\* A sequence of places names those of a set, each once and in order.
Ascending(s) == \A k, l \in DOMAIN s : k < l => s[k] < s[l]
NamesInOrder(s, places) == Ascending(s) /\ {s[k] : k \in DOMAIN s} = places

Accepted == phase = "replied" /\ reply.status # 401 /\ Decodes

\* JSON-RPC: a batch is answered by an array with one response for each call
\* that has an id, in the order of the calls and to no notification; when there
\* is none, by nothing.  Only what aria2 leaves without an answer is missing.
RepliesMatchCalls ==
  Accepted =>
    /\ NamesInOrder(reply.of, {i \in DOMAIN items : items[i].id /\ i \notin silent})
    /\ reply.form = IF reply.of = <<>> THEN "none" ELSE IF batch THEN "array" ELSE "object"
    /\ reply.status = IF reply.of = <<>> THEN 204 ELSE 200

\* Every call that can be done is done once and in the order of the calls,
\* notifications included, and goes to aria2 with aria2's secret, if it has one,
\* and not the client's token in front; nothing is done of a body that is refused,
\* for its tokens or because one of its items is no call.
DoneExactlyOnce ==
  LET Can(i) ==
        /\ items[i].wellFormed
        /\ IF items[i].managed THEN items[i].params = "good"
                               ELSE conf.endpoint /\ items[i].params # "noArray"
      calls == [k \in DOMAIN done |-> done[k].of]
  IN  /\ ~Decodes \/ reply.status = 401 => done = <<>>
      /\ Ascending(calls)
      /\ Accepted /\ client = "there" => NamesInOrder(calls, {i \in DOMAIN items : Can(i)})
      /\ \A k \in DOMAIN done :
           done[k].kind = "forward" => done[k].token = IF conf.secret THEN "aria2" ELSE "none"

=============================================================================
