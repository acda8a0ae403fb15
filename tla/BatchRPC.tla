------------------------------ MODULE BatchRPC ------------------------------
(***************************************************************************)
(* A request of a client (HandleRPC and handleBatchRPC in server.go): the  *)
(* calls it holds are answered here, refused, or put into batches such     *)
(* that no batch holds an ID twice; batches are cut to the upstream limit  *)
(* and forwarded to a backend group, which takes out the calls it answers  *)
(* from the consensus state and puts the answers back in their places      *)
(* (Forward and OverrideResponses in backend.go); a backend may answer in  *)
(* any order.  What may be kept of the answers goes to the cache, where    *)
(* this request and others find it.                                        *)
(***************************************************************************)
EXTENDS Admission, RPCCache, FiniteSets

CONSTANTS
    Batches,                \* what clients send: sequences of calls
    MaxUpstreamBatchSize,
    Consensus               \* the groups are consensus aware


(* Kinds of calls beside those of Admission and RPCCache:  malformed       *)
(* (answered without an ID), healthz, accounts (answered here), blocked    *)
(* (of no listed method), other (forwarded, not cacheable), second (the    *)
(* same, to a second group), height (eth_blockNumber), beyond (a block     *)
(* that is out of range) and receipts (consensus_getReceipts, which no     *)
(* batch may hold).                                                        *)
Kinds ==
    TxKinds \cup Handled \cup {"malformed", "healthz", "accounts", "blocked", "other",
                               "second", "height", "beyond", "receipts"}

ASSUME BatchAssumption ==
    /\ MaxUpstreamBatchSize \in Nat \ {0}
    /\ \A calls \in Batches :
          calls \in Seq(Range(calls)) /\ \A call \in Range(calls) : call.kind \in Kinds

GroupOf(kind) == IF kind = "second" THEN "g2" ELSE "g1"
Overridden(kind) == Consensus /\ kind \in {"height", "beyond"}

(* A response: the ID it carries, the call it answers, its content, and    *)
(* the headers of the request it was made for.                             *)
Response(i, id, content, from) ==
    [id |-> id, answers |-> i, content |-> content, from |-> from]
Failure(i, id) == Response(i, id, "error", "proxyd")
Missing == Response(0, "missing", "error", "proxyd")

VARIABLES
    reqs,       \* the calls
    isBatch,    \* they came in an array
    headers,    \* the headers to forward
    next,       \* the call the first loop looks at
    kept,       \* the calls to be forwarded
    responses,  \* one per call
    todo,       \* upstream batches still to be made: sets of calls
    misses,     \* calls of the current one that the cache did not answer
    hits,       \* calls the cache answered
    pc,         \* accept, parse, group, mini, done
    expired,    \* the deadline of the request is over
    error,      \* the request as a whole gets one
    upstream    \* the calls last sent to a backend

admitVars == <<client, charged, next, kept>>
vars == <<reqs, isBatch, headers, responses, todo, misses, hits, pc, expired, error,
          upstream, admitVars, cacheVars>>

Init ==
    /\ reqs \in Batches /\ isBatch \in BOOLEAN /\ (~isBatch => Len(reqs) = 1)
    /\ client \in Clients /\ headers = CHOOSE h \in Headers : TRUE
    /\ charged = [i \in 1..Len(reqs) |-> << >>] /\ next = 1 /\ kept = {}
    /\ responses = [i \in 1..Len(reqs) |-> Missing]
    /\ todo = {} /\ misses = << >> /\ hits = {} /\ pc = "accept"
    /\ expired = FALSE /\ error = FALSE /\ upstream = << >>
    /\ head = "old" /\ cache = {}

(* HandleRPC: a path, address, body, signature or number of calls that is  *)
(* not accepted ends the request before any call is looked at.             *)
Accept(ok) ==
    /\ pc = "accept"
    /\ pc' = IF ok THEN "parse" ELSE "done"
    /\ error' = ~ok
    /\ UNCHANGED <<reqs, isBatch, headers, responses, todo, misses, hits, expired,
                   upstream, admitVars, cacheVars>>

(* The loop over the calls: these are answered at once.  The health check  *)
(* is one only when it is alone, and otherwise a method that is not listed. *)
Local(i) ==
    CASE reqs[i].kind = "malformed" -> Failure(i, "null")
      [] reqs[i].kind = "accounts" \/ (reqs[i].kind = "healthz" /\ Len(reqs) = 1) ->
            Response(i, reqs[i].id, "plain", "proxyd")
      [] reqs[i].kind = "blocked" \/ (reqs[i].kind = "healthz" /\ Len(reqs) # 1) ->
            Failure(i, reqs[i].id)
      [] OTHER -> Missing

ParseLocal ==
    /\ pc = "parse" /\ next <= Len(reqs) /\ Local(next) # Missing
    /\ responses' = [responses EXCEPT ![next] = Local(next)]
    /\ next' = next + 1
    /\ UNCHANGED <<reqs, isBatch, headers, client, charged, kept, todo, misses, hits,
                   pc, expired, error, upstream, cacheVars>>

(* A call to a listed method passes n of its checks.                       *)
Admit(n) ==
    /\ pc = "parse" /\ next <= Len(reqs) /\ Local(next) = Missing
    /\ n \in 0..Len(Checks(reqs[next].kind)) /\ Passes(reqs[next].kind, n)
    /\ charged' = [charged EXCEPT ![next] = Taken(reqs[next].kind, n)]
    /\ IF n = Len(Checks(reqs[next].kind))
       THEN kept' = kept \cup {next} /\ UNCHANGED responses
       ELSE /\ responses' = [responses EXCEPT ![next] = Failure(next, reqs[next].id)]
            /\ UNCHANGED kept
    /\ next' = next + 1
    /\ UNCHANGED <<reqs, isBatch, headers, client, todo, misses, hits, pc, expired, error,
                   upstream, cacheVars>>

(* Mutant: IDs are counted per backend group and always start over.        *)
GroupIDSame(i) == 1

(* ids[id]++ numbers the calls with one ID, so that they end up apart.     *)
GroupID(i) == Cardinality({j \in kept : j <= i /\ reqs[j].id = reqs[i].id})

Batch ==
    /\ pc = "parse" /\ next > Len(reqs) /\ pc' = "group"
    /\ todo' = {{j \in kept : GroupID(j) = GroupID(i)
                               /\ GroupOf(reqs[j].kind) = GroupOf(reqs[i].kind)} : i \in kept}
    /\ UNCHANGED <<reqs, isBatch, headers, admitVars, responses, misses, hits, expired,
                   error, upstream, cacheVars>>

(* Upstream batches come in the order of a map; calls are in their own.    *)
(* Each is looked up in the cache, which may not find what it was given.   *)
Found(i) == GetRPC(reqs[i].kind, headers)

InOrder(S) ==
    {s \in [1..Cardinality(S) -> S] :
        Range(s) = S /\ \A k, l \in 1..Cardinality(S) : k < l => s[k] < s[l]}

Group(batch, answered) ==
    /\ pc = "group" /\ batch \in todo /\ pc' = "mini"
    /\ answered \subseteq batch
    /\ \E found \in [answered -> cache] :
          /\ \A i \in answered : found[i] \in Found(i)
          /\ responses' = [i \in 1..Len(reqs) |->
                 IF i \in answered
                 THEN Response(i, reqs[i].id, found[i].content, found[i].headers)
                 ELSE responses[i]]
    /\ hits' = hits \cup answered
    /\ todo' = todo \ {batch}
    /\ misses' \in InOrder(batch \ answered)
    /\ UNCHANGED <<reqs, isBatch, headers, admitVars, expired, error, upstream, cacheVars>>

-----------------------------------------------------------------------------
MiniSize == IF MaxUpstreamBatchSize < Len(misses) THEN MaxUpstreamBatchSize ELSE Len(misses)
Mini  == SubSeq(misses, 1, MiniSize)
After == SubSeq(misses, MiniSize + 1, Len(misses))

ShortCircuit ==
    /\ pc = "mini" /\ misses # << >> /\ expired
    /\ pc' = "done" /\ error' = TRUE
    /\ UNCHANGED <<reqs, isBatch, headers, admitVars, responses, todo, misses, hits,
                   expired, upstream, cacheVars>>

(* The calls a backend is asked: those the consensus state does not answer. *)
Rewritten == Filter(Mini, {i \in 1..Len(reqs) : ~Overridden(reqs[i].kind)})

(* sortBatchRPCResponse: by the place of their ID in the request.          *)
SortBatch(req, res) ==
    [k \in 1..Len(res) |-> CHOOSE x \in Range(res) : x.id = reqs[req[k]].id]

(* Mutant: overridden responses are appended.                              *)
InsertLast(res, at, x) == Append(res, x)

Insert(res, at, x) == SubSeq(res, 1, at) \o <<x>> \o SubSeq(res, at + 1, Len(res))

FromConsensus(i) ==
    Response(i, reqs[i].id, IF reqs[i].kind = "height" THEN "plain" ELSE "error", "proxyd")

(* OverrideResponses: one after the other, each at its place in the batch. *)
OverrideResponses(res) ==
    LET put[k \in 0..Len(Mini)] ==
            IF k = 0 THEN res
            ELSE IF Overridden(reqs[Mini[k]].kind)
                 THEN Insert(put[k - 1], k - 1, FromConsensus(Mini[k])) ELSE put[k - 1]
    IN  put[Len(Mini)]

(* The responses to a mini batch go to their slots, and good ones that can *)
(* be cached go to the cache, under the call as doForward left it.         *)
Fill(res) ==
    /\ responses' = [i \in 1..Len(reqs) |->
                       IF i \in Range(Mini)
                       THEN res[CHOOSE k \in 1..Len(Mini) : Mini[k] = i]
                       ELSE responses[i]]
    /\ cache' = cache \cup UNION {
          IF res[k].content = "error" THEN {}
          ELSE PutRPC(Forwarded(reqs[Mini[k]].kind), headers, res[k].content) : k \in 1..Len(Mini)}
    /\ misses' = After

(* Every backend refuses a batch with consensus_getReceipts in it, and the *)
(* error is that of the whole batch.                                       *)
Unbatchable == isBatch /\ \E i \in Range(Rewritten) : reqs[i].kind = "receipts"

CantBeBatched ==
    /\ pc = "mini" /\ misses # << >> /\ ~expired /\ Unbatchable
    /\ pc' = "done" /\ error' = TRUE
    /\ UNCHANGED <<reqs, isBatch, headers, admitVars, responses, todo, misses, hits,
                   expired, upstream, cacheVars>>

(* A backend answers every call, in any order, each well or with an error. *)
Served(arrival, contents) ==
    /\ pc = "mini" /\ misses # << >> /\ ~expired /\ ~Unbatchable
    /\ \A i \in Range(Rewritten) : contents[i] \in Contents(reqs[i].kind) \cup {"error"}
    /\ upstream' = Rewritten
    /\ LET res == [k \in 1..Len(arrival) |->
              Response(arrival[k], reqs[arrival[k]].id, contents[arrival[k]], headers)]
       IN Fill(OverrideResponses(SortBatch(Rewritten, res)))
    /\ UNCHANGED <<reqs, isBatch, headers, admitVars, todo, hits, pc, expired, error, head>>

(* No backend does, or there is none: all calls get the error.            *)
Unserved ==
    /\ pc = "mini" /\ misses # << >> /\ ~expired
    /\ upstream' = Rewritten
    /\ Fill([k \in 1..Len(Mini) |-> Failure(Mini[k], reqs[Mini[k]].id)])
    /\ UNCHANGED <<reqs, isBatch, headers, admitVars, todo, hits, pc, expired, error, head>>

Grouped ==
    /\ pc = "mini" /\ misses = << >> /\ pc' = "group"
    /\ UNCHANGED <<reqs, isBatch, headers, admitVars, responses, todo, misses, hits,
                   expired, error, upstream, cacheVars>>

Finish ==
    /\ pc = "group" /\ todo = {} /\ pc' = "done"
    /\ UNCHANGED <<reqs, isBatch, headers, admitVars, responses, todo, misses, hits,
                   expired, error, upstream, cacheVars>>

Deadline ==
    /\ pc # "done" /\ ~expired /\ expired' = TRUE
    /\ UNCHANGED <<reqs, isBatch, headers, admitVars, responses, todo, misses, hits, pc,
                   error, upstream, cacheVars>>

(* The chain and other requests go on while this one is served.            *)
Meanwhile ==
    /\ pc # "done"
    /\ \/ NewHead
       \/ \E kind \in Handled \cup {"receipts"}, h \in Headers : \E c \in Contents(kind) :
             OtherPut(kind, h, c)
    /\ UNCHANGED <<reqs, isBatch, headers, admitVars, responses, todo, misses, hits, pc,
                   expired, error, upstream>>

MaxChecks == 9      \* no call has more checks than that

(* The orders in which the answers to the calls of a batch may come.       *)
Arrivals ==
    {s \in [1..Len(Rewritten) -> Range(Rewritten)] : Range(s) = Range(Rewritten)}

Answers == UNION {Contents(reqs[i].kind) : i \in Range(Rewritten)} \cup {"error"}

Next ==
    \/ \E ok \in BOOLEAN : Accept(ok)
    \/ ParseLocal
    \/ \E n \in 0..MaxChecks : Admit(n)
    \/ Batch
    \/ \E batch \in todo : \E answered \in SUBSET batch : Group(batch, answered)
    \/ ShortCircuit
    \/ \E arrival \in Arrivals,
          contents \in [Range(Rewritten) -> Answers] : Served(arrival, contents)
    \/ CantBeBatched \/ Unserved \/ Grouped \/ Finish \/ Deadline \/ Meanwhile

Spec == Init /\ [][Next]_vars

-----------------------------------------------------------------------------
(* "This is done to ensure that the order of JSON-RPC Responses match the  *)
(* Request order as the backend MAY return Responses out of order": each   *)
(* slot holds the answer to its own call, under the ID of that call, and a *)
(* request that is answered is answered in full.                           *)
EachSlotItsOwnAnswer ==
    /\ \A i \in 1..Len(responses) : responses[i] # Missing =>
          /\ responses[i].answers = i
          /\ responses[i].id = (IF reqs[i].kind = "malformed" THEN "null" ELSE reqs[i].id)
    /\ pc = "done" /\ ~error => \A i \in 1..Len(responses) : responses[i] # Missing

(* What sortBatchRPCResponse panics about cannot happen ("bug! detected    *)
(* requests with duplicate IDs"), and the upstream limit is kept.          *)
UpstreamIDsDiffer ==
    /\ \A k, l \in 1..Len(upstream) : k # l => reqs[upstream[k]].id # reqs[upstream[l]].id
    /\ Len(upstream) <= MaxUpstreamBatchSize

(* An answer from the cache is one that every backend with the block gives *)
(* now and later, to a request with the same headers: neither a null or an *)
(* empty list from a backend that lacked the block, nor the answer for a   *)
(* tag that has moved on, nor one in the form of another method.           *)
CachedAnswersAreFinal ==
    \A i \in hits : responses[i].content = "final" /\ responses[i].from = headers

(* The limiters a listed call has to pay, by what the configuration says.  *)
Owed(kind) ==
    LET m == Method(kind)
        bound(method) == ~client.exempt \/ method \in GlobalMethods
    IN  {l \in Limiters :
           \/ l = "main" /\ bound("")
           \/ l = "override" /\ m \in OverrideLims /\ bound(m) /\ ~client.highPrio
           \/ l = "highPrio" /\ m \in OverrideLims \cap HighPrioLims /\ bound(m) /\ client.highPrio
           \/ l = "sender" /\ kind \in TxKinds /\ SenderLim
           \/ l = "interopSender" /\ kind = "interop" /\ InteropSenderLim}

(* Every call that may be forwarded has paid, each on its own account, all *)
(* the limits that hold for it, the limits of a sender also if its client  *)
(* is exempt.  A call that is refused paid only limits that hold for it,   *)
(* and the limit of a sender only if it is a transaction of that sender    *)
(* for this chain that its client had the right to send.                   *)
LimitsApply ==
    \A i \in 1..Len(reqs) :
        /\ i \in kept => Range(charged[i]) = Owed(reqs[i].kind)
        /\ Range(charged[i]) \subseteq Owed(reqs[i].kind) /\ IsInjective(charged[i])
        /\ Range(charged[i]) \cap {"sender", "interopSender"} # {} =>
              /\ reqs[i].kind \in {"tx", "interop"}
              /\ Owed(reqs[i].kind) \ {"sender", "interopSender"} \subseteq Range(charged[i])
=============================================================================
