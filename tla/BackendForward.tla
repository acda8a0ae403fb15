---------------------------- MODULE BackendForward ----------------------------
(***************************************************************************)
(* How a request reaches a backend (backend.go): the order in which the    *)
(* backends of a group are tried, the attempts at each of them, the        *)
(* semaphore all backends share, and what becomes of the errors.  Requests *)
(* run concurrently, and the context of each may be canceled by the client *)
(* or run out at any time.  Backoff is left out: only its end matters.     *)
(***************************************************************************)
EXTENDS Naturals, Sequences, FiniteSets, Functions

CONSTANTS
    Requests,
    Group,          \* the backends of the group, a sequence
    WeightedRouting,
    MaxRetries,
    Permits,        \* max_concurrent_rpcs
    Methods         \* those of the requests

Backends == Range(Group)
MetaMethods == {"receipts", "badReceipts"}  \* consensus_getReceipts, by its params

ASSUME ForwardAssumption ==
    /\ IsFiniteSet(Requests)
    /\ Group \in Seq(Backends) /\ IsInjective(Group)
    /\ MaxRetries \in Nat /\ Permits \in Nat \ {0}
    /\ Methods \subseteq MetaMethods \cup {"plain", "batchedReceipts"}
    /\ Backends \cap (MetaMethods \cup {"plain", "batchedReceipts"}) = {}

Healths  == {"healthy", "degraded", "unhealthy"}
NoResult == [kind |-> "none", by |-> "none", wrapped |-> FALSE, target |-> "none"]

VARIABLES
    routing,    \* the routing strategy of the group, configured
    pc,         \* [Requests -> start, attempt, acquire, call, done]
    order,      \* [Requests -> the backends still to be tried, in order]
    tries,      \* [Requests -> attempts at the first of them that failed]
    method,     \* [Requests -> the method now in the request, or its target]
    wrap,       \* [Requests -> translatedReqs of this attempt has it]
    ctx,        \* [Requests -> live, canceled, expired]
    result,     \* [Requests -> what the client gets]
    unserviceable,  \* requests RecordUnserviceableRequest counted
    inUse,      \* permits of the semaphore taken
    requests, errors,   \* [Backends -> data points of the two windows]
    asked       \* [Requests -> backends it was sent to]

vars == <<routing, pc, order, tries, method, wrap, ctx, result, unserviceable,
          inUse, requests, errors, asked>>
request == <<order, tries, method, wrap, result, unserviceable>>

Zero == [b \in Backends |-> 0]

Init ==
    /\ routing \in {"fallback", "consensus_aware", "multicall"}
    /\ pc = [r \in Requests |-> "start"]
    /\ order = [r \in Requests |-> << >>] /\ tries = [r \in Requests |-> 0]
    /\ method \in [Requests -> Methods]
    /\ wrap = [r \in Requests |-> FALSE] /\ ctx = [r \in Requests |-> "live"]
    /\ result = [r \in Requests |-> NoResult] /\ unserviceable = {}
    /\ inUse = 0
    /\ requests = Zero /\ errors = Zero
    /\ asked = [r \in Requests |-> {}]

Goto(r, l) == pc' = [pc EXCEPT ![r] = l]
Incr(f, b) == [f EXCEPT ![b] = @ + 1]
Consensus == routing = "consensus_aware"
Target(b) == b      \* the consensus_receipts_target of b

(* orderedBackendsForRequest: without consensus the unhealthy backends     *)
(* come last; with it the members of the consensus group are shuffled,     *)
(* the degraded come last and the unhealthy are left out.                  *)
Members(health) == {b \in Backends : Consensus => health[b] # "unhealthy"}
ComesLast(h) == h = IF Consensus THEN "degraded" ELSE "unhealthy"
Shuffled == Consensus \/ WeightedRouting
Before(b, c) == \E i, j \in DOMAIN Group : i < j /\ Group[i] = b /\ Group[j] = c
Arrangements(S) == UNION {Bijection(1..n, S) : n \in 0..Len(Group)}
Orders(health) ==
    {o \in Arrangements(Members(health)) :
        \A i, j \in DOMAIN o : i < j =>
            /\ ComesLast(health[o[i]]) => ComesLast(health[o[j]])
            /\ \/ Shuffled \/ Before(o[i], o[j])
               \/ ComesLast(health[o[j]]) /\ ~ComesLast(health[o[i]])}

Start(r) ==
    /\ pc[r] = "start" /\ Goto(r, "attempt")
    /\ \E health \in [Backends -> Healths] : \E o \in Orders(health) :
          order' = [order EXCEPT ![r] = o]
    /\ UNCHANGED <<routing, tries, method, wrap, ctx, result, unserviceable, inUse,
                   requests, errors, asked>>

(* BackendGroup.ForwardRequestToBackendGroup gives the client this error.  *)
Return(r, kind, by) ==
    /\ Goto(r, "done")
    /\ result' = [result EXCEPT ![r] = [kind |-> kind, by |-> by,
                     wrapped |-> kind = "response" /\ wrap[r], target |-> method[r]]]
    /\ UNCHANGED <<order, tries, unserviceable>>

NoBackends(r) ==
    /\ pc[r] = "attempt" /\ order[r] = << >>
    /\ Goto(r, "done")
    /\ result' = [result EXCEPT ![r].kind = "noBackends"]
    /\ unserviceable' = unserviceable \cup {r}
    /\ UNCHANGED <<routing, order, tries, method, wrap, ctx, inUse, requests, errors, asked>>

Recorded(r) == Incr(requests, Head(order[r]))

TriesLeft(n) == n < MaxRetries

(* Mutant: the first backend that fails ends the loop.                     *)
NextBackendsNone(s) == << >>

NextBackends(s) == Tail(s)

(* The `default` case of Backend.Forward: another attempt, or the next     *)
(* backend when there is none left.                                        *)
TryAgain(r) ==
    /\ Goto(r, "attempt")
    /\ IF TriesLeft(tries[r])
       THEN tries' = [tries EXCEPT ![r] = @ + 1] /\ UNCHANGED order
       ELSE /\ tries' = [tries EXCEPT ![r] = 0]
            /\ order' = [order EXCEPT ![r] = NextBackends(@)]
    /\ UNCHANGED <<result, unserviceable>>

(* Mutant: translatedReqs is shared by the attempts.                       *)
TranslatedOnce(r) == wrap[r] \/ method[r] = "receipts"

(* translatedReqs is made anew by each attempt, from what it finds.        *)
Translated(r) == method[r] = "receipts"

(* doForward up to the HTTP request.  The method is replaced in the        *)
(* request itself: the next attempt sees the target, not the meta method.  *)
(* Parameters that do not parse are found after that, and are an error     *)
(* that is tried again.                                                    *)
Attempt(r) ==
    /\ pc[r] = "attempt" /\ order[r] # << >>
    /\ requests' = Recorded(r)
    /\ wrap' = [wrap EXCEPT ![r] = Translated(r)]
    /\ method' = IF method[r] \in MetaMethods
                 THEN [method EXCEPT ![r] = Target(Head(order[r]))] ELSE method
    /\ CASE method[r] = "batchedReceipts" -> Return(r, "cantBeBatched", "none")
         [] method[r] = "badReceipts" -> TryAgain(r)
         [] OTHER -> Goto(r, "acquire") /\ UNCHANGED <<order, tries, result, unserviceable>>
    /\ UNCHANGED <<routing, ctx, inUse, errors, asked>>

(* The semaphore is not given to a context that has ended.                 *)
Acquire(r) ==
    /\ pc[r] = "acquire" /\ ctx[r] = "live"
    /\ inUse < Permits /\ inUse' = inUse + 1
    /\ Goto(r, "call")
    /\ UNCHANGED <<routing, request, ctx, requests, errors, asked>>

(* The semaphore's Acquire fails with the context.  DoLimited turns a      *)
(* cancellation into ErrContextCanceled, which Forward does not retry, and *)
(* a deadline into an error like any other; both count as network errors.  *)
AcquireFails(r) ==
    /\ pc[r] = "acquire" /\ ctx[r] # "live"
    /\ errors' = Incr(errors, Head(order[r]))
    /\ IF ctx[r] = "canceled"
       THEN Return(r, "canceled", "none") ELSE TryAgain(r)
    /\ UNCHANGED <<routing, method, wrap, ctx, inUse, requests, asked>>

(* Mutant: a permit that is lost when the call fails.                      *)
ReleasedIfServed(o) == IF o = "response" THEN inUse - 1 ELSE inUse

Released(o) == inUse - 1

(* How an HTTP request may end, by what Forward and its caller make of it. *)
(* A response, and one that is too large, end the request; one that is not *)
(* the batch asked for is not tried again but fails over; all other errors *)
(* are tried again, that of an interrupted call among them.                *)
Outcomes(r) ==
    {"response", "tooLarge", "unexpected", "badResponse", "failed"}
        \cup (IF ctx[r] = "live" THEN {} ELSE {"interrupted"})

Counted(r, o) ==
    o \in {"unexpected", "failed"} \/ (o = "interrupted" /\ ctx[r] = "expired")

Call(r, o) ==
    LET b == Head(order[r]) IN
    /\ pc[r] = "call" /\ o \in Outcomes(r)
    /\ inUse' = Released(o)
    /\ errors' = IF Counted(r, o) THEN Incr(errors, b) ELSE errors
    /\ asked' = [asked EXCEPT ![r] = @ \cup {b}]
    /\ CASE o \in {"response", "tooLarge"} -> Return(r, o, b)
         [] o = "unexpected" ->
              /\ Goto(r, "attempt")
              /\ order' = [order EXCEPT ![r] = NextBackends(@)]
              /\ tries' = [tries EXCEPT ![r] = 0]
              /\ UNCHANGED <<result, unserviceable>>
         [] OTHER -> TryAgain(r)
    /\ UNCHANGED <<routing, method, wrap, ctx, requests>>

(* The client goes away, or the timeout of the server is up.               *)
ContextEnds(r, how) ==
    /\ pc[r] \in {"attempt", "acquire", "call"} /\ order[r] # << >>
    /\ ctx[r] = "live"
    /\ ctx' = [ctx EXCEPT ![r] = how]
    /\ UNCHANGED <<routing, pc, request, inUse, requests, errors, asked>>

Progress(r) ==
    \/ Start(r) \/ NoBackends(r) \/ Attempt(r) \/ Acquire(r) \/ AcquireFails(r)
    \/ \E o \in {"response", "tooLarge", "unexpected", "badResponse", "failed",
                 "interrupted"} : Call(r, o)

Next ==
    \E r \in Requests :
        Progress(r) \/ \E how \in {"canceled", "expired"} : ContextEnds(r, how)

Spec == Init /\ [][Next]_vars

-----------------------------------------------------------------------------
InCall == {r \in Requests : pc[r] = "call"}
InAttempt(b) ==
    {r \in Requests : pc[r] \in {"acquire", "call"} /\ order[r] # << >> /\ Head(order[r]) = b}

(* Every permit taken belongs to a call in progress, whichever way calls   *)
(* and contexts end: DoLimited loses none and frees none twice.  And every *)
(* error counted belongs to an attempt that was counted before it and that *)
(* is over, so that the error rate of a backend never exceeds 1.           *)
CallsAccounted ==
    /\ inUse = Cardinality(InCall)
    /\ \A b \in Backends : errors[b] + Cardinality(InAttempt(b)) <= requests[b]

(* Without consensus, a request whose context is intact is unserviceable   *)
(* only after every backend of the group was asked, the unhealthy ones and *)
(* those past the first that failed included.  The one exception: without  *)
(* retries, parameters of consensus_getReceipts that do not parse use up   *)
(* the attempt at the backend whose target the request then carries.       *)
UnserviceableAfterAll ==
    \A r \in unserviceable : ~Consensus /\ ctx[r] = "live" =>
        \/ asked[r] = Backends
        \/ MaxRetries = 0 /\ \E b \in Backends :
              method[r] = Target(b) /\ Backends \ {b} \subseteq asked[r]

(* "The selected target is returned in the response, in a wrapped result"; *)
(* the target is that of the backend that answers, and an answer without   *)
(* it is that of a retry, or of a backend asked with another's target.     *)
UnwrappedOnlyOnRetry ==
    \A r \in Requests : result[r].kind = "response" /\ method[r] \in Backends =>
        IF result[r].wrapped THEN result[r].target = Target(result[r].by)
                             ELSE tries[r] > 0 \/ method[r] # Target(result[r].by)
=============================================================================
