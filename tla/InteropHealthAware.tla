------------------------- MODULE InteropHealthAware -------------------------
(***************************************************************************)
(* The health-aware load balancing strategy (interop_strategy.go).  The    *)
(* requests share a rotating index into the supervisors and the time each  *)
(* supervisor was last found unhealthy, which is read and written without  *)
(* a lock.                                                                 *)
(***************************************************************************)
EXTENDS Naturals, FiniteSets

CONSTANTS
    Requests,
    Size,           \* number of supervisors
    Timeout         \* unhealthinessTimeout, in clock ticks

ASSUME SizeAssumption == Size \in Nat \ {0} /\ Timeout \in Nat \ {0}

Backends == 0..(Size - 1)
Answers  == {"ok", "invalid", "down"}

VARIABLES
    index,      \* currentBackendIndex
    left,       \* [Backends -> ticks until it is healthy again]
    pc,         \* [Requests -> where ValidateAccessList is]
    backend,    \* [Requests -> its local backend]
    retryCount,
    heard,      \* [Requests -> kinds of answers it got]
    seen,       \* [Requests -> supervisors it found unhealthy]
    verdict,    \* [Requests -> pending, accept, reject, exhausted]
    overlapped  \* history: requests that ran while another one did

vars == <<index, left, pc, backend, retryCount, heard, seen, verdict, overlapped>>

Init ==
    /\ index = 0
    /\ left = [b \in Backends |-> 0]
    /\ pc = [r \in Requests |-> "start"]
    /\ backend = [r \in Requests |-> 0]
    /\ retryCount = [r \in Requests |-> 0]
    /\ heard = [r \in Requests |-> {}]
    /\ seen = [r \in Requests |-> {}]
    /\ verdict = [r \in Requests |-> "pending"]
    /\ overlapped = {}

Goto(r, l) == pc' = [pc EXCEPT ![r] = l]

InFlight == {r \in Requests : pc[r] \notin {"start", "done"}}

(* The preflight checks let the access list pass, or refuse it.            *)
Preflight(r, passes) ==
    /\ pc[r] = "start"
    /\ overlapped' = IF InFlight = {} THEN overlapped
                     ELSE overlapped \cup InFlight \cup {r}
    /\ IF passes
       THEN Goto(r, "get") /\ UNCHANGED verdict
       ELSE Goto(r, "deferred") /\ verdict' = [verdict EXCEPT ![r] = "reject"]
    /\ UNCHANGED <<index, left, backend, retryCount, heard, seen>>

GetBackend(r) ==
    /\ pc[r] = "get" /\ Goto(r, "loop")
    /\ backend' = [backend EXCEPT ![r] = index]
    /\ UNCHANGED <<index, left, retryCount, heard, seen, verdict, overlapped>>

(* What IsHealthy may return: while another request writes lastUnhealthy,  *)
(* anything.                                                               *)
IsHealthy(b) ==
    IF \E r \in Requests : pc[r] = "mark" /\ backend[r] = b
    THEN BOOLEAN ELSE {left[b] = 0}

(* Mutant: a loop that tries one supervisor less.                          *)
RetriesLeftShort(n) == n + 1 < Size

RetriesLeft(n) == n < Size

Loop(r, healthy) ==
    /\ pc[r] = "loop" /\ RetriesLeft(retryCount[r])
    /\ healthy \in IsHealthy(backend[r])
    /\ Goto(r, IF healthy THEN "validate" ELSE "next")
    /\ seen' = IF healthy THEN seen
               ELSE [seen EXCEPT ![r] = @ \cup {backend[r]}]
    /\ UNCHANGED <<index, left, backend, retryCount, heard, verdict, overlapped>>

Exhausted(r) ==
    /\ pc[r] = "loop" /\ ~RetriesLeft(retryCount[r]) /\ Goto(r, "deferred")
    /\ verdict' = [verdict EXCEPT ![r] = "exhausted"]
    /\ UNCHANGED <<index, left, backend, retryCount, heard, seen, overlapped>>

(* Mutant: any answer of a supervisor that is up lets the request through. *)
VerdictOfLenient(a) == IF a = "down" THEN "pending" ELSE "accept"

(* A status of 500 or more is no verdict: the next supervisor is tried.    *)
VerdictOf(a) ==
    CASE a = "ok" -> "accept" [] a = "invalid" -> "reject" [] a = "down" -> "pending"

Validate(r, a) ==
    /\ pc[r] = "validate" /\ Goto(r, "answered")
    /\ heard' = [heard EXCEPT ![r] = @ \cup {a}]
    /\ UNCHANGED <<index, left, backend, retryCount, seen, verdict, overlapped>>

(* The call returned a; `heard` also holds the "down" of earlier tries.    *)
Answered(r, a) ==
    /\ pc[r] = "answered" /\ a \in heard[r]
    /\ heard[r] \ {"down"} # {} => a # "down"
    /\ verdict' = [verdict EXCEPT ![r] = VerdictOf(a)]
    /\ Goto(r, IF VerdictOf(a) = "pending" THEN "mark" ELSE "deferred")
    /\ UNCHANGED <<index, left, backend, retryCount, heard, seen, overlapped>>

MarkUnhealthy(r) ==
    /\ pc[r] = "mark" /\ Goto(r, "next")
    /\ left' = [left EXCEPT ![backend[r]] = Timeout]
    /\ seen' = [seen EXCEPT ![r] = @ \cup {backend[r]}]
    /\ UNCHANGED <<index, backend, retryCount, heard, verdict, overlapped>>

Rotated == (index + 1) % Size

(* Mutant: a retry that is not counted.                                    *)
CountedNever(n) == n

Counted(n) == n + 1

(* NextBackend, then the loop's increment.                                 *)
NextBackend(r) ==
    /\ pc[r] = "next" /\ Goto(r, "loop")
    /\ index' = Rotated
    /\ backend' = [backend EXCEPT ![r] = Rotated]
    /\ retryCount' = [retryCount EXCEPT ![r] = Counted(@)]
    /\ UNCHANGED <<left, heard, seen, verdict, overlapped>>

Deferred(r) ==
    /\ pc[r] = "deferred" /\ Goto(r, "done")
    /\ index' = Rotated
    /\ UNCHANGED <<left, backend, retryCount, heard, seen, verdict, overlapped>>

Tick ==
    /\ \E b \in Backends : left[b] > 0
    /\ left' = [b \in Backends |-> IF left[b] = 0 THEN 0 ELSE left[b] - 1]
    /\ UNCHANGED <<index, pc, backend, retryCount, heard, seen, verdict, overlapped>>

Step(r) ==
    \/ \E passes \in BOOLEAN : Preflight(r, passes)
    \/ GetBackend(r)
    \/ \E healthy \in BOOLEAN : Loop(r, healthy)
    \/ Exhausted(r)
    \/ \E a \in Answers : Validate(r, a) \/ Answered(r, a)
    \/ MarkUnhealthy(r)
    \/ NextBackend(r)
    \/ Deferred(r)

Next == Tick \/ \E r \in Requests : Step(r)

Spec == Init /\ [][Next]_vars

-----------------------------------------------------------------------------
(* However the requests interleave, each is accepted only on the word of a *)
(* supervisor, and none that a supervisor approved is rejected.            *)
Promise == INSTANCE InteropValidation WITH
    verdict <- [r \in Requests |->
                  IF verdict[r] = "exhausted" THEN "reject" ELSE verdict[r]]
KeepsPromise == Promise!Spec

(* ValidateAccessList says "no healthy supervisor backends found" only     *)
(* after it found every supervisor unhealthy.  Requests that overlap move  *)
(* the shared index under each other and can skip a supervisor, so this is *)
(* the promise to a request that had the strategy to itself.               *)
ExhaustedAfterAll ==
    \A r \in Requests \ overlapped : verdict[r] = "exhausted" => seen[r] = Backends

(* "retries prevents an infinite loop in case all backends are unhealthy": *)
(* every request is answered, also when no supervisor ever recovers.       *)
EveryRequestAnswered ==
    \A r \in Requests : pc[r] = "get" ~> verdict[r] # "pending"
=============================================================================
