-------------------------- MODULE MulticallRouting --------------------------
(***************************************************************************)
(* The multicall routing strategy (ExecuteMulticall in backend.go): a      *)
(* transaction goes to every backend of the group at once, each request in *)
(* a goroutine of its own that outlives the caller; the caller takes       *)
(* responses from a channel until one is good, and the channel is closed   *)
(* after the last.  A goroutine calls Backend.Forward as BackendForward    *)
(* does; here only the attempts and the outcome of that matter.            *)
(***************************************************************************)
EXTENDS BackendForward

CONSTANT MulticallBackends      \* the backends of a group that multicalls

ASSUME MulticallAssumption ==
    /\ IsFiniteSet(MulticallBackends)
    /\ MulticallBackends \cap {"pending", "nothing"} = {}

(* What ForwardRequestToBackendGroup returns for one backend: a result, a  *)
(* JSON-RPC error the backend gave, or an error of its own.                *)
Answers == {"result", "rpcError", "error"}

VARIABLES
    multicallRPCErrorCheck,     \* configured: JSON-RPC errors are bad responses
    at,         \* [MulticallBackends -> request, send, wgDone, end]
    attempts,   \* [MulticallBackends -> attempts failed]
    outcome,    \* [MulticallBackends -> none, or what its request returned]
    ch,         \* the channel: backends in the order their response arrived
    closed,     \* close(ch) happened
    got,        \* responses ProcessMulticallResponses took, in order
    finalResp,  \* the backend of the last bad response, or none
    response    \* pending, a backend whose response is returned, or nothing

multicall == <<multicallRPCErrorCheck, at, attempts, outcome, ch, closed, got,
               finalResp, response>>

MulticallInit ==
    /\ multicallRPCErrorCheck \in BOOLEAN
    /\ at = [b \in MulticallBackends |-> "request"]
    /\ attempts = [b \in MulticallBackends |-> 0]
    /\ outcome = [b \in MulticallBackends |-> "none"]
    /\ ch = << >> /\ closed = FALSE
    /\ got = << >> /\ finalResp = "none" /\ response = "pending"

(* A failed attempt with tries left: Backend.Forward backs off and goes on. *)
Retry(b) ==
    /\ at[b] = "request" /\ TriesLeft(attempts[b])
    /\ attempts' = [attempts EXCEPT ![b] = @ + 1]
    /\ UNCHANGED <<multicallRPCErrorCheck, at, outcome, ch, closed, got, finalResp, response>>

(* The request ends with an answer, with an error that is not tried again, *)
(* or with the error of the last try.                                      *)
Respond(b, o) ==
    /\ at[b] = "request"
    /\ at' = [at EXCEPT ![b] = "send"]
    /\ outcome' = [outcome EXCEPT ![b] = o]
    /\ UNCHANGED <<multicallRPCErrorCheck, attempts, ch, closed, got, finalResp, response>>

Send(b) ==
    /\ at[b] = "send" /\ at' = [at EXCEPT ![b] = "wgDone"]
    /\ Len(ch) < Cardinality(MulticallBackends)
    /\ ch' = Append(ch, b)
    /\ UNCHANGED <<multicallRPCErrorCheck, attempts, outcome, closed, got, finalResp, response>>

(* The deferred wg.Done().                                                 *)
WgDone(b) ==
    /\ at[b] = "wgDone" /\ at' = [at EXCEPT ![b] = "end"]
    /\ UNCHANGED <<multicallRPCErrorCheck, attempts, outcome, ch, closed, got, finalResp, response>>

(* Mutant: the channel is closed once all requests have ended, not sent.   *)
AllDoneEarly == \A b \in MulticallBackends : at[b] # "request"

AllDone == \A b \in MulticallBackends : at[b] = "end"

CloseChannel ==
    /\ ~closed /\ AllDone
    /\ closed' = TRUE
    /\ UNCHANGED <<multicallRPCErrorCheck, at, attempts, outcome, ch, got, finalResp, response>>

Good(o) == o = "result" \/ (o = "rpcError" /\ ~multicallRPCErrorCheck)

(* Mutant: the first response is returned, whatever it is.                 *)
ReturnedAtOnce(b) == b

Returned(b) == IF Good(outcome[b]) THEN b ELSE "pending"

Receive ==
    /\ response = "pending" /\ ch # << >>
    /\ ch' = Tail(ch)
    /\ got' = Append(got, Head(ch))
    /\ response' = Returned(Head(ch))
    /\ finalResp' = IF Good(outcome[Head(ch)]) THEN finalResp ELSE Head(ch)
    /\ UNCHANGED <<multicallRPCErrorCheck, at, attempts, outcome, closed>>

ReceiveClosed ==
    /\ response = "pending" /\ closed /\ ch = << >>
    /\ response' = IF got # << >> THEN finalResp ELSE "nothing"
    /\ UNCHANGED <<multicallRPCErrorCheck, at, attempts, outcome, ch, closed, got, finalResp>>

Goroutine(b) == Retry(b) \/ Send(b) \/ WgDone(b) \/ \E o \in Answers : Respond(b, o)

MulticallNext ==
    \/ \E b \in MulticallBackends : Goroutine(b)
    \/ CloseChannel \/ Receive \/ ReceiveClosed

-----------------------------------------------------------------------------
(* "return the first successful response": a good response is returned the *)
(* moment it is received, before the rest; the client gets a bad one only  *)
(* if no backend gave a good one, then the last to arrive, and never the   *)
(* nil of a loop that saw none.                                            *)
FirstGoodOrLastBad ==
    /\ \A i \in 1..Len(got) : Good(outcome[got[i]]) => i = Len(got) /\ response = got[i]
    /\ response # "pending" /\ (response \in MulticallBackends => ~Good(outcome[response])) =>
          /\ \A b \in MulticallBackends : ~Good(outcome[b])
          /\ Range(got) = MulticallBackends
          /\ MulticallBackends # {} => response = got[Len(got)]

(* No response is sent on a closed channel, which would be a panic: the    *)
(* WaitGroup is released after the send.                                   *)
NoSendAfterClose ==
    closed => \A b \in MulticallBackends : at[b] \notin {"request", "send"}
=============================================================================
