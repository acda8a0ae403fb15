---------------------------- MODULE BackendHealth ----------------------------
(***************************************************************************)
(* The health of a backend (doForward, ErrorRate, IsHealthy and IsDegraded *)
(* in backend.go): goroutines that serve requests add to three sliding     *)
(* windows, and the router and the poller of the group ask for verdicts.   *)
(* No lock spans two windows, nor two reads of one.                        *)
(***************************************************************************)
EXTENDS SlidingWindow

CONSTANTS
    Servers,            \* goroutines in doForward
    MaxRequests,        \* bound on the requests
    MinRequests,        \* 10: below that the error rate is 0
    MaxErrorPercent,    \* maxErrorRateThreshold
    Latencies,
    MaxLatency,         \* maxLatencyThreshold
    MaxDegraded         \* maxDegradedLatencyThreshold

ASSUME HealthAssumption ==
    Windows = {"requests", "errors", "latency"} /\ Latencies \subseteq Nat

VARIABLES
    sent,       \* requests begun
    server,     \* [Servers -> where doForward is, the window it adds to, and
                \*  the time Add has read]
    rpc,        \* where IsHealthy or IsDegraded is
    asked,      \* which of the two it is
    rate, avg,  \* what it has read
    verdict,    \* what it returned last
    quiet,      \* history: no point in a window since it was called
    sawError    \* history: an error was in the window while it summed them

serverVars == <<sent, server>>
readerVars == <<rpc, asked, rate, avg, verdict, quiet, sawError>>
vars == <<windowVars, serverVars, readerVars>>

NoRate == [errors |-> 0, requests |-> 0]
Idle == [at |-> "idle", w |-> "requests", t |-> 0]

Init ==
    /\ WindowInit
    /\ sent = 0 /\ server = [s \in Servers |-> Idle]
    /\ rpc = "idle" /\ asked = "health" /\ rate = NoRate /\ avg = Nothing
    /\ verdict = "none" /\ quiet = FALSE /\ sawError = FALSE

-----------------------------------------------------------------------------
(* doForward                                                               *)

(* Add and Incr read the clock before they take the lock.                  *)
StartAdd(s, w) == server' = [server EXCEPT ![s] = [at |-> "advance", w |-> w, t |-> now]]

(* networkRequestsSlidingWindow.Incr(), before the request is sent.        *)
Begin(s) ==
    /\ server[s].at = "idle" /\ sent < MaxRequests /\ sent' = sent + 1
    /\ StartAdd(s, "requests")
    /\ UNCHANGED <<windowVars, readerVars>>

(* The request fails, or it is answered, or it ends in a way that counts   *)
(* for neither (a canceled context, a response that is too large).         *)
End(s) ==
    /\ server[s].at = "sent"
    /\ \/ StartAdd(s, "errors")
       \/ StartAdd(s, "latency")
       \/ server' = [server EXCEPT ![s] = Idle]
    /\ UNCHANGED <<windowVars, sent, readerVars>>

(* The two locked parts of AddWithTime.                                    *)
AddAdvance(s) ==
    /\ server[s].at = "advance"
    /\ server' = [server EXCEPT ![s].at = "insert"]
    /\ Advance(server[s].w)
    /\ UNCHANGED <<sent, readerVars>>

AddInsert(s, v) ==
    /\ server[s].at = "insert"
    /\ Insert(server[s].w, server[s].t, IF server[s].w = "latency" THEN v ELSE 1)
    /\ server' = [server EXCEPT ![s] =
                     IF @.w = "requests" THEN [Idle EXCEPT !.at = "sent"] ELSE Idle]
    /\ quiet' = (quiet /\ ~InWindow(Round(server[s].t)))
    /\ sawError' = (sawError \/ (rpc = "errors" /\ server[s].w = "errors"
                                    /\ InWindow(Round(server[s].t))))
    /\ UNCHANGED <<sent, rpc, asked, rate, avg, verdict>>

-----------------------------------------------------------------------------
(* IsHealthy and IsDegraded.  The error rate and the average are also read *)
(* for metrics, which changes nothing that these calls do not.             *)

HasPoint(w) == \E k \in Keys : InWindow(k) /\ added[w][k].qty > 0

(* The first locked step of a call: of ErrorRate, or of Avg.               *)
Ask(what) ==
    /\ rpc = "idle" /\ asked' = what
    /\ IF what = "health" THEN rpc' = "count" /\ Advance("requests")
                          ELSE rpc' = "check" /\ Advance("latency")
    /\ verdict' = "none" /\ sawError' = FALSE
    /\ quiet' = \A w \in Windows : ~HasPoint(w)
    /\ UNCHANGED <<serverVars, rate, avg>>

(* "we only really start counting the error rate after a minimum of 10     *)
(* requests"                                                               *)
Enough(n) == n >= MinRequests

CountRequests ==
    /\ rpc = "count"
    /\ rpc' = IF Enough(win["requests"].sum) THEN "sum errors" ELSE "average"
    /\ UNCHANGED <<windowVars, serverVars, asked, rate, avg, verdict, quiet, sawError>>

SumErrors ==
    /\ rpc = "sum errors" /\ rpc' = "errors" /\ Advance("errors")
    /\ sawError' = HasPoint("errors")
    /\ UNCHANGED <<serverVars, asked, rate, avg, verdict, quiet>>

ReadErrors ==
    /\ rpc = "errors" /\ rpc' = "sum requests"
    /\ rate' = [rate EXCEPT !.errors = win["errors"].sum]
    /\ UNCHANGED <<windowVars, serverVars, asked, avg, verdict, quiet, sawError>>

SumRequests ==
    /\ rpc = "sum requests" /\ rpc' = "requests" /\ Advance("requests")
    /\ UNCHANGED <<serverVars, asked, rate, avg, verdict, quiet, sawError>>

ReadRequests ==
    /\ rpc = "requests" /\ rpc' = "average"
    /\ rate' = [rate EXCEPT !.requests = win["requests"].sum]
    /\ UNCHANGED <<windowVars, serverVars, asked, avg, verdict, quiet, sawError>>

AvgAdvance ==
    /\ rpc = "average" /\ rpc' = "check" /\ Advance("latency")
    /\ UNCHANGED <<serverVars, asked, rate, avg, verdict, quiet, sawError>>

(* Without the lock from here: an empty window has the average 0.          *)
AvgCheck ==
    /\ rpc = "check" /\ rpc' = IF win["latency"].qty = 0 THEN "judge" ELSE "load"
    /\ UNCHANGED <<windowVars, serverVars, asked, rate, avg, verdict, quiet, sawError>>

(* sum and qty are loaded in whichever order the compiler chose.           *)
AvgLoad(first) ==
    /\ \/ rpc = "load" /\ rpc' = (IF first = "sum" THEN "qty" ELSE "sum")
       \/ rpc = first /\ rpc' = "judge"
    /\ avg' = IF first = "sum" THEN [avg EXCEPT !.sum = win["latency"].sum]
                               ELSE [avg EXCEPT !.qty = win["latency"].qty]
    /\ UNCHANGED <<windowVars, serverVars, asked, rate, verdict, quiet, sawError>>

(* Mutants: the rate turned around, and none of none taken for all.        *)
TooManyErrorsOfNone == 100 * rate.errors >= MaxErrorPercent * rate.requests
TooManyErrorsSwapped == 100 * rate.requests >= MaxErrorPercent * rate.errors

(* errors / requests >= threshold in floating point: 0 / 0 is not a number *)
(* and compares false, and more than 0 / 0 is infinite.                    *)
TooManyErrors ==
    rate.errors > 0 /\ 100 * rate.errors >= MaxErrorPercent * rate.requests

(* The average as a time.Duration; what an infinite one is converted to    *)
(* depends on the machine.                                                 *)
AtLeast(limit) ==
    IF avg.qty = 0 THEN IF avg.sum = 0 THEN {FALSE} ELSE BOOLEAN
    ELSE {avg.sum >= limit * avg.qty}

Judge ==
    /\ rpc = "judge" /\ rpc' = "idle"
    /\ \E slow \in AtLeast(IF asked = "health" THEN MaxLatency ELSE MaxDegraded) :
          verdict' = IF asked = "health" /\ TooManyErrors THEN "errors"
                     ELSE IF slow THEN "slow" ELSE "fine"
    /\ rate' = NoRate /\ avg' = Nothing
    /\ UNCHANGED <<windowVars, serverVars, asked, quiet, sawError>>

-----------------------------------------------------------------------------
Server(s) == Begin(s) \/ End(s) \/ AddAdvance(s) \/ \E v \in Latencies : AddInsert(s, v)

Reader ==
    \/ \E what \in {"health", "degraded"} : Ask(what)
    \/ CountRequests \/ SumErrors \/ ReadErrors \/ SumRequests \/ ReadRequests
    \/ AvgAdvance \/ AvgCheck \/ (\E first \in {"sum", "qty"} : AvgLoad(first)) \/ Judge

Next == (Tick /\ UNCHANGED <<serverVars, readerVars>>) \/ (\E s \in Servers : Server(s)) \/ Reader

Spec == Init /\ [][Next]_vars

-----------------------------------------------------------------------------
(* A backend is out of service for its errors only if one of them is in    *)
(* the window: reading the windows one after the other, with eviction in   *)
(* between, never makes up a rate out of requests alone.                   *)
NoErrorsNoVerdict == verdict = "errors" => sawError

(* A backend with nothing in its windows is in service: one that gets no   *)
(* traffic because of its errors or latency comes back after the length of *)
(* a window, whatever was left in the buckets and in which order.          *)
QuietIsHealthy == quiet /\ verdict # "none" => verdict = "fine"
=============================================================================
