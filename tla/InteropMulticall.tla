-------------------------- MODULE InteropMulticall --------------------------
(***************************************************************************)
(* One ValidateAccessList of the multicall strategy (interop_strategy.go): *)
(* a goroutine per supervisor sends its result into a buffered channel,    *)
(* the caller receives until it has a success or all the results, and a    *)
(* third goroutine drains the channel once all senders are done.           *)
(***************************************************************************)
EXTENDS Naturals, Sequences, FiniteSets, Functions

CONSTANTS
    Supervisors, Accesses,      \* the urls; what an access list may name
    Malformed,                  \* an entry ParseAccess refuses
    MaxList,                    \* bound on the length of an access list
    AccessListSizeLimit         \* in accesses; 0 is no limit

ASSUME SupervisorsAssumption == Supervisors # {} /\ IsFiniteSet(Supervisors)
ASSUME ListAssumption == MaxList \in Nat

VARIABLES
    list,       \* the access list of the transaction
    sent,       \* what is sent to the supervisors
    caller,     \* where the caller is: start, receive, done
    result,     \* [Supervisors -> none, running, or the answer it gave]
    chan,       \* resultChan
    draining,   \* the third goroutine is past wg.Wait()
    received,   \* results the caller has taken
    firstErr,   \* the first error among them
    decision    \* pending, accept, or reject

multicall == <<list, sent, caller, result, chan, draining, received, firstErr, decision>>

Errors  == {"invalid", "down"}
Results == Errors \cup {"ok"}
Lists   == UNION {[1..n -> Accesses \cup {Malformed}] : n \in 1..MaxList}

MulticallInit ==
    /\ list \in Lists /\ sent = << >>
    /\ caller = "start"
    /\ result = [s \in Supervisors |-> "none"]
    /\ chan = << >> /\ draining = FALSE
    /\ received = 0 /\ firstErr = "none" /\ decision = "pending"

(* Mutant: a deduplication that compares neighbours only.                  *)
DeduplicateNeighbours(l) ==
    LET kept[n \in 0..Len(l)] ==
            IF n = 0 THEN << >>
            ELSE IF n > 1 /\ l[n] = l[n - 1] THEN kept[n - 1] ELSE Append(kept[n - 1], l[n])
    IN  kept[Len(l)]

(* validateAndDeduplicateInteropAccessList keeps the first of equal        *)
(* accesses, in order: kept is what it has after n of them.                *)
Deduplicate(l) ==
    LET kept[n \in 0..Len(l)] ==
            IF n = 0 THEN << >>
            ELSE IF l[n] \in Range(kept[n - 1]) THEN kept[n - 1] ELSE Append(kept[n - 1], l[n])
    IN  kept[Len(l)]

(* preflightChecksAndCleanupAccessList, for a list of urls that is not     *)
(* empty and the options NewServer uses.                                   *)
PreflightChecks(l) ==
    /\ Malformed \notin Range(l)
    /\ AccessListSizeLimit > 0 => Len(Deduplicate(l)) <= AccessListSizeLimit

Begin ==
    /\ caller = "start"
    /\ IF PreflightChecks(list)
       THEN /\ sent' = Deduplicate(list)
            /\ result' = [s \in Supervisors |-> "running"]
            /\ caller' = "receive" /\ UNCHANGED decision
       ELSE caller' = "done" /\ decision' = "reject" /\ UNCHANGED <<sent, result>>
    /\ UNCHANGED <<list, chan, draining, received, firstErr>>

(* performCheckAccessListOp of one supervisor and the send of its result;  *)
(* the channel has room for all of them.                                   *)
Finish(s, a) ==
    /\ result[s] = "running"
    /\ result' = [result EXCEPT ![s] = a]
    /\ chan' = Append(chan, a)
    /\ UNCHANGED <<list, sent, caller, draining, received, firstErr, decision>>

(* wg.Wait() returns once every sender is done.                            *)
AllSent ==
    /\ ~draining /\ draining' = TRUE
    /\ \A s \in Supervisors : result[s] \in Results
    /\ UNCHANGED <<list, sent, caller, result, chan, received, firstErr, decision>>

(* `for range resultChan` takes whatever is there.  Nobody closes the      *)
(* channel, so the loop has no end.                                        *)
Drain ==
    /\ draining /\ chan # << >>
    /\ chan' = Tail(chan)
    /\ UNCHANGED <<list, sent, caller, result, draining, received, firstErr, decision>>

(* Mutant: a caller that gives up one result early.                        *)
AllReceivedButOne(n) == n + 1 >= Cardinality(Supervisors)

AllReceived(n) == n = Cardinality(Supervisors)

Receive ==
    /\ caller = "receive" /\ chan # << >>
    /\ chan' = Tail(chan)
    /\ IF Head(chan) = "ok"
       THEN caller' = "done" /\ decision' = "accept" /\ UNCHANGED <<received, firstErr>>
       ELSE /\ received' = received + 1
            /\ firstErr' = IF firstErr = "none" THEN Head(chan) ELSE firstErr
            /\ IF AllReceived(received')
               THEN caller' = "done" /\ decision' = "reject"
               ELSE UNCHANGED <<caller, decision>>
    /\ UNCHANGED <<list, sent, result, draining>>

MulticallNext ==
    \/ Begin
    \/ \E s \in Supervisors, a \in Results : Finish(s, a)
    \/ AllSent
    \/ Drain
    \/ Receive

MulticallSpec == MulticallInit /\ [][MulticallNext]_multicall

(* Goroutines that can run do run, and every supervisor call ends.         *)
MulticallFairSpec ==
    /\ MulticallSpec
    /\ WF_multicall(Begin) /\ WF_multicall(Receive)
    /\ WF_multicall(AllSent) /\ WF_multicall(Drain)
    /\ \A s \in Supervisors : WF_multicall(\E a \in Results : Finish(s, a))

-----------------------------------------------------------------------------
(* Multicall keeps the promise of InteropValidation: in particular the     *)
(* goroutine that drains the channel cannot make ValidateAccessList return *)
(* an error when a supervisor approved.                                    *)
MulticallPromise == INSTANCE InteropValidation WITH
    Requests <- {"tx"},
    heard    <- [r \in {"tx"} |-> {result[s] : s \in Supervisors} \cap Results],
    verdict  <- [r \in {"tx"} |-> decision]
MulticallKeepsPromise == MulticallPromise!Spec

(* Multicall has every access of the transaction checked, each one once    *)
(* and in the order of the transaction.                                    *)
AllAccessesChecked ==
    sent # << >> =>
        /\ Range(sent) = Range(list) /\ IsInjective(sent)
        /\ \A i, j \in 1..Len(sent) : i < j =>
              \E k \in 1..Len(list) :
                 list[k] = sent[i] /\ \A m \in 1..k : list[m] # sent[j]

(* The comment on the result: success "if at least one backend responds    *)
(* successfully", failure "if all the backends respond with an error"; so  *)
(* once all have responded the caller has its answer.                      *)
AnsweredOnceAllRespond ==
    (\A s \in Supervisors : result[s] \in Results) ~> decision # "pending"
=============================================================================
