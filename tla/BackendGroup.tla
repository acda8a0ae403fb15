---------------------------- MODULE BackendGroup ----------------------------
(***************************************************************************)
(* BackendGroup.Forward (backend.go): a transaction sent to a group whose  *)
(* routing strategy is multicall goes to all its backends at once, as in   *)
(* MulticallRouting; any other request to one backend after the other, as  *)
(* in BackendForward.  A request of a multicall group that is not a single *)
(* transaction takes the way of the fallback strategy.                     *)
(***************************************************************************)
EXTENDS MulticallRouting

all == <<vars, multicall>>

GroupInit ==
    /\ Init /\ MulticallInit
    /\ routing # "multicall" => ~multicallRPCErrorCheck
    /\ routing = "multicall" => \A r \in Requests : method[r] = "plain"

ExecuteMulticall ==
    /\ routing = "multicall" /\ MulticallNext
    /\ UNCHANGED vars

ForwardRequestToBackendGroup ==
    /\ routing # "multicall" /\ Next
    /\ UNCHANGED multicall

GroupNext == ExecuteMulticall \/ ForwardRequestToBackendGroup

Forwarding(r) == routing # "multicall" /\ Progress(r) /\ UNCHANGED multicall
Multicalling(A) == routing = "multicall" /\ A /\ UNCHANGED vars

(* Calls end, with the client's timeout if need be, and the semaphore      *)
(* serves its waiters in turn; the goroutines of a multicall run.          *)
Fairness ==
    /\ \A r \in Requests : SF_all(Forwarding(r))
    /\ WF_all(Multicalling(CloseChannel))
    /\ WF_all(Multicalling(Receive \/ ReceiveClosed))
    /\ \A b \in MulticallBackends : WF_all(Multicalling(Goroutine(b)))

GroupSpec == GroupInit /\ [][GroupNext]_all /\ Fairness

-----------------------------------------------------------------------------
(* Every request comes to an end, with the semaphore at its limit as well; *)
(* that of a multicall when it is answered, with the channel closed behind *)
(* it though the caller has left.                                          *)
EveryRequestEnds ==
    <>(IF routing = "multicall" THEN response # "pending" /\ closed
                                ELSE \A r \in Requests : pc[r] = "done")
=============================================================================
