------------------------- MODULE InteropStrategies -------------------------
(***************************************************************************)
(* The interop validation of a server: Start builds one strategy from the  *)
(* configuration (proxyd.go), and every access list goes through it.  The  *)
(* variables of the strategy that was not chosen keep their first values.  *)
(***************************************************************************)
EXTENDS InteropHealthAware, InteropMulticall

VARIABLE strategy       \* multicall or health-aware-load-balancing

all == <<strategy, vars, multicall>>

StrategyInit ==
    /\ strategy \in {"multicall", "healthAware"}
    /\ Init /\ MulticallInit
    /\ strategy = "healthAware" => \E a \in Accesses : list = <<a>>

ValidateMulticall ==
    /\ strategy = "multicall" /\ MulticallNext
    /\ UNCHANGED <<strategy, vars>>

ValidateHealthAware ==
    /\ strategy = "healthAware" /\ Next
    /\ UNCHANGED <<strategy, multicall>>

HandlerStep(r) ==
    /\ strategy = "healthAware" /\ Step(r)
    /\ UNCHANGED <<strategy, multicall>>

StrategyNext == ValidateMulticall \/ ValidateHealthAware

(* Handlers keep running, calls to a supervisor end; the clock may stop.   *)
StrategySpec ==
    /\ StrategyInit /\ [][StrategyNext]_all
    /\ \A r \in Requests : WF_all(HandlerStep(r))
=============================================================================
