----------------------------- MODULE MCLifecycle -----------------------------
(***************************************************************************)
(* Both servers with few messages, and the WS server alone with more.      *)
(***************************************************************************)
EXTENDS Lifecycle

MCDeployments == {{"rpc", "ws"}, {"ws"}}
MCMaxMessages == [d \in MCDeployments |-> IF d = {"ws"} THEN 2 ELSE 1]
=============================================================================
