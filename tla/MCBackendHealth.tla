--------------------------- MODULE MCBackendHealth ---------------------------
(* An instance of BackendHealth for TLC.                                   *)
EXTENDS BackendHealth, TLC

Symmetry == Permutations(Servers)

(* What was added before the window no longer matters, and of a call that  *)
(* has returned only what the invariants say of it.                        *)
HealthView ==
    <<now, win, serverVars,
      [w \in Windows |-> [k \in Keys |-> IF AfterWindowStart(k) THEN added[w][k] ELSE Nothing]],
      IF rpc = "idle" THEN <<NoErrorsNoVerdict, QuietIsHealthy>> ELSE <<readerVars>> >>
=============================================================================
