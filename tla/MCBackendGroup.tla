--------------------------- MODULE MCBackendGroup ---------------------------
(* A group of two backends for TLC, and a larger one that multicalls.  One *)
(* request is plain; the methods that need care are tried with the routing *)
(* strategy under which they end up in most orders.                        *)
EXTENDS BackendGroup

CONSTANTS b1, b2, r1, r2

Two == <<b1, b2>>

MCInit ==
    /\ GroupInit
    /\ method[r2] = "plain"
    /\ routing = "fallback" => method[r1] \in {"badReceipts", "batchedReceipts"}
    /\ routing = "consensus_aware" => method[r1] = "receipts"

MCSpec == MCInit /\ [][GroupNext]_all /\ Fairness
=============================================================================
