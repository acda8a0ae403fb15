----------------------------- MODULE MCBatchRPC -----------------------------
(* Instances of BatchRPC for TLC.                                          *)
EXTENDS BatchRPC, TLC

CONSTANTS IDs, Singles, Pairs, Triples    \* kinds of calls, by the length of a batch

MCBatches ==
    [1..1 -> [id : IDs, kind : Singles]]
    \cup [1..2 -> [id : IDs, kind : Pairs]]
    \cup [1..3 -> [id : IDs, kind : Triples]]

(* IDs are only compared.                                                  *)
Symmetry == Permutations(IDs)

(* The cache, the chain and the deadline wait for the calls to be          *)
(* admitted: what happens to them before can happen after that.  From then *)
(* on it does not matter how and for whom they were admitted, nor of which *)
(* kind a refused call was, and what no call of the request can find in    *)
(* the cache never matters.                                                *)
KindsLeft == {reqs[i].kind : i \in kept}
Relevant ==
    <<{e \in cache : e.key[1] \in KindsLeft}, IF "rawTag" \in KindsLeft THEN head ELSE "old">>
Left(i) == IF i \in kept THEN reqs[i] ELSE [id |-> reqs[i].id, kind |-> "answered"]
Latest == IF next = 1 THEN << >> ELSE charged[next - 1]
BatchView ==
    IF pc \in {"accept", "parse"}
    THEN <<reqs, isBatch, client, Latest, next, kept, responses, pc>>
    ELSE <<[i \in 1..Len(reqs) |-> Left(i)], isBatch, kept, responses, hits, pc, error,
           IF pc = "done" THEN << >> ELSE <<todo, misses, expired, upstream, Relevant>> >>
=============================================================================
