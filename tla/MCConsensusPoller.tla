-------------------------- MODULE MCConsensusPoller --------------------------
(* Instances of ConsensusPoller for TLC.                                   *)
EXTENDS ConsensusPoller, TLC

NoDrift == [be \in Backends |-> 0]

(* Two primaries behave alike, and so do two hashes.                       *)
Symmetry == Permutations(Primaries) \cup Permutations(Hashes)

(* safe, finalized and group are written and never read by the poller: a   *)
(* run about the other variables need not tell their values apart.         *)
PollerView == <<healthy, bs, sinceUpdate, banLeft, upc, old, ruledOut, roundVars,
                latest>>
==============================================================================
