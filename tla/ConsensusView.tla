---------------------------- MODULE ConsensusView ----------------------------
(***************************************************************************)
(* What the consensus poller of a group promises to those who read it, and *)
(* no more (UpdateBackendGroupConsensus): round after round it resolves    *)
(* three block numbers and a set of backends, and publishes them in four   *)
(* steps, in this order.  ConsensusPoller implements this specification.   *)
(***************************************************************************)
EXTENDS Naturals

CONSTANTS
    Backends,
    ForcedCandidates,   \* those that are members whatever their state
    Blocks              \* block numbers

VARIABLES
    phase,              \* resolve, latest, safe, finalized, group: what is next
    round,              \* what the round in progress publishes
    latest, safe, finalized, group      \* what is published

published == <<latest, safe, finalized, group>>
viewVars == <<phase, round, published>>

Nothing == [latest |-> 0, safe |-> 0, finalized |-> 0, group |-> {}]

(* A round without candidates publishes zeros; with them safe and          *)
(* finalized are blocks, unless a forced candidate brought its zeros in.   *)
Rounds ==
    {r \in [latest : Blocks, safe : Blocks, finalized : Blocks, group : SUBSET Backends] :
        /\ r.group = {} => r = Nothing
        /\ r.group # {} /\ r.group \cap ForcedCandidates = {} =>
              r.safe > 0 /\ r.finalized > 0}

ViewInit ==
    /\ phase = "resolve" /\ round = Nothing
    /\ latest = 0 /\ safe = 0 /\ finalized = 0 /\ group = {}

Resolve ==
    /\ phase = "resolve" /\ phase' = "latest"
    /\ round' \in Rounds
    /\ UNCHANGED published

PublishLatest ==
    /\ phase = "latest" /\ phase' = "safe" /\ latest' = round.latest
    /\ UNCHANGED <<round, safe, finalized, group>>

PublishSafe ==
    /\ phase = "safe" /\ phase' = "finalized" /\ safe' = round.safe
    /\ UNCHANGED <<round, latest, finalized, group>>

PublishFinalized ==
    /\ phase = "finalized" /\ phase' = "group" /\ finalized' = round.finalized
    /\ UNCHANGED <<round, latest, safe, group>>

PublishGroup ==
    /\ phase = "group" /\ phase' = "resolve" /\ group' = round.group
    /\ round' = Nothing
    /\ UNCHANGED <<latest, safe, finalized>>

ViewNext ==
    Resolve \/ PublishLatest \/ PublishSafe \/ PublishFinalized \/ PublishGroup

ViewSpec == ViewInit /\ [][ViewNext]_viewVars
=============================================================================
