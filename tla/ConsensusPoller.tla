--------------------------- MODULE ConsensusPoller ---------------------------
(***************************************************************************)
(* The consensus poller of a backend group (consensus_poller.go): one      *)
(* goroutine per backend refreshes the recorded state of that backend, one *)
(* goroutine resolves the group consensus from the recorded states, and    *)
(* the wall clock and the health of the backends move underneath them.     *)
(*                                                                         *)
(* Time is relative.  sinceUpdate[be] is time.Now() - lastUpdate, capped   *)
(* just above the threshold it is compared with; banLeft[be] is            *)
(* bannedUntil - time.Now(), or 0 when that lies in the past.  The zero    *)
(* time.Time of a fresh state is a time long gone for both.                *)
(*                                                                         *)
(* Backend.IsHealthy() reads the sliding windows of the backend; here it   *)
(* is the input healthy[be], free to change at any step.                   *)
(***************************************************************************)
EXTENDS Naturals

CONSTANTS
    Primaries, Fallbacks,       \* the two tiers of the backend group
    ForcedCandidates,           \* backends with forcedCandidate
    SkipPeerCountCheck,         \* backends with skipPeerCountCheck
    SkipIsSyncingCheck,         \* backends with skipIsSyncingCheck
    SafeBlockDriftThreshold,    \* per backend
    FinalizedBlockDriftThreshold,
    MinPeerCount, MaxBlockLag,
    BanPeriod, MaxUpdateThreshold,
    MaxUint64,                  \* the largest value of a hexutil.Uint64
    Heights, TagHeights,        \* reported for latest, and for safe and finalized
    Hashes, PeerCounts,         \* in a number reported, 0 is an error or zero
    SyncReplies,                \* of "error", "synced" and "syncing"
    Flaky,                      \* backends whose health may change
    Genesis, NoHash             \* the common block 0; the empty hash string

Backends == Primaries \cup Fallbacks
Uint64   == 0..MaxUint64
AllHashes == Hashes \cup {Genesis, NoHash}

ASSUME TierAssumption == Primaries \cap Fallbacks = {}
ASSUME FlagAssumption == ForcedCandidates \cup Flaky \subseteq Backends
ASSUME DriftAssumption ==
    /\ SafeBlockDriftThreshold \in [Backends -> Nat]
    /\ FinalizedBlockDriftThreshold \in [Backends -> Nat]
ASSUME NumberAssumption ==
    /\ {MinPeerCount, MaxBlockLag, BanPeriod, MaxUpdateThreshold} \subseteq Nat
    /\ MaxUint64 \in Nat \ {0}
    /\ Heights \cup TagHeights \subseteq Uint64
    /\ PeerCounts \subseteq Nat
    /\ SyncReplies \subseteq {"error", "synced", "syncing"}
ASSUME HashAssumption == NoHash \notin Hashes \cup {Genesis}

(* The defaults are 5m and 30s (NewConsensusPoller); nothing in the code    *)
(* rejects a configuration in which a ban ends while the last update still *)
(* counts as recent.                                                       *)
ASSUME BanOutlivesUpdate == BanPeriod > MaxUpdateThreshold

VARIABLES
    healthy,        \* [Backends -> BOOLEAN]: IsHealthy(), an input
    bs,             \* [Backends -> backendState] without its two times
    sinceUpdate,    \* [Backends -> time since lastUpdate, capped]
    banLeft,        \* [Backends -> time until bannedUntil]
    upc,            \* where the goroutine of each backend is
    old,            \* the tags that goroutine copied before storing new ones
    ruledOut,       \* [Fallbacks -> primaries its goroutine found unusable]
    gpc,            \* where the group goroutine is
    current,        \* currentConsensusBlockNumber
    toScan,         \* backends FilterCandidates has yet to look at
    candidates,     \* backends that passed the filter in this round
    snap,           \* their copied states
    proposed, proposedHash, lowestSafe, lowestFinalized,
    answers,        \* what each candidate said of the proposed block
    broken,         \* a backend changed a block the consensus already covers
    latest, safe, finalized,    \* the in-memory tracker
    group           \* consensusGroup

envVars    == <<healthy>>
stateVars  == <<bs, sinceUpdate, banLeft>>
updateVars == <<upc, old, ruledOut>>
roundVars  == <<gpc, current, toScan, candidates, snap, proposed, proposedHash,
                lowestSafe, lowestFinalized, answers, broken>>
viewVars   == <<latest, safe, finalized, group>>
vars == <<envVars, stateVars, updateVars, roundVars, viewVars>>

BackendState == [latest : Uint64, hash : AllHashes, safe : Uint64,
                 finalized : Uint64, peerCount : Nat, inSync : BOOLEAN]
ZeroState    == [latest |-> 0, hash |-> NoHash, safe |-> 0,
                 finalized |-> 0, peerCount |-> 0, inSync |-> FALSE]
Tags   == [safe : Uint64, finalized : Uint64]
NoTags == [safe |-> 0, finalized |-> 0]

Answer   == [kind : {"none", "error", "block"}, num : Uint64, hash : AllHashes]
NotAsked == [kind |-> "none",  num |-> 0, hash |-> NoHash]
Failed   == [kind |-> "error", num |-> 0, hash |-> NoHash]
Block(n, h) == [kind |-> "block", num |-> n, hash |-> h]

UpdatePCs == {"idle", "polling", "check"}
GroupPCs  == {"idle", "primaries", "fallbacks", "validate",
              "latest", "safe", "finalized", "group"}

Init ==
    /\ healthy \in [Backends -> BOOLEAN]
    /\ \A be \in Backends \ Flaky : healthy[be]
    /\ bs = [be \in Backends |-> ZeroState]
    /\ sinceUpdate = [be \in Backends |-> MaxUpdateThreshold + 1]
    /\ banLeft = [be \in Backends |-> 0]
    /\ upc = [be \in Backends |-> "idle"]
    /\ old = [be \in Backends |-> NoTags]
    /\ ruledOut = [be \in Fallbacks |-> {}]
    /\ gpc = "idle" /\ current = 0 /\ toScan = {} /\ candidates = {}
    /\ snap = [be \in Backends |-> ZeroState]
    /\ proposed = 0 /\ proposedHash = NoHash
    /\ lowestSafe = 0 /\ lowestFinalized = 0
    /\ answers = [be \in Backends |-> NotAsked]
    /\ broken = FALSE
    /\ latest = 0 /\ safe = 0 /\ finalized = 0 /\ group = {}

-----------------------------------------------------------------------------
(* Candidates                                                              *)

IsBanned(be) == banLeft[be] > 0

(* Mutant: a filter without the test that the last update is recent.       *)
PassesFilterStale(be) ==
    \/ be \in ForcedCandidates
    \/ /\ ~IsBanned(be)
       /\ healthy[be]
       /\ be \in SkipPeerCountCheck \/ bs[be].peerCount >= MinPeerCount
       /\ be \in SkipIsSyncingCheck \/ bs[be].inSync

(* The tests FilterCandidates makes of one backend, on a copy of its state. *)
PassesFilter(be) ==
    \/ be \in ForcedCandidates
    \/ /\ ~IsBanned(be)
       /\ healthy[be]
       /\ be \in SkipPeerCountCheck \/ bs[be].peerCount >= MinPeerCount
       /\ be \in SkipIsSyncingCheck \/ bs[be].inSync
       /\ sinceUpdate[be] <= MaxUpdateThreshold

(* The second half of FilterCandidates: the backends of C that do not lag  *)
(* the highest latest block of C by more than MaxBlockLag.                 *)
NotLagging(C) ==
    {be \in C : \A o \in C : snap[o].latest <= snap[be].latest + MaxBlockLag}

-----------------------------------------------------------------------------
(* UpdateBackend, run by the goroutine of one backend                      *)

(* Ban: a no-op for a forced candidate.  It clears the block numbers and   *)
(* leaves hash, peer count, sync state and lastUpdate as they are.         *)
Cleared(b) == [b EXCEPT !.latest = 0, !.safe = 0, !.finalized = 0]

Ban(be) ==
    IF be \in ForcedCandidates THEN UNCHANGED <<bs, banLeft>>
    ELSE /\ banLeft' = [banLeft EXCEPT ![be] = BanPeriod]
         /\ bs' = [bs EXCEPT ![be] = Cleared(@)]

(* The goroutine of a fallback first runs FilterCandidates(Primaries); it  *)
(* reads one primary after the other, and a single usable one ends the     *)
(* round: the lag test never empties a set that was not empty.             *)
FallbackScan(be, p) ==
    /\ be \in Fallbacks /\ upc[be] = "idle" /\ p \in Primaries \ ruledOut[be]
    /\ ruledOut' = [ruledOut EXCEPT ![be] =
                       IF PassesFilter(p) THEN {} ELSE @ \cup {p}]
    /\ UNCHANGED <<envVars, stateVars, upc, old, roundVars, viewVars>>

(* UpdateBackend up to the first request it sends.                         *)
UpdateBegin(be) ==
    /\ upc[be] = "idle"
    /\ be \in Fallbacks => ruledOut[be] = Primaries
    /\ ruledOut' = [f \in Fallbacks |-> IF f = be THEN {} ELSE ruledOut[f]]
    /\ IF IsBanned(be) THEN UNCHANGED <<bs, banLeft, upc>>
       ELSE IF ~healthy[be] /\ be \notin ForcedCandidates
       THEN Ban(be) /\ UNCHANGED upc
       ELSE upc' = [upc EXCEPT ![be] = "polling"] /\ UNCHANGED <<bs, banLeft>>
    /\ UNCHANGED <<envVars, sinceUpdate, old, roundVars, viewVars>>

(* What the five requests of one update bring: an error, or for a number   *)
(* zero, ends the update before anything is stored.                        *)
Reply == [sync : SyncReplies, peerCount : PeerCounts,
          latest : Heights, hash : Hashes,
          safe : TagHeights, finalized : TagHeights]

Complete(be, r) ==
    /\ r.sync # "error"
    /\ be \in SkipPeerCountCheck \/ r.peerCount # 0
    /\ r.latest # 0 /\ r.safe # 0 /\ r.finalized # 0

Stored(be, r) ==
    [latest |-> r.latest, hash |-> r.hash, safe |-> r.safe,
     finalized |-> r.finalized, inSync |-> r.sync = "synced",
     peerCount |-> IF be \in SkipPeerCountCheck THEN 0 ELSE r.peerCount]

(* The requests and setBackendState; old keeps the tags copied at the      *)
(* start, which no other goroutine writes.                                 *)
UpdatePoll(be, r) ==
    /\ upc[be] = "polling"
    /\ IF Complete(be, r)
       THEN /\ bs' = [bs EXCEPT ![be] = Stored(be, r)]
            /\ sinceUpdate' = [sinceUpdate EXCEPT ![be] = 0]
            /\ old' = [old EXCEPT ![be] =
                 [safe |-> bs[be].safe, finalized |-> bs[be].finalized]]
            /\ upc' = [upc EXCEPT ![be] = "check"]
       ELSE /\ upc' = [upc EXCEPT ![be] = "idle"]
            /\ UNCHANGED <<bs, sinceUpdate, old>>
    /\ UNCHANGED <<envVars, banLeft, ruledOut, roundVars, viewVars>>

(* A threshold is subtracted only from a number above it.                  *)
Allowance(n, drift) == IF n > drift THEN n - drift ELSE n

(* Mutant: a check that does not compare safe with latest.                 *)
CheckTagsWithoutLatest(be) ==
    /\ bs[be].finalized >= Allowance(old[be].finalized,
                                     FinalizedBlockDriftThreshold[be])
    /\ bs[be].safe >= Allowance(old[be].safe, SafeBlockDriftThreshold[be])
    /\ bs[be].finalized <= bs[be].safe

CheckExpectedBlockTags(be) ==
    /\ bs[be].finalized >= Allowance(old[be].finalized,
                                     FinalizedBlockDriftThreshold[be])
    /\ bs[be].safe >= Allowance(old[be].safe, SafeBlockDriftThreshold[be])
    /\ bs[be].finalized <= bs[be].safe
    /\ bs[be].safe <= bs[be].latest

UpdateCheck(be) ==
    /\ upc[be] = "check"
    /\ IF CheckExpectedBlockTags(be) THEN UNCHANGED <<bs, banLeft>> ELSE Ban(be)
    /\ upc' = [upc EXCEPT ![be] = "idle"]
    /\ old' = [old EXCEPT ![be] = NoTags]
    /\ UNCHANGED <<envVars, sinceUpdate, ruledOut, roundVars, viewVars>>

-----------------------------------------------------------------------------
(* UpdateBackendGroupConsensus, run by the group goroutine                 *)

GroupBegin ==
    /\ gpc = "idle"
    /\ gpc' = "primaries" /\ toScan' = Primaries
    /\ current' = latest
    /\ UNCHANGED <<envVars, stateVars, updateVars, candidates, snap, proposed,
                   proposedHash, lowestSafe, lowestFinalized, answers, broken,
                   viewVars>>

(* One backend of the loop of FilterCandidates: GetBackendState copies its *)
(* state under its own lock, so a round sees the backends at different     *)
(* times.                                                                  *)
FilterOne(be) ==
    /\ gpc \in {"primaries", "fallbacks"} /\ be \in toScan
    /\ toScan' = toScan \ {be}
    /\ IF PassesFilter(be)
       THEN /\ candidates' = candidates \cup {be}
            /\ snap' = [snap EXCEPT ![be] = bs[be]]
       ELSE UNCHANGED <<candidates, snap>>
    /\ UNCHANGED <<envVars, stateVars, updateVars, gpc, current, proposed,
                   proposedHash, lowestSafe, lowestFinalized, answers, broken,
                   viewVars>>

(* getConsensusCandidates turns to the fallbacks when no primary qualifies. *)
TryFallbacks ==
    /\ gpc = "primaries" /\ toScan = {} /\ candidates = {}
    /\ gpc' = "fallbacks" /\ toScan' = Fallbacks
    /\ UNCHANGED <<envVars, stateVars, updateVars, current, candidates, snap,
                   proposed, proposedHash, lowestSafe, lowestFinalized, answers,
                   broken, viewVars>>

(* The loop for the lowest blocks takes the candidates in any order, and   *)
(* `lowest == 0 || x < lowest` forgets all it has seen when it meets a     *)
(* candidate with no block: the result is the minimum over the candidates  *)
(* that come after the last such one.                                      *)
Counted(C) ==
    LET zero == {be \in C : snap[be].latest = 0}
    IN  IF zero = {} THEN {C} ELSE SUBSET (C \ zero)

(* Mutant: the comparison of the loop the wrong way round.                *)
IsHighest(n, S) == n \in S /\ \A m \in S : n >= m

IsLowest(n, S) == n \in S /\ \A m \in S : n <= m

(* From the candidates to the block to validate.  With no block to propose *)
(* the validation is skipped.                                              *)
Propose ==
    /\ toScan = {}
    /\ gpc = "fallbacks" \/ (gpc = "primaries" /\ candidates # {})
    /\ LET C == NotLagging(candidates)
       IN  /\ candidates' = C
           /\ \E T \in Counted(C) :
                 \/ /\ T = {}
                    /\ proposed' = 0 /\ proposedHash' = NoHash
                    /\ lowestSafe' = 0 /\ lowestFinalized' = 0
                    /\ gpc' = "latest"
                 \/ \E be \in T, s, f \in Uint64 :
                    /\ IsLowest(snap[be].latest, {snap[b].latest : b \in T})
                    /\ IsLowest(s, {snap[b].safe : b \in T})
                    /\ IsLowest(f, {snap[b].finalized : b \in T})
                    /\ proposed' = snap[be].latest
                    /\ proposedHash' = snap[be].hash
                    /\ lowestSafe' = s /\ lowestFinalized' = f
                    /\ gpc' = "validate"
    /\ UNCHANGED <<envVars, stateVars, updateVars, current, toScan, snap,
                   answers, broken, viewVars>>

(* A backend asked for block n answers an error (an unknown block too),    *)
(* that block, or the block below it; all backends serve the same chain,   *)
(* so they agree on block 0.                                               *)
BlockHashes(n) == IF n = 0 THEN {Genesis} ELSE Hashes
Answers(n) ==
    {Failed} \cup {Block(n, h) : h \in BlockHashes(n)}
             \cup (IF n = 0 THEN {}
                   ELSE {Block(n - 1, h) : h \in BlockHashes(n - 1)})

(* Mutant: half of the comparison of an answer with the proposed block.    *)
MatchesNumber(a, hash) == a.num = proposed

Matches(a, hash) == a.num = proposed /\ a.hash = hash

(* Mutant: the current consensus block itself may change silently.         *)
BreaksBelow(a) == current > a.num

(* A mismatch at or below the current consensus block breaks consensus.    *)
Breaks(a) == current >= a.num

(* Mutant: a walk back that does not move.                                 *)
NoneBehind(n) == n

(* uint64 subtraction wraps below zero.                                    *)
OneBehind(n) == IF n = 0 THEN MaxUint64 ELSE n - 1

(* One request of the validation loop.  An error is skipped; a mismatch    *)
(* walks one block back and starts over with the answer of whichever       *)
(* backend comes first as the hash to match.                               *)
ValidateOne(be, a) ==
    /\ gpc = "validate"
    /\ be \in candidates /\ answers[be] = NotAsked
    /\ LET h == IF proposedHash = NoHash THEN a.hash ELSE proposedHash
       IN  IF a = Failed \/ Matches(a, h)
           THEN /\ answers' = [answers EXCEPT ![be] = a]
                /\ proposedHash' = IF a = Failed THEN proposedHash ELSE h
                /\ UNCHANGED <<proposed, broken>>
           ELSE /\ broken' = (broken \/ Breaks(a))
                /\ proposed' = OneBehind(proposed)
                /\ proposedHash' = NoHash
                /\ answers' = [b \in Backends |-> NotAsked]
    /\ UNCHANGED <<envVars, stateVars, updateVars, gpc, current, toScan,
                   candidates, snap, lowestSafe, lowestFinalized, viewVars>>

(* Every candidate asked and none in disagreement: the loop ends and, if   *)
(* the consensus broke, the listeners are called before the tracker moves. *)
ValidateEnd ==
    /\ gpc = "validate"
    /\ \A be \in candidates : answers[be] # NotAsked
    /\ gpc' = "latest"
    /\ UNCHANGED <<envVars, stateVars, updateVars, current, toScan, candidates,
                   snap, proposed, proposedHash, lowestSafe, lowestFinalized,
                   answers, broken, viewVars>>

(* Mutant: the finalized number is left as it was.                         *)
PublishTagTwo ==
    /\ \/ /\ gpc = "latest" /\ gpc' = "safe" /\ latest' = proposed
          /\ UNCHANGED <<safe, finalized>>
       \/ /\ gpc = "safe" /\ gpc' = "group" /\ safe' = lowestSafe
          /\ UNCHANGED <<latest, finalized>>
    /\ UNCHANGED <<envVars, stateVars, updateVars, current, toScan, candidates,
                   snap, proposed, proposedHash, lowestSafe, lowestFinalized,
                   answers, broken, group>>

(* The tracker is written by three calls and the group by a fourth; a      *)
(* reader may come between any two of them.                                *)
PublishTag ==
    /\ \/ /\ gpc = "latest" /\ gpc' = "safe" /\ latest' = proposed
          /\ UNCHANGED <<safe, finalized>>
       \/ /\ gpc = "safe" /\ gpc' = "finalized" /\ safe' = lowestSafe
          /\ UNCHANGED <<latest, finalized>>
       \/ /\ gpc = "finalized" /\ gpc' = "group" /\ finalized' = lowestFinalized
          /\ UNCHANGED <<latest, safe>>
    /\ UNCHANGED <<envVars, stateVars, updateVars, current, toScan, candidates,
                   snap, proposed, proposedHash, lowestSafe, lowestFinalized,
                   answers, broken, group>>

PublishGroup ==
    /\ gpc = "group" /\ gpc' = "idle"
    /\ group' = candidates
    /\ current' = 0 /\ candidates' = {}
    /\ snap' = [be \in Backends |-> ZeroState]
    /\ proposed' = 0 /\ proposedHash' = NoHash
    /\ lowestSafe' = 0 /\ lowestFinalized' = 0
    /\ answers' = [be \in Backends |-> NotAsked]
    /\ broken' = FALSE
    /\ UNCHANGED <<envVars, stateVars, updateVars, toScan, latest, safe,
                   finalized>>

-----------------------------------------------------------------------------
(* The environment                                                         *)

Tick ==
    /\ sinceUpdate' = [be \in Backends |->
          IF sinceUpdate[be] > MaxUpdateThreshold THEN sinceUpdate[be]
          ELSE sinceUpdate[be] + 1]
    /\ banLeft' = [be \in Backends |->
          IF banLeft[be] = 0 THEN 0 ELSE banLeft[be] - 1]
    /\ UNCHANGED <<envVars, bs, updateVars, roundVars, viewVars>>

HealthChange(be) ==
    /\ be \in Flaky
    /\ healthy' = [healthy EXCEPT ![be] = ~@]
    /\ UNCHANGED <<stateVars, updateVars, roundVars, viewVars>>

UpdateStep(be) ==
    \/ \E p \in Primaries : FallbackScan(be, p)
    \/ UpdateBegin(be)
    \/ \E r \in Reply : UpdatePoll(be, r)
    \/ UpdateCheck(be)

GroupStep ==
    \/ GroupBegin
    \/ \E be \in Backends : FilterOne(be)
    \/ TryFallbacks
    \/ Propose
    \/ \E be \in Backends : \E a \in Answers(proposed) : ValidateOne(be, a)
    \/ ValidateEnd
    \/ PublishTag
    \/ PublishGroup

Next ==
    \/ \E be \in Backends : UpdateStep(be)
    \/ GroupStep
    \/ Tick
    \/ \E be \in Backends : HealthChange(be)

Spec == Init /\ [][Next]_vars

(* The goroutine of the group never stops; a request ends with an answer   *)
(* or an error because Backend.doForward sends it with a timeout.          *)
FairSpec == Spec /\ WF_vars(GroupStep)

-----------------------------------------------------------------------------
(* Properties                                                              *)

(* Types: block numbers stay uint64s, also when the walk back of the       *)
(* validation subtracts; the timers stay within their caps.                *)
TypeOK ==
    /\ healthy \in [Backends -> BOOLEAN]
    /\ bs \in [Backends -> BackendState]
    /\ sinceUpdate \in [Backends -> 0..(MaxUpdateThreshold + 1)]
    /\ banLeft \in [Backends -> 0..BanPeriod]
    /\ upc \in [Backends -> UpdatePCs]
    /\ old \in [Backends -> Tags]
    /\ ruledOut \in [Fallbacks -> SUBSET Primaries]
    /\ gpc \in GroupPCs
    /\ current \in Uint64
    /\ toScan \subseteq Backends
    /\ candidates \subseteq Backends
    /\ snap \in [Backends -> BackendState]
    /\ {proposed, lowestSafe, lowestFinalized} \subseteq Uint64
    /\ proposedHash \in AllHashes
    /\ answers \in [Backends -> Answer]
    /\ broken \in BOOLEAN
    /\ {latest, safe, finalized} \subseteq Uint64
    /\ group \subseteq Backends

Publishing == gpc \in {"latest", "safe", "finalized", "group"}

(* A backend that is not forced never enters the consensus group with the  *)
(* zero blocks a ban or a restart leaves behind: by the time its ban ends, *)
(* its last update is too old for FilterCandidates, and only a new update, *)
(* which stores no zero, makes it recent again.                            *)
CandidatesHaveBlocks ==
    \A be \in candidates \ ForcedCandidates :
        /\ snap[be].latest > 0
        /\ snap[be].safe > 0
        /\ snap[be].finalized > 0

(* UpdateBackend stores what a backend reported before it checks it, so    *)
(* the group goroutine can copy tags out of order; they are there only     *)
(* until the same update gets to the check that bans the backend.          *)
BadTagsOnlyBeforeCheck ==
    \A be \in Backends \ ForcedCandidates :
        \/ upc[be] = "check"
        \/ bs[be].finalized <= bs[be].safe /\ bs[be].safe <= bs[be].latest

(* What a round publishes is not ahead of any member of the group it       *)
(* publishes, whatever the order in which the loops of                     *)
(* UpdateBackendGroupConsensus met the candidates and however far the      *)
(* validation walked back.                                                 *)
PublishedWithinMembers ==
    Publishing /\ candidates \cap ForcedCandidates = {} =>
        \A be \in candidates :
            /\ proposed <= snap[be].latest
            /\ lowestSafe <= snap[be].safe
            /\ lowestFinalized <= snap[be].finalized

(* Every member of a published group either answered the published block   *)
(* with the one agreed hash or failed to answer the last time it was       *)
(* asked: no answer to an earlier, higher proposal is counted.             *)
AgreedOrUnreachable ==
    Publishing /\ proposed > 0 =>
        \A be \in candidates :
            answers[be] \in {Failed, Block(proposed, proposedHash)}

(* If every candidate has reached the current consensus block and the      *)
(* round still publishes a lower one, a block clients were told about was  *)
(* replaced, and the round reports a broken consensus to the listeners.    *)
ForkBelowConsensusIsSignalled ==
    /\ Publishing /\ candidates # {}
    /\ proposed < current
    /\ \A be \in candidates : snap[be].latest >= current
    => broken

(* The walk back ends: each round of the group goroutine completes, since  *)
(* the candidates agree at the latest on block 0.                          *)
RoundsEnd == (gpc # "idle") ~> (gpc = "idle")

(* The readers of the poller may rely on ConsensusView: while a round      *)
(* filters, proposes and validates nothing published moves, and then it    *)
(* publishes a result in order, with zeros only for a group without        *)
(* members or with a forced one.                                           *)
View == INSTANCE ConsensusView WITH
    Blocks <- Uint64,
    phase  <- IF Publishing THEN gpc ELSE "resolve",
    round  <- IF Publishing
              THEN [latest |-> proposed, safe |-> lowestSafe,
                    finalized |-> lowestFinalized, group |-> candidates]
              ELSE [latest |-> 0, safe |-> 0, finalized |-> 0, group |-> {}]

ImplementsView == View!ViewSpec

-----------------------------------------------------------------------------
(* The facts the proofs need beside the properties                         *)

(* A round that has a proposal.                                            *)
Proposing == gpc = "validate" \/ Publishing

(* The lowest blocks of a round are blocks of its candidates, or zeros     *)
(* where there are none.                                                   *)
RoundHasBlocks ==
    Proposing =>
        /\ candidates = {} =>
              gpc # "validate" /\ proposed = 0 /\ lowestSafe = 0 /\ lowestFinalized = 0
        /\ candidates # {} /\ candidates \cap ForcedCandidates = {} =>
              lowestSafe > 0 /\ lowestFinalized > 0

(* A state without a block is banned for longer than it stays recent.      *)
ZeroIsStale ==
    \A be \in Backends :
        \/ bs[be].latest > 0 /\ bs[be].safe > 0 /\ bs[be].finalized > 0
        \/ sinceUpdate[be] + banLeft[be] > MaxUpdateThreshold

(* During the validation: nothing is proposed above a candidate, the walk  *)
(* back cannot disagree on block 0, and the answers kept are about the     *)
(* block proposed now.                                                     *)
ProposalWithinCandidates ==
    Proposing /\ candidates \cap ForcedCandidates = {} =>
        \A be \in candidates :
            /\ proposed <= snap[be].latest
            /\ lowestSafe <= snap[be].safe
            /\ lowestFinalized <= snap[be].finalized

AgreedOnGenesis ==
    gpc = "validate" /\ proposed = 0 => proposedHash \in {NoHash, Genesis}

AnswersAreCurrent ==
    /\ ~Proposing => \A be \in Backends : answers[be] = NotAsked
    /\ \A be \in Backends :
          answers[be] \in {NotAsked, Failed, Block(proposed, proposedHash)}
    /\ proposedHash = NoHash =>
          \A be \in Backends : answers[be] \in {NotAsked, Failed}
    /\ Publishing /\ proposed > 0 =>
          \A be \in candidates : answers[be] # NotAsked

ForkSeen ==
    /\ Proposing /\ candidates # {}
    /\ proposed < current
    /\ \A be \in candidates : snap[be].latest >= current
    => broken
==============================================================================
