------------------------ MODULE ConsensusPollerProofs ------------------------
(* Theorems about ConsensusPoller, for every value of its constants that   *)
(* satisfies the assumptions named there.                                  *)
EXTENDS ConsensusPoller, TLAPS

(* A ban leaves a well-formed state without blocks.                        *)
LEMMA ClearedState ==
    ASSUME NEW b \in BackendState
    PROVE  /\ Cleared(b) \in BackendState
           /\ Cleared(b).latest = 0 /\ Cleared(b).safe = 0
           /\ Cleared(b).finalized = 0
<1>1. 0 \in Uint64
  BY NumberAssumption DEF Uint64
<1> QED
  BY ZenonT(60), <1>1 DEF Cleared, BackendState

(* What setBackendState stores is well formed and, when the replies were   *)
(* complete, has no zero block.                                            *)
LEMMA StoredState ==
    ASSUME NEW be, NEW r \in Reply
    PROVE  /\ Stored(be, r) \in BackendState
           /\ Complete(be, r) => /\ Stored(be, r).latest > 0
                                 /\ Stored(be, r).safe > 0
                                 /\ Stored(be, r).finalized > 0
<1>1. /\ r.latest \in Uint64 /\ r.safe \in Uint64 /\ r.finalized \in Uint64
      /\ r.hash \in AllHashes /\ r.peerCount \in Nat
  BY ZenonT(60), NumberAssumption DEF Reply, AllHashes
<1>2. (r.sync = "synced") \in BOOLEAN
  OBVIOUS
<1>3. (IF be \in SkipPeerCountCheck THEN 0 ELSE r.peerCount) \in Nat
  BY Zenon, <1>1
<1>4. Stored(be, r) \in BackendState
  BY Zenon, <1>1, <1>2, <1>3 DEF Stored, BackendState
<1>5. Complete(be, r) => r.latest > 0 /\ r.safe > 0 /\ r.finalized > 0
  BY SMTT(60), <1>1, NumberAssumption DEF Complete, Uint64
<1> QED
  BY Zenon, <1>4, <1>5 DEF Stored

(* Whatever a backend answers for a block number is an answer, and the     *)
(* number the walk back turns to is a block number.                        *)
LEMMA AnswersTyped ==
    ASSUME NEW n \in Uint64
    PROVE  Answers(n) \subseteq Answer /\ OneBehind(n) \in Uint64
<1>1. BlockHashes(n) \subseteq AllHashes /\ BlockHashes(n - 1) \subseteq AllHashes
  BY Zenon DEF BlockHashes, AllHashes
<1>2. /\ n \in Nat /\ 0 \in Uint64 /\ MaxUint64 \in Uint64 /\ NoHash \in AllHashes
      /\ n # 0 => n - 1 \in Uint64
  BY NumberAssumption DEF Uint64, AllHashes
<1>3. Answers(n) \subseteq Answer
  BY <1>1, <1>2 DEF Answers, Answer, Failed, Block
<1> QED
  BY Zenon, <1>2, <1>3 DEF OneBehind

(* What a request of the validation loop changes, whatever its outcome.    *)
LEMMA ValidateEffect ==
    ASSUME NEW be \in Backends, NEW a, ValidateOne(be, a)
    PROVE  /\ proposed' \in {proposed, OneBehind(proposed)}
           /\ proposedHash' \in {proposedHash, a.hash, NoHash}
           /\ answers' \in {[answers EXCEPT ![be] = a], [b \in Backends |-> NotAsked]}
           /\ broken' \in {broken, broken \/ Breaks(a)}
  BY Zenon DEF ValidateOne

(* What a new round starts from is well formed.                            *)
LEMMA NothingTyped ==
    ZeroState \in BackendState /\ NotAsked \in Answer /\ 0 \in Uint64
<1>1. 0 \in Uint64 /\ NoHash \in AllHashes
  BY NumberAssumption DEF Uint64, AllHashes
<1> QED
  BY Zenon, <1>1 DEF ZeroState, BackendState, NotAsked, Answer

-----------------------------------------------------------------------------
(* The recorded states                                                     *)

(* A ban, a complete update and the clock keep a state without blocks out  *)
(* of the candidates.                                                      *)
LEMMA ZeroIsStaleInductive ==
    TypeOK /\ ZeroIsStale /\ [Next]_vars => ZeroIsStale'
<1> SUFFICES ASSUME TypeOK, ZeroIsStale, [Next]_vars
             PROVE  ZeroIsStale'
  OBVIOUS
<1> USE DEF ZeroIsStale
<1>1. \A b \in Backends : /\ bs[b] \in BackendState
                          /\ sinceUpdate[b] \in Nat
                          /\ banLeft[b] \in Nat
  BY SMTT(60) DEF TypeOK
<1>2. ASSUME NEW be \in Backends, Ban(be), UNCHANGED sinceUpdate
      PROVE  ZeroIsStale'
  BY SMTT(60), <1>1, <1>2, BanOutlivesUpdate, NumberAssumption DEF Ban, TypeOK
<1>3. ASSUME NEW be \in Backends, UpdateBegin(be)
      PROVE  ZeroIsStale'
  BY Zenon, <1>2, <1>3 DEF UpdateBegin
<1>4. ASSUME NEW be \in Backends, NEW r \in Reply, UpdatePoll(be, r)
      PROVE  ZeroIsStale'
  BY SMTT(60), <1>1, <1>4, StoredState DEF UpdatePoll, TypeOK
<1>5. ASSUME NEW be \in Backends, UpdateCheck(be)
      PROVE  ZeroIsStale'
  BY Zenon, <1>2, <1>5 DEF UpdateCheck
<1>6. CASE Tick
  BY SMTT(60), <1>1, <1>6, NumberAssumption DEF Tick, TypeOK
<1>7. CASE UNCHANGED stateVars
  BY Zenon, <1>7 DEF stateVars
<1>8. ASSUME NEW be \in Backends, NEW p \in Primaries, FallbackScan(be, p)
      PROVE  UNCHANGED stateVars
  BY Zenon, <1>8 DEF FallbackScan
<1>9. ASSUME NEW be \in Backends, HealthChange(be)
      PROVE  UNCHANGED stateVars
  BY Zenon, <1>9 DEF HealthChange
<1>10. GroupStep => UNCHANGED stateVars
  BY ZenonT(60)
  DEF GroupStep, GroupBegin, FilterOne, TryFallbacks, Propose, ValidateOne,
         ValidateEnd, PublishTag, PublishGroup
<1>11. UNCHANGED vars => UNCHANGED stateVars
  BY Zenon DEF vars
<1> QED
  BY Zenon, <1>3, <1>4, <1>5, <1>6, <1>7, <1>8, <1>9, <1>10, <1>11
  DEF Next, UpdateStep

(* Tags out of order are banned by the check that follows the store.       *)
LEMMA BadTagsInductive ==
    TypeOK /\ BadTagsOnlyBeforeCheck /\ [Next]_vars => BadTagsOnlyBeforeCheck'
<1> SUFFICES ASSUME TypeOK, BadTagsOnlyBeforeCheck, [Next]_vars
             PROVE  BadTagsOnlyBeforeCheck'
  BY SMTT(60)
<1> USE DEF BadTagsOnlyBeforeCheck
<1>1. \A b \in Backends : bs[b] \in BackendState
  BY Zenon DEF TypeOK
<1>2. ASSUME NEW be \in Backends, UpdateBegin(be)
      PROVE  BadTagsOnlyBeforeCheck'
  BY SMTT(60), <1>1, <1>2, ClearedState DEF UpdateBegin, Ban, TypeOK
<1>3. ASSUME NEW be \in Backends, NEW r \in Reply, UpdatePoll(be, r)
      PROVE  BadTagsOnlyBeforeCheck'
  BY SMTT(60), <1>3 DEF UpdatePoll, TypeOK
<1>4. ASSUME NEW be \in Backends, UpdateCheck(be)
      PROVE  BadTagsOnlyBeforeCheck'
  BY <1>1, <1>4, ClearedState DEF UpdateCheck, CheckExpectedBlockTags, Ban, TypeOK
<1>5. CASE UNCHANGED <<bs, upc>>
  BY Zenon, <1>5
<1>6. ASSUME NEW be \in Backends, NEW p \in Primaries, FallbackScan(be, p)
      PROVE  UNCHANGED <<bs, upc>>
  BY Zenon, <1>6 DEF FallbackScan, stateVars
<1>7. ASSUME NEW be \in Backends, HealthChange(be)
      PROVE  UNCHANGED <<bs, upc>>
  BY Zenon, <1>7 DEF HealthChange, stateVars, updateVars
<1>8. GroupStep => UNCHANGED <<bs, upc>>
  BY ZenonT(60)
  DEF GroupStep, GroupBegin, FilterOne, TryFallbacks, Propose, ValidateOne,
         ValidateEnd, PublishTag, PublishGroup, stateVars, updateVars
<1>9. Tick \/ UNCHANGED vars => UNCHANGED <<bs, upc>>
  BY Zenon DEF Tick, vars, stateVars, updateVars
<1> QED
  BY Zenon, <1>2, <1>3, <1>4, <1>5, <1>6, <1>7, <1>8, <1>9 DEF Next, UpdateStep

-----------------------------------------------------------------------------
(* The rounds of the group goroutine                                       *)

(* The variables of a round are the group goroutine's own.                 *)
LEMMA RoundIsOwned ==
    ASSUME [Next]_vars, ~GroupStep
    PROVE  UNCHANGED roundVars
  BY Zenon, SMTT(60)
  DEF Next, UpdateStep, FallbackScan, UpdateBegin, UpdatePoll, UpdateCheck,
         Tick, HealthChange, vars

(* FilterCandidates admits no state without blocks, and Propose only       *)
(* removes candidates.                                                     *)
LEMMA CandidatesInductive ==
    TypeOK /\ ZeroIsStale /\ CandidatesHaveBlocks /\ [Next]_vars
        => CandidatesHaveBlocks'
<1> SUFFICES ASSUME TypeOK, ZeroIsStale, CandidatesHaveBlocks, [Next]_vars
             PROVE  CandidatesHaveBlocks'
  BY SMTT(60)
<1> USE DEF CandidatesHaveBlocks
<1>1. ASSUME NEW be \in Backends, FilterOne(be)
      PROVE  CandidatesHaveBlocks'
  <2>1. PassesFilter(be) /\ be \notin ForcedCandidates =>
           bs[be].latest > 0 /\ bs[be].safe > 0 /\ bs[be].finalized > 0
    BY SMTT(60), NumberAssumption DEF PassesFilter, IsBanned, ZeroIsStale, TypeOK
  <2> QED
    BY SMTT(60), <1>1, <2>1 DEF FilterOne, TypeOK
<1>2. CASE Propose
  BY Zenon, <1>2 DEF Propose, NotLagging
<1>3. CASE PublishGroup
  BY Zenon, <1>3 DEF PublishGroup
<1>4. CASE UNCHANGED <<candidates, snap>>
  BY Zenon, <1>4
<1>5. GroupBegin \/ TryFallbacks \/ ValidateEnd \/ PublishTag
        => UNCHANGED <<candidates, snap>>
  BY Zenon DEF GroupBegin, TryFallbacks, ValidateEnd, PublishTag
<1>6. ASSUME NEW be \in Backends, NEW a \in Answers(proposed), ValidateOne(be, a)
      PROVE  UNCHANGED <<candidates, snap>>
  BY Zenon, <1>6 DEF ValidateOne
<1>7. ~GroupStep => UNCHANGED <<candidates, snap>>
  BY Zenon, RoundIsOwned DEF roundVars
<1> QED
  BY Zenon, <1>1, <1>2, <1>3, <1>4, <1>5, <1>6, <1>7 DEF GroupStep

-----------------------------------------------------------------------------
(* The types, and the theorems                                             *)

(* Type correctness of the poller: every step of UpdateBackend, of         *)
(* UpdateBackendGroupConsensus and of the environment keeps the variables  *)
(* in their sets; in particular no block number leaves the uint64 range.   *)
LEMMA TypeInductive == TypeOK /\ [Next]_vars => TypeOK'
<1> SUFFICES ASSUME TypeOK, [Next]_vars PROVE TypeOK'
  OBVIOUS
<1>1. ASSUME NEW be \in Backends, NEW p \in Primaries, FallbackScan(be, p)
      PROVE  TypeOK'
  BY Zenon, <1>1 DEF FallbackScan, envVars, stateVars, roundVars, viewVars, TypeOK, Backends
<1>2. ASSUME NEW be \in Backends, UpdateBegin(be)
      PROVE  TypeOK'
  <2>1. ruledOut' \in [Fallbacks -> SUBSET Primaries]
    BY Zenon, <1>2 DEF UpdateBegin, TypeOK
  <2>2. bs' \in [Backends -> BackendState] /\ banLeft' \in [Backends -> 0..BanPeriod]
    BY <1>2, ClearedState, NumberAssumption DEF UpdateBegin, Ban, TypeOK
  <2>3. upc' \in [Backends -> UpdatePCs]
    BY Zenon, <1>2 DEF UpdateBegin, UpdatePCs, TypeOK
  <2> QED
    BY Zenon, <1>2, <2>1, <2>2, <2>3
    DEF UpdateBegin, envVars, roundVars, viewVars, TypeOK
<1>3. ASSUME NEW be \in Backends, NEW r \in Reply, UpdatePoll(be, r)
      PROVE  TypeOK'
  <2>1. bs' \in [Backends -> BackendState]
    BY <1>3, StoredState DEF UpdatePoll, TypeOK
  <2>2. sinceUpdate' \in [Backends -> 0..(MaxUpdateThreshold + 1)]
    BY <1>3, NumberAssumption DEF UpdatePoll, TypeOK
  <2>3. old' \in [Backends -> Tags]
    <3>1. [safe |-> bs[be].safe, finalized |-> bs[be].finalized] \in Tags
      BY Zenon DEF BackendState, Tags, TypeOK
    <3> QED
      BY <1>3, <3>1 DEF UpdatePoll, TypeOK
  <2>4. upc' \in [Backends -> UpdatePCs]
    BY <1>3 DEF UpdatePoll, UpdatePCs, TypeOK
  <2> QED
    BY Zenon, <1>3, <2>1, <2>2, <2>3, <2>4 DEF UpdatePoll, envVars, roundVars, viewVars, TypeOK
<1>4. ASSUME NEW be \in Backends, UpdateCheck(be)
      PROVE  TypeOK'
  <2>1. bs' \in [Backends -> BackendState] /\ banLeft' \in [Backends -> 0..BanPeriod]
    BY <1>4, ClearedState, NumberAssumption DEF UpdateCheck, Ban, TypeOK
  <2>2. old' \in [Backends -> Tags] /\ upc' \in [Backends -> UpdatePCs]
    BY <1>4, NumberAssumption DEF UpdateCheck, UpdatePCs, Tags, NoTags, Uint64, TypeOK
  <2> QED
    BY Zenon, <1>4, <2>1, <2>2 DEF UpdateCheck, envVars, roundVars, viewVars, TypeOK
<1>5. CASE GroupBegin
  BY Zenon, <1>5
  DEF GroupBegin, GroupPCs, envVars, stateVars, updateVars, viewVars, TypeOK, Backends
<1>6. ASSUME NEW be \in Backends, FilterOne(be)
      PROVE  TypeOK'
  BY Zenon, <1>6 DEF FilterOne, envVars, stateVars, updateVars, viewVars, TypeOK
<1>7. CASE TryFallbacks
  BY Zenon, <1>7
  DEF TryFallbacks, GroupPCs, envVars, stateVars, updateVars, viewVars, TypeOK, Backends
<1>8. CASE Propose
  <2>1. /\ {proposed', lowestSafe', lowestFinalized'} \subseteq Uint64
        /\ proposedHash' \in AllHashes
        /\ gpc' \in GroupPCs
    <3> DEFINE C == NotLagging(candidates)
    <3>1. PICK T \in Counted(C) :
             \/ /\ proposed' = 0 /\ proposedHash' = NoHash
                /\ lowestSafe' = 0 /\ lowestFinalized' = 0
                /\ gpc' = "latest"
             \/ \E be \in T, s, f \in Uint64 :
                /\ proposed' = snap[be].latest
                /\ proposedHash' = snap[be].hash
                /\ lowestSafe' = s /\ lowestFinalized' = f
                /\ gpc' = "validate"
      BY ZenonT(60), <1>8 DEF Propose
    <3>2. T \subseteq Backends
      BY Zenon, <3>1 DEF Counted, NotLagging, TypeOK
    <3>3. \A be \in Backends : snap[be].latest \in Uint64 /\ snap[be].hash \in AllHashes
      BY Zenon DEF BackendState, TypeOK
    <3>4. 0 \in Uint64 /\ NoHash \in AllHashes
      BY SMTT(60), NumberAssumption DEF Uint64, AllHashes
    <3> QED
      BY Zenon, <3>1, <3>2, <3>3, <3>4 DEF GroupPCs
  <2>2. candidates' \subseteq Backends
    BY Zenon, <1>8 DEF Propose, NotLagging, TypeOK
  <2> QED
    BY Zenon, <1>8, <2>1, <2>2 DEF Propose, envVars, stateVars, updateVars, viewVars, TypeOK
<1>9. ASSUME NEW be \in Backends, NEW a \in Answers(proposed), ValidateOne(be, a)
      PROVE  TypeOK'
  <2>0. proposed \in Uint64 /\ proposedHash \in AllHashes
    BY Zenon DEF TypeOK
  <2>1. a \in Answer /\ OneBehind(proposed) \in Uint64
    BY Zenon, <2>0, AnswersTyped
  <2>2. proposed' \in Uint64 /\ proposedHash' \in AllHashes
    BY Zenon, <1>9, <2>0, <2>1, ValidateEffect DEF AllHashes, Answer
  <2>3. answers' \in [Backends -> Answer]
    <3>1. answers \in [Backends -> Answer] /\ NotAsked \in Answer
      BY Zenon, NothingTyped DEF TypeOK
    <3> QED
      BY SMTT(60), <1>9, <2>1, <3>1, ValidateEffect
  <2>4. broken' \in BOOLEAN
    BY Zenon, <1>9, ValidateEffect DEF TypeOK
  <2> QED
    BY Zenon, <1>9, <2>2, <2>3, <2>4
    DEF ValidateOne, envVars, stateVars, updateVars, viewVars, TypeOK
<1>10. CASE ValidateEnd
  BY Zenon, <1>10 DEF ValidateEnd, GroupPCs, envVars, stateVars, updateVars, viewVars, TypeOK
<1>11. CASE PublishTag
  BY Zenon, <1>11 DEF PublishTag, GroupPCs, envVars, stateVars, updateVars, TypeOK
<1>12. CASE PublishGroup
  <2>1. ZeroState \in BackendState /\ NotAsked \in Answer /\ 0 \in Uint64
    BY Zenon, NothingTyped
  <2> QED
    BY ZenonT(60), <1>12, <2>1
    DEF PublishGroup, GroupPCs, AllHashes, envVars, stateVars, updateVars, TypeOK
<1>13. CASE Tick
  BY SMTT(60), <1>13, NumberAssumption
  DEF Tick, envVars, updateVars, roundVars, viewVars, TypeOK
<1>14. ASSUME NEW be \in Backends, HealthChange(be)
       PROVE  TypeOK'
  BY Zenon, <1>14
  DEF HealthChange, stateVars, updateVars, roundVars, viewVars, TypeOK
<1>15. CASE UNCHANGED vars
  BY Zenon, <1>15 DEF vars, envVars, stateVars, updateVars, roundVars, viewVars, TypeOK
<1> QED
  BY ZenonT(60), <1>1, <1>2, <1>3, <1>4, <1>5, <1>6, <1>7, <1>8, <1>9, <1>10,
     <1>11, <1>12, <1>13, <1>14, <1>15 DEF Next, UpdateStep, GroupStep

(* Every reachable state of the poller is well typed: no block number      *)
(* stored, proposed or published leaves the uint64 range, whatever the     *)
(* backends report.                                                        *)
THEOREM TypeCorrect == Spec => []TypeOK
<1>1. Init => TypeOK
  <2>1. /\ ZeroState \in BackendState /\ NoTags \in Tags
        /\ NotAsked \in Answer /\ 0 \in Uint64 /\ NoHash \in AllHashes
    BY NumberAssumption DEF ZeroState, BackendState, NoTags, Tags, NotAsked,
                            Answer, Uint64, AllHashes
  <2>2. 0 \in 0..BanPeriod /\ MaxUpdateThreshold + 1 \in 0..(MaxUpdateThreshold + 1)
    BY NumberAssumption
  <2>3. Init => healthy \in [Backends -> BOOLEAN] /\ broken \in BOOLEAN
    BY ZenonT(60) DEF Init
  <2>4. Init => /\ bs \in [Backends -> BackendState]
                /\ snap \in [Backends -> BackendState]
                /\ old \in [Backends -> Tags]
                /\ answers \in [Backends -> Answer]
    BY SMTT(60), <2>1 DEF Init
  <2> QED
    BY SMTT(60), <2>1, <2>2, <2>3, <2>4 DEF Init, TypeOK, UpdatePCs, GroupPCs
<1> QED
  BY <1>1, TypeInductive, PTL DEF Spec

(* Tags out of order are in a recorded state only between the store and    *)
(* the check of one UpdateBackend.                                         *)
THEOREM BadTagsAreTransient == Spec => []BadTagsOnlyBeforeCheck
<1>1. Init => BadTagsOnlyBeforeCheck
  BY SMTT(60) DEF Init, BadTagsOnlyBeforeCheck, ZeroState
<1> QED
  BY <1>1, TypeCorrect, BadTagsInductive, PTL DEF Spec

(* No backend that is not forced enters the consensus group on the zero    *)
(* blocks of a ban or a restart, as long as a ban outlives the time for    *)
(* which an update counts as recent.                                       *)
THEOREM CandidatesAlwaysHaveBlocks == Spec => []CandidatesHaveBlocks
<1>1. Init => ZeroIsStale /\ CandidatesHaveBlocks
  BY SMTT(60), NumberAssumption DEF Init, ZeroIsStale, CandidatesHaveBlocks
<1> QED
  BY <1>1, TypeCorrect, ZeroIsStaleInductive, CandidatesInductive, PTL DEF Spec

-----------------------------------------------------------------------------
(* What the rounds publish: within the members, agreed, forks signalled,   *)
(* and step by step as ConsensusView promises, so that the readers of the  *)
(* poller may be reasoned about with its five steps.                       *)

(* What Propose hands to the validation, whatever the order in which the   *)
(* loop met the candidates: a block some candidate has, above none of      *)
(* them unless one of them has no block at all.                            *)
LEMMA ProposeFacts ==
    ASSUME TypeOK, Propose
    PROVE  /\ candidates' \subseteq candidates
           /\ gpc' = "validate" =>
                 /\ proposed' > 0
                 /\ \E be \in candidates' : proposed' = snap[be].latest
           /\ gpc' # "validate" =>
                 /\ gpc' = "latest" /\ proposed' = 0
                 /\ lowestSafe' = 0 /\ lowestFinalized' = 0
                 /\ candidates' # {} =>
                       \E be \in candidates' : snap[be].latest = 0
           /\ (\A be \in candidates' : snap[be].latest > 0) =>
                 \A be \in candidates' :
                    /\ proposed' <= snap[be].latest
                    /\ lowestSafe' <= snap[be].safe
                    /\ lowestFinalized' <= snap[be].finalized
<1> DEFINE C == NotLagging(candidates)
<1>1. C = candidates' /\ C \subseteq candidates
  BY Zenon DEF Propose, NotLagging
<1>2. \A be \in C : /\ snap[be].latest \in Nat /\ snap[be].safe \in Nat
                    /\ snap[be].finalized \in Nat
  BY <1>1 DEF TypeOK, BackendState, Uint64
<1>3. PICK T \in Counted(C) :
         \/ /\ T = {}
            /\ proposed' = 0 /\ proposedHash' = NoHash
            /\ lowestSafe' = 0 /\ lowestFinalized' = 0
            /\ gpc' = "latest"
         \/ \E be \in T, s, f \in Uint64 :
            /\ IsLowest(snap[be].latest, {snap[b].latest : b \in T})
            /\ IsLowest(s, {snap[b].safe : b \in T})
            /\ IsLowest(f, {snap[b].finalized : b \in T})
            /\ proposed' = snap[be].latest
            /\ proposedHash' = snap[be].hash
            /\ lowestSafe' = s /\ lowestFinalized' = f
            /\ gpc' = "validate"
  BY ZenonT(60) DEF Propose
<1>4. /\ T \subseteq C
      /\ \A be \in T : snap[be].latest > 0
      /\ (\A be \in C : snap[be].latest > 0) => T = C
  BY <1>2, <1>3 DEF Counted
<1>5. CASE T = {} /\ gpc' = "latest" /\ proposed' = 0
                /\ lowestSafe' = 0 /\ lowestFinalized' = 0
  BY <1>1, <1>2, <1>4, <1>5
<1>6. ASSUME NEW be \in T, NEW s \in Uint64, NEW f \in Uint64,
             IsLowest(snap[be].latest, {snap[b].latest : b \in T}),
             IsLowest(s, {snap[b].safe : b \in T}),
             IsLowest(f, {snap[b].finalized : b \in T}),
             proposed' = snap[be].latest, lowestSafe' = s, lowestFinalized' = f,
             gpc' = "validate"
      PROVE  /\ proposed' > 0
             /\ \E b \in C : proposed' = snap[b].latest
             /\ (\A b \in C : snap[b].latest > 0) =>
                   \A b \in C : /\ proposed' <= snap[b].latest
                                /\ lowestSafe' <= snap[b].safe
                                /\ lowestFinalized' <= snap[b].finalized
  BY Zenon, <1>4, <1>6 DEF IsLowest
<1> QED
  BY ZenonT(60), <1>1, <1>3, <1>5, <1>6

(* One request of the validation: it is skipped, agrees, or walks exactly  *)
(* one block back without passing block 0.                                 *)
LEMMA ValidateFacts ==
    ASSUME TypeOK, AgreedOnGenesis,
           NEW be \in Backends, NEW a \in Answers(proposed), ValidateOne(be, a)
    PROVE  \/ /\ a = Failed
              /\ answers' = [answers EXCEPT ![be] = Failed]
              /\ UNCHANGED <<proposed, proposedHash, broken>>
           \/ /\ a = Block(proposed, proposedHash')
              /\ proposedHash' # NoHash
              /\ proposedHash \in {NoHash, proposedHash'}
              /\ proposed = 0 => proposedHash' = Genesis
              /\ answers' = [answers EXCEPT ![be] = a]
              /\ UNCHANGED <<proposed, broken>>
           \/ /\ proposed > 0 /\ proposed' = proposed - 1
              /\ proposedHash' = NoHash
              /\ answers' = [b \in Backends |-> NotAsked]
              /\ current >= proposed => broken'
              /\ broken => broken'
<1> DEFINE h == IF proposedHash = NoHash THEN a.hash ELSE proposedHash
<1>1. proposed \in Nat /\ current \in Nat
  BY SMTT(60) DEF TypeOK, Uint64
<1>2. CASE a = Failed
  BY Zenon, <1>2 DEF ValidateOne
<1>3. CASE a # Failed
  <2>1. \E n \in {proposed, proposed - 1} : \E k \in BlockHashes(n) :
           a = Block(n, k) /\ (proposed = 0 => n = 0)
    BY Zenon, <1>1, <1>3 DEF Answers
  <2>2. a.num <= proposed /\ a.hash # NoHash /\ a = Block(a.num, a.hash)
    BY <1>1, <2>1, HashAssumption DEF Block, BlockHashes
  <2>3. proposed = 0 => a.num = 0 /\ a.hash = Genesis
    BY SMTT(60), <2>1 DEF Block, BlockHashes
  <2>4. CASE Matches(a, h)
    BY Zenon, <1>3, <2>2, <2>3, <2>4 DEF ValidateOne, Matches
  <2>5. CASE ~Matches(a, h)
    <3>1. proposed # 0
      BY Zenon, <2>3, <2>5 DEF AgreedOnGenesis, ValidateOne, Matches
    <3>2. /\ proposed' = OneBehind(proposed) /\ proposedHash' = NoHash
          /\ answers' = [b \in Backends |-> NotAsked]
          /\ broken' = (broken \/ Breaks(a))
      BY Zenon, <1>3, <2>5 DEF ValidateOne
    <3>3. a.num \in Nat
      BY <1>1, <2>1, <3>1 DEF Block
    <3>4. current >= proposed => Breaks(a)
      BY <1>1, <2>2, <3>3 DEF Breaks
    <3>5. proposed > 0 /\ proposed' = proposed - 1
      BY <1>1, <3>1, <3>2 DEF OneBehind
    <3> QED
      BY ZenonT(60), <3>2, <3>4, <3>5
  <2> QED
    BY Zenon, <2>4, <2>5
<1> QED
  BY Zenon, <1>2, <1>3

RoundInv ==
    /\ ProposalWithinCandidates
    /\ AgreedOnGenesis
    /\ AnswersAreCurrent
    /\ ForkSeen

(* The invariant of a round: the proposal stays within the candidates, the *)
(* answers kept are about it, and a walk back across the current consensus *)
(* block sets broken.                                                      *)
LEMMA RoundInductive ==
    TypeOK /\ CandidatesHaveBlocks /\ RoundInv /\ [Next]_vars => RoundInv'
<1> SUFFICES ASSUME TypeOK, CandidatesHaveBlocks, RoundInv, [Next]_vars
             PROVE  RoundInv'
  BY SMTT(60)
<1> USE DEF RoundInv
<1>1. /\ proposed \in Nat /\ current \in Nat
      /\ lowestSafe \in Nat /\ lowestFinalized \in Nat
      /\ \A b \in Backends : /\ snap[b].latest \in Nat /\ snap[b].safe \in Nat
                             /\ snap[b].finalized \in Nat
      /\ candidates \subseteq Backends
  BY SMTT(60) DEF TypeOK, BackendState, Uint64
<1>2. CASE GroupBegin
  BY Zenon, <1>2 DEF GroupBegin, ProposalWithinCandidates, AgreedOnGenesis,
              AnswersAreCurrent, ForkSeen, Proposing, Publishing
<1>3. ASSUME NEW be \in Backends, FilterOne(be)
      PROVE  RoundInv'
  BY Zenon, <1>3 DEF FilterOne, ProposalWithinCandidates, AgreedOnGenesis,
              AnswersAreCurrent, ForkSeen, Proposing, Publishing
<1>4. CASE TryFallbacks
  BY Zenon, <1>4 DEF TryFallbacks, ProposalWithinCandidates, AgreedOnGenesis,
              AnswersAreCurrent, ForkSeen, Proposing, Publishing
<1>5. CASE Propose
  <2>1. UNCHANGED <<current, snap, answers, broken>> /\ ~Proposing
    BY Zenon, <1>5 DEF Propose, Proposing, Publishing
  <2>2. ProposalWithinCandidates'
    BY Zenon, <1>5, <2>1, ProposeFacts DEF ProposalWithinCandidates, CandidatesHaveBlocks
  <2>3. AgreedOnGenesis'
    BY SMTT(60), <1>5, ProposeFacts DEF AgreedOnGenesis
  <2>4. AnswersAreCurrent'
    BY SMTT(60), <1>5, <2>1, ProposeFacts
    DEF AnswersAreCurrent, Publishing, TypeOK
  <2>5. ForkSeen'
    BY <1>1, <1>5, <2>1, ProposeFacts DEF ForkSeen
  <2> QED
    BY Zenon, <2>2, <2>3, <2>4, <2>5
<1>6. ASSUME NEW be \in Backends, NEW a \in Answers(proposed), ValidateOne(be, a)
      PROVE  RoundInv'
  <2>1. /\ UNCHANGED <<gpc, current, candidates, snap, lowestSafe, lowestFinalized>>
        /\ gpc = "validate" /\ Proposing /\ ~Publishing
        /\ (Proposing <=> Proposing') /\ (Publishing <=> Publishing')
    BY Zenon, <1>6 DEF ValidateOne, Proposing, Publishing
  <2>2. ProposalWithinCandidates'
    BY SMTT(60), <1>1, <1>6, <2>1, ValidateFacts DEF ProposalWithinCandidates
  <2>3. AgreedOnGenesis'
    BY Zenon, <1>6, <2>1, ValidateFacts DEF AgreedOnGenesis
  <2>4. AnswersAreCurrent'
    BY SMTT(60), <1>6, <2>1, ValidateFacts DEF AnswersAreCurrent, TypeOK
  <2>5. ForkSeen'
    <3>1. CASE UNCHANGED <<proposed, broken>>
      BY ZenonT(60), <2>1, <3>1 DEF ForkSeen
    <3>2. CASE /\ proposed' = proposed - 1
               /\ current >= proposed => broken'
               /\ broken => broken'
      <4>1. proposed' < current' => current >= proposed
        BY SMTT(60), <1>1, <2>1, <3>2
      <4> QED
        BY ZenonT(60), <3>2, <4>1 DEF ForkSeen
    <3> QED
      BY Zenon, <1>6, <3>1, <3>2, ValidateFacts
  <2> QED
    BY Zenon, <2>2, <2>3, <2>4, <2>5
<1>7. CASE ValidateEnd
  BY Zenon, <1>7 DEF ValidateEnd, ProposalWithinCandidates, AgreedOnGenesis,
              AnswersAreCurrent, ForkSeen, Proposing, Publishing
<1>8. CASE PublishTag
  BY Zenon, <1>8 DEF PublishTag, ProposalWithinCandidates, AgreedOnGenesis,
              AnswersAreCurrent, ForkSeen, Proposing, Publishing
<1>9. CASE PublishGroup
  BY Zenon, <1>9 DEF PublishGroup, ProposalWithinCandidates, AgreedOnGenesis,
              AnswersAreCurrent, ForkSeen, Proposing, Publishing
<1>10. CASE ~GroupStep
  BY <1>10, RoundIsOwned
  DEF roundVars, ProposalWithinCandidates, AgreedOnGenesis, AnswersAreCurrent,
      ForkSeen, Proposing, Publishing
<1> QED
  BY Zenon, <1>2, <1>3, <1>4, <1>5, <1>6, <1>7, <1>8, <1>9, <1>10 DEF GroupStep

LEMMA RoundInvariant == Spec => [](TypeOK /\ RoundInv)
<1>1. Init => RoundInv
  BY Zenon DEF Init, RoundInv, ProposalWithinCandidates, AgreedOnGenesis,
         AnswersAreCurrent, ForkSeen, Proposing, Publishing
<1> QED
  BY <1>1, TypeCorrect, CandidatesAlwaysHaveBlocks, RoundInductive, PTL DEF Spec

(* The published latest, safe and finalized blocks are ahead of no member  *)
(* of the group they are published with; in particular the walk back of    *)
(* the proposed block never wraps below block 0.                           *)
THEOREM PublishedIsWithinMembers == Spec => []PublishedWithinMembers
<1>1. RoundInv => PublishedWithinMembers
  BY Zenon DEF RoundInv, ProposalWithinCandidates, PublishedWithinMembers, Proposing
<1> QED
  BY <1>1, RoundInvariant, PTL

(* A published block carries the one hash that every member of the group   *)
(* gave for it in the last sweep, except members whose request failed.     *)
THEOREM PublishedIsAgreed == Spec => []AgreedOrUnreachable
<1>1. TypeOK /\ RoundInv => AgreedOrUnreachable
  BY Zenon DEF RoundInv, AnswersAreCurrent, AgreedOrUnreachable, TypeOK
<1> QED
  BY <1>1, RoundInvariant, PTL

(* A round that takes back a block clients were told about, though every   *)
(* candidate has reached it, reports a broken consensus.                   *)
THEOREM ForksAreSignalled == Spec => []ForkBelowConsensusIsSignalled
<1>1. RoundInv => ForkBelowConsensusIsSignalled
  BY Zenon DEF RoundInv, ForkSeen, ForkBelowConsensusIsSignalled, Proposing
<1> QED
  BY <1>1, RoundInvariant, PTL

-----------------------------------------------------------------------------
(* ConsensusPoller implements ConsensusView                                *)

(* The lowest safe and finalized block of candidates that all have blocks  *)
(* are blocks, and candidates that are none leave only zeros.              *)
LEMMA LowestHasBlocks ==
    ASSUME TypeOK, CandidatesHaveBlocks, Propose
    PROVE  /\ candidates' = {} =>
                 /\ gpc' = "latest" /\ proposed' = 0
                 /\ lowestSafe' = 0 /\ lowestFinalized' = 0
           /\ candidates' # {} /\ candidates' \cap ForcedCandidates = {} =>
                 lowestSafe' > 0 /\ lowestFinalized' > 0
<1> DEFINE C == NotLagging(candidates)
<1>1. C = candidates' /\ C \subseteq candidates
  BY Zenon DEF Propose, NotLagging
<1>2. PICK T \in Counted(C) :
         \/ /\ T = {}
            /\ proposed' = 0 /\ lowestSafe' = 0 /\ lowestFinalized' = 0
            /\ gpc' = "latest"
         \/ \E be \in T, s, f \in Uint64 :
            /\ IsLowest(s, {snap[b].safe : b \in T})
            /\ IsLowest(f, {snap[b].finalized : b \in T})
            /\ lowestSafe' = s /\ lowestFinalized' = f
  BY ZenonT(60) DEF Propose
<1>3. C = {} => T = {}
  BY Zenon, <1>2 DEF Counted
<1>4. ASSUME C # {}, C \cap ForcedCandidates = {}
      PROVE  lowestSafe' > 0 /\ lowestFinalized' > 0
  <2>1. \A b \in C : snap[b].latest > 0 /\ snap[b].safe > 0 /\ snap[b].finalized > 0
    BY Zenon, <1>1, <1>4 DEF CandidatesHaveBlocks
  <2>2. T = C
    <3>1. \A b \in C : snap[b].latest # 0
      BY SMTT(60), <1>1, <2>1 DEF TypeOK, BackendState, Uint64
    <3> QED
      BY Zenon, <1>2, <3>1 DEF Counted
  <2> QED
    BY Zenon, <1>2, <1>4, <2>1, <2>2 DEF IsLowest
<1> QED
  BY Zenon, <1>1, <1>2, <1>3, <1>4

LEMMA RoundHasBlocksInductive ==
    TypeOK /\ CandidatesHaveBlocks /\ RoundHasBlocks /\ [Next]_vars
        => RoundHasBlocks'
<1> SUFFICES ASSUME TypeOK, CandidatesHaveBlocks, RoundHasBlocks, [Next]_vars
             PROVE  RoundHasBlocks'
  BY SMTT(60)
<1> USE DEF RoundHasBlocks, Proposing, Publishing
<1>1. CASE Propose
  BY Zenon, <1>1, LowestHasBlocks
<1>2. ASSUME NEW be \in Backends, NEW a \in Answers(proposed), ValidateOne(be, a)
      PROVE  RoundHasBlocks'
  BY Zenon, <1>2 DEF ValidateOne
<1>3. CASE GroupBegin
  BY Zenon, <1>3 DEF GroupBegin
<1>4. ASSUME NEW be \in Backends, FilterOne(be)
      PROVE  RoundHasBlocks'
  BY Zenon, <1>4 DEF FilterOne
<1>5. CASE TryFallbacks
  BY Zenon, <1>5 DEF TryFallbacks
<1>6. CASE ValidateEnd
  BY Zenon, <1>6 DEF ValidateEnd
<1>7. CASE PublishTag
  BY Zenon, <1>7 DEF PublishTag
<1>8. CASE PublishGroup
  BY Zenon, <1>8 DEF PublishGroup
<1>9. CASE ~GroupStep
  BY Zenon, <1>9, RoundIsOwned DEF roundVars
<1> QED
  BY Zenon, <1>1, <1>2, <1>3, <1>4, <1>5, <1>6, <1>7, <1>8, <1>9 DEF GroupStep

(* What the published variables are when a round does not publish.         *)
LEMMA ViewIsOwned ==
    ASSUME [Next]_vars, ~GroupStep
    PROVE  UNCHANGED <<roundVars, viewVars>>
  BY Zenon DEF Next, UpdateStep, FallbackScan, UpdateBegin, UpdatePoll, UpdateCheck,
         Tick, HealthChange, vars

(* Every step of the poller is a step of the view or leaves it alone.      *)
LEMMA ViewStep ==
    TypeOK /\ TypeOK' /\ RoundHasBlocks /\ RoundHasBlocks' /\ [Next]_vars
        => [View!ViewNext]_(View!viewVars)
<1> SUFFICES ASSUME TypeOK, TypeOK', RoundHasBlocks, RoundHasBlocks', [Next]_vars
             PROVE  [View!ViewNext]_(View!viewVars)
  OBVIOUS
<1>1. ASSUME gpc' = "latest", ~Publishing, UNCHANGED viewVars
      PROVE  View!Resolve
  <2>1. Publishing' /\ Proposing'
    BY Zenon, <1>1 DEF Proposing, Publishing
  <2> DEFINE r == [latest |-> proposed, safe |-> lowestSafe,
                   finalized |-> lowestFinalized, group |-> candidates]
  <2>2. r' \in [latest : Uint64, safe : Uint64, finalized : Uint64,
                group : SUBSET Backends]
    BY Zenon DEF TypeOK
  <2>3. r' \in View!Rounds
    BY Zenon, <2>1, <2>2 DEF View!Rounds, View!Nothing, RoundHasBlocks
  <2> QED
    BY Zenon, <1>1, <2>1, <2>3 DEF View!Resolve, View!published, viewVars
<1>2. ASSUME ~Publishing, ~Publishing', UNCHANGED viewVars
      PROVE  UNCHANGED View!viewVars
  BY Zenon, <1>2 DEF View!viewVars, View!published, viewVars
<1>3. CASE Propose
  <2>1. ~Publishing /\ UNCHANGED viewVars
    BY Zenon, <1>3 DEF Propose, Publishing
  <2>2. CASE gpc' = "latest"
    BY <1>1, <2>1, <2>2 DEF View!ViewNext
  <2>3. CASE gpc' = "validate"
    BY <1>2, <2>1, <2>3 DEF Publishing
  <2> QED
    BY ZenonT(60), <1>3, <2>2, <2>3 DEF Propose
<1>4. CASE ValidateEnd
  <2>1. gpc' = "latest" /\ ~Publishing /\ UNCHANGED viewVars
    BY Zenon, <1>4 DEF ValidateEnd, Publishing
  <2> QED
    BY <1>1, <2>1 DEF View!ViewNext
<1>5. ASSUME NEW be \in Backends, NEW a \in Answers(proposed), ValidateOne(be, a)
      PROVE  UNCHANGED View!viewVars
  BY Zenon, <1>2, <1>5 DEF ValidateOne, Publishing
<1>6. ASSUME NEW be \in Backends, FilterOne(be)
      PROVE  UNCHANGED View!viewVars
  BY Zenon, <1>2, <1>6 DEF FilterOne, Publishing
<1>7. CASE GroupBegin \/ TryFallbacks
  <2>1. ~Publishing /\ ~Publishing' /\ UNCHANGED viewVars
    BY Zenon, <1>7 DEF GroupBegin, TryFallbacks, Publishing
  <2> QED
    BY <1>2, <2>1
<1>8. CASE PublishTag
  <2>1. Publishing /\ Publishing'
    BY Zenon, <1>8 DEF PublishTag, Publishing
  <2>2. UNCHANGED <<proposed, lowestSafe, lowestFinalized, candidates, group>>
    BY Zenon, <1>8 DEF PublishTag
  <2>3. CASE gpc = "latest"
    BY Zenon, <1>8, <2>1, <2>2, <2>3
    DEF PublishTag, View!ViewNext, View!PublishLatest
  <2>4. CASE gpc = "safe"
    BY Zenon, <1>8, <2>1, <2>2, <2>4
    DEF PublishTag, View!ViewNext, View!PublishSafe
  <2>5. CASE gpc = "finalized"
    BY Zenon, <1>8, <2>1, <2>2, <2>5
    DEF PublishTag, View!ViewNext, View!PublishFinalized
  <2> QED
    BY Zenon, <1>8, <2>3, <2>4, <2>5 DEF PublishTag
<1>9. CASE PublishGroup
  <2>1. Publishing /\ ~Publishing'
    BY Zenon, <1>9 DEF PublishGroup, Publishing
  <2> QED
    BY Zenon, <1>9, <2>1 DEF PublishGroup, View!ViewNext, View!PublishGroup, View!Nothing
<1>10. CASE ~GroupStep
  <2>1. UNCHANGED <<roundVars, viewVars>>
    BY Zenon, <1>10, ViewIsOwned
  <2>2. UNCHANGED Publishing
    BY Zenon, <2>1 DEF roundVars, Publishing
  <2> QED
    BY Zenon, <2>1, <2>2 DEF roundVars, viewVars, View!viewVars, View!published
<1> QED
  BY Zenon, <1>3, <1>4, <1>5, <1>6, <1>7, <1>8, <1>9, <1>10 DEF GroupStep

(* The poller implements the view its readers rely on: nothing published   *)
(* moves while a round filters, proposes and validates, and the four steps *)
(* that publish its result come in order, with zeros only for a group that *)
(* is empty or has a forced member.                                        *)
THEOREM PollerImplementsView == Spec => ImplementsView
<1>1. Init => View!ViewInit
  BY Zenon DEF Init, Publishing, View!ViewInit, View!Nothing
<1>2. Init => RoundHasBlocks
  BY Zenon DEF Init, RoundHasBlocks, Proposing, Publishing
<1>3. Spec => []RoundHasBlocks
  BY <1>2, TypeCorrect, CandidatesAlwaysHaveBlocks, RoundHasBlocksInductive, PTL DEF Spec
<1> QED
  BY <1>1, <1>3, TypeCorrect, ViewStep, PTL DEF Spec, ImplementsView, View!ViewSpec
==============================================================================
