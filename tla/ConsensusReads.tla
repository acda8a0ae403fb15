---------------------------- MODULE ConsensusReads ----------------------------
(***************************************************************************)
(* A request to a consensus aware group while its poller publishes         *)
(* (BackendGroup.Forward in backend.go).  The request takes the backends   *)
(* first and the three block numbers one after the other, without a lock   *)
(* over them; then it rewrites its call with what it read.                 *)
(*                                                                         *)
(* Start serves requests before it gives the group its poller, so          *)
(* bg.Consensus may still be nil at either of the two places that test it. *)
(***************************************************************************)
EXTENDS ConsensusView, Rewriter

CONSTANT MaxRounds      \* rounds of the poller

ASSUME ReadsAssumption == Blocks = 0..MaxBlock /\ MaxRounds \in Nat

VARIABLES
    attached,   \* bg.Consensus is set
    count,      \* rounds resolved; the one in progress has this number
    stamp,      \* the round that published each part of the view
    pc,         \* where the request is
    ordered,    \* it took its backends from the consensus group
    backends,   \* those it took; BackendForward sorts them by their health
    seen        \* the round each part was read from

requestVars == <<pc, ordered, backends, seen, rewriteVars>>
vars == <<viewVars, attached, count, stamp, requestVars>>

Parts == {"latest", "safe", "finalized", "group"}
NoContext == [latest |-> 0, safe |-> 0, finalized |-> 0, maxBlockRange |-> 0]
NoCall == [method |-> "eth_chainId", before |-> 0, block |-> Absent]

Init ==
    /\ ViewInit
    /\ attached = FALSE /\ count = 0 /\ stamp = [p \in Parts |-> 0]
    /\ pc = "order" /\ ordered = FALSE /\ backends = {} /\ seen = [p \in Parts |-> 0]
    /\ rctx = NoContext /\ call = NoCall /\ result = "pending" /\ params = NoCall

-----------------------------------------------------------------------------
(* The poller, as ConsensusView has it                                     *)

NewRound ==
    /\ count < MaxRounds /\ count' = count + 1
    /\ Resolve
    /\ UNCHANGED <<attached, stamp, requestVars>>

(* Mutant: a group that is published before the numbers of its round.      *)
PublishGroupFirst ==
    \/ /\ phase = "latest" /\ phase' = "safe"
       /\ latest' = round.latest /\ group' = round.group
       /\ stamp' = [stamp EXCEPT !.latest = count, !.group = count]
       /\ UNCHANGED <<round, safe, finalized, attached, count, requestVars>>
    \/ /\ PublishSafe /\ stamp' = [stamp EXCEPT !.safe = count]
       /\ UNCHANGED <<attached, count, requestVars>>
    \/ /\ PublishFinalized /\ stamp' = [stamp EXCEPT !.finalized = count]
       /\ UNCHANGED <<attached, count, requestVars>>
    \/ /\ phase = "group" /\ phase' = "resolve" /\ round' = Nothing
       /\ UNCHANGED <<published, stamp, attached, count, requestVars>>

(* Mutant: the safe number is left as it was.                              *)
PublishAllButSafe ==
    \/ /\ \/ PublishLatest    /\ stamp' = [stamp EXCEPT !.latest = count]
          \/ PublishFinalized /\ stamp' = [stamp EXCEPT !.finalized = count]
          \/ PublishGroup     /\ stamp' = [stamp EXCEPT !.group = count]
       /\ UNCHANGED <<attached, count, requestVars>>
    \/ /\ phase = "safe" /\ phase' = "finalized"
       /\ UNCHANGED <<round, published, stamp, attached, count, requestVars>>

Publish ==
    /\ \/ PublishLatest    /\ stamp' = [stamp EXCEPT !.latest = count]
       \/ PublishSafe      /\ stamp' = [stamp EXCEPT !.safe = count]
       \/ PublishFinalized /\ stamp' = [stamp EXCEPT !.finalized = count]
       \/ PublishGroup     /\ stamp' = [stamp EXCEPT !.group = count]
    /\ UNCHANGED <<attached, count, requestVars>>

(* Start: NewConsensusPoller runs the goroutines, then the group gets it.  *)
Attach ==
    /\ ~attached /\ attached' = TRUE
    /\ UNCHANGED <<viewVars, count, stamp, requestVars>>

-----------------------------------------------------------------------------
(* The request                                                             *)

(* orderedBackendsForRequest: the members, which GetConsensusGroup copies  *)
(* under a lock, or all backends of a group that has no poller.            *)
OrderedBackends ==
    /\ pc = "order" /\ pc' = "aware"
    /\ ordered' = attached
    /\ IF attached
       THEN backends' = group /\ seen' = [seen EXCEPT !.group = stamp.group]
       ELSE backends' = Backends /\ UNCHANGED seen
    /\ UNCHANGED <<viewVars, attached, count, stamp, rewriteVars>>

(* The second test of bg.Consensus; without a poller nothing is rewritten. *)
Aware ==
    /\ pc = "aware"
    /\ IF attached
       THEN pc' = "latest" /\ UNCHANGED result
       ELSE pc' = "sent" /\ result' = "unaware"
    /\ UNCHANGED <<viewVars, attached, count, stamp, ordered, backends, seen, rctx,
                   call, params>>

(* OverwriteConsensusResponses fills the RewriteContext field by field,    *)
(* each read under the lock of the tracker.                                *)
ReadTag ==
    /\ \/ pc = "latest" /\ pc' = "safe" /\ rctx' = [rctx EXCEPT !.latest = latest]
       \/ pc = "safe" /\ pc' = "finalized" /\ rctx' = [rctx EXCEPT !.safe = safe]
       \/ /\ pc = "finalized" /\ pc' = "rewrite"
          /\ \E r \in MaxBlockRanges :
                rctx' = [rctx EXCEPT !.finalized = finalized, !.maxBlockRange = r]
    /\ seen' = [seen EXCEPT ![pc] = stamp[pc]]
    /\ UNCHANGED <<viewVars, attached, count, stamp, ordered, backends, call, result,
                   params>>

(* RewriteTags, and the request goes on to its backends.                   *)
OverwriteConsensusResponses ==
    /\ pc = "rewrite" /\ pc' = "sent"
    /\ \E c \in Calls : Rewrite(c)
    /\ UNCHANGED <<viewVars, attached, count, stamp, ordered, backends, seen>>

Next ==
    \/ NewRound \/ Publish \/ Attach
    \/ OrderedBackends \/ Aware \/ ReadTag \/ OverwriteConsensusResponses

Spec == Init /\ [][Next]_vars

-----------------------------------------------------------------------------
(* Properties                                                              *)

(* Where the request is once it has read a tag, and the tags it has read.  *)
After == [latest    |-> {"safe", "finalized", "rewrite", "sent"},
          safe      |-> {"finalized", "rewrite", "sent"},
          finalized |-> {"rewrite", "sent"}]
ReadTags == {tag \in Tags : result # "unaware" /\ pc \in After[tag]}

(* The numbers a request is rewritten with are at least as new as the      *)
(* group that serves it: Forward takes the group first and the poller      *)
(* publishes it last.  So members of a group are never asked for the       *)
(* blocks of a round before it, such as the zeros of a fresh tracker:      *)
(* a zero for safe means that a later round lost all its members.          *)
TagsNotOlderThanGroup ==
    ordered =>
        \A tag \in ReadTags :
            /\ seen[tag] >= seen.group
            /\ tag # "latest" /\ rctx[tag] = 0 /\ backends # {}
                  /\ backends \cap ForcedCandidates = {} => seen[tag] > seen.group

(* The numbers of one request come from different rounds when the poller   *)
(* publishes between the reads, but a number read later is at most one     *)
(* round older than one read before it, since the poller writes them in    *)
(* the order in which the request reads them.                              *)
TornByAtMostOneRound ==
    \A tag \in ReadTags :
        /\ tag # "latest" => seen[tag] + 1 >= seen.latest
        /\ tag = "finalized" => seen[tag] + 1 >= seen.safe
=============================================================================
