---------------------------- MODULE RedisTracker ----------------------------
(***************************************************************************)
(* The shared consensus state of several proxyd instances                  *)
(* (consensus_tracker.go, RedisConsensusTracker): the instances elect a    *)
(* leader by a Redis lock, the leader posts its local state, the others    *)
(* copy it.  Redis and its lock library are external and modelled from     *)
(* their use: every call is atomic, may fail, and may fail although it     *)
(* took effect.  A lock value is fresh at each acquisition (Lock), and     *)
(* extend and unlock act only on the value they were given.                *)
(*                                                                         *)
(* Mishaps (failed calls, lock expiry under a live owner, crashes) are     *)
(* bounded by MaxMishaps, elections by MaxElections.                       *)
(***************************************************************************)
EXTENDS Naturals

CONSTANTS
    Instances,
    SharedTags,         \* of latest, safe and finalized; all are treated alike
    MaxNumber, MaxElections, MaxMishaps,
    Monotone            \* TRUE: no poller ever lowers a tag

ASSUME BoundsAssumption ==
    /\ {MaxNumber, MaxElections, MaxMishaps} \subseteq Nat
    /\ Monotone \in BOOLEAN

VARIABLES
    lock,       \* Redis: the value of the mutex key, or Free
    shared,     \* Redis: the state posted under each lock value, or NoState
    elections,  \* lock values given out so far
    mishaps,    \* mishaps so far
    hpc,        \* where the heartbeat of each instance is
    leader,     \* ct.leader
    redlock,    \* the value of ct.redlock, or Free
    val,        \* the lock value the current heartbeat is about
    buf, todo,  \* tags read from the local state one by one, and those left
    local,      \* what the poller of the instance has set
    remote      \* what the instance serves

redisVars == <<lock, shared, elections>>
hbVars    == <<hpc, leader, redlock, val, buf, todo, remote>>
trackerVars == <<redisVars, mishaps, hbVars, local>>

Free   == 0
LockIDs == 1..MaxElections
State  == [SharedTags -> 0..MaxNumber]
Zero   == [t \in SharedTags |-> 0]
NoState == [t \in {} |-> 0]

PCs == {"idle", "check", "lock", "extend", "release", "follow", "marshal",
        "postState", "postLeader", "adopt"}

TrackerInit ==
    /\ lock = Free /\ shared = [v \in LockIDs |-> NoState] /\ elections = 0
    /\ mishaps = 0
    /\ hpc = [i \in Instances |-> "idle"]
    /\ leader = [i \in Instances |-> FALSE]
    /\ redlock = [i \in Instances |-> Free]
    /\ val = [i \in Instances |-> Free]
    /\ buf = [i \in Instances |-> Zero] /\ todo = [i \in Instances |-> {}]
    /\ local = [i \in Instances |-> Zero] /\ remote = [i \in Instances |-> Zero]

-----------------------------------------------------------------------------
Valid(s)      == \A t \in SharedTags : s[t] > 0
Behind(s, o)  == \E t \in SharedTags : s[t] < o[t]

Mishap   == mishaps < MaxMishaps /\ mishaps' = mishaps + 1
NoMishap == UNCHANGED mishaps

Goto(i, l) == hpc' = [hpc EXCEPT ![i] = l]

(* The end of a heartbeat; the scratch variables are forgotten.            *)
Done(i) ==
    /\ Goto(i, "idle")
    /\ val' = [val EXCEPT ![i] = Free]
    /\ buf' = [buf EXCEPT ![i] = Zero]
    /\ todo' = [todo EXCEPT ![i] = {}]

SetLeader(i, b) == leader' = [leader EXCEPT ![i] = b]

(* The heartbeat reads the mutex key.  On an error a leader tries to give  *)
(* the lock back.                                                          *)
ReadLock(i) ==
    /\ hpc[i] = "idle"
    /\ \/ /\ Mishap
          /\ Goto(i, IF leader[i] THEN "release" ELSE "idle")
          /\ UNCHANGED val
       \/ /\ NoMishap
          /\ val' = [val EXCEPT ![i] = lock]
          /\ Goto(i, IF lock = Free THEN "check"
                     ELSE IF leader[i] THEN "extend" ELSE "follow")
    /\ UNCHANGED <<redisVars, leader, redlock, buf, todo, remote, local>>

(* Mutants: an instance that goes for the lock whatever it has, and one    *)
(* that wants to be ahead of what it serves.                               *)
EligibleAlways(i) == Valid(local[i])
EligibleAhead(i) == Valid(local[i]) /\ Behind(remote[i], local[i])

(* Without a lock in Redis: only an instance whose local state is valid    *)
(* and not behind what it serves goes for it.  The calls of Valid and      *)
(* Behind are taken as one step.                                           *)
Eligible(i) ==
    Valid(local[i]) /\ ~(Valid(remote[i]) /\ Behind(local[i], remote[i]))

Check(i) ==
    /\ hpc[i] = "check"
    /\ IF Eligible(i)
       THEN Goto(i, "lock") ELSE Goto(i, "idle")
    /\ UNCHANGED <<redisVars, mishaps, leader, redlock, val, buf, todo, remote,
                   local>>

(* Mutant: a lock that is taken over from whoever holds it.                *)
LockSteal(i) ==
    /\ hpc[i] = "lock" /\ elections < MaxElections /\ NoMishap
    /\ elections' = elections + 1 /\ lock' = elections'
    /\ redlock' = [redlock EXCEPT ![i] = lock']
    /\ SetLeader(i, TRUE)
    /\ val' = [val EXCEPT ![i] = lock']
    /\ Goto(i, "marshal") /\ todo' = [todo EXCEPT ![i] = SharedTags]
    /\ UNCHANGED <<buf, shared, remote, local>>

(* A lock value is set only if there is none.  After a lost reply the lock *)
(* stands in Redis with a value nobody keeps.                              *)
Lock(i) ==
    /\ hpc[i] = "lock"
    /\ \/ /\ lock = Free /\ elections < MaxElections /\ NoMishap
          /\ elections' = elections + 1 /\ lock' = elections'
          /\ redlock' = [redlock EXCEPT ![i] = lock']
          /\ SetLeader(i, TRUE)
          /\ val' = [val EXCEPT ![i] = lock']
          /\ Goto(i, "marshal") /\ todo' = [todo EXCEPT ![i] = SharedTags]
          /\ UNCHANGED buf
       \/ /\ lock = Free /\ elections < MaxElections /\ Mishap
          /\ elections' = elections + 1 /\ lock' = elections'
          /\ SetLeader(i, FALSE) /\ Done(i) /\ UNCHANGED redlock
       \/ /\ \/ lock # Free /\ NoMishap
             \/ Mishap
          /\ SetLeader(i, FALSE) /\ Done(i)
          /\ UNCHANGED <<lock, elections, redlock>>
    /\ UNCHANGED <<shared, remote, local>>

(* Mutant: an extension that does not ask whose lock it is.                *)
ExtendAny(i) ==
    /\ hpc[i] = "extend" /\ NoMishap
    /\ IF lock # Free
       THEN Goto(i, "marshal") /\ todo' = [todo EXCEPT ![i] = SharedTags]
       ELSE Goto(i, "release") /\ UNCHANGED todo
    /\ UNCHANGED <<redisVars, leader, redlock, val, buf, remote, local>>

(* Extend: it fails when the key no longer holds the value of redlock.     *)
Extend(i) ==
    /\ hpc[i] = "extend"
    /\ \/ /\ lock = redlock[i] /\ NoMishap
          /\ Goto(i, "marshal") /\ todo' = [todo EXCEPT ![i] = SharedTags]
       \/ /\ \/ lock # redlock[i] /\ NoMishap
             \/ Mishap
          /\ Goto(i, "release") /\ UNCHANGED todo
    /\ UNCHANGED <<redisVars, leader, redlock, val, buf, remote, local>>

(* Unlock after an error.  If it fails too, the instance goes on as the    *)
(* leader it took itself for.                                              *)
Release(i) ==
    /\ hpc[i] = "release"
    /\ \/ /\ lock = redlock[i] /\ NoMishap
          /\ lock' = Free /\ SetLeader(i, FALSE)
       \/ /\ lock = redlock[i] /\ Mishap
          /\ lock' = Free /\ UNCHANGED leader
       \/ /\ \/ lock # redlock[i] /\ NoMishap
             \/ Mishap
          /\ UNCHANGED <<lock, leader>>
    /\ Done(i)
    /\ UNCHANGED <<shared, elections, redlock, remote, local>>

(* A follower copies the state posted under the lock value it read.        *)
Follow(i) ==
    /\ hpc[i] = "follow"
    /\ \/ Mishap /\ UNCHANGED remote
       \/ /\ NoMishap
          /\ remote' = IF shared[val[i]] = NoState THEN remote
                       ELSE [remote EXCEPT ![i] = shared[val[i]]]
    /\ Done(i)
    /\ UNCHANGED <<redisVars, leader, redlock, local>>

(* postPayload: the local state is marshalled without its mutex, so its    *)
(* tags are read one by one while the poller writes them.                  *)
Marshal(i, t) ==
    /\ hpc[i] = "marshal" /\ t \in todo[i]
    /\ buf' = [buf EXCEPT ![i][t] = local[i][t]]
    /\ todo' = [todo EXCEPT ![i] = @ \ {t}]
    /\ Goto(i, IF todo'[i] = {} THEN "postState" ELSE "marshal")
    /\ UNCHANGED <<redisVars, mishaps, leader, redlock, val, remote, local>>

PostState(i) ==
    /\ hpc[i] = "postState"
    /\ \/ /\ NoMishap
          /\ shared' = [shared EXCEPT ![val[i]] = buf[i]]
          /\ Goto(i, "postLeader")
          /\ UNCHANGED <<leader, val, buf, todo>>
       \/ /\ Mishap
          /\ shared' \in {shared, [shared EXCEPT ![val[i]] = buf[i]]}
          /\ SetLeader(i, FALSE) /\ Done(i)
    /\ UNCHANGED <<lock, elections, redlock, remote, local>>

(* The name of the leader is posted for the metrics of the followers; an   *)
(* error ends the leadership all the same.                                 *)
PostLeader(i) ==
    /\ hpc[i] = "postLeader"
    /\ \/ /\ NoMishap
          /\ Goto(i, "adopt") /\ todo' = [todo EXCEPT ![i] = SharedTags]
          /\ UNCHANGED <<leader, val, buf>>
       \/ Mishap /\ SetLeader(i, FALSE) /\ Done(i)
    /\ UNCHANGED <<redisVars, redlock, remote, local>>

(* remote.update(local.state): the local tags are read again, and again    *)
(* one by one; the remote state changes at once, under its mutex.          *)
Adopt(i, t) ==
    /\ hpc[i] = "adopt" /\ t \in todo[i]
    /\ IF todo[i] = {t}
       THEN /\ remote' = [remote EXCEPT ![i] = [buf[i] EXCEPT ![t] = local[i][t]]]
            /\ Done(i)
       ELSE /\ buf' = [buf EXCEPT ![i][t] = local[i][t]]
            /\ todo' = [todo EXCEPT ![i] = @ \ {t}]
            /\ UNCHANGED <<hpc, val, remote>>
    /\ UNCHANGED <<redisVars, mishaps, leader, redlock, local>>

-----------------------------------------------------------------------------
(* UpdateBackendGroupConsensus sets the three tags one after the other; a  *)
(* set may leave the tag as it was.                                        *)
SetTag(i, t, n) ==
    /\ Monotone => n >= local[i][t]
    /\ local' = [local EXCEPT ![i][t] = n]
    /\ UNCHANGED <<redisVars, mishaps, hbVars>>

(* The lock expires when its owner no longer extends it: freely when the   *)
(* owner has given it up, as a mishap when the owner is merely slow.       *)
Owned == \E i \in Instances : leader[i] /\ redlock[i] = lock

ExpireLock ==
    /\ lock # Free /\ lock' = Free
    /\ IF Owned THEN Mishap ELSE NoMishap
    /\ UNCHANGED <<shared, elections, hbVars, local>>

(* A posted state outlives the lock it was posted under, then expires.     *)
ExpireState(v) ==
    /\ lock # v /\ shared[v] # NoState
    /\ shared' = [shared EXCEPT ![v] = NoState]
    /\ UNCHANGED <<lock, elections, mishaps, hbVars, local>>

(* A crash and restart of one instance; Redis keeps what it has.           *)
Crash(i) ==
    /\ Mishap
    /\ Done(i) /\ SetLeader(i, FALSE)
    /\ redlock' = [redlock EXCEPT ![i] = Free]
    /\ local' = [local EXCEPT ![i] = Zero]
    /\ remote' = [remote EXCEPT ![i] = Zero]
    /\ UNCHANGED redisVars

Heartbeat(i) ==
    \/ ReadLock(i) \/ Check(i) \/ Lock(i) \/ Extend(i) \/ Release(i)
    \/ Follow(i)
    \/ \E t \in SharedTags : Marshal(i, t)
    \/ PostState(i) \/ PostLeader(i)
    \/ \E t \in SharedTags : Adopt(i, t)

TrackerNext ==
    \/ \E i \in Instances : Heartbeat(i)
    \/ \E i \in Instances, t \in SharedTags, n \in 0..MaxNumber : SetTag(i, t, n)
    \/ ExpireLock
    \/ \E v \in LockIDs : ExpireState(v)
    \/ \E i \in Instances : Crash(i)

TrackerSpec == TrackerInit /\ [][TrackerNext]_trackerVars

(* The heartbeat goroutine of each instance runs for ever, and the TTL of  *)
(* a lock that nobody extends runs out.                                    *)
FairTrackerSpec ==
    /\ TrackerSpec
    /\ \A i \in Instances : WF_trackerVars(Heartbeat(i))
    /\ WF_trackerVars(ExpireLock /\ ~Owned)

-----------------------------------------------------------------------------
(* Properties                                                              *)

(* Types: a tracker serves and posts full states only, never the missing   *)
(* state a follower may read.                                              *)
TrackerTypeOK ==
    /\ lock \in {Free} \cup LockIDs
    /\ shared \in [LockIDs -> State \cup {NoState}]
    /\ elections \in 0..MaxElections
    /\ mishaps \in 0..MaxMishaps
    /\ hpc \in [Instances -> PCs]
    /\ leader \in [Instances -> BOOLEAN]
    /\ redlock \in [Instances -> {Free} \cup LockIDs]
    /\ val \in [Instances -> {Free} \cup LockIDs]
    /\ buf \in [Instances -> State]
    /\ todo \in [Instances -> SUBSET SharedTags]
    /\ local \in [Instances -> State]
    /\ remote \in [Instances -> State]

Posting(i) == hpc[i] \in {"marshal", "postState", "postLeader", "adopt"}

(* An instance posts only under the lock value it acquired itself, so one  *)
(* that lost the lock while it took itself for the leader never overwrites *)
(* what its successor posts.                                               *)
PostsUnderOwnLock ==
    \A i \in Instances : Posting(i) => leader[i] /\ val[i] = redlock[i]

(* As long as nothing failed, the one leader is the holder of the lock.    *)
OneLeaderWithoutMishaps ==
    mishaps = 0 => \A i \in Instances : leader[i] <=> lock # Free /\ lock = redlock[i]

(* If the pollers never lower a tag, a leader never serves less than it    *)
(* served before, since stateHeartbeat goes for the lock only when the     *)
(* local state is not behind the served one; nor less than it just gave    *)
(* its followers, though postPayload reads the local state twice, tag by   *)
(* tag, once to post it and once to serve it, while the poller sets it.    *)
LeaderNeverServesLess ==
    [][\A i \in Instances :
         hpc[i] = "adopt" /\ hpc'[i] = "idle" /\ leader'[i] =>
             /\ ~Behind(remote'[i], remote[i])
             /\ shared[val[i]] # NoState => ~Behind(remote'[i], shared[val[i]])]_trackerVars

(* A free lock is taken: if some instance keeps a valid local state that   *)
(* is not behind what it serves, stateHeartbeat gets the lock again and    *)
(* again, unless the bound on elections is used up.                        *)
ElectionsSucceed ==
    \A i \in Instances :
        <>[](Valid(local[i]) /\ ~Behind(local[i], remote[i]))
            => []<>(lock # Free \/ elections = MaxElections)

-----------------------------------------------------------------------------
(* The facts the proofs need beside the properties                         *)

(* Lock values are given out in order; the one in Redis is the newest, and *)
(* no two instances ever acquired the same.                                *)
LockValues ==
    /\ lock \in {Free, elections}
    /\ \A i \in Instances : redlock[i] <= elections /\ val[i] <= elections
    /\ \A i, j \in Instances :
          redlock[i] = redlock[j] /\ redlock[i] # Free => i = j

(* Where the heartbeat of an instance that takes itself for the leader is. *)
(* If it read somebody else's lock value, its own is gone for good.        *)
LeaderSteps ==
    \A i \in Instances :
        /\ leader[i] => redlock[i] # Free
        /\ hpc[i] \in {"extend", "release"} => leader[i]
        /\ hpc[i] = "extend" => redlock[i] <= val[i]
        /\ hpc[i] = "follow" => val[i] # Free
        /\ hpc[i] \in {"check", "lock"} /\ mishaps = 0 => ~leader[i]

Posted(i) == shared[val[i]]

(* What an instance reads of its local state stays below it while tags     *)
(* only grow, and a leader's local state is not behind what it serves or   *)
(* has posted.  Only full states are served or posted.                     *)
Covered(i) ==
    /\ remote[i] = Zero \/ Valid(remote[i])
    /\ leader[i] \/ hpc[i] = "lock" => Valid(local[i]) /\ ~Behind(local[i], remote[i])
    /\ hpc[i] = "follow" => ~leader[i]
    /\ hpc[i] = "postState" => todo[i] = {}
    /\ hpc[i] \in {"marshal", "postState", "adopt"} =>
          \A t \in SharedTags \ todo[i] : 0 < buf[i][t] /\ buf[i][t] <= local[i][t]
    /\ hpc[i] \in {"postLeader", "adopt"} /\ Posted(i) # NoState =>
          ~Behind(local[i], Posted(i))
    /\ hpc[i] = "adopt" => \A t \in SharedTags \ todo[i] :
          /\ remote[i][t] <= buf[i][t]
          /\ Posted(i) # NoState => Posted(i)[t] <= buf[i][t]

CoveredInv ==
    /\ \A v \in LockIDs : shared[v] = NoState \/ Valid(shared[v])
    /\ \A i \in Instances : Covered(i)
=============================================================================
