------------------------ MODULE ConsensusStateProofs ------------------------
(* Theorems about the consensus state after it was computed: how instances *)
(* share it (RedisTracker) and how requests read it (ConsensusReads).      *)
EXTENDS ConsensusReads, RedisTracker, TLAPS

(***************************************************************************)
(* RedisTracker, for any number of instances, tags, blocks, elections and  *)
(* mishaps.                                                                *)
(***************************************************************************)

(* PostsUnderOwnLock needs to know that a lost lock value never comes back *)
(* (LockValues, LeaderSteps); that an instance on its way to a new lock is *)
(* no leader needs OneLeaderWithoutMishaps.                                *)
IInv ==
    /\ TrackerTypeOK /\ LockValues /\ LeaderSteps
    /\ PostsUnderOwnLock /\ OneLeaderWithoutMishaps

(* A step of one instance leaves the others covered: it changes nothing of *)
(* theirs, and a state they posted it can only drop.                       *)
LEMMA OthersCovered ==
    ASSUME NEW j \in Instances, Covered(j),
           hpc'[j] = hpc[j], leader'[j] = leader[j], val'[j] = val[j], buf'[j] = buf[j],
           todo'[j] = todo[j], local'[j] = local[j], remote'[j] = remote[j],
           Posting(j) => shared'[val[j]] \in {shared[val[j]], NoState}
    PROVE  Covered(j)'
  BY Zenon DEF Covered, Posted, Posting, Valid, Behind

LEMMA CoveredInductive ==
    Monotone /\ IInv /\ CoveredInv /\ [TrackerNext]_trackerVars => CoveredInv'
<1> SUFFICES ASSUME Monotone, TrackerTypeOK, LockValues, LeaderSteps, PostsUnderOwnLock,
                    CoveredInv, [TrackerNext]_trackerVars
             PROVE  CoveredInv'
  BY DEF IInv
<1> USE DEF redisVars, hbVars
<1>1. /\ \A i \in Instances, t \in SharedTags :
            local[i][t] \in Nat /\ remote[i][t] \in Nat /\ buf[i][t] \in Nat
      /\ hpc \in [Instances -> PCs] /\ leader \in [Instances -> BOOLEAN]
      /\ val \in [Instances -> {Free} \cup LockIDs] /\ buf \in [Instances -> State]
      /\ todo \in [Instances -> SUBSET SharedTags] /\ local \in [Instances -> State]
      /\ remote \in [Instances -> State] /\ shared \in [LockIDs -> State \cup {NoState}]
  BY BoundsAssumption DEF TrackerTypeOK, State
<1>2. \A i \in Instances : Posting(i) => leader[i] /\ val[i] \in LockIDs
  BY Zenon DEF TrackerTypeOK, PostsUnderOwnLock, LeaderSteps
<1>3. ASSUME NEW i \in Instances, UNCHANGED shared, Covered(i)',
             UNCHANGED local,
             \A j \in Instances \ {i} :
                /\ hpc'[j] = hpc[j] /\ leader'[j] = leader[j] /\ val'[j] = val[j]
                /\ buf'[j] = buf[j] /\ todo'[j] = todo[j] /\ remote'[j] = remote[j]
      PROVE  CoveredInv'
  <2>1. \A j \in Instances \ {i} : Covered(j)'
    BY Zenon, <1>3, OthersCovered DEF CoveredInv
  <2> QED
    BY Zenon, <1>3, <2>1 DEF CoveredInv, Valid
<1>4. ASSUME NEW i \in Instances, ReadLock(i) PROVE CoveredInv'
  <2>1. Covered(i)'
    BY <1>1, <1>4 DEF ReadLock, Goto, CoveredInv, Covered, Posted, Valid, Behind
  <2> QED
    BY Zenon, <1>1, <1>3, <1>4, <2>1 DEF ReadLock, Goto
<1>5. ASSUME NEW i \in Instances, Check(i) PROVE CoveredInv'
  <2>1. Covered(i)'
    BY <1>1, <1>5 DEF Check, Goto, CoveredInv, Covered, Posted, Valid, Behind, Eligible,
       Zero
  <2> QED
    BY Zenon, <1>1, <1>3, <1>5, <2>1 DEF Check, Goto
<1>6. ASSUME NEW i \in Instances, Lock(i) PROVE CoveredInv'
  <2>1. Covered(i)'
    BY <1>1, <1>6 DEF Lock, Goto, Done, SetLeader, CoveredInv, Covered, Posted, Valid,
       Behind
  <2> QED
    BY Zenon, <1>1, <1>3, <1>6, <2>1 DEF Lock, Goto, Done, SetLeader
<1>7. ASSUME NEW i \in Instances, Extend(i) PROVE CoveredInv'
  <2>1. Covered(i)'
    BY <1>1, <1>7 DEF Extend, Goto, CoveredInv, Covered, Posted, Valid, Behind
  <2> QED
    BY Zenon, <1>1, <1>3, <1>7, <2>1 DEF Extend, Goto
<1>8. ASSUME NEW i \in Instances, Release(i) PROVE CoveredInv'
  <2>1. Covered(i)'
    BY Zenon, <1>1, <1>8 DEF Release, Goto, Done, SetLeader, CoveredInv, Covered, Posted, Valid,
       Behind
  <2> QED
    BY Zenon, <1>1, <1>3, <1>8, <2>1 DEF Release, Goto, Done, SetLeader
<1>9. ASSUME NEW i \in Instances, Follow(i) PROVE CoveredInv'
  <2>1. remote'[i] = remote[i] \/ Valid(remote'[i])
    BY SMTT(60), <1>1, <1>9 DEF Follow, LeaderSteps, CoveredInv
  <2>2. Covered(i)'
    BY Zenon, <1>1, <1>9, <2>1
    DEF Follow, Goto, Done, CoveredInv, Covered, Posted, Valid, Behind
  <2> QED
    BY Zenon, <1>1, <1>3, <1>9, <2>2 DEF Follow, Goto, Done
<1>10. ASSUME NEW i \in Instances, NEW t \in SharedTags, Marshal(i, t) PROVE CoveredInv'
  <2>1. Covered(i)'
    BY SMTT(60), <1>1, <1>2, <1>10
    DEF Marshal, Goto, CoveredInv, Covered, Posted, Valid, Behind, State, Posting
  <2> QED
    BY Zenon, <1>1, <1>3, <1>10, <2>1 DEF Marshal, Goto
<1>11. ASSUME NEW i \in Instances, PostState(i) PROVE CoveredInv'
  <2>1. val[i] \in LockIDs /\ leader[i] /\ Valid(buf[i]) /\ ~Behind(local[i], buf[i])
    BY SMTT(60), <1>1, <1>2, <1>11
    DEF PostState, Posting, CoveredInv, Covered, Valid, Behind
  <2>2. shared' = shared \/ shared' = [shared EXCEPT ![val[i]] = buf[i]]
    BY ZenonT(60), <1>11 DEF PostState
  <2>3. \A v \in LockIDs : shared'[v] = NoState \/ Valid(shared'[v])
    BY Zenon, <1>1, <2>1, <2>2 DEF CoveredInv
  <2>4. \A j \in Instances \ {i} : Posting(j) => shared'[val[j]] = shared[val[j]]
    <3>1. ASSUME NEW j \in Instances \ {i}, Posting(j) PROVE val[j] # val[i]
      <4>1. Posting(i)
        BY SMT, <1>11 DEF PostState, Posting
      <4>2. val[i] = redlock[i] /\ val[j] = redlock[j] /\ redlock[i] # Free
        BY Zenon, <1>11, <2>1, <3>1, <4>1 DEF PostsUnderOwnLock, LeaderSteps
      <4>3. redlock[i] # redlock[j]
        BY Zenon, <1>11, <3>1, <4>2 DEF LockValues
      <4> QED
        BY Zenon, <4>2, <4>3
    <3> QED
      BY Zenon, <1>1, <1>2, <2>1, <2>2, <3>1
  <2>5. \A j \in Instances \ {i} : Covered(j)'
    <3>1. ASSUME NEW j \in Instances \ {i}
          PROVE  /\ hpc'[j] = hpc[j] /\ leader'[j] = leader[j] /\ val'[j] = val[j]
                 /\ buf'[j] = buf[j] /\ todo'[j] = todo[j]
                 /\ local'[j] = local[j] /\ remote'[j] = remote[j]
      BY SMTT(60), <1>1, <1>11 DEF PostState, Goto, Done, SetLeader
    <3> QED
      BY Zenon, <2>4, <3>1, OthersCovered DEF CoveredInv
  <2>6. Covered(i)'
    <3>1. CASE /\ NoMishap /\ shared' = [shared EXCEPT ![val[i]] = buf[i]]
               /\ hpc' = [hpc EXCEPT ![i] = "postLeader"]
               /\ UNCHANGED <<leader, val, buf, todo, local, remote>>
      BY Zenon, <1>1, <2>1, <3>1 DEF CoveredInv, Covered, Posted, Valid, Behind
    <3>2. CASE /\ leader' = [leader EXCEPT ![i] = FALSE] /\ Done(i)
               /\ UNCHANGED <<local, remote>>
      BY Zenon, <1>1, <3>2 DEF Done, Goto, CoveredInv, Covered, Valid
    <3> QED
      BY Zenon, <1>11, <3>1, <3>2 DEF PostState, Goto, SetLeader
  <2> QED
    BY Zenon, <2>3, <2>5, <2>6 DEF CoveredInv, Valid
<1>12. ASSUME NEW i \in Instances, PostLeader(i) PROVE CoveredInv'
  <2>1. Covered(i)'
    BY SMTT(60), <1>1, <1>12
    DEF PostLeader, Goto, Done, SetLeader, CoveredInv, Covered, Posted,
       Valid, Behind
  <2> QED
    BY Zenon, <1>1, <1>3, <1>12, <2>1 DEF PostLeader, Goto, Done, SetLeader
<1>13. ASSUME NEW i \in Instances, NEW t \in SharedTags, Adopt(i, t) PROVE CoveredInv'
  <2>1. Covered(i)'
    <3>1. CASE todo[i] = {t}
      <4>1. leader[i] /\ Covered(i) /\ hpc[i] = "adopt"
        BY Zenon, <1>2, <1>13 DEF Adopt, Posting, CoveredInv
      <4>2. /\ remote'[i] = [buf[i] EXCEPT ![t] = local[i][t]]
            /\ hpc'[i] = "idle" /\ UNCHANGED <<leader, local>>
        BY SMTT(60), <1>1, <1>13, <3>1 DEF Adopt, Goto, Done
      <4>3. \A s \in SharedTags : 0 < remote'[i][s] /\ remote'[i][s] <= local[i][s]
        BY SMTT(60), <1>1, <3>1, <4>1, <4>2 DEF Covered, Valid, State
      <4> QED
        BY <1>1, <4>1, <4>2, <4>3 DEF Covered, Valid, Behind
    <3>2. CASE todo[i] # {t}
      <4>1. hpc[i] = "adopt" /\ leader[i] /\ ~Behind(local[i], remote[i])
        BY Zenon, <1>2, <1>13 DEF Adopt, Posting, CoveredInv, Covered
      <4>2. /\ buf'[i] = [buf[i] EXCEPT ![t] = local[i][t]] /\ todo'[i] = todo[i] \ {t}
            /\ UNCHANGED <<hpc, val, remote, shared, leader, local>>
        BY Zenon, <1>1, <1>13, <3>2 DEF Adopt
      <4> QED
        BY SMTT(60), <1>1, <1>2, <4>1, <4>2
        DEF CoveredInv, Covered, Posted, Valid, Behind, State,
           Posting
    <3> QED
      BY SMTT(60), <3>1, <3>2
  <2> QED
    BY <1>1, <1>3, <1>13, <2>1 DEF Adopt, Goto, Done
<1>14. ASSUME NEW i \in Instances, NEW t \in SharedTags, NEW n \in 0..MaxNumber, SetTag(i, t, n)
       PROVE  CoveredInv'
  <2>1. /\ \A s \in SharedTags : local[i][s] <= local'[i][s] /\ local'[i][s] \in Nat
        /\ \A j \in Instances \ {i} : local'[j] = local[j]
    BY SMTT(60), <1>1, <1>14, BoundsAssumption DEF SetTag, State
  <2>2. Covered(i)'
    <3>1. \A s \in SharedTags : Posting(i) /\ Posted(i) # NoState => Posted(i)[s] \in Nat
      BY SMTT(60), <1>1, <1>2, BoundsAssumption DEF Posted, State
    <3> QED
      BY SMTT(60), <1>1, <1>14, <2>1, <3>1
      DEF SetTag, CoveredInv, Covered, Posted, Valid, Behind, Posting
  <2>3. \A j \in Instances \ {i} : Covered(j)'
    BY Zenon, <1>14, <2>1, OthersCovered DEF SetTag, CoveredInv
  <2> QED
    BY Zenon, <1>14, <2>2, <2>3 DEF SetTag, CoveredInv, Valid
<1>15. CASE UNCHANGED <<shared, hbVars, local>>
  BY ZenonT(60), <1>15 DEF CoveredInv, Covered, Posted, Valid, Behind
<1>16. ASSUME NEW v \in LockIDs, ExpireState(v) PROVE CoveredInv'
  <2>1. \A j \in Instances : Posting(j) => shared'[val[j]] \in {shared[val[j]], NoState}
    BY Zenon, <1>1, <1>2, <1>16 DEF ExpireState
  <2>2. \A j \in Instances : Covered(j)'
    BY Zenon, <1>16, <2>1, OthersCovered DEF ExpireState, CoveredInv
  <2> QED
    BY Zenon, <1>1, <1>16, <2>2 DEF ExpireState, CoveredInv, Valid
<1>17. ASSUME NEW i \in Instances, Crash(i) PROVE CoveredInv'
  <2>1. /\ \A j \in Instances \ {i} :
             /\ hpc'[j] = hpc[j] /\ leader'[j] = leader[j] /\ val'[j] = val[j]
             /\ buf'[j] = buf[j] /\ todo'[j] = todo[j]
             /\ local'[j] = local[j] /\ remote'[j] = remote[j]
        /\ hpc'[i] = "idle" /\ leader'[i] = FALSE /\ remote'[i] = Zero
        /\ UNCHANGED shared
    BY Zenon, <1>1, <1>17 DEF Crash, Goto, Done, SetLeader
  <2>2. Covered(i)'
    BY Zenon, <2>1 DEF Covered
  <2>3. \A j \in Instances \ {i} : Covered(j)'
    BY Zenon, <2>1, OthersCovered DEF CoveredInv
  <2> QED
    BY Zenon, <2>1, <2>2, <2>3 DEF CoveredInv, Valid
<1> QED
  BY Zenon, <1>4, <1>5, <1>6, <1>7, <1>8, <1>9, <1>10, <1>11, <1>12, <1>13, <1>14, <1>15,
     <1>16, <1>17 DEF TrackerNext, Heartbeat, ExpireLock, trackerVars

(* The step that ends adopt: the tags are read again from a local state    *)
(* that covers what is served and what was posted.                         *)
LEMMA ServedStep ==
    ASSUME IInv, CoveredInv, TrackerNext, NEW i \in Instances,
           hpc[i] = "adopt", hpc'[i] = "idle", leader'[i]
    PROVE  /\ ~Behind(remote'[i], remote[i])
           /\ shared[val[i]] # NoState => ~Behind(remote'[i], shared[val[i]])
<1>1. PICK t \in SharedTags : Adopt(i, t) /\ todo[i] = {t}
  <2>1. Heartbeat(i)
    <3>1. ~Crash(i)
      BY Zenon DEF Crash, SetLeader, IInv, TrackerTypeOK
    <3>2. ASSUME NEW j \in Instances \ {i}, Heartbeat(j) \/ Crash(j) PROVE hpc'[i] = hpc[i]
      BY ZenonT(60), <3>2
      DEF Heartbeat, ReadLock, Check, Lock, Extend, Release, Follow, Marshal,
         PostState, PostLeader, Adopt, Crash, Goto, Done, IInv, TrackerTypeOK
    <3> QED
      BY Zenon, <3>1, <3>2 DEF TrackerNext, SetTag, ExpireLock, ExpireState, hbVars
  <2>2. PICK t \in SharedTags : Adopt(i, t)
    BY Zenon, <2>1 DEF Heartbeat, ReadLock, Check, Lock, Extend, Release, Follow, Marshal,
       PostState, PostLeader
  <2> QED
    BY Zenon, <2>2 DEF Adopt, IInv, TrackerTypeOK
<1>2. remote'[i] = [buf[i] EXCEPT ![t] = local[i][t]]
  BY Zenon, <1>1 DEF Adopt, IInv, TrackerTypeOK
<1>3. Covered(i) /\ leader[i] /\ val[i] \in LockIDs
  BY Zenon, SMTT(60)
  DEF CoveredInv, IInv, PostsUnderOwnLock, Posting, LeaderSteps, TrackerTypeOK
<1>4. \A s \in SharedTags : remote'[i][s] = IF s = t THEN local[i][s] ELSE buf[i][s]
  BY SMTT(60), <1>2 DEF IInv, TrackerTypeOK, State
<1>5. \A s \in SharedTags :
        /\ local[i][s] \in Nat /\ buf[i][s] \in Nat /\ remote[i][s] \in Nat
        /\ Posted(i) # NoState => Posted(i)[s] \in Nat
  BY SMTT(60), <1>3, BoundsAssumption DEF IInv, TrackerTypeOK, State, Posted
<1>6. \A s \in SharedTags : /\ remote[i][s] <= local[i][s]
                            /\ s # t => remote[i][s] <= buf[i][s]
  BY SMTT(60), <1>1, <1>3, <1>5 DEF Covered, Behind
<1>7. ASSUME Posted(i) # NoState
      PROVE  \A s \in SharedTags : /\ Posted(i)[s] <= local[i][s]
                                   /\ s # t => Posted(i)[s] <= buf[i][s]
  BY SMTT(60), <1>1, <1>3, <1>5, <1>7 DEF Covered, Behind
<1>8. ~Behind(remote'[i], remote[i])
  BY SMTT(60), <1>4, <1>5, <1>6 DEF Behind
<1>9. Posted(i) # NoState => ~Behind(remote'[i], Posted(i))
  BY SMTT(60), <1>4, <1>5, <1>7 DEF Behind
<1> QED
  BY Zenon, <1>8, <1>9 DEF Posted

(* Lock values grow, and what the heartbeats remember of them is in order. *)
LEMMA LockInductive ==
    IInv /\ [TrackerNext]_trackerVars
        => LockValues' /\ LeaderSteps' /\ PostsUnderOwnLock'
<1> SUFFICES ASSUME TrackerTypeOK, LockValues, LeaderSteps, PostsUnderOwnLock,
                    OneLeaderWithoutMishaps, [TrackerNext]_trackerVars
             PROVE  LockValues' /\ LeaderSteps' /\ PostsUnderOwnLock'
  BY Zenon DEF IInv
<1> USE DEF LockValues, LeaderSteps, PostsUnderOwnLock, Posting, Free,
            redisVars, hbVars
<1>1. /\ lock \in Nat /\ elections \in Nat /\ mishaps \in Nat
      /\ \A i \in Instances : /\ redlock[i] \in Nat /\ val[i] \in Nat
                               /\ leader[i] \in BOOLEAN
      /\ hpc \in [Instances -> PCs] /\ leader \in [Instances -> BOOLEAN]
      /\ redlock \in [Instances -> Nat] /\ val \in [Instances -> Nat]
  BY BoundsAssumption DEF TrackerTypeOK, LockIDs
<1>2. ASSUME NEW i \in Instances, ReadLock(i)
      PROVE  LockValues' /\ LeaderSteps' /\ PostsUnderOwnLock'
  BY <1>1, <1>2 DEF ReadLock, Mishap, NoMishap, Goto, OneLeaderWithoutMishaps
<1>3. ASSUME NEW i \in Instances, Check(i)
      PROVE  LockValues' /\ LeaderSteps' /\ PostsUnderOwnLock'
  BY SMTT(60), <1>1, <1>3 DEF Check, Goto
<1>4. ASSUME NEW i \in Instances, Lock(i)
      PROVE  LockValues' /\ LeaderSteps' /\ PostsUnderOwnLock'
  <2>1. CASE /\ elections' = elections + 1 /\ lock' = elections'
             /\ redlock' = [redlock EXCEPT ![i] = lock']
             /\ leader' = [leader EXCEPT ![i] = TRUE]
             /\ val' = [val EXCEPT ![i] = lock']
             /\ hpc' = [hpc EXCEPT ![i] = "marshal"]
             /\ UNCHANGED mishaps
    <3>1. LockValues'
      BY <1>1, <2>1
    <3> QED
      BY <1>1, <2>1, <3>1
  <2>2. CASE /\ leader' = [leader EXCEPT ![i] = FALSE] /\ UNCHANGED redlock
             /\ hpc' = [hpc EXCEPT ![i] = "idle"]
             /\ val' = [val EXCEPT ![i] = 0]
             /\ \/ elections' = elections + 1 /\ lock' = elections'
                \/ UNCHANGED <<lock, elections>>
             /\ mishaps' \in {mishaps, mishaps + 1}
    <3>1. LockValues'
      BY <1>1, <2>2
    <3> QED
      BY <1>1, <2>2, <3>1
  <2> QED
    BY Zenon, <1>4, <2>1, <2>2 DEF Lock, Mishap, NoMishap, Goto, Done, SetLeader
<1>5. ASSUME NEW i \in Instances, Extend(i)
      PROVE  LockValues' /\ LeaderSteps' /\ PostsUnderOwnLock'
  BY <1>1, <1>5 DEF Extend, Mishap, NoMishap, Goto
<1>6. ASSUME NEW i \in Instances, Release(i)
      PROVE  LockValues' /\ LeaderSteps' /\ PostsUnderOwnLock'
  BY <1>1, <1>6 DEF Release, Mishap, NoMishap, Goto, Done, SetLeader
<1>7. ASSUME NEW i \in Instances, Follow(i)
      PROVE  LockValues' /\ LeaderSteps' /\ PostsUnderOwnLock'
  BY <1>1, <1>7 DEF Follow, Mishap, NoMishap, Goto, Done
<1>8. ASSUME NEW i \in Instances, NEW t \in SharedTags, Marshal(i, t)
      PROVE  LockValues' /\ LeaderSteps' /\ PostsUnderOwnLock'
  BY <1>1, <1>8 DEF Marshal, Goto
<1>9. ASSUME NEW i \in Instances, PostState(i)
      PROVE  LockValues' /\ LeaderSteps' /\ PostsUnderOwnLock'
  BY <1>1, <1>9 DEF PostState, Mishap, NoMishap, Goto, Done, SetLeader
<1>10. ASSUME NEW i \in Instances, PostLeader(i)
       PROVE  LockValues' /\ LeaderSteps' /\ PostsUnderOwnLock'
  BY <1>1, <1>10 DEF PostLeader, Mishap, NoMishap, Goto, Done, SetLeader
<1>11. ASSUME NEW i \in Instances, NEW t \in SharedTags, Adopt(i, t)
       PROVE  LockValues' /\ LeaderSteps' /\ PostsUnderOwnLock'
  BY <1>1, <1>11 DEF Adopt, Goto, Done
<1>12. ASSUME NEW i \in Instances, NEW t \in SharedTags, NEW n \in 0..MaxNumber,
              SetTag(i, t, n)
       PROVE  LockValues' /\ LeaderSteps' /\ PostsUnderOwnLock'
  BY Zenon, <1>12 DEF SetTag
<1>13. CASE ExpireLock
  BY <1>1, <1>13 DEF ExpireLock, Mishap, NoMishap
<1>14. ASSUME NEW v \in LockIDs, ExpireState(v)
       PROVE  LockValues' /\ LeaderSteps' /\ PostsUnderOwnLock'
  BY Zenon, <1>14 DEF ExpireState
<1>15. ASSUME NEW i \in Instances, Crash(i)
       PROVE  LockValues' /\ LeaderSteps' /\ PostsUnderOwnLock'
  BY SMTT(60), <1>1, <1>15 DEF Crash, Mishap, Goto, Done, SetLeader
<1>16. CASE UNCHANGED trackerVars
  BY Zenon, <1>16 DEF trackerVars
<1> QED
  BY ZenonT(60), <1>2, <1>3, <1>4, <1>5, <1>6, <1>7, <1>8, <1>9, <1>10, <1>11,
     <1>12, <1>13,
     <1>14, <1>15, <1>16 DEF TrackerNext, Heartbeat

(* Without mishaps the leader and the holder of the lock are the same.     *)
LEMMA OneLeaderInductive ==
    TrackerTypeOK /\ LockValues /\ LeaderSteps /\ OneLeaderWithoutMishaps
        /\ [TrackerNext]_trackerVars
        => OneLeaderWithoutMishaps'
<1> SUFFICES ASSUME TrackerTypeOK, LockValues, LeaderSteps, OneLeaderWithoutMishaps,
                    [TrackerNext]_trackerVars, mishaps' = 0
             PROVE  OneLeaderWithoutMishaps'
  BY Zenon DEF OneLeaderWithoutMishaps
<1> USE DEF OneLeaderWithoutMishaps, Free, redisVars, hbVars, SetLeader
<1>1. /\ lock \in Nat /\ elections \in Nat /\ mishaps \in Nat
      /\ leader \in [Instances -> BOOLEAN] /\ redlock \in [Instances -> Nat]
  BY SMTT(60), BoundsAssumption DEF TrackerTypeOK, LockIDs
<1>2. ~Mishap
  BY SMTT(60), <1>1 DEF Mishap
<1>3. mishaps = 0
  <2>1. ASSUME NEW i \in Instances, Heartbeat(i) PROVE mishaps' = mishaps
    <3>1. CASE ReadLock(i) \/ Check(i) \/ Lock(i) \/ Extend(i) \/ Release(i)
      BY Zenon, <1>2, <3>1 DEF ReadLock, Check, Lock, Extend, Release, NoMishap
    <3>2. CASE \/ Follow(i) \/ PostState(i) \/ PostLeader(i)
               \/ \E t \in SharedTags : Marshal(i, t) \/ Adopt(i, t)
      BY Zenon, <1>2, <3>2 DEF Follow, PostState, PostLeader, Marshal, Adopt, NoMishap
    <3> QED
      BY Zenon, <2>1, <3>1, <3>2 DEF Heartbeat
  <2>2. mishaps' = mishaps
    BY Zenon, <1>2, <2>1
    DEF TrackerNext, trackerVars, SetTag, ExpireLock, ExpireState, Crash, NoMishap
  <2> QED
    BY Zenon, <2>2
<1>4. ASSUME NEW i \in Instances, Lock(i)
      PROVE  OneLeaderWithoutMishaps'
  <2>1. CASE /\ lock = Free /\ elections' = elections + 1 /\ lock' = elections'
             /\ redlock' = [redlock EXCEPT ![i] = lock'] /\ leader' = [leader EXCEPT ![i] = TRUE]
    <3>1. \A j \in Instances : redlock[j] <= elections /\ ~leader[j]
      BY Zenon, <1>3, <2>1 DEF LockValues
    <3>2. lock' # Free /\ \A j \in Instances : redlock[j] # lock'
      BY SMT, <1>1, <2>1, <3>1
    <3>3. redlock'[i] = lock' /\ leader'[i] = TRUE
      BY Zenon, <1>1, <2>1
    <3>4. \A j \in Instances \ {i} : redlock'[j] = redlock[j] /\ leader'[j] = leader[j]
      BY Zenon, <1>1, <2>1
    <3> QED
      BY Zenon, <3>1, <3>2, <3>3, <3>4
  <2>2. CASE lock' = lock /\ redlock' = redlock /\ leader' = [leader EXCEPT ![i] = FALSE]
    <3>1. hpc[i] \in {"check", "lock"}
      BY SMT, <1>4 DEF Lock
    <3>2. ~leader[i]
      BY Zenon, <1>3, <3>1 DEF LeaderSteps
    <3>3. leader'[i] = FALSE /\ \A j \in Instances \ {i} : leader'[j] = leader[j]
      BY Zenon, <1>1, <2>2
    <3> QED
      BY Zenon, <1>3, <2>2, <3>2, <3>3
  <2> QED
    BY Zenon, <1>2, <1>4, <2>1, <2>2 DEF Lock
<1>5. ASSUME NEW i \in Instances, Release(i)
      PROVE  OneLeaderWithoutMishaps'
  BY <1>1, <1>2, <1>3, <1>5 DEF Release, LockValues
<1>6. CASE ExpireLock
  BY Zenon, <1>1, <1>2, <1>3, <1>6 DEF ExpireLock, Owned
<1>7. CASE UNCHANGED <<lock, leader, redlock>>
  BY Zenon, <1>3, <1>7
<1>8. ASSUME NEW i \in Instances, Heartbeat(i), ~Lock(i), ~Release(i)
      PROVE  UNCHANGED <<lock, leader, redlock>>
  BY Zenon, <1>2, <1>8 DEF Heartbeat, ReadLock, Check, Extend, Follow, Marshal, PostState,
     PostLeader, Adopt
<1> QED
  BY Zenon, <1>2, <1>4, <1>5, <1>6, <1>7, <1>8
  DEF TrackerNext, SetTag, ExpireState, Crash, trackerVars

LEMMA TrackerTypeInductive ==
    TrackerTypeOK /\ LeaderSteps /\ [TrackerNext]_trackerVars => TrackerTypeOK'
<1> SUFFICES ASSUME TrackerTypeOK, LeaderSteps, [TrackerNext]_trackerVars PROVE TrackerTypeOK'
  OBVIOUS
<1> USE BoundsAssumption DEF LockIDs, Free, PCs, redisVars, hbVars
<1>1. Zero \in State
  BY DEF Zero, State
<1>a. ASSUME Mishap \/ NoMishap PROVE mishaps' \in 0..MaxMishaps
  <2>1. MaxMishaps \in Nat
    BY Zenon
  <2>2. mishaps \in 0..MaxMishaps
    BY Zenon DEF TrackerTypeOK
  <2>3. CASE Mishap
    BY SMTT(60), <2>1, <2>2, <2>3 DEF Mishap
  <2>4. CASE NoMishap
    BY Zenon, <2>2, <2>4 DEF NoMishap
  <2> QED
    BY Zenon, <1>a, <2>3, <2>4
<1>b. ASSUME NEW i \in Instances, Done(i)
      PROVE  /\ hpc' \in [Instances -> PCs] /\ val' \in [Instances -> {Free} \cup LockIDs]
             /\ buf' \in [Instances -> State] /\ todo' \in [Instances -> SUBSET SharedTags]
  BY Zenon, <1>1, <1>b DEF Done, Goto, TrackerTypeOK
<1>c. ASSUME NEW i \in Instances, NEW b \in BOOLEAN, SetLeader(i, b)
      PROVE  leader' \in [Instances -> BOOLEAN]
  BY Zenon, <1>c DEF SetLeader, TrackerTypeOK
<1>2. ASSUME NEW i \in Instances, ReadLock(i) PROVE TrackerTypeOK'
  <2>1. mishaps' \in 0..MaxMishaps
    BY Zenon, <1>2, <1>a DEF ReadLock
  <2>2. hpc' \in [Instances -> PCs] /\ val' \in [Instances -> {Free} \cup LockIDs]
    <3>1. {"release", "idle", "check", "extend", "follow"} \subseteq PCs
      BY SMT
    <3>2. lock \in {Free} \cup LockIDs /\ hpc \in [Instances -> PCs]
          /\ val \in [Instances -> {Free} \cup LockIDs]
      BY Zenon DEF TrackerTypeOK
    <3> HIDE DEF PCs, LockIDs, Free
    <3> QED
      BY ZenonT(60), <1>2, <3>1, <3>2 DEF ReadLock, Goto
  <2> QED
    BY Zenon, <1>2, <2>1, <2>2 DEF ReadLock, TrackerTypeOK
<1>3. ASSUME NEW i \in Instances, Check(i) PROVE TrackerTypeOK'
  BY ZenonT(60), <1>3 DEF Check, Goto, TrackerTypeOK
<1>4. ASSUME NEW i \in Instances, Lock(i) PROVE TrackerTypeOK'
  <2>1. mishaps' \in 0..MaxMishaps
    BY ZenonT(60), <1>4, <1>a DEF Lock
  <2>2. leader' \in [Instances -> BOOLEAN]
    BY ZenonT(60), <1>4, <1>c DEF Lock
  <2>a. \/ /\ elections < MaxElections /\ elections' = elections + 1
           /\ lock' = elections'
        \/ UNCHANGED <<lock, elections>>
    BY ZenonT(60), <1>4 DEF Lock
  <2>b. elections' \in 0..MaxElections /\ lock' \in {Free} \cup LockIDs
    BY <2>a DEF TrackerTypeOK
  <2>c. redlock' = redlock \/ redlock' = [redlock EXCEPT ![i] = lock']
    BY ZenonT(60), <1>4 DEF Lock
  <2>3. /\ elections' \in 0..MaxElections /\ lock' \in {Free} \cup LockIDs
        /\ redlock' \in [Instances -> {Free} \cup LockIDs]
    BY SMTT(60), <2>b, <2>c DEF TrackerTypeOK
  <2>4. /\ hpc' \in [Instances -> PCs] /\ val' \in [Instances -> {Free} \cup LockIDs]
        /\ buf' \in [Instances -> State] /\ todo' \in [Instances -> SUBSET SharedTags]
    <3>1. \/ Done(i)
          \/ /\ Goto(i, "marshal") /\ todo' = [todo EXCEPT ![i] = SharedTags]
             /\ val' = [val EXCEPT ![i] = lock'] /\ UNCHANGED buf
      BY ZenonT(60), <1>4 DEF Lock
    <3>2. CASE Done(i)
      BY Zenon, <1>b, <3>2
    <3>3. CASE /\ Goto(i, "marshal") /\ todo' = [todo EXCEPT ![i] = SharedTags]
               /\ val' = [val EXCEPT ![i] = lock'] /\ UNCHANGED buf
      BY Zenon, <2>3, <3>3 DEF Goto, TrackerTypeOK
    <3> QED
      BY Zenon, <3>1, <3>2, <3>3
  <2> QED
    BY Zenon, <1>4, <2>1, <2>2, <2>3, <2>4 DEF Lock, TrackerTypeOK
<1>5. ASSUME NEW i \in Instances, Extend(i) PROVE TrackerTypeOK'
  <2>1. mishaps' \in 0..MaxMishaps
    BY Zenon, <1>5, <1>a DEF Extend
  <2>2. hpc' \in [Instances -> PCs] /\ todo' \in [Instances -> SUBSET SharedTags]
    BY ZenonT(60), <1>5 DEF Extend, Goto, TrackerTypeOK
  <2> QED
    BY Zenon, <1>5, <2>1, <2>2 DEF Extend, TrackerTypeOK
<1>6. ASSUME NEW i \in Instances, Release(i) PROVE TrackerTypeOK'
  <2>1. mishaps' \in 0..MaxMishaps
    BY ZenonT(60), <1>6, <1>a DEF Release
  <2>2. leader' \in [Instances -> BOOLEAN] /\ lock' \in {Free} \cup LockIDs
    BY ZenonT(60), <1>6, <1>c DEF Release, TrackerTypeOK
  <2> QED
    BY Zenon, <1>6, <1>b, <2>1, <2>2 DEF Release, TrackerTypeOK
<1>7. ASSUME NEW i \in Instances, Follow(i) PROVE TrackerTypeOK'
  <2>1. val[i] \in LockIDs
    BY Zenon, <1>7 DEF Follow, LeaderSteps, TrackerTypeOK
  <2>2. remote' \in [Instances -> State]
    BY Zenon, <1>7, <2>1 DEF Follow, TrackerTypeOK
  <2> QED
    BY Zenon, <1>7, <1>a, <1>b, <2>2 DEF Follow, TrackerTypeOK
<1>8. ASSUME NEW i \in Instances, NEW t \in SharedTags, Marshal(i, t) PROVE TrackerTypeOK'
  <2>1. buf' \in [Instances -> State]
    BY <1>8 DEF Marshal, State, TrackerTypeOK
  <2> QED
    BY Zenon, <1>8, <2>1 DEF Marshal, Goto, TrackerTypeOK
<1>9. ASSUME NEW i \in Instances, PostState(i) PROVE TrackerTypeOK'
  <2>1. mishaps' \in 0..MaxMishaps
    BY ZenonT(60), <1>9, <1>a DEF PostState
  <2>2. leader' \in [Instances -> BOOLEAN]
    BY ZenonT(60), <1>9, <1>c DEF PostState, TrackerTypeOK
  <2>3. shared' \in [LockIDs -> State \cup {NoState}]
    BY ZenonT(60), <1>9, <1>b DEF PostState, TrackerTypeOK
  <2>4. /\ hpc' \in [Instances -> PCs] /\ val' \in [Instances -> {Free} \cup LockIDs]
        /\ buf' \in [Instances -> State] /\ todo' \in [Instances -> SUBSET SharedTags]
    BY ZenonT(60), <1>9, <1>b DEF PostState, Goto, TrackerTypeOK
  <2> QED
    BY Zenon, <1>9, <2>1, <2>2, <2>3, <2>4 DEF PostState, TrackerTypeOK
<1>10. ASSUME NEW i \in Instances, PostLeader(i) PROVE TrackerTypeOK'
  <2>1. mishaps' \in 0..MaxMishaps
    BY ZenonT(60), <1>10, <1>a DEF PostLeader
  <2>2. leader' \in [Instances -> BOOLEAN]
    BY ZenonT(60), <1>10, <1>c DEF PostLeader, TrackerTypeOK
  <2>3. todo' \in [Instances -> SUBSET SharedTags]
    BY ZenonT(60), <1>10, <1>b DEF PostLeader, TrackerTypeOK
  <2>4. /\ hpc' \in [Instances -> PCs] /\ val' \in [Instances -> {Free} \cup LockIDs]
        /\ buf' \in [Instances -> State] /\ todo' \in [Instances -> SUBSET SharedTags]
    BY ZenonT(60), <1>10, <1>b DEF PostLeader, Goto, TrackerTypeOK
  <2> QED
    BY Zenon, <1>10, <2>1, <2>2, <2>3, <2>4 DEF PostLeader, TrackerTypeOK
<1>11. ASSUME NEW i \in Instances, NEW t \in SharedTags, Adopt(i, t) PROVE TrackerTypeOK'
  <2>1. [buf[i] EXCEPT ![t] = local[i][t]] \in State
    BY DEF State, TrackerTypeOK
  <2>2. buf' \in [Instances -> State] /\ remote' \in [Instances -> State]
    BY ZenonT(60), <1>1, <1>11, <2>1 DEF Adopt, Done, TrackerTypeOK
  <2>3. /\ hpc' \in [Instances -> PCs] /\ val' \in [Instances -> {Free} \cup LockIDs]
        /\ todo' \in [Instances -> SUBSET SharedTags]
    <3>1. CASE Done(i)
      BY Zenon, <1>b, <3>1
    <3>2. CASE todo' = [todo EXCEPT ![i] = @ \ {t}] /\ UNCHANGED <<hpc, val, remote>>
      BY Zenon, <3>2 DEF TrackerTypeOK
    <3> QED
      BY Zenon, <1>11, <3>1, <3>2 DEF Adopt
  <2> QED
    BY Zenon, <1>11, <1>b, <2>2, <2>3 DEF Adopt, TrackerTypeOK
<1>12. ASSUME NEW i \in Instances, NEW t \in SharedTags, NEW n \in 0..MaxNumber,
              SetTag(i, t, n)
       PROVE  TrackerTypeOK'
  <2>1. local' \in [Instances -> State]
    BY Zenon, <1>12 DEF SetTag, State, TrackerTypeOK
  <2> QED
    BY Zenon, <1>12, <2>1 DEF SetTag, TrackerTypeOK
<1>13. CASE ExpireLock
  BY SMTT(60), <1>13 DEF ExpireLock, Mishap, NoMishap, TrackerTypeOK
<1>14. ASSUME NEW v \in LockIDs, ExpireState(v) PROVE TrackerTypeOK'
  BY Zenon, <1>14 DEF ExpireState, TrackerTypeOK
<1>15. ASSUME NEW i \in Instances, Crash(i) PROVE TrackerTypeOK'
  BY <1>1, <1>15 DEF Crash, Mishap, Goto, Done, SetLeader, TrackerTypeOK
<1>16. CASE UNCHANGED trackerVars
  BY Zenon, <1>16 DEF trackerVars, TrackerTypeOK
<1> QED
  BY Zenon, <1>2, <1>3, <1>4, <1>5, <1>6, <1>7, <1>8, <1>9, <1>10, <1>11,
     <1>12, <1>13,
     <1>14, <1>15, <1>16 DEF TrackerNext, Heartbeat

LEMMA Invariance == TrackerSpec => []IInv
<1>1. TrackerInit => IInv
  <2>1. Zero \in State
    BY BoundsAssumption DEF Zero, State
  <2>2. TrackerInit => TrackerTypeOK
    BY <2>1, BoundsAssumption DEF TrackerInit, TrackerTypeOK, Free, LockIDs, PCs
  <2> QED
    BY <2>2, BoundsAssumption
    DEF TrackerInit, IInv, LockValues, LeaderSteps, PostsUnderOwnLock, Posting, Free,
        OneLeaderWithoutMishaps
<1>2. IInv /\ [TrackerNext]_trackerVars => IInv'
  BY Zenon, TrackerTypeInductive, LockInductive, OneLeaderInductive DEF IInv
<1> QED
  BY <1>1, <1>2, PTL DEF TrackerSpec

(* Every reachable state of the tracker is well typed; no served or shared *)
(* state has a tag that no poller could have set.                          *)
THEOREM TrackerTypeCorrect == TrackerSpec => []TrackerTypeOK
  BY Invariance, PTL DEF IInv

(* A tracker posts its state under no lock value but its own, however many *)
(* instances take themselves for the leader and whatever calls failed.     *)
THEOREM NoForeignPost == TrackerSpec => []PostsUnderOwnLock
  BY Invariance, PTL DEF IInv

(* As long as no call fails, no lock expires under its owner and nobody    *)
(* crashes, the instance that takes itself for the leader holds the lock.  *)
THEOREM OneLeader == TrackerSpec => []OneLeaderWithoutMishaps
  BY Invariance, PTL DEF IInv

(* While pollers only raise tags, a leader never serves less than it did,  *)
(* nor less than it has just posted, whichever instances lead at once,     *)
(* whatever calls failed and wherever an instance crashed: what decides is *)
(* that a local state that is not behind at the election stays so.         *)
THEOREM LeaderServesNoLess == ASSUME Monotone PROVE TrackerSpec => LeaderNeverServesLess
<1>1. TrackerInit => CoveredInv
  BY BoundsAssumption DEF TrackerInit, CoveredInv, Covered
<1>2. TrackerSpec => []CoveredInv
  BY <1>1, CoveredInductive, Invariance, PTL DEF TrackerSpec
<1> DEFINE Served == \A i \in Instances :
         hpc[i] = "adopt" /\ hpc'[i] = "idle" /\ leader'[i] =>
             /\ ~Behind(remote'[i], remote[i])
             /\ shared[val[i]] # NoState => ~Behind(remote'[i], shared[val[i]])
<1>3. IInv /\ CoveredInv /\ [TrackerNext]_trackerVars => [Served]_trackerVars
  BY Zenon, ServedStep
<1> QED
  BY <1>2, <1>3, Invariance, PTL DEF TrackerSpec, LeaderNeverServesLess

-----------------------------------------------------------------------------
(***************************************************************************)
(* ConsensusReads, for any number of rounds and blocks.                    *)
(***************************************************************************)

(* What is known of the values of a call and of the numbers read, and that *)
(* Calls holds no others.                                                  *)
Kinds == Tags \cup {"pending", "earliest", "hash", "junk", "empty", "number", "null",
                    "nonString", "absent"}
Typed == {v \in [kind : Kinds, n : 0..MaxBlock, object : BOOLEAN] : v.kind = "absent" => v = Absent}

ContextOK ==
    rctx \in [latest : 0..MaxBlock, safe : 0..MaxBlock, finalized : 0..MaxBlock,
             maxBlockRange : MaxBlockRanges \cup {0}]

LEMMA CallsTyped ==
    ASSUME NEW c \in Calls
    PROVE  \/ c.method \in {"eth_blockNumber", "eth_chainId"}
           \/ /\ c.method \in DOMAIN Methods \ {"eth_getLogs"} /\ c.block \in Typed
              /\ c = [method |-> c.method, before |-> c.before, block |-> c.block]
           \/ /\ c.method = "eth_getLogs" /\ c.from \in Typed /\ c.to \in Typed
              /\ c = [method |-> c.method, from |-> c.from, to |-> c.to]
<1>1. \A k \in Kinds \ {"absent"}, n \in 0..MaxBlock, o \in BOOLEAN : V(k, n, o) \in Typed
  BY Zenon DEF V, Typed
<1>3. 0 \in 0..MaxBlock
  BY RewriterAssumption
<1>2. Absent \in Typed
  BY Zenon, <1>3 DEF Absent, Plain, V, Typed, Kinds
<1>4. Strings \subseteq Typed
  BY Zenon, <1>1, <1>3 DEF Strings, Plain, Kinds, Tags
<1>5. Objects \subseteq Typed
  BY Zenon, <1>1, <1>3 DEF Objects, Kinds, Tags
<1>6. Plain("nonString") \in Typed /\ V("null", 0, TRUE) \in Typed
  BY Zenon, <1>1, <1>3 DEF Plain, Kinds
<1>7. Values \cup {Absent} \subseteq Typed /\ Ends \subseteq Typed
  BY Zenon, <1>2, <1>4, <1>5, <1>6 DEF Values, Ends
<1> QED
  BY Zenon, <1>7 DEF Calls

(* What RewriteTag makes of a value, when it is not refused.               *)
LEMMA TagRewritten ==
    ASSUME ContextOK, NEW v \in Typed, v # Absent, NEW o \in BOOLEAN,
           RewriteTag(v, o).ok
    PROVE  \/ /\ RewriteTag(v, o).rw /\ v.kind \in Tags
              /\ RewriteTag(v, o).val = V("number", rctx[v.kind], o)
           \/ /\ ~RewriteTag(v, o).rw /\ RewriteTag(v, o).val = v
              /\ v.kind \in {"hash", "null", "pending", "earliest", "number"}
              /\ v.kind = "number" => v.n <= rctx.latest
  BY DEF ContextOK, Typed, Kinds, Tags, RewriteTag, Error, Same, V, Beyond, Absent, Plain

LEMMA SameContext ==
    ASSUME rctx' = rctx, NEW v, NEW w, v = w
    PROVE  Denotes(v)' = Denotes(w)
  BY DEF Denotes

LEMMA Denoted ==
    /\ \A n, o : Denotes(V("number", n, o)) = V("number", n, FALSE)
    /\ \A v : v.kind \in Tags => Denotes(v) = V("number", rctx[v.kind], FALSE)
    /\ Denotes(Absent) = V("number", rctx.latest, FALSE)
    /\ Denotes(Plain("latest")) = V("number", rctx.latest, FALSE)
    /\ Plain("latest").kind = "latest" /\ Plain("latest") \in Typed
  BY RewriterAssumption DEF Denotes, Tags, V, Absent, Plain, Typed, Kinds

LEMMA MethodTable ==
    \A x \in DOMAIN Methods :
        /\ x \in {"eth_getLogs", "debug_getRawReceipts", "eth_call", "eth_getStorageAt",
                  "eth_getBlockByNumber"}
        /\ Methods[x].object \in BOOLEAN
        /\ x \in {"eth_call", "eth_getStorageAt", "eth_getBlockByNumber"} => ~Methods[x].required
<1>1. DOMAIN Methods = {"eth_getLogs", "debug_getRawReceipts", "eth_call", "eth_getStorageAt",
                        "eth_getBlockByNumber"}
  BY Zenon DEF Methods
<1>2. /\ Methods["eth_getLogs"].object = FALSE
      /\ Methods["debug_getRawReceipts"].object = FALSE
      /\ Methods["eth_call"].object = TRUE /\ Methods["eth_call"].required = FALSE
      /\ Methods["eth_getStorageAt"].object = TRUE
      /\ Methods["eth_getStorageAt"].required = FALSE
      /\ Methods["eth_getBlockByNumber"].object = FALSE
      /\ Methods["eth_getBlockByNumber"].required = FALSE
  BY Zenon DEF Methods
<1> QED
  BY Zenon, <1>1, <1>2

(* The block of a call that is rewritten is a number read from the view.   *)
LEMMA ParamRewritten ==
    ASSUME ContextOK, NEW c, c.method \in DOMAIN Methods \ {"eth_getLogs"}, c.block \in Typed,
           c = [method |-> c.method, before |-> c.before, block |-> c.block],
           RewriteParam(c), call' = c, rctx' = rctx
    PROVE  SameBlockIsMeant' /\ BackendResolvesNothing'
<1> DEFINE m == Methods[c.method]
           v == IF c.block = Absent /\ Default(c.before, m) THEN Plain("latest") ELSE c.block
           new == RewriteTag(v, m.object)
<1>1. v \in Typed /\ m.object \in BOOLEAN
  BY Zenon, Denoted, MethodTable
<1>2. c.block = Absent /\ v # Absent => v = Plain("latest")
  OBVIOUS
<1>3. c.method \in {"eth_call", "eth_getStorageAt", "eth_getBlockByNumber"}
        /\ c.before = m.pos => v # Absent
  BY DEF Default, Methods, Plain, V, Absent
<1>4. \/ v = Absent /\ Forwarded' /\ params' = c
      \/ ~Forwarded'
      \/ v # Absent /\ new.ok /\ new.rw /\ params' = [c EXCEPT !.block = new.val]
      \/ v # Absent /\ new.ok /\ ~new.rw /\ params' = c
  BY Zenon DEF RewriteParam, Outcome, Forwarded
<1>5. CASE v = Absent /\ params' = c
  BY Zenon, <1>3, <1>5 DEF SameBlockIsMeant, BackendResolvesNothing, Denotes, Methods
<1>6. CASE ~Forwarded'
  BY Zenon, <1>6 DEF SameBlockIsMeant, BackendResolvesNothing
<1>7. CASE v # Absent /\ new.ok /\ new.rw /\ params' = [c EXCEPT !.block = new.val]
  <2>1. v.kind \in Tags /\ params'.block = V("number", rctx[v.kind], m.object)
    BY <1>1, <1>7, TagRewritten
  <2>2. Denotes(params'.block) = V("number", rctx[v.kind], FALSE)
    BY ZenonT(60), <2>1, Denoted
  <2>3. Denotes(c.block) = V("number", rctx[v.kind], FALSE)
    <3>1. CASE c.block = Absent
      BY Zenon, <1>2, <1>7, <3>1, Denoted
    <3>2. CASE c.block # Absent
      BY Zenon, <2>1, <3>2, Denoted
    <3> QED
      BY Zenon, <3>1, <3>2
  <2>4. Resolved(params.block)'
    BY <2>1 DEF Resolved, V, Tags, ContextOK
  <2> QED
    BY Zenon, <2>2, <2>3, <2>4, SameContext DEF SameBlockIsMeant, BackendResolvesNothing
<1>8. CASE v # Absent /\ new.ok /\ ~new.rw /\ params' = c
  <2>1. v.kind \in {"hash", "null", "pending", "earliest", "number"}
        /\ (v.kind = "number" => v.n <= rctx.latest)
    BY Zenon, <1>1, <1>8, TagRewritten
  <2>2. v = c.block
    BY Zenon, <2>1 DEF Plain, V
  <2>3. Resolved(params.block)'
    BY Zenon, <1>8, <2>1, <2>2 DEF Resolved, Tags
  <2> QED
    BY Zenon, <1>8, <2>3 DEF SameBlockIsMeant, BackendResolvesNothing, Denotes, Methods
<1> QED
  BY Zenon, <1>4, <1>5, <1>6, <1>7, <1>8

(* to-from, taken as an unsigned number, tells the ranges that are in      *)
(* order and short enough from all others.                                 *)
LEMMA UnsignedDifference ==
    ASSUME NEW f \in 0..(MaxBlock + 1), NEW t \in 0..(MaxBlock + 1), NEW r \in MaxBlockRanges,
           ~((t + Words - f) % Words > r)
    PROVE  t \in f..(f + r)
<1>1. /\ MaxBlock \in Nat /\ Words \in Nat \ {0} /\ r \in Nat /\ r + MaxBlock + 1 < Words
  BY RewriterAssumption
<1>2. CASE t < f
  <2>1. (t + Words - f) % Words = t + Words - f
    BY <1>1, <1>2
  <2> QED
    BY <1>1, <1>2, <2>1
<1>3. CASE t >= f
  <2>1. (t + Words - f) % Words = t - f
    BY <1>1, <1>3
  <2> QED
    BY <1>1, <1>3, <2>1
<1> QED
  BY <1>1, <1>2, <1>3

LEMMA EndRewritten ==
    ASSUME ContextOK, NEW v \in Typed, RewriteEnd(v).ok
    PROVE  /\ Denotes(RewriteEnd(v).val) = Denotes(v)
           /\ v # Absent => Resolved(RewriteEnd(v).val)
           /\ ~RewriteEnd(v).rw => RewriteEnd(v).val = v /\ v.kind \notin Tags
           /\ Number(RewriteEnd(v).val) \in 0..(MaxBlock + 1) \cup {Words}
<1>1. CASE v.kind \in {"absent", "null", "empty"}
  BY Zenon, <1>1, RewriterAssumption DEF RewriteEnd, Same, Resolved, Number, Typed, Tags
<1>2. CASE v.kind \notin {"absent", "null", "empty"}
  <2>1. v # Absent /\ RewriteEnd(v) = RewriteTag(v, FALSE)
    BY <1>2 DEF RewriteEnd, Absent, Plain, V
  <2>2. CASE v.kind \in Tags /\ RewriteTag(v, FALSE).rw
             /\ RewriteTag(v, FALSE).val = V("number", rctx[v.kind], FALSE)
    <3>1. rctx[v.kind] \in 0..MaxBlock
      BY Zenon, <2>2 DEF ContextOK, Tags
    <3>2. Number(V("number", rctx[v.kind], FALSE)) = rctx[v.kind]
      BY DEF Number, V
    <3>3. Resolved(V("number", rctx[v.kind], FALSE))
      <4>1. rctx[v.kind] \in {rctx.latest, rctx.safe, rctx.finalized}
        BY Zenon, <2>2 DEF Tags
      <4> QED
        BY <3>1, <4>1, RewriterAssumption DEF Resolved, V, Tags
    <3>4. rctx[v.kind] \in 0..(MaxBlock + 1) \cup {Words}
      BY <3>1, RewriterAssumption
    <3>5. RewriteEnd(v).rw /\ RewriteEnd(v).val = V("number", rctx[v.kind], FALSE)
      BY ZenonT(60), <2>1, <2>2
    <3>6. Denotes(RewriteEnd(v).val) = Denotes(v)
      BY ZenonT(60), <2>2, <3>5, Denoted
    <3> QED
      BY ZenonT(60), <3>2, <3>3, <3>4, <3>5, <3>6
  <2>3. CASE ~RewriteTag(v, FALSE).rw /\ RewriteTag(v, FALSE).val = v
             /\ v.kind \in {"hash", "null", "pending", "earliest", "number"}
             /\ (v.kind = "number" => v.n <= rctx.latest)
    <3>1. Number(v) \in 0..(MaxBlock + 1) \cup {Words}
      BY <2>3, RewriterAssumption DEF Number, Typed, ContextOK
    <3> QED
      BY Zenon, <2>1, <2>3, <3>1 DEF Resolved, Tags
  <2> QED
    BY Zenon, <2>1, <2>2, <2>3, TagRewritten
<1> QED
  BY Zenon, <1>1, <1>2

(* Both ends of a range are treated like the block of a call, and the      *)
(* range that is checked is the one that is forwarded.                     *)
LEMMA RangeRewritten ==
    ASSUME ContextOK, NEW c, c.method = "eth_getLogs", c.from \in Typed, c.to \in Typed,
           c = [method |-> c.method, from |-> c.from, to |-> c.to],
           RewriteRange(c), call' = c, rctx' = rctx
    PROVE  SameBlockIsMeant' /\ BackendResolvesNothing' /\ RangeWithinLimit'
<1> DEFINE u == End(c.from, c.to)
           w == End(c.to, c.from)
           from == RewriteEnd(u)
           to == RewriteEnd(w)
           limited == rctx.maxBlockRange > 0 /\ (c.from # Absent \/ c.to # Absent)
<1>1. u \in Typed /\ w \in Typed /\ Denotes(u) = Denotes(c.from) /\ Denotes(w) = Denotes(c.to)
  BY Zenon, Denoted DEF End
<1>2. /\ u \in {c.from, Plain("latest")} /\ w \in {c.to, Plain("latest")}
      /\ c.from # Absent \/ c.to # Absent => u # Absent /\ w # Absent
  <2>1. Plain("latest") # Absent
    BY Zenon DEF Plain, V, Absent
  <2> QED
    BY Zenon, <2>1 DEF End
<1>3. CASE ~Forwarded'
  BY Zenon, <1>3 DEF SameBlockIsMeant, BackendResolvesNothing, RangeWithinLimit
<1>4. CASE Forwarded'
  <2>1. /\ from.ok /\ to.ok
        /\ limited => /\ Words \notin {Number(from.val), Number(to.val)}
                      /\ ~Longer(Number(from.val), Number(to.val))
        /\ \/ params' = [c EXCEPT !.from = from.val, !.to = to.val]
           \/ ~from.rw /\ ~to.rw /\ params' = c
    BY Zenon, <1>4 DEF RewriteRange, Outcome, Forwarded
  <2>2. /\ Denotes(from.val) = Denotes(c.from) /\ Denotes(to.val) = Denotes(c.to)
        /\ u # Absent => Resolved(from.val)
        /\ w # Absent => Resolved(to.val)
        /\ Number(from.val) \in 0..(MaxBlock + 1) \cup {Words}
        /\ Number(to.val) \in 0..(MaxBlock + 1) \cup {Words}
        /\ ~from.rw => from.val = u /\ u.kind \notin Tags
        /\ ~to.rw => to.val = w /\ w.kind \notin Tags
    BY Zenon, <1>1, <2>1, EndRewritten
  <2>3. params'.from = from.val /\ params'.to = to.val
    <3>1. CASE params' = [c EXCEPT !.from = from.val, !.to = to.val]
      BY Zenon, <3>1
    <3>2. CASE ~from.rw /\ ~to.rw /\ params' = c
      BY Zenon, <1>2, <2>2, <3>2, Denoted DEF Tags
    <3> QED
      BY Zenon, <2>1, <3>1, <3>2
  <2>4. SameBlockIsMeant'
    BY <2>2, <2>3, SameContext DEF SameBlockIsMeant
  <2>5. BackendResolvesNothing'
    BY Zenon, <1>2, <2>2, <2>3 DEF BackendResolvesNothing, Resolved
  <2>6. RangeWithinLimit'
    <3> SUFFICES ASSUME limited
                 PROVE  Number(to.val) \in Number(from.val)..(Number(from.val) + rctx.maxBlockRange)
      BY Zenon, <2>3 DEF RangeWithinLimit, Number
    <3>1. rctx.maxBlockRange \in MaxBlockRanges
      BY DEF ContextOK
    <3> QED
      BY Zenon, <2>1, <2>2, <3>1, UnsignedDifference DEF Longer
  <2> QED
    BY Zenon, <2>4, <2>5, <2>6
<1> QED
  BY Zenon, <1>3, <1>4

LEMMA RewriteKeeps ==
    ASSUME NEW c \in Calls, ContextOK, Rewrite(c)
    PROVE  SameBlockIsMeant' /\ BackendResolvesNothing' /\ RangeWithinLimit'
<1>1. call' = c /\ rctx' = rctx
  BY Zenon DEF Rewrite
<1>2. CASE c.method \in {"eth_blockNumber", "eth_chainId"}
  BY Zenon, <1>1, <1>2, MethodTable DEF SameBlockIsMeant, BackendResolvesNothing, RangeWithinLimit
<1>3. CASE /\ c.method \in DOMAIN Methods \ {"eth_getLogs"} /\ c.block \in Typed
           /\ c = [method |-> c.method, before |-> c.before, block |-> c.block]
  <2>1. RewriteParam(c)
    BY Zenon, <1>3, MethodTable DEF Rewrite
  <2> QED
    BY Zenon, <1>1, <1>3, <2>1, ParamRewritten DEF RangeWithinLimit
<1>4. CASE /\ c.method = "eth_getLogs" /\ c.from \in Typed /\ c.to \in Typed
           /\ c = [method |-> c.method, from |-> c.from, to |-> c.to]
  <2>1. RewriteRange(c)
    BY Zenon, <1>4 DEF Rewrite
  <2> QED
    BY Zenon, <1>1, <1>4, <2>1, RangeRewritten
<1> QED
  BY Zenon, <1>2, <1>3, <1>4, CallsTyped
-----------------------------------------------------------------------------
TypeOK ==
    /\ phase \in {"resolve", "latest", "safe", "finalized", "group"}
    /\ count \in Nat /\ stamp \in [Parts -> Nat] /\ seen \in [Parts -> Nat]
    /\ pc \in {"order", "aware", "latest", "safe", "finalized", "rewrite", "sent"}
    /\ {latest, safe, finalized} \subseteq Blocks
    /\ rctx \in [latest : Blocks, safe : Blocks, finalized : Blocks,
                 maxBlockRange : MaxBlockRanges \cup {0}]

(* A group that is not empty and has no forced member.                     *)
Proper(g) == g # {} /\ g \cap ForcedCandidates = {}

(* How far the round in progress has been published, and what of it.       *)
Published(p) ==
    \/ p = "latest" /\ phase \in {"safe", "finalized", "group"}
    \/ p = "safe" /\ phase \in {"finalized", "group"}
    \/ p = "finalized" /\ phase = "group"

StampsInOrder ==
    /\ phase # "resolve" => count > 0 /\ round \in Rounds
    /\ \A p \in Parts :
          stamp[p] = IF phase = "resolve" \/ Published(p) THEN count ELSE count - 1
    /\ phase \in {"finalized", "group"} => safe = round.safe
    /\ phase = "group" => finalized = round.finalized
    /\ stamp.safe = stamp.group /\ Proper(group) => safe > 0
    /\ stamp.finalized = stamp.group /\ Proper(group) => finalized > 0

(* What the request holds is not newer than what is published, and its     *)
(* backends are the group of the round it took them from.                  *)
SeenIsPublished ==
    /\ \A p \in Parts : seen[p] <= stamp[p]
    /\ ordered /\ seen.group = stamp.group => backends = group
    /\ pc = "order" => ~ordered
    /\ pc # "sent" => result = "pending"

ReadsInv == TypeOK /\ StampsInOrder /\ SeenIsPublished
                   /\ TagsNotOlderThanGroup /\ TornByAtMostOneRound

LEMMA BlocksAreNaturals == 0 \in Blocks /\ Blocks \subseteq Nat
  BY ReadsAssumption, RewriterAssumption

LEMMA TypeInductive == TypeOK /\ StampsInOrder /\ [Next]_vars => TypeOK'
<1> SUFFICES ASSUME TypeOK, StampsInOrder, [Next]_vars PROVE TypeOK'
  OBVIOUS
<1> USE DEF TypeOK
<1>1. CASE NewRound
  BY <1>1 DEF NewRound, Resolve, published, requestVars, rewriteVars
<1>2. CASE Publish
  <2>1. phase # "resolve" => {round.latest, round.safe, round.finalized} \subseteq Blocks
    BY Zenon DEF StampsInOrder, Rounds
  <2> QED
    BY <1>2, <2>1 DEF Publish, PublishLatest, PublishSafe, PublishFinalized,
                      PublishGroup, Parts, requestVars, rewriteVars
<1>3. CASE Attach
  BY Zenon, <1>3 DEF Attach, viewVars, published, requestVars, rewriteVars
<1>4. CASE OrderedBackends
  BY <1>4 DEF OrderedBackends, Parts, viewVars, published, rewriteVars
<1>5. CASE Aware
  BY Zenon, <1>5 DEF Aware, viewVars, published
<1>6. CASE ReadTag
  BY ZenonT(60), <1>6 DEF ReadTag, Parts, viewVars, published
<1>7. CASE OverwriteConsensusResponses
  BY Zenon, <1>7 DEF OverwriteConsensusResponses, Rewrite, viewVars, published
<1>8. CASE UNCHANGED vars
  BY Zenon, <1>8 DEF vars, viewVars, published, requestVars, rewriteVars
<1> QED
  BY Zenon, <1>1, <1>2, <1>3, <1>4, <1>5, <1>6, <1>7, <1>8 DEF Next

(* The poller's part: its steps keep the stamps in order, and no step of a *)
(* request moves them.                                                     *)
LEMMA StampsInductive == TypeOK /\ StampsInOrder /\ [Next]_vars => StampsInOrder'
<1> SUFFICES ASSUME TypeOK, StampsInOrder, [Next]_vars PROVE StampsInOrder'
  OBVIOUS
<1> USE DEF StampsInOrder, TypeOK, Published, Parts
<1>1. CASE NewRound
  BY <1>1 DEF NewRound, Resolve, published
<1>2. CASE Publish
  <2>1. phase # "resolve" => /\ {round.safe, round.finalized} \subseteq Nat
                             /\ Proper(round.group) => round.safe > 0 /\ round.finalized > 0
    BY ZenonT(60), BlocksAreNaturals DEF Rounds, Proper
  <2>2. CASE PublishLatest /\ stamp' = [stamp EXCEPT !.latest = count]
    BY Zenon, <1>2, <2>2 DEF Publish, PublishLatest
  <2>3. CASE PublishSafe /\ stamp' = [stamp EXCEPT !.safe = count]
    BY <1>2, <2>3 DEF Publish, PublishSafe
  <2>4. CASE PublishFinalized /\ stamp' = [stamp EXCEPT !.finalized = count]
    BY <1>2, <2>4 DEF Publish, PublishFinalized
  <2>5. CASE PublishGroup /\ stamp' = [stamp EXCEPT !.group = count]
    BY Zenon, <1>2, <2>1, <2>5 DEF Publish, PublishGroup
  <2> QED
    BY Zenon, <1>2, <2>2, <2>3, <2>4, <2>5 DEF Publish
<1>3. CASE UNCHANGED <<viewVars, count, stamp>>
  BY <1>3 DEF viewVars, published
<1>4. Attach \/ OrderedBackends \/ Aware \/ ReadTag \/ OverwriteConsensusResponses
        => UNCHANGED <<viewVars, count, stamp>>
  BY ZenonT(60)
  DEF Attach, OrderedBackends, Aware, ReadTag, OverwriteConsensusResponses
<1> QED
  BY Zenon, <1>1, <1>2, <1>3, <1>4 DEF Next, vars

(* Where the round in progress stands, in the form the reads need.         *)
LEMMA StampBounds ==
    ASSUME TypeOK, StampsInOrder
    PROVE  /\ stamp.latest \in Nat /\ stamp.safe \in Nat
           /\ stamp.finalized \in Nat /\ stamp.group \in Nat
           /\ stamp.group <= stamp.finalized /\ stamp.finalized <= stamp.safe
           /\ stamp.safe <= stamp.latest /\ stamp.latest <= stamp.group + 1
  BY DEF TypeOK, StampsInOrder, Published, Parts

LEMMA SeenInductive ==
    TypeOK /\ StampsInOrder /\ SeenIsPublished /\ [Next]_vars => SeenIsPublished'
<1> SUFFICES ASSUME TypeOK, StampsInOrder, SeenIsPublished, [Next]_vars
             PROVE  SeenIsPublished'
  OBVIOUS
<1> USE DEF SeenIsPublished, TypeOK, Parts
<1>1. CASE NewRound
  BY Zenon, <1>1 DEF NewRound, Resolve, published, requestVars, rewriteVars
<1>2. CASE Publish
  <2>1. stamp.latest <= count /\ stamp.safe <= count /\ stamp.finalized <= count
    BY DEF StampsInOrder, Published
  <2>2. phase = "group" => stamp.group < count
    BY DEF StampsInOrder, Published
  <2>3. CASE PublishLatest /\ stamp' = [stamp EXCEPT !.latest = count]
    BY <1>2, <2>1, <2>3 DEF Publish, PublishLatest, requestVars, rewriteVars
  <2>4. CASE PublishSafe /\ stamp' = [stamp EXCEPT !.safe = count]
    BY <1>2, <2>1, <2>4 DEF Publish, PublishSafe, requestVars, rewriteVars
  <2>5. CASE PublishFinalized /\ stamp' = [stamp EXCEPT !.finalized = count]
    BY <1>2, <2>1, <2>5 DEF Publish, PublishFinalized, requestVars, rewriteVars
  <2>6. CASE PublishGroup /\ stamp' = [stamp EXCEPT !.group = count]
    BY <1>2, <2>2, <2>6 DEF Publish, PublishGroup, requestVars, rewriteVars
  <2> QED
    BY Zenon, <1>2, <2>3, <2>4, <2>5, <2>6 DEF Publish
<1>3. CASE Attach
  BY Zenon, <1>3 DEF Attach, viewVars, published, requestVars, rewriteVars
<1>4. CASE OrderedBackends
  BY <1>4 DEF OrderedBackends, viewVars, published, rewriteVars
<1>5. CASE Aware
  BY Zenon, <1>5 DEF Aware, viewVars, published
<1>6. CASE ReadTag
  <2>1. pc \in {"latest", "safe", "finalized"} /\ pc' # "order"
    BY ZenonT(60), <1>6 DEF ReadTag
  <2>2. /\ seen' = [seen EXCEPT ![pc] = stamp[pc]]
        /\ UNCHANGED <<stamp, ordered, backends, group, result>>
    BY ZenonT(60), <1>6 DEF ReadTag, viewVars, published
  <2> QED
    BY SMTT(60), <2>1, <2>2
<1>7. CASE OverwriteConsensusResponses
  BY Zenon, <1>7 DEF OverwriteConsensusResponses, viewVars, published
<1>8. CASE UNCHANGED vars
  BY Zenon, <1>8 DEF vars, viewVars, published, requestVars, rewriteVars
<1> QED
  BY Zenon, <1>1, <1>2, <1>3, <1>4, <1>5, <1>6, <1>7, <1>8 DEF Next

(* What a request has read does not change by itself.                      *)
LEMMA SameReads ==
    ASSUME TagsNotOlderThanGroup, TornByAtMostOneRound, ReadTags' \subseteq ReadTags,
           ordered' = ordered, backends' = backends, seen' = seen, rctx' = rctx
    PROVE  TagsNotOlderThanGroup' /\ TornByAtMostOneRound'
<1>1. TagsNotOlderThanGroup'
  BY Zenon DEF TagsNotOlderThanGroup
<1>2. TornByAtMostOneRound'
  BY Zenon DEF TornByAtMostOneRound
<1> QED
  BY <1>1, <1>2

(* The steps at which a request has read a tag.                            *)
LEMMA AfterTable ==
    \A tag \in Tags : /\ {"order", "aware", "latest"} \cap After[tag] = {}
                      /\ {"rewrite", "sent"} \subseteq After[tag]
                      /\ tag # "finalized" => "finalized" \in After[tag]
<1>1. /\ After["latest"] = {"safe", "finalized", "rewrite", "sent"}
      /\ After["safe"] = {"finalized", "rewrite", "sent"}
      /\ After["finalized"] = {"rewrite", "sent"}
  BY SMT DEF After
<1> QED
  BY ZenonT(60), <1>1 DEF Tags

(* Only the reads of a request concern what it has read.                   *)
LEMMA ReadsInductive == ReadsInv /\ [Next]_vars
                           => TagsNotOlderThanGroup' /\ TornByAtMostOneRound'
<1> SUFFICES ASSUME ReadsInv, [Next]_vars
             PROVE  TagsNotOlderThanGroup' /\ TornByAtMostOneRound'
  OBVIOUS
<1> USE DEF ReadsInv, TagsNotOlderThanGroup, TornByAtMostOneRound, ReadTags, After, Tags
<1>1. CASE UNCHANGED <<pc, ordered, backends, seen, rctx, result>>
  BY Zenon, <1>1
<1>2. NewRound \/ Publish \/ Attach \/ UNCHANGED vars
        => UNCHANGED <<pc, ordered, backends, seen, rctx, result>>
  BY Zenon DEF NewRound, Publish, Attach, requestVars, rewriteVars, vars
<1>3. CASE OrderedBackends
  BY <1>3 DEF OrderedBackends
<1>4. CASE Aware
  <2>1. ReadTags' = {}
    <3> HIDE DEF After, Tags
    <3> QED
      BY ZenonT(60), <1>4, AfterTable DEF Aware
  <2>2. ordered' = ordered /\ backends' = backends /\ seen' = seen /\ rctx' = rctx
    BY Zenon, <1>4 DEF Aware
  <2> QED
    BY Zenon, <2>1, <2>2, SameReads
<1>5. CASE ReadTag
  <2>1. /\ stamp.group <= stamp.finalized /\ stamp.finalized <= stamp.safe
        /\ stamp.safe <= stamp.latest /\ stamp.latest <= stamp.group + 1
    BY Zenon, StampBounds
  <2>2. /\ seen.latest <= stamp.latest /\ seen.safe <= stamp.safe
        /\ seen.group <= stamp.group
        /\ seen.group = stamp.group /\ ordered => backends = group
    BY Zenon DEF SeenIsPublished, Parts
  <2>3. /\ stamp.safe = stamp.group /\ Proper(group) => safe > 0
        /\ stamp.finalized = stamp.group /\ Proper(group) => finalized > 0
    BY Zenon DEF StampsInOrder
  <2>4. /\ \A p \in Parts : stamp[p] \in Nat /\ seen[p] \in Nat
        /\ safe \in Nat /\ finalized \in Nat
    BY ZenonT(60), BlocksAreNaturals DEF TypeOK
  <2>5. CASE pc = "latest"
    BY <1>5, <2>1, <2>2, <2>4, <2>5 DEF ReadTag, TypeOK, Parts
  <2>6. CASE pc = "safe"
    BY <1>5, <2>1, <2>2, <2>3, <2>4, <2>6 DEF ReadTag, TypeOK, Parts, Proper
  <2>7. CASE pc = "finalized"
    <3>1. /\ rctx'.safe = rctx.safe /\ rctx'.finalized = finalized
          /\ seen' = [seen EXCEPT !["finalized"] = stamp["finalized"]]
          /\ pc' = "rewrite" /\ UNCHANGED <<ordered, backends, result>>
      BY ZenonT(60), <1>5, <2>7 DEF ReadTag, TypeOK
    <3>2. /\ \A p \in {"latest", "safe", "group"} : seen'[p] = seen[p]
          /\ seen'.finalized = stamp.finalized
      BY Zenon, <3>1 DEF TypeOK, Parts
    <3>3. /\ stamp.finalized >= seen.group
          /\ stamp.finalized = seen.group => seen.group = stamp.group
          /\ stamp.finalized + 1 >= seen.latest /\ stamp.finalized + 1 >= seen.safe
          /\ stamp.finalized # seen.group => stamp.finalized > seen.group
          /\ finalized = 0 => ~(finalized > 0)
      <4> HIDE DEF ReadsInv, TagsNotOlderThanGroup, TornByAtMostOneRound, ReadTags, After
      <4>1. \A p \in {"latest", "safe", "finalized", "group"} :
               stamp[p] \in Nat /\ seen[p] \in Nat
        BY Zenon, <2>4 DEF Parts
      <4> QED
        BY SMT, <2>1, <2>2, <2>4, <4>1
    <3>4. ASSUME NEW tag \in ReadTags', tag # "finalized"
          PROVE  /\ tag \in ReadTags /\ seen'[tag] = seen[tag]
                 /\ tag # "latest" => rctx'[tag] = rctx[tag]
      <4>1. tag \in {"latest", "safe"}
        BY Zenon, <3>4
      <4>2. tag \in ReadTags
        <5> HIDE DEF After, Tags
        <5> QED
          BY Zenon, <2>7, <3>1, <3>4, AfterTable
      <4> QED
        BY ZenonT(60), <3>1, <3>2, <4>1, <4>2
    <3>5. seen'.group = seen.group /\ seen'.latest = seen.latest /\ seen'.safe = seen.safe
      BY Zenon, <3>2
    <3>6. TagsNotOlderThanGroup'
      <4> SUFFICES ASSUME ordered', NEW tag \in ReadTags'
                   PROVE  /\ seen'[tag] >= seen'.group
                          /\ tag # "latest" /\ rctx'[tag] = 0 /\ backends' # {}
                                /\ backends' \cap ForcedCandidates = {}
                                => seen'[tag] > seen'.group
        BY Zenon
      <4>1. CASE tag = "finalized"
        BY ZenonT(60), <2>2, <2>3, <3>1, <3>2, <3>3, <3>5, <4>1 DEF Proper
      <4>2. CASE tag # "finalized"
        BY ZenonT(60), <3>1, <3>4, <3>5, <4>2
      <4> QED
        BY Zenon, <4>1, <4>2
    <3>7. TornByAtMostOneRound'
      <4> SUFFICES ASSUME NEW tag \in ReadTags'
                   PROVE  /\ tag # "latest" => seen'[tag] + 1 >= seen'.latest
                          /\ tag = "finalized" => seen'[tag] + 1 >= seen'.safe
        BY Zenon
      <4>1. CASE tag = "finalized"
        BY ZenonT(60), <3>2, <3>3, <3>5, <4>1
      <4>2. CASE tag # "finalized"
        BY ZenonT(60), <3>4, <3>5, <4>2
      <4> QED
        BY Zenon, <4>1, <4>2
    <3> QED
      BY Zenon, <3>6, <3>7
  <2> QED
    BY ZenonT(60), <1>5, <2>5, <2>6, <2>7 DEF ReadTag
<1>6. CASE OverwriteConsensusResponses
  <2>1. ReadTags = Tags
    <3>1. pc = "rewrite" /\ result = "pending"
      BY Zenon, <1>6 DEF OverwriteConsensusResponses, SeenIsPublished
    <3> HIDE DEF After, Tags
    <3> QED
      BY Zenon, <3>1, AfterTable
  <2>2. ordered' = ordered /\ backends' = backends /\ seen' = seen /\ rctx' = rctx
    BY Zenon, <1>6 DEF OverwriteConsensusResponses, Rewrite
  <2>3. ReadTags' \subseteq ReadTags
    BY Zenon, <2>1
  <2> QED
    BY Zenon, <2>2, <2>3, SameReads
<1> QED
  BY Zenon, <1>1, <1>2, <1>3, <1>4, <1>5, <1>6 DEF Next

LEMMA ReadsInvariant == Spec => []ReadsInv
<1>1. Init => ReadsInv
  <2>1. Init => TypeOK
    BY BlocksAreNaturals DEF Init, ViewInit, TypeOK, NoContext, Parts
  <2>2. Init => StampsInOrder
    BY Zenon DEF Init, ViewInit, StampsInOrder, Proper, Parts
  <2>4. Init => SeenIsPublished
    <3>1. 0 <= 0
      BY SMT
    <3> QED
      BY Zenon, <3>1 DEF Init, SeenIsPublished, Parts
  <2>3. Init => ReadTags = {}
    BY DEF Init, ReadTags, After, Tags
  <2> QED
    BY Zenon, <2>1, <2>2, <2>3, <2>4
       DEF ReadsInv, TagsNotOlderThanGroup, TornByAtMostOneRound
<1>2. ReadsInv /\ [Next]_vars => ReadsInv'
  BY Zenon, TypeInductive, StampsInductive, SeenInductive, ReadsInductive DEF ReadsInv
<1> QED
  BY <1>1, <1>2, PTL DEF Spec

(* A request that took its backends from the consensus group is rewritten  *)
(* with the numbers of that group's round or of a later one, whatever the  *)
(* poller publishes between its reads.                                     *)
THEOREM TagsAreNotOlder == Spec => []TagsNotOlderThanGroup
  BY ReadsInvariant, PTL DEF ReadsInv

(* The three numbers of a request differ in age by at most one round in    *)
(* the direction in which they are read.                                   *)
THEOREM TornByOneRound == Spec => []TornByAtMostOneRound
  BY ReadsInvariant, PTL DEF ReadsInv

-----------------------------------------------------------------------------
RewriteInv == SameBlockIsMeant /\ BackendResolvesNothing /\ RangeWithinLimit

(* Once the call is rewritten neither it nor the numbers change; before    *)
(* that nothing is forwarded.                                              *)
LEMMA RewriteInductive == ReadsInv /\ RewriteInv /\ [Next]_vars => RewriteInv'
<1> SUFFICES ASSUME ReadsInv, RewriteInv, [Next]_vars PROVE RewriteInv'
  OBVIOUS
<1>1. CASE OverwriteConsensusResponses
  <2>1. PICK c \in Calls : Rewrite(c)
    BY Zenon, <1>1 DEF OverwriteConsensusResponses
  <2>2. ContextOK
    BY Zenon, ReadsAssumption DEF ReadsInv, TypeOK, ContextOK
  <2> QED
    BY <2>1, <2>2, RewriteKeeps DEF RewriteInv
<1>2. CASE OrderedBackends \/ Aware \/ ReadTag
  <2>1. pc # "sent" /\ result' \in {result, "unaware"}
    BY Zenon, <1>2 DEF OrderedBackends, Aware, ReadTag, rewriteVars
  <2>2. ~Forwarded'
    BY Zenon, <2>1 DEF ReadsInv, SeenIsPublished, Forwarded
  <2> QED
    BY Zenon, <2>2 DEF RewriteInv, SameBlockIsMeant, BackendResolvesNothing, RangeWithinLimit
<1>3. CASE UNCHANGED rewriteVars
  BY ZenonT(60), <1>3 DEF RewriteInv, SameBlockIsMeant, BackendResolvesNothing, RangeWithinLimit,
     rewriteVars, Forwarded, Denotes, Resolved, Number
<1>4. NewRound \/ Publish \/ Attach \/ UNCHANGED vars => UNCHANGED rewriteVars
  BY Zenon DEF NewRound, Publish, Attach, requestVars, vars
<1> QED
  BY Zenon, <1>1, <1>2, <1>3, <1>4 DEF Next

LEMMA RewriteInvariant == Spec => []RewriteInv
<1>1. Init => RewriteInv
  BY Zenon DEF Init, RewriteInv, SameBlockIsMeant, BackendResolvesNothing, RangeWithinLimit, Forwarded
<1> QED
  BY <1>1, ReadsInvariant, RewriteInductive, PTL DEF Spec

(* The backend is asked for the block the client meant, whatever values    *)
(* the call has and whatever the poller publishes while it is read.        *)
THEOREM RewriteKeepsMeaning == Spec => []SameBlockIsMeant
  BY RewriteInvariant, PTL DEF RewriteInv

(* No tag reaches a backend, and no number the consensus does not cover.   *)
THEOREM NothingIsLeftToResolve == Spec => []BackendResolvesNothing
  BY RewriteInvariant, PTL DEF RewriteInv

(* The unsigned difference that rewriteRange computes keeps every range    *)
(* that is forwarded in order and within the limit.                        *)
THEOREM RangesAreLimited == Spec => []RangeWithinLimit
  BY RewriteInvariant, PTL DEF RewriteInv
==============================================================================
