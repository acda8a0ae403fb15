---------------------------- MODULE InteropProofs ----------------------------
(* Theorems about the interop validation of a server (InteropStrategies),  *)
(* for any requests, supervisors, timeout and access lists: first the      *)
(* health-aware strategy, then multicall, then either of them as Start     *)
(* configures it.                                                          *)
EXTENDS InteropStrategies, FiniteSetTheorems, TLAPS

PCs == {"start", "get", "loop", "validate", "answered", "mark", "next", "deferred", "done"}
Verdicts == {"pending", "accept", "reject", "exhausted"}

TypeOK ==
    /\ index \in Backends
    /\ pc \in [Requests -> PCs]
    /\ backend \in [Requests -> Backends]
    /\ retryCount \in [Requests -> Nat]
    /\ heard \in [Requests -> SUBSET Answers]
    /\ seen \in [Requests -> SUBSET Backends]
    /\ verdict \in [Requests -> Verdicts]

(* A request without a verdict has heard of supervisors that are down, and *)
(* of the one whose answer decides.                                        *)
Undecided ==
    \A r \in Requests :
        /\ pc[r] \notin {"deferred", "done"} => verdict[r] = "pending"
        /\ pc[r] \notin {"answered", "deferred", "done"} => heard[r] \subseteq {"down"}
        /\ pc[r] = "answered" => ~({"ok", "invalid"} \subseteq heard[r])

PromiseInv == TypeOK /\ Undecided

LEMMA RotatedSteps ==
    ASSUME index \in Backends
    PROVE  Rotated = IF index + 1 = Size THEN 0 ELSE index + 1
<1>1. ASSUME NEW n \in Nat, n < Size PROVE n % Size = n
  BY <1>1, SizeAssumption, Z3
<1>2. Size % Size = 0
  BY SizeAssumption, Z3
<1> QED
  BY <1>1, <1>2, SizeAssumption DEF Rotated, Backends

LEMMA RotatedType == index \in Backends => Rotated \in Backends
  BY RotatedSteps, SizeAssumption DEF Backends

LEMMA TypeInductive == TypeOK /\ [Next]_vars => TypeOK'
<1> SUFFICES ASSUME TypeOK, [Next]_vars PROVE TypeOK'
  OBVIOUS
<1> USE DEF TypeOK, PCs, Goto
<1>1. ASSUME NEW r \in Requests, NEW passes \in BOOLEAN, Preflight(r, passes) PROVE TypeOK'
  BY <1>1 DEF Preflight, Verdicts
<1>2. ASSUME NEW r \in Requests, GetBackend(r) PROVE TypeOK'
  BY Zenon, <1>2 DEF GetBackend
<1>3. ASSUME NEW r \in Requests, NEW healthy \in BOOLEAN, Loop(r, healthy) PROVE TypeOK'
  BY <1>3 DEF Loop
<1>4. ASSUME NEW r \in Requests, Exhausted(r) PROVE TypeOK'
  BY Zenon, <1>4 DEF Exhausted, Verdicts
<1>5. ASSUME NEW r \in Requests, NEW a \in Answers, Validate(r, a) PROVE TypeOK'
  BY Zenon, <1>5 DEF Validate
<1>6. ASSUME NEW r \in Requests, NEW a \in Answers, Answered(r, a) PROVE TypeOK'
  <2>1. VerdictOf(a) \in Verdicts
    BY Zenon DEF VerdictOf, Verdicts, Answers
  <2> QED
    BY Zenon, <1>6, <2>1 DEF Answered
<1>7. ASSUME NEW r \in Requests, MarkUnhealthy(r) PROVE TypeOK'
  BY <1>7 DEF MarkUnhealthy
<1>8. ASSUME NEW r \in Requests, NextBackend(r) PROVE TypeOK'
  BY <1>8, RotatedType DEF NextBackend, Counted
<1>9. ASSUME NEW r \in Requests, Deferred(r) PROVE TypeOK'
  BY Zenon, <1>9, RotatedType DEF Deferred
<1>10. CASE Tick
  BY Zenon, <1>10 DEF Tick
<1>11. CASE UNCHANGED vars
  BY Zenon, <1>11 DEF vars
<1> QED
  BY Zenon, <1>1, <1>2, <1>3, <1>4, <1>5, <1>6, <1>7, <1>8, <1>9, <1>10, <1>11 DEF Next, Step

LEMMA UndecidedInductive == PromiseInv /\ [Next]_vars => Undecided'
<1> SUFFICES ASSUME TypeOK, Undecided, [Next]_vars PROVE Undecided'
  BY DEF PromiseInv
<1> USE DEF TypeOK, Undecided, Goto
<1>1. ASSUME NEW r \in Requests, NEW passes \in BOOLEAN, Preflight(r, passes)
      PROVE  Undecided'
  BY <1>1 DEF Preflight
<1>2. ASSUME NEW r \in Requests, GetBackend(r) PROVE Undecided'
  BY <1>2 DEF GetBackend
<1>3. ASSUME NEW r \in Requests, NEW healthy \in BOOLEAN, Loop(r, healthy) PROVE Undecided'
  BY Zenon, <1>3 DEF Loop
<1>4. ASSUME NEW r \in Requests, Exhausted(r) PROVE Undecided'
  BY Zenon, <1>4 DEF Exhausted
<1>5. ASSUME NEW r \in Requests, NEW a \in Answers, Validate(r, a) PROVE Undecided'
  BY <1>5 DEF Validate
<1>6. ASSUME NEW r \in Requests, NEW a \in Answers, Answered(r, a) PROVE Undecided'
  <2>1. VerdictOf(a) = "pending" => a = "down"
    BY Zenon DEF VerdictOf, Answers
  <2> QED
    BY <1>6, <2>1 DEF Answered, Answers
<1>7. ASSUME NEW r \in Requests, MarkUnhealthy(r) PROVE Undecided'
  BY Zenon, <1>7 DEF MarkUnhealthy
<1>8. ASSUME NEW r \in Requests, NextBackend(r) PROVE Undecided'
  BY Zenon, <1>8 DEF NextBackend
<1>9. ASSUME NEW r \in Requests, Deferred(r) PROVE Undecided'
  BY <1>9 DEF Deferred
<1>10. CASE Tick
  BY Zenon, <1>10 DEF Tick
<1>11. CASE UNCHANGED vars
  BY Zenon, <1>11 DEF vars
<1> QED
  BY Zenon, <1>1, <1>2, <1>3, <1>4, <1>5, <1>6, <1>7, <1>8, <1>9, <1>10, <1>11 DEF Next, Step

LEMMA InitialState == Init => PromiseInv
  BY SizeAssumption
  DEF Init, PromiseInv, TypeOK, Undecided, PCs, Verdicts, Backends

(* What a caller of ValidateAccessList is told.                            *)
Told == [r \in Requests |-> IF verdict[r] = "exhausted" THEN "reject" ELSE verdict[r]]

(* Every step of the strategy is one of InteropValidation or invisible.    *)
LEMMA PromiseStep ==
    PromiseInv /\ [Next]_vars => [Promise!Next]_<<heard, Told>>
<1> SUFFICES ASSUME TypeOK, Undecided, [Next]_vars
             PROVE  [Promise!Next]_<<heard, Told>>
  BY DEF PromiseInv
<1> USE DEF TypeOK, Told
<1>1. ASSUME NEW r \in Requests, NEW passes \in BOOLEAN, Preflight(r, passes)
      PROVE  [Promise!Next]_<<heard, Told>>
  <2>1. CASE passes
    BY Zenon, <1>1, <2>1 DEF Preflight
  <2>2. CASE ~passes
    <3>1. Promise!Reject(r)
      BY ZenonT(60), <1>1, <2>2 DEF Preflight, Promise!Reject, Undecided, Told
    <3> QED
      BY Zenon, <3>1 DEF Promise!Next
  <2> QED
    BY Zenon, <2>1, <2>2
<1>2. ASSUME NEW r \in Requests, Exhausted(r) PROVE [Promise!Next]_<<heard, Told>>
  <2>1. Promise!Reject(r)
    BY ZenonT(60), <1>2 DEF Exhausted, Promise!Reject, Undecided, Told
  <2> QED
    BY Zenon, <2>1 DEF Promise!Next
<1>3. ASSUME NEW r \in Requests, NEW a \in Answers, Validate(r, a)
      PROVE  [Promise!Next]_<<heard, Told>>
  <2>1. Promise!Hear(r, a)
    BY Zenon, <1>3 DEF Validate, Promise!Hear
  <2> QED
    BY Zenon, <2>1 DEF Promise!Next, Promise!Answers, Answers
<1>4. ASSUME NEW r \in Requests, NEW a \in Answers, Answered(r, a)
      PROVE  [Promise!Next]_<<heard, Told>>
  <2>1. /\ verdict[r] = "pending" /\ a \in heard[r] /\ UNCHANGED heard
        /\ ~({"ok", "invalid"} \subseteq heard[r])
    BY Zenon, <1>4 DEF Answered, Undecided
  <2>2. CASE a = "down"
    <3>1. VerdictOf(a) = "pending"
      BY Zenon, <2>2 DEF VerdictOf
    <3> QED
      BY Zenon, <1>4, <2>1, <3>1 DEF Answered
  <2>3. CASE a = "ok"
    <3>1. VerdictOf(a) = "accept"
      BY Zenon, <2>3 DEF VerdictOf
    <3>2. Promise!Accept(r)
      BY ZenonT(60), <1>4, <2>1, <2>3, <3>1 DEF Answered, Promise!Accept
    <3> QED
      BY Zenon, <3>2 DEF Promise!Next
  <2>4. CASE a = "invalid"
    <3>1. VerdictOf(a) = "reject"
      BY Zenon, <2>4 DEF VerdictOf
    <3>2. Promise!Reject(r)
      BY ZenonT(60), <1>4, <2>1, <2>4, <3>1 DEF Answered, Promise!Reject
    <3> QED
      BY Zenon, <3>2 DEF Promise!Next
  <2> QED
    BY Zenon, <2>2, <2>3, <2>4 DEF Answers
<1>5. ASSUME UNCHANGED <<heard, verdict>> PROVE [Promise!Next]_<<heard, Told>>
  BY Zenon, <1>5
<1> QED
  BY Zenon, <1>1, <1>2, <1>3, <1>4, <1>5
  DEF Next, Step, Tick, GetBackend, Loop, MarkUnhealthy, NextBackend, Deferred, vars

LEMMA HealthAwareImplements == Spec => KeepsPromise
<1>1. Init => Promise!Init
  BY DEF Init, Promise!Init
<1>2. PromiseInv /\ [Next]_vars => PromiseInv'
  BY TypeInductive, UndecidedInductive DEF PromiseInv
<1> QED
  BY <1>1, <1>2, InitialState, PromiseStep, PTL DEF Spec, KeepsPromise, Promise!Spec, Told

-----------------------------------------------------------------------------
(* Two requests in flight at once overlap.                                 *)
Overlaps ==
    \A r, s \in Requests :
        r # s /\ pc[r] \notin {"start", "done"} /\ pc[s] \notin {"start", "done"}
            => r \in overlapped

(* From supervisor b on, n of them in turn up to but without m are in S,   *)
(* with or without going round.                                            *)
Round(b, n, m, S) ==
    \/ m = b + n /\ b..(m - 1) \subseteq S
    \/ m + Size = b + n /\ (b..(Size - 1)) \cup (0..(m - 1)) \subseteq S

Searching == {"loop", "validate", "answered", "mark", "next"}

(* A request that is alone moves the index itself: what it has found       *)
(* unhealthy are the supervisors from where it began to where it is.       *)
Search(r) ==
    /\ pc[r] \in {"start", "get"} => retryCount[r] = 0
    /\ pc[r] \in Searching \ {"loop"} => retryCount[r] < Size
    /\ pc[r] \in Searching /\ r \notin overlapped =>
          /\ backend[r] = index
          /\ \E b \in Backends : Round(b, retryCount[r], backend[r], seen[r])
    /\ pc[r] = "next" => backend[r] \in seen[r]
    /\ verdict[r] = "exhausted" /\ r \notin overlapped => seen[r] = Backends

SearchInv == TypeOK /\ Undecided /\ Overlaps /\ \A r \in Requests : Search(r)

LEMMA RoundAdvances ==
    ASSUME NEW b \in Backends, NEW n \in Nat, index \in Backends, NEW S, n < Size,
           Round(b, n, index, S), index \in S
    PROVE  Round(b, n + 1, Rotated, S)
<1> USE SizeAssumption DEF Backends
<1>1. CASE index + 1 = Size
  <2>1. Rotated = 0
    BY Zenon, <1>1, RotatedSteps
  <2>2. index = b + n /\ b..(index - 1) \subseteq S
    BY <1>1 DEF Round
  <2> QED
    BY <1>1, <2>1, <2>2 DEF Round
<1>2. CASE index + 1 # Size
  <2>1. Rotated = index + 1
    BY Zenon, <1>2, RotatedSteps
  <2> QED
    BY <1>2, <2>1 DEF Round
<1> QED
  BY Zenon, <1>1, <1>2

LEMMA RoundComplete ==
    ASSUME NEW b \in Backends, NEW n \in Nat, NEW m \in Backends, NEW S,
           Round(b, n, m, S), n >= Size
    PROVE  Backends \subseteq S
  BY SizeAssumption DEF Backends, Round

LEMMA OverlapsInductive == TypeOK /\ Overlaps /\ [Next]_vars => Overlaps'
<1> SUFFICES ASSUME TypeOK, Overlaps, [Next]_vars PROVE Overlaps'
  OBVIOUS
<1> USE DEF TypeOK, Overlaps, Goto
<1>1. ASSUME NEW r \in Requests, NEW passes \in BOOLEAN, Preflight(r, passes)
      PROVE  Overlaps'
  BY <1>1 DEF Preflight, InFlight
<1>2. ASSUME NEW r \in Requests, pc[r] \notin {"start", "done"}, UNCHANGED overlapped,
             NEW l \in PCs, pc' = [pc EXCEPT ![r] = l]
      PROVE  Overlaps'
  BY <1>2
<1>3. ASSUME UNCHANGED <<pc, overlapped>> PROVE Overlaps'
  BY Zenon, <1>3
<1> QED
  BY <1>1, <1>2, <1>3
  DEF Next, Step, Tick, GetBackend, Loop, Exhausted, Validate, Answered, MarkUnhealthy,
      NextBackend, Deferred, vars, PCs

(* A step of one request leaves the search of another as it was, if they   *)
(* overlap or it leaves the index alone.                                   *)
LEMMA OthersSearch ==
    ASSUME NEW s \in Requests, Search(s), pc'[s] = pc[s], backend'[s] = backend[s],
           retryCount'[s] = retryCount[s], seen'[s] = seen[s], verdict'[s] = verdict[s],
           overlapped \subseteq overlapped',
           pc[s] \in Searching => UNCHANGED index \/ s \in overlapped'
    PROVE  Search(s)'
  BY Zenon DEF Search, Round

LEMMA SearchInductive ==
    SearchInv /\ Overlaps' /\ [Next]_vars => \A s \in Requests : Search(s)'
<1> SUFFICES ASSUME TypeOK, Undecided, Overlaps, \A s \in Requests : Search(s),
                    Overlaps', [Next]_vars
             PROVE  \A s \in Requests : Search(s)'
  BY Zenon DEF SearchInv
<1> USE DEF TypeOK, Goto
<1>1. ASSUME NEW r \in Requests, overlapped \subseteq overlapped',
             \A s \in Requests \ {r} :
                /\ pc'[s] = pc[s] /\ backend'[s] = backend[s] /\ seen'[s] = seen[s]
                /\ retryCount'[s] = retryCount[s] /\ verdict'[s] = verdict[s],
             UNCHANGED index \/ pc[r] \notin {"start", "done"}, Search(r)'
      PROVE  \A s \in Requests : Search(s)'
  <2>1. ASSUME NEW s \in Requests \ {r} PROVE Search(s)'
    <3>1. pc[s] \in Searching => UNCHANGED index \/ s \in overlapped'
      BY Zenon, <1>1 DEF Overlaps, Searching
    <3> QED
      BY Zenon, <1>1, <3>1, OthersSearch
  <2> QED
    BY Zenon, <1>1, <2>1
<1>2. ASSUME NEW r \in Requests, NEW passes \in BOOLEAN, Preflight(r, passes)
      PROVE  \A s \in Requests : Search(s)'
  <2>1. Search(r)'
    BY <1>2 DEF Preflight, Search, Searching, Undecided
  <2> QED
    BY Zenon, <1>1, <1>2, <2>1 DEF Preflight
<1>3. ASSUME NEW r \in Requests, GetBackend(r) PROVE \A s \in Requests : Search(s)'
  <2>1. Round(index, 0, index, seen[r])
    BY SizeAssumption DEF Round, Backends
  <2>2. Search(r)'
    BY <1>3, <2>1 DEF GetBackend, Search, Searching, Undecided, Round
  <2> QED
    BY Zenon, <1>1, <1>3, <2>2 DEF GetBackend
<1>4. ASSUME NEW r \in Requests, NEW healthy \in BOOLEAN, Loop(r, healthy)
      PROVE  \A s \in Requests : Search(s)'
  <2>1. /\ seen[r] \subseteq seen'[r]
        /\ ~healthy => backend[r] \in seen'[r]
        /\ pc[r] = "loop" /\ pc'[r] = IF healthy THEN "validate" ELSE "next"
        /\ retryCount[r] < Size
        /\ UNCHANGED <<index, backend, retryCount, verdict, overlapped>>
    BY Zenon, <1>4 DEF Loop, RetriesLeft
  <2>3. Search(r)'
    <3>1. CASE r \in overlapped
      BY Zenon, <2>1, <3>1 DEF Search, Searching, Undecided
    <3>2. CASE r \notin overlapped
      <4>1. PICK b \in Backends : Round(b, retryCount[r], backend[r], seen[r])
        BY Zenon, <2>1, <3>2 DEF Search, Searching
      <4>2. Round(b, retryCount[r], backend[r], seen[r])'
        BY Zenon, <2>1, <4>1 DEF Round
      <4> QED
        BY Zenon, <2>1, <3>2, <4>2 DEF Search, Searching, Undecided
    <3> QED
      BY Zenon, <3>1, <3>2
  <2> QED
    BY Zenon, <1>1, <1>4, <2>3 DEF Loop
<1>5. ASSUME NEW r \in Requests, Exhausted(r) PROVE \A s \in Requests : Search(s)'
  <2>1. r \notin overlapped => seen[r] = Backends
    <3> SUFFICES ASSUME r \notin overlapped PROVE Backends \subseteq seen[r]
      BY ZenonT(60)
    <3>1. PICK b \in Backends : Round(b, retryCount[r], backend[r], seen[r])
      BY Zenon, <1>5 DEF Exhausted, Search, Searching
    <3>2. retryCount[r] >= Size
      BY <1>5, SizeAssumption DEF Exhausted, RetriesLeft
    <3> QED
      BY Zenon, <3>1, <3>2, RoundComplete
  <2>2. Search(r)'
    BY Zenon, <1>5, <2>1 DEF Exhausted, Search, Searching
  <2> QED
    BY Zenon, <1>1, <1>5, <2>2 DEF Exhausted
<1>6. ASSUME NEW r \in Requests, NEW a \in Answers, Validate(r, a) \/ Answered(r, a)
      PROVE  \A s \in Requests : Search(s)'
  <2>1. VerdictOf(a) # "exhausted"
    BY Zenon DEF VerdictOf, Answers
  <2>2. Search(r)'
    BY <1>6, <2>1 DEF Validate, Answered, Search, Searching, Round, Undecided
  <2> QED
    BY Zenon, <1>1, <1>6, <2>2 DEF Validate, Answered
<1>7. ASSUME NEW r \in Requests, MarkUnhealthy(r) PROVE \A s \in Requests : Search(s)'
  <2>1. /\ seen'[r] = seen[r] \cup {backend[r]}
        /\ pc[r] = "mark" /\ pc'[r] = "next"
        /\ UNCHANGED <<index, backend, retryCount, verdict, overlapped>>
    BY Zenon, <1>7 DEF MarkUnhealthy
  <2>2. \A b \in Backends : Round(b, retryCount[r], backend[r], seen[r])
                               => Round(b, retryCount[r], backend[r], seen'[r])
    BY Zenon, <2>1 DEF Round
  <2>3. Search(r)'
    BY <2>1, <2>2 DEF Search, Searching, Undecided, Round
  <2> QED
    BY Zenon, <1>1, <1>7, <2>3 DEF MarkUnhealthy
<1>8. ASSUME NEW r \in Requests, NextBackend(r) PROVE \A s \in Requests : Search(s)'
  <2>1. /\ pc[r] = "next" /\ pc'[r] = "loop" /\ index' = Rotated
        /\ backend'[r] = Rotated /\ retryCount'[r] = retryCount[r] + 1
        /\ UNCHANGED <<seen, verdict, overlapped>>
    BY Zenon, <1>8 DEF NextBackend, Counted
  <2>2. r \notin overlapped =>
           \E b \in Backends : Round(b, retryCount[r] + 1, Rotated, seen[r])
    BY <2>1, RoundAdvances DEF Search, Searching
  <2>3. Search(r)'
    BY <2>1, <2>2 DEF Search, Searching, Undecided, Round
  <2> QED
    BY Zenon, <1>1, <1>8, <2>3 DEF NextBackend
<1>9. ASSUME NEW r \in Requests, Deferred(r) PROVE \A s \in Requests : Search(s)'
  <2>1. Search(r)'
    BY Zenon, <1>9 DEF Deferred, Search, Searching
  <2> QED
    BY Zenon, <1>1, <1>9, <2>1 DEF Deferred
<1>10. ASSUME UNCHANGED <<index, pc, backend, retryCount, seen, verdict, overlapped>>
       PROVE  \A s \in Requests : Search(s)'
  BY Zenon, <1>10, OthersSearch
<1> QED
  BY Zenon, <1>2, <1>3, <1>4, <1>5, <1>6, <1>7, <1>8, <1>9, <1>10 DEF Next, Step, Tick, vars

LEMMA SearchVisitsAll == Spec => []ExhaustedAfterAll
<1>1. Init => SearchInv
  <2>1. Init => Overlaps /\ \A r \in Requests : Search(r)
    BY DEF Init, Overlaps, Search, Searching
  <2> QED
    BY <2>1, InitialState DEF SearchInv, PromiseInv
<1>2. SearchInv /\ [Next]_vars => SearchInv'
  BY Zenon, TypeInductive, UndecidedInductive, OverlapsInductive, SearchInductive
  DEF SearchInv, PromiseInv
<1>3. SearchInv => ExhaustedAfterAll
  BY Zenon DEF SearchInv, Search, ExhaustedAfterAll
<1> QED
  BY <1>1, <1>2, <1>3, PTL DEF Spec

-----------------------------------------------------------------------------
(* What validateAndDeduplicateInteropAccessList has after one access more. *)
Keep(s, x) == IF x \in Range(s) THEN s ELSE Append(s, x)

(* k is what it has after each of the first d accesses of l.               *)
Keeps(l, k, d) == k[0] = << >> /\ \A n \in 1..d : k[n] = Keep(k[n - 1], l[n])

(* s is what the first n accesses of l come to: each of them, once, in the *)
(* order in which they first appear.                                       *)
Firsts(l, s, n) ==
    /\ s \in Seq(Range(l))
    /\ \A i \in 1..Len(s) : \E k \in 1..n : l[k] = s[i]
    /\ \A k \in 1..n : \E i \in 1..Len(s) : l[k] = s[i]
    /\ \A i, j \in 1..Len(s) : i < j =>
          \E k \in 1..n : l[k] = s[i] /\ \A m \in 1..k : l[m] # s[j]

LEMMA LeastOf == ASSUME NEW T, T \subseteq Nat, T # {} PROVE \E n \in T : \A m \in T : n <= m
<1>1. PICK n \in T : \A m \in T : ~(<<m, n>> \in OpToRel(<, Nat))
  BY Zenon, WFMin, NatLessThanWellFounded
<1>2. ASSUME NEW m \in T PROVE ~(m < n)
  <2>1. m \in Nat /\ n \in Nat
    BY Zenon
  <2>2. m < n => <<m, n>> \in OpToRel(<, Nat)
    BY Zenon, <2>1 DEF OpToRel
  <2> QED
    BY Zenon, <1>1, <2>2
<1> QED
  BY SMT, <1>2

LEMMA KeepsLonger ==
    ASSUME NEW l, NEW d \in Nat, NEW k, Keeps(l, k, d)
    PROVE  \E g : Keeps(l, g, d + 1)
<1> DEFINE g == [n \in 0..(d + 1) |-> IF n <= d THEN k[n] ELSE Keep(k[d], l[n])]
<1>1. 0 \in 0..(d + 1) /\ 0 <= d /\ d \in 0..(d + 1) /\ d <= d
      /\ d + 1 \in 0..(d + 1) /\ ~(d + 1 <= d)
  BY SMT
<1>2. g[0] = k[0] /\ g[d + 1] = Keep(k[d], l[d + 1]) /\ g[d] = k[d]
  BY Zenon, <1>1
<1>3. ASSUME NEW n \in 1..d PROVE g[n] = k[n] /\ g[n - 1] = k[n - 1]
  <2>1. n \in 0..(d + 1) /\ n <= d /\ n - 1 \in 0..(d + 1) /\ n - 1 <= d
    BY SMT
  <2> QED
    BY Zenon, <2>1
<1> HIDE DEF g
<1>4. ASSUME NEW n \in 1..(d + 1) PROVE n \in 1..d \/ (n = d + 1 /\ n - 1 = d)
  BY SMT
<1>5. ASSUME NEW n \in 1..(d + 1) PROVE g[n] = Keep(g[n - 1], l[n])
  <2>1. CASE n \in 1..d
    BY Zenon, <2>1, <1>3 DEF Keeps
  <2>2. CASE n = d + 1 /\ n - 1 = d
    BY Zenon, <2>2, <1>2
  <2> QED
    BY Zenon, <2>1, <2>2, <1>4
<1> QED
  BY Zenon, <1>2, <1>5 DEF Keeps

LEMMA KeepsExist == ASSUME NEW l, NEW d \in Nat PROVE \E k : Keeps(l, k, d)
<1> DEFINE T == {n \in Nat : ~\E k : Keeps(l, k, n)}
<1> SUFFICES ASSUME T # {} PROVE FALSE
  BY Zenon
<1>1. PICK n \in T : \A m \in T : n <= m
  <2> HIDE DEF T
  <2>1. T \subseteq Nat
    BY Zenon DEF T
  <2> QED
    BY Zenon, <2>1, LeastOf
<1>2. CASE n = 0
  <2> DEFINE e == [i \in {0} |-> << >>]
  <2>1. e[0] = << >>
    BY Zenon
  <2>2. \A i : i \notin 1..0
    BY SMT
  <2>3. Keeps(l, e, 0)
    BY Zenon, <2>1, <2>2 DEF Keeps
  <2> QED
    BY Zenon, <1>2, <2>3
<1>3. CASE n # 0
  <2>1. n - 1 \in Nat /\ ~(n <= n - 1) /\ (n - 1) + 1 = n
    BY SMT, <1>3
  <2>2. PICK k : Keeps(l, k, n - 1)
    BY Zenon, <1>1, <2>1
  <2>3. \E g : Keeps(l, g, (n - 1) + 1)
    BY Zenon, <2>1, <2>2, KeepsLonger
  <2> QED
    BY Zenon, <2>1, <2>3
<1> QED
  BY Zenon, <1>2, <1>3

LEMMA DeduplicateIs ==
    ASSUME NEW l, Len(l) \in Nat
    PROVE  \E k : Keeps(l, k, Len(l)) /\ Deduplicate(l) = k[Len(l)]
<1> DEFINE F(k) == k = [n \in 0..Len(l) |->
                         IF n = 0 THEN << >>
                         ELSE IF l[n] \in Range(k[n - 1]) THEN k[n - 1]
                              ELSE Append(k[n - 1], l[n])]
<1> DEFINE c == CHOOSE k : F(k)
<1>1. Deduplicate(l) = c[Len(l)]
  BY Zenon DEF Deduplicate
<1>2. PICK k : Keeps(l, k, Len(l))
  BY Zenon, KeepsExist
<1> DEFINE f == [n \in 0..Len(l) |-> k[n]]
<1>3. ASSUME NEW n \in 0..Len(l), n # 0
      PROVE  n \in 1..Len(l) /\ n - 1 \in 0..Len(l)
  BY SMT, <1>3
<1>4. ASSUME NEW n \in 0..Len(l)
      PROVE  f[n] = IF n = 0 THEN << >>
                    ELSE IF l[n] \in Range(f[n - 1]) THEN f[n - 1]
                         ELSE Append(f[n - 1], l[n])
  BY Zenon, <1>2, <1>3 DEF Keeps, Keep
<1>5. F(f)
  BY Zenon, <1>4
<1>6. F(c)
  <2> HIDE DEF F, f
  <2> QED
    BY Zenon, <1>5
<1>7. 0 \in 0..Len(l)
  BY SMT
<1>8. ASSUME NEW n \in 1..Len(l) PROVE n \in 0..Len(l) /\ n # 0
  BY SMT
<1>9. Keeps(l, c, Len(l))
  <2> HIDE DEF c
  <2>1. c[0] = << >>
    BY Zenon, <1>6, <1>7
  <2>2. ASSUME NEW n \in 1..Len(l) PROVE c[n] = Keep(c[n - 1], l[n])
    BY Zenon, <1>6, <1>8 DEF Keep
  <2> QED
    BY Zenon, <2>1, <2>2 DEF Keeps
<1> QED
  BY Zenon, <1>1, <1>9

LEMMA FirstsStep ==
    ASSUME NEW X, NEW l \in Seq(X), NEW n \in 1..Len(l), NEW s, Firsts(l, s, n - 1)
    PROVE  Firsts(l, Keep(s, l[n]), n)
<1>1. /\ DOMAIN l = 1..Len(l) /\ s \in Seq(Range(l)) /\ DOMAIN s = 1..Len(s)
      /\ Len(s) \in Nat /\ n \in 1..n
  BY SMT DEF Firsts
<1>2. l[n] \in Range(l)
  BY Zenon, <1>1 DEF Range
<1>3. \A k \in 1..(n - 1) : k \in 1..n
  BY SMT
<1>4. \A k \in 1..n : k \in 1..(n - 1) \/ k = n
  BY SMT
<1>5. CASE l[n] \in Range(s)
  <2>1. Keep(s, l[n]) = s
    BY Zenon, <1>5 DEF Keep
  <2>2. \E i \in 1..Len(s) : l[n] = s[i]
    BY Zenon, <1>1, <1>5 DEF Range
  <2>3. \A i \in 1..Len(s) : \E k \in 1..n : l[k] = s[i]
    BY Zenon, <1>3 DEF Firsts
  <2>4. ASSUME NEW k \in 1..n PROVE \E i \in 1..Len(s) : l[k] = s[i]
    <3>1. CASE k \in 1..(n - 1)
      BY Zenon, <3>1 DEF Firsts
    <3>2. CASE k = n
      BY Zenon, <3>2, <2>2
    <3> QED
      BY Zenon, <3>1, <3>2, <1>4
  <2>5. ASSUME NEW i \in 1..Len(s), NEW j \in 1..Len(s), i < j
        PROVE  \E k \in 1..n : l[k] = s[i] /\ \A m \in 1..k : l[m] # s[j]
    <3>1. PICK k \in 1..(n - 1) : l[k] = s[i] /\ \A m \in 1..k : l[m] # s[j]
      BY Zenon, <2>5 DEF Firsts
    <3> QED
      BY Zenon, <3>1, <1>3
  <2>6. Firsts(l, s, n)
    BY Zenon, <1>1, <2>3, <2>4, <2>5 DEF Firsts
  <2> QED
    BY Zenon, <2>1, <2>6
<1>6. CASE l[n] \notin Range(s)
  <2> DEFINE t == Append(s, l[n])
  <2>1. Keep(s, l[n]) = t
    BY Zenon, <1>6 DEF Keep
  <2>2. /\ t \in Seq(Range(l)) /\ Len(t) = Len(s) + 1 /\ t[Len(s) + 1] = l[n]
        /\ \A i \in 1..Len(s) : t[i] = s[i]
    BY SMT, <1>1, <1>2
  <2> HIDE DEF t
  <2>3. /\ \A i \in 1..Len(t) : i \in 1..Len(s) \/ i = Len(s) + 1
        /\ \A i \in 1..Len(s) : i \in 1..Len(t)
        /\ Len(s) + 1 \in 1..Len(t)
    BY SMT, <1>1, <2>2
  <2>4. \A i, j \in 1..Len(t) : i < j => i \in 1..Len(s)
    BY SMT, <1>1, <2>2
  <2>5. ASSUME NEW i \in 1..Len(t) PROVE \E k \in 1..n : l[k] = t[i]
    <3>1. CASE i \in 1..Len(s)
      <4>1. PICK k \in 1..(n - 1) : l[k] = s[i]
        BY Zenon, <3>1 DEF Firsts
      <4>2. k \in 1..n /\ t[i] = s[i]
        BY Zenon, <3>1, <1>3, <2>2
      <4> QED
        BY Zenon, <4>1, <4>2
    <3>2. CASE i = Len(s) + 1
      BY Zenon, <3>2, <1>1, <2>2
    <3> QED
      BY Zenon, <3>1, <3>2, <2>3
  <2>6. ASSUME NEW k \in 1..n PROVE \E i \in 1..Len(t) : l[k] = t[i]
    <3>1. CASE k \in 1..(n - 1)
      <4>1. PICK i \in 1..Len(s) : l[k] = s[i]
        BY Zenon, <3>1 DEF Firsts
      <4>2. i \in 1..Len(t) /\ t[i] = s[i]
        BY Zenon, <2>2, <2>3
      <4> QED
        BY Zenon, <4>1, <4>2
    <3>2. CASE k = n
      BY Zenon, <3>2, <2>2, <2>3
    <3> QED
      BY Zenon, <3>1, <3>2, <1>4
  <2>7. ASSUME NEW i \in 1..Len(t), NEW j \in 1..Len(t), i < j
        PROVE  \E k \in 1..n : l[k] = t[i] /\ \A m \in 1..k : l[m] # t[j]
    <3>1. i \in 1..Len(s)
      BY Zenon, <2>4, <2>7
    <3>2. CASE j \in 1..Len(s)
      <4>1. PICK k \in 1..(n - 1) : l[k] = s[i] /\ \A m \in 1..k : l[m] # s[j]
        BY Zenon, <3>1, <3>2, <2>7 DEF Firsts
      <4>2. k \in 1..n /\ t[i] = s[i] /\ t[j] = s[j]
        BY Zenon, <3>1, <3>2, <1>3, <2>2
      <4> QED
        BY Zenon, <4>1, <4>2
    <3>3. CASE j = Len(s) + 1
      <4>1. PICK k \in 1..(n - 1) : l[k] = s[i]
        BY Zenon, <3>1 DEF Firsts
      <4>2. \A m \in 1..k : m \in 1..(n - 1)
        BY SMT
      <4>3. ASSUME NEW m \in 1..k PROVE l[m] # l[n]
        <5>1. \E h \in 1..Len(s) : l[m] = s[h]
          BY Zenon, <4>2 DEF Firsts
        <5> QED
          BY Zenon, <5>1, <1>1, <1>6 DEF Range
      <4> QED
        BY Zenon, <3>1, <3>3, <4>1, <4>3, <2>2, <1>3
    <3> QED
      BY Zenon, <3>2, <3>3, <2>3
  <2>8. Firsts(l, t, n)
    BY Zenon, <2>2, <2>5, <2>6, <2>7 DEF Firsts
  <2> QED
    BY Zenon, <2>1, <2>8
<1> QED
  BY Zenon, <1>5, <1>6

(* Deduplication keeps each access once, at its first place, whatever the  *)
(* length of the list.                                                     *)
LEMMA DeduplicateKeepsFirsts ==
    ASSUME NEW X, NEW l \in Seq(X)
    PROVE  Firsts(l, Deduplicate(l), Len(l))
<1>1. Len(l) \in Nat
  BY SMT
<1>2. PICK k : Keeps(l, k, Len(l)) /\ Deduplicate(l) = k[Len(l)]
  BY Zenon, <1>1, DeduplicateIs
<1> DEFINE T == {n \in 0..Len(l) : ~Firsts(l, k[n], n)}
<1>3. T = {}
  <2> SUFFICES ASSUME T # {} PROVE FALSE
    BY Zenon
  <2>1. PICK n \in T : \A m \in T : n <= m
    <3>1. T \subseteq Nat
      BY SMT
    <3> HIDE DEF T
    <3> QED
      BY Zenon, <3>1, LeastOf
  <2>2. CASE n = 0
    <3>1. << >> \in Seq(Range(l)) /\ Len(<< >>) = 0 /\ \A i : i \notin 1..0
      BY SMT
    <3>2. Firsts(l, << >>, 0)
      BY Zenon, <3>1 DEF Firsts
    <3> QED
      BY Zenon, <1>2, <2>2, <3>2 DEF Keeps
  <2>3. CASE n # 0
    <3>1. n \in 1..Len(l) /\ n - 1 \in 0..Len(l) /\ ~(n <= n - 1)
      BY SMT, <1>1, <2>3
    <3>2. Firsts(l, k[n - 1], n - 1)
      BY Zenon, <2>1, <3>1
    <3>3. Firsts(l, Keep(k[n - 1], l[n]), n)
      BY Zenon, <3>1, <3>2, FirstsStep
    <3> QED
      BY Zenon, <1>2, <3>1, <3>3 DEF Keeps
  <2> QED
    BY Zenon, <2>2, <2>3
<1>4. Len(l) \in 0..Len(l)
  BY SMT, <1>1
<1> QED
  BY Zenon, <1>2, <1>3, <1>4

(* What AllAccessesChecked says of l and what is sent for it.              *)
Checks(l, s) ==
    /\ Range(s) = Range(l) /\ IsInjective(s)
    /\ \A i, j \in 1..Len(s) : i < j =>
          \E k \in 1..Len(l) : l[k] = s[i] /\ \A m \in 1..k : l[m] # s[j]

LEMMA FirstsCheckAll ==
    ASSUME NEW X, NEW l \in Seq(X), NEW s, Firsts(l, s, Len(l))
    PROVE  Checks(l, s)
<1>1. DOMAIN l = 1..Len(l) /\ DOMAIN s = 1..Len(s) /\ Len(s) \in Nat
  BY SMT DEF Firsts
<1>2. Range(s) = Range(l)
  <2>1. ASSUME NEW x \in Range(s) PROVE x \in Range(l)
    <3>1. PICK i \in 1..Len(s) : x = s[i]
      BY Zenon, <1>1 DEF Range
    <3>2. PICK k \in 1..Len(l) : l[k] = s[i]
      BY Zenon DEF Firsts
    <3> QED
      BY Zenon, <1>1, <3>1, <3>2 DEF Range
  <2>2. ASSUME NEW x \in Range(l) PROVE x \in Range(s)
    <3>1. PICK k \in 1..Len(l) : x = l[k]
      BY Zenon, <1>1 DEF Range
    <3>2. PICK i \in 1..Len(s) : l[k] = s[i]
      BY Zenon DEF Firsts
    <3> QED
      BY Zenon, <1>1, <3>1, <3>2 DEF Range
  <2> QED
    BY Zenon, <2>1, <2>2
<1>3. \A k \in 1..Len(l) : k \in 1..k
  BY SMT
<1>4. ASSUME NEW i \in 1..Len(s), NEW j \in 1..Len(s), i < j PROVE s[i] # s[j]
  <2>1. PICK k \in 1..Len(l) : l[k] = s[i] /\ \A m \in 1..k : l[m] # s[j]
    BY Zenon, <1>4 DEF Firsts
  <2> QED
    BY Zenon, <2>1, <1>3
<1>5. \A i, j \in 1..Len(s) : i < j \/ j < i \/ i = j
  BY SMT, <1>1
<1>6. IsInjective(s)
  BY Zenon, <1>1, <1>4, <1>5 DEF IsInjective
<1> QED
  BY Zenon, <1>2, <1>6 DEF Firsts, Checks

-----------------------------------------------------------------------------
(* The results in the channel c come from the supervisors f, one each, and *)
(* the n errors the caller took from those in R.                           *)
Tracks(f, R, c, n, res) ==
    /\ f \in [1..Len(c) -> Supervisors] /\ R \subseteq Supervisors
    /\ \A i \in 1..Len(c) : res[f[i]] = c[i] /\ f[i] \notin R
    /\ \A i, j \in 1..Len(c) : i # j => f[i] # f[j]
    /\ Cardinality(R) = n
    /\ \A s \in R : res[s] \in Errors

Taken(c, n, res) == \E f, R : Tracks(f, R, c, n, res)

(* No supervisor has been called yet.                                      *)
Unasked == [s \in Supervisors |-> "none"]

(* The inductive invariant of one call: what is sent is the deduplicated   *)
(* list, the call is over when it is decided, and every result is tracked. *)
CallInv ==
    /\ list \in Seq(Accesses \cup {Malformed})
    /\ sent \in {<< >>, Deduplicate(list)}
    /\ caller \in {"start", "receive", "done"}
    /\ caller # "done" <=> decision = "pending"
    /\ result \in [Supervisors -> Results \cup {"none", "running"}]
    /\ caller = "start" => result = Unasked /\ chan = << >> /\ received = 0
    /\ chan \in Seq(Results) /\ received \in Nat
    /\ Taken(chan, received, result)

LEMMA NothingTaken == ASSUME NEW res PROVE Taken(<< >>, 0, res)
<1> DEFINE f == [i \in 1..0 |-> CHOOSE s \in Supervisors : TRUE]
<1>1. Len(<< >>) = 0 /\ \A i : i \notin 1..0
  BY SMT
<1>2. f \in [1..0 -> Supervisors]
  BY Zenon, <1>1
<1>3. Cardinality({}) = 0
  BY Zenon, FS_EmptySet
<1>4. Tracks(f, {}, << >>, 0, res)
  <2> HIDE DEF f
  <2> QED
    BY Zenon, <1>1, <1>2, <1>3 DEF Tracks
<1> QED
  BY Zenon, <1>4 DEF Taken

(* A supervisor that was still running answers.                            *)
LEMMA AnswerTaken ==
    ASSUME NEW c \in Seq(Results), NEW n, NEW res, Taken(c, n, res),
           NEW s \in Supervisors, NEW a \in Results,
           res \in [Supervisors -> Results \cup {"none", "running"}], res[s] = "running"
    PROVE  Taken(Append(c, a), n, [res EXCEPT ![s] = a])
<1>1. PICK f, R : Tracks(f, R, c, n, res)
  BY Zenon DEF Taken
<1> DEFINE d == Append(c, a)
           g == [i \in 1..Len(d) |-> IF i \in 1..Len(c) THEN f[i] ELSE s]
           new == [res EXCEPT ![s] = a]
<1>2. /\ Len(d) = Len(c) + 1 /\ Len(c) \in Nat /\ d[Len(c) + 1] = a
      /\ \A i \in 1..Len(c) : d[i] = c[i] /\ c[i] \in Results
  BY SMT
<1>3. /\ \A i \in 1..Len(d) : i \in 1..Len(c) \/ (i = Len(c) + 1 /\ i \notin 1..Len(c))
      /\ \A i \in 1..Len(c) : i \in 1..Len(d)
  BY SMT, <1>2
<1>4. "running" \notin Results /\ Errors \subseteq Results
  BY Zenon DEF Results, Errors
<1>5. new[s] = a /\ \A t \in Supervisors : t # s => new[t] = res[t]
  BY Zenon
<1>6. \A i \in 1..Len(d) : g[i] = IF i \in 1..Len(c) THEN f[i] ELSE s
  BY Zenon
<1>7. g \in [1..Len(d) -> Supervisors]
  <2>1. \A i \in 1..Len(c) : f[i] \in Supervisors
    BY Zenon, <1>1 DEF Tracks
  <2> QED
    BY Zenon, <2>1
<1> HIDE DEF d, g, new
<1>8. s \notin R /\ \A i \in 1..Len(c) : f[i] # s /\ f[i] \in Supervisors
  <2>1. s \notin R
    BY Zenon, <1>1, <1>4 DEF Tracks
  <2>2. ASSUME NEW i \in 1..Len(c) PROVE f[i] # s /\ f[i] \in Supervisors
    <3>1. res[f[i]] = c[i] /\ f[i] \in Supervisors /\ c[i] \in Results
      BY Zenon, <1>1, <1>2 DEF Tracks
    <3> QED
      BY Zenon, <3>1, <1>4
  <2> QED
    BY Zenon, <2>1, <2>2
<1>9. ASSUME NEW i \in 1..Len(d) PROVE new[g[i]] = d[i] /\ g[i] \notin R
  <2>1. CASE i \in 1..Len(c)
    <3>1. g[i] = f[i] /\ d[i] = c[i]
      BY Zenon, <2>1, <1>2, <1>6
    <3>2. new[f[i]] = res[f[i]] /\ res[f[i]] = c[i] /\ f[i] \notin R
      BY Zenon, <2>1, <1>1, <1>5, <1>8 DEF Tracks
    <3> QED
      BY Zenon, <3>1, <3>2
  <2>2. CASE i = Len(c) + 1 /\ i \notin 1..Len(c)
    BY Zenon, <2>2, <1>2, <1>5, <1>6, <1>8
  <2> QED
    BY Zenon, <2>1, <2>2, <1>3
<1>10. ASSUME NEW i \in 1..Len(d), NEW j \in 1..Len(d), i # j PROVE g[i] # g[j]
  <2>1. g[i] = (IF i \in 1..Len(c) THEN f[i] ELSE s)
        /\ g[j] = (IF j \in 1..Len(c) THEN f[j] ELSE s)
    BY Zenon, <1>6
  <2>2. CASE i \in 1..Len(c) /\ j \in 1..Len(c)
    BY Zenon, <2>1, <2>2, <1>1, <1>10 DEF Tracks
  <2>3. CASE i \in 1..Len(c) /\ j \notin 1..Len(c)
    BY Zenon, <2>1, <2>3, <1>8
  <2>4. CASE i \notin 1..Len(c) /\ j \in 1..Len(c)
    BY Zenon, <2>1, <2>4, <1>8
  <2> QED
    BY Zenon, <2>2, <2>3, <2>4, <1>3, <1>10
<1>11. \A t \in R : new[t] \in Errors
  BY Zenon, <1>1, <1>5, <1>8 DEF Tracks
<1>12. Tracks(g, R, d, n, new)
  BY Zenon, <1>1, <1>7, <1>9, <1>10, <1>11 DEF Tracks
<1> QED
  BY Zenon, <1>12 DEF Taken, d, new

(* Somebody takes the oldest result out of the channel; the caller counts  *)
(* it when it is an error.                                                 *)
LEMMA ResultTaken ==
    ASSUME NEW c \in Seq(Results), c # << >>, NEW n \in Nat, NEW res, Taken(c, n, res)
    PROVE  /\ Taken(Tail(c), n, res)
           /\ Head(c) \in Errors => Taken(Tail(c), n + 1, res)
           /\ \E s \in Supervisors : res[s] = Head(c)
<1>1. PICK f, R : Tracks(f, R, c, n, res)
  BY Zenon DEF Taken
<1> DEFINE d == Tail(c)
           g == [i \in 1..Len(d) |-> f[i + 1]]
           S == R \cup {f[1]}
<1>2. /\ 1 \in 1..Len(c) /\ Head(c) = c[1]
      /\ \A i \in 1..Len(d) : i + 1 \in 1..Len(c) /\ i + 1 # 1 /\ d[i] = c[i + 1]
      /\ \A i, j \in 1..Len(d) : i # j => i + 1 # j + 1
  BY SMT
<1>3. \A i \in 1..Len(d) : g[i] = f[i + 1]
  BY Zenon
<1>4. g \in [1..Len(d) -> Supervisors]
  <2>1. \A i \in 1..Len(d) : f[i + 1] \in Supervisors
    BY Zenon, <1>1, <1>2 DEF Tracks
  <2> QED
    BY Zenon, <2>1
<1> HIDE DEF d, g
<1>5. ASSUME NEW i \in 1..Len(d)
      PROVE  res[g[i]] = d[i] /\ g[i] \notin R /\ g[i] # f[1]
  <2>1. i + 1 \in 1..Len(c) /\ i + 1 # 1 /\ d[i] = c[i + 1] /\ g[i] = f[i + 1]
    BY Zenon, <1>2, <1>3
  <2>2. res[f[i + 1]] = c[i + 1] /\ f[i + 1] \notin R /\ f[i + 1] # f[1]
    BY Zenon, <2>1, <1>1, <1>2 DEF Tracks
  <2> QED
    BY Zenon, <2>1, <2>2
<1>6. ASSUME NEW i \in 1..Len(d), NEW j \in 1..Len(d), i # j PROVE g[i] # g[j]
  <2>1. /\ i + 1 \in 1..Len(c) /\ j + 1 \in 1..Len(c) /\ i + 1 # j + 1
        /\ g[i] = f[i + 1] /\ g[j] = f[j + 1]
    BY Zenon, <1>2, <1>3, <1>6
  <2>2. f[i + 1] # f[j + 1]
    BY Zenon, <2>1, <1>1 DEF Tracks
  <2> QED
    BY Zenon, <2>1, <2>2
<1>7. Tracks(g, R, d, n, res)
  BY Zenon, <1>1, <1>4, <1>5, <1>6 DEF Tracks
<1>8. f[1] \in Supervisors /\ f[1] \notin R /\ res[f[1]] = Head(c)
  BY Zenon, <1>1, <1>2 DEF Tracks
<1>9. ASSUME Head(c) \in Errors PROVE Tracks(g, S, d, n + 1, res)
  <2>1. IsFiniteSet(R)
    BY Zenon, <1>1, FS_Subset, SupervisorsAssumption DEF Tracks
  <2>2. Cardinality(S) = n + 1
    <3>1. Cardinality(R) = n
      BY Zenon, <1>1 DEF Tracks
    <3> QED
      BY Zenon, <2>1, <3>1, <1>8, FS_AddElement
  <2>3. \A i \in 1..Len(d) : res[g[i]] = d[i] /\ g[i] \notin S
    BY Zenon, <1>5
  <2>4. S \subseteq Supervisors /\ \A s \in S : res[s] \in Errors
    BY Zenon, <1>1, <1>8, <1>9 DEF Tracks
  <2> HIDE DEF S
  <2> QED
    BY Zenon, <1>4, <1>6, <2>2, <2>3, <2>4 DEF Tracks
<1> QED
  BY Zenon, <1>7, <1>8, <1>9 DEF Taken, d

(* When the caller has counted an error of each, nobody approved.          *)
LEMMA AllErrors ==
    ASSUME NEW c, NEW res, Taken(c, Cardinality(Supervisors), res)
    PROVE  \A s \in Supervisors : res[s] \in Errors
<1>1. PICK f, R : Tracks(f, R, c, Cardinality(Supervisors), res)
  BY Zenon DEF Taken
<1>2. R = Supervisors
  BY Zenon, <1>1, FS_Subset, SupervisorsAssumption DEF Tracks
<1> QED
  BY Zenon, <1>1, <1>2 DEF Tracks

LEMMA CallInit == MulticallInit => CallInv
<1> SUFFICES ASSUME MulticallInit PROVE CallInv
  OBVIOUS
<1>1. list \in Seq(Accesses \cup {Malformed})
  <2>1. PICK n \in 1..MaxList : list \in [1..n -> Accesses \cup {Malformed}]
    BY Zenon DEF MulticallInit, Lists
  <2>2. n \in Nat
    BY SMT, ListAssumption
  <2> QED
    BY SMT, <2>1, <2>2
<1>2. << >> \in Seq(Results) /\ 0 \in Nat
  BY SMT
<1>3. Unasked \in [Supervisors -> Results \cup {"none", "running"}]
  BY Zenon DEF Unasked
<1> QED
  BY Zenon, <1>1, <1>2, <1>3, NothingTaken DEF MulticallInit, CallInv, Unasked

LEMMA CallStep == CallInv /\ [MulticallNext]_multicall => CallInv'
<1> SUFFICES ASSUME CallInv, [MulticallNext]_multicall PROVE CallInv'
  OBVIOUS
<1>1. CASE Begin
  <2>1. /\ caller = "start" /\ chan = << >> /\ received = 0 /\ decision = "pending"
        /\ result = Unasked /\ UNCHANGED <<list, chan, received>>
        /\ chan' \in Seq(Results) /\ received' \in Nat
    BY Zenon, <1>1 DEF Begin, CallInv
  <2>2. Taken(chan', received', result')
    BY Zenon, <2>1, NothingTaken
  <2>3. CASE PreflightChecks(list)
    <3>1. /\ sent' = Deduplicate(list) /\ caller' = "receive" /\ UNCHANGED decision
          /\ result' = [s \in Supervisors |-> "running"]
      BY Zenon, <1>1, <2>3 DEF Begin
    <3>2. result' \in [Supervisors -> Results \cup {"none", "running"}]
      BY Zenon, <3>1
    <3> QED
      BY Zenon, <2>1, <2>2, <3>1, <3>2 DEF CallInv
  <2>4. CASE ~PreflightChecks(list)
    <3>1. caller' = "done" /\ decision' = "reject" /\ UNCHANGED <<sent, result>>
      BY Zenon, <1>1, <2>4 DEF Begin
    <3> QED
      BY Zenon, <2>1, <2>2, <3>1 DEF CallInv
  <2> QED
    BY Zenon, <2>3, <2>4
<1>2. ASSUME NEW s \in Supervisors, NEW a \in Results, Finish(s, a) PROVE CallInv'
  <2>1. /\ result[s] = "running" /\ result' = [result EXCEPT ![s] = a]
        /\ chan' = Append(chan, a)
        /\ UNCHANGED <<list, sent, caller, received, decision>>
    BY Zenon, <1>2 DEF Finish
  <2>2. Taken(chan', received', result')
    BY Zenon, <2>1, AnswerTaken DEF CallInv
  <2>3. chan' \in Seq(Results)
    BY SMT, <2>1 DEF CallInv
  <2>4. result' \in [Supervisors -> Results \cup {"none", "running"}]
    BY Zenon, <2>1 DEF CallInv
  <2>5. caller # "start"
    BY Zenon, <2>1 DEF CallInv, Unasked
  <2> QED
    BY Zenon, <2>1, <2>2, <2>3, <2>4, <2>5 DEF CallInv
<1>3. CASE AllSent
  BY Zenon, <1>3 DEF AllSent, CallInv, Unasked
<1>4. CASE Drain
  <2>1. chan # << >> /\ chan' = Tail(chan) /\ chan \in Seq(Results)
        /\ UNCHANGED <<list, sent, caller, result, received, decision>>
    BY Zenon, <1>4 DEF Drain, CallInv
  <2>2. Taken(chan', received', result')
    BY Zenon, <2>1, ResultTaken DEF CallInv
  <2>3. chan' \in Seq(Results)
    BY SMT, <2>1
  <2> QED
    BY Zenon, <2>1, <2>2, <2>3 DEF CallInv, Unasked
<1>5. CASE Receive
  <2>1. /\ chan # << >> /\ chan' = Tail(chan) /\ chan \in Seq(Results)
        /\ caller = "receive" /\ UNCHANGED <<list, sent, result>>
    BY Zenon, <1>5 DEF Receive, CallInv
  <2>2. chan' \in Seq(Results) /\ Head(chan) \in Results /\ received + 1 \in Nat
    BY SMT, <2>1 DEF CallInv
  <2>3. CASE Head(chan) = "ok"
    <3>1. caller' = "done" /\ decision' = "accept" /\ UNCHANGED received
      BY Zenon, <1>5, <2>3 DEF Receive
    <3>2. Taken(chan', received', result')
      BY Zenon, <2>1, <3>1, ResultTaken DEF CallInv
    <3> QED
      BY Zenon, <2>1, <2>2, <3>1, <3>2 DEF CallInv
  <2>4. CASE Head(chan) # "ok"
    <3>1. received' = received + 1
      BY Zenon, <1>5, <2>4 DEF Receive
    <3>2. \/ caller' = "done" /\ decision' = "reject"
          \/ UNCHANGED <<caller, decision>>
      BY Zenon, <1>5, <2>4 DEF Receive
    <3>3. Head(chan) \in Errors
      BY Zenon, <2>2, <2>4 DEF Results
    <3>4. Taken(chan', received', result')
      BY Zenon, <2>1, <3>1, <3>3, ResultTaken DEF CallInv
    <3> QED
      BY Zenon, <2>1, <2>2, <3>1, <3>2, <3>4 DEF CallInv
  <2> QED
    BY Zenon, <2>3, <2>4
<1>6. CASE UNCHANGED multicall
  BY Zenon, <1>6 DEF multicall, CallInv, Unasked
<1> QED
  BY Zenon, <1>1, <1>2, <1>3, <1>4, <1>5, <1>6 DEF MulticallNext

LEMMA CallInvariant == MulticallSpec => []CallInv
  BY CallInit, CallStep, PTL DEF MulticallSpec

LEMMA MulticallChecksAll == MulticallSpec => []AllAccessesChecked
<1>1. CallInv => AllAccessesChecked
  <2> SUFFICES ASSUME CallInv, sent # << >> PROVE AllAccessesChecked
    BY Zenon DEF AllAccessesChecked
  <2>1. list \in Seq(Accesses \cup {Malformed}) /\ sent = Deduplicate(list)
    BY Zenon DEF CallInv
  <2>2. Firsts(list, sent, Len(list))
    BY Zenon, <2>1, DeduplicateKeepsFirsts
  <2>3. Checks(list, sent)
    BY Zenon, <2>1, <2>2, FirstsCheckAll
  <2> QED
    BY Zenon, <2>3 DEF AllAccessesChecked, Checks
<1> QED
  BY <1>1, CallInvariant, PTL

-----------------------------------------------------------------------------
(* What InteropValidation sees of multicall.                               *)
HeardOf(res) == {res[s] : s \in Supervisors} \cap Results
Heard   == [r \in {"tx"} |-> HeardOf(result)]
Decided == [r \in {"tx"} |-> decision]

(* Every step of multicall is one of InteropValidation or invisible.       *)
LEMMA MulticallPromiseStep ==
    CallInv /\ [MulticallNext]_multicall => [MulticallPromise!Next]_<<Heard, Decided>>
<1> SUFFICES ASSUME CallInv, [MulticallNext]_multicall
             PROVE  [MulticallPromise!Next]_<<Heard, Decided>>
  OBVIOUS
<1>1. CASE Begin
  <2>1. caller = "start" /\ result = Unasked /\ decision = "pending"
    BY Zenon, <1>1 DEF Begin, CallInv
  <2>2. HeardOf(result) = {}
    BY Zenon, <2>1 DEF HeardOf, Unasked, Results, Errors
  <2>3. CASE PreflightChecks(list)
    <3>1. UNCHANGED decision /\ result' = [s \in Supervisors |-> "running"]
      BY Zenon, <1>1, <2>3 DEF Begin
    <3>2. HeardOf(result') = {}
      BY Zenon, <3>1 DEF HeardOf, Results, Errors
    <3>3. Heard' = Heard /\ Decided' = Decided
      BY Zenon, <2>2, <3>1, <3>2 DEF Heard, Decided
    <3> QED
      BY Zenon, <3>3
  <2>4. CASE ~PreflightChecks(list)
    <3>1. decision' = "reject" /\ UNCHANGED result
      BY Zenon, <1>1, <2>4 DEF Begin
    <3>2. MulticallPromise!Reject("tx")
      BY Zenon, <2>1, <2>2, <3>1 DEF MulticallPromise!Reject, HeardOf
    <3> QED
      BY Zenon, <3>2 DEF MulticallPromise!Next, Heard, Decided
  <2> QED
    BY Zenon, <2>3, <2>4
<1>2. ASSUME NEW s \in Supervisors, NEW a \in Results, Finish(s, a)
      PROVE  [MulticallPromise!Next]_<<Heard, Decided>>
  <2>1. /\ result[s] = "running" /\ result' = [result EXCEPT ![s] = a]
        /\ UNCHANGED decision
        /\ result \in [Supervisors -> Results \cup {"none", "running"}]
    BY Zenon, <1>2 DEF Finish, CallInv
  <2>2. result'[s] = a /\ \A t \in Supervisors : t # s => result'[t] = result[t]
    BY Zenon, <2>1
  <2>3. "running" \notin Results
    BY Zenon DEF Results, Errors
  <2>4. HeardOf(result') = HeardOf(result) \cup {a}
    BY Zenon, <2>1, <2>2, <2>3 DEF HeardOf
  <2>5. MulticallPromise!Hear("tx", a)
    BY Zenon, <2>1, <2>4 DEF MulticallPromise!Hear, HeardOf
  <2>6. a \in MulticallPromise!Answers
    BY Zenon DEF MulticallPromise!Answers, Results, Errors
  <2> QED
    BY Zenon, <2>5, <2>6 DEF MulticallPromise!Next
<1>3. CASE Receive
  <2>1. /\ chan # << >> /\ chan \in Seq(Results) /\ received \in Nat
        /\ caller = "receive" /\ decision = "pending" /\ UNCHANGED result
        /\ Taken(chan, received, result)
    BY Zenon, <1>3 DEF Receive, CallInv
  <2>2. CASE Head(chan) = "ok"
    <3>1. decision' = "accept"
      BY Zenon, <1>3, <2>2 DEF Receive
    <3>2. "ok" \in HeardOf(result)
      BY Zenon, <2>1, <2>2, ResultTaken DEF HeardOf, Results
    <3>3. MulticallPromise!Accept("tx")
      BY Zenon, <2>1, <3>1, <3>2 DEF MulticallPromise!Accept, HeardOf
    <3> QED
      BY Zenon, <3>3 DEF MulticallPromise!Next
  <2>3. CASE Head(chan) # "ok" /\ AllReceived(received')
    <3>1. decision' = "reject" /\ received' = received + 1
      BY Zenon, <1>3, <2>3 DEF Receive
    <3>2. Head(chan) \in Errors
      <4>1. Head(chan) \in Results
        BY SMT, <2>1
      <4> QED
        BY Zenon, <4>1, <2>3 DEF Results
    <3>3. Taken(Tail(chan), Cardinality(Supervisors), result)
      BY Zenon, <2>1, <2>3, <3>1, <3>2, ResultTaken DEF AllReceived
    <3>4. "ok" \notin HeardOf(result)
      BY Zenon, <3>3, AllErrors DEF HeardOf, Errors
    <3>5. MulticallPromise!Reject("tx")
      BY Zenon, <2>1, <3>1, <3>4 DEF MulticallPromise!Reject, HeardOf
    <3> QED
      BY Zenon, <3>5 DEF MulticallPromise!Next
  <2>4. CASE Head(chan) # "ok" /\ ~AllReceived(received')
    <3>1. UNCHANGED decision
      BY Zenon, <1>3, <2>4 DEF Receive
    <3> QED
      BY Zenon, <2>1, <3>1 DEF Heard, Decided
  <2> QED
    BY Zenon, <2>2, <2>3, <2>4
<1>4. ASSUME UNCHANGED <<result, decision>>
      PROVE  [MulticallPromise!Next]_<<Heard, Decided>>
  BY Zenon, <1>4 DEF Heard, Decided
<1> QED
  BY Zenon, <1>1, <1>2, <1>3, <1>4 DEF MulticallNext, AllSent, Drain, multicall

LEMMA MulticallImplements == MulticallSpec => MulticallKeepsPromise
<1>1. MulticallInit => MulticallPromise!Init
  <2> SUFFICES ASSUME MulticallInit PROVE MulticallPromise!Init
    OBVIOUS
  <2>1. HeardOf(result) = {} /\ decision = "pending"
    BY Zenon DEF MulticallInit, HeardOf, Results, Errors
  <2> QED
    BY Zenon, <2>1 DEF MulticallPromise!Init, HeardOf
<1> QED
  BY <1>1, CallInvariant, MulticallPromiseStep, PTL
  DEF MulticallSpec, MulticallKeepsPromise, MulticallPromise!Spec, Heard, Decided, HeardOf

-----------------------------------------------------------------------------
LEMMA HealthAwarePart == StrategySpec => Spec
<1>1. StrategyInit => Init
  BY Zenon DEF StrategyInit
<1>2. [StrategyNext]_all => [Next]_vars
  BY Zenon DEF StrategyNext, ValidateMulticall, ValidateHealthAware, all
<1> QED
  BY <1>1, <1>2, PTL DEF StrategySpec, Spec

LEMMA MulticallPart == StrategySpec => MulticallSpec
<1>1. StrategyInit => MulticallInit
  BY Zenon DEF StrategyInit
<1>2. [StrategyNext]_all => [MulticallNext]_multicall
  BY Zenon DEF StrategyNext, ValidateMulticall, ValidateHealthAware, all
<1> QED
  BY <1>1, <1>2, PTL DEF StrategySpec, MulticallSpec

(* The health-aware strategy implements InteropValidation: however many    *)
(* requests share the index and the health of the supervisors, each is let *)
(* through on the approval of one and never turned away after one.         *)
THEOREM HealthAwareKeepsPromise == StrategySpec => KeepsPromise
  BY HealthAwarePart, HealthAwareImplements, PTL

(* With any number of supervisors, a request that had the strategy to      *)
(* itself is told that no supervisor is healthy only after it found each   *)
(* of them so: the rotation reaches all of them in Size retries, wherever  *)
(* the shared index stood.                                                 *)
THEOREM SearchIsExhaustive == StrategySpec => []ExhaustedAfterAll
  BY HealthAwarePart, SearchVisitsAll, PTL

(* Multicall implements InteropValidation with any number of supervisors,  *)
(* whichever goroutine takes a result out of the channel: it rejects only  *)
(* after it took an error of every supervisor itself.                      *)
THEOREM MulticallIsHonest == StrategySpec => MulticallKeepsPromise
  BY MulticallPart, MulticallImplements, PTL

(* What multicall sends names every access of a list of any length, once,  *)
(* in the order of first appearance.                                       *)
THEOREM AllAccessesReachSupervisors == StrategySpec => []AllAccessesChecked
  BY MulticallPart, MulticallChecksAll, PTL
=============================================================================
