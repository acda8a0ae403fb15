-------------------------- MODULE BackendGroupProofs --------------------------
(* The two ways a request takes through a group, for any set of requests   *)
(* and any group, health of its backends, retries and permits.             *)
EXTENDS BackendGroup, FiniteSetTheorems, TLAPS

PCs == {"start", "attempt", "acquire", "call", "done"}

(* What holds of a request: the backends it was not asked of are ahead of  *)
(* it, except one that unparsable parameters used up, and the method it    *)
(* carries is the target of a backend that is not ahead of it.             *)

RequestType(r) ==
    /\ pc[r] \in PCs /\ order[r] \in Seq(Backends) /\ tries[r] \in Nat
    /\ method[r] \in Methods \cup Backends /\ wrap[r] \in BOOLEAN
    /\ asked[r] \subseteq Backends
    /\ "kind" \in DOMAIN result[r]

AllAheadOrAsked(r) ==
    pc[r] # "start" /\ ~Consensus /\ ctx[r] = "live" =>
        \/ Backends \subseteq asked[r] \cup Range(order[r])
        \/ MaxRetries = 0 /\ \E b \in Backends :
              method[r] = Target(b) /\ Backends \ {b} \subseteq asked[r] \cup Range(order[r])

TargetIsBehind(r) ==
    /\ IsInjective(order[r])
    /\ pc[r] = "start" => method[r] \in Methods
    /\ method[r] \in MetaMethods => tries[r] = 0
    /\ pc[r] \in {"acquire", "call"} =>
          /\ order[r] # << >> /\ method[r] \notin MetaMethods
          /\ wrap[r] => method[r] = Target(Head(order[r]))
    /\ method[r] \in Backends /\ order[r] # << >> =>
          /\ method[r] \notin Range(Tail(order[r]))
          /\ method[r] = Target(Head(order[r])) =>
                \/ pc[r] = "done" \/ tries[r] > 0
                \/ pc[r] \in {"acquire", "call"} /\ wrap[r]

Answered(r) ==
    /\ r \in unserviceable => pc[r] = "done" /\ order[r] = << >>
    /\ result[r].kind = "response" =>
          /\ pc[r] = "done"
          /\ method[r] \in Backends =>
                IF result[r].wrapped THEN result[r].target = Target(result[r].by)
                                     ELSE tries[r] > 0 \/ method[r] # Target(result[r].by)

RequestInv(r) == RequestType(r) /\ AllAheadOrAsked(r) /\ TargetIsBehind(r) /\ Answered(r)

Domains ==
    /\ DOMAIN pc = Requests /\ DOMAIN order = Requests /\ DOMAIN tries = Requests
    /\ DOMAIN method = Requests /\ DOMAIN wrap = Requests /\ DOMAIN ctx = Requests
    /\ DOMAIN result = Requests /\ DOMAIN asked = Requests
    /\ unserviceable \subseteq Requests

LEMMA OrdersType ==
    ASSUME NEW health, NEW o \in Orders(health)
    PROVE  /\ o \in Seq(Backends) /\ IsInjective(o)
           /\ ~Consensus => Backends \subseteq Range(o)
<1> DEFINE S == Members(health)
<1>1. Len(Group) \in Nat
  BY ForwardAssumption
<1>2. PICK n \in 0..Len(Group) : o \in Bijection(1..n, S)
  BY Zenon DEF Orders, Arrangements
<1>3. S \subseteq Backends /\ (~Consensus => S = Backends)
  BY DEF Members
<1>4. /\ o \in [1..n -> S] /\ IsInjective(o) /\ n \in Nat
      /\ \A b \in S : \E i \in 1..n : o[i] = b
  BY <1>1, <1>2 DEF Bijection, Injection, Surjection
<1>5. o \in Seq(Backends)
  BY <1>3, <1>4
<1> QED
  BY Zenon, <1>3, <1>4, <1>5 DEF Range

LEMMA DropHead ==
    ASSUME NEW s \in Seq(Backends), s # << >>, IsInjective(s)
    PROVE  /\ Head(s) \in Backends /\ Tail(s) \in Seq(Backends) /\ IsInjective(Tail(s))
           /\ Head(s) \notin Range(Tail(s)) /\ Range(s) = {Head(s)} \cup Range(Tail(s))
<1>1. /\ Len(s) \in Nat \ {0} /\ DOMAIN s = 1..Len(s) /\ Head(s) = s[1]
      /\ Tail(s) \in Seq(Backends) /\ Len(Tail(s)) = Len(s) - 1
      /\ \A i \in 1..(Len(s) - 1) : Tail(s)[i] = s[i + 1]
  OBVIOUS
<1>2. DOMAIN Tail(s) = 1..(Len(s) - 1)
  BY <1>1
<1>3. IsInjective(Tail(s))
  <2> SUFFICES ASSUME NEW i \in 1..(Len(s) - 1), NEW j \in 1..(Len(s) - 1),
                      Tail(s)[i] = Tail(s)[j]
               PROVE  i = j
    BY Zenon, <1>2 DEF IsInjective
  <2>1. i + 1 \in DOMAIN s /\ j + 1 \in DOMAIN s /\ s[i + 1] = s[j + 1]
    BY <1>1
  <2>2. i + 1 = j + 1
    BY <2>1 DEF IsInjective
  <2> QED
    BY <2>2
<1>4. Head(s) \notin Range(Tail(s))
  <2> SUFFICES ASSUME NEW i \in 1..(Len(s) - 1), Tail(s)[i] = Head(s) PROVE FALSE
    BY <1>2 DEF Range
  <2>1. i + 1 \in DOMAIN s /\ 1 \in DOMAIN s /\ s[i + 1] = s[1] /\ i + 1 # 1
    BY <1>1
  <2> QED
    BY <2>1 DEF IsInjective
<1>5. Range(s) = {Head(s)} \cup Range(Tail(s))
  <2>1. ASSUME NEW i \in 1..Len(s) PROVE s[i] \in {Head(s)} \cup Range(Tail(s))
    <3>1. CASE i = 1
      BY <1>1, <3>1
    <3>2. CASE i # 1
      <4>1. i - 1 \in 1..(Len(s) - 1) /\ Tail(s)[i - 1] = s[i]
        BY <1>1, <3>2
      <4> QED
        BY ZenonT(60), <4>1, <1>2 DEF Range
    <3> QED
      BY Zenon, <3>1, <3>2
  <2>2. Head(s) \in Range(s) /\ Range(Tail(s)) \subseteq Range(s)
    BY <1>1, <1>2 DEF Range
  <2> QED
    BY <1>1, <2>1, <2>2 DEF Range
<1> QED
  BY <1>1, <1>3, <1>4, <1>5

(* The steps of one request leave the others alone.                        *)
SameRequest(q) ==
    /\ routing' = routing
    /\ pc'[q] = pc[q] /\ order'[q] = order[q] /\ tries'[q] = tries[q]
    /\ method'[q] = method[q] /\ wrap'[q] = wrap[q] /\ ctx'[q] = ctx[q]
    /\ result'[q] = result[q] /\ asked'[q] = asked[q]
    /\ q \in unserviceable' <=> q \in unserviceable

LEMMA OthersKept == ASSUME NEW q, RequestInv(q), SameRequest(q) PROVE RequestInv(q)'
<1>1. RequestType(q)'
  BY Zenon DEF RequestInv, RequestType, SameRequest
<1>2. AllAheadOrAsked(q)'
  BY Zenon DEF RequestInv, AllAheadOrAsked, SameRequest, Consensus
<1>3. TargetIsBehind(q)'
  BY Zenon DEF RequestInv, TargetIsBehind, SameRequest
<1>4. Answered(q)'
  BY Zenon DEF RequestInv, Answered, SameRequest
<1> QED
  BY <1>1, <1>2, <1>3, <1>4 DEF RequestInv


(* An attempt that failed: the request is tried again at its backend, or   *)
(* that backend is behind it.                                              *)
Retried(r) ==
    \/ (order'[r] = order[r] /\ tries'[r] = tries[r] + 1)
    \/ (order'[r] = Tail(order[r]) /\ tries'[r] = 0)

LEMMA RetriedKeeps ==
    ASSUME NEW r, RequestInv(r), pc[r] \in {"attempt", "acquire", "call"}, order[r] # << >>,
           Retried(r), pc'[r] = "attempt", wrap'[r] \in BOOLEAN,
           UNCHANGED <<routing, ctx, result, unserviceable>>,
           asked[r] \subseteq asked'[r], asked'[r] \subseteq Backends,
           \/ method'[r] = method[r] /\ method[r] \notin MetaMethods
           \/ method'[r] = Target(Head(order[r])) /\ method[r] \in MetaMethods,
           \/ order'[r] = order[r]
           \/ Head(order[r]) \in asked'[r] \/ ctx[r] # "live"
           \/ method[r] \in MetaMethods /\ MaxRetries = 0
    PROVE  RequestInv(r)'
<1> DEFINE s == order[r]
           h == Head(order[r])
           t == Tail(order[r])
<1>1. /\ h \in Backends /\ t \in Seq(Backends) /\ IsInjective(t) /\ h \notin Range(t)
      /\ Range(s) = {h} \cup Range(t) /\ s \in Seq(Backends) /\ IsInjective(s)
  BY Zenon, DropHead DEF RequestInv, RequestType, TargetIsBehind
<1>2. t # << >> => Range(t) = {Head(t)} \cup Range(Tail(t))
  BY ZenonT(60), <1>1, DropHead
<1>3. RequestType(r)'
  <2>1. tries'[r] \in Nat
    BY DEF RequestInv, RequestType, Retried
  <2>4. order'[r] \in Seq(Backends)
    BY <1>1, Zenon DEF Retried
  <2>2. method'[r] \in Methods \cup Backends
    BY Zenon, <1>1 DEF RequestInv, RequestType, Target
  <2>3. "kind" \in DOMAIN result'[r]
    BY Zenon DEF RequestInv, RequestType
  <2> QED
    BY Zenon, <2>1, <2>2, <2>3, <2>4 DEF RequestType, PCs
<1>4. MetaMethods \cap Backends = {}
  BY Zenon, ForwardAssumption
<1>5. TargetIsBehind(r)'
  <2>1. IsInjective(order'[r]) /\ (method'[r] \in MetaMethods => tries'[r] = 0)
    BY Zenon, <1>1, <1>4 DEF Retried, Target
  <2>2. ASSUME method'[r] \in Backends, order'[r] # << >>
        PROVE  /\ method'[r] \notin Range(Tail(order'[r]))
               /\ method'[r] = Target(Head(order'[r])) => tries'[r] > 0
    <3>1. method'[r] \notin Range(t)
      BY Zenon, <1>1, <2>2 DEF RequestInv, TargetIsBehind, Target
    <3>2. CASE order'[r] = s /\ tries'[r] = tries[r] + 1
      BY <3>1, <3>2 DEF RequestInv, RequestType
    <3>3. CASE order'[r] = t
      BY Zenon, <3>1, <3>3, <1>2, <2>2 DEF Target
    <3> QED
      BY Zenon, <3>2, <3>3 DEF Retried
  <2> QED
    BY Zenon, <2>1, <2>2 DEF TargetIsBehind
<1>6. AllAheadOrAsked(r)'
  <2> SUFFICES ASSUME ~Consensus, ctx[r] = "live"
               PROVE  \/ Backends \subseteq asked'[r] \cup Range(order'[r])
                      \/ MaxRetries = 0 /\ \E b \in Backends :
                            /\ method'[r] = Target(b)
                            /\ Backends \ {b} \subseteq asked'[r] \cup Range(order'[r])
    BY Zenon DEF AllAheadOrAsked, Consensus
  <2>1. \/ Backends \subseteq asked[r] \cup Range(s)
        \/ MaxRetries = 0 /\ \E b \in Backends :
              method[r] = Target(b) /\ Backends \ {b} \subseteq asked[r] \cup Range(s)
    BY Zenon DEF RequestInv, AllAheadOrAsked
  <2>2. CASE asked[r] \cup Range(s) \subseteq asked'[r] \cup Range(order'[r])
    BY Zenon, <1>4, <2>1, <2>2 DEF Target
  <2>3. CASE method[r] \in MetaMethods /\ MaxRetries = 0 /\ order'[r] = t
    <3>1. Backends \subseteq asked[r] \cup Range(s)
      BY Zenon, <1>4, <2>1, <2>3 DEF Target
    <3> QED
      BY Zenon, <1>1, <1>4, <2>3, <3>1 DEF Target
  <2> QED
    BY Zenon, <1>1, <2>2, <2>3 DEF Retried
<1>7. Answered(r)'
  BY Zenon DEF RequestInv, Answered
<1> QED
  BY Zenon, <1>3, <1>5, <1>6, <1>7 DEF RequestInv


LEMMA StartKeeps ==
    ASSUME NEW r \in Requests, Domains, RequestInv(r), Start(r) PROVE RequestInv(r)'
<1>1. PICK health : \E o \in Orders(health) : order' = [order EXCEPT ![r] = o]
  BY ZenonT(60) DEF Start
<1>2. PICK o \in Orders(health) : order' = [order EXCEPT ![r] = o]
  BY ZenonT(60), <1>1
<1>3. /\ order'[r] = o /\ pc[r] = "start" /\ pc'[r] = "attempt"
      /\ UNCHANGED <<routing, tries, method, wrap, ctx, result, unserviceable, asked>>
  BY Zenon, <1>2 DEF Start, Goto, Domains
<1>4. o \in Seq(Backends) /\ IsInjective(o) /\ (~Consensus => Backends \subseteq Range(o))
  BY OrdersType
<1>5. method[r] \notin Backends
  BY Zenon, <1>3, ForwardAssumption DEF RequestInv, TargetIsBehind
<1>6. RequestType(r)'
  BY Zenon, <1>3, <1>4 DEF RequestInv, RequestType, PCs
<1>7. AllAheadOrAsked(r)'
  BY Zenon, <1>3, <1>4 DEF AllAheadOrAsked, Consensus
<1>8. TargetIsBehind(r)'
  BY Zenon, <1>3, <1>4, <1>5 DEF RequestInv, TargetIsBehind
<1>9. Answered(r)'
  BY Zenon, <1>3 DEF RequestInv, Answered
<1> QED
  BY <1>6, <1>7, <1>8, <1>9 DEF RequestInv

LEMMA NoBackendsKeeps ==
    ASSUME NEW r \in Requests, Domains, RequestInv(r), NoBackends(r) PROVE RequestInv(r)'
<1>1. /\ order[r] = << >> /\ pc[r] = "attempt" /\ pc'[r] = "done"
      /\ result'[r] = [result[r] EXCEPT !.kind = "noBackends"]
      /\ UNCHANGED <<routing, order, tries, method, wrap, ctx, asked>>
  BY Zenon DEF NoBackends, Goto, Domains
<1>a. "kind" \in DOMAIN result'[r] /\ result'[r].kind = "noBackends"
  BY Zenon, <1>1 DEF RequestInv, RequestType
<1>2. RequestType(r)'
  BY ZenonT(60), <1>1, <1>a DEF RequestInv, RequestType, PCs
<1>3. AllAheadOrAsked(r)'
  BY Zenon, <1>1 DEF RequestInv, AllAheadOrAsked, Consensus
<1>4. TargetIsBehind(r)'
  BY Zenon, <1>1 DEF RequestInv, TargetIsBehind
<1>5. Answered(r)'
  BY Zenon, <1>1, <1>a DEF Answered
<1> QED
  BY <1>2, <1>3, <1>4, <1>5 DEF RequestInv

(* A request that ends: the answer is wrapped with the target of the       *)
(* backend that gave it.                                                   *)
LEMMA ReturnKeeps ==
    ASSUME NEW r \in Requests, Domains, RequestInv(r), NEW k, NEW b,
           Return(r, k, b), pc[r] \in {"attempt", "acquire", "call"}, order[r] # << >>,
           UNCHANGED <<routing, method, ctx>>, wrap'[r] \in BOOLEAN,
           asked[r] \subseteq asked'[r], asked'[r] \subseteq Backends,
           b = "none" \/ b = Head(order[r]),
           k = "response" => pc[r] = "call" /\ b = Head(order[r])
    PROVE  RequestInv(r)'
<1>1. /\ pc'[r] = "done" /\ UNCHANGED <<order, tries, unserviceable>>
      /\ result'[r] = [kind |-> k, by |-> b, wrapped |-> k = "response" /\ wrap[r],
                       target |-> method[r]]
  BY Zenon DEF Return, Goto, Domains
<1>2. Head(order[r]) \in Backends
  BY DEF RequestInv, RequestType
<1>3. RequestType(r)'
  <2>1. "kind" \in DOMAIN result'[r]
    BY <1>1
  <2> QED
    BY Zenon, <1>1, <2>1 DEF RequestInv, RequestType, PCs
<1>4. AllAheadOrAsked(r)'
  BY Zenon, <1>1 DEF RequestInv, AllAheadOrAsked, Consensus
<1>5. TargetIsBehind(r)'
  BY Zenon, <1>1 DEF RequestInv, TargetIsBehind
<1>6. Answered(r)'
  <2>1. r \notin unserviceable
    BY Zenon DEF RequestInv, Answered
  <2>2. ASSUME k = "response", method[r] \in Backends
        PROVE  IF wrap[r] THEN method[r] = Target(b) ELSE tries[r] > 0 \/ method[r] # Target(b)
    BY Zenon, <2>2 DEF RequestInv, TargetIsBehind
  <2>3. /\ result'[r].kind = k /\ result'[r].by = b /\ result'[r].target = method[r]
        /\ k = "response" => result'[r].wrapped = wrap[r]
    BY <1>1 DEF RequestInv, RequestType
  <2> QED
    BY Zenon, <1>1, <2>1, <2>2, <2>3 DEF Answered
<1> QED
  BY Zenon, <1>3, <1>4, <1>5, <1>6 DEF RequestInv

LEMMA TryAgainRetries ==
    ASSUME NEW r \in Requests, Domains, RequestInv(r), TryAgain(r)
    PROVE  /\ Retried(r) /\ pc'[r] = "attempt" /\ UNCHANGED <<result, unserviceable>>
           /\ order'[r] = order[r] \/ MaxRetries <= tries[r]
  BY ForwardAssumption
  DEF TryAgain, Retried, TriesLeft, NextBackends, Goto, Domains, RequestInv, RequestType

LEMMA AttemptKeeps ==
    ASSUME NEW r \in Requests, Domains, RequestInv(r), Attempt(r) PROVE RequestInv(r)'
<1>1. /\ pc[r] = "attempt" /\ order[r] # << >> /\ UNCHANGED <<routing, ctx, asked>>
      /\ wrap'[r] = (method[r] = "receipts")
      /\ method'[r] = IF method[r] \in MetaMethods THEN Target(Head(order[r])) ELSE method[r]
  BY Zenon DEF Attempt, Translated, Domains
<1>a. wrap'[r] \in BOOLEAN
  BY Zenon, <1>1
<1>2. CASE method[r] = "batchedReceipts"
  <2>1. Return(r, "cantBeBatched", "none") /\ UNCHANGED method
    BY <1>2 DEF Attempt, MetaMethods
  <2>2. asked[r] \subseteq asked'[r] /\ asked'[r] \subseteq Backends
    BY Zenon, <1>1 DEF RequestInv, RequestType
  <2> QED
    BY ZenonT(60), <1>1, <1>a, <2>1, <2>2, ReturnKeeps
<1>3. CASE method[r] = "badReceipts"
  <2>1. TryAgain(r) /\ method[r] \in MetaMethods
    BY Zenon, <1>3 DEF Attempt, MetaMethods
  <2>2. tries[r] = 0
    BY Zenon, <2>1 DEF RequestInv, TargetIsBehind
  <2>3. order'[r] = order[r] \/ MaxRetries = 0
    BY <2>1, <2>2, TryAgainRetries, ForwardAssumption
  <2> QED
    BY ZenonT(60), <1>1, <1>a, <2>1, <2>3, TryAgainRetries, RetriedKeeps DEF RequestInv, RequestType
<1>4. CASE method[r] \notin {"batchedReceipts", "badReceipts"}
  <2>1. pc'[r] = "acquire" /\ UNCHANGED <<order, tries, result, unserviceable>>
    BY Zenon, <1>4 DEF Attempt, Goto, Domains
  <2>2. /\ Head(order[r]) \in Backends /\ Head(order[r]) \notin Range(Tail(order[r]))
        /\ MetaMethods \cap Backends = {}
    BY Zenon, <1>1, DropHead, ForwardAssumption DEF RequestInv, RequestType, TargetIsBehind
  <2>3. RequestType(r)'
    BY Zenon, <1>1, <2>1, <2>2 DEF RequestInv, RequestType, PCs, Target
  <2>4. AllAheadOrAsked(r)'
    BY Zenon, <1>1, <2>1, <2>2 DEF RequestInv, AllAheadOrAsked, Consensus, Target
  <2>5. TargetIsBehind(r)'
    BY ZenonT(60), <1>1, <1>4, <2>1, <2>2 DEF RequestInv, TargetIsBehind, Target, MetaMethods
  <2>6. Answered(r)'
    BY Zenon, <1>1, <2>1 DEF RequestInv, Answered
  <2> QED
    BY <2>3, <2>4, <2>5, <2>6 DEF RequestInv
<1> QED
  BY <1>2, <1>3, <1>4


LEMMA AcquireKeeps ==
    ASSUME NEW r \in Requests, Domains, RequestInv(r), Acquire(r) PROVE RequestInv(r)'
<1>1. /\ pc[r] = "acquire" /\ pc'[r] = "call"
      /\ UNCHANGED <<routing, order, tries, method, wrap, ctx, result, unserviceable, asked>>
  BY Zenon DEF Acquire, request, Goto, Domains
<1>2. RequestType(r)' /\ AllAheadOrAsked(r)'
  BY Zenon, <1>1 DEF RequestInv, RequestType, AllAheadOrAsked, Consensus, PCs
<1>3. TargetIsBehind(r)' /\ Answered(r)'
  BY Zenon, <1>1 DEF RequestInv, TargetIsBehind, Answered
<1> QED
  BY <1>2, <1>3 DEF RequestInv

LEMMA AcquireFailsKeeps ==
    ASSUME NEW r \in Requests, Domains, RequestInv(r), AcquireFails(r) PROVE RequestInv(r)'
<1>1. /\ pc[r] = "acquire" /\ ctx[r] # "live"
      /\ UNCHANGED <<routing, method, wrap, ctx, asked>>
      /\ Return(r, "canceled", "none") \/ TryAgain(r)
  BY Zenon DEF AcquireFails
<1>2. order[r] # << >> /\ wrap'[r] \in BOOLEAN
  BY Zenon, <1>1 DEF RequestInv, RequestType, TargetIsBehind
<1>3. asked[r] \subseteq asked'[r] /\ asked'[r] \subseteq Backends
  BY Zenon, <1>1 DEF RequestInv, RequestType
<1>4. method[r] \notin MetaMethods
  BY Zenon, <1>1 DEF RequestInv, TargetIsBehind
<1>5. CASE Return(r, "canceled", "none")
  BY Zenon, <1>1, <1>2, <1>3, <1>5, ReturnKeeps
<1>6. CASE TryAgain(r)
  BY Zenon, <1>1, <1>2, <1>3, <1>4, <1>6, TryAgainRetries, RetriedKeeps
<1> QED
  BY Zenon, <1>1, <1>5, <1>6

LEMMA CallKeeps ==
    ASSUME NEW r \in Requests, Domains, RequestInv(r), NEW o, Call(r, o)
    PROVE  RequestInv(r)'
<1> DEFINE b == Head(order[r])
<1>1. /\ pc[r] = "call" /\ UNCHANGED <<routing, method, wrap, ctx>>
      /\ asked'[r] = asked[r] \cup {b}
      /\ \/ Return(r, o, b)
         \/ /\ Goto(r, "attempt") /\ UNCHANGED <<result, unserviceable>>
            /\ order' = [order EXCEPT ![r] = NextBackends(@)]
            /\ tries' = [tries EXCEPT ![r] = 0]
         \/ TryAgain(r)
  BY Zenon DEF Call, Domains
<1>2. order[r] # << >> /\ wrap'[r] \in BOOLEAN
  BY Zenon, <1>1 DEF RequestInv, RequestType, TargetIsBehind
<1>3. asked[r] \subseteq asked'[r] /\ asked'[r] \subseteq Backends /\ b \in asked'[r]
  BY <1>1, <1>2 DEF RequestInv, RequestType
<1>4. method[r] \notin MetaMethods
  BY Zenon, <1>1 DEF RequestInv, TargetIsBehind
<1>5. CASE Return(r, o, b)
  BY Zenon, <1>1, <1>2, <1>3, <1>5, ReturnKeeps
<1>6. CASE TryAgain(r)
  BY Zenon, <1>1, <1>2, <1>3, <1>4, <1>6, TryAgainRetries, RetriedKeeps
<1>7. CASE /\ Goto(r, "attempt") /\ UNCHANGED <<result, unserviceable>>
           /\ order' = [order EXCEPT ![r] = NextBackends(@)]
           /\ tries' = [tries EXCEPT ![r] = 0]
  <2>1. Retried(r) /\ pc'[r] = "attempt"
    BY Zenon, <1>7 DEF Retried, NextBackends, Goto, Domains
  <2> QED
    BY Zenon, <1>1, <1>2, <1>3, <1>4, <1>7, <2>1, RetriedKeeps
<1> QED
  BY Zenon, <1>1, <1>5, <1>6, <1>7

LEMMA ContextEndsKeeps ==
    ASSUME NEW r \in Requests, Domains, RequestInv(r), NEW how \in {"canceled", "expired"},
           ContextEnds(r, how)
    PROVE  RequestInv(r)'
<1>1. /\ UNCHANGED <<routing, pc, order, tries, method, wrap, result, unserviceable, asked>>
      /\ ctx'[r] # "live"
  BY Zenon DEF ContextEnds, request, Domains
<1>2. RequestType(r)' /\ AllAheadOrAsked(r)'
  BY Zenon, <1>1 DEF RequestInv, RequestType, AllAheadOrAsked
<1>3. TargetIsBehind(r)' /\ Answered(r)'
  BY Zenon, <1>1 DEF RequestInv, TargetIsBehind, Answered
<1> QED
  BY <1>2, <1>3 DEF RequestInv


ForwardInv == Domains /\ \A r \in Requests : RequestInv(r)

LEMMA ForwardInductive == ForwardInv /\ [Next]_vars => ForwardInv'
<1> SUFFICES ASSUME ForwardInv, [Next]_vars PROVE ForwardInv'
  OBVIOUS
<1>1. CASE UNCHANGED vars
  <2>1. Domains' /\ \A q \in Requests : SameRequest(q)
    BY Zenon, <1>1 DEF ForwardInv, Domains, SameRequest, vars
  <2> QED
    BY <2>1, OthersKept DEF ForwardInv
<1>2. ASSUME NEW r \in Requests,
             Progress(r) \/ \E how \in {"canceled", "expired"} : ContextEnds(r, how)
      PROVE  ForwardInv'
  <2>1. RequestInv(r)'
    BY Zenon, <1>2, StartKeeps, NoBackendsKeeps, AttemptKeeps, AcquireKeeps, AcquireFailsKeeps,
       CallKeeps, ContextEndsKeeps DEF ForwardInv, Progress
  <2>2. \/ Start(r) \/ NoBackends(r) \/ Attempt(r) \/ Acquire(r) \/ AcquireFails(r)
        \/ \E o : Call(r, o) \/ \E how : ContextEnds(r, how)
    BY Zenon, <1>2 DEF Progress
  <2>3. Domains' /\ \A q \in Requests \ {r} : SameRequest(q)
    <3>1. CASE Start(r) \/ NoBackends(r) \/ Acquire(r)
      BY Zenon, <3>1 DEF Start, NoBackends, Acquire, request, Goto, ForwardInv, Domains, SameRequest
    <3>2. CASE Attempt(r)
      BY <3>2 DEF Attempt, Return, TryAgain, Goto, ForwardInv, Domains, SameRequest
    <3>3. CASE AcquireFails(r)
      BY Zenon, <3>3 DEF AcquireFails, Return, TryAgain, Goto, ForwardInv, Domains, SameRequest
    <3>4. ASSUME NEW o, Call(r, o) PROVE Domains' /\ \A q \in Requests \ {r} : SameRequest(q)
      BY Zenon, <3>4 DEF Call, Return, TryAgain, Goto, ForwardInv, Domains, SameRequest
    <3>5. ASSUME NEW how, ContextEnds(r, how)
          PROVE  Domains' /\ \A q \in Requests \ {r} : SameRequest(q)
      BY Zenon, <3>5 DEF ContextEnds, request, ForwardInv, Domains, SameRequest
    <3> QED
      BY Zenon, <2>2, <3>1, <3>2, <3>3, <3>4, <3>5
  <2> QED
    BY <2>1, <2>3, OthersKept DEF ForwardInv
<1> QED
  BY <1>1, <1>2 DEF Next

LEMMA ForwardInitially == Init => ForwardInv
<1> SUFFICES ASSUME Init PROVE ForwardInv
  OBVIOUS
<1>1. Domains
  BY Zenon DEF Init, Domains
<1>2. ASSUME NEW r \in Requests PROVE RequestInv(r)
  <2>1. /\ pc[r] = "start" /\ order[r] = << >> /\ tries[r] = 0 /\ method[r] \in Methods
        /\ wrap[r] = FALSE /\ asked[r] = {} /\ result[r] = NoResult /\ unserviceable = {}
    BY Zenon DEF Init
  <2>a. "kind" \in DOMAIN NoResult
    BY DEF NoResult
  <2>b. wrap[r] \in BOOLEAN
    BY Zenon DEF Init
  <2>c. << >> \in Seq(Backends)
    OBVIOUS
  <2>2. RequestType(r) /\ AllAheadOrAsked(r)
    BY <2>1, <2>a, <2>b, <2>c DEF RequestType, AllAheadOrAsked, PCs
  <2>3. TargetIsBehind(r)
    BY <2>1 DEF TargetIsBehind, IsInjective
  <2>4. Answered(r)
    BY <2>1 DEF Answered, NoResult
  <2> QED
    BY <2>2, <2>3, <2>4 DEF RequestInv
<1> QED
  BY <1>1, <1>2 DEF ForwardInv

-----------------------------------------------------------------------------
(* The multicall                                                           *)

MulticallType ==
    /\ at \in [MulticallBackends -> {"request", "send", "wgDone", "end"}]
    /\ outcome \in [MulticallBackends -> Answers \cup {"none"}]
    /\ ch \in Seq(MulticallBackends) /\ got \in Seq(MulticallBackends)

In(b, s) == \E i \in 1..Len(s) : s[i] = b

(* A response that was sent is in the channel or was received, and only    *)
(* those are; the channel is closed after the last.                        *)
Conserved ==
    /\ \A b \in MulticallBackends : at[b] \in {"wgDone", "end"} <=> In(b, ch) \/ In(b, got)
    /\ closed => \A b \in MulticallBackends : at[b] = "end"

AllBad(s, n) == \A i \in 1..n : ~Good(outcome[s[i]])

(* What the caller returns, or would return next, goes with what it took.  *)
Decided ==
    /\ response = "pending" =>
          AllBad(got, Len(got)) /\ (got # << >> => finalResp = got[Len(got)])
    /\ response # "pending" =>
          \/ /\ got # << >> /\ response = got[Len(got)] /\ Good(outcome[response])
             /\ AllBad(got, Len(got) - 1)
          \/ /\ closed /\ ch = << >> /\ AllBad(got, Len(got))
             /\ response = IF got # << >> THEN got[Len(got)] ELSE "nothing"

MulticallInv == MulticallType /\ Conserved /\ Decided

LEMMA MulticallTypeInductive == MulticallType /\ [MulticallNext]_multicall => MulticallType'
<1> SUFFICES ASSUME MulticallType, [MulticallNext]_multicall PROVE MulticallType'
  OBVIOUS
<1> USE DEF MulticallType
<1>1. ASSUME NEW b \in MulticallBackends, Goroutine(b) PROVE MulticallType'
  <2>1. CASE Send(b)
    BY <2>1 DEF Send
  <2>2. ASSUME NEW o \in Answers, Respond(b, o) PROVE MulticallType'
    BY Zenon, <2>2 DEF Respond
  <2>3. CASE Retry(b) \/ WgDone(b)
    BY Zenon, <2>3 DEF Retry, WgDone
  <2> QED
    BY Zenon, <1>1, <2>1, <2>2, <2>3 DEF Goroutine
<1>2. CASE Receive
  BY <1>2 DEF Receive
<1> QED
  BY Zenon, <1>1, <1>2 DEF MulticallNext, CloseChannel, ReceiveClosed, multicall

LEMMA ConservedInductive == MulticallType /\ Conserved /\ [MulticallNext]_multicall => Conserved'
<1> SUFFICES ASSUME MulticallType, Conserved, [MulticallNext]_multicall PROVE Conserved'
  OBVIOUS
<1> USE DEF MulticallType
<1>1. ASSUME NEW b \in MulticallBackends, Retry(b) PROVE Conserved'
  BY <1>1 DEF Retry, Conserved, In
<1>2. ASSUME NEW b \in MulticallBackends, NEW o \in Answers, Respond(b, o) PROVE Conserved'
  BY Zenon, <1>2 DEF Respond, Conserved, In
<1>3. ASSUME NEW b \in MulticallBackends, Send(b) PROVE Conserved'
  <2>1. \A c \in MulticallBackends : In(c, ch') <=> In(c, ch) \/ c = b
    BY <1>3 DEF Send, In
  <2> QED
    BY SMTT(60), <1>3, <2>1 DEF Send, Conserved, In
<1>4. ASSUME NEW b \in MulticallBackends, WgDone(b) PROVE Conserved'
  BY <1>4 DEF WgDone, Conserved, In
<1>5. CASE CloseChannel
  BY Zenon, <1>5 DEF CloseChannel, AllDone, Conserved, In
<1>6. CASE Receive
  <2>1. \A c \in MulticallBackends : In(c, ch) <=> c = Head(ch) \/ In(c, Tail(ch))
    <3>1. ch # << >> /\ Len(ch) \in Nat \ {0} /\ Len(Tail(ch)) = Len(ch) - 1
          /\ Head(ch) = ch[1] /\ \A i \in 1..(Len(ch) - 1) : Tail(ch)[i] = ch[i + 1]
      BY <1>6 DEF Receive
    <3>2. ASSUME NEW c \in MulticallBackends, NEW i \in 1..Len(ch), ch[i] = c
          PROVE  c = Head(ch) \/ In(c, Tail(ch))
      <4>1. CASE i = 1
        BY Zenon, <3>1, <3>2, <4>1
      <4>2. CASE i # 1
        <5>1. i - 1 \in 1..Len(Tail(ch)) /\ Tail(ch)[i - 1] = c
          BY <3>1, <3>2, <4>2
        <5> QED
          BY Zenon, <5>1 DEF In
      <4> QED
        BY <4>1, <4>2
    <3>3. ASSUME NEW c \in MulticallBackends, c = Head(ch) \/ In(c, Tail(ch)) PROVE In(c, ch)
      BY <3>1, <3>3 DEF In
    <3> QED
      BY Zenon, <3>2, <3>3 DEF In
  <2>2. \A c \in MulticallBackends : In(c, Append(got, Head(ch))) <=> In(c, got) \/ c = Head(ch)
    BY <1>6 DEF Receive, In
  <2>3. ch' = Tail(ch) /\ got' = Append(got, Head(ch)) /\ UNCHANGED <<at, closed>>
    BY Zenon, <1>6 DEF Receive
  <2>4. \A c \in MulticallBackends : In(c, ch') \/ In(c, got') <=> In(c, ch) \/ In(c, got)
    BY Zenon, <2>1, <2>2, <2>3
  <2> QED
    BY Zenon, <2>3, <2>4 DEF Conserved
<1>7. CASE ReceiveClosed
  BY Zenon, <1>7 DEF ReceiveClosed, Conserved, In
<1>8. CASE UNCHANGED multicall
  BY Zenon, <1>8 DEF multicall, Conserved, In
<1> QED
  BY Zenon, <1>1, <1>2, <1>3, <1>4, <1>5, <1>6, <1>7, <1>8 DEF MulticallNext, Goroutine

(* A backend whose response was received no longer changes its outcome,    *)
(* and none is sent once the channel is closed.                            *)
LEMMA DecidedInductive ==
    ASSUME MulticallInv, [MulticallNext]_multicall PROVE Decided'
<1> USE DEF MulticallType
<1>1. MulticallType /\ Conserved /\ Decided
  BY DEF MulticallInv
<1>2. ASSUME NEW b \in MulticallBackends, NEW o \in Answers, Respond(b, o) PROVE Decided'
  <2>1. \A i \in 1..Len(got) : got[i] \in MulticallBackends /\ outcome'[got[i]] = outcome[got[i]]
    BY <1>1, <1>2 DEF Respond, Conserved, In
  <2>2. UNCHANGED <<multicallRPCErrorCheck, ch, closed, got, finalResp, response>>
    BY <1>2 DEF Respond
  <2>3. \A n \in 0..Len(got) : AllBad(got, n) => AllBad(got, n)'
    BY <1>1, <2>1, <2>2 DEF AllBad, Good
  <2>4. Len(got) \in Nat /\ (got # << >> => Len(got) \in 1..Len(got))
    BY <1>1
  <2>5. got # << >> /\ Good(outcome[got[Len(got)]]) => Good(outcome[got[Len(got)]])'
    BY Zenon, <2>1, <2>2, <2>4 DEF Good
  <2> QED
    BY SMTT(60), <1>1, <2>2, <2>3, <2>4, <2>5 DEF Decided
<1>3. ASSUME NEW b \in MulticallBackends, Send(b) PROVE Decided'
  <2>1. ~closed
    BY Zenon, <1>1, <1>3 DEF Send, Conserved
  <2>2. /\ UNCHANGED <<multicallRPCErrorCheck, outcome, closed, got, finalResp, response>>
        /\ \A n : AllBad(got, n) => AllBad(got, n)'
    BY Zenon, <1>3 DEF Send, AllBad, Good
  <2>3. response # "pending" => Good(outcome[response]) /\ got # << >>
                                /\ AllBad(got, Len(got) - 1)
    BY Zenon, <1>1, <2>1 DEF Decided
  <2> QED
    BY Zenon, <1>1, <2>1, <2>2, <2>3 DEF Decided, Good
<1>4. ASSUME NEW b \in MulticallBackends, Retry(b) \/ WgDone(b) PROVE Decided'
  BY <1>1, <1>4 DEF Retry, WgDone, Decided, AllBad, Good
<1>5. CASE CloseChannel
  BY Zenon, <1>1, <1>5 DEF CloseChannel, Decided, AllBad, Good
<1>6. CASE Receive
  <2>1. /\ Head(ch) \in MulticallBackends /\ Len(got') = Len(got) + 1 /\ Len(got) \in Nat
        /\ got'[Len(got')] = Head(ch) /\ \A i \in 1..Len(got) : got'[i] = got[i]
    BY <1>1, <1>6 DEF Receive
  <2>2. AllBad(got, Len(got)) /\ UNCHANGED <<outcome, multicallRPCErrorCheck>>
    BY Zenon, <1>1, <1>6 DEF Receive, Decided
  <2>3. CASE Good(outcome[Head(ch)])
    BY SMTT(60), <1>6, <2>1, <2>2, <2>3, MulticallAssumption
    DEF Receive, Returned, Decided, AllBad, Good
  <2>4. CASE ~Good(outcome[Head(ch)])
    BY SMTT(60), <1>6, <2>1, <2>2, <2>4
    DEF Receive, Returned, Decided, AllBad, Good
  <2> QED
    BY <2>3, <2>4
<1>7. CASE ReceiveClosed
  BY Zenon, <1>1, <1>7, MulticallAssumption DEF ReceiveClosed, Decided, AllBad, Good
<1>8. CASE UNCHANGED multicall
  BY Zenon, <1>1, <1>8 DEF multicall, Decided, AllBad, Good
<1> QED
  BY Zenon, <1>2, <1>3, <1>4, <1>5, <1>6, <1>7, <1>8 DEF MulticallNext, Goroutine

LEMMA MulticallInductive == MulticallInv /\ [MulticallNext]_multicall => MulticallInv'
  BY Zenon, MulticallTypeInductive, ConservedInductive, DecidedInductive DEF MulticallInv

LEMMA MulticallInitially == MulticallInit => MulticallInv
  BY DEF MulticallInit, MulticallInv, MulticallType, Conserved, Decided, In, AllBad

LEMMA MulticallAnswers == MulticallInv => FirstGoodOrLastBad
<1> SUFFICES ASSUME MulticallType, Conserved, Decided PROVE FirstGoodOrLastBad
  BY DEF MulticallInv
<1> USE DEF MulticallType
<1>1. \A i \in 1..Len(got) : Good(outcome[got[i]]) => i = Len(got) /\ response = got[i]
  BY DEF Decided, AllBad
<1>2. ASSUME response # "pending", response \in MulticallBackends => ~Good(outcome[response])
      PROVE  /\ \A b \in MulticallBackends : ~Good(outcome[b])
             /\ Range(got) = MulticallBackends
             /\ MulticallBackends # {} => response = got[Len(got)]
  <2>1. /\ closed /\ ch = << >> /\ AllBad(got, Len(got))
        /\ response = IF got # << >> THEN got[Len(got)] ELSE "nothing"
    <3>1. got # << >> => got[Len(got)] \in MulticallBackends
      OBVIOUS
    <3> QED
      BY Zenon, <1>2, <3>1 DEF Decided
  <2>2. \A b \in MulticallBackends : In(b, got)
    BY <2>1 DEF Conserved, In
  <2>3. Range(got) = MulticallBackends
    <3>1. DOMAIN got = 1..Len(got) /\ \A i \in 1..Len(got) : got[i] \in MulticallBackends
      OBVIOUS
    <3> QED
      BY <2>2, <3>1 DEF Range, In
  <2>4. MulticallBackends # {} => got # << >>
    BY <2>2 DEF In
  <2> QED
    BY Zenon, <2>1, <2>2, <2>3, <2>4 DEF AllBad, In
<1> QED
  BY Zenon, <1>1, <1>2 DEF FirstGoodOrLastBad

-----------------------------------------------------------------------------
GroupInv == ForwardInv /\ MulticallInv

LEMMA GroupInvariant == GroupSpec => []GroupInv
<1>1. GroupInit => GroupInv
  BY ForwardInitially, MulticallInitially DEF GroupInit, GroupInv
<1>2. [GroupNext]_all => [Next]_vars /\ [MulticallNext]_multicall
  BY DEF GroupNext, ExecuteMulticall, ForwardRequestToBackendGroup, all
<1>3. GroupInv /\ [GroupNext]_all => GroupInv'
  BY <1>2, ForwardInductive, MulticallInductive DEF GroupInv
<1> QED
  BY <1>1, <1>3, PTL DEF GroupSpec

(* A request gives up only when all backends were asked, for groups of any *)
(* size, whatever their health, the order they are tried in, and the       *)
(* errors of the calls; but for the attempt that unparsable parameters use *)
(* up when there are no retries.                                           *)
THEOREM UnserviceableLast == GroupSpec => []UnserviceableAfterAll
<1>1. ForwardInv => UnserviceableAfterAll
  <2> SUFFICES ASSUME ForwardInv, NEW r \in unserviceable, ~Consensus, ctx[r] = "live"
               PROVE  \/ asked[r] = Backends
                      \/ MaxRetries = 0 /\ \E b \in Backends :
                            method[r] = Target(b) /\ Backends \ {b} \subseteq asked[r]
    BY Zenon DEF UnserviceableAfterAll
  <2>1. RequestInv(r) /\ pc[r] = "done" /\ order[r] = << >>
    BY Zenon DEF ForwardInv, Domains, RequestInv, Answered
  <2>2. Range(order[r]) = {}
    BY <2>1 DEF Range
  <2> QED
    BY ZenonT(60), <2>1, <2>2 DEF RequestInv, RequestType, AllAheadOrAsked
<1> QED
  BY <1>1, GroupInvariant, PTL DEF GroupInv

(* The answer to consensus_getReceipts is wrapped with the target of the   *)
(* backend that gave it, unless an attempt failed before.                  *)
THEOREM UnwrappedOnRetry == GroupSpec => []UnwrappedOnlyOnRetry
<1>1. ForwardInv => UnwrappedOnlyOnRetry
  BY Zenon DEF ForwardInv, RequestInv, Answered, UnwrappedOnlyOnRetry
<1> QED
  BY <1>1, GroupInvariant, PTL DEF GroupInv

(* The WaitGroup keeps the channel open until every goroutine has sent, so *)
(* that none of them panics, for any number of backends.                   *)
THEOREM NoSendOnClosedChannel == GroupSpec => []NoSendAfterClose
<1>1. MulticallInv => NoSendAfterClose
  BY DEF MulticallInv, MulticallType, Conserved, NoSendAfterClose
<1> QED
  BY <1>1, GroupInvariant, PTL DEF GroupInv

(* ExecuteMulticall returns the first good response, and a bad one only    *)
(* when every backend has given a bad one, for any number of backends and  *)
(* any order of their responses.                                           *)
THEOREM MulticallAnswer == GroupSpec => []FirstGoodOrLastBad
  BY MulticallAnswers, GroupInvariant, PTL DEF GroupInv

-----------------------------------------------------------------------------
(* The permits of the semaphore and the counts of attempts and errors.     *)
AccountInv ==
    /\ pc \in [Requests -> PCs]
    /\ inUse \in Nat
    /\ requests \in [Backends -> Nat] /\ errors \in [Backends -> Nat]
    /\ DOMAIN order = Requests
    /\ \A r \in Requests : pc[r] \in {"acquire", "call"} => order[r] # << >>
    /\ CallsAccounted

LEMMA FiniteCalls ==
    /\ IsFiniteSet(InCall) /\ Cardinality(InCall) \in Nat
    /\ \A b : IsFiniteSet(InAttempt(b)) /\ Cardinality(InAttempt(b)) \in Nat
<1>1. InCall \subseteq Requests /\ \A b : InAttempt(b) \subseteq Requests
  BY DEF InCall, InAttempt
<1> QED
  BY Zenon, <1>1, FS_Subset, FS_CardinalityType, ForwardAssumption

LEMMA IncrCounts ==
    ASSUME NEW f \in [Backends -> Nat], NEW h
    PROVE  /\ Incr(f, h) \in [Backends -> Nat]
           /\ \A b \in Backends : Incr(f, h)[b] = IF b = h THEN f[b] + 1 ELSE f[b]
<1>1. CASE h \in Backends
  BY <1>1 DEF Incr
<1>2. CASE h \notin Backends
  BY ZenonT(60), <1>2 DEF Incr
<1> QED
  BY Zenon, <1>1, <1>2

(* What the steps of one request do to the sets that are counted.          *)
LEMMA CountAdded ==
    ASSUME NEW S, NEW T, NEW r, IsFiniteSet(S), r \notin S, T = S \cup {r}
    PROVE  Cardinality(T) = Cardinality(S) + 1
  BY FS_AddElement

LEMMA CountRemoved ==
    ASSUME NEW S, NEW T, NEW r, IsFiniteSet(S), r \in S, T = S \ {r}
    PROVE  Cardinality(T) = Cardinality(S) - 1
  BY FS_RemoveElement

(* How a step moves a request: to l, with the backends of others as they   *)
(* were.                                                                   *)
Moves(r, l) ==
    /\ pc' = [pc EXCEPT ![r] = l] /\ l \in PCs
    /\ \A s \in Requests \ {r} : order'[s] = order[s]

LEMMA MovesOutside ==
    ASSUME AccountInv, NEW r \in Requests, NEW l \in {"attempt", "done"}, Moves(r, l),
           pc[r] \in {"start", "attempt"}
    PROVE  InCall' = InCall /\ \A b : InAttempt(b)' = InAttempt(b)
  BY DEF Moves, AccountInv, InCall, InAttempt

LEMMA MovesOut ==
    ASSUME AccountInv, NEW r \in Requests, NEW l \in {"attempt", "done"}, Moves(r, l),
           pc[r] \in {"acquire", "call"}
    PROVE  InCall' = InCall \ {r} /\ \A b : InAttempt(b)' = InAttempt(b) \ {r}
  BY DEF Moves, AccountInv, InCall, InAttempt

LEMMA TryAgainMoves ==
    ASSUME NEW r \in Requests, TryAgain(r), DOMAIN order = Requests
    PROVE  Moves(r, "attempt")
  BY Zenon DEF TryAgain, Goto, Moves, PCs

LEMMA ReturnMoves ==
    ASSUME NEW r \in Requests, NEW k, NEW b, Return(r, k, b) PROVE Moves(r, "done")
  BY Zenon DEF Return, Goto, Moves, PCs

(* A step of a request that is not at a backend keeps the accounts, if it  *)
(* counts nothing but attempts.                                            *)
LEMMA OutsideKeeps ==
    ASSUME AccountInv, NEW r \in Requests, NEW l \in {"attempt", "done"}, Moves(r, l),
           pc[r] \in {"start", "attempt"}, DOMAIN order' = Requests,
           UNCHANGED <<inUse, errors>>, requests' \in [Backends -> Nat],
           \A b \in Backends : requests[b] <= requests'[b]
    PROVE  AccountInv'
<1>1. InCall' = InCall /\ \A b : InAttempt(b)' = InAttempt(b)
  BY Zenon, MovesOutside
<1>2. \A b : Cardinality(InAttempt(b)) \in Nat
  BY Zenon, FiniteCalls
<1>3. CallsAccounted'
  BY SMTT(60), <1>1, <1>2 DEF AccountInv, CallsAccounted
<1> QED
  BY Zenon, <1>3 DEF AccountInv, Moves

(* A step that ends an attempt frees what it held, and counts one error at *)
(* most, of its backend.                                                   *)
LEMMA OutKeeps ==
    ASSUME AccountInv, NEW r \in Requests, NEW l \in {"attempt", "done"}, Moves(r, l),
           pc[r] \in {"acquire", "call"}, DOMAIN order' = Requests, UNCHANGED requests,
           inUse' = IF pc[r] = "call" THEN inUse - 1 ELSE inUse,
           errors' \in {errors, Incr(errors, Head(order[r]))}
    PROVE  AccountInv'
<1>1. InCall' = InCall \ {r} /\ \A b : InAttempt(b)' = InAttempt(b) \ {r}
  BY MovesOut
<1>2. /\ IsFiniteSet(InCall) /\ Cardinality(InCall) \in Nat /\ Cardinality(InCall') \in Nat
      /\ \A b : IsFiniteSet(InAttempt(b)) /\ Cardinality(InAttempt(b)) \in Nat
  <2>1. IsFiniteSet(InCall')
    BY Zenon, <1>1, FiniteCalls, FS_Subset
  <2> QED
    BY Zenon, <2>1, FiniteCalls, FS_CardinalityType
<1>3. r \in InCall <=> pc[r] = "call"
  BY Zenon DEF InCall
<1>4. inUse' \in Nat /\ inUse' = Cardinality(InCall')
  <2>1. CASE pc[r] = "call"
    <3>1. Cardinality(InCall') = Cardinality(InCall) - 1
      BY Zenon, <1>1, <1>2, <1>3, <2>1, CountRemoved
    <3> QED
      BY Zenon, <1>2, <2>1, <3>1 DEF AccountInv, CallsAccounted
  <2>2. CASE pc[r] # "call"
    <3>1. InCall' = InCall
      BY Zenon, <1>1, <1>3, <2>2
    <3> QED
      BY Zenon, <2>2, <3>1 DEF AccountInv, CallsAccounted
  <2> QED
    BY Zenon, <2>1, <2>2
<1>5. ASSUME NEW b \in Backends
      PROVE  errors'[b] \in Nat /\ errors'[b] + Cardinality(InAttempt(b)') <= requests[b]
  <2>1. r \in InAttempt(b) <=> Head(order[r]) = b
    BY Zenon DEF InAttempt, AccountInv
  <2>2. CASE Head(order[r]) = b
    <3>1. Cardinality(InAttempt(b)') = Cardinality(InAttempt(b)) - 1
      BY Zenon, <1>1, <1>2, <2>1, <2>2, CountRemoved
    <3>2. errors'[b] \in Nat /\ errors'[b] <= errors[b] + 1
      BY <2>2 DEF Incr, AccountInv
    <3> QED
      BY SMTT(60), <1>2, <3>1, <3>2 DEF AccountInv, CallsAccounted
  <2>3. CASE Head(order[r]) # b
    <3>1. InAttempt(b)' = InAttempt(b)
      BY Zenon, <1>1, <2>1, <2>3
    <3>2. errors'[b] = errors[b]
      BY Zenon, <2>3 DEF Incr, AccountInv
    <3> QED
      BY Zenon, <3>1, <3>2 DEF AccountInv, CallsAccounted
  <2> QED
    BY Zenon, <2>2, <2>3
<1>6. CallsAccounted'
  BY Zenon, <1>4, <1>5 DEF CallsAccounted
<1>7. errors' \in [Backends -> Nat]
  BY DEF Incr, AccountInv
<1> QED
  BY Zenon, <1>4, <1>6, <1>7 DEF AccountInv, Moves

LEMMA AccountInductive == AccountInv /\ [Next]_vars => AccountInv'
<1> SUFFICES ASSUME AccountInv, [Next]_vars PROVE AccountInv'
  OBVIOUS
<1> USE DEF Goto
<1>1. ASSUME NEW r \in Requests, Start(r) PROVE AccountInv'
  <2>1. Moves(r, "attempt") /\ DOMAIN order' = Requests
    BY Zenon, <1>1 DEF Start, Moves, PCs, AccountInv
  <2> QED
    BY SMTT(60), <1>1, <2>1, OutsideKeeps DEF Start, AccountInv
<1>2. ASSUME NEW r \in Requests, NoBackends(r) PROVE AccountInv'
  <2>1. Moves(r, "done")
    BY <1>2 DEF NoBackends, Moves, PCs
  <2> QED
    BY SMTT(60), <1>2, <2>1, OutsideKeeps DEF NoBackends, AccountInv
<1>3. ASSUME NEW r \in Requests, Attempt(r) PROVE AccountInv'
  <2> DEFINE h == Head(order[r])
  <2>1. /\ pc[r] = "attempt" /\ order[r] # << >> /\ requests' = Incr(requests, h)
        /\ UNCHANGED <<inUse, errors>>
        /\ \/ Return(r, "cantBeBatched", "none")
           \/ TryAgain(r)
           \/ Goto(r, "acquire") /\ UNCHANGED order
    BY Zenon, <1>3 DEF Attempt, Recorded
  <2>b. requests \in [Backends -> Nat]
    BY DEF AccountInv
  <2>2. /\ requests' \in [Backends -> Nat]
        /\ \A b \in Backends : requests'[b] = IF b = h THEN requests[b] + 1 ELSE requests[b]
    BY SMTT(60), <2>1, <2>b, IncrCounts
  <2>a. \A b \in Backends : requests[b] <= requests'[b]
    BY SMTT(60), <2>2, <2>b
  <2>3. CASE Return(r, "cantBeBatched", "none")
    <3>1. DOMAIN order' = Requests
      BY Zenon, <2>3 DEF Return, AccountInv
    <3> QED
      BY Zenon, <2>1, <2>2, <2>a, <2>3, <3>1, ReturnMoves, OutsideKeeps
  <2>4. CASE TryAgain(r)
    <3>1. DOMAIN order' = Requests
      BY Zenon, <2>4 DEF TryAgain, AccountInv
    <3>2. Moves(r, "attempt")
      BY Zenon, <2>4, TryAgainMoves DEF AccountInv
    <3> QED
      BY Zenon, <2>1, <2>2, <2>a, <3>1, <3>2, OutsideKeeps
  <2>5. CASE Goto(r, "acquire") /\ UNCHANGED order
    <3>1. InCall' = InCall
      BY Zenon, <2>1, <2>5 DEF InCall, AccountInv
    <3>2. ASSUME NEW b \in Backends
          PROVE  errors'[b] + Cardinality(InAttempt(b)') <= requests'[b]
      <4>1. CASE b = h
        <5>1. r \notin InAttempt(b) /\ InAttempt(b)' = InAttempt(b) \cup {r}
          BY Zenon, <2>1, <2>5, <4>1 DEF InAttempt, AccountInv
        <5>2. Cardinality(InAttempt(b)') = Cardinality(InAttempt(b)) + 1
          BY Zenon, <5>1, FiniteCalls, CountAdded
        <5> QED
          BY SMTT(60), <2>1, <2>2, <4>1, <5>2, FiniteCalls
          DEF AccountInv, CallsAccounted
      <4>2. CASE b # h
        <5>1. InAttempt(b)' = InAttempt(b)
          BY Zenon, <2>1, <2>5, <4>2 DEF InAttempt, AccountInv
        <5> QED
          BY Zenon, <2>1, <2>2, <4>2, <5>1 DEF AccountInv, CallsAccounted
      <4> QED
        BY Zenon, <4>1, <4>2
    <3>3. CallsAccounted'
      BY Zenon, <2>1, <3>1, <3>2 DEF AccountInv, CallsAccounted
    <3> QED
      BY Zenon, <2>1, <2>2, <2>5, <3>3 DEF AccountInv, PCs
  <2> QED
    BY Zenon, <2>1, <2>3, <2>4, <2>5
<1>4. ASSUME NEW r \in Requests, Acquire(r) PROVE AccountInv'
  <2>1. r \notin InCall /\ InCall' = InCall \cup {r}
    BY Zenon, <1>4 DEF Acquire, InCall, AccountInv
  <2>2. \A b : InAttempt(b)' = InAttempt(b)
    BY Zenon, <1>4 DEF Acquire, request, InAttempt, AccountInv
  <2>3. Cardinality(InCall') = Cardinality(InCall) + 1
    BY Zenon, <2>1, FiniteCalls, CountAdded
  <2>4. CallsAccounted'
    BY Zenon, <1>4, <2>2, <2>3 DEF Acquire, AccountInv, CallsAccounted
  <2> QED
    BY SMTT(60), <1>4, <2>4 DEF Acquire, request, AccountInv, PCs
<1>5. ASSUME NEW r \in Requests, AcquireFails(r) PROVE AccountInv'
  <2>1. /\ pc[r] = "acquire" /\ errors' = Incr(errors, Head(order[r]))
        /\ UNCHANGED <<inUse, requests>>
        /\ Return(r, "canceled", "none") \/ TryAgain(r)
    BY Zenon, <1>5 DEF AcquireFails
  <2>2. DOMAIN order' = Requests
    BY Zenon, <2>1 DEF Return, TryAgain, AccountInv
  <2>3. Moves(r, "attempt") \/ Moves(r, "done")
    BY Zenon, <2>1, ReturnMoves, TryAgainMoves DEF AccountInv
  <2> QED
    BY Zenon, <2>1, <2>2, <2>3, OutKeeps
<1>6. ASSUME NEW r \in Requests, NEW o, Call(r, o) PROVE AccountInv'
  <2>1. /\ pc[r] = "call" /\ inUse' = inUse - 1 /\ UNCHANGED requests
        /\ errors' \in {errors, Incr(errors, Head(order[r]))}
        /\ \/ Return(r, o, Head(order[r]))
           \/ /\ Goto(r, "attempt")
              /\ order' = [order EXCEPT ![r] = NextBackends(@)]
           \/ TryAgain(r)
    BY Zenon, <1>6 DEF Call, Released
  <2>2. DOMAIN order' = Requests
    BY Zenon, <2>1 DEF Return, TryAgain, AccountInv
  <2>3. Moves(r, "attempt") \/ Moves(r, "done")
    BY Zenon, <2>1, ReturnMoves, TryAgainMoves DEF AccountInv, Moves, PCs
  <2> QED
    BY Zenon, <2>1, <2>2, <2>3, OutKeeps
<1>7. CASE UNCHANGED <<pc, order, inUse, requests, errors>>
  BY Zenon, <1>7 DEF AccountInv, CallsAccounted, InCall, InAttempt
<1> QED
  BY Zenon, <1>1, <1>2, <1>3, <1>4, <1>5, <1>6, <1>7
  DEF Next, Progress, ContextEnds, request, vars

LEMMA AccountInitially == Init => AccountInv
<1> SUFFICES ASSUME Init PROVE AccountInv
  OBVIOUS
<1>1. InCall = {} /\ \A b : InAttempt(b) = {}
  BY Zenon DEF Init, InCall, InAttempt
<1>2. inUse = 0 /\ \A b \in Backends : errors[b] = 0 /\ requests[b] = 0
  BY Zenon DEF Init, Zero
<1>3. Cardinality(InCall) = 0 /\ \A b : Cardinality(InAttempt(b)) = 0
  BY Zenon, <1>1, FS_EmptySet
<1>4. CallsAccounted
  BY <1>2, <1>3 DEF CallsAccounted
<1> QED
  BY <1>4 DEF Init, AccountInv, PCs, Zero

(* DoLimited loses no permit and frees none twice, and no backend has more *)
(* errors counted than attempts, for any number of concurrent requests,    *)
(* backends, retries and permits.                                          *)
THEOREM CallsAreAccounted == GroupSpec => []CallsAccounted
<1>1. AccountInv => CallsAccounted
  BY DEF AccountInv
<1>2. GroupInit => AccountInv
  BY AccountInitially DEF GroupInit
<1>3. [GroupNext]_all => [Next]_vars
  BY DEF GroupNext, ExecuteMulticall, ForwardRequestToBackendGroup, all
<1>4. AccountInv /\ [GroupNext]_all => AccountInv'
  BY <1>3, AccountInductive
<1> QED
  BY <1>1, <1>2, <1>4, PTL DEF GroupSpec
=============================================================================
