---------------------------- MODULE RateLimiter ----------------------------
(***************************************************************************)
(* The frontend rate limiters (frontend_rate_limiter.go): in memory, in a  *)
(* Redis shared by several proxyd instances, and the fallback from the     *)
(* second to the first.  Handlers take from one limiter concurrently; the  *)
(* truncated time is read before the count is, and the clock goes on.      *)
(*                                                                         *)
(* NewServer makes two limiters for a method, one for ordinary and one for *)
(* high-priority callers, and gives limiterFactory the method as the       *)
(* prefix of both: in memory each counts for itself, in Redis both count   *)
(* with the same keys.                                                     *)
(*                                                                         *)
(* One tick is the millisecond by which a Redis key expires early.         *)
(***************************************************************************)
EXTENDS Naturals, Sequences, FiniteSets

CONSTANTS
    Handlers, Keys,
    Durs,           \* the intervals, in ticks, of the configurations
    Limits,         \* [Classes -> the takes each limiter allows]
    Second,         \* ticks of a second, the unit of the truncated time
    MaxTime, MaxTakes   \* bounds

Classes == {"override", "highPrio"}

ASSUME LimiterAssumption ==
    /\ Durs \subseteq Nat \ {0, 1} /\ Second \in Nat \ {0}
    /\ Limits \in [Classes -> Nat]
    /\ IsFiniteSet(Handlers) /\ Keys # {} /\ MaxTime \in Nat

Times == 0..MaxTime
None  == [k \in Keys |-> 0]

VARIABLES
    kind,       \* memory, redis, or fallback: what limiterFactory builds
    dur,        \* the interval of the method
    now,
    gens,       \* [Classes -> limitedKeys ever made; the last is currGeneration]
    count, ttl, \* [Times -> [Keys -> ...]] in Redis; ttl 0: none set
    pc,         \* [Handlers -> where Take is]
    call,       \* [Handlers -> limiter, key, window, truncTS, generation, counter]
    begun,      \* calls of Take so far
    taken,      \* history: calls per store, limiter, window and key,
    granted,    \* those of them allowed,
    denied      \* and the stores, limiters, windows and keys of those refused

vars == <<kind, dur, now, gens, count, ttl, pc, call, begun, taken, granted, denied>>
config == <<kind, dur>>
redis == <<count, ttl>>
history == <<begun, taken, granted, denied>>

NoCall == [class |-> "override", key |-> CHOOSE k \in Keys : TRUE,
           window |-> 0, ts |-> 0, gen |-> 0, val |-> 0]

Init ==
    /\ kind \in {"memory", "redis", "fallback"} /\ dur \in Durs
    /\ now = 0
    /\ gens = [c \in Classes |-> << >>]
    /\ count = [s \in Times |-> None] /\ ttl = [s \in Times |-> None]
    /\ pc = [h \in Handlers |-> "idle"]
    /\ call = [h \in Handlers |-> NoCall]
    /\ begun = 0
    /\ taken = [l \in {"memory", "redis"} |->
                  [c \in Classes |-> [w \in Times |-> None]]]
    /\ granted = taken
    /\ denied = {}

Goto(h, l) == pc' = [pc EXCEPT ![h] = l]

(* truncateNow: down to a multiple of the interval, then to full seconds.  *)
TruncateNow == (now - (now % dur)) \div Second

(* What a limit is about: the interval, or, when it is shorter, the        *)
(* second in which it begins.                                              *)
Window == IF dur < Second THEN (now - (now % dur)) \div Second ELSE now \div dur

(* The call returns what the limiter says; an error limits the caller too. *)
Return(h, store, ok) ==
    LET c == call[h] IN
    /\ Goto(h, "idle")
    /\ call' = [call EXCEPT ![h] = NoCall]
    /\ granted' = IF ok THEN [granted EXCEPT ![store][c.class][c.window][c.key] = @ + 1]
                  ELSE granted
    /\ denied' = IF ok THEN denied
                 ELSE denied \cup {<<store, c.class, c.window, c.key>>}
    /\ UNCHANGED <<begun, taken>>

(* The window a call belongs to is the one it finds on the clock.          *)
Record(h, store) ==
    /\ taken' = [taken EXCEPT ![store][call[h].class][Window][call[h].key] = @ + 1]
    /\ UNCHANGED <<begun, granted, denied>>

(* A handler calls Take of the limiter the configuration chose.            *)
Begin(h, class, k) ==
    /\ pc[h] = "idle" /\ begun < MaxTakes /\ begun' = begun + 1
    /\ Goto(h, IF kind = "memory" THEN "memory" ELSE "redis")
    /\ call' = [call EXCEPT ![h] = [NoCall EXCEPT !.class = class, !.key = k]]
    /\ UNCHANGED <<config, now, gens, redis, taken, granted, denied>>

(* Mutant: a generation that is kept for the next interval as well.        *)
CurrentNever(gen, ts) == gen # << >>

Current(gen, ts) == gen # << >> /\ gen[Len(gen)].ts = ts

(* MemoryFrontendRateLimiter.Take up to the unlock.                        *)
MemoryGeneration(h) ==
    LET c == call[h].class IN
    /\ pc[h] = "memory" /\ Goto(h, "generation")
    /\ gens' = IF Current(gens[c], TruncateNow) THEN gens
               ELSE [gens EXCEPT ![c] = Append(@, [ts |-> TruncateNow, keys |-> None])]
    /\ call' = [call EXCEPT ![h].gen = Len(gens'[c]), ![h].window = Window]
    /\ Record(h, "memory")
    /\ UNCHANGED <<config, now, redis>>

(* Mutant: the value before the increment is compared with <=.             *)
AllowsOneMore(class, val) == val <= Limits[class]

Allows(class, val) == val < Limits[class]

(* limitedKeys.Take of the generation it holds, current or not.            *)
MemoryTake(h) ==
    LET c == call[h]
        val == gens[c.class][c.gen].keys[c.key]
    IN
    /\ pc[h] = "generation"
    /\ gens' = [gens EXCEPT ![c.class][c.gen].keys[c.key] = val + 1]
    /\ Return(h, "memory", Allows(c.class, val))
    /\ UNCHANGED <<config, now, redis>>

(* RedisFrontendRateLimiter.Take: the key is chosen, then sent.            *)
RedisKey(h) ==
    /\ pc[h] = "redis" /\ Goto(h, "incr")
    /\ call' = [call EXCEPT ![h].ts = TruncateNow, ![h].window = Window]
    /\ Record(h, "redis")
    /\ UNCHANGED <<config, now, gens, redis>>

RedisIncr(h) ==
    /\ pc[h] = "incr" /\ Goto(h, "expire")
    /\ count' = [count EXCEPT ![call[h].ts][call[h].key] = @ + 1]
    /\ call' = [call EXCEPT ![h].val = count[call[h].ts][call[h].key]]
    /\ UNCHANGED <<config, now, gens, ttl, history>>

Expiry == dur - 1

(* PEXPIRE of a key that exists; a pipeline is not a transaction, commands *)
(* of other connections come between its own.                              *)
RedisExpire(h) ==
    /\ pc[h] = "expire" /\ Goto(h, "reply")
    /\ LET s == call[h].ts
           k == call[h].key
       IN ttl' = IF count[s][k] > 0 THEN [ttl EXCEPT ![s][k] = Expiry] ELSE ttl
    /\ UNCHANGED <<config, now, gens, count, call, history>>

RedisReply(h) ==
    /\ pc[h] = "reply"
    /\ Return(h, "redis", Allows(call[h].class, call[h].val))
    /\ UNCHANGED <<config, now, gens, redis>>

(* An error, before or after Redis has run the commands: FallbackRate-     *)
(* Limiter then asks the memory, RedisFrontendRateLimiter alone gives up.  *)
RedisError(h) ==
    /\ pc[h] \in {"incr", "reply"}
    /\ IF kind = "fallback" THEN Goto(h, "memory") /\ UNCHANGED <<call, history>>
       ELSE /\ Goto(h, "idle")
            /\ call' = [call EXCEPT ![h] = NoCall] /\ UNCHANGED history
    /\ UNCHANGED <<config, now, gens, redis>>

Tick ==
    /\ now < MaxTime /\ now' = now + 1
    /\ count' = [s \in Times |-> [k \in Keys |->
                    IF ttl[s][k] = 1 THEN 0 ELSE count[s][k]]]
    /\ ttl' = [s \in Times |-> [k \in Keys |->
                    IF ttl[s][k] = 0 THEN 0 ELSE ttl[s][k] - 1]]
    /\ UNCHANGED <<config, gens, pc, call, history>>

Next ==
    \/ Tick
    \/ \E h \in Handlers :
         \/ \E class \in Classes, k \in Keys : Begin(h, class, k)
         \/ MemoryGeneration(h) \/ MemoryTake(h)
         \/ RedisKey(h) \/ RedisIncr(h) \/ RedisExpire(h) \/ RedisReply(h)
         \/ RedisError(h)

Spec == Init /\ [][Next]_vars

-----------------------------------------------------------------------------
(* "Take consumes a key, and a maximum number of requests per time         *)
(* interval": in memory a limiter lets at most its limit of the calls of   *)
(* an interval through, for each key, also when a handler still holds an   *)
(* older generation.  An interval shorter than a second counts as one.     *)
MemoryLimits ==
    \A c \in Classes, w \in Times, k \in Keys : granted["memory"][c][w][k] <= Limits[c]

(* The calls that a store counts together with those of a limiter.         *)
Counted(store, class, w, k) ==
    IF store = "redis"
    THEN taken["redis"]["override"][w][k] + taken["redis"]["highPrio"][w][k]
    ELSE taken[store][class][w][k]

(* A call is refused only "as a result of the requestor being over the     *)
(* limit": more calls than that were made with its key and in its window,  *)
(* to its own limiter in memory, to both limiters of the method in Redis.  *)
DeniedOverLimitOnly ==
    \A d \in denied : Counted(d[1], d[2], d[3], d[4]) > Limits[d[2]]
=============================================================================
