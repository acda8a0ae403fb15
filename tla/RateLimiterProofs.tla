-------------------------- MODULE RateLimiterProofs --------------------------
(* Theorems about the frontend rate limiters, for any handlers, keys,      *)
(* limits and intervals.                                                   *)
EXTENDS RateLimiter, FiniteSetTheorems, TLAPS

(* The truncated time and the window at time t, for an interval of d.      *)
TruncAt(t, d)  == (t - (t % d)) \div Second
WindowAt(t, d) == IF d < Second THEN TruncAt(t, d) ELSE t \div d

(* The truncated time that stands for window w.                            *)
Stamp(w, d) == IF d < Second THEN w ELSE (d * w) \div Second

LEMMA Euclid ==
    ASSUME NEW a \in Nat, NEW d \in Nat \ {0}
    PROVE  /\ a \div d \in Nat /\ a \div d <= a
           /\ a - (a % d) = d * (a \div d)
           /\ d * (a \div d) \in Nat /\ d * (a \div d) <= a
<1>1. a \div d \in Nat /\ a \div d <= a
  BY Z3
<1>2. a % d \in Nat
  BY Z3
<1>3. a = d * (a \div d) + (a % d)
  BY Z3
<1>4. d * (a \div d) \in Nat
  BY Z3, <1>1
<1> QED
  BY Z3, <1>1, <1>2, <1>3, <1>4

LEMMA DivMonotone ==
    ASSUME NEW a \in Nat, NEW b \in Nat, a <= b, NEW d \in Nat \ {0}
    PROVE  a \div d <= b \div d
  BY Z3

LEMMA DivApart ==
    ASSUME NEW a \in Nat, NEW b \in Nat, NEW d \in Nat \ {0}, a + d <= b
    PROVE  a \div d < b \div d
  BY Z3

LEMMA TimesMonotone ==
    ASSUME NEW a \in Nat, NEW b \in Nat, a <= b, NEW d \in Nat
    PROVE  d * a \in Nat /\ d * b \in Nat /\ d * a <= d * b
  BY Z3

LEMMA TimesNext == ASSUME NEW a \in Nat, NEW d \in Nat PROVE d * (a + 1) = d * a + d
  BY Z3

LEMMA TruncIs ==
    ASSUME NEW t \in Nat, NEW d \in Nat \ {0}
    PROVE  /\ TruncAt(t, d) = (d * (t \div d)) \div Second
           /\ TruncAt(t, d) \in Nat /\ TruncAt(t, d) <= t
<1>1. Second \in Nat \ {0}
  BY Zenon, LimiterAssumption
<1> DEFINE m == d * (t \div d)
<1>2. TruncAt(t, d) = m \div Second /\ m \in Nat /\ m <= t
  BY Zenon, Euclid DEF TruncAt
<1> HIDE DEF m
<1>3. m \div Second \in Nat /\ m \div Second <= m
  BY Zenon, <1>1, <1>2, Euclid
<1>4. m \div Second <= t
  BY SMT, <1>2, <1>3
<1> QED
  BY Zenon, <1>2, <1>3, <1>4 DEF m

LEMMA TruncMonotone ==
    ASSUME NEW t \in Nat, NEW u \in Nat, t <= u, NEW d \in Nat \ {0}
    PROVE  TruncAt(t, d) <= TruncAt(u, d)
<1>1. Second \in Nat \ {0} /\ d \in Nat
  BY Zenon, LimiterAssumption
<1>2. t \div d \in Nat /\ u \div d \in Nat /\ t \div d <= u \div d
  BY Zenon, Euclid, DivMonotone
<1>3. /\ d * (t \div d) \in Nat /\ d * (u \div d) \in Nat
      /\ d * (t \div d) <= d * (u \div d)
  BY Zenon, <1>1, <1>2, TimesMonotone
<1>4. (d * (t \div d)) \div Second <= (d * (u \div d)) \div Second
  BY Zenon, <1>1, <1>3, DivMonotone
<1> QED
  BY Zenon, <1>4, TruncIs

LEMMA WindowTime ==
    ASSUME NEW t \in Times, NEW d \in Durs
    PROVE  /\ TruncAt(t, d) \in Times /\ WindowAt(t, d) \in Times
           /\ Stamp(WindowAt(t, d), d) = TruncAt(t, d)
<1>1. t \in Nat /\ d \in Nat \ {0} /\ MaxTime \in Nat
  BY SMT, LimiterAssumption DEF Times
<1>2. TruncAt(t, d) \in Nat /\ TruncAt(t, d) <= t /\ t \div d \in Nat /\ t \div d <= t
  BY Zenon, <1>1, TruncIs, Euclid
<1>3. TruncAt(t, d) \in Times /\ t \div d \in Times
  BY SMT, <1>1, <1>2 DEF Times
<1>4. TruncAt(t, d) = (d * (t \div d)) \div Second
  BY Zenon, <1>1, TruncIs
<1> QED
  BY Zenon, <1>3, <1>4 DEF WindowAt, Stamp

LEMMA StampBelow ==
    ASSUME NEW v \in Nat, NEW w \in Nat, v < w, NEW d \in Durs
    PROVE  Stamp(v, d) < Stamp(w, d)
<1>1. Second \in Nat \ {0} /\ d \in Nat /\ v + 1 \in Nat /\ v + 1 <= w
  BY SMT, LimiterAssumption
<1>2. CASE d < Second
  BY Zenon, <1>2 DEF Stamp
<1>3. CASE ~(d < Second)
  <2>1. d * (v + 1) = d * v + d /\ d * v \in Nat
    <3>1. v <= v
      BY SMT
    <3> QED
      BY Zenon, <3>1, <1>1, TimesNext, TimesMonotone
  <2>2. d * (v + 1) <= d * w /\ d * w \in Nat /\ d * (v + 1) \in Nat
    BY Zenon, <1>1, TimesMonotone
  <2> DEFINE x == d * v
             y == d * w
             z == d * (v + 1)
  <2>3. x \in Nat /\ y \in Nat /\ z = x + d /\ z <= y
    BY Zenon, <2>1, <2>2
  <2> HIDE DEF x, y, z
  <2>4. x + Second <= y
    BY SMT, <1>1, <1>3, <2>3
  <2>5. x \div Second < y \div Second
    BY Zenon, <1>1, <2>3, <2>4, DivApart
  <2> QED
    BY Zenon, <1>3, <2>5 DEF Stamp, x, y
<1> QED
  BY Zenon, <1>2, <1>3

LEMMA StampInjective ==
    ASSUME NEW v \in Times, NEW w \in Times, NEW d \in Durs, Stamp(v, d) = Stamp(w, d)
    PROVE  v = w
<1>1. v \in Nat /\ w \in Nat /\ (v < w \/ w < v \/ v = w)
  BY SMT, LimiterAssumption DEF Times
<1>2. Stamp(v, d) \in Nat
  <2>1. d \in Nat /\ Second \in Nat \ {0} /\ v <= v
    BY SMT, <1>1, LimiterAssumption
  <2>2. d * v \in Nat
    BY Zenon, <1>1, <2>1, TimesMonotone
  <2> QED
    BY Zenon, <1>1, <2>1, <2>2, Euclid DEF Stamp
<1>3. ~(Stamp(v, d) < Stamp(w, d)) /\ ~(Stamp(w, d) < Stamp(v, d))
  <2> DEFINE n == Stamp(v, d)
  <2>1. n \in Nat => ~(n < n)
    BY SMT
  <2> QED
    BY Zenon, <1>2, <2>1
<1> QED
  BY Zenon, <1>1, <1>3, StampBelow

-----------------------------------------------------------------------------
(* What a handler is about to count with: a generation, or a Redis key.    *)
Counter(l, c) == IF l = "generation" THEN <<c.class, c.gen, c.key>> ELSE <<c.ts, c.key>>

(* The handlers at l that are about to count with v.                       *)
At(p, a, l, v) == {h \in Handlers : p[h] = l /\ Counter(l, a[h]) = v}

OnlyMoves(h, p, a, q, b) == \A o \in Handlers : o # h => q[o] = p[o] /\ b[o] = a[o]

LEMMA AtFinite ==
    \A p, a, l, v : IsFiniteSet(At(p, a, l, v)) /\ Cardinality(At(p, a, l, v)) \in Nat
<1> SUFFICES ASSUME NEW p, NEW a, NEW l, NEW v
             PROVE  IsFiniteSet(At(p, a, l, v)) /\ Cardinality(At(p, a, l, v)) \in Nat
  BY Zenon
<1>1. At(p, a, l, v) \subseteq Handlers /\ IsFiniteSet(Handlers)
  BY Zenon, LimiterAssumption DEF At
<1>2. IsFiniteSet(At(p, a, l, v))
  BY Zenon, <1>1, FS_Subset
<1> QED
  BY Zenon, <1>2, FS_CardinalityType

LEMMA AtSame ==
    ASSUME NEW h \in Handlers, NEW p, NEW a, NEW q, NEW b, OnlyMoves(h, p, a, q, b),
           NEW l, p[h] # l, q[h] # l
    PROVE  \A v : At(q, b, l, v) = At(p, a, l, v)
  BY Zenon DEF At, OnlyMoves

(* From p and a to q and b, h has come to l and to nothing else.           *)
OneMore(h, p, a, q, b, l) ==
    \A v : Cardinality(At(q, b, l, v)) = IF v = Counter(l, b[h])
                                         THEN Cardinality(At(p, a, l, v)) + 1
                                         ELSE Cardinality(At(p, a, l, v))

LEMMA AtEnter ==
    ASSUME NEW h \in Handlers, NEW p, NEW a, NEW q, NEW b, OnlyMoves(h, p, a, q, b),
           NEW l, p[h] # l, q[h] = l
    PROVE  OneMore(h, p, a, q, b, l)
<1>1. ASSUME NEW v, v = Counter(l, b[h])
      PROVE  Cardinality(At(q, b, l, v)) = Cardinality(At(p, a, l, v)) + 1
  <2>1. At(q, b, l, v) = At(p, a, l, v) \cup {h} /\ h \notin At(p, a, l, v)
    BY Zenon, <1>1 DEF At, OnlyMoves
  <2>2. Cardinality(At(p, a, l, v) \cup {h}) = Cardinality(At(p, a, l, v)) + 1
    BY Zenon, <2>1, AtFinite, FS_AddElement
  <2> QED
    BY Zenon, <2>1, <2>2
<1>2. ASSUME NEW v, v # Counter(l, b[h])
      PROVE  Cardinality(At(q, b, l, v)) = Cardinality(At(p, a, l, v))
  <2>1. At(q, b, l, v) = At(p, a, l, v)
    BY Zenon, <1>2 DEF At, OnlyMoves
  <2> QED
    BY Zenon, <2>1
<1> QED
  BY Zenon, <1>1, <1>2 DEF OneMore

LEMMA AtLeave ==
    ASSUME NEW h \in Handlers, NEW p, NEW a, NEW q, NEW b, OnlyMoves(h, p, a, q, b),
           NEW l, p[h] = l, q[h] # l
    PROVE  OneMore(h, q, b, p, a, l)
<1>1. OnlyMoves(h, q, b, p, a)
  BY Zenon DEF OnlyMoves
<1> QED
  BY Zenon, <1>1, AtEnter

-----------------------------------------------------------------------------
Stores     == {"memory", "redis"}
Table      == [Keys -> Nat]
Generation == [ts : Nat, keys : Table]
History    == [Stores -> [Classes -> [Times -> Table]]]
PCs        == {"idle", "memory", "generation", "redis", "incr", "expire", "reply"}
CallType   == [class : Classes, key : Keys, window : Times, ts : Times, gen : Nat, val : Nat]

(* f and g differ by one call of limiter c with key k in window w.         *)
Bumped(f, g, s, c, w, k) ==
    /\ f \in History /\ g \in History
    /\ g[s][c][w][k] = f[s][c][w][k] + 1
    /\ \A z \in Stores, x \in Classes, v \in Times, j \in Keys :
          <<z, x, v, j>> # <<s, c, w, k>> => g[z][x][v][j] = f[z][x][v][j]

LEMMA HistoryType ==
    ASSUME NEW f \in History, NEW s \in Stores, NEW c \in Classes, NEW w \in Times, NEW k \in Keys
    PROVE  /\ f[s] \in [Classes -> [Times -> Table]] /\ f[s][c] \in [Times -> Table]
           /\ f[s][c][w] \in Table /\ f[s][c][w][k] \in Nat
<1>1. f[s] \in [Classes -> [Times -> Table]]
  BY Zenon DEF History
<1>2. f[s][c] \in [Times -> Table]
  BY Zenon, <1>1
<1>3. f[s][c][w] \in Table
  BY Zenon, <1>2
<1>4. f[s][c][w][k] \in Nat
  BY Zenon, <1>3 DEF Table
<1> QED
  BY Zenon, <1>1, <1>2, <1>3, <1>4

LEMMA BumpedIs ==
    ASSUME NEW f \in History, NEW s \in Stores, NEW c \in Classes, NEW w \in Times, NEW k \in Keys
    PROVE  Bumped(f, [f EXCEPT ![s][c][w][k] = @ + 1], s, c, w, k)
<1> DEFINE f3 == [f[s][c][w] EXCEPT ![k] = @ + 1]
           f2 == [f[s][c] EXCEPT ![w] = f3]
           f1 == [f[s] EXCEPT ![c] = f2]
           g  == [f EXCEPT ![s] = f1]
<1>1. g = [f EXCEPT ![s][c][w][k] = @ + 1]
  BY Zenon
<1>2. f[s] \in [Classes -> [Times -> Table]] /\ f[s][c] \in [Times -> Table] /\ f[s][c][w] \in Table
  BY Zenon, HistoryType
<1>3. f3 \in Table /\ f3[k] = f[s][c][w][k] + 1 /\ \A j \in Keys : j # k => f3[j] = f[s][c][w][j]
  BY SMT, <1>2 DEF Table
<1> HIDE DEF f3
<1>4. f2 \in [Times -> Table] /\ f2[w] = f3 /\ \A v \in Times : v # w => f2[v] = f[s][c][v]
  BY Zenon, <1>2, <1>3
<1> HIDE DEF f2
<1>5. f1 \in [Classes -> [Times -> Table]] /\ f1[c] = f2
      /\ \A x \in Classes : x # c => f1[x] = f[s][x]
  BY Zenon, <1>2, <1>4
<1> HIDE DEF f1
<1>6. g \in History /\ g[s] = f1 /\ \A z \in Stores : z # s => g[z] = f[z]
  BY Zenon, <1>5 DEF History
<1> HIDE DEF g
<1>7. g[s][c][w][k] = f[s][c][w][k] + 1
  BY Zenon, <1>3, <1>4, <1>5, <1>6
<1>8. ASSUME NEW z \in Stores, NEW x \in Classes, NEW v \in Times, NEW j \in Keys,
             <<z, x, v, j>> # <<s, c, w, k>>
      PROVE  g[z][x][v][j] = f[z][x][v][j]
  <2>1. CASE z # s
    BY Zenon, <2>1, <1>6
  <2>2. CASE z = s /\ x # c
    BY Zenon, <2>2, <1>5, <1>6
  <2>3. CASE z = s /\ x = c /\ v # w
    BY Zenon, <2>3, <1>4, <1>5, <1>6
  <2>4. CASE z = s /\ x = c /\ v = w /\ j # k
    BY Zenon, <2>4, <1>3, <1>4, <1>5, <1>6
  <2> QED
    BY Zenon, <2>1, <2>2, <2>3, <2>4, <1>8
<1>9. Bumped(f, g, s, c, w, k)
  BY Zenon, <1>6, <1>7, <1>8 DEF Bumped
<1> QED
  BY Zenon, <1>1, <1>9

LEMMA BumpedMore ==
    ASSUME NEW f, NEW g, NEW s, NEW c, NEW w, NEW k, Bumped(f, g, s, c, w, k)
    PROVE  \A z \in Stores, x \in Classes, v \in Times, j \in Keys :
              f[z][x][v][j] <= g[z][x][v][j]
<1> SUFFICES ASSUME NEW z \in Stores, NEW x \in Classes, NEW v \in Times, NEW j \in Keys
             PROVE  f[z][x][v][j] <= g[z][x][v][j]
  BY Zenon
<1>1. f[z][x][v][j] \in Nat
  BY Zenon, HistoryType DEF Bumped
<1>2. CASE <<z, x, v, j>> = <<s, c, w, k>>
  <2>1. g[z][x][v][j] = f[z][x][v][j] + 1
    BY Zenon, <1>2 DEF Bumped
  <2> QED
    BY SMT, <1>1, <2>1
<1>3. CASE <<z, x, v, j>> # <<s, c, w, k>>
  <2>1. g[z][x][v][j] = f[z][x][v][j]
    BY Zenon, <1>3 DEF Bumped
  <2> QED
    BY SMT, <1>1, <2>1
<1> QED
  BY Zenon, <1>2, <1>3

-----------------------------------------------------------------------------
Generations == [Classes -> Seq(Generation)]

(* Generations are made for ever later times, none of them yet to come.    *)
InTurn(G, ts) ==
    \A c \in Classes :
        /\ \A i \in 1..Len(G[c]) : G[c][i].ts <= ts
        /\ \A i, j \in 1..Len(G[c]) : i < j => G[c][i].ts < G[c][j].ts

(* What a handler holds belongs to the window it was counted in.           *)
Holding(G, l, c, d) ==
    /\ l = "generation" => c.gen \in 1..Len(G[c.class])
                           /\ G[c.class][c.gen].ts = Stamp(c.window, d)
    /\ l \in {"incr", "expire", "reply"} => c.ts = Stamp(c.window, d)

AllHolding(G, p, a, d) == \A h \in Handlers : Holding(G, p[h], a[h], d)

(* What a window let through is within the limit and within what its       *)
(* generation has counted.                                                 *)
GrantsOK(G, d, r) ==
    \A c \in Classes, w \in Times, k \in Keys :
        /\ r["memory"][c][w][k] <= Limits[c]
        /\ \A i \in 1..Len(G[c]) : G[c][i].ts = Stamp(w, d) => r["memory"][c][w][k] <= G[c][i].keys[k]
        /\ (\A i \in 1..Len(G[c]) : G[c][i].ts # Stamp(w, d)) => r["memory"][c][w][k] = 0

(* What a generation has counted, with the handlers that are about to, is  *)
(* within the calls of its window.                                         *)
MemoryOK(G, p, a, d, t) ==
    \A c \in Classes, w \in Times, k \in Keys : \A g \in 1..Len(G[c]) :
        G[c][g].ts = Stamp(w, d) =>
            G[c][g].keys[k] + Cardinality(At(p, a, "generation", <<c, g, k>>)) <= t["memory"][c][w][k]

(* H is G with, where it is missing, a generation of limiter c for T.      *)
Grown(G, H, c, T) ==
    /\ H \in Generations
    /\ \A x \in Classes : \A i \in 1..Len(G[x]) : i \in 1..Len(H[x]) /\ H[x][i] = G[x][i]
    /\ Len(H[c]) \in 1..Len(H[c]) /\ H[c][Len(H[c])].ts = T
    /\ \A x \in Classes : \A i \in 1..Len(H[x]) :
          \/ i \in 1..Len(G[x])
          \/ /\ x = c /\ i = Len(G[c]) + 1 /\ i \notin 1..Len(G[c])
             /\ H[c][i] = [ts |-> T, keys |-> None]
             /\ \A j \in 1..Len(G[c]) : G[c][j].ts < T

LEMMA NoneType == None \in Table /\ \A k \in Keys : None[k] = 0
  BY SMT DEF None, Table

LEMMA GenerationGrows ==
    ASSUME NEW G \in Generations, NEW c \in Classes, NEW T \in Nat, InTurn(G, T)
    PROVE  Grown(G, IF Current(G[c], T) THEN G
                    ELSE [G EXCEPT ![c] = Append(@, [ts |-> T, keys |-> None])], c, T)
<1>1. G[c] \in Seq(Generation) /\ DOMAIN G = Classes
  BY Zenon DEF Generations
<1>2. CASE Current(G[c], T)
  <2>1. Len(G[c]) \in 1..Len(G[c])
    BY SMT, <1>1, <1>2 DEF Current
  <2>2. G[c][Len(G[c])].ts = T
    BY Zenon, <1>2 DEF Current
  <2>3. Grown(G, G, c, T)
    BY Zenon, <2>1, <2>2 DEF Grown
  <2> QED
    BY Zenon, <1>2, <2>3
<1>3. CASE ~Current(G[c], T)
  <2> DEFINE e == [ts |-> T, keys |-> None]
             H == [G EXCEPT ![c] = Append(@, e)]
             n == Len(G[c])
  <2>1. e \in Generation /\ e.ts = T
    BY SMT, NoneType DEF Generation
  <2> HIDE DEF e
  <2>2. H[c] = Append(G[c], e) /\ \A x \in Classes : x # c => H[x] = G[x]
    BY Zenon, <1>1
  <2>3. /\ Append(G[c], e) \in Seq(Generation) /\ Len(Append(G[c], e)) = n + 1 /\ n \in Nat
        /\ \A i \in 1..n : Append(G[c], e)[i] = G[c][i]
        /\ Append(G[c], e)[n + 1] = e
    BY SMT, <1>1, <2>1
  <2>4. H \in Generations
    BY Zenon, <2>3 DEF Generations
  <2> HIDE DEF H, n
  <2>5. /\ n + 1 \in 1..(n + 1) /\ n + 1 \notin 1..n
        /\ \A i \in 1..n : i \in 1..(n + 1)
        /\ \A i \in 1..(n + 1) : i \in 1..n \/ i = n + 1
    BY SMT, <2>3
  <2>6. ASSUME NEW j \in 1..n PROVE G[c][j].ts < T
    <3>1. G[c] # << >> /\ n \in 1..n /\ (j < n \/ j = n)
      BY SMT, <1>1, <2>3 DEF n
    <3>2. G[c][n].ts # T
      BY Zenon, <1>3, <3>1 DEF Current, n
    <3>3. G[c][n].ts <= T /\ (j < n => G[c][j].ts < G[c][n].ts)
      BY Zenon, <3>1 DEF InTurn, n
    <3>4. G[c][n] \in Generation /\ G[c][j] \in Generation
      BY SMT, <1>1, <3>1 DEF n
    <3>5. G[c][n].ts \in Nat /\ G[c][j].ts \in Nat
      BY SMT, <3>4 DEF Generation
    <3> QED
      BY SMT, <3>1, <3>2, <3>3, <3>5
  <2>7. \A x \in Classes : \A i \in 1..Len(G[x]) : i \in 1..Len(H[x]) /\ H[x][i] = G[x][i]
    BY Zenon, <2>2, <2>3, <2>5 DEF n
  <2>8. Len(H[c]) \in 1..Len(H[c]) /\ H[c][Len(H[c])].ts = T
    BY Zenon, <2>1, <2>2, <2>3, <2>5
  <2>9. ASSUME NEW x \in Classes, NEW i \in 1..Len(H[x])
        PROVE  \/ i \in 1..Len(G[x])
               \/ /\ x = c /\ i = n + 1 /\ i \notin 1..n /\ H[c][i] = e
                  /\ \A j \in 1..n : G[c][j].ts < T
    <3>1. CASE x # c
      BY Zenon, <3>1, <2>2
    <3>2. CASE x = c
      <4>1. i \in 1..(n + 1)
        BY Zenon, <3>2, <2>2, <2>3
      <4>2. H[c][n + 1] = e
        BY Zenon, <2>2, <2>3
      <4>3. CASE i \in 1..n
        BY Zenon, <3>2, <4>3 DEF n
      <4>4. CASE i = n + 1
        BY Zenon, <3>2, <4>2, <4>4, <2>5, <2>6
      <4> QED
        BY Zenon, <4>1, <4>3, <4>4, <2>5
    <3> QED
      BY Zenon, <3>1, <3>2
  <2>10. Grown(G, H, c, T)
    BY Zenon, <2>4, <2>7, <2>8, <2>9 DEF Grown, n, e
  <2> QED
    BY Zenon, <1>3, <2>10 DEF H, e
<1> QED
  BY Zenon, <1>2, <1>3

LEMMA GenerationType ==
    ASSUME NEW G \in Generations, NEW c \in Classes, NEW i \in 1..Len(G[c]), NEW k \in Keys
    PROVE  G[c][i].ts \in Nat /\ G[c][i].keys \in Table /\ G[c][i].keys[k] \in Nat
<1>1. G[c] \in Seq(Generation)
  BY Zenon DEF Generations
<1>2. G[c][i] \in Generation
  BY SMT, <1>1
<1>3. G[c][i].ts \in Nat /\ G[c][i].keys \in Table
  BY SMT, <1>2 DEF Generation
<1> QED
  BY Zenon, <1>3 DEF Table

LEMMA GrownInTurn ==
    ASSUME NEW G \in Generations, NEW H, NEW c \in Classes, NEW T \in Nat,
           InTurn(G, T), Grown(G, H, c, T)
    PROVE  InTurn(H, T)
<1>1. ASSUME NEW x \in Classes, NEW i \in 1..Len(H[x]) PROVE H[x][i].ts <= T
  <2>1. CASE i \in 1..Len(G[x])
    <3>1. H[x][i] = G[x][i] /\ G[x][i].ts <= T
      BY Zenon, <2>1 DEF Grown, InTurn
    <3> QED
      BY Zenon, <3>1
  <2>2. CASE x = c /\ H[c][i] = [ts |-> T, keys |-> None]
    <3>1. H[x][i].ts = T /\ T <= T
      BY SMT, <2>2
    <3> QED
      BY Zenon, <3>1
  <2> QED
    BY Zenon, <2>1, <2>2 DEF Grown
<1>2. ASSUME NEW x \in Classes, NEW i \in 1..Len(H[x]), NEW j \in 1..Len(H[x]), i < j
      PROVE  H[x][i].ts < H[x][j].ts
  <2>1. CASE i \in 1..Len(G[x]) /\ j \in 1..Len(G[x])
    <3>1. H[x][i] = G[x][i] /\ H[x][j] = G[x][j] /\ G[x][i].ts < G[x][j].ts
      BY Zenon, <1>2, <2>1 DEF Grown, InTurn
    <3> QED
      BY Zenon, <3>1
  <2>2. CASE /\ i \in 1..Len(G[x]) /\ x = c /\ H[c][j] = [ts |-> T, keys |-> None]
             /\ \A m \in 1..Len(G[c]) : G[c][m].ts < T
    <3>1. H[x][i] = G[x][i] /\ G[x][i].ts < T
      BY Zenon, <2>2 DEF Grown
    <3>2. H[x][j].ts = T
      BY SMT, <2>2
    <3> QED
      BY Zenon, <3>1, <3>2
  <2>3. CASE i \notin 1..Len(G[x])
    <3>1. i = Len(G[x]) + 1 /\ (j \in 1..Len(G[x]) \/ j = Len(G[x]) + 1)
      BY Zenon, <2>3 DEF Grown
    <3>2. Len(G[x]) \in Nat
      BY SMT DEF Generations
    <3> QED
      BY SMT, <1>2, <3>1, <3>2
  <2> QED
    BY Zenon, <2>1, <2>2, <2>3 DEF Grown
<1> QED
  BY Zenon, <1>1, <1>2 DEF InTurn

LEMMA GrownHolding ==
    ASSUME NEW G, NEW H, NEW c, NEW T, Grown(G, H, c, T), NEW l, NEW a, a.class \in Classes,
           NEW d, Holding(G, l, a, d)
    PROVE  Holding(H, l, a, d)
  BY Zenon DEF Grown, Holding

LEMMA GrownGrants ==
    ASSUME NEW G \in Generations, NEW H, NEW c \in Classes, NEW T \in Nat, Grown(G, H, c, T),
           NEW d, NEW r \in History, GrantsOK(G, d, r)
    PROVE  GrantsOK(H, d, r)
<1> SUFFICES ASSUME NEW x \in Classes, NEW w \in Times, NEW k \in Keys
             PROVE  /\ r["memory"][x][w][k] <= Limits[x]
                    /\ \A i \in 1..Len(H[x]) : H[x][i].ts = Stamp(w, d) =>
                          r["memory"][x][w][k] <= H[x][i].keys[k]
                    /\ (\A i \in 1..Len(H[x]) : H[x][i].ts # Stamp(w, d)) => r["memory"][x][w][k] = 0
  BY Zenon DEF GrantsOK
<1> DEFINE n == r["memory"][x][w][k]
<1>1. /\ n <= Limits[x]
      /\ \A i \in 1..Len(G[x]) : G[x][i].ts = Stamp(w, d) => n <= G[x][i].keys[k]
      /\ (\A i \in 1..Len(G[x]) : G[x][i].ts # Stamp(w, d)) => n = 0
  BY Zenon DEF GrantsOK
<1> HIDE DEF n
<1>2. ASSUME NEW i \in 1..Len(H[x]), H[x][i].ts = Stamp(w, d) PROVE n <= H[x][i].keys[k]
  <2>1. CASE i \in 1..Len(G[x])
    <3>1. H[x][i] = G[x][i]
      BY Zenon, <2>1 DEF Grown
    <3> QED
      BY Zenon, <1>1, <1>2, <2>1, <3>1
  <2>2. CASE /\ x = c /\ H[c][i] = [ts |-> T, keys |-> None]
             /\ \A j \in 1..Len(G[c]) : G[c][j].ts < T
    <3>1. H[x][i].ts = T /\ H[x][i].keys = None
      BY SMT, <2>2
    <3>2. H[x][i].keys[k] = 0
      BY Zenon, <3>1, NoneType
    <3>3. ASSUME NEW j \in 1..Len(G[x]) PROVE G[x][j].ts # Stamp(w, d)
      <4>1. G[x][j].ts < T /\ T = Stamp(w, d) /\ ~(T < T)
        BY SMT, <1>2, <2>2, <3>1
      <4> QED
        BY Zenon, <4>1
    <3>4. n = 0
      BY Zenon, <1>1, <3>3
    <3> QED
      BY SMT, <3>2, <3>4
  <2> QED
    BY Zenon, <2>1, <2>2 DEF Grown
<1>3. ASSUME \A i \in 1..Len(H[x]) : H[x][i].ts # Stamp(w, d) PROVE n = 0
  <2>1. ASSUME NEW j \in 1..Len(G[x]) PROVE G[x][j].ts # Stamp(w, d)
    <3>1. j \in 1..Len(H[x]) /\ H[x][j] = G[x][j]
      BY Zenon DEF Grown
    <3> QED
      BY Zenon, <1>3, <3>1
  <2> QED
    BY Zenon, <1>1, <2>1
<1> QED
  BY Zenon, <1>1, <1>2, <1>3 DEF n

LEMMA GrownCounts ==
    ASSUME NEW G \in Generations, NEW H, NEW c \in Classes, NEW T \in Nat, Grown(G, H, c, T),
           NEW p, NEW a, NEW d, NEW t \in History, AllHolding(G, p, a, d), MemoryOK(G, p, a, d, t)
    PROVE  MemoryOK(H, p, a, d, t)
<1> SUFFICES ASSUME NEW x \in Classes, NEW w \in Times, NEW k \in Keys, NEW g \in 1..Len(H[x]),
                    H[x][g].ts = Stamp(w, d)
             PROVE  H[x][g].keys[k] + Cardinality(At(p, a, "generation", <<x, g, k>>))
                       <= t["memory"][x][w][k]
  BY Zenon DEF MemoryOK
<1>1. CASE g \in 1..Len(G[x])
  <2>1. H[x][g] = G[x][g]
    BY Zenon, <1>1 DEF Grown
  <2>2. G[x][g].ts = Stamp(w, d)
    BY Zenon, <2>1
  <2>3. G[x][g].keys[k] + Cardinality(At(p, a, "generation", <<x, g, k>>))
           <= t["memory"][x][w][k]
    BY Zenon, <1>1, <2>2 DEF MemoryOK
  <2> QED
    BY Zenon, <2>1, <2>3
<1>2. CASE x = c /\ g \notin 1..Len(G[c]) /\ H[c][g] = [ts |-> T, keys |-> None]
  <2>1. H[x][g].keys = None
    BY SMT, <1>2
  <2>2. H[x][g].keys[k] = 0
    BY Zenon, <2>1, NoneType
  <2>3. ASSUME NEW h \in Handlers, p[h] = "generation", Counter("generation", a[h]) = <<x, g, k>>
        PROVE  FALSE
    <3>1. a[h].class = x /\ a[h].gen = g
      BY Zenon, <2>3 DEF Counter
    <3>2. a[h].gen \in 1..Len(G[a[h].class])
      BY Zenon, <2>3 DEF AllHolding, Holding
    <3> QED
      BY Zenon, <1>2, <3>1, <3>2
  <2>4. At(p, a, "generation", <<x, g, k>>) = {}
    BY Zenon, <2>3 DEF At
  <2>5. Cardinality(At(p, a, "generation", <<x, g, k>>)) = 0
    BY Zenon, <2>4, FS_EmptySet
  <2>6. "memory" \in Stores
    BY Zenon DEF Stores
  <2>7. t["memory"][x][w][k] \in Nat
    BY Zenon, <2>6, HistoryType
  <2> QED
    BY SMT, <2>2, <2>5, <2>7
<1> QED
  BY Zenon, <1>1, <1>2 DEF Grown

(* A handler comes to a generation and is counted in its window.           *)
LEMMA EnterGeneration ==
    ASSUME NEW G \in Generations, NEW p, NEW a, NEW q, NEW b, NEW d \in Durs,
           NEW t, NEW u, NEW h, OneMore(h, p, a, q, b, "generation"),
           NEW c \in Classes, NEW g, NEW k \in Keys, NEW w \in Times,
           Counter("generation", b[h]) = <<c, g, k>>, G[c][g].ts = Stamp(w, d),
           Bumped(t, u, "memory", c, w, k), MemoryOK(G, p, a, d, t)
    PROVE  MemoryOK(G, q, b, d, u)
<1> SUFFICES ASSUME NEW x \in Classes, NEW v \in Times, NEW j \in Keys, NEW i \in 1..Len(G[x]),
                    G[x][i].ts = Stamp(v, d)
             PROVE  G[x][i].keys[j] + Cardinality(At(q, b, "generation", <<x, i, j>>))
                       <= u["memory"][x][v][j]
  BY Zenon DEF MemoryOK
<1> DEFINE m == G[x][i].keys[j]
           old == Cardinality(At(p, a, "generation", <<x, i, j>>))
           new == Cardinality(At(q, b, "generation", <<x, i, j>>))
           T == t["memory"][x][v][j]
           U == u["memory"][x][v][j]
<1>1. "memory" \in Stores
  BY Zenon DEF Stores
<1>2. m \in Nat /\ old \in Nat /\ T \in Nat /\ U \in Nat
  BY Zenon, <1>1, GenerationType, AtFinite, HistoryType DEF Bumped
<1>3. m + old <= T
  BY Zenon DEF MemoryOK
<1>4. T <= U
  BY Zenon, <1>1, BumpedMore
<1>5. CASE <<x, i, j>> = <<c, g, k>>
  <2>1. x = c /\ i = g /\ j = k
    BY Zenon, <1>5
  <2>2. v = w
    BY Zenon, <2>1, StampInjective
  <2>3. U = T + 1
    BY Zenon, <2>1, <2>2 DEF Bumped
  <2>4. new = old + 1
    BY Zenon, <1>5 DEF OneMore
  <2> HIDE DEF m, old, new, T, U
  <2>5. m + new <= U
    BY SMT, <1>2, <1>3, <2>3, <2>4
  <2> QED
    BY Zenon, <2>5 DEF m, new, U
<1>6. CASE <<x, i, j>> # <<c, g, k>>
  <2>1. new = old
    BY Zenon, <1>6 DEF OneMore
  <2> HIDE DEF m, old, new, T, U
  <2>2. m + new <= U
    BY SMT, <1>2, <1>3, <1>4, <2>1
  <2> QED
    BY Zenon, <2>2 DEF m, new, U
<1> QED
  BY Zenon, <1>5, <1>6

(* H is G with key k counted once more in generation g of limiter c.       *)
OneTaken(G, H, c, g, k) ==
    /\ H \in Generations
    /\ \A x \in Classes : Len(H[x]) = Len(G[x])
    /\ \A x \in Classes : \A i \in 1..Len(G[x]) : H[x][i].ts = G[x][i].ts
    /\ H[c][g].keys[k] = G[c][g].keys[k] + 1
    /\ \A x \in Classes, j \in Keys : \A i \in 1..Len(G[x]) :
          <<x, i, j>> # <<c, g, k>> => H[x][i].keys[j] = G[x][i].keys[j]

LEMMA OneTakenIs ==
    ASSUME NEW G \in Generations, NEW c \in Classes, NEW g \in 1..Len(G[c]), NEW k \in Keys
    PROVE  OneTaken(G, [G EXCEPT ![c][g].keys[k] = G[c][g].keys[k] + 1], c, g, k)
<1> DEFINE n == G[c][g].keys[k] + 1
           y == [G[c][g].keys EXCEPT ![k] = n]
           e == [G[c][g] EXCEPT !.keys = y]
           z == [G[c] EXCEPT ![g] = e]
           H == [G EXCEPT ![c] = z]
<1>1. H = [G EXCEPT ![c][g].keys[k] = G[c][g].keys[k] + 1]
  BY Zenon
<1>2. G[c] \in Seq(Generation) /\ DOMAIN G = Classes
  BY Zenon DEF Generations
<1>3. G[c][g] \in Generation /\ G[c][g].keys \in Table /\ G[c][g].keys[k] \in Nat
  BY SMT, <1>2, GenerationType
<1>4. n \in Nat
  BY SMT, <1>3
<1>5. y \in Table /\ y[k] = n /\ \A j \in Keys : j # k => y[j] = G[c][g].keys[j]
  BY Zenon, <1>3, <1>4 DEF Table
<1> HIDE DEF y
<1>6. e \in Generation /\ e.ts = G[c][g].ts /\ e.keys = y
  BY SMT, <1>3, <1>5 DEF Generation
<1> HIDE DEF e
<1>7. z \in Seq(Generation) /\ Len(z) = Len(G[c]) /\ z[g] = e
      /\ \A i \in 1..Len(G[c]) : i # g => z[i] = G[c][i]
  BY SMT, <1>2, <1>6
<1> HIDE DEF z
<1>8. H \in Generations /\ H[c] = z /\ \A x \in Classes : x # c => H[x] = G[x]
  BY Zenon, <1>7 DEF Generations
<1> HIDE DEF H
<1>9. \A x \in Classes : Len(H[x]) = Len(G[x])
  BY Zenon, <1>7, <1>8
<1>10. ASSUME NEW x \in Classes, NEW i \in 1..Len(G[x]) PROVE H[x][i].ts = G[x][i].ts
  <2>1. CASE x = c /\ i = g
    BY Zenon, <2>1, <1>6, <1>7, <1>8
  <2>2. CASE x = c /\ i # g
    BY Zenon, <2>2, <1>7, <1>8
  <2>3. CASE x # c
    BY Zenon, <2>3, <1>8
  <2> QED
    BY Zenon, <2>1, <2>2, <2>3
<1>11. H[c][g].keys[k] = G[c][g].keys[k] + 1
  BY Zenon, <1>5, <1>6, <1>7, <1>8
<1>12. ASSUME NEW x \in Classes, NEW j \in Keys, NEW i \in 1..Len(G[x]),
              <<x, i, j>> # <<c, g, k>>
       PROVE  H[x][i].keys[j] = G[x][i].keys[j]
  <2>1. CASE x = c /\ i = g /\ j # k
    BY Zenon, <2>1, <1>5, <1>6, <1>7, <1>8
  <2>2. CASE x = c /\ i # g
    BY Zenon, <2>2, <1>7, <1>8
  <2>3. CASE x # c
    BY Zenon, <2>3, <1>8
  <2> QED
    BY Zenon, <2>1, <2>2, <2>3, <1>12
<1>13. OneTaken(G, H, c, g, k)
  BY Zenon, <1>8, <1>9, <1>10, <1>11, <1>12 DEF OneTaken
<1> QED
  BY Zenon, <1>1, <1>13

LEMMA TakenKeeps ==
    ASSUME NEW G \in Generations, NEW H, NEW c, NEW g, NEW k, OneTaken(G, H, c, g, k)
    PROVE  /\ \A ts : InTurn(G, ts) => InTurn(H, ts)
           /\ \A l, a, d : a.class \in Classes /\ Holding(G, l, a, d) => Holding(H, l, a, d)
<1>1. ASSUME NEW ts, InTurn(G, ts) PROVE InTurn(H, ts)
  <2>1. ASSUME NEW x \in Classes, NEW i \in 1..Len(H[x]) PROVE H[x][i].ts <= ts
    <3>1. i \in 1..Len(G[x]) /\ H[x][i].ts = G[x][i].ts
      BY Zenon DEF OneTaken
    <3>2. G[x][i].ts <= ts
      BY Zenon, <1>1, <3>1 DEF InTurn
    <3> QED
      BY Zenon, <3>1, <3>2
  <2>2. ASSUME NEW x \in Classes, NEW i \in 1..Len(H[x]), NEW j \in 1..Len(H[x]), i < j
        PROVE  H[x][i].ts < H[x][j].ts
    <3>1. /\ i \in 1..Len(G[x]) /\ H[x][i].ts = G[x][i].ts
          /\ j \in 1..Len(G[x]) /\ H[x][j].ts = G[x][j].ts
      BY Zenon DEF OneTaken
    <3>2. G[x][i].ts < G[x][j].ts
      BY Zenon, <1>1, <2>2, <3>1 DEF InTurn
    <3> QED
      BY Zenon, <3>1, <3>2
  <2> QED
    BY Zenon, <2>1, <2>2 DEF InTurn
<1>2. ASSUME NEW l, NEW a, NEW d, a.class \in Classes, Holding(G, l, a, d)
      PROVE  Holding(H, l, a, d)
  BY Zenon, <1>2 DEF OneTaken, Holding
<1> QED
  BY Zenon, <1>1, <1>2

LEMMA TakenCounts ==
    ASSUME NEW G \in Generations, NEW H, NEW p, NEW a, NEW q, NEW b, NEW d, NEW t \in History,
           NEW h, OneMore(h, q, b, p, a, "generation"),
           NEW c \in Classes, NEW g, NEW k \in Keys, Counter("generation", a[h]) = <<c, g, k>>,
           OneTaken(G, H, c, g, k), MemoryOK(G, p, a, d, t)
    PROVE  MemoryOK(H, q, b, d, t)
<1> SUFFICES ASSUME NEW x \in Classes, NEW v \in Times, NEW j \in Keys, NEW i \in 1..Len(H[x]),
                    H[x][i].ts = Stamp(v, d)
             PROVE  H[x][i].keys[j] + Cardinality(At(q, b, "generation", <<x, i, j>>))
                       <= t["memory"][x][v][j]
  BY Zenon DEF MemoryOK
<1>1. i \in 1..Len(G[x]) /\ G[x][i].ts = Stamp(v, d)
  BY Zenon DEF OneTaken
<1> DEFINE m == G[x][i].keys[j]
           n == H[x][i].keys[j]
           old == Cardinality(At(p, a, "generation", <<x, i, j>>))
           new == Cardinality(At(q, b, "generation", <<x, i, j>>))
           T == t["memory"][x][v][j]
<1>2. "memory" \in Stores
  BY Zenon DEF Stores
<1>3. m \in Nat /\ old \in Nat /\ new \in Nat /\ T \in Nat
  BY Zenon, <1>1, <1>2, GenerationType, AtFinite, HistoryType
<1>4. m + old <= T
  BY Zenon, <1>1 DEF MemoryOK
<1>5. n + new <= T
  <2>1. CASE <<x, i, j>> = <<c, g, k>>
    <3>1. n = m + 1
      <4>1. x = c /\ i = g /\ j = k
        BY Zenon, <2>1
      <4> QED
        BY Zenon, <4>1 DEF OneTaken
    <3>2. old = new + 1
      BY Zenon, <2>1 DEF OneMore
    <3> HIDE DEF m, n, old, new, T
    <3> QED
      BY SMT, <1>3, <1>4, <3>1, <3>2
  <2>2. CASE <<x, i, j>> # <<c, g, k>>
    <3>1. n = m
      BY Zenon, <1>1, <2>2 DEF OneTaken
    <3>2. old = new
      BY Zenon, <2>2 DEF OneMore
    <3> HIDE DEF m, n, old, new, T
    <3> QED
      BY SMT, <1>3, <1>4, <3>1, <3>2
  <2> QED
    BY Zenon, <2>1, <2>2
<1> QED
  BY Zenon, <1>5

LEMMA SameGeneration ==
    ASSUME NEW G \in Generations, NEW ts, InTurn(G, ts), NEW c \in Classes,
           NEW i \in 1..Len(G[c]), NEW j \in 1..Len(G[c]), G[c][i].ts = G[c][j].ts
    PROVE  i = j
<1>1. i < j \/ j < i \/ i = j
  BY SMT
<1>2. i < j => G[c][i].ts < G[c][j].ts
  BY Zenon DEF InTurn
<1>3. j < i => G[c][j].ts < G[c][i].ts
  BY Zenon DEF InTurn
<1>4. G[c][i].ts \in Nat /\ G[c][j].ts \in Nat
  <2>1. G[c] \in Seq(Generation)
    BY Zenon DEF Generations
  <2>2. G[c][i] \in Generation /\ G[c][j] \in Generation
    BY SMT, <2>1
  <2> QED
    BY SMT, <2>2 DEF Generation
<1> QED
  BY SMT, <1>1, <1>2, <1>3, <1>4

(* A take that is let through, or is not.                                  *)
LEMMA TakenGrants ==
    ASSUME NEW G \in Generations, NEW H, NEW ts, InTurn(G, ts), NEW d, NEW r \in History, NEW s,
           NEW c \in Classes, NEW g \in 1..Len(G[c]), NEW k \in Keys, NEW w \in Times,
           G[c][g].ts = Stamp(w, d), OneTaken(G, H, c, g, k), GrantsOK(G, d, r),
           s = r \/ (Bumped(r, s, "memory", c, w, k) /\ G[c][g].keys[k] < Limits[c])
    PROVE  GrantsOK(H, d, s)
<1> SUFFICES ASSUME NEW x \in Classes, NEW v \in Times, NEW j \in Keys
             PROVE  /\ s["memory"][x][v][j] <= Limits[x]
                    /\ \A i \in 1..Len(H[x]) : H[x][i].ts = Stamp(v, d) =>
                          s["memory"][x][v][j] <= H[x][i].keys[j]
                    /\ (\A i \in 1..Len(H[x]) : H[x][i].ts # Stamp(v, d)) => s["memory"][x][v][j] = 0
  BY Zenon DEF GrantsOK
<1> DEFINE n == r["memory"][x][v][j]
           m == s["memory"][x][v][j]
<1>1. "memory" \in Stores /\ Limits[x] \in Nat
  BY Zenon, LimiterAssumption DEF Stores
<1>2. n \in Nat
  BY Zenon, <1>1, HistoryType
<1>3. /\ n <= Limits[x]
      /\ \A i \in 1..Len(G[x]) : G[x][i].ts = Stamp(v, d) => n <= G[x][i].keys[j]
      /\ (\A i \in 1..Len(G[x]) : G[x][i].ts # Stamp(v, d)) => n = 0
  BY Zenon DEF GrantsOK
<1>4. \A i \in 1..Len(H[x]) : i \in 1..Len(G[x]) /\ H[x][i].ts = G[x][i].ts
  BY Zenon DEF OneTaken
<1>5. \A i \in 1..Len(G[x]) : i \in 1..Len(H[x])
  BY Zenon DEF OneTaken
<1>6. ASSUME NEW i \in 1..Len(G[x]) PROVE G[x][i].keys[j] <= H[x][i].keys[j]
  <2>1. G[x][i].keys[j] \in Nat
    BY Zenon, GenerationType
  <2>2. CASE <<x, i, j>> = <<c, g, k>>
    <3>1. x = c /\ i = g /\ j = k
      BY Zenon, <2>2
    <3>2. H[x][i].keys[j] = G[x][i].keys[j] + 1
      BY Zenon, <3>1 DEF OneTaken
    <3> QED
      BY SMT, <2>1, <3>2
  <2>3. CASE <<x, i, j>> # <<c, g, k>>
    <3>1. H[x][i].keys[j] = G[x][i].keys[j]
      BY Zenon, <2>3 DEF OneTaken
    <3> QED
      BY SMT, <2>1, <3>1
  <2> QED
    BY Zenon, <2>2, <2>3
<1>7. CASE m = n
  <2>1. ASSUME NEW i \in 1..Len(H[x]), H[x][i].ts = Stamp(v, d) PROVE m <= H[x][i].keys[j]
    <3>1. i \in 1..Len(G[x]) /\ n <= G[x][i].keys[j]
      BY Zenon, <1>3, <1>4, <2>1
    <3>2. G[x][i].keys[j] <= H[x][i].keys[j] /\ G[x][i].keys[j] \in Nat
      BY Zenon, <1>6, <3>1, GenerationType
    <3>3. H[x][i].keys[j] \in Nat
      BY Zenon, GenerationType DEF OneTaken
    <3> DEFINE e == G[x][i].keys[j]
               f == H[x][i].keys[j]
    <3>4. n \in Nat /\ m = n /\ n <= e /\ e <= f /\ e \in Nat /\ f \in Nat
      BY Zenon, <1>2, <1>7, <3>1, <3>2, <3>3
    <3> HIDE DEF m, n, e, f
    <3>5. m <= f
      BY SMT, <3>4
    <3> QED
      BY Zenon, <3>5 DEF f
  <2>2. ASSUME \A i \in 1..Len(H[x]) : H[x][i].ts # Stamp(v, d) PROVE m = 0
    <3>1. \A i \in 1..Len(G[x]) : G[x][i].ts # Stamp(v, d)
      BY Zenon, <1>4, <1>5, <2>2
    <3> QED
      BY Zenon, <1>3, <1>7, <3>1
  <2> QED
    BY Zenon, <1>3, <1>7, <2>1, <2>2
<1>8. CASE m # n
  <2>1. Bumped(r, s, "memory", c, w, k) /\ G[c][g].keys[k] < Limits[c]
    BY Zenon, <1>8
  <2>2. x = c /\ v = w /\ j = k
    BY Zenon, <1>1, <1>8, <2>1 DEF Bumped
  <2>3. m = n + 1
    BY Zenon, <2>1, <2>2 DEF Bumped
  <2>4. n <= G[c][g].keys[k] /\ G[c][g].keys[k] \in Nat
    BY Zenon, <1>3, <2>2, GenerationType
  <2>5. H[c][g].keys[k] = G[c][g].keys[k] + 1
    BY Zenon DEF OneTaken
  <2> DEFINE e == G[c][g].keys[k]
             f == H[c][g].keys[k]
  <2>6. m <= Limits[x] /\ m <= f
    <3>1. e < Limits[x]
      BY Zenon, <2>1, <2>2
    <3> HIDE DEF m, n, e, f
    <3>2. n <= e /\ e \in Nat /\ f = e + 1
      BY Zenon, <2>4, <2>5 DEF e, f
    <3> QED
      BY SMT, <1>1, <1>2, <2>3, <3>1, <3>2
  <2>7. ASSUME NEW i \in 1..Len(H[x]), H[x][i].ts = Stamp(v, d) PROVE m <= H[x][i].keys[j]
    <3>1. i \in 1..Len(G[c]) /\ G[c][i].ts = G[c][g].ts
      BY Zenon, <1>4, <2>2, <2>7
    <3>2. i = g
      BY Zenon, <3>1, SameGeneration
    <3> QED
      BY Zenon, <2>2, <2>6, <3>2
  <2>8. g \in 1..Len(H[x]) /\ H[x][g].ts = Stamp(v, d)
    BY Zenon, <1>4, <1>5, <2>2
  <2> QED
    BY Zenon, <2>6, <2>7, <2>8
<1> QED
  BY Zenon, <1>7, <1>8

-----------------------------------------------------------------------------
(* Redis: both limiters of the method count with the same key.             *)
Both(t, w, k) == t["redis"]["override"][w][k] + t["redis"]["highPrio"][w][k]

(* What a key has counted, with the handlers that are about to, is within  *)
(* the calls of both limiters in its window; expiry only makes it less.    *)
RedisOK(C, p, a, d, t) ==
    \A s \in Times, w \in Times, k \in Keys :
        s = Stamp(w, d) => C[s][k] + Cardinality(At(p, a, "incr", <<s, k>>)) <= Both(t, w, k)

(* A value that INCR returned, less one, is below the calls of its window. *)
Replied(l, c, t) == l \in {"expire", "reply"} => c.val < Both(t, c.window, c.key)

AllReplied(p, a, t) == \A h \in Handlers : Replied(p[h], a[h], t)

CountedIn(t, s, c, w, k) == IF s = "redis" THEN Both(t, w, k) ELSE t[s][c][w][k]

DeniedOK(D, t) == \A d \in D : CountedIn(t, d[1], d[2], d[3], d[4]) > Limits[d[2]]

Refusals == Stores \X Classes \X Times \X Keys

LEMMA BothType ==
    ASSUME NEW t \in History, NEW w \in Times, NEW k \in Keys
    PROVE  Both(t, w, k) \in Nat
<1>1. "redis" \in Stores /\ "override" \in Classes /\ "highPrio" \in Classes
  BY Zenon DEF Stores, Classes
<1>2. t["redis"]["override"][w][k] \in Nat /\ t["redis"]["highPrio"][w][k] \in Nat
  BY Zenon, <1>1, HistoryType
<1> QED
  BY SMT, <1>2 DEF Both

(* A recorded call counts for its window, and takes nothing from others.   *)
LEMMA BumpedCounts ==
    ASSUME NEW t, NEW u, NEW s \in Stores, NEW c \in Classes, NEW w \in Times, NEW k \in Keys,
           Bumped(t, u, s, c, w, k)
    PROVE  \A v \in Times, j \in Keys : Both(t, v, j) <= Both(u, v, j)
<1>1. "redis" \in Stores /\ "override" \in Classes /\ "highPrio" \in Classes
  BY Zenon DEF Stores, Classes
<1>2. t \in History /\ u \in History
  BY Zenon DEF Bumped
<1>3. ASSUME NEW v \in Times, NEW j \in Keys PROVE Both(t, v, j) <= Both(u, v, j)
  <2>1. /\ t["redis"]["override"][v][j] <= u["redis"]["override"][v][j]
        /\ t["redis"]["highPrio"][v][j] <= u["redis"]["highPrio"][v][j]
    BY Zenon, <1>1, BumpedMore
  <2>2. /\ t["redis"]["override"][v][j] \in Nat /\ u["redis"]["override"][v][j] \in Nat
        /\ t["redis"]["highPrio"][v][j] \in Nat /\ u["redis"]["highPrio"][v][j] \in Nat
    BY Zenon, <1>1, <1>2, HistoryType
  <2> QED
    BY SMT, <2>1, <2>2 DEF Both
<1> QED
  BY Zenon, <1>3

LEMMA BumpedBoth ==
    ASSUME NEW t, NEW u, NEW c \in Classes, NEW w \in Times, NEW k \in Keys,
           Bumped(t, u, "redis", c, w, k)
    PROVE  Both(u, w, k) = Both(t, w, k) + 1
<1> DEFINE o == t["redis"]["override"][w][k]
           h == t["redis"]["highPrio"][w][k]
           x == u["redis"]["override"][w][k]
           y == u["redis"]["highPrio"][w][k]
<1>1. "redis" \in Stores /\ "override" \in Classes /\ "highPrio" \in Classes
  BY Zenon DEF Stores, Classes
<1>2. o \in Nat /\ h \in Nat
  BY Zenon, <1>1, HistoryType DEF Bumped
<1>3. (x = o + 1 /\ y = h) \/ (y = h + 1 /\ x = o)
  <2>1. CASE c = "override"
    <3>1. <<"redis", "highPrio", w, k>> # <<"redis", c, w, k>>
      BY SMT, <2>1
    <3> QED
      BY Zenon, <1>1, <2>1, <3>1 DEF Bumped
  <2>2. CASE c = "highPrio"
    <3>1. <<"redis", "override", w, k>> # <<"redis", c, w, k>>
      BY SMT, <2>2
    <3> QED
      BY Zenon, <1>1, <2>2, <3>1 DEF Bumped
  <2> QED
    BY Zenon, <2>1, <2>2 DEF Classes
<1>4. x + y = (o + h) + 1
  <2> HIDE DEF o, h, x, y
  <2> QED
    BY SMT, <1>2, <1>3
<1> QED
  BY Zenon, <1>4 DEF Both

LEMMA BumpedKeeps ==
    ASSUME NEW t, NEW u, NEW s \in Stores, NEW c \in Classes, NEW w \in Times, NEW k \in Keys,
           Bumped(t, u, s, c, w, k)
    PROVE  /\ \A D \in SUBSET Refusals : DeniedOK(D, t) => DeniedOK(D, u)
           /\ \A l, a : a \in CallType /\ Replied(l, a, t) => Replied(l, a, u)
<1>1. t \in History /\ u \in History
  BY Zenon DEF Bumped
<1>2. ASSUME NEW D \in SUBSET Refusals, DeniedOK(D, t) PROVE DeniedOK(D, u)
  <2> SUFFICES ASSUME NEW d \in D PROVE CountedIn(u, d[1], d[2], d[3], d[4]) > Limits[d[2]]
    BY Zenon DEF DeniedOK
  <2>1. d[1] \in Stores /\ d[2] \in Classes /\ d[3] \in Times /\ d[4] \in Keys
    BY SMT DEF Refusals
  <2>2. CountedIn(t, d[1], d[2], d[3], d[4]) > Limits[d[2]]
    BY Zenon, <1>2 DEF DeniedOK
  <2> DEFINE m == CountedIn(t, d[1], d[2], d[3], d[4])
             n == CountedIn(u, d[1], d[2], d[3], d[4])
  <2>3. m \in Nat /\ n \in Nat /\ Limits[d[2]] \in Nat
    BY Zenon, <1>1, <2>1, BothType, HistoryType, LimiterAssumption DEF CountedIn
  <2>4. m <= n
    BY Zenon, <2>1, BumpedCounts, BumpedMore DEF CountedIn
  <2> HIDE DEF m, n
  <2>5. m > Limits[d[2]]
    BY Zenon, <2>2 DEF m
  <2>6. n > Limits[d[2]]
    BY SMT, <2>3, <2>4, <2>5
  <2> QED
    BY Zenon, <2>6 DEF n
<1>3. ASSUME NEW l, NEW a \in CallType, Replied(l, a, t) PROVE Replied(l, a, u)
  <2> SUFFICES ASSUME l \in {"expire", "reply"} PROVE a.val < Both(u, a.window, a.key)
    BY Zenon DEF Replied
  <2>1. a.val \in Nat /\ a.window \in Times /\ a.key \in Keys
    BY SMT DEF CallType
  <2>2. a.val < Both(t, a.window, a.key)
    BY Zenon, <1>3 DEF Replied
  <2>3. Both(t, a.window, a.key) <= Both(u, a.window, a.key)
    BY Zenon, <2>1, BumpedCounts
  <2>4. Both(t, a.window, a.key) \in Nat /\ Both(u, a.window, a.key) \in Nat
    BY Zenon, <1>1, <2>1, BothType
  <2> QED
    BY SMT, <2>1, <2>2, <2>3, <2>4
<1> QED
  BY Zenon, <1>2, <1>3

Counters == [Times -> Table]

LEMMA CountType ==
    ASSUME NEW C \in Counters, NEW s \in Times, NEW k \in Keys
    PROVE  C[s] \in Table /\ C[s][k] \in Nat
BY Zenon DEF Counters, Table

(* A handler chooses its key, and its call is recorded.                    *)
LEMMA EnterKey ==
    ASSUME NEW C \in Counters, NEW p, NEW a, NEW q, NEW b, NEW d \in Durs, NEW t, NEW u,
           NEW h, OneMore(h, p, a, q, b, "incr"),
           NEW c \in Classes, NEW k \in Keys, NEW w \in Times,
           Counter("incr", b[h]) = <<Stamp(w, d), k>>,
           Bumped(t, u, "redis", c, w, k), RedisOK(C, p, a, d, t)
    PROVE  RedisOK(C, q, b, d, u)
<1> SUFFICES ASSUME NEW s \in Times, NEW v \in Times, NEW j \in Keys, s = Stamp(v, d)
             PROVE  C[s][j] + Cardinality(At(q, b, "incr", <<s, j>>)) <= Both(u, v, j)
  BY Zenon DEF RedisOK
<1> DEFINE m == C[s][j]
           old == Cardinality(At(p, a, "incr", <<s, j>>))
           new == Cardinality(At(q, b, "incr", <<s, j>>))
           T == Both(t, v, j)
           U == Both(u, v, j)
<1>1. "redis" \in Stores
  BY Zenon DEF Stores
<1>2. m \in Nat /\ old \in Nat /\ new \in Nat /\ T \in Nat /\ U \in Nat
  BY Zenon, CountType, AtFinite, BothType DEF Bumped
<1>3. m + old <= T /\ T <= U
  BY Zenon, <1>1, BumpedCounts DEF RedisOK
<1>4. m + new <= U
  <2>1. CASE <<s, j>> = <<Stamp(w, d), k>>
    <3>1. v = w /\ j = k
      BY Zenon, <2>1, StampInjective
    <3>2. Both(u, w, k) = Both(t, w, k) + 1
      BY SMT, BumpedBoth
    <3>3. new = old + 1
      BY Zenon, <2>1 DEF OneMore
    <3>4. U = T + 1
      BY Zenon, <3>1, <3>2
    <3> HIDE DEF m, old, new, T, U
    <3> QED
      BY SMT, <1>2, <1>3, <3>3, <3>4
  <2>2. CASE <<s, j>> # <<Stamp(w, d), k>>
    <3>1. new = old
      BY Zenon, <2>2 DEF OneMore
    <3> HIDE DEF m, old, new, T, U
    <3> QED
      BY SMT, <1>2, <1>3, <3>1
  <2> QED
    BY Zenon, <2>1, <2>2
<1> QED
  BY Zenon, <1>4

(* A key counts no more than before, and no more handlers are about to.    *)
LEMMA LessKeys ==
    ASSUME NEW C \in Counters, NEW E \in Counters, NEW p, NEW a, NEW q, NEW b, NEW d,
           NEW t \in History, RedisOK(C, p, a, d, t),
           \A s \in Times, k \in Keys :
              E[s][k] + Cardinality(At(q, b, "incr", <<s, k>>))
                 <= C[s][k] + Cardinality(At(p, a, "incr", <<s, k>>))
    PROVE  RedisOK(E, q, b, d, t)
<1> SUFFICES ASSUME NEW s \in Times, NEW w \in Times, NEW k \in Keys, s = Stamp(w, d)
             PROVE  E[s][k] + Cardinality(At(q, b, "incr", <<s, k>>)) <= Both(t, w, k)
  BY Zenon DEF RedisOK
<1> DEFINE m == C[s][k]
           n == E[s][k]
           old == Cardinality(At(p, a, "incr", <<s, k>>))
           new == Cardinality(At(q, b, "incr", <<s, k>>))
           T == Both(t, w, k)
<1>1. m \in Nat /\ n \in Nat /\ old \in Nat /\ new \in Nat /\ T \in Nat
  BY Zenon, CountType, AtFinite, BothType
<1>2. m + old <= T /\ n + new <= m + old
  BY Zenon DEF RedisOK
<1>3. n + new <= T
  <2> HIDE DEF m, n, old, new, T
  <2> QED
    BY SMT, <1>1, <1>2
<1> QED
  BY Zenon, <1>3

(* INCR.                                                                   *)
OneCounted(C, E, s, k) ==
    /\ E \in Counters
    /\ E[s][k] = C[s][k] + 1
    /\ \A x \in Times, j \in Keys : <<x, j>> # <<s, k>> => E[x][j] = C[x][j]

LEMMA CountedOne ==
    ASSUME NEW C \in Counters, NEW s \in Times, NEW k \in Keys
    PROVE  OneCounted(C, [C EXCEPT ![s][k] = @ + 1], s, k)
<1> DEFINE y == [C[s] EXCEPT ![k] = @ + 1]
           E == [C EXCEPT ![s] = y]
<1>1. C[s] \in [Keys -> Nat] /\ C[s][k] \in Nat
  BY Zenon, CountType DEF Table
<1>2. y \in Table /\ y[k] = C[s][k] + 1 /\ \A j \in Keys : j # k => y[j] = C[s][j]
  BY SMT, <1>1 DEF Table
<1>3. [C EXCEPT ![s][k] = @ + 1] = E
  OBVIOUS
<1> HIDE DEF y
<1>4. C \in [Times -> Table]
  BY Zenon DEF Counters
<1>5. E \in [Times -> Table] /\ E[s] = y /\ \A x \in Times : x # s => E[x] = C[x]
  BY Zenon, <1>2, <1>4
<1> HIDE DEF E
<1>6. ASSUME NEW x \in Times, NEW j \in Keys, <<x, j>> # <<s, k>> PROVE E[x][j] = C[x][j]
  <2>1. CASE x = s
    <3>1. j # k
      BY Zenon, <1>6, <2>1
    <3> QED
      BY Zenon, <1>2, <1>5, <2>1, <3>1
  <2>2. CASE x # s
    BY Zenon, <1>5, <2>2
  <2> QED
    BY Zenon, <2>1, <2>2
<1> QED
  BY Zenon, <1>2, <1>3, <1>5, <1>6 DEF Counters, OneCounted

LEMMA LeaveKey ==
    ASSUME NEW C \in Counters, NEW E \in Counters, NEW p, NEW a, NEW q, NEW b, NEW d,
           NEW t \in History, RedisOK(C, p, a, d, t),
           NEW h, OneMore(h, q, b, p, a, "incr"),
           NEW s \in Times, NEW k \in Keys, Counter("incr", a[h]) = <<s, k>>,
           E = C \/ OneCounted(C, E, s, k)
    PROVE  RedisOK(E, q, b, d, t)
<1>1. ASSUME NEW x \in Times, NEW j \in Keys
      PROVE  E[x][j] + Cardinality(At(q, b, "incr", <<x, j>>))
                <= C[x][j] + Cardinality(At(p, a, "incr", <<x, j>>))
  <2> DEFINE m == C[x][j]
             n == E[x][j]
             old == Cardinality(At(p, a, "incr", <<x, j>>))
             new == Cardinality(At(q, b, "incr", <<x, j>>))
  <2>1. m \in Nat /\ old \in Nat /\ new \in Nat
    BY Zenon, CountType, AtFinite
  <2>2. n + new <= m + old
    <3>1. CASE <<x, j>> = <<s, k>>
      <4>1. x = s /\ j = k
        BY Zenon, <3>1
      <4>2. old = new + 1
        BY Zenon, <3>1 DEF OneMore
      <4>3. n = m \/ n = m + 1
        BY Zenon, <4>1 DEF OneCounted
      <4> HIDE DEF m, n, old, new
      <4> QED
        BY SMT, <2>1, <4>2, <4>3
    <3>2. CASE <<x, j>> # <<s, k>>
      <4>1. old = new
        BY Zenon, <3>2 DEF OneMore
      <4>2. n = m
        BY Zenon, <3>2 DEF OneCounted
      <4> HIDE DEF m, n, old, new
      <4> QED
        BY SMT, <2>1, <4>1, <4>2
    <3> QED
      BY Zenon, <3>1, <3>2
  <2> QED
    BY Zenon, <2>2
<1> QED
  BY Zenon, <1>1, LessKeys

-----------------------------------------------------------------------------
(* Handler h goes to l with call c, the others stay.                       *)
Moved(h, p, a, q, b, l, c) ==
    /\ q \in [Handlers -> PCs] /\ b \in [Handlers -> CallType]
    /\ OnlyMoves(h, p, a, q, b)
    /\ q[h] = l /\ b[h] = c

LEMMA MovedIs ==
    ASSUME NEW p \in [Handlers -> PCs], NEW a \in [Handlers -> CallType], NEW h \in Handlers,
           NEW l \in PCs, NEW c \in CallType
    PROVE  /\ Moved(h, p, a, [p EXCEPT ![h] = l], [a EXCEPT ![h] = c], l, c)
           /\ c = a[h] => Moved(h, p, a, [p EXCEPT ![h] = l], a, l, c)
<1> DEFINE q == [p EXCEPT ![h] = l]
           b == [a EXCEPT ![h] = c]
<1>1. q \in [Handlers -> PCs] /\ q[h] = l /\ \A o \in Handlers : o # h => q[o] = p[o]
  BY Zenon
<1>2. b \in [Handlers -> CallType] /\ b[h] = c /\ \A o \in Handlers : o # h => b[o] = a[o]
  BY Zenon
<1> HIDE DEF q, b
<1>3. Moved(h, p, a, q, b, l, c)
  BY Zenon, <1>1, <1>2 DEF Moved, OnlyMoves
<1>4. ASSUME c = a[h] PROVE Moved(h, p, a, q, a, l, c)
  BY Zenon, <1>1, <1>4 DEF Moved, OnlyMoves
<1> QED
  BY Zenon, <1>3, <1>4 DEF q, b

LEMMA MovedHolding ==
    ASSUME NEW G, NEW H, NEW p, NEW a \in [Handlers -> CallType], NEW q, NEW b, NEW d,
           NEW h \in Handlers, NEW l, NEW c,
           AllHolding(G, p, a, d), Moved(h, p, a, q, b, l, c), Holding(H, l, c, d),
           \A x, y : y.class \in Classes /\ Holding(G, x, y, d) => Holding(H, x, y, d)
    PROVE  AllHolding(H, q, b, d)
<1> SUFFICES ASSUME NEW o \in Handlers PROVE Holding(H, q[o], b[o], d)
  BY Zenon DEF AllHolding
<1>1. CASE o = h
  BY Zenon, <1>1 DEF Moved
<1>2. CASE o # h
  <2>1. q[o] = p[o] /\ b[o] = a[o]
    BY Zenon, <1>2 DEF Moved, OnlyMoves
  <2>2. a[o].class \in Classes
    <3>1. a[o] \in CallType
      BY Zenon
    <3> QED
      BY SMT, <3>1 DEF CallType
  <2>3. Holding(G, p[o], a[o], d)
    BY Zenon DEF AllHolding
  <2>4. Holding(H, p[o], a[o], d)
    BY Zenon, <2>2, <2>3
  <2> QED
    BY Zenon, <2>1, <2>4
<1> QED
  BY Zenon, <1>1, <1>2

LEMMA MovedReplied ==
    ASSUME NEW p, NEW a \in [Handlers -> CallType], NEW q, NEW b, NEW t, NEW u,
           NEW h \in Handlers, NEW l, NEW c,
           AllReplied(p, a, t), Moved(h, p, a, q, b, l, c), Replied(l, c, u),
           \A x, y : y \in CallType /\ Replied(x, y, t) => Replied(x, y, u)
    PROVE  AllReplied(q, b, u)
<1> SUFFICES ASSUME NEW o \in Handlers PROVE Replied(q[o], b[o], u)
  BY Zenon DEF AllReplied
<1>1. CASE o = h
  BY Zenon, <1>1 DEF Moved
<1>2. CASE o # h
  <2>1. q[o] = p[o] /\ b[o] = a[o]
    BY Zenon, <1>2 DEF Moved, OnlyMoves
  <2>2. a[o] \in CallType /\ Replied(p[o], a[o], t)
    BY Zenon DEF AllReplied
  <2>3. Replied(p[o], a[o], u)
    BY Zenon, <2>2
  <2> QED
    BY Zenon, <2>1, <2>3
<1> QED
  BY Zenon, <1>1, <1>2

(* A move that has nothing to do with a store's counters, whether or not   *)
(* a call is recorded meanwhile.                                           *)
LEMMA MovedMemory ==
    ASSUME NEW G \in Generations, NEW p, NEW a, NEW q, NEW b, NEW d, NEW t \in History, NEW u,
           NEW h \in Handlers, NEW l, NEW c, Moved(h, p, a, q, b, l, c),
           p[h] # "generation", l # "generation", MemoryOK(G, p, a, d, t),
           u = t \/ \E s \in Stores, x \in Classes, w \in Times, k \in Keys : Bumped(t, u, s, x, w, k)
    PROVE  MemoryOK(G, q, b, d, u)
<1> SUFFICES ASSUME NEW x \in Classes, NEW w \in Times, NEW k \in Keys, NEW g \in 1..Len(G[x]),
                    G[x][g].ts = Stamp(w, d)
             PROVE  G[x][g].keys[k] + Cardinality(At(q, b, "generation", <<x, g, k>>))
                       <= u["memory"][x][w][k]
  BY Zenon DEF MemoryOK
<1> DEFINE m == G[x][g].keys[k]
           old == Cardinality(At(p, a, "generation", <<x, g, k>>))
           new == Cardinality(At(q, b, "generation", <<x, g, k>>))
           T == t["memory"][x][w][k]
           U == u["memory"][x][w][k]
<1>1. "memory" \in Stores
  BY Zenon DEF Stores
<1>2. new = old
  <2>1. q[h] # "generation" /\ OnlyMoves(h, p, a, q, b)
    BY Zenon DEF Moved
  <2>2. At(q, b, "generation", <<x, g, k>>) = At(p, a, "generation", <<x, g, k>>)
    BY SMT, <2>1, AtSame
  <2> QED
    BY Zenon, <2>2
<1>3. m + old <= T
  BY Zenon DEF MemoryOK
<1>4. CASE u = t
  BY Zenon, <1>2, <1>3, <1>4
<1>5. CASE \E s \in Stores, y \in Classes, v \in Times, j \in Keys : Bumped(t, u, s, y, v, j)
  <2> PICK s \in Stores, y \in Classes, v \in Times, j \in Keys : Bumped(t, u, s, y, v, j)
    BY Zenon, <1>5
  <2>1. T <= U
    BY Zenon, <1>1, BumpedMore
  <2>2. m \in Nat /\ old \in Nat /\ T \in Nat /\ U \in Nat
    BY Zenon, <1>1, GenerationType, AtFinite, HistoryType DEF Bumped
  <2>3. m + new <= U
    <3> HIDE DEF m, old, new, T, U
    <3> QED
      BY SMT, <1>2, <1>3, <2>1, <2>2
  <2> QED
    BY Zenon, <2>3
<1> QED
  BY Zenon, <1>4, <1>5

LEMMA MovedRedis ==
    ASSUME NEW C \in Counters, NEW p, NEW a, NEW q, NEW b, NEW d, NEW t \in History, NEW u,
           NEW h \in Handlers, NEW l, NEW c, Moved(h, p, a, q, b, l, c),
           p[h] # "incr", l # "incr", RedisOK(C, p, a, d, t),
           u = t \/ \E s \in Stores, x \in Classes, w \in Times, k \in Keys : Bumped(t, u, s, x, w, k)
    PROVE  RedisOK(C, q, b, d, u)
<1> SUFFICES ASSUME NEW s \in Times, NEW w \in Times, NEW k \in Keys, s = Stamp(w, d)
             PROVE  C[s][k] + Cardinality(At(q, b, "incr", <<s, k>>)) <= Both(u, w, k)
  BY Zenon DEF RedisOK
<1> DEFINE m == C[s][k]
           old == Cardinality(At(p, a, "incr", <<s, k>>))
           new == Cardinality(At(q, b, "incr", <<s, k>>))
           T == Both(t, w, k)
           U == Both(u, w, k)
<1>1. new = old
  <2>1. q[h] # "incr" /\ OnlyMoves(h, p, a, q, b)
    BY Zenon DEF Moved
  <2>2. At(q, b, "incr", <<s, k>>) = At(p, a, "incr", <<s, k>>)
    BY SMT, <2>1, AtSame
  <2> QED
    BY Zenon, <2>2
<1>2. m + old <= T
  BY Zenon DEF RedisOK
<1>3. CASE u = t
  BY Zenon, <1>1, <1>2, <1>3
<1>4. CASE \E z \in Stores, y \in Classes, v \in Times, j \in Keys : Bumped(t, u, z, y, v, j)
  <2> PICK z \in Stores, y \in Classes, v \in Times, j \in Keys : Bumped(t, u, z, y, v, j)
    BY Zenon, <1>4
  <2>1. T <= U
    BY Zenon, BumpedCounts
  <2>2. m \in Nat /\ old \in Nat /\ T \in Nat /\ U \in Nat
    BY Zenon, CountType, AtFinite, BothType DEF Bumped
  <2>3. m + new <= U
    <3> HIDE DEF m, old, new, T, U
    <3> QED
      BY SMT, <1>1, <1>2, <2>1, <2>2
  <2> QED
    BY Zenon, <2>3
<1> QED
  BY Zenon, <1>3, <1>4

-----------------------------------------------------------------------------
LimiterType ==
    /\ dur \in Durs /\ now \in Times
    /\ gens \in Generations /\ count \in Counters
    /\ pc \in [Handlers -> PCs] /\ call \in [Handlers -> CallType]
    /\ taken \in History /\ granted \in History
    /\ denied \in SUBSET Refusals

LimiterInv ==
    /\ LimiterType
    /\ InTurn(gens, TruncAt(now, dur))
    /\ AllHolding(gens, pc, call, dur)
    /\ GrantsOK(gens, dur, granted)
    /\ MemoryOK(gens, pc, call, dur, taken)
    /\ RedisOK(count, pc, call, dur, taken)
    /\ AllReplied(pc, call, taken)
    /\ DeniedOK(denied, taken)

LEMMA NoCallType == NoCall \in CallType
<1>1. (CHOOSE k \in Keys : TRUE) \in Keys
  BY Zenon, LimiterAssumption
<1>2. 0 \in Times
  BY SMT, LimiterAssumption DEF Times
<1> QED
  BY SMT, <1>1, <1>2 DEF NoCall, CallType, Classes

LEMMA CallFields ==
    ASSUME NEW c \in CallType
    PROVE  /\ c.class \in Classes /\ c.key \in Keys /\ c.window \in Times /\ c.ts \in Times
           /\ c.gen \in Nat /\ c.val \in Nat
BY SMT DEF CallType

LEMMA CallFor ==
    ASSUME NEW c \in CallType, NEW class \in Classes, NEW k \in Keys
    PROVE  [c EXCEPT !.class = class, !.key = k] \in CallType
<1> DEFINE e == [c EXCEPT !.class = class]
<1>1. e \in CallType
  BY SMT DEF CallType
<1>2. [c EXCEPT !.class = class, !.key = k] = [e EXCEPT !.key = k]
  OBVIOUS
<1> HIDE DEF e
<1>3. [e EXCEPT !.key = k] \in CallType
  BY SMT, <1>1 DEF CallType
<1> QED
  BY Zenon, <1>2, <1>3

(* What MemoryGeneration, RedisKey and RedisIncr make of a call.           *)
CallIs(e, c, w, s, n, v) ==
    /\ e \in CallType
    /\ e.class = c.class /\ e.key = c.key /\ e.window = w /\ e.ts = s /\ e.gen = n /\ e.val = v

CallStep(h, a, b, w, s, n, v) == \E e : CallIs(e, a[h], w, s, n, v) /\ b = [a EXCEPT ![h] = e]

LEMMA CallWithWindow ==
    ASSUME NEW c \in CallType, NEW w \in Times
    PROVE  CallIs([c EXCEPT !.window = w], c, w, c.ts, c.gen, c.val)
BY SMT DEF CallType, CallIs

LEMMA CallWithGen ==
    ASSUME NEW a \in [Handlers -> CallType], NEW h \in Handlers, NEW n \in Nat, NEW w \in Times
    PROVE  CallStep(h, a, [a EXCEPT ![h].gen = n, ![h].window = w], w, a[h].ts, n, a[h].val)
<1> DEFINE c == a[h]
           b == [c EXCEPT !.gen = n]
           e == [b EXCEPT !.window = w]
<1>1. c \in CallType
  BY Zenon
<1>2. [a EXCEPT ![h].gen = n, ![h].window = w] = [a EXCEPT ![h] = e]
  <2> DEFINE A == [a EXCEPT ![h] = b]
  <2>1. [a EXCEPT ![h].gen = n, ![h].window = w] = [A EXCEPT ![h].window = w]
    OBVIOUS
  <2> HIDE DEF b
  <2>2. A[h] = b /\ DOMAIN A = Handlers
    BY Zenon
  <2>3. [A EXCEPT ![h] = e] = [a EXCEPT ![h] = e]
    <3> HIDE DEF e
    <3> QED
      BY Zenon
  <2> HIDE DEF A
  <2>4. [A EXCEPT ![h].window = w] = [A EXCEPT ![h] = [A[h] EXCEPT !.window = w]]
    OBVIOUS
  <2>5. [A[h] EXCEPT !.window = w] = e
    BY Zenon, <2>2
  <2> QED
    BY Zenon, <2>1, <2>3, <2>4, <2>5
<1> HIDE DEF c
<1>3. b \in CallType /\ CallIs(b, c, c.window, c.ts, n, c.val)
  BY SMT, <1>1 DEF CallType, CallIs
<1> HIDE DEF b
<1>4. CallIs(e, b, w, b.ts, b.gen, b.val)
  BY Zenon, <1>3, CallWithWindow
<1>5. CallIs(e, c, w, c.ts, n, c.val)
  <2> HIDE DEF e
  <2> QED
    BY Zenon, <1>3, <1>4 DEF CallIs
<1> QED
  BY Zenon, <1>2, <1>5 DEF c, CallStep

LEMMA CallWithKey ==
    ASSUME NEW a \in [Handlers -> CallType], NEW h \in Handlers, NEW s \in Times, NEW w \in Times
    PROVE  CallStep(h, a, [a EXCEPT ![h].ts = s, ![h].window = w], w, s, a[h].gen, a[h].val)
<1> DEFINE c == a[h]
           b == [c EXCEPT !.ts = s]
           e == [b EXCEPT !.window = w]
<1>1. c \in CallType
  BY Zenon
<1>2. [a EXCEPT ![h].ts = s, ![h].window = w] = [a EXCEPT ![h] = e]
  <2> DEFINE A == [a EXCEPT ![h] = b]
  <2>1. [a EXCEPT ![h].ts = s, ![h].window = w] = [A EXCEPT ![h].window = w]
    OBVIOUS
  <2> HIDE DEF b
  <2>2. A[h] = b /\ DOMAIN A = Handlers
    BY Zenon
  <2>3. [A EXCEPT ![h] = e] = [a EXCEPT ![h] = e]
    <3> HIDE DEF e
    <3> QED
      BY Zenon
  <2> HIDE DEF A
  <2>4. [A EXCEPT ![h].window = w] = [A EXCEPT ![h] = [A[h] EXCEPT !.window = w]]
    OBVIOUS
  <2>5. [A[h] EXCEPT !.window = w] = e
    BY Zenon, <2>2
  <2> QED
    BY Zenon, <2>1, <2>3, <2>4, <2>5
<1> HIDE DEF c
<1>3. b \in CallType /\ CallIs(b, c, c.window, s, c.gen, c.val)
  BY SMT, <1>1 DEF CallType, CallIs
<1> HIDE DEF b
<1>4. CallIs(e, b, w, b.ts, b.gen, b.val)
  BY Zenon, <1>3, CallWithWindow
<1>5. CallIs(e, c, w, s, c.gen, c.val)
  <2> HIDE DEF e
  <2> QED
    BY Zenon, <1>3, <1>4 DEF CallIs
<1> QED
  BY Zenon, <1>2, <1>5 DEF c, CallStep

LEMMA CallWithVal ==
    ASSUME NEW a \in [Handlers -> CallType], NEW h \in Handlers, NEW v \in Nat
    PROVE  CallStep(h, a, [a EXCEPT ![h].val = v], a[h].window, a[h].ts, a[h].gen, v)
<1> DEFINE c == a[h]
           e == [c EXCEPT !.val = v]
<1>1. c \in CallType
  BY Zenon
<1>2. [a EXCEPT ![h].val = v] = [a EXCEPT ![h] = e]
  OBVIOUS
<1> HIDE DEF c
<1>3. CallIs(e, c, c.window, c.ts, c.gen, v)
  BY SMT, <1>1 DEF CallType, CallIs
<1> QED
  BY Zenon, <1>2, <1>3 DEF c, CallStep

LEMMA AtRest ==
    ASSUME NEW l, l \notin {"generation", "incr", "expire", "reply"}
    PROVE  /\ \A G, c, d : Holding(G, l, c, d)
           /\ \A c, t : Replied(l, c, t)
BY Zenon DEF Holding, Replied

LEMMA InitInv == Init => LimiterInv
<1> SUFFICES ASSUME Init PROVE LimiterInv
  OBVIOUS
<1>1. dur \in Durs /\ now = 0 /\ denied = {}
  BY Zenon DEF Init
<1>2. now \in Times
  BY SMT, <1>1, LimiterAssumption DEF Times
<1>3. gens \in Generations /\ \A c \in Classes : Len(gens[c]) = 0
  BY SMT DEF Init, Generations
<1>4. \A c \in Classes : \A i \in 1..Len(gens[c]) : FALSE
  BY SMT, <1>3
<1>5. count \in Counters /\ \A s \in Times, k \in Keys : count[s][k] = 0
  <2>1. count \in [Times -> Table] /\ \A s \in Times : count[s] = None
    BY Zenon, NoneType DEF Init
  <2> QED
    BY Zenon, <2>1, NoneType DEF Counters
<1>6. pc \in [Handlers -> PCs] /\ \A h \in Handlers : pc[h] = "idle"
  BY Zenon DEF Init, PCs
<1>7. call \in [Handlers -> CallType]
  BY Zenon, NoCallType DEF Init
<1>8. /\ taken \in History /\ granted = taken
      /\ \A s \in Stores, c \in Classes, w \in Times, k \in Keys : taken[s][c][w][k] = 0
  <2> DEFINE e == [w \in Times |-> None]
             f == [c \in Classes |-> e]
  <2>1. e \in [Times -> Table] /\ \A w \in Times : e[w] = None
    BY Zenon, NoneType
  <2> HIDE DEF e
  <2>2. f \in [Classes -> [Times -> Table]] /\ \A c \in Classes : f[c] = e
    BY Zenon, <2>1
  <2>3. taken = [l \in Stores |-> f] /\ granted = taken
    BY Zenon DEF Init, Stores, e
  <2> HIDE DEF f
  <2>4. taken \in History /\ \A l \in Stores : taken[l] = f
    BY Zenon, <2>2, <2>3 DEF History
  <2> QED
    BY Zenon, <2>1, <2>2, <2>3, <2>4, NoneType
<1>9. LimiterType
  BY Zenon, <1>1, <1>2, <1>3, <1>5, <1>6, <1>7, <1>8 DEF LimiterType
<1>10. InTurn(gens, TruncAt(now, dur))
  BY Zenon, <1>4 DEF InTurn
<1>11. AllHolding(gens, pc, call, dur) /\ AllReplied(pc, call, taken)
  BY Zenon, <1>6, AtRest DEF AllHolding, AllReplied
<1>12. GrantsOK(gens, dur, granted)
  <2>1. ASSUME NEW c \in Classes, NEW w \in Times, NEW k \in Keys
        PROVE  granted["memory"][c][w][k] = 0 /\ granted["memory"][c][w][k] <= Limits[c]
    <3>1. granted["memory"][c][w][k] = 0
      BY Zenon, <1>8 DEF Stores
    <3>2. Limits[c] \in Nat
      BY Zenon, LimiterAssumption
    <3> QED
      BY SMT, <3>1, <3>2
  <2> QED
    BY Zenon, <1>4, <2>1 DEF GrantsOK
<1>13. MemoryOK(gens, pc, call, dur, taken)
  BY Zenon, <1>4 DEF MemoryOK
<1>14. RedisOK(count, pc, call, dur, taken)
  <2> SUFFICES ASSUME NEW s \in Times, NEW w \in Times, NEW k \in Keys
               PROVE  count[s][k] + Cardinality(At(pc, call, "incr", <<s, k>>)) <= Both(taken, w, k)
    BY Zenon DEF RedisOK
  <2>1. At(pc, call, "incr", <<s, k>>) = {}
    BY SMT, <1>6 DEF At
  <2>2. Cardinality(At(pc, call, "incr", <<s, k>>)) = 0
    BY Zenon, <2>1, FS_EmptySet
  <2>3. Both(taken, w, k) \in Nat
    BY Zenon, <1>8, BothType
  <2> QED
    BY SMT, <1>5, <2>2, <2>3
<1>15. DeniedOK(denied, taken)
  BY Zenon, <1>1 DEF DeniedOK
<1> QED
  BY Zenon, <1>9, <1>10, <1>11, <1>12, <1>13, <1>14, <1>15 DEF LimiterInv

LEMMA BeginInv ==
    ASSUME LimiterInv, NEW h \in Handlers, NEW class \in Classes, NEW k \in Keys, Begin(h, class, k)
    PROVE  LimiterInv'
<1> DEFINE l == IF kind = "memory" THEN "memory" ELSE "redis"
           c == [NoCall EXCEPT !.class = class, !.key = k]
<1>1. LimiterType
  BY Zenon DEF LimiterInv
<1>2. /\ pc[h] = "idle" /\ pc' = [pc EXCEPT ![h] = l] /\ call' = [call EXCEPT ![h] = c]
      /\ dur' = dur /\ now' = now /\ gens' = gens /\ count' = count
      /\ taken' = taken /\ granted' = granted /\ denied' = denied
  BY Zenon DEF Begin, Goto, config, redis
<1>3. c \in CallType
  BY Zenon, NoCallType, CallFor
<1>4. l \in PCs /\ l \notin {"generation", "incr", "expire", "reply"}
  BY SMT DEF PCs
<1> HIDE DEF c, l
<1>5. Moved(h, pc, call, pc', call', l, c)
  BY Zenon, <1>1, <1>2, <1>3, <1>4, MovedIs DEF LimiterType
<1>6. LimiterType'
  BY Zenon, <1>1, <1>2, <1>5 DEF LimiterType, Moved
<1>7. AllHolding(gens, pc', call', dur)
  BY Zenon, <1>1, <1>4, <1>5, AtRest, MovedHolding DEF LimiterInv, LimiterType
<1>8. MemoryOK(gens, pc', call', dur, taken)
  <2>1. pc[h] # "generation" /\ l # "generation"
    BY SMT, <1>2, <1>4
  <2> QED
    BY Zenon, <1>1, <1>5, <2>1, MovedMemory DEF LimiterInv, LimiterType
<1>9. RedisOK(count, pc', call', dur, taken)
  <2>1. pc[h] # "incr" /\ l # "incr"
    BY SMT, <1>2, <1>4
  <2> QED
    BY Zenon, <1>1, <1>5, <2>1, MovedRedis DEF LimiterInv, LimiterType
<1>10. AllReplied(pc', call', taken)
  BY Zenon, <1>1, <1>4, <1>5, AtRest, MovedReplied DEF LimiterInv, LimiterType
<1> QED
  BY Zenon, <1>2, <1>6, <1>7, <1>8, <1>9, <1>10 DEF LimiterInv

LEMMA GenerationInv ==
    ASSUME LimiterInv, NEW h \in Handlers, MemoryGeneration(h)
    PROVE  LimiterInv'
<1> DEFINE c == call[h].class
           k == call[h].key
           T == TruncAt(now, dur)
           w == WindowAt(now, dur)
           n == Len(gens'[c])
<1>1. LimiterType
  BY Zenon DEF LimiterInv
<1>2. c \in Classes /\ k \in Keys
  BY Zenon, <1>1, CallFields DEF LimiterType
<1>3. T \in Times /\ w \in Times /\ Stamp(w, dur) = T
  BY Zenon, <1>1, WindowTime DEF LimiterType
<1>4. T \in Nat
  BY SMT, <1>3, LimiterAssumption DEF Times
<1>5. /\ pc[h] = "memory" /\ pc' = [pc EXCEPT ![h] = "generation"]
      /\ gens' = IF Current(gens[c], T) THEN gens
                 ELSE [gens EXCEPT ![c] = Append(@, [ts |-> T, keys |-> None])]
      /\ call' = [call EXCEPT ![h].gen = n, ![h].window = w]
      /\ taken' = [taken EXCEPT !["memory"][c][w][k] = @ + 1]
      /\ dur' = dur /\ now' = now /\ count' = count /\ granted' = granted /\ denied' = denied
  BY Zenon DEF MemoryGeneration, Goto, Record, config, redis, TruncateNow, Window, TruncAt, WindowAt
<1> HIDE DEF T, w
<1>6. gens \in Generations /\ InTurn(gens, T)
  BY Zenon, <1>1 DEF LimiterInv, LimiterType, T
<1>7. Grown(gens, gens', c, T)
  BY Zenon, <1>2, <1>4, <1>5, <1>6, GenerationGrows
<1>8. gens' \in Generations /\ n \in 1..n /\ gens'[c][n].ts = T
  BY Zenon, <1>7 DEF Grown
<1>9. n \in Nat
  BY SMT, <1>8
<1> HIDE DEF n
<1>10. CallStep(h, call, call', w, call[h].ts, n, call[h].val)
  BY Zenon, <1>1, <1>3, <1>5, <1>9, CallWithGen DEF LimiterType
<1>11. PICK e : CallIs(e, call[h], w, call[h].ts, n, call[h].val) /\ call' = [call EXCEPT ![h] = e]
  BY Zenon, <1>10 DEF CallStep
<1>12. e \in CallType /\ e.class = c /\ e.key = k /\ e.gen = n /\ e.window = w
  BY Zenon, <1>11 DEF CallIs
<1>13. Moved(h, pc, call, pc', call', "generation", e)
  <2>1. "generation" \in PCs
    BY SMT DEF PCs
  <2>2. pc \in [Handlers -> PCs] /\ call \in [Handlers -> CallType] /\ e \in CallType
    BY Zenon, <1>1, <1>12 DEF LimiterType
  <2>3. pc' = [pc EXCEPT ![h] = "generation"] /\ call' = [call EXCEPT ![h] = e]
    BY Zenon, <1>5, <1>11
  <2>4. Moved(h, pc, call, [pc EXCEPT ![h] = "generation"], [call EXCEPT ![h] = e], "generation", e)
    BY Zenon, <2>1, <2>2, MovedIs
  <2> QED
    BY Zenon, <2>2, <2>3, <2>4
<1> HIDE DEF c, k
<1>14. Bumped(taken, taken', "memory", c, w, k)
  <2>1. "memory" \in Stores
    BY Zenon DEF Stores
  <2> QED
    BY Zenon, <1>1, <1>2, <1>3, <1>5, <2>1, BumpedIs DEF LimiterType
<1>15. "memory" \in Stores
  BY Zenon DEF Stores
<1>16. LimiterType'
  BY Zenon, <1>1, <1>5, <1>8, <1>13, <1>14 DEF LimiterType, Moved, Bumped
<1>17. InTurn(gens', T)
  BY Zenon, <1>2, <1>4, <1>6, <1>7, GrownInTurn
<1>18. AllHolding(gens', pc', call', dur)
  <2>1. n \in 1..Len(gens'[c])
    BY Zenon, <1>8 DEF n
  <2>2. Holding(gens', "generation", e, dur)
    BY Zenon, <1>3, <1>8, <1>12, <2>1 DEF Holding
  <2>3. \A x, y : y.class \in Classes /\ Holding(gens, x, y, dur) => Holding(gens', x, y, dur)
    BY Zenon, <1>7, GrownHolding
  <2> QED
    BY Zenon, <1>1, <1>13, <2>2, <2>3, MovedHolding DEF LimiterInv, LimiterType
<1>19. GrantsOK(gens', dur, granted)
  BY Zenon, <1>1, <1>2, <1>4, <1>6, <1>7, GrownGrants DEF LimiterInv, LimiterType
<1>20. MemoryOK(gens', pc', call', dur, taken')
  <2>1. MemoryOK(gens', pc, call, dur, taken)
    BY Zenon, <1>1, <1>2, <1>4, <1>6, <1>7, GrownCounts DEF LimiterInv, LimiterType
  <2>2. OneMore(h, pc, call, pc', call', "generation")
    <3>1. pc[h] # "generation" /\ pc'[h] = "generation" /\ OnlyMoves(h, pc, call, pc', call')
      BY SMT, <1>5, <1>13 DEF Moved
    <3> QED
      BY Zenon, <3>1, AtEnter
  <2>3. Counter("generation", call'[h]) = <<c, n, k>>
    BY Zenon, <1>13, <1>12 DEF Counter, Moved
  <2>4. dur \in Durs /\ gens'[c][n].ts = Stamp(w, dur)
    BY Zenon, <1>1, <1>3, <1>8 DEF LimiterType
  <2> QED
    BY Zenon, <1>2, <1>3, <1>8, <1>14, <2>1, <2>2, <2>3, <2>4, EnterGeneration
<1>21. RedisOK(count, pc', call', dur, taken')
  <2>1. pc[h] # "incr" /\ "generation" # "incr"
    BY SMT, <1>5
  <2>2. \E s \in Stores, x \in Classes, v \in Times, j \in Keys : Bumped(taken, taken', s, x, v, j)
    BY Zenon, <1>2, <1>3, <1>14, <1>15
  <2> QED
    BY Zenon, <1>1, <1>13, <2>1, <2>2, MovedRedis DEF LimiterInv, LimiterType
<1>22. AllReplied(pc', call', taken')
  <2>1. Replied("generation", e, taken')
    BY SMT DEF Replied
  <2>2. \A x, y : y \in CallType /\ Replied(x, y, taken) => Replied(x, y, taken')
    BY Zenon, <1>2, <1>3, <1>14, <1>15, BumpedKeeps
  <2> QED
    BY Zenon, <1>1, <1>13, <2>1, <2>2, MovedReplied DEF LimiterInv, LimiterType
<1>23. DeniedOK(denied, taken')
  BY Zenon, <1>1, <1>2, <1>3, <1>14, <1>15, BumpedKeeps DEF LimiterInv, LimiterType
<1> QED
  BY Zenon, <1>5, <1>16, <1>17, <1>18, <1>19, <1>20, <1>21, <1>22, <1>23 DEF LimiterInv, T

SameGrants(r, s) ==
    \A c \in Classes, w \in Times, k \in Keys : s["memory"][c][w][k] = r["memory"][c][w][k]

LEMMA GrantsSame ==
    ASSUME NEW G, NEW d, NEW r, NEW s, GrantsOK(G, d, r), SameGrants(r, s)
    PROVE  GrantsOK(G, d, s)
<1> SUFFICES ASSUME NEW c \in Classes, NEW w \in Times, NEW k \in Keys
             PROVE  /\ s["memory"][c][w][k] <= Limits[c]
                    /\ \A i \in 1..Len(G[c]) : G[c][i].ts = Stamp(w, d) =>
                          s["memory"][c][w][k] <= G[c][i].keys[k]
                    /\ (\A i \in 1..Len(G[c]) : G[c][i].ts # Stamp(w, d)) => s["memory"][c][w][k] = 0
  BY Zenon DEF GrantsOK
<1>1. s["memory"][c][w][k] = r["memory"][c][w][k]
  BY Zenon DEF SameGrants
<1> QED
  BY Zenon, <1>1 DEF GrantsOK

(* Return: the call is let through, or the refusal is one over the limit.  *)
LEMMA ReturnIs ==
    ASSUME LimiterType, DeniedOK(denied, taken), NEW h \in Handlers, NEW s \in Stores,
           NEW ok \in BOOLEAN, Return(h, s, ok),
           ~ok => CountedIn(taken, s, call[h].class, call[h].window, call[h].key) > Limits[call[h].class]
    PROVE  /\ Moved(h, pc, call, pc', call', "idle", NoCall)
           /\ taken' = taken
           /\ IF ok THEN Bumped(granted, granted', s, call[h].class, call[h].window, call[h].key)
              ELSE granted' = granted
           /\ granted' \in History
           /\ denied' \in SUBSET Refusals
           /\ DeniedOK(denied', taken)
<1> DEFINE c == call[h].class
           w == call[h].window
           k == call[h].key
<1>1. c \in Classes /\ w \in Times /\ k \in Keys
  BY Zenon, CallFields DEF LimiterType
<1>2. /\ pc' = [pc EXCEPT ![h] = "idle"] /\ call' = [call EXCEPT ![h] = NoCall] /\ taken' = taken
      /\ granted' = IF ok THEN [granted EXCEPT ![s][c][w][k] = @ + 1] ELSE granted
      /\ denied' = IF ok THEN denied ELSE denied \cup {<<s, c, w, k>>}
  BY Zenon DEF Return, Goto
<1> HIDE DEF c, w, k
<1>3. Moved(h, pc, call, pc', call', "idle", NoCall)
  <2>1. "idle" \in PCs
    BY SMT DEF PCs
  <2> QED
    BY Zenon, <1>2, <2>1, NoCallType, MovedIs DEF LimiterType
<1>4. /\ IF ok THEN Bumped(granted, granted', s, c, w, k) ELSE granted' = granted
      /\ granted' \in History
  <2>1. CASE ok
    <3>1. Bumped(granted, granted', s, c, w, k)
      BY Zenon, <1>1, <1>2, <2>1, BumpedIs DEF LimiterType
    <3> QED
      BY Zenon, <2>1, <3>1 DEF Bumped
  <2>2. CASE ~ok
    BY Zenon, <1>2, <2>2 DEF LimiterType
  <2> QED
    BY Zenon, <2>1, <2>2
<1>5. denied' \in SUBSET Refusals
  BY SMT, <1>1, <1>2 DEF LimiterType, Refusals
<1>6. DeniedOK(denied', taken)
  <2> SUFFICES ASSUME NEW d \in denied' PROVE CountedIn(taken, d[1], d[2], d[3], d[4]) > Limits[d[2]]
    BY Zenon DEF DeniedOK
  <2>1. CASE d \in denied
    BY Zenon, <2>1 DEF DeniedOK
  <2>2. CASE d \notin denied
    <3>1. ~ok /\ d = <<s, c, w, k>>
      BY Zenon, <1>2, <2>2
    <3>2. d[1] = s /\ d[2] = c /\ d[3] = w /\ d[4] = k
      BY SMT, <3>1
    <3> QED
      BY Zenon, <3>1, <3>2 DEF c, w, k
  <2> QED
    BY Zenon, <2>1, <2>2
<1> QED
  BY Zenon, <1>2, <1>3, <1>4, <1>5, <1>6 DEF c, w, k

LEMMA TakeInv ==
    ASSUME LimiterInv, NEW h \in Handlers, MemoryTake(h)
    PROVE  LimiterInv'
<1> DEFINE c == call[h].class
           g == call[h].gen
           k == call[h].key
           w == call[h].window
           val == gens[c][g].keys[k]
           ok == Allows(c, val)
<1>1. LimiterType
  BY Zenon DEF LimiterInv
<1>2. c \in Classes /\ k \in Keys /\ w \in Times
  BY Zenon, <1>1, CallFields DEF LimiterType
<1>3. /\ pc[h] = "generation"
      /\ gens' = [gens EXCEPT ![c][g].keys[k] = gens[c][g].keys[k] + 1]
      /\ Return(h, "memory", ok)
      /\ dur' = dur /\ now' = now /\ count' = count
  BY Zenon DEF MemoryTake, config, redis
<1>4. g \in 1..Len(gens[c]) /\ gens[c][g].ts = Stamp(w, dur)
  BY Zenon, <1>3 DEF LimiterInv, AllHolding, Holding
<1>5. gens \in Generations /\ val \in Nat /\ Limits[c] \in Nat /\ "memory" \in Stores
  BY Zenon, <1>1, <1>2, <1>4, GenerationType, LimiterAssumption DEF LimiterType, Stores
<1>6. OneTaken(gens, gens', c, g, k)
  BY Zenon, <1>2, <1>3, <1>4, <1>5, OneTakenIs
<1> DEFINE n == Cardinality(At(pc, call, "generation", <<c, g, k>>))
           T == taken["memory"][c][w][k]
<1>7. n \in Nat /\ T \in Nat /\ val + n <= T
  BY Zenon, <1>1, <1>2, <1>4, <1>5, AtFinite, HistoryType DEF LimiterInv, LimiterType, MemoryOK
<1>8. n # 0
  <2>1. h \in At(pc, call, "generation", <<c, g, k>>)
    BY Zenon, <1>3 DEF At, Counter
  <2> QED
    BY Zenon, <2>1, AtFinite, FS_EmptySet
<1>9. ok \in BOOLEAN /\ (~ok => T > Limits[c])
  <2> HIDE DEF val, T, n, c
  <2> QED
    BY SMT, <1>5, <1>7, <1>8 DEF Allows
<1>10. ~ok => CountedIn(taken, "memory", c, w, k) > Limits[c]
  <2>1. "memory" # "redis"
    BY SMT
  <2> QED
    BY Zenon, <1>9, <2>1 DEF CountedIn
<1> HIDE DEF ok, n, T
<1>11. /\ Moved(h, pc, call, pc', call', "idle", NoCall)
       /\ taken' = taken
       /\ IF ok THEN Bumped(granted, granted', "memory", c, w, k) ELSE granted' = granted
       /\ granted' \in History
       /\ denied' \in SUBSET Refusals
       /\ DeniedOK(denied', taken)
  BY Zenon, <1>1, <1>3, <1>5, <1>9, <1>10, ReturnIs DEF LimiterInv
<1>12. LimiterType'
  BY Zenon, <1>1, <1>3, <1>6, <1>11 DEF LimiterType, Moved, OneTaken
<1>13. InTurn(gens', TruncAt(now, dur))
  BY Zenon, <1>5, <1>6, TakenKeeps DEF LimiterInv
<1>14. "idle" \notin {"generation", "incr", "expire", "reply"}
  BY SMT
<1>15. AllHolding(gens', pc', call', dur)
  <2>1. \A x, y : y.class \in Classes /\ Holding(gens, x, y, dur) => Holding(gens', x, y, dur)
    <3> SUFFICES ASSUME NEW x, NEW y, y.class \in Classes, Holding(gens, x, y, dur)
                 PROVE  Holding(gens', x, y, dur)
      BY Zenon
    <3> HIDE DEF c, g, k
    <3> QED
      BY Zenon, <1>5, <1>6, TakenKeeps
  <2>2. Holding(gens', "idle", NoCall, dur)
    BY Zenon, <1>14, AtRest
  <2> QED
    BY Zenon, <1>1, <1>11, <2>1, <2>2, MovedHolding DEF LimiterInv, LimiterType
<1> HIDE DEF c, g, k, w
<1>16. GrantsOK(gens', dur, granted')
  <2>1. ok => gens[c][g].keys[k] < Limits[c]
    BY Zenon DEF ok, Allows
  <2>2. granted' = granted \/ (Bumped(granted, granted', "memory", c, w, k) /\ gens[c][g].keys[k] < Limits[c])
    BY Zenon, <1>11, <2>1
  <2> QED
    BY Zenon, <1>1, <1>2, <1>4, <1>5, <1>6, <2>2, TakenGrants DEF LimiterInv, LimiterType
<1>17. MemoryOK(gens', pc', call', dur, taken)
  <2>1. OneMore(h, pc', call', pc, call, "generation")
    <3>1. pc[h] = "generation" /\ pc'[h] # "generation" /\ OnlyMoves(h, pc, call, pc', call')
      BY SMT, <1>3, <1>11 DEF Moved
    <3> QED
      BY Zenon, <3>1, AtLeave
  <2>2. Counter("generation", call[h]) = <<c, g, k>>
    BY Zenon DEF Counter, c, g, k
  <2> QED
    BY Zenon, <1>1, <1>2, <1>5, <1>6, <2>1, <2>2, TakenCounts DEF LimiterInv, LimiterType
<1>18. RedisOK(count, pc', call', dur, taken)
  <2>1. pc[h] # "incr" /\ "idle" # "incr"
    BY SMT, <1>3
  <2> QED
    BY Zenon, <1>1, <1>11, <2>1, MovedRedis DEF LimiterInv, LimiterType
<1>19. AllReplied(pc', call', taken)
  <2>1. Replied("idle", NoCall, taken)
    BY Zenon, <1>14, AtRest
  <2> QED
    BY Zenon, <1>1, <1>11, <2>1, MovedReplied DEF LimiterInv, LimiterType
<1> QED
  BY Zenon, <1>3, <1>11, <1>12, <1>13, <1>15, <1>16, <1>17, <1>18, <1>19 DEF LimiterInv

LEMMA RedisKeyInv ==
    ASSUME LimiterInv, NEW h \in Handlers, RedisKey(h)
    PROVE  LimiterInv'
<1> DEFINE c == call[h].class
           k == call[h].key
           T == TruncAt(now, dur)
           w == WindowAt(now, dur)
<1>1. LimiterType
  BY Zenon DEF LimiterInv
<1>2. c \in Classes /\ k \in Keys /\ dur \in Durs
  BY Zenon, <1>1, CallFields DEF LimiterType
<1>3. T \in Times /\ w \in Times /\ Stamp(w, dur) = T
  BY Zenon, <1>1, WindowTime DEF LimiterType
<1>4. /\ pc[h] = "redis" /\ pc' = [pc EXCEPT ![h] = "incr"]
      /\ call' = [call EXCEPT ![h].ts = T, ![h].window = w]
      /\ taken' = [taken EXCEPT !["redis"][c][w][k] = @ + 1]
      /\ dur' = dur /\ now' = now /\ gens' = gens /\ count' = count
      /\ granted' = granted /\ denied' = denied
  BY Zenon DEF RedisKey, Goto, Record, config, redis, TruncateNow, Window, TruncAt, WindowAt
<1> HIDE DEF T, w
<1>5. CallStep(h, call, call', w, T, call[h].gen, call[h].val)
  BY Zenon, <1>1, <1>3, <1>4, CallWithKey DEF LimiterType
<1>6. PICK e : CallIs(e, call[h], w, T, call[h].gen, call[h].val) /\ call' = [call EXCEPT ![h] = e]
  BY Zenon, <1>5 DEF CallStep
<1>7. e \in CallType /\ e.key = k /\ e.ts = T /\ e.window = w
  BY Zenon, <1>6 DEF CallIs
<1>8. Moved(h, pc, call, pc', call', "incr", e)
  <2>1. "incr" \in PCs
    BY SMT DEF PCs
  <2>2. pc \in [Handlers -> PCs] /\ call \in [Handlers -> CallType] /\ e \in CallType
    BY Zenon, <1>1, <1>7 DEF LimiterType
  <2>3. pc' = [pc EXCEPT ![h] = "incr"] /\ call' = [call EXCEPT ![h] = e]
    BY Zenon, <1>4, <1>6
  <2>4. Moved(h, pc, call, [pc EXCEPT ![h] = "incr"], [call EXCEPT ![h] = e], "incr", e)
    BY Zenon, <2>1, <2>2, MovedIs
  <2> QED
    BY Zenon, <2>3, <2>4
<1> HIDE DEF c, k
<1>9. "redis" \in Stores
  BY Zenon DEF Stores
<1>10. Bumped(taken, taken', "redis", c, w, k)
  BY Zenon, <1>1, <1>2, <1>3, <1>4, <1>9, BumpedIs DEF LimiterType
<1>11. LimiterType'
  BY Zenon, <1>1, <1>4, <1>8, <1>10 DEF LimiterType, Moved, Bumped
<1>12. AllHolding(gens, pc', call', dur)
  <2>1. Holding(gens, "incr", e, dur)
    <3>1. "incr" # "generation"
      BY SMT
    <3> QED
      BY Zenon, <1>3, <1>7, <3>1 DEF Holding
  <2> QED
    BY Zenon, <1>1, <1>8, <2>1, MovedHolding DEF LimiterInv, LimiterType
<1>13. MemoryOK(gens, pc', call', dur, taken')
  <2>1. pc[h] # "generation" /\ "incr" # "generation"
    BY SMT, <1>4
  <2>2. \E s \in Stores, x \in Classes, v \in Times, j \in Keys : Bumped(taken, taken', s, x, v, j)
    BY Zenon, <1>2, <1>3, <1>9, <1>10
  <2> QED
    BY Zenon, <1>1, <1>8, <2>1, <2>2, MovedMemory DEF LimiterInv, LimiterType
<1>14. RedisOK(count, pc', call', dur, taken')
  <2>1. OneMore(h, pc, call, pc', call', "incr")
    <3>1. pc[h] # "incr" /\ pc'[h] = "incr" /\ OnlyMoves(h, pc, call, pc', call')
      BY SMT, <1>4, <1>8 DEF Moved
    <3> QED
      BY Zenon, <3>1, AtEnter
  <2>2. Counter("incr", call'[h]) = <<Stamp(w, dur), k>>
    <3>1. "incr" # "generation"
      BY SMT
    <3> QED
      BY Zenon, <1>3, <1>7, <1>8, <3>1 DEF Counter, Moved
  <2> QED
    BY Zenon, <1>1, <1>2, <1>3, <1>10, <2>1, <2>2, EnterKey DEF LimiterInv, LimiterType
<1>15. AllReplied(pc', call', taken')
  <2>1. Replied("incr", e, taken')
    BY SMT DEF Replied
  <2>2. \A x, y : y \in CallType /\ Replied(x, y, taken) => Replied(x, y, taken')
    BY Zenon, <1>2, <1>3, <1>9, <1>10, BumpedKeeps
  <2> QED
    BY Zenon, <1>1, <1>8, <2>1, <2>2, MovedReplied DEF LimiterInv, LimiterType
<1>16. DeniedOK(denied, taken')
  BY Zenon, <1>1, <1>2, <1>3, <1>9, <1>10, BumpedKeeps DEF LimiterInv, LimiterType
<1> QED
  BY Zenon, <1>4, <1>11, <1>12, <1>13, <1>14, <1>15, <1>16 DEF LimiterInv

LEMMA RedisIncrInv ==
    ASSUME LimiterInv, NEW h \in Handlers, RedisIncr(h)
    PROVE  LimiterInv'
<1> DEFINE s == call[h].ts
           k == call[h].key
           w == call[h].window
           val == count[s][k]
<1>1. LimiterType
  BY Zenon DEF LimiterInv
<1>2. s \in Times /\ k \in Keys /\ w \in Times
  BY Zenon, <1>1, CallFields DEF LimiterType
<1>3. /\ pc[h] = "incr" /\ pc' = [pc EXCEPT ![h] = "expire"]
      /\ count' = [count EXCEPT ![s][k] = @ + 1]
      /\ call' = [call EXCEPT ![h].val = val]
      /\ dur' = dur /\ now' = now /\ gens' = gens
      /\ taken' = taken /\ granted' = granted /\ denied' = denied
  BY Zenon DEF RedisIncr, Goto, config, history
<1>4. val \in Nat
  BY Zenon, <1>1, <1>2, CountType DEF LimiterType
<1>5. s = Stamp(w, dur)
  BY Zenon, <1>3 DEF LimiterInv, AllHolding, Holding
<1>6. CallStep(h, call, call', call[h].window, call[h].ts, call[h].gen, val)
  <2> HIDE DEF val
  <2> QED
    BY Zenon, <1>1, <1>3, <1>4, CallWithVal DEF LimiterType
<1>7. PICK e : /\ CallIs(e, call[h], call[h].window, call[h].ts, call[h].gen, val)
               /\ call' = [call EXCEPT ![h] = e]
  BY Zenon, <1>6 DEF CallStep
<1>8. e \in CallType /\ e.key = k /\ e.ts = s /\ e.window = w /\ e.val = val
  BY Zenon, <1>7 DEF CallIs
<1> HIDE DEF val
<1>9. Moved(h, pc, call, pc', call', "expire", e)
  <2>1. "expire" \in PCs
    BY SMT DEF PCs
  <2>2. pc \in [Handlers -> PCs] /\ call \in [Handlers -> CallType] /\ e \in CallType
    BY Zenon, <1>1, <1>8 DEF LimiterType
  <2>3. pc' = [pc EXCEPT ![h] = "expire"] /\ call' = [call EXCEPT ![h] = e]
    BY Zenon, <1>3, <1>7
  <2>4. Moved(h, pc, call, [pc EXCEPT ![h] = "expire"], [call EXCEPT ![h] = e], "expire", e)
    BY Zenon, <2>1, <2>2, MovedIs
  <2> QED
    BY Zenon, <2>3, <2>4
<1>10. Counter("incr", call[h]) = <<s, k>>
  <2>1. "incr" # "generation"
    BY SMT
  <2> QED
    BY Zenon, <2>1 DEF Counter
<1> HIDE DEF s, k, w
<1>11. OneCounted(count, count', s, k)
  BY Zenon, <1>1, <1>2, <1>3, CountedOne DEF LimiterType
<1>12. LimiterType'
  BY Zenon, <1>1, <1>3, <1>9, <1>11 DEF LimiterType, Moved, OneCounted
<1>13. AllHolding(gens, pc', call', dur)
  <2>1. Holding(gens, "expire", e, dur)
    <3>1. "expire" # "generation"
      BY SMT
    <3> QED
      BY Zenon, <1>5, <1>8, <3>1 DEF Holding
  <2> QED
    BY Zenon, <1>1, <1>9, <2>1, MovedHolding DEF LimiterInv, LimiterType
<1>14. MemoryOK(gens, pc', call', dur, taken)
  <2>1. pc[h] # "generation" /\ "expire" # "generation"
    BY SMT, <1>3
  <2> QED
    BY Zenon, <1>1, <1>9, <2>1, MovedMemory DEF LimiterInv, LimiterType
<1>15. RedisOK(count', pc', call', dur, taken)
  <2>1. OneMore(h, pc', call', pc, call, "incr")
    <3>1. pc[h] = "incr" /\ pc'[h] # "incr" /\ OnlyMoves(h, pc, call, pc', call')
      BY SMT, <1>3, <1>9 DEF Moved
    <3> QED
      BY Zenon, <3>1, AtLeave
  <2>2. count' \in Counters
    BY Zenon, <1>11 DEF OneCounted
  <2> QED
    BY Zenon, <1>1, <1>2, <1>10, <1>11, <2>1, <2>2, LeaveKey DEF LimiterInv, LimiterType
<1>16. val < Both(taken, w, k)
  <2> DEFINE n == Cardinality(At(pc, call, "incr", <<s, k>>))
             B == Both(taken, w, k)
  <2>1. n \in Nat /\ B \in Nat
    BY Zenon, <1>1, <1>2, AtFinite, BothType DEF LimiterType
  <2>2. val + n <= B
    BY Zenon, <1>2, <1>5 DEF LimiterInv, RedisOK, val
  <2>3. n # 0
    <3>1. h \in At(pc, call, "incr", <<s, k>>)
      BY Zenon, <1>3, <1>10 DEF At
    <3> QED
      BY Zenon, <3>1, AtFinite, FS_EmptySet
  <2> HIDE DEF n, B
  <2>4. val < B
    BY SMT, <1>4, <2>1, <2>2, <2>3
  <2> QED
    BY Zenon, <2>4 DEF B
<1>17. AllReplied(pc', call', taken)
  <2>1. Replied("expire", e, taken)
    BY Zenon, <1>8, <1>16 DEF Replied
  <2> QED
    BY Zenon, <1>1, <1>9, <2>1, MovedReplied DEF LimiterInv, LimiterType
<1> QED
  BY Zenon, <1>3, <1>12, <1>13, <1>14, <1>15, <1>17 DEF LimiterInv

LEMMA RedisExpireInv ==
    ASSUME LimiterInv, NEW h \in Handlers, RedisExpire(h)
    PROVE  LimiterInv'
<1>1. LimiterType
  BY Zenon DEF LimiterInv
<1>2. /\ pc[h] = "expire" /\ pc' = [pc EXCEPT ![h] = "reply"] /\ call' = call /\ count' = count
      /\ dur' = dur /\ now' = now /\ gens' = gens
      /\ taken' = taken /\ granted' = granted /\ denied' = denied
  BY Zenon DEF RedisExpire, Goto, config, history
<1>3. Moved(h, pc, call, pc', call, "reply", call[h])
  <2>1. "reply" \in PCs
    BY SMT DEF PCs
  <2>2. pc \in [Handlers -> PCs] /\ call \in [Handlers -> CallType] /\ call[h] \in CallType
    BY Zenon, <1>1 DEF LimiterType
  <2> QED
    BY Zenon, <1>2, <2>1, <2>2, MovedIs
<1>4. LimiterType'
  BY Zenon, <1>1, <1>2, <1>3 DEF LimiterType, Moved
<1>5. AllHolding(gens, pc', call, dur)
  <2>1. Holding(gens, "reply", call[h], dur)
    <3>1. "reply" # "generation"
      BY SMT
    <3> QED
      BY Zenon, <1>2, <3>1 DEF LimiterInv, AllHolding, Holding
  <2> QED
    BY Zenon, <1>1, <1>3, <2>1, MovedHolding DEF LimiterInv, LimiterType
<1>6. MemoryOK(gens, pc', call, dur, taken)
  <2>1. pc[h] # "generation" /\ "reply" # "generation"
    BY SMT, <1>2
  <2> QED
    BY Zenon, <1>1, <1>3, <2>1, MovedMemory DEF LimiterInv, LimiterType
<1>7. RedisOK(count, pc', call, dur, taken)
  <2>1. pc[h] # "incr" /\ "reply" # "incr"
    BY SMT, <1>2
  <2> QED
    BY Zenon, <1>1, <1>3, <2>1, MovedRedis DEF LimiterInv, LimiterType
<1>8. AllReplied(pc', call, taken)
  <2>1. Replied("reply", call[h], taken)
    BY Zenon, <1>2 DEF LimiterInv, AllReplied, Replied
  <2> QED
    BY Zenon, <1>1, <1>3, <2>1, MovedReplied DEF LimiterInv, LimiterType
<1> QED
  BY Zenon, <1>2, <1>4, <1>5, <1>6, <1>7, <1>8 DEF LimiterInv

LEMMA RedisReplyInv ==
    ASSUME LimiterInv, NEW h \in Handlers, RedisReply(h)
    PROVE  LimiterInv'
<1> DEFINE c == call[h].class
           k == call[h].key
           w == call[h].window
           val == call[h].val
           ok == Allows(c, val)
<1>1. LimiterType
  BY Zenon DEF LimiterInv
<1>2. c \in Classes /\ k \in Keys /\ w \in Times /\ val \in Nat
  BY Zenon, <1>1, CallFields DEF LimiterType
<1>3. /\ pc[h] = "reply" /\ Return(h, "redis", ok)
      /\ dur' = dur /\ now' = now /\ gens' = gens /\ count' = count
  BY Zenon DEF RedisReply, config, redis
<1>4. val < Both(taken, w, k)
  BY Zenon, <1>3 DEF LimiterInv, AllReplied, Replied
<1>5. Limits[c] \in Nat /\ Both(taken, w, k) \in Nat /\ "redis" \in Stores
  BY Zenon, <1>1, <1>2, BothType, LimiterAssumption DEF LimiterType, Stores
<1>6. ok \in BOOLEAN /\ (~ok => Both(taken, w, k) > Limits[c])
  <2> HIDE DEF val, c, w, k
  <2> QED
    BY SMT, <1>2, <1>4, <1>5 DEF Allows
<1>7. ~ok => CountedIn(taken, "redis", c, w, k) > Limits[c]
  BY Zenon, <1>6 DEF CountedIn
<1> HIDE DEF ok
<1>8. /\ Moved(h, pc, call, pc', call', "idle", NoCall)
      /\ taken' = taken
      /\ IF ok THEN Bumped(granted, granted', "redis", c, w, k) ELSE granted' = granted
      /\ granted' \in History
      /\ denied' \in SUBSET Refusals
      /\ DeniedOK(denied', taken)
  BY Zenon, <1>1, <1>3, <1>5, <1>6, <1>7, ReturnIs DEF LimiterInv
<1>9. LimiterType'
  BY Zenon, <1>1, <1>3, <1>8 DEF LimiterType, Moved
<1>10. "idle" \notin {"generation", "incr", "expire", "reply"}
  BY SMT
<1>11. AllHolding(gens, pc', call', dur) /\ AllReplied(pc', call', taken)
  <2>1. Holding(gens, "idle", NoCall, dur) /\ Replied("idle", NoCall, taken)
    BY Zenon, <1>10, AtRest
  <2> QED
    BY Zenon, <1>1, <1>8, <2>1, MovedHolding, MovedReplied DEF LimiterInv, LimiterType
<1>12. MemoryOK(gens, pc', call', dur, taken)
  <2>1. pc[h] # "generation" /\ "idle" # "generation"
    BY SMT, <1>3
  <2> QED
    BY Zenon, <1>1, <1>8, <2>1, MovedMemory DEF LimiterInv, LimiterType
<1>13. RedisOK(count, pc', call', dur, taken)
  <2>1. pc[h] # "incr" /\ "idle" # "incr"
    BY SMT, <1>3
  <2> QED
    BY Zenon, <1>1, <1>8, <2>1, MovedRedis DEF LimiterInv, LimiterType
<1>14. GrantsOK(gens, dur, granted')
  <2>1. ASSUME NEW x \in Classes, NEW v \in Times, NEW j \in Keys
        PROVE  granted'["memory"][x][v][j] = granted["memory"][x][v][j]
    <3>1. <<"memory", x, v, j>> # <<"redis", c, w, k>>
      BY SMT
    <3>2. "memory" \in Stores
      BY Zenon DEF Stores
    <3> QED
      BY Zenon, <1>8, <3>1, <3>2 DEF Bumped
  <2>2. SameGrants(granted, granted')
    BY Zenon, <2>1 DEF SameGrants
  <2> QED
    BY Zenon, <2>2, GrantsSame DEF LimiterInv
<1> QED
  BY Zenon, <1>3, <1>8, <1>9, <1>11, <1>12, <1>13, <1>14 DEF LimiterInv

LEMMA RedisErrorInv ==
    ASSUME LimiterInv, NEW h \in Handlers, RedisError(h)
    PROVE  LimiterInv'
<1>1. LimiterType
  BY Zenon DEF LimiterInv
<1>2. /\ pc[h] \in {"incr", "reply"}
      /\ \/ pc' = [pc EXCEPT ![h] = "memory"] /\ call' = call
         \/ pc' = [pc EXCEPT ![h] = "idle"] /\ call' = [call EXCEPT ![h] = NoCall]
      /\ dur' = dur /\ now' = now /\ gens' = gens /\ count' = count
      /\ taken' = taken /\ granted' = granted /\ denied' = denied
  BY Zenon DEF RedisError, Goto, config, redis, history
<1>3. PICK l, c : l \in {"memory", "idle"} /\ Moved(h, pc, call, pc', call', l, c)
  <2>1. "memory" \in PCs /\ "idle" \in PCs
    BY SMT DEF PCs
  <2>2. pc \in [Handlers -> PCs] /\ call \in [Handlers -> CallType] /\ call[h] \in CallType
    BY Zenon, <1>1 DEF LimiterType
  <2>3. CASE pc' = [pc EXCEPT ![h] = "memory"] /\ call' = call
    <3>1. Moved(h, pc, call, pc', call', "memory", call[h])
      BY Zenon, <2>1, <2>2, <2>3, MovedIs
    <3> QED
      BY SMT, <3>1
  <2>4. CASE pc' = [pc EXCEPT ![h] = "idle"] /\ call' = [call EXCEPT ![h] = NoCall]
    <3>1. Moved(h, pc, call, pc', call', "idle", NoCall)
      BY Zenon, <2>1, <2>2, <2>4, NoCallType, MovedIs
    <3> QED
      BY SMT, <3>1
  <2> QED
    BY Zenon, <1>2, <2>3, <2>4
<1>4. l \notin {"generation", "incr", "expire", "reply"}
  BY SMT, <1>3
<1>5. LimiterType'
  BY Zenon, <1>1, <1>2, <1>3 DEF LimiterType, Moved
<1>6. AllHolding(gens, pc', call', dur) /\ AllReplied(pc', call', taken)
  <2>1. Holding(gens, l, c, dur) /\ Replied(l, c, taken)
    BY Zenon, <1>4, AtRest
  <2> QED
    BY Zenon, <1>1, <1>3, <2>1, MovedHolding, MovedReplied DEF LimiterInv, LimiterType
<1>7. MemoryOK(gens, pc', call', dur, taken)
  <2>1. pc[h] # "generation" /\ l # "generation"
    BY SMT, <1>2, <1>4
  <2> QED
    BY Zenon, <1>1, <1>3, <2>1, MovedMemory DEF LimiterInv, LimiterType
<1>8. RedisOK(count, pc', call', dur, taken)
  <2>1. l # "incr"
    BY Zenon, <1>4
  <2>2. CASE pc[h] = "incr"
    <3>1. OneMore(h, pc', call', pc, call, "incr")
      BY Zenon, <1>3, <2>1, <2>2, AtLeave DEF Moved
    <3>2. Counter("incr", call[h]) = <<call[h].ts, call[h].key>>
      <4>1. "incr" # "generation"
        BY SMT
      <4> QED
        BY Zenon, <4>1 DEF Counter
    <3>3. call[h].ts \in Times /\ call[h].key \in Keys
      BY Zenon, <1>1, CallFields DEF LimiterType
    <3> QED
      BY Zenon, <1>1, <3>1, <3>2, <3>3, LeaveKey DEF LimiterInv, LimiterType
  <2>3. CASE pc[h] # "incr"
    BY Zenon, <1>1, <1>3, <2>1, <2>3, MovedRedis DEF LimiterInv, LimiterType
  <2> QED
    BY Zenon, <2>2, <2>3
<1> QED
  BY Zenon, <1>2, <1>5, <1>6, <1>7, <1>8 DEF LimiterInv

LEMMA TickInv ==
    ASSUME LimiterInv, Tick
    PROVE  LimiterInv'
<1>1. LimiterType
  BY Zenon DEF LimiterInv
<1>2. /\ now < MaxTime /\ now' = now + 1
      /\ count' = [s \in Times |-> [k \in Keys |-> IF ttl[s][k] = 1 THEN 0 ELSE count[s][k]]]
      /\ dur' = dur /\ gens' = gens /\ pc' = pc /\ call' = call
      /\ taken' = taken /\ granted' = granted /\ denied' = denied
  BY Zenon DEF Tick, config, history
<1>3. now \in Nat /\ now' \in Nat /\ now <= now' /\ now' \in Times
  BY SMT, <1>1, <1>2, LimiterAssumption DEF LimiterType, Times
<1>4. ASSUME NEW s \in Times, NEW k \in Keys
      PROVE  count[s][k] \in Nat /\ count'[s][k] \in {0, count[s][k]}
  <2>1. count[s][k] \in Nat
    BY Zenon, <1>1, CountType DEF LimiterType
  <2>2. count'[s][k] = IF ttl[s][k] = 1 THEN 0 ELSE count[s][k]
    BY Zenon, <1>2
  <2> QED
    BY Zenon, <2>1, <2>2
<1>5. count' \in Counters
  <2> DEFINE f(s) == [k \in Keys |-> IF ttl[s][k] = 1 THEN 0 ELSE count[s][k]]
  <2>1. ASSUME NEW s \in Times PROVE f(s) \in Table
    <3>1. \A k \in Keys : (IF ttl[s][k] = 1 THEN 0 ELSE count[s][k]) \in Nat
      BY SMT, <1>4
    <3> QED
      BY Zenon, <3>1 DEF Table
  <2>2. count' = [s \in Times |-> f(s)]
    BY Zenon, <1>2
  <2> HIDE DEF f
  <2> QED
    BY Zenon, <2>1, <2>2 DEF Counters
<1>6. LimiterType'
  BY Zenon, <1>1, <1>2, <1>3, <1>5 DEF LimiterType
<1>7. InTurn(gens, TruncAt(now', dur))
  <2> DEFINE T == TruncAt(now, dur)
             U == TruncAt(now', dur)
  <2>1. dur \in Nat \ {0}
    BY SMT, <1>1, LimiterAssumption DEF LimiterType
  <2>2. T \in Nat /\ U \in Nat /\ T <= U
    BY Zenon, <1>3, <2>1, TruncIs, TruncMonotone
  <2>3. InTurn(gens, T)
    BY Zenon DEF LimiterInv
  <2> HIDE DEF T, U
  <2>4. ASSUME NEW c \in Classes, NEW i \in 1..Len(gens[c]) PROVE gens[c][i].ts <= U
    <3>1. Keys # {} /\ gens \in Generations
      BY Zenon, <1>1, LimiterAssumption DEF LimiterType
    <3>2. gens[c][i].ts \in Nat
      BY Zenon, <3>1, GenerationType
    <3>3. gens[c][i].ts <= T
      BY Zenon, <2>3 DEF InTurn
    <3> QED
      BY SMT, <2>2, <3>2, <3>3
  <2>5. InTurn(gens, U)
    BY Zenon, <2>3, <2>4 DEF InTurn
  <2> QED
    BY Zenon, <2>5 DEF U
<1>8. RedisOK(count', pc, call, dur, taken)
  <2>1. ASSUME NEW s \in Times, NEW k \in Keys
        PROVE  count'[s][k] + Cardinality(At(pc, call, "incr", <<s, k>>))
                  <= count[s][k] + Cardinality(At(pc, call, "incr", <<s, k>>))
    <3> DEFINE n == Cardinality(At(pc, call, "incr", <<s, k>>))
    <3>1. n \in Nat
      BY Zenon, AtFinite
    <3> HIDE DEF n
    <3>2. count'[s][k] + n <= count[s][k] + n
      BY SMT, <1>4, <3>1
    <3> QED
      BY Zenon, <3>2 DEF n
  <2> QED
    BY Zenon, <1>1, <1>5, <2>1, LessKeys DEF LimiterInv, LimiterType
<1> QED
  BY Zenon, <1>2, <1>6, <1>7, <1>8 DEF LimiterInv

LEMMA LimiterInvHolds == Spec => []LimiterInv
<1>1. ASSUME LimiterInv, [Next]_vars PROVE LimiterInv'
  <2>1. CASE Tick
    BY Zenon, <1>1, <2>1, TickInv
  <2>2. ASSUME NEW h \in Handlers, NEW class \in Classes, NEW k \in Keys, Begin(h, class, k)
        PROVE  LimiterInv'
    BY Zenon, <1>1, <2>2, BeginInv
  <2>3. ASSUME NEW h \in Handlers, \/ MemoryGeneration(h) \/ MemoryTake(h)
                                   \/ RedisKey(h) \/ RedisIncr(h) \/ RedisExpire(h)
                                   \/ RedisReply(h) \/ RedisError(h)
        PROVE  LimiterInv'
    BY Zenon, <1>1, <2>3, GenerationInv, TakeInv, RedisKeyInv, RedisIncrInv, RedisExpireInv,
       RedisReplyInv, RedisErrorInv
  <2>4. CASE UNCHANGED vars
    <3>1. /\ dur' = dur /\ now' = now /\ gens' = gens /\ count' = count /\ pc' = pc /\ call' = call
          /\ taken' = taken /\ granted' = granted /\ denied' = denied
      BY Zenon, <2>4 DEF vars
    <3> QED
      BY Zenon, <1>1, <3>1 DEF LimiterInv, LimiterType
  <2> QED
    BY Zenon, <1>1, <2>1, <2>2, <2>3, <2>4 DEF Next
<1> QED
  BY PTL, InitInv, <1>1 DEF Spec

(* Take "consumes a key, and a maximum number of requests per time         *)
(* interval" (frontend_rate_limiter.go): however many handlers call Take,  *)
(* whatever generation each of them holds, the memory limiter lets at most *)
(* its limit of the calls of an interval through, for each key.            *)
THEOREM MemoryKeepsLimits == Spec => []MemoryLimits
<1>1. LimiterInv => MemoryLimits
  BY Zenon DEF LimiterInv, GrantsOK, MemoryLimits
<1> QED
  BY PTL, <1>1, LimiterInvHolds

(* A Take answers false only when more calls than its limit were made with *)
(* its key in its interval: none is refused for the calls of another key,  *)
(* of another interval or, in memory, of the other limiter of its method.  *)
THEOREM RefusalsAreOverLimit == Spec => []DeniedOverLimitOnly
<1>1. LimiterInv => DeniedOverLimitOnly
  BY Zenon DEF LimiterInv, DeniedOK, CountedIn, Both, Counted, DeniedOverLimitOnly
<1> QED
  BY PTL, <1>1, LimiterInvHolds
=============================================================================
