------------------------- MODULE BackendHealthProofs -------------------------
(* Theorems about BackendHealth, for any number of goroutines, requests,   *)
(* buckets and latencies, and any thresholds.                              *)
EXTENDS BackendHealth, FiniteSetTheorems, TLAPS

(* Sums.                                                                   *)
LEMMA UpTo == \A n \in Nat : IsFiniteSet(1..n) /\ Cardinality(1..n) = n
<1> SUFFICES ASSUME NEW n \in Nat PROVE IsFiniteSet(1..n) /\ Cardinality(1..n) = n
  BY Zenon
<1>1. 1 \in Int /\ n \in Int
  OBVIOUS
<1>2. IsFiniteSet(1..n) /\ Cardinality(1..n) = IF 1 > n THEN 0 ELSE n - 1 + 1
  BY Zenon, <1>1, FS_Interval
<1> QED
  BY <1>2

Points(f, S) == UNION {{x} \X (1..f[x]) : x \in S}

LEMMA FiniteSum ==
    ASSUME NEW S, IsFiniteSet(S), NEW f, \A x \in S : f[x] \in Nat
    PROVE  IsFiniteSet(Points(f, S)) /\ SumOf(f, S) = Cardinality(Points(f, S))
           /\ SumOf(f, S) \in Nat
<1> DEFINE column == [x \in S |-> {x} \X (1..f[x])]
           columns == {{x} \X (1..f[x]) : x \in S}
<1>1. column \in Surjection(S, columns)
  BY Zenon DEF Surjection
<1>2. IsFiniteSet(columns)
  BY Zenon, <1>1, FS_Surjection
<1>3. ASSUME NEW x \in S PROVE IsFiniteSet({x} \X (1..f[x]))
  <2>1. IsFiniteSet({x})
    BY Zenon, FS_Singleton
  <2>2. IsFiniteSet(1..f[x])
    BY Zenon, UpTo
  <2> QED
    BY Zenon, <2>1, <2>2, FS_Product
<1>4. IsFiniteSet(UNION columns)
  BY Zenon, <1>2, <1>3, FS_UNION
<1> QED
  BY Zenon, <1>4, FS_CardinalityType DEF Points, SumOf

LEMMA SumOfNone == ASSUME NEW S, NEW f, \A x \in S : f[x] = 0 PROVE SumOf(f, S) = 0
<1>1. UNION {{x} \X (1..f[x]) : x \in S} = {}
  BY SMT
<1> QED
  BY Zenon, <1>1, FS_EmptySet DEF SumOf

LEMMA SumOfOne == ASSUME NEW x, NEW f, f[x] \in Nat PROVE SumOf(f, {x}) = f[x]
<1>1. UNION {{y} \X (1..f[y]) : y \in {x}} = {x} \X (1..f[x])
  BY Zenon
<1>2. IsFiniteSet({x}) /\ Cardinality({x}) = 1
  BY Zenon, FS_Singleton
<1>3. IsFiniteSet(1..f[x]) /\ Cardinality(1..f[x]) = f[x]
  BY Zenon, UpTo
<1>4. Cardinality({x} \X (1..f[x])) = Cardinality({x}) * Cardinality(1..f[x])
  BY Zenon, <1>2, <1>3, FS_Product
<1>5. SumOf(f, {x}) = 1 * f[x]
  BY Zenon, <1>1, <1>2, <1>3, <1>4 DEF SumOf
<1> QED
  BY <1>5

LEMMA SumOfBoth ==
    ASSUME NEW U, NEW S, NEW T, IsFiniteSet(S), IsFiniteSet(T), S \cap T = {}, U = S \cup T,
           NEW f, \A x \in U : f[x] \in Nat
    PROVE  SumOf(f, U) = SumOf(f, S) + SumOf(f, T)
<1>1. Points(f, U) = Points(f, S) \cup Points(f, T)
  BY Zenon DEF Points
<1>2. Points(f, S) \cap Points(f, T) = {}
  <2>1. \A q \in Points(f, S) : q[1] \in S
    BY SMT DEF Points
  <2>2. \A q \in Points(f, T) : q[1] \in T
    BY SMT DEF Points
  <2> QED
    BY Zenon, <2>1, <2>2
<1>3. IsFiniteSet(U)
  BY Zenon, FS_Union
<1>4. Cardinality(Points(f, S) \cap Points(f, T)) = 0
  BY Zenon, <1>2, FS_EmptySet
<1>5. IsFiniteSet(Points(f, S)) /\ IsFiniteSet(Points(f, T))
  BY Zenon, FiniteSum
<1>6. Cardinality(Points(f, S) \cup Points(f, T))
          = Cardinality(Points(f, S)) + Cardinality(Points(f, T)) - 0
  BY Zenon, <1>4, <1>5, FS_Union
<1>7. /\ SumOf(f, S) = Cardinality(Points(f, S)) /\ SumOf(f, S) \in Nat
      /\ SumOf(f, T) = Cardinality(Points(f, T)) /\ SumOf(f, T) \in Nat
      /\ SumOf(f, U) = Cardinality(Points(f, U))
  BY Zenon, <1>3, FiniteSum
<1>8. SumOf(f, U) = SumOf(f, S) + SumOf(f, T) - 0
  BY Zenon, <1>1, <1>6, <1>7
<1> QED
  BY <1>7, <1>8

LEMMA SumOfSame ==
    ASSUME NEW S, NEW f, NEW g, \A x \in S : f[x] = g[x]
    PROVE  SumOf(f, S) = SumOf(g, S)
<1>1. {{x} \X (1..f[x]) : x \in S} = {{x} \X (1..g[x]) : x \in S}
  BY Zenon
<1> QED
  BY Zenon, <1>1 DEF SumOf

LEMMA SumOfMoved ==
    ASSUME NEW S, NEW T, IsFiniteSet(S), NEW h \in Bijection(S, T), NEW f, NEW g,
           \A x \in S : f[x] \in Nat /\ f[x] = g[h[x]]
    PROVE  SumOf(f, S) = SumOf(g, T)
<1> DEFINE move == [q \in Points(f, S) |-> <<h[q[1]], q[2]>>]
<1>1. /\ h \in [S -> T] /\ (\A x, y \in S : h[x] = h[y] => x = y)
      /\ \A t \in T : \E x \in S : h[x] = t
  BY Zenon DEF Bijection, Injection, Surjection, IsInjective
<1>2. \A q : q \in Points(f, S) <=> \E x \in S, i \in Nat : i \in 1..f[x] /\ q = <<x, i>>
  BY SMT DEF Points
<1>3. \A q : q \in Points(g, T) <=> \E x \in T, i \in Nat : i \in 1..g[x] /\ q = <<x, i>>
  BY SMT DEF Points
<1>4. move \in [Points(f, S) -> Points(g, T)]
  <2> SUFFICES ASSUME NEW q \in Points(f, S) PROVE <<h[q[1]], q[2]>> \in Points(g, T)
    BY Zenon
  <2>2. PICK x \in S, i \in Nat : i \in 1..f[x] /\ q = <<x, i>>
    BY Zenon, <1>2
  <2>3. q[1] = x /\ q[2] = i
    BY <2>2
  <2> QED
    BY Zenon, <1>1, <1>3, <2>2, <2>3
<1>5. \A q, r \in Points(f, S) : move[q] = move[r] => q = r
  <2> SUFFICES ASSUME NEW q \in Points(f, S), NEW r \in Points(f, S), move[q] = move[r]
               PROVE  q = r
    BY Zenon
  <2>1. PICK x \in S, i \in Nat : i \in 1..f[x] /\ q = <<x, i>>
    BY <1>2
  <2>2. PICK y \in S, j \in Nat : j \in 1..f[y] /\ r = <<y, j>>
    BY <1>2
  <2>3. <<h[x], i>> = <<h[y], j>>
    BY Zenon, <2>1, <2>2
  <2>4. h[x] = h[y] /\ i = j
    BY Zenon, <2>3
  <2> QED
    BY Zenon, <1>1, <2>1, <2>2, <2>4
<1>6. \A t \in Points(g, T) : \E q \in Points(f, S) : move[q] = t
  <2> SUFFICES ASSUME NEW t \in Points(g, T) PROVE \E q \in Points(f, S) : move[q] = t
    BY Zenon
  <2>1. PICK y \in T, i \in Nat : i \in 1..g[y] /\ t = <<y, i>>
    BY <1>3
  <2>2. PICK x \in S : h[x] = y
    BY Zenon, <1>1
  <2>3. <<x, i>> \in Points(f, S)
    BY Zenon, <1>2, <2>1, <2>2
  <2>4. move[<<x, i>>] = t
    BY Zenon, <2>1, <2>2, <2>3
  <2> QED
    BY Zenon, <2>3, <2>4
<1>7. move \in Bijection(Points(f, S), Points(g, T))
  BY Zenon, <1>4, <1>5, <1>6 DEF Bijection, Injection, Surjection, IsInjective
<1>8. IsFiniteSet(Points(f, S))
  BY Zenon, FiniteSum
<1>9. Cardinality(Points(f, S)) = Cardinality(Points(g, T))
  BY Zenon, <1>7, <1>8, FS_Bijection DEF ExistsBijection
<1> QED
  BY Zenon, <1>9 DEF SumOf, Points

LEMMA SumOfRaised ==
    ASSUME NEW l \in Nat, NEW i \in 1..l, NEW f, NEW g, NEW d \in Nat,
           \A x \in 1..l : f[x] \in Nat, g[i] = f[i] + d, \A x \in (1..l) \ {i} : g[x] = f[x]
    PROVE  SumOf(g, 1..l) = SumOf(f, 1..l) + d
<1> DEFINE S == 1..l
           R == S \ {i}
<1>1. IsFiniteSet(S)
  BY Zenon, UpTo
<1>2. IsFiniteSet(R) /\ IsFiniteSet({i}) /\ R \cap {i} = {} /\ S = R \cup {i}
  BY Zenon, <1>1, FS_Subset, FS_Singleton
<1>3. /\ f[i] \in Nat /\ g[i] \in Nat
      /\ \A x \in S : f[x] \in Nat /\ g[x] \in Nat
  BY SMT
<1> HIDE DEF R
<1>4. SumOf(f, S) = SumOf(f, R) + SumOf(f, {i}) /\ SumOf(g, S) = SumOf(g, R) + SumOf(g, {i})
  <2>1. \A e, T : IsFiniteSet(T) /\ R \cap T = {} /\ S = R \cup T /\ (\A x \in S : e[x] \in Nat)
                  => SumOf(e, S) = SumOf(e, R) + SumOf(e, T)
    BY <1>2, SumOfBoth
  <2> QED
    BY Zenon, <1>2, <1>3, <2>1
<1>5. SumOf(f, {i}) = f[i] /\ SumOf(g, {i}) = g[i]
  BY Zenon, <1>3, SumOfOne
<1>6. SumOf(g, R) = SumOf(f, R)
  BY Zenon, SumOfSame DEF R
<1>7. SumOf(f, R) \in Nat
  <2>1. \A x \in R : f[x] \in Nat
    BY Zenon, <1>2, <1>3
  <2> QED
    BY Zenon, <1>2, <2>1, FiniteSum
<1> QED
  BY <1>3, <1>4, <1>5, <1>6, <1>7

LEMMA SumOfTail ==
    ASSUME NEW l \in Nat, NEW n \in 0..l, NEW f, NEW g, \A i \in 1..l : f[i] \in Nat,
           \A i \in 1..(l - n) : g[i] = f[n + i]
    PROVE  SumOf(f, 1..l) = SumOf(f, 1..n) + SumOf(g, 1..(l - n))
<1> DEFINE h == [i \in 1..(l - n) |-> n + i]
<1>1. IsFiniteSet(1..n) /\ IsFiniteSet((n + 1)..l) /\ IsFiniteSet(1..(l - n))
  <2>1. n \in Nat /\ l - n \in Nat /\ n + 1 \in Int /\ l \in Int
    OBVIOUS
  <2> QED
    BY Zenon, <2>1, UpTo, FS_Interval
<1>2. (1..n) \cap ((n + 1)..l) = {} /\ 1..l = (1..n) \cup ((n + 1)..l)
  BY SMT
<1>3. SumOf(f, 1..l) = SumOf(f, 1..n) + SumOf(f, (n + 1)..l)
  <2> DEFINE U == 1..l
             S == 1..n
             T == (n + 1)..l
  <2>1. /\ IsFiniteSet(S) /\ IsFiniteSet(T) /\ S \cap T = {} /\ U = S \cup T
        /\ \A i \in U : f[i] \in Nat
    BY Zenon, <1>1, <1>2
  <2> HIDE DEF U, S, T
  <2>2. SumOf(f, U) = SumOf(f, S) + SumOf(f, T)
    BY <2>1, SumOfBoth
  <2> QED
    BY Zenon, <2>2 DEF U, S, T
<1>4. h \in Bijection(1..(l - n), (n + 1)..l)
  <2>1. h \in [1..(l - n) -> (n + 1)..l]
    BY SMT
  <2>2. \A i, j \in 1..(l - n) : h[i] = h[j] => i = j
    BY SMT
  <2>3. \A m \in (n + 1)..l : \E i \in 1..(l - n) : h[i] = m
    <3> SUFFICES ASSUME NEW m \in (n + 1)..l PROVE m - n \in 1..(l - n) /\ h[m - n] = m
      BY Zenon
    <3> QED
      BY SMT
  <2> QED
    BY Zenon, <2>1, <2>2, <2>3 DEF Bijection, Injection, Surjection, IsInjective
<1>5. \A i \in 1..(l - n) : g[i] \in Nat /\ g[i] = f[h[i]]
  BY SMT
<1>6. SumOf(g, 1..(l - n)) = SumOf(f, (n + 1)..l)
  <2> HIDE DEF h
  <2>1. \A S, T : h \in Bijection(S, T) /\ IsFiniteSet(S)
                  /\ (\A i \in S : g[i] \in Nat /\ g[i] = f[h[i]]) => SumOf(g, S) = SumOf(f, T)
    BY SumOfMoved
  <2> QED
    BY Zenon, <1>1, <1>4, <1>5, <2>1
<1> QED
  BY Zenon, <1>3, <1>6

LEMMA SumOfLonger ==
    ASSUME NEW l \in Nat, NEW f, NEW g, \A i \in 1..l : f[i] \in Nat /\ g[i] = f[i],
           g[l + 1] \in Nat
    PROVE  SumOf(g, 1..(l + 1)) = SumOf(f, 1..l) + g[l + 1]
<1>1. IsFiniteSet(1..l) /\ IsFiniteSet({l + 1})
  <2>1. IsFiniteSet(1..l)
    BY Zenon, UpTo
  <2> QED
    BY Zenon, <2>1, FS_Singleton
<1>2. (1..l) \cap {l + 1} = {} /\ 1..(l + 1) = (1..l) \cup {l + 1}
  BY SMT
<1>3. \A i \in 1..(l + 1) : g[i] \in Nat
  BY Zenon, <1>2
<1>4. SumOf(g, 1..(l + 1)) = SumOf(g, 1..l) + SumOf(g, {l + 1})
  BY <1>1, <1>2, <1>3, SumOfBoth
<1>5. SumOf(g, {l + 1}) = g[l + 1]
  BY Zenon, SumOfOne
<1>6. SumOf(g, 1..l) = SumOf(f, 1..l)
  BY Zenon, SumOfSame
<1> QED
  BY Zenon, <1>4, <1>5, <1>6

-----------------------------------------------------------------------------
(* One window: x as it is, and a what was added to it, when the clock      *)
(* rounds to r.  Every bucket holds what was added under its key, and a    *)
(* key that can still be in the window has its bucket.                     *)
Total  == [qty : Nat, sum : Nat]
Bucket == [key : Keys, qty : Nat, sum : Nat]
Window == [buckets : Seq(Bucket), qty : Nat, sum : Nat]

Kept(b, a, r) ==
    /\ \A i, j \in 1..Len(b) : b[i].key = b[j].key => i = j
    /\ \A i \in 1..Len(b) : /\ b[i].qty = a[b[i].key].qty /\ b[i].sum = a[b[i].key].sum
                            /\ b[i].qty > 0
    /\ \A k \in Keys : a[k].qty > 0 /\ k + WindowLength > r => \E i \in 1..Len(b) : b[i].key = k

WindowOK(x, a, r) ==
    /\ x \in Window /\ a \in [Keys -> Total]
    /\ TotalsMatch(x) /\ Kept(x.buckets, a, r)
    /\ \A k \in Keys : (a[k].qty > 0 => k <= r) /\ (a[k].qty = 0 => a[k].sum = 0)

WindowsInv ==
    /\ now \in 0..MaxTime
    /\ DOMAIN win = Windows /\ DOMAIN added = Windows
    /\ \A w \in Windows : WindowOK(win[w], added[w], Round(now))

(* No goroutine has read a time that is yet to come.                       *)
Place(time) == [at : {"idle", "advance", "insert", "sent"}, w : Windows, t : 0..time]

ServersInv == server \in [Servers -> Place(now)]

(* What a call has read stands for what was in the window meanwhile.       *)
ReaderInv ==
    /\ DOMAIN rate = {"errors", "requests"} /\ quiet \in BOOLEAN /\ sawError \in BOOLEAN
    /\ rpc # "idle" => verdict = "none"
    /\ rpc \in {"idle", "count", "sum errors", "errors"} => rate.errors = 0
    /\ rpc \in {"idle", "count", "sum errors"} => avg = Nothing
    /\ sawError \/ (rate.errors = 0 /\ verdict # "errors")
    /\ rpc = "errors" /\ ~sawError => win["errors"].sum = 0

Reading == {"check", "load", "qty", "sum", "judge"}

QuietInv ==
    quiet => /\ \A w \in Windows : ~HasPoint(w)
             /\ rpc = "errors" => win["errors"].sum = 0
             /\ rpc \in Reading => win["latency"].qty = 0 /\ win["latency"].sum = 0
             /\ rate.errors = 0 /\ avg = Nothing
             /\ verdict \in {"none", "fine"}

LEMMA RoundMonotone ==
    /\ \A t \in Nat : Round(t) \in Nat
    /\ \A t, u \in Nat : t <= u => Round(t) <= Round(u)
    /\ Keys \subseteq Nat
  BY SMT, WindowAssumption DEF Round, Keys

LEMMA LeastOf == ASSUME NEW T, T \subseteq Nat, T # {} PROVE \E n \in T : \A m \in T : n <= m
<1>1. PICK n \in T : \A m \in T : ~(<<m, n>> \in OpToRel(<, Nat))
  BY Zenon, WFMin, NatLessThanWellFounded
<1>2. ASSUME NEW m \in T PROVE ~(m < n)
  <2>1. m \in Nat /\ n \in Nat
    BY Zenon
  <2>2. m < n => <<m, n>> \in OpToRel(<, Nat)
    BY Zenon, <2>1 DEF OpToRel
  <2> QED
    BY Zenon, <1>1, <2>2
<1> QED
  BY SMT, <1>2

LEMMA EvictedIs ==
    ASSUME NEW b \in Seq(Bucket)
    PROVE  /\ Evicted(b) \in 0..Len(b)
           /\ \A i \in 1..Evicted(b) : ~AfterWindowStart(b[i].key)
           /\ Evicted(b) < Len(b) => AfterWindowStart(b[Evicted(b) + 1].key)
<1> DEFINE T == {n \in 0..Len(b) : n < Len(b) => AfterWindowStart(b[n + 1].key)}
<1>1. Len(b) \in T /\ T \subseteq Nat
  BY SMT
<1>2. PICK n \in T : \A m \in T : n <= m
  BY Zenon, <1>1, LeastOf
<1>3. \A i \in 1..n : ~AfterWindowStart(b[i].key)
  <2> SUFFICES ASSUME NEW i \in 1..n, AfterWindowStart(b[i].key) PROVE FALSE
    BY Zenon
  <2>1. i - 1 \in 0..Len(b) /\ (i - 1) + 1 = i /\ ~(n <= i - 1)
    BY SMT
  <2>2. i - 1 \in T
    BY Zenon, <2>1
  <2> QED
    BY Zenon, <1>2, <2>1, <2>2
<1>4. \E e \in 0..Len(b) : /\ \A i \in 1..e : ~AfterWindowStart(b[i].key)
                           /\ e < Len(b) => AfterWindowStart(b[e + 1].key)
  BY Zenon, <1>3
<1> QED
  BY Zenon, <1>4 DEF Evicted

LEMMA QtysAndSums ==
    ASSUME NEW b \in Seq(Bucket)
    PROVE  /\ \A i \in 1..Len(b) : /\ b[i] \in Bucket
                                   /\ Qtys(b)[i] = b[i].qty /\ Qtys(b)[i] \in Nat
                                   /\ Sums(b)[i] = b[i].sum /\ Sums(b)[i] \in Nat
           /\ \A n \in 0..Len(b) : SumOf(Qtys(b), 1..n) \in Nat /\ SumOf(Sums(b), 1..n) \in Nat
<1>1. ASSUME NEW i \in 1..Len(b)
      PROVE  /\ b[i] \in Bucket /\ Qtys(b)[i] = b[i].qty /\ Qtys(b)[i] \in Nat
             /\ Sums(b)[i] = b[i].sum /\ Sums(b)[i] \in Nat
  <2>1. b[i] \in Bucket
    OBVIOUS
  <2>2. b[i].qty \in Nat /\ b[i].sum \in Nat
    BY Zenon, <2>1 DEF Bucket
  <2> QED
    BY Zenon, <2>1, <2>2 DEF Qtys, Sums
<1>2. ASSUME NEW n \in 0..Len(b)
      PROVE  SumOf(Qtys(b), 1..n) \in Nat /\ SumOf(Sums(b), 1..n) \in Nat
  <2>1. IsFiniteSet(1..n)
    <3>1. n \in Nat
      OBVIOUS
    <3> QED
      BY Zenon, <3>1, UpTo
  <2>2. \A i \in 1..n : i \in 1..Len(b)
    BY SMT
  <2>3. \A i \in 1..n : Qtys(b)[i] \in Nat /\ Sums(b)[i] \in Nat
    BY Zenon, <1>1, <2>2
  <2> QED
    BY Zenon, <2>1, <2>3, FiniteSum
<1> QED
  BY Zenon, <1>1, <1>2

(* What advance() leaves: the totals still match, and with no point in the *)
(* window there is nothing left.                                           *)
LEMMA AdvancedIs ==
    ASSUME NEW x, x.buckets \in Seq(Bucket), TotalsMatch(x)
    PROVE  LET b == x.buckets
               n == Evicted(b)
               c == Advanced(x).buckets
           IN  /\ c \in Seq(Bucket) /\ Len(c) = Len(b) - n
               /\ \A i \in 1..Len(c) : n + i \in 1..Len(b) /\ c[i] = b[n + i]
               /\ Advanced(x).qty = SumOf(Qtys(c), 1..Len(c))
               /\ Advanced(x).sum = SumOf(Sums(c), 1..Len(c))
               /\ Advanced(x).qty <= x.qty /\ Advanced(x).sum <= x.sum
<1> DEFINE b == x.buckets
           n == Evicted(b)
           l == Len(b)
           c == SubSeq(b, n + 1, l)
<1>1. b \in Seq(Bucket) /\ l \in Nat /\ n \in 0..l
  BY EvictedIs
<1>2. /\ Advanced(x).buckets = c
      /\ Advanced(x).qty = Leaves(x, n).qty /\ Advanced(x).sum = Leaves(x, n).sum
  BY Zenon DEF Advanced
<1> HIDE DEF n
<1>3. /\ c \in Seq(Bucket) /\ Len(c) = l - n
      /\ \A i \in 1..(l - n) : n + i \in 1..l /\ c[i] = b[n + i]
  BY SMT, <1>1
<1>4. /\ n = l /\ n > 0 => Leaves(x, n).qty = 0 /\ Leaves(x, n).sum = 0
      /\ ~(n = l /\ n > 0) => /\ Leaves(x, n).qty = x.qty - SumOf(Qtys(b), 1..n)
                              /\ Leaves(x, n).sum = x.sum - SumOf(Sums(b), 1..n)
  BY Zenon DEF Leaves, Nothing
<1> HIDE DEF b, c, l
<1>5. /\ SumOf(Qtys(b), 1..n) \in Nat /\ SumOf(Sums(b), 1..n) \in Nat
      /\ SumOf(Qtys(c), 1..(l - n)) \in Nat /\ SumOf(Sums(c), 1..(l - n)) \in Nat
  <2>1. l - n \in 0..Len(c)
    BY <1>1, <1>3
  <2> QED
    BY Zenon, <1>1, <1>3, <2>1, QtysAndSums DEF l
<1>6. /\ SumOf(Qtys(b), 1..l) = SumOf(Qtys(b), 1..n) + SumOf(Qtys(c), 1..(l - n))
      /\ SumOf(Sums(b), 1..l) = SumOf(Sums(b), 1..n) + SumOf(Sums(c), 1..(l - n))
  <2>1. \A i \in 1..l : Qtys(b)[i] \in Nat /\ Sums(b)[i] \in Nat
    BY Zenon, <1>1, QtysAndSums DEF l
  <2>2. \A i \in 1..(l - n) : Qtys(c)[i] = Qtys(b)[n + i] /\ Sums(c)[i] = Sums(b)[n + i]
    <3> SUFFICES ASSUME NEW i \in 1..(l - n)
                 PROVE  Qtys(c)[i] = Qtys(b)[n + i] /\ Sums(c)[i] = Sums(b)[n + i]
      BY Zenon
    <3>1. i \in 1..Len(c) /\ n + i \in 1..Len(b) /\ c[i] = b[n + i]
      BY Zenon, <1>3 DEF l
    <3> QED
      BY ZenonT(60), <1>1, <1>3, <3>1, QtysAndSums
  <2>3. \A f, g : (\A i \in 1..l : f[i] \in Nat) /\ (\A i \in 1..(l - n) : g[i] = f[n + i])
                  => SumOf(f, 1..l) = SumOf(f, 1..n) + SumOf(g, 1..(l - n))
    BY Zenon, <1>1, SumOfTail
  <2> QED
    BY Zenon, <2>1, <2>2, <2>3
<1>7. x.qty = SumOf(Qtys(b), 1..l) /\ x.sum = SumOf(Sums(b), 1..l)
  BY Zenon DEF TotalsMatch, b, l
<1>8. /\ Leaves(x, n).qty = SumOf(Qtys(c), 1..(l - n))
      /\ Leaves(x, n).sum = SumOf(Sums(c), 1..(l - n))
  <2>1. CASE n = l /\ n > 0
    <3>1. \A i \in 1..(l - n) : Qtys(c)[i] = 0 /\ Sums(c)[i] = 0
      BY <1>1, <2>1
    <3>2. SumOf(Qtys(c), 1..(l - n)) = 0 /\ SumOf(Sums(c), 1..(l - n)) = 0
      BY Zenon, <3>1, SumOfNone
    <3> QED
      BY Zenon, <1>4, <2>1, <3>2
  <2>2. CASE ~(n = l /\ n > 0)
    <3>1. /\ Leaves(x, n).qty = x.qty - SumOf(Qtys(b), 1..n)
          /\ Leaves(x, n).sum = x.sum - SumOf(Sums(b), 1..n)
      BY Zenon, <1>4, <2>2
    <3> QED
      BY <1>5, <1>6, <1>7, <3>1
  <2> QED
    BY Zenon, <2>1, <2>2
<1>9. Leaves(x, n).qty <= x.qty /\ Leaves(x, n).sum <= x.sum
  BY <1>5, <1>6, <1>7, <1>8
<1> QED
  BY Zenon, <1>2, <1>3, <1>8, <1>9 DEF b, n, l

LEMMA AfterStart ==
    ASSUME now \in Nat, NEW k \in Keys
    PROVE  /\ AfterWindowStart(k) <=> k + WindowLength > Round(now)
           /\ InWindow(k) <=> k + WindowLength > Round(now) /\ k <= Round(now)
           /\ Round(now) \in Nat /\ k \in Nat
  BY Zenon, RoundMonotone DEF AfterWindowStart, InWindow

(* advance() keeps the window, and leaves nothing of it when nothing that  *)
(* was added is in it.                                                     *)
LEMMA AdvancedOK ==
    ASSUME NEW x, NEW a, now \in Nat, WindowOK(x, a, Round(now))
    PROVE  /\ WindowOK(Advanced(x), a, Round(now))
           /\ Advanced(x).qty <= x.qty /\ Advanced(x).sum <= x.sum
           /\ (\A k \in Keys : InWindow(k) => a[k].qty = 0)
                => Advanced(x).qty = 0 /\ Advanced(x).sum = 0
<1> DEFINE b == x.buckets
           n == Evicted(b)
           c == Advanced(x).buckets
           r == Round(now)
<1>1. b \in Seq(Bucket) /\ TotalsMatch(x) /\ Kept(b, a, r) /\ a \in [Keys -> Total]
  BY Zenon DEF WindowOK, Window
<1>2. /\ n \in 0..Len(b)
      /\ \A i \in 1..n : ~AfterWindowStart(b[i].key)
      /\ n < Len(b) => AfterWindowStart(b[n + 1].key)
  BY Zenon, <1>1, EvictedIs
<1>3. /\ c \in Seq(Bucket) /\ Len(c) = Len(b) - n
      /\ \A i \in 1..Len(c) : n + i \in 1..Len(b) /\ c[i] = b[n + i]
      /\ Advanced(x).qty = SumOf(Qtys(c), 1..Len(c))
      /\ Advanced(x).sum = SumOf(Sums(c), 1..Len(c))
      /\ Advanced(x).qty <= x.qty /\ Advanced(x).sum <= x.sum
  BY Zenon, <1>1, AdvancedIs
<1>4. Advanced(x) = [buckets |-> c, qty |-> Advanced(x).qty, sum |-> Advanced(x).sum]
  BY Zenon DEF Advanced
<1> HIDE DEF n, c
<1>5. Len(b) \in Nat /\ Len(c) \in Nat /\ n \in Nat
  BY <1>1, <1>2, <1>3
<1>6. Advanced(x) \in Window /\ TotalsMatch(Advanced(x))
  <2>1. Len(c) \in 0..Len(c)
    BY <1>5
  <2>2. Advanced(x).qty \in Nat /\ Advanced(x).sum \in Nat
    BY Zenon, <1>3, <2>1, QtysAndSums
  <2>3. [buckets |-> c, qty |-> Advanced(x).qty, sum |-> Advanced(x).sum] \in Window
    BY <1>3, <2>2 DEF Window
  <2>4. TotalsMatch(Advanced(x))
    BY Zenon, <1>3 DEF TotalsMatch, c
  <2> QED
    BY Zenon, <1>4, <2>3, <2>4
<1>7. Kept(c, a, r)
  <2>1. \A i, j \in 1..Len(c) : c[i].key = c[j].key => i = j
    <3> SUFFICES ASSUME NEW i \in 1..Len(c), NEW j \in 1..Len(c), c[i].key = c[j].key PROVE i = j
      BY Zenon
    <3>1. n + i \in 1..Len(b) /\ n + j \in 1..Len(b) /\ b[n + i].key = b[n + j].key
      BY Zenon, <1>3
    <3>2. n + i = n + j
      BY Zenon, <1>1, <3>1 DEF Kept
    <3> QED
      BY SMT, <1>5, <3>2
  <2>2. \A i \in 1..Len(c) : /\ c[i].qty = a[c[i].key].qty /\ c[i].sum = a[c[i].key].sum
                             /\ c[i].qty > 0
    <3> SUFFICES ASSUME NEW i \in 1..Len(c)
                 PROVE  c[i].qty = a[c[i].key].qty /\ c[i].sum = a[c[i].key].sum /\ c[i].qty > 0
      BY Zenon
    <3>1. n + i \in 1..Len(b) /\ c[i] = b[n + i]
      BY Zenon, <1>3
    <3>2. \A m \in 1..Len(b) : /\ b[m].qty = a[b[m].key].qty /\ b[m].sum = a[b[m].key].sum
                               /\ b[m].qty > 0
      BY Zenon, <1>1 DEF Kept
    <3> QED
      BY Zenon, <3>1, <3>2
  <2>3. ASSUME NEW k \in Keys, a[k].qty > 0 /\ k + WindowLength > r
        PROVE  \E i \in 1..Len(c) : c[i].key = k
    <3>1. PICK m \in 1..Len(b) : b[m].key = k
      BY Zenon, <1>1, <2>3 DEF Kept
    <3>2. ~(m \in 1..n)
      BY Zenon, <1>2, <2>3, <3>1 DEF AfterWindowStart
    <3>3. m - n \in 1..Len(c) /\ n + (m - n) = m
      BY SMT, <1>3, <1>5, <3>2
    <3> QED
      BY Zenon, <1>3, <3>1, <3>3
  <2> QED
    BY Zenon, <2>1, <2>2, <2>3 DEF Kept
<1>8. ASSUME \A k \in Keys : InWindow(k) => a[k].qty = 0
      PROVE  Advanced(x).qty = 0 /\ Advanced(x).sum = 0
  <2>1. Len(c) = 0
    <3> SUFFICES ASSUME Len(c) # 0 PROVE FALSE
      BY Zenon
    <3>1. 1 \in 1..Len(c) /\ n + 1 \in 1..Len(b) /\ n < Len(b)
      BY SMT, <1>2, <1>3, <1>5
    <3> DEFINE k == b[n + 1].key
    <3>2. b[n + 1] \in Bucket
      BY Zenon, <1>1, <3>1, QtysAndSums
    <3>3. k \in Keys
      BY Zenon, <3>2 DEF Bucket
    <3>4. a[k].qty > 0
      BY Zenon, <1>1, <3>1 DEF Kept
    <3>5. k <= r /\ AfterWindowStart(k)
      BY Zenon, <1>2, <3>1, <3>3, <3>4 DEF WindowOK
    <3>6. a[k].qty = 0
      BY Zenon, <1>8, <3>3, <3>5 DEF InWindow
    <3> QED
      BY SMT, <3>4, <3>6
  <2>2. 1..Len(c) = {}
    BY SMT, <2>1
  <2>3. SumOf(Qtys(c), 1..Len(c)) = 0 /\ SumOf(Sums(c), 1..Len(c)) = 0
    BY Zenon, <2>2, SumOfNone
  <2> QED
    BY Zenon, <1>3, <2>3
<1> QED
  BY Zenon, <1>3, <1>6, <1>7, <1>8 DEF WindowOK, c

(* A clock that advances takes keys out of the window, and nothing else.   *)
LEMMA LaterOK ==
    ASSUME NEW x, NEW a, NEW r \in Nat, NEW q \in Nat, r <= q, WindowOK(x, a, r)
    PROVE  WindowOK(x, a, q)
<1>1. \A k \in Keys : (k + WindowLength > q => k + WindowLength > r) /\ (k <= r => k <= q)
  BY SMT, RoundMonotone, WindowAssumption
<1> QED
  BY Zenon, <1>1 DEF WindowOK, Kept

LEMMA MoreIs ==
    ASSUME NEW v \in Nat
    PROVE  /\ \A p \in Total : /\ More(p, v) \in Total
                               /\ More(p, v).qty = p.qty + 1 /\ More(p, v).sum = p.sum + v
           /\ \A p \in Bucket : /\ More(p, v) \in Bucket /\ More(p, v).key = p.key
                                /\ More(p, v).qty = p.qty + 1 /\ More(p, v).sum = p.sum + v
<1>1. ASSUME NEW p \in Total
      PROVE  /\ More(p, v) \in Total
             /\ More(p, v).qty = p.qty + 1 /\ More(p, v).sum = p.sum + v
  <2> DEFINE q == [p EXCEPT !.qty = @ + 1]
  <2>1. q \in Total /\ q.qty = p.qty + 1 /\ q.sum = p.sum
    BY DEF Total
  <2>2. More(p, v) = [q EXCEPT !.sum = @ + v]
    BY DEF More
  <2> HIDE DEF q
  <2> QED
    BY <2>1, <2>2 DEF Total
<1>2. ASSUME NEW p \in Bucket
      PROVE  /\ More(p, v) \in Bucket /\ More(p, v).key = p.key
             /\ More(p, v).qty = p.qty + 1 /\ More(p, v).sum = p.sum + v
  <2> DEFINE q == [p EXCEPT !.qty = @ + 1]
  <2>1. q \in Bucket /\ q.key = p.key /\ q.qty = p.qty + 1 /\ q.sum = p.sum
    BY DEF Bucket
  <2>2. More(p, v) = [q EXCEPT !.sum = @ + v]
    BY DEF More
  <2> HIDE DEF q
  <2> QED
    BY <2>1, <2>2 DEF Bucket
<1> QED
  BY Zenon, <1>1, <1>2

(* The insertion of a point that is in the window.                         *)
LEMMA InsertedOK ==
    ASSUME NEW x, NEW a, NEW r \in Nat, NEW k \in Keys, NEW v \in Nat, WindowOK(x, a, r),
           k <= r, k + WindowLength > r
    PROVE  WindowOK(Inserted(x, k, v), [a EXCEPT ![k] = More(@, v)], r)
<1> DEFINE b == x.buckets
           c == Put(b, k, v)
           y == Inserted(x, k, v)
           e == [a EXCEPT ![k] = More(@, v)]
           l == Len(b)
<1>1. /\ b \in Seq(Bucket) /\ l \in Nat /\ x.qty \in Nat /\ x.sum \in Nat
      /\ TotalsMatch(x) /\ Kept(b, a, r) /\ a \in [Keys -> Total]
  BY DEF WindowOK, Window
<1>2. /\ e \in [Keys -> Total] /\ e[k].qty = a[k].qty + 1 /\ e[k].sum = a[k].sum + v
      /\ e[k].qty > 0 /\ \A i \in Keys \ {k} : e[i] = a[i]
  <2>1. a[k] \in Total
    BY Zenon, <1>1
  <2>2. /\ More(a[k], v) \in Total
        /\ More(a[k], v).qty = a[k].qty + 1 /\ More(a[k], v).sum = a[k].sum + v
    BY Zenon, <2>1, MoreIs
  <2>3. e \in [Keys -> Total] /\ e[k] = More(a[k], v) /\ \A i \in Keys \ {k} : e[i] = a[i]
    BY Zenon, <1>1, <2>2
  <2>4. a[k].qty \in Nat
    BY <2>1 DEF Total
  <2>5. a[k].qty + 1 > 0
    BY <2>4
  <2> HIDE DEF e
  <2> QED
    BY Zenon, <2>2, <2>3, <2>5
<1>3. /\ y = [buckets |-> c, qty |-> x.qty + 1, sum |-> x.sum + v]
      /\ y.buckets = c /\ y.qty = x.qty + 1 /\ y.sum = x.sum + v
  BY Zenon DEF Inserted
<1>4. \A i \in 1..l : b[i] \in Bucket /\ b[i].key \in Keys /\ b[i].qty \in Nat /\ b[i].sum \in Nat
  <2>1. \A i \in 1..l : b[i] \in Bucket
    BY Zenon, <1>1, QtysAndSums
  <2>2. \A p \in Bucket : p.key \in Keys /\ p.qty \in Nat /\ p.sum \in Nat
    BY Zenon DEF Bucket
  <2> QED
    BY Zenon, <2>1, <2>2
<1>5. x.qty = SumOf(Qtys(b), 1..l) /\ x.sum = SumOf(Sums(b), 1..l)
  BY Zenon DEF TotalsMatch, WindowOK
<1> SUFFICES /\ c \in Seq(Bucket) /\ Kept(c, e, r)
             /\ SumOf(Qtys(c), 1..Len(c)) = x.qty + 1 /\ SumOf(Sums(c), 1..Len(c)) = x.sum + v
  <2>1. y \in Window
    BY <1>1, <1>3 DEF Window
  <2>2. TotalsMatch(y)
    BY Zenon, <1>3 DEF TotalsMatch
  <2>3. \A i \in Keys : (e[i].qty > 0 => i <= r) /\ (e[i].qty = 0 => e[i].sum = 0)
    <3>1. ASSUME NEW i \in Keys, i # k
          PROVE  (e[i].qty > 0 => i <= r) /\ (e[i].qty = 0 => e[i].sum = 0)
      BY Zenon, <1>2, <3>1 DEF WindowOK
    <3>2. e[k].qty # 0
      BY SMT, <1>2
    <3> QED
      BY Zenon, <3>1, <3>2
  <2> QED
    BY Zenon, <1>2, <1>3, <2>1, <2>2, <2>3 DEF WindowOK
<1> HIDE DEF b, e, y, l
<1>6. CASE \E m \in 1..l : b[m].key = k
  <2>1. PICK m \in 1..l : b[m].key = k
    BY Zenon, <1>6
  <2>2. \A i \in 1..l : b[i].key = k <=> i = m
    BY Zenon, <1>1, <2>1 DEF Kept, l
  <2>3. c = [i \in 1..l |-> IF i = m THEN More(b[m], v) ELSE b[i]]
    BY Zenon, <1>6, <2>2 DEF Put, l
  <2>4. /\ More(b[m], v) \in Bucket /\ More(b[m], v).key = b[m].key
        /\ More(b[m], v).qty = b[m].qty + 1 /\ More(b[m], v).sum = b[m].sum + v
    BY Zenon, <1>4, <2>1, MoreIs
  <2> HIDE DEF c
  <2>5. c \in Seq(Bucket) /\ Len(c) = l
    <3>2. c \in [1..l -> Bucket]
      BY Zenon, <1>4, <2>3, <2>4
    <3> QED
      BY SMT, <1>1, <3>2
  <2>6. /\ \A i \in 1..l : c[i].key = b[i].key
        /\ c[m].qty = b[m].qty + 1 /\ c[m].sum = b[m].sum + v
        /\ \A i \in (1..l) \ {m} : c[i] = b[i]
    BY Zenon, <2>1, <2>3, <2>4
  <2>7. Kept(c, e, r)
    <3>1. \A i, j \in 1..l : c[i].key = c[j].key => i = j
      BY Zenon, <1>1, <2>6 DEF Kept, l
    <3>2. ASSUME NEW i \in 1..l, i # m
          PROVE  c[i].qty = e[c[i].key].qty /\ c[i].sum = e[c[i].key].sum /\ c[i].qty > 0
      <4>1. c[i] = b[i] /\ b[i].key \in Keys \ {k}
        BY Zenon, <1>4, <2>2, <2>6, <3>2
      <4>2. e[b[i].key] = a[b[i].key]
        BY Zenon, <1>2, <4>1
      <4>3. b[i].qty = a[b[i].key].qty /\ b[i].sum = a[b[i].key].sum /\ b[i].qty > 0
        BY Zenon, <1>1 DEF Kept, l
      <4> QED
        BY Zenon, <4>1, <4>2, <4>3
    <3>3. c[m].qty = e[c[m].key].qty /\ c[m].sum = e[c[m].key].sum /\ c[m].qty > 0
      <4>1. b[m].qty = a[k].qty /\ b[m].sum = a[k].sum
        BY Zenon, <1>1, <2>1 DEF Kept, l
      <4>2. c[m].key = k /\ c[m].qty = e[k].qty /\ c[m].sum = e[k].sum
        BY Zenon, <1>2, <2>1, <2>6, <4>1
      <4> QED
        BY Zenon, <1>2, <4>2
    <3>4. ASSUME NEW i \in Keys, e[i].qty > 0 /\ i + WindowLength > r
          PROVE  \E j \in 1..l : c[j].key = i
      <4>1. CASE i = k
        BY Zenon, <2>1, <2>6, <4>1
      <4>2. CASE i # k
        <5>1. e[i] = a[i]
          BY Zenon, <1>2, <4>2
        <5>2. \E j \in 1..l : b[j].key = i
          BY Zenon, <1>1, <3>4, <5>1 DEF Kept, l
        <5> QED
          BY Zenon, <2>6, <5>2
      <4> QED
        BY Zenon, <4>1, <4>2
    <3> QED
      BY Zenon, <2>5, <3>1, <3>2, <3>3, <3>4 DEF Kept
  <2>8. /\ SumOf(Qtys(c), 1..l) = SumOf(Qtys(b), 1..l) + 1
        /\ SumOf(Sums(c), 1..l) = SumOf(Sums(b), 1..l) + v
    <3>1. 1 \in Nat
      OBVIOUS
    <3>2. /\ \A i \in 1..l : Qtys(b)[i] \in Nat /\ Qtys(b)[i] = b[i].qty /\ Qtys(c)[i] = c[i].qty
          /\ \A i \in 1..l : Sums(b)[i] \in Nat /\ Sums(b)[i] = b[i].sum /\ Sums(c)[i] = c[i].sum
      BY Zenon, <1>1, <2>5, QtysAndSums DEF l
    <3>3. /\ Qtys(c)[m] = Qtys(b)[m] + 1 /\ \A i \in (1..l) \ {m} : Qtys(c)[i] = Qtys(b)[i]
          /\ Sums(c)[m] = Sums(b)[m] + v /\ \A i \in (1..l) \ {m} : Sums(c)[i] = Sums(b)[i]
      <4>1. Qtys(c)[m] = Qtys(b)[m] + 1 /\ Sums(c)[m] = Sums(b)[m] + v
        BY Zenon, <2>1, <2>6, <3>2
      <4>2. ASSUME NEW i \in (1..l) \ {m}
            PROVE  Qtys(c)[i] = Qtys(b)[i] /\ Sums(c)[i] = Sums(b)[i]
        <5>1. i \in 1..l /\ c[i] = b[i]
          BY Zenon, <2>6
        <5> QED
          BY Zenon, <3>2, <5>1
      <4> QED
        BY Zenon, <4>1, <4>2
    <3>4. \A d \in Nat : \A f, g :
             (/\ \A i \in 1..l : f[i] \in Nat
              /\ g[m] = f[m] + d /\ \A i \in (1..l) \ {m} : g[i] = f[i])
                => SumOf(g, 1..l) = SumOf(f, 1..l) + d
      <4> SUFFICES ASSUME NEW d \in Nat, NEW f, NEW g, \A i \in 1..l : f[i] \in Nat,
                          g[m] = f[m] + d, \A i \in (1..l) \ {m} : g[i] = f[i]
                   PROVE  SumOf(g, 1..l) = SumOf(f, 1..l) + d
        BY Zenon
      <4> QED
        BY <1>1, SumOfRaised
    <3> QED
      BY Zenon, <3>1, <3>2, <3>3, <3>4
  <2> QED
    BY Zenon, <1>5, <2>5, <2>7, <2>8
<1>7. CASE ~\E m \in 1..l : b[m].key = k
  <2> DEFINE p == [key |-> k, qty |-> 1, sum |-> v]
  <2>1. c = Append(b, p)
    BY Zenon, <1>7 DEF Put, l
  <2>2. p \in Bucket /\ p.key = k /\ p.qty = 1 /\ p.sum = v
    BY DEF Bucket
  <2> HIDE DEF c, p
  <2>3. c \in Seq(Bucket) /\ Len(c) = l + 1 /\ c[l + 1] = p /\ \A i \in 1..l : c[i] = b[i]
    BY <1>1, <2>1, <2>2 DEF l
  <2>4. l + 1 \in Nat /\ \A i \in 1..(l + 1) : i \in 1..l \/ i = l + 1
    BY <1>1
  <2>5. 1..l \subseteq 1..(l + 1) /\ l + 1 \in 1..(l + 1)
    BY <1>1
  <2>6. e[k].qty = 1 /\ e[k].sum = v
    <3>1. ~(a[k].qty > 0)
      BY Zenon, <1>1, <1>7 DEF Kept, l
    <3>2. a[k] \in Total
      BY Zenon, <1>1
    <3>3. a[k].qty = 0
      BY <3>1, <3>2 DEF Total
    <3>4. a[k].sum = 0
      BY Zenon, <3>3 DEF WindowOK
    <3> QED
      BY <1>2, <3>3, <3>4
  <2>7. Kept(c, e, r)
    <3>1. \A i, j \in 1..(l + 1) : c[i].key = c[j].key => i = j
      <4>1. \A i \in 1..l : c[i].key = b[i].key /\ c[i].key # k
        BY Zenon, <1>7, <2>3
      <4>2. c[l + 1].key = k
        BY Zenon, <2>2, <2>3
      <4>3. \A i, j \in 1..l : b[i].key = b[j].key => i = j
        BY Zenon, <1>1 DEF Kept, l
      <4> QED
        BY Zenon, <2>4, <4>1, <4>2, <4>3
    <3>2. ASSUME NEW i \in 1..l
          PROVE  c[i].qty = e[c[i].key].qty /\ c[i].sum = e[c[i].key].sum /\ c[i].qty > 0
      <4>1. c[i] = b[i] /\ b[i].key \in Keys \ {k}
        BY Zenon, <1>4, <1>7, <2>3
      <4>2. e[b[i].key] = a[b[i].key]
        BY Zenon, <1>2, <4>1
      <4>3. b[i].qty = a[b[i].key].qty /\ b[i].sum = a[b[i].key].sum /\ b[i].qty > 0
        BY Zenon, <1>1 DEF Kept, l
      <4> QED
        BY Zenon, <4>1, <4>2, <4>3
    <3>3. /\ c[l + 1].qty = e[c[l + 1].key].qty /\ c[l + 1].sum = e[c[l + 1].key].sum
          /\ c[l + 1].qty > 0
      BY Zenon, <1>2, <2>2, <2>3, <2>6
    <3>4. ASSUME NEW i \in Keys, e[i].qty > 0 /\ i + WindowLength > r
          PROVE  \E j \in 1..(l + 1) : c[j].key = i
      <4>1. CASE i = k
        BY Zenon, <2>2, <2>3, <2>5, <4>1
      <4>2. CASE i # k
        <5>1. e[i] = a[i]
          BY Zenon, <1>2, <4>2
        <5>2. PICK j \in 1..l : b[j].key = i
          BY Zenon, <1>1, <3>4, <5>1 DEF Kept, l
        <5> QED
          BY Zenon, <2>3, <2>5, <5>2
      <4> QED
        BY Zenon, <4>1, <4>2
    <3> QED
      BY Zenon, <2>3, <2>4, <3>1, <3>2, <3>3, <3>4 DEF Kept
  <2>8. /\ SumOf(Qtys(c), 1..(l + 1)) = SumOf(Qtys(b), 1..l) + 1
        /\ SumOf(Sums(c), 1..(l + 1)) = SumOf(Sums(b), 1..l) + v
    <3>1. /\ \A i \in 1..l : Qtys(b)[i] \in Nat /\ Qtys(b)[i] = b[i].qty
          /\ \A i \in 1..l : Sums(b)[i] \in Nat /\ Sums(b)[i] = b[i].sum
          /\ \A i \in 1..(l + 1) : Qtys(c)[i] = c[i].qty /\ Sums(c)[i] = c[i].sum
      BY Zenon, <1>1, <2>3, QtysAndSums DEF l
    <3>2. /\ \A i \in 1..l : Qtys(c)[i] = Qtys(b)[i] /\ Sums(c)[i] = Sums(b)[i]
          /\ Qtys(c)[l + 1] = 1 /\ Sums(c)[l + 1] = v
      BY Zenon, <2>2, <2>3, <2>5, <3>1
    <3>3. \A f, g : (\A i \in 1..l : f[i] \in Nat /\ g[i] = f[i]) /\ g[l + 1] \in Nat
                    => SumOf(g, 1..(l + 1)) = SumOf(f, 1..l) + g[l + 1]
      BY Zenon, <1>1, SumOfLonger
    <3>4. Qtys(c)[l + 1] \in Nat /\ Sums(c)[l + 1] \in Nat
      BY <3>2
    <3>5. /\ SumOf(Qtys(c), 1..(l + 1)) = SumOf(Qtys(b), 1..l) + Qtys(c)[l + 1]
          /\ SumOf(Sums(c), 1..(l + 1)) = SumOf(Sums(b), 1..l) + Sums(c)[l + 1]
      BY Zenon, <3>1, <3>2, <3>3, <3>4
    <3> QED
      BY Zenon, <3>2, <3>5
  <2> QED
    BY Zenon, <1>5, <2>3, <2>7, <2>8
<1> QED
  BY Zenon, <1>6, <1>7

(* With the buckets in order, those that advance() leaves are those of the *)
(* keys of the window, and the others have nothing.                        *)
LEMMA AdvancedExact ==
    ASSUME NEW x, NEW a, now \in Nat, WindowOK(x, a, Round(now)), InOrder(x.buckets)
    PROVE  LET inside == {k \in Keys : InWindow(k)} IN
           /\ Advanced(x).qty = SumOf([k \in Keys |-> a[k].qty], inside)
           /\ Advanced(x).sum = SumOf([k \in Keys |-> a[k].sum], inside)
<1> DEFINE b == x.buckets
           n == Evicted(b)
           c == Advanced(x).buckets
           r == Round(now)
           inside == {k \in Keys : InWindow(k)}
           qtys == [k \in Keys |-> a[k].qty]
           sums == [k \in Keys |-> a[k].sum]
           T == {k \in Keys : \E i \in 1..Len(c) : c[i].key = k}
           h == [i \in 1..Len(c) |-> c[i].key]
<1>1. b \in Seq(Bucket) /\ TotalsMatch(x) /\ a \in [Keys -> Total]
  BY DEF WindowOK, Window
<1>2. /\ n \in 0..Len(b)
      /\ n < Len(b) => AfterWindowStart(b[n + 1].key)
  BY Zenon, <1>1, EvictedIs
<1>3. /\ c \in Seq(Bucket) /\ Len(c) = Len(b) - n
      /\ \A i \in 1..Len(c) : n + i \in 1..Len(b) /\ c[i] = b[n + i]
      /\ Advanced(x).qty = SumOf(Qtys(c), 1..Len(c))
      /\ Advanced(x).sum = SumOf(Sums(c), 1..Len(c))
  BY Zenon, <1>1, AdvancedIs
<1>4. Kept(c, a, r)
  BY Zenon, AdvancedOK DEF WindowOK
<1>5. \A k \in Keys : a[k] \in Total /\ a[k].qty \in Nat /\ a[k].sum \in Nat
  <2>1. \A p \in Total : p.qty \in Nat /\ p.sum \in Nat
    BY Zenon DEF Total
  <2> QED
    BY Zenon, <1>1, <2>1
<1> HIDE DEF n, c
<1>6. Len(b) \in Nat /\ Len(c) \in Nat /\ n \in Nat
  BY <1>1, <1>2, <1>3
<1>7. \A i \in 1..Len(c) : /\ c[i].key \in Keys
                           /\ c[i].qty = a[c[i].key].qty /\ c[i].sum = a[c[i].key].sum
                           /\ c[i].qty > 0
  <2>1. \A p \in Bucket : p.key \in Keys
    BY Zenon DEF Bucket
  <2> QED
    BY Zenon, <1>3, <1>4, <2>1, QtysAndSums DEF Kept
<1>8. T \subseteq inside
  <2> SUFFICES ASSUME NEW i \in 1..Len(c) PROVE InWindow(c[i].key)
    BY Zenon
  <2>1. 1 \in 1..Len(c) /\ n < Len(b)
    BY SMT, <1>3, <1>6
  <2>2. AfterWindowStart(c[1].key)
    BY Zenon, <1>2, <1>3, <2>1
  <2>3. c[i].key \in Nat /\ c[1].key \in Nat /\ r \in Nat
    BY Zenon, <1>7, <2>1, RoundMonotone
  <2>4. c[1].key <= c[i].key
    <3>1. CASE i = 1
      BY <2>3, <3>1
    <3>2. CASE i # 1
      <4>1. n + 1 < n + i
        BY SMT, <1>6, <3>2
      <4>2. b[n + 1].key < b[n + i].key
        BY Zenon, <1>3, <2>1, <4>1 DEF InOrder
      <4>3. c[1].key < c[i].key
        BY Zenon, <1>3, <2>1, <4>2
      <4> QED
        BY <2>3, <4>3
    <3> QED
      BY Zenon, <3>1, <3>2
  <2>5. c[i].key <= r
    <3>1. c[i].key \in Keys /\ a[c[i].key].qty > 0
      BY Zenon, <1>7
    <3> QED
      BY Zenon, <3>1 DEF WindowOK
  <2>6. AfterWindowStart(c[i].key)
    <3> HIDE DEF r
    <3>1. c[1].key + WindowLength > r
      BY Zenon, <2>2 DEF AfterWindowStart, r
    <3>2. c[i].key + WindowLength > r
      BY <2>4, <2>3, <3>1, WindowAssumption
    <3> QED
      BY Zenon, <3>2 DEF AfterWindowStart, r
  <2> QED
    BY Zenon, <2>5, <2>6 DEF InWindow
<1>9. h \in Bijection(1..Len(c), T)
  <2>1. h \in [1..Len(c) -> T]
    BY Zenon, <1>7
  <2>2. \A i, j \in 1..Len(c) : h[i] = h[j] => i = j
    BY Zenon, <1>4 DEF Kept
  <2>3. \A k \in T : \E i \in 1..Len(c) : h[i] = k
    BY Zenon
  <2> QED
    BY Zenon, <2>1, <2>2, <2>3 DEF Bijection, Injection, Surjection, IsInjective
<1>10. IsFiniteSet(1..Len(c)) /\ IsFiniteSet(Keys)
  <2>1. 0 \in Int /\ Round(MaxTime) \in Int
    BY RoundMonotone, WindowAssumption
  <2> QED
    BY Zenon, <1>6, <2>1, UpTo, FS_Interval DEF Keys
<1>11. IsFiniteSet(T) /\ IsFiniteSet(inside \ T) /\ T \cap (inside \ T) = {}
       /\ inside = T \cup (inside \ T)
  BY Zenon, <1>8, <1>10, FS_Subset
<1>12. ASSUME NEW k \in inside \ T PROVE qtys[k] = 0 /\ sums[k] = 0
  <2>1. k \in Keys /\ k + WindowLength > r /\ ~\E i \in 1..Len(c) : c[i].key = k
    BY Zenon DEF InWindow, AfterWindowStart
  <2>2. ~(a[k].qty > 0)
    BY Zenon, <1>4, <2>1 DEF Kept
  <2>3. a[k].qty = 0
    BY SMT, <1>5, <2>1, <2>2
  <2>4. a[k].sum = 0
    BY Zenon, <2>1, <2>3 DEF WindowOK
  <2> QED
    BY Zenon, <2>1, <2>3, <2>4
<1>13. \A i \in 1..Len(c) : /\ Qtys(c)[i] \in Nat /\ Qtys(c)[i] = qtys[h[i]]
                            /\ Sums(c)[i] \in Nat /\ Sums(c)[i] = sums[h[i]]
  BY Zenon, <1>3, <1>7, QtysAndSums
<1>14. \A k \in inside : qtys[k] \in Nat /\ sums[k] \in Nat
  BY Zenon, <1>5
<1> HIDE DEF b, r, inside, qtys, sums, T, h
<1>15. ASSUME NEW f, NEW g, \A i \in 1..Len(c) : f[i] \in Nat /\ f[i] = g[h[i]],
              \A k \in inside : g[k] \in Nat, \A k \in inside \ T : g[k] = 0
       PROVE  SumOf(f, 1..Len(c)) = SumOf(g, inside)
  <2>1. SumOf(f, 1..Len(c)) = SumOf(g, T)
    <3>1. \A S : IsFiniteSet(S) /\ h \in Bijection(S, T)
                 /\ (\A i \in S : f[i] \in Nat /\ f[i] = g[h[i]]) => SumOf(f, S) = SumOf(g, T)
      BY SumOfMoved
    <3> QED
      BY Zenon, <1>9, <1>10, <1>15, <3>1
  <2>2. SumOf(g, inside) = SumOf(g, T) + SumOf(g, inside \ T)
    BY <1>11, <1>15, SumOfBoth
  <2>3. SumOf(g, inside \ T) = 0
    BY Zenon, <1>15, SumOfNone
  <2>4. SumOf(g, T) \in Nat
    <3>1. \A k \in T : g[k] \in Nat
      BY Zenon, <1>8, <1>15
    <3> QED
      BY Zenon, <1>11, <3>1, FiniteSum
  <2> QED
    BY <2>1, <2>2, <2>3, <2>4
<1>16. SumOf(Qtys(c), 1..Len(c)) = SumOf(qtys, inside)
  BY Zenon, <1>12, <1>13, <1>14, <1>15
<1>17. SumOf(Sums(c), 1..Len(c)) = SumOf(sums, inside)
  BY Zenon, <1>12, <1>13, <1>14, <1>15
<1> QED
  BY Zenon, <1>3, <1>16, <1>17 DEF inside, qtys, sums

-----------------------------------------------------------------------------
(* The steps on the windows.                                               *)

LEMMA Clock == ASSUME WindowsInv PROVE now \in Nat /\ Round(now) \in Nat /\ Round(now) \in Keys
<1>1. now \in Nat /\ now <= MaxTime
  BY WindowAssumption DEF WindowsInv
<1>2. Round(now) \in Nat /\ Round(MaxTime) \in Nat /\ Round(now) <= Round(MaxTime)
  BY Zenon, <1>1, RoundMonotone, WindowAssumption
<1> QED
  BY <1>1, <1>2 DEF Keys

LEMMA AdvanceStep ==
    ASSUME WindowsInv, NEW w \in Windows, Advance(w)
    PROVE  /\ WindowsInv' /\ now' = now /\ added' = added
           /\ \A u \in Windows : /\ win[u].qty = 0 => win'[u].qty = 0
                                 /\ win[u].sum = 0 => win'[u].sum = 0
           /\ ~HasPoint(w) => win'[w].qty = 0 /\ win'[w].sum = 0
<1>1. /\ now' = now /\ added' = added /\ DOMAIN win' = Windows
      /\ win'[w] = Advanced(win[w]) /\ \A u \in Windows \ {w} : win'[u] = win[u]
  BY Zenon DEF Advance, WindowsInv
<1>2. now \in Nat /\ WindowOK(win[w], added[w], Round(now))
  BY Zenon, Clock DEF WindowsInv
<1>3. /\ WindowOK(Advanced(win[w]), added[w], Round(now))
      /\ Advanced(win[w]).qty <= win[w].qty /\ Advanced(win[w]).sum <= win[w].sum
      /\ (\A k \in Keys : InWindow(k) => added[w][k].qty = 0)
            => Advanced(win[w]).qty = 0 /\ Advanced(win[w]).sum = 0
  BY Zenon, <1>2, AdvancedOK
<1>4. /\ win[w].qty = 0 => win'[w].qty = 0
      /\ win[w].sum = 0 => win'[w].sum = 0
  <2>1. Advanced(win[w]).qty \in Nat /\ Advanced(win[w]).sum \in Nat
    BY Zenon, <1>3 DEF WindowOK, Window
  <2> QED
    BY <1>1, <1>3, <2>1
<1>5. ASSUME ~HasPoint(w) PROVE win'[w].qty = 0 /\ win'[w].sum = 0
  <2>1. ASSUME NEW k \in Keys, InWindow(k) PROVE added[w][k].qty = 0
    <3>1. ~(added[w][k].qty > 0)
      BY Zenon, <1>5, <2>1 DEF HasPoint
    <3>2. added[w][k] \in Total
      BY Zenon, <1>2 DEF WindowOK
    <3> QED
      BY <3>1, <3>2 DEF Total
  <2> QED
    BY Zenon, <1>1, <1>3, <2>1
<1>6. WindowsInv'
  BY Zenon, <1>1, <1>3 DEF WindowsInv
<1> QED
  BY Zenon, <1>1, <1>4, <1>5, <1>6

LEMMA InsertStep ==
    ASSUME WindowsInv, NEW w \in Windows, NEW t \in 0..now, NEW v \in Nat, Insert(w, t, v)
    PROVE  /\ WindowsInv' /\ now' = now
           /\ ~InWindow(Round(t)) => UNCHANGED <<win, added>>
           /\ \A u \in Windows \ {w} : win'[u] = win[u]
<1>1. CASE ~InWindow(Round(t))
  <2>1. UNCHANGED <<now, win, added>>
    BY Zenon, <1>1 DEF Insert
  <2> QED
    BY Zenon, <2>1 DEF WindowsInv
<1>2. CASE InWindow(Round(t))
  <2> DEFINE k == Round(t)
  <2>1. /\ now' = now /\ win' = [win EXCEPT ![w] = Inserted(@, k, v)]
        /\ added' = [added EXCEPT ![w][k] = More(@, v)]
    BY Zenon, <1>2 DEF Insert
  <2>2. k \in Keys /\ k <= Round(now) /\ k + WindowLength > Round(now)
    <3>1. t \in Nat /\ t <= now /\ now <= MaxTime
      BY Clock DEF WindowsInv
    <3>2. k <= Round(now) /\ Round(now) <= Round(MaxTime) /\ k \in Nat /\ Round(MaxTime) \in Nat
      BY Zenon, <3>1, Clock, RoundMonotone, WindowAssumption
    <3>3. k \in Keys
      BY <3>2, Clock DEF Keys
    <3> QED
      BY Zenon, <1>2, <3>2, <3>3 DEF InWindow, AfterWindowStart
  <2> HIDE DEF k
  <2>3. /\ DOMAIN win' = Windows /\ DOMAIN added' = Windows
        /\ win'[w] = Inserted(win[w], k, v)
        /\ added'[w] = [added[w] EXCEPT ![k] = More(@, v)]
        /\ \A u \in Windows \ {w} : win'[u] = win[u] /\ added'[u] = added[u]
    BY Zenon, <2>1 DEF WindowsInv
  <2>4. WindowOK(Inserted(win[w], k, v), [added[w] EXCEPT ![k] = More(@, v)], Round(now))
    <3>1. WindowOK(win[w], added[w], Round(now)) /\ Round(now) \in Nat
      BY Zenon, Clock DEF WindowsInv
    <3> QED
      BY Zenon, <2>2, <3>1, InsertedOK
  <2>5. WindowsInv'
    BY Zenon, <2>1, <2>3, <2>4 DEF WindowsInv
  <2> QED
    BY Zenon, <1>2, <2>1, <2>3, <2>5
<1> QED
  BY Zenon, <1>1, <1>2

LEMMA TickStep ==
    ASSUME WindowsInv, Tick
    PROVE  /\ WindowsInv' /\ now' \in Nat /\ now < now'
           /\ \A w \in Windows : HasPoint(w)' => HasPoint(w)
<1>1. now' = now + 1 /\ now' \in 0..MaxTime /\ now' \in Nat /\ now < now' /\ now <= now'
  BY Clock, WindowAssumption DEF Tick, WindowsInv
<1>2. win' = win /\ added' = added
  BY Zenon DEF Tick
<1> DEFINE r == Round(now)
           q == Round(now')
<1>3. r \in Nat /\ q \in Nat /\ r <= q
  BY Zenon, <1>1, Clock, RoundMonotone
<1>4. \A w \in Windows : WindowOK(win[w], added[w], r)
  BY Zenon DEF WindowsInv
<1> HIDE DEF r, q
<1>5. \A w \in Windows : WindowOK(win[w], added[w], q)
  BY Zenon, <1>3, <1>4, LaterOK
<1>6. WindowsInv'
  BY Zenon, <1>1, <1>2, <1>5 DEF WindowsInv, q
<1>7. ASSUME NEW w \in Windows, HasPoint(w)' PROVE HasPoint(w)
  <2>1. PICK k \in Keys : k + WindowLength > q /\ added[w][k].qty > 0
    BY Zenon, <1>2, <1>7 DEF HasPoint, InWindow, AfterWindowStart, q
  <2>2. k <= r
    BY Zenon, <1>4, <2>1 DEF WindowOK
  <2>3. k + WindowLength > r
    BY <1>3, <2>1, RoundMonotone, WindowAssumption
  <2> QED
    BY Zenon, <2>1, <2>2, <2>3 DEF HasPoint, InWindow, AfterWindowStart, r
<1> QED
  BY Zenon, <1>1, <1>6, <1>7

-----------------------------------------------------------------------------
(* The steps of the goroutines and of the calls.                           *)

LEMMA ThreeWindows ==
    "requests" \in Windows /\ "errors" \in Windows /\ "latency" \in Windows
  BY Zenon, HealthAssumption

HealthInv == WindowsInv /\ ServersInv /\ ReaderInv /\ QuietInv

LEMMA InitHealth == ASSUME Init PROVE HealthInv
<1>1. Round(0) \in Nat /\ Round(0) \in Keys /\ 0 \in 0..MaxTime /\ 0 \in 0..0
  <2>1. 0 \in Nat /\ 0 <= MaxTime /\ MaxTime \in Nat
    BY WindowAssumption
  <2>2. Round(0) \in Nat /\ Round(MaxTime) \in Nat /\ Round(0) <= Round(MaxTime)
    BY Zenon, <2>1, RoundMonotone
  <2> QED
    BY <2>1, <2>2 DEF Keys
<1> DEFINE x == [buckets |-> << >>, qty |-> 0, sum |-> 0]
           a == [k \in Keys |-> Nothing]
<1>2. WindowOK(x, a, Round(0))
  <2>1. x \in Window /\ x.buckets = << >> /\ x.qty = 0 /\ x.sum = 0
    BY DEF Window
  <2>2. 1..Len(<< >>) = {}
    OBVIOUS
  <2>3. TotalsMatch(x)
    BY Zenon, <2>1, <2>2, SumOfNone DEF TotalsMatch
  <2>4. Nothing \in Total /\ Nothing.qty = 0 /\ Nothing.sum = 0 /\ ~(0 > 0)
    BY DEF Total, Nothing
  <2>5. a \in [Keys -> Total] /\ \A k \in Keys : ~(a[k].qty > 0) /\ a[k].sum = 0
    BY Zenon, <2>4
  <2> HIDE DEF a, x
  <2>6. Kept(x.buckets, a, Round(0))
    BY Zenon, <2>1, <2>2, <2>5 DEF Kept
  <2> QED
    BY Zenon, <2>1, <2>3, <2>5, <2>6 DEF WindowOK
<1>3. now = 0 /\ win = [w \in Windows |-> x] /\ added = [w \in Windows |-> a]
  BY Zenon DEF Init, WindowInit
<1>4. WindowsInv
  <2> HIDE DEF x, a
  <2> QED
    BY Zenon, <1>1, <1>2, <1>3 DEF WindowsInv
<1>5. ServersInv
  <2>1. Idle \in Place(0)
    BY <1>1, ThreeWindows DEF Idle, Place
  <2> QED
    BY Zenon, <1>3, <2>1 DEF Init, ServersInv
<1>6. ReaderInv /\ QuietInv
  <2>1. DOMAIN NoRate = {"errors", "requests"} /\ NoRate.errors = 0
    BY DEF NoRate
  <2> QED
    BY Zenon, <2>1 DEF Init, ReaderInv, QuietInv
<1> QED
  BY Zenon, <1>4, <1>5, <1>6 DEF HealthInv

LEMMA ServersStep ==
    ASSUME HealthInv, NEW s \in Servers, Server(s)
    PROVE  HealthInv'
<1>1. WindowsInv /\ ServersInv /\ ReaderInv /\ QuietInv
  BY Zenon DEF HealthInv
<1>2. now \in Nat /\ now \in 0..now /\ 0 \in 0..now
  <2>1. now \in Nat
    BY Zenon, <1>1, Clock
  <2> QED
    BY <2>1
<1>3. server[s] \in Place(now) /\ server[s].w \in Windows /\ server[s].t \in 0..now
  <2>1. server[s] \in Place(now)
    BY Zenon, <1>1 DEF ServersInv
  <2> QED
    BY <2>1 DEF Place
<1>4. Idle \in Place(now) /\ [Idle EXCEPT !.at = "sent"] \in Place(now)
  BY <1>2, ThreeWindows DEF Idle, Place
<1>5. ASSUME NEW w \in Windows, StartAdd(s, w), now' = now PROVE ServersInv'
  <2>1. [at |-> "advance", w |-> w, t |-> now] \in Place(now)
    BY <1>2 DEF Place
  <2> QED
    BY Zenon, <1>1, <1>5, <2>1 DEF ServersInv, StartAdd
<1>6. ASSUME UNCHANGED <<now, win, added, rpc, rate, avg, verdict, quiet, sawError>>
      PROVE  WindowsInv' /\ ReaderInv' /\ QuietInv'
  BY Zenon, <1>1, <1>6 DEF WindowsInv, ReaderInv, QuietInv, HasPoint, InWindow, AfterWindowStart
<1>7. CASE Begin(s)
  <2>1. /\ StartAdd(s, "requests")
        /\ UNCHANGED <<now, win, added, rpc, rate, avg, verdict, quiet, sawError>>
    BY Zenon, <1>7 DEF Begin, windowVars, readerVars
  <2> QED
    BY Zenon, <1>5, <1>6, <2>1, ThreeWindows DEF HealthInv
<1>8. CASE End(s)
  <2>1. UNCHANGED <<now, win, added, rpc, rate, avg, verdict, quiet, sawError>>
    BY Zenon, <1>8 DEF End, windowVars, readerVars
  <2>2. CASE StartAdd(s, "errors") \/ StartAdd(s, "latency")
    BY Zenon, <1>5, <1>6, <2>1, <2>2, ThreeWindows DEF HealthInv
  <2>3. CASE server' = [server EXCEPT ![s] = Idle]
    <3>1. ServersInv'
      BY Zenon, <1>1, <1>4, <2>1, <2>3 DEF ServersInv
    <3> QED
      BY Zenon, <1>6, <2>1, <3>1 DEF HealthInv
  <2> QED
    BY Zenon, <1>8, <2>2, <2>3 DEF End
<1>9. CASE AddAdvance(s)
  <2>1. /\ Advance(server[s].w) /\ server' = [server EXCEPT ![s].at = "insert"]
        /\ UNCHANGED <<rpc, rate, avg, verdict, quiet, sawError>>
    BY Zenon, <1>9 DEF AddAdvance, readerVars
  <2>2. /\ WindowsInv' /\ now' = now /\ added' = added
        /\ \A u \in Windows : /\ win[u].qty = 0 => win'[u].qty = 0
                              /\ win[u].sum = 0 => win'[u].sum = 0
    BY Zenon, <1>1, <1>3, <2>1, AdvanceStep
  <2>3. ServersInv'
    <3>1. [server[s] EXCEPT !.at = "insert"] \in Place(now)
      BY <1>3 DEF Place
    <3> QED
      BY Zenon, <1>1, <2>1, <2>2, <3>1 DEF ServersInv
  <2>4. ReaderInv'
    BY Zenon, <1>1, <2>1, <2>2, ThreeWindows DEF ReaderInv
  <2>5. QuietInv'
    BY Zenon, <1>1, <2>1, <2>2, ThreeWindows DEF QuietInv, HasPoint, InWindow, AfterWindowStart
  <2> QED
    BY Zenon, <2>2, <2>3, <2>4, <2>5 DEF HealthInv
<1>10. ASSUME NEW v \in Latencies, AddInsert(s, v) PROVE HealthInv'
  <2> DEFINE w == server[s].w
             t == server[s].t
             n == IF w = "latency" THEN v ELSE 1
             in == InWindow(Round(t))
  <2>1. /\ Insert(w, t, n) /\ UNCHANGED <<rpc, rate, avg, verdict>>
        /\ server' = [server EXCEPT ![s] =
                         IF @.w = "requests" THEN [Idle EXCEPT !.at = "sent"] ELSE Idle]
        /\ quiet' = (quiet /\ ~in)
        /\ sawError' = (sawError \/ (rpc = "errors" /\ w = "errors" /\ in))
    BY Zenon, <1>10 DEF AddInsert
  <2>2. n \in Nat
    BY HealthAssumption
  <2> HIDE DEF n, in, w, t
  <2>3. w \in Windows /\ t \in 0..now
    BY Zenon, <1>3 DEF w, t
  <2>4. /\ WindowsInv' /\ now' = now /\ (~in => UNCHANGED <<win, added>>)
        /\ \A u \in Windows \ {w} : win'[u] = win[u]
    BY Zenon, <1>1, <2>1, <2>2, <2>3, InsertStep DEF in
  <2>5. ServersInv'
    BY Zenon, <1>1, <1>4, <2>1, <2>4 DEF ServersInv
  <2>6. ReaderInv'
    <3>1. rpc = "errors" /\ ~sawError' => win'["errors"] = win["errors"] /\ ~sawError
      BY Zenon, <1>1, <2>1, <2>4, ThreeWindows DEF ReaderInv
    <3>2. (sawError => sawError') /\ quiet' \in BOOLEAN /\ sawError' \in BOOLEAN
      BY Zenon, <1>1, <2>1 DEF ReaderInv
    <3> QED
      BY Zenon, <1>1, <2>1, <3>1, <3>2 DEF ReaderInv
  <2>7. QuietInv'
    <3> SUFFICES ASSUME quiet' PROVE QuietInv'
      BY Zenon DEF QuietInv
    <3>1. quiet /\ ~in
      BY Zenon, <2>1
    <3>2. UNCHANGED <<now, win, added>>
      BY Zenon, <2>4, <3>1
    <3> QED
      BY Zenon, <1>1, <2>1, <3>1, <3>2 DEF QuietInv, HasPoint, InWindow, AfterWindowStart
  <2> QED
    BY Zenon, <2>4, <2>5, <2>6, <2>7 DEF HealthInv
<1> QED
  BY Zenon, <1>7, <1>8, <1>9, <1>10 DEF Server

LEMMA ReaderStep == ASSUME HealthInv, Reader PROVE HealthInv'
<1>1. WindowsInv /\ ServersInv /\ ReaderInv /\ QuietInv
  BY Zenon DEF HealthInv
<1>2. ASSUME UNCHANGED <<now, win, added>>
      PROVE  WindowsInv' /\ \A w \in Windows : HasPoint(w)' <=> HasPoint(w)
  BY Zenon, <1>1, <1>2 DEF WindowsInv, HasPoint, InWindow, AfterWindowStart
<1>3. ASSUME NEW w \in Windows, Advance(w)
      PROVE  /\ WindowsInv' /\ now' = now
             /\ \A u \in Windows : /\ HasPoint(u)' <=> HasPoint(u)
                                   /\ win[u].qty = 0 => win'[u].qty = 0
                                   /\ win[u].sum = 0 => win'[u].sum = 0
             /\ ~HasPoint(w) => win'[w].qty = 0 /\ win'[w].sum = 0
  <2>1. /\ WindowsInv' /\ now' = now /\ added' = added
        /\ \A u \in Windows : /\ win[u].qty = 0 => win'[u].qty = 0
                              /\ win[u].sum = 0 => win'[u].sum = 0
        /\ ~HasPoint(w) => win'[w].qty = 0 /\ win'[w].sum = 0
    BY Zenon, <1>1, <1>3, AdvanceStep
  <2>2. \A u \in Windows : HasPoint(u)' <=> HasPoint(u)
    BY Zenon, <2>1 DEF HasPoint, InWindow, AfterWindowStart
  <2> QED
    BY Zenon, <2>1, <2>2
<1>4. ASSUME now' = now, UNCHANGED serverVars PROVE ServersInv'
  BY Zenon, <1>1, <1>4 DEF ServersInv, serverVars
<1>5. ASSUME NEW what \in {"health", "degraded"}, Ask(what) PROVE HealthInv'
  <2>1. /\ rpc = "idle" /\ verdict' = "none" /\ sawError' = FALSE
        /\ quiet' = \A w \in Windows : ~HasPoint(w)
        /\ UNCHANGED <<serverVars, rate, avg>>
    BY Zenon, <1>5 DEF Ask
  <2>2. \/ rpc' = "count" /\ Advance("requests")
        \/ rpc' = "check" /\ Advance("latency")
    BY Zenon, <1>5 DEF Ask
  <2>3. rate.errors = 0 /\ avg = Nothing
    BY Zenon, <1>1, <2>1 DEF ReaderInv
  <2>4. WindowsInv' /\ now' = now /\ (\A u \in Windows : HasPoint(u)' <=> HasPoint(u))
    BY Zenon, <1>3, <2>2, ThreeWindows
  <2>5. ReaderInv'
    BY Zenon, <1>1, <2>1, <2>2, <2>3 DEF ReaderInv
  <2>6. QuietInv'
    <3>1. quiet' /\ rpc' = "check" => win'["latency"].qty = 0 /\ win'["latency"].sum = 0
      BY Zenon, <1>3, <2>1, <2>2, ThreeWindows
    <3> QED
      BY Zenon, <2>1, <2>2, <2>3, <2>4, <3>1 DEF QuietInv, Reading
  <2> QED
    BY Zenon, <1>4, <2>1, <2>4, <2>5, <2>6 DEF HealthInv
<1>6. CASE CountRequests
  <2>1. /\ rpc = "count" /\ rpc' \in {"sum errors", "average"}
        /\ UNCHANGED <<now, win, added, serverVars, rate, avg, verdict, quiet, sawError>>
    BY Zenon, <1>6 DEF CountRequests, windowVars
  <2>2. ReaderInv'
    BY Zenon, <1>1, <2>1 DEF ReaderInv
  <2>3. QuietInv'
    BY Zenon, <1>1, <1>2, <2>1 DEF QuietInv, Reading
  <2> QED
    BY Zenon, <1>2, <1>4, <2>1, <2>2, <2>3 DEF HealthInv
<1>7. CASE SumErrors
  <2>1. /\ rpc = "sum errors" /\ rpc' = "errors" /\ Advance("errors")
        /\ sawError' = HasPoint("errors")
        /\ UNCHANGED <<serverVars, rate, avg, verdict, quiet>>
    BY Zenon, <1>7 DEF SumErrors
  <2>2. /\ WindowsInv' /\ now' = now /\ (\A u \in Windows : HasPoint(u)' <=> HasPoint(u))
        /\ ~HasPoint("errors") => win'["errors"].sum = 0
    BY Zenon, <1>3, <2>1, ThreeWindows
  <2>3. ReaderInv'
    <3>1. sawError' \in BOOLEAN /\ rate.errors = 0 /\ avg = Nothing /\ verdict = "none"
      BY Zenon, <1>1, <2>1 DEF ReaderInv, HasPoint
    <3> QED
      BY Zenon, <1>1, <2>1, <2>2, <3>1 DEF ReaderInv
  <2>4. QuietInv'
    BY Zenon, <1>1, <2>1, <2>2, ThreeWindows DEF QuietInv, Reading
  <2> QED
    BY Zenon, <1>4, <2>1, <2>2, <2>3, <2>4 DEF HealthInv
<1>8. CASE ReadErrors
  <2>1. /\ rpc = "errors" /\ rpc' = "sum requests"
        /\ rate' = [rate EXCEPT !.errors = win["errors"].sum]
        /\ UNCHANGED <<now, win, added, serverVars, avg, verdict, quiet, sawError>>
    BY Zenon, <1>8 DEF ReadErrors, windowVars
  <2>2. DOMAIN rate' = {"errors", "requests"} /\ rate'.errors = win["errors"].sum
    BY Zenon, <1>1, <2>1 DEF ReaderInv
  <2>3. ReaderInv'
    BY Zenon, <1>1, <2>1, <2>2 DEF ReaderInv
  <2>4. QuietInv'
    BY Zenon, <1>1, <1>2, <2>1, <2>2 DEF QuietInv, Reading
  <2> QED
    BY Zenon, <1>2, <1>4, <2>1, <2>3, <2>4 DEF HealthInv
<1>9. CASE SumRequests
  <2>1. /\ rpc = "sum requests" /\ rpc' = "requests" /\ Advance("requests")
        /\ UNCHANGED <<serverVars, rate, avg, verdict, quiet, sawError>>
    BY Zenon, <1>9 DEF SumRequests
  <2>2. WindowsInv' /\ now' = now /\ (\A u \in Windows : HasPoint(u)' <=> HasPoint(u))
    BY Zenon, <1>3, <2>1, ThreeWindows
  <2>3. ReaderInv'
    BY Zenon, <1>1, <2>1, <2>2 DEF ReaderInv
  <2>4. QuietInv'
    BY Zenon, <1>1, <2>1, <2>2 DEF QuietInv, Reading
  <2> QED
    BY Zenon, <1>4, <2>1, <2>2, <2>3, <2>4 DEF HealthInv
<1>10. CASE ReadRequests
  <2>1. /\ rpc = "requests" /\ rpc' = "average"
        /\ rate' = [rate EXCEPT !.requests = win["requests"].sum]
        /\ UNCHANGED <<now, win, added, serverVars, avg, verdict, quiet, sawError>>
    BY Zenon, <1>10 DEF ReadRequests, windowVars
  <2>2. DOMAIN rate' = {"errors", "requests"} /\ rate'.errors = rate.errors
    BY <1>1, <2>1 DEF ReaderInv
  <2>3. ReaderInv'
    BY Zenon, <1>1, <2>1, <2>2 DEF ReaderInv
  <2>4. QuietInv'
    BY Zenon, <1>1, <1>2, <2>1, <2>2 DEF QuietInv, Reading
  <2> QED
    BY Zenon, <1>2, <1>4, <2>1, <2>3, <2>4 DEF HealthInv
<1>11. CASE AvgAdvance
  <2>1. /\ rpc = "average" /\ rpc' = "check" /\ Advance("latency")
        /\ UNCHANGED <<serverVars, rate, avg, verdict, quiet, sawError>>
    BY Zenon, <1>11 DEF AvgAdvance
  <2>2. /\ WindowsInv' /\ now' = now /\ (\A u \in Windows : HasPoint(u)' <=> HasPoint(u))
        /\ ~HasPoint("latency") => win'["latency"].qty = 0 /\ win'["latency"].sum = 0
    BY Zenon, <1>3, <2>1, ThreeWindows
  <2>3. ReaderInv'
    BY Zenon, <1>1, <2>1, <2>2 DEF ReaderInv
  <2>4. QuietInv'
    BY Zenon, <1>1, <2>1, <2>2, ThreeWindows DEF QuietInv, Reading
  <2> QED
    BY Zenon, <1>4, <2>1, <2>2, <2>3, <2>4 DEF HealthInv
<1>12. CASE AvgCheck
  <2>1. /\ rpc = "check" /\ rpc' \in {"judge", "load"}
        /\ UNCHANGED <<now, win, added, serverVars, rate, avg, verdict, quiet, sawError>>
    BY Zenon, <1>12 DEF AvgCheck, windowVars
  <2>2. ReaderInv'
    BY Zenon, <1>1, <2>1 DEF ReaderInv
  <2>3. QuietInv'
    BY Zenon, <1>1, <1>2, <2>1 DEF QuietInv, Reading
  <2> QED
    BY Zenon, <1>2, <1>4, <2>1, <2>2, <2>3 DEF HealthInv
<1>13. ASSUME NEW first \in {"sum", "qty"}, AvgLoad(first) PROVE HealthInv'
  <2>1. /\ rpc \in {"load", "sum", "qty"} /\ rpc' \in {"sum", "qty", "judge"}
        /\ UNCHANGED <<now, win, added, serverVars, rate, verdict, quiet, sawError>>
    BY Zenon, <1>13 DEF AvgLoad, windowVars
  <2>2. \/ avg' = [avg EXCEPT !.sum = win["latency"].sum]
        \/ avg' = [avg EXCEPT !.qty = win["latency"].qty]
    BY Zenon, <1>13 DEF AvgLoad
  <2>3. ReaderInv'
    BY Zenon, <1>1, <2>1 DEF ReaderInv
  <2>4. QuietInv'
    <3>1. quiet => avg = Nothing /\ win["latency"].qty = 0 /\ win["latency"].sum = 0
      BY Zenon, <1>1, <2>1 DEF QuietInv, Reading
    <3>2. quiet => avg' = Nothing
      BY <2>2, <3>1 DEF Nothing
    <3> QED
      BY Zenon, <1>1, <1>2, <2>1, <3>1, <3>2 DEF QuietInv, Reading
  <2> QED
    BY Zenon, <1>2, <1>4, <2>1, <2>3, <2>4 DEF HealthInv
<1>14. CASE Judge
  <2>1. /\ rpc = "judge" /\ rpc' = "idle" /\ rate' = NoRate /\ avg' = Nothing
        /\ UNCHANGED <<now, win, added, serverVars, quiet, sawError>>
    BY Zenon, <1>14 DEF Judge, windowVars
  <2>2. DOMAIN NoRate = {"errors", "requests"} /\ NoRate.errors = 0
    BY DEF NoRate
  <2>3. PICK slow \in AtLeast(IF asked = "health" THEN MaxLatency ELSE MaxDegraded) :
           verdict' = IF asked = "health" /\ TooManyErrors THEN "errors"
                      ELSE IF slow THEN "slow" ELSE "fine"
    BY Zenon, <1>14 DEF Judge
  <2>4. /\ verdict' = "errors" => TooManyErrors
        /\ slow = FALSE /\ ~TooManyErrors => verdict' = "fine"
    BY <2>3
  <2>5. TooManyErrors => rate.errors > 0 /\ rate.errors # 0
    BY DEF TooManyErrors
  <2>6. avg = Nothing => slow = FALSE
    BY <2>3 DEF AtLeast, Nothing
  <2>7. ReaderInv'
    BY Zenon, <1>1, <2>1, <2>2, <2>4, <2>5 DEF ReaderInv
  <2>8. QuietInv'
    <3>1. quiet => verdict' = "fine"
      BY Zenon, <1>1, <2>4, <2>5, <2>6 DEF QuietInv
    <3> QED
      BY Zenon, <1>1, <1>2, <2>1, <2>2, <3>1 DEF QuietInv, Reading
  <2> QED
    BY Zenon, <1>2, <1>4, <2>1, <2>7, <2>8 DEF HealthInv
<1> QED
  BY Zenon, <1>5, <1>6, <1>7, <1>8, <1>9, <1>10, <1>11, <1>12, <1>13, <1>14 DEF Reader

LEMMA HealthStep == HealthInv /\ [Next]_vars => HealthInv'
<1> SUFFICES ASSUME HealthInv, [Next]_vars PROVE HealthInv'
  BY Zenon
<1>1. WindowsInv /\ ServersInv /\ ReaderInv /\ QuietInv
  BY Zenon DEF HealthInv
<1>2. CASE UNCHANGED vars
  <2>1. UNCHANGED <<now, win, added, server, rpc, rate, avg, verdict, quiet, sawError>>
    BY Zenon, <1>2 DEF vars, windowVars, serverVars, readerVars
  <2>2. WindowsInv' /\ ServersInv' /\ ReaderInv'
    BY Zenon, <1>1, <2>1 DEF WindowsInv, ServersInv, ReaderInv
  <2>3. QuietInv'
    BY Zenon, <1>1, <2>1 DEF QuietInv, HasPoint, InWindow, AfterWindowStart
  <2> QED
    BY Zenon, <2>2, <2>3 DEF HealthInv
<1>3. CASE Tick /\ UNCHANGED <<serverVars, readerVars>>
  <2>1. UNCHANGED <<win, added, server, rpc, rate, avg, verdict, quiet, sawError>>
    BY Zenon, <1>3 DEF Tick, serverVars, readerVars
  <2>2. /\ WindowsInv' /\ now' \in Nat /\ now < now'
        /\ \A w \in Windows : HasPoint(w)' => HasPoint(w)
    BY Zenon, <1>1, <1>3, TickStep
  <2>3. ServersInv'
    <3>1. now \in Nat
      BY Zenon, <1>1, Clock
    <3>2. 0..now \subseteq 0..now'
      BY <2>2, <3>1
    <3>3. Place(now) \subseteq Place(now')
      BY <3>2 DEF Place
    <3> QED
      BY Zenon, <1>1, <2>1, <3>3 DEF ServersInv
  <2>4. ReaderInv'
    BY Zenon, <1>1, <2>1 DEF ReaderInv
  <2>5. QuietInv'
    BY Zenon, <1>1, <2>1, <2>2 DEF QuietInv
  <2> QED
    BY Zenon, <2>2, <2>3, <2>4, <2>5 DEF HealthInv
<1>4. CASE Reader
  BY Zenon, <1>4, ReaderStep
<1>5. CASE \E s \in Servers : Server(s)
  BY Zenon, <1>5, ServersStep
<1> QED
  BY Zenon, <1>2, <1>3, <1>4, <1>5 DEF Next

LEMMA HealthInvariant == Spec => []HealthInv
  BY PTL, InitHealth, HealthStep DEF Spec

(* The running totals of a window (AvgSlidingWindow's qty and sum) are     *)
(* always those of its buckets, and while the buckets are in order         *)
(* advance() leaves exactly the points whose bucket is in the window, for  *)
(* any window length and any interleaving of the two locked parts of Add.  *)
THEOREM WindowsAreExact == Spec => []WindowIsExact
<1>1. HealthInv => WindowIsExact
  <2> SUFFICES ASSUME HealthInv PROVE WindowIsExact
    BY Zenon
  <2>1. now \in Nat /\ \A w \in Windows : WindowOK(win[w], added[w], Round(now))
    BY Zenon, Clock DEF HealthInv, WindowsInv
  <2> SUFFICES ASSUME NEW w \in Windows
               PROVE  /\ TotalsMatch(win[w])
                      /\ InOrder(win[w].buckets) =>
                           LET inside == {k \in Keys : InWindow(k)} IN
                           /\ Advanced(win[w]).qty = SumOf([k \in Keys |-> added[w][k].qty], inside)
                           /\ Advanced(win[w]).sum = SumOf([k \in Keys |-> added[w][k].sum], inside)
    BY Zenon DEF WindowIsExact
  <2>2. TotalsMatch(win[w])
    BY Zenon, <2>1 DEF WindowOK
  <2> QED
    BY Zenon, <2>1, <2>2, AdvancedExact
<1> QED
  BY PTL, <1>1, HealthInvariant

(* IsHealthy() says no for the errors of a backend only if an error was in *)
(* the window while ErrorRate() summed them.                               *)
THEOREM ErrorsAreReal == Spec => []NoErrorsNoVerdict
<1>1. HealthInv => NoErrorsNoVerdict
  BY Zenon DEF HealthInv, ReaderInv, NoErrorsNoVerdict
<1> QED
  BY PTL, <1>1, HealthInvariant

(* IsHealthy() and IsDegraded() find nothing against a backend whose       *)
(* windows hold no point from the call on, whatever its thresholds are and *)
(* whatever was left in its buckets.                                       *)
THEOREM QuietBackendRecovers == Spec => []QuietIsHealthy
<1>1. HealthInv => QuietIsHealthy
  BY Zenon DEF HealthInv, QuietInv, QuietIsHealthy
<1> QED
  BY PTL, <1>1, HealthInvariant
=============================================================================
