--------------------------- MODULE BatchRPCProofs ---------------------------
(* Theorems about a request of a client (BatchRPC), for any calls, limits, *)
(* headers and upstream batch size.                                        *)
EXTENDS BatchRPC, FiniteSetTheorems, TLAPS

(***************************************************************************)
(* What loops over sequences compute: Filter and OverrideResponses.        *)
(***************************************************************************)

LEMMA LeastOf == ASSUME NEW T, T \subseteq Nat, T # {} PROVE \E n \in T : \A m \in T : n <= m
<1>1. PICK n \in T : \A m \in T : ~(<<m, n>> \in OpToRel(<, Nat))
  BY Zenon, WFMin, NatLessThanWellFounded
<1>2. ASSUME NEW m \in T PROVE ~(m < n)
  <2>1. m \in Nat /\ n \in Nat
    BY Zenon
  <2>2. m < n => <<m, n>> \in OpToRel(<, Nat)
    BY Zenon, <2>1 DEF OpToRel
  <2> QED
    BY Zenon, <1>1, <2>2
<1> QED
  BY SMT, <1>2

(* One round of the loop of Filter, and its first d rounds.                *)
Sift(r, x, S) == IF x \in S THEN Append(r, x) ELSE r
Sifts(seq, S, k, d) ==
    k[0] = << >> /\ \A n \in 1..d : k[n] = Sift(k[n - 1], seq[n], S)

LEMMA SiftsLonger ==
    ASSUME NEW seq, NEW S, NEW d \in Nat, NEW k, Sifts(seq, S, k, d)
    PROVE  \E g : Sifts(seq, S, g, d + 1)
<1> DEFINE g == [n \in 0..(d + 1) |-> IF n <= d THEN k[n] ELSE Sift(k[d], seq[n], S)]
<1>1. 0 \in 0..(d + 1) /\ 0 <= d /\ d \in 0..(d + 1) /\ d <= d
      /\ d + 1 \in 0..(d + 1) /\ ~(d + 1 <= d)
  BY SMT
<1>2. g[0] = k[0] /\ g[d + 1] = Sift(k[d], seq[d + 1], S) /\ g[d] = k[d]
  BY Zenon, <1>1
<1>3. ASSUME NEW n \in 1..d PROVE g[n] = k[n] /\ g[n - 1] = k[n - 1]
  <2>1. n \in 0..(d + 1) /\ n <= d /\ n - 1 \in 0..(d + 1) /\ n - 1 <= d
    BY SMT
  <2> QED
    BY Zenon, <2>1
<1> HIDE DEF g
<1>4. ASSUME NEW n \in 1..(d + 1) PROVE n \in 1..d \/ (n = d + 1 /\ n - 1 = d)
  BY SMT
<1>5. ASSUME NEW n \in 1..(d + 1) PROVE g[n] = Sift(g[n - 1], seq[n], S)
  <2>1. CASE n \in 1..d
    BY Zenon, <2>1, <1>3 DEF Sifts
  <2>2. CASE n = d + 1 /\ n - 1 = d
    BY Zenon, <2>2, <1>2
  <2> QED
    BY Zenon, <2>1, <2>2, <1>4
<1> QED
  BY Zenon, <1>2, <1>5 DEF Sifts

LEMMA SiftsExist == ASSUME NEW seq, NEW S, NEW d \in Nat PROVE \E k : Sifts(seq, S, k, d)
<1> DEFINE T == {n \in Nat : ~\E k : Sifts(seq, S, k, n)}
<1> SUFFICES ASSUME T # {} PROVE FALSE
  BY Zenon
<1>1. PICK n \in T : \A m \in T : n <= m
  <2> HIDE DEF T
  <2>1. T \subseteq Nat
    BY Zenon DEF T
  <2> QED
    BY Zenon, <2>1, LeastOf
<1>2. CASE n = 0
  <2> DEFINE e == [i \in {0} |-> << >>]
  <2>1. e[0] = << >>
    BY Zenon
  <2>2. \A i : i \notin 1..0
    BY SMT
  <2>3. Sifts(seq, S, e, 0)
    BY Zenon, <2>1, <2>2 DEF Sifts
  <2> QED
    BY Zenon, <1>2, <2>3
<1>3. CASE n # 0
  <2>1. n - 1 \in Nat /\ ~(n <= n - 1) /\ (n - 1) + 1 = n
    BY SMT, <1>3
  <2>2. PICK k : Sifts(seq, S, k, n - 1)
    BY Zenon, <1>1, <2>1
  <2>3. \E g : Sifts(seq, S, g, (n - 1) + 1)
    BY Zenon, <2>1, <2>2, SiftsLonger
  <2> QED
    BY Zenon, <2>1, <2>3
<1> QED
  BY Zenon, <1>2, <1>3

LEMMA FilterIs ==
    ASSUME NEW seq, Len(seq) \in Nat, NEW S
    PROVE  \E k : Sifts(seq, S, k, Len(seq)) /\ Filter(seq, S) = k[Len(seq)]
<1> DEFINE F(k) == k = [n \in 0..Len(seq) |->
                         IF n = 0 THEN << >>
                         ELSE IF seq[n] \in S THEN Append(k[n - 1], seq[n]) ELSE k[n - 1]]
<1> DEFINE c == CHOOSE k : F(k)
<1>1. Filter(seq, S) = c[Len(seq)]
  BY Zenon DEF Filter
<1>2. PICK k : Sifts(seq, S, k, Len(seq))
  BY Zenon, SiftsExist
<1> DEFINE f == [n \in 0..Len(seq) |-> k[n]]
<1>3. ASSUME NEW n \in 0..Len(seq), n # 0
      PROVE  n \in 1..Len(seq) /\ n - 1 \in 0..Len(seq)
  BY SMT, <1>3
<1>4. ASSUME NEW n \in 0..Len(seq)
      PROVE  f[n] = IF n = 0 THEN << >>
                    ELSE IF seq[n] \in S THEN Append(f[n - 1], seq[n]) ELSE f[n - 1]
  BY Zenon, <1>2, <1>3 DEF Sifts, Sift
<1>5. F(f)
  BY Zenon, <1>4
<1>6. F(c)
  <2> HIDE DEF F, f
  <2> QED
    BY Zenon, <1>5
<1>7. ASSUME NEW n \in 1..Len(seq) PROVE n \in 0..Len(seq) /\ n # 0
  BY SMT
<1>8. 0 \in 0..Len(seq)
  BY SMT
<1>9. c = [n \in 0..Len(seq) |->
             IF n = 0 THEN << >>
             ELSE IF seq[n] \in S THEN Append(c[n - 1], seq[n]) ELSE c[n - 1]]
  <2> HIDE DEF c
  <2> QED
    BY Zenon, <1>6
<1> HIDE DEF c
<1>10. c[0] = << >>
  BY Zenon, <1>8, <1>9
<1>11. ASSUME NEW n \in 1..Len(seq) PROVE c[n] = Sift(c[n - 1], seq[n], S)
  BY Zenon, <1>7, <1>9 DEF Sift
<1> QED
  BY Zenon, <1>1, <1>10, <1>11 DEF Sifts

(* r is what is kept of the first n elements of seq: c[m] of the first m.  *)
SiftedTo(seq, S, r, c, n) ==
    /\ r \in Seq(Range(seq)) /\ c[0] = 0 /\ c[n] = Len(r) /\ Len(r) <= n
    /\ \A m \in 1..n :
          /\ c[m - 1] \in Nat /\ c[m] \in Nat /\ c[m] <= Len(r)
          /\ seq[m] \in S => c[m] = c[m - 1] + 1 /\ r[c[m]] = seq[m]
          /\ seq[m] \notin S => c[m] = c[m - 1]
    /\ \A j \in 1..Len(r) : \E m \in 1..n : c[m] = j /\ seq[m] \in S

LEMMA SiftedStep ==
    ASSUME NEW X, NEW seq \in Seq(X), NEW S, NEW n \in 1..Len(seq), NEW r, NEW c,
           SiftedTo(seq, S, r, c, n - 1), c[n] = Len(Sift(r, seq[n], S))
    PROVE  SiftedTo(seq, S, Sift(r, seq[n], S), c, n)
<1> DEFINE t == Sift(r, seq[n], S)
<1>1. /\ DOMAIN seq = 1..Len(seq) /\ r \in Seq(Range(seq)) /\ Len(r) \in Nat
      /\ c[0] = 0 /\ c[n - 1] = Len(r) /\ n - 1 \in Nat /\ Len(r) <= n - 1
      /\ Len(r) <= n /\ Len(r) + 1 <= n
  BY SMT DEF SiftedTo
<1>2. seq[n] \in Range(seq)
  BY Zenon, <1>1 DEF Range
<1>3. ASSUME NEW m \in 1..n PROVE m = n \/ m \in 1..(n - 1)
  BY SMT
<1>4. \A m \in 1..(n - 1) : m \in 1..n
  BY SMT
<1>5. n \in 1..n
  BY SMT
<1>6. CASE seq[n] \in S
  <2>1. t = Append(r, seq[n])
    BY Zenon, <1>6 DEF Sift
  <2>2. /\ t \in Seq(Range(seq)) /\ Len(t) = Len(r) + 1 /\ t[Len(r) + 1] = seq[n]
        /\ \A j \in 1..Len(r) : t[j] = r[j]
    BY SMT, <1>1, <1>2, <2>1
  <2>3. c[n] = Len(r) + 1
    BY Zenon, <2>2
  <2> HIDE DEF t
  <2>4. ASSUME NEW m \in 1..n
        PROVE  /\ c[m - 1] \in Nat /\ c[m] \in Nat /\ c[m] <= Len(t)
               /\ seq[m] \in S => c[m] = c[m - 1] + 1 /\ t[c[m]] = seq[m]
               /\ seq[m] \notin S => c[m] = c[m - 1]
    <3>1. CASE m = n
      BY SMT, <3>1, <1>1, <1>6, <2>2, <2>3
    <3>2. CASE m \in 1..(n - 1)
      <4>1. /\ c[m - 1] \in Nat /\ c[m] \in Nat /\ c[m] <= Len(r)
            /\ seq[m] \in S => c[m] = c[m - 1] + 1 /\ r[c[m]] = seq[m]
            /\ seq[m] \notin S => c[m] = c[m - 1]
        BY Zenon, <3>2 DEF SiftedTo
      <4> QED
        BY SMT, <4>1, <1>1, <2>2
    <3> QED
      BY Zenon, <3>1, <3>2, <1>3
  <2>5. ASSUME NEW j \in 1..Len(t) PROVE \E m \in 1..n : c[m] = j /\ seq[m] \in S
    <3>1. j = Len(r) + 1 \/ j \in 1..Len(r)
      BY SMT, <1>1, <2>2
    <3> QED
      BY Zenon, <3>1, <1>4, <1>5, <1>6, <2>3 DEF SiftedTo
  <2> QED
    BY Zenon, <1>1, <2>2, <2>3, <2>4, <2>5 DEF SiftedTo, t
<1>7. CASE seq[n] \notin S
  <2>1. t = r
    BY Zenon, <1>7 DEF Sift
  <2>2. c[n] = Len(r)
    BY Zenon, <2>1
  <2> HIDE DEF t
  <2>4. ASSUME NEW m \in 1..n
        PROVE  /\ c[m - 1] \in Nat /\ c[m] \in Nat /\ c[m] <= Len(r)
               /\ seq[m] \in S => c[m] = c[m - 1] + 1 /\ r[c[m]] = seq[m]
               /\ seq[m] \notin S => c[m] = c[m - 1]
    <3>1. CASE m = n
      BY SMT, <3>1, <1>1, <1>7, <2>2
    <3>2. CASE m \in 1..(n - 1)
      BY Zenon, <3>2 DEF SiftedTo
    <3> QED
      BY Zenon, <3>1, <3>2, <1>3
  <2>5. ASSUME NEW j \in 1..Len(r) PROVE \E m \in 1..n : c[m] = j /\ seq[m] \in S
    BY Zenon, <1>4 DEF SiftedTo
  <2> QED
    BY Zenon, <1>1, <2>1, <2>2, <2>4, <2>5 DEF SiftedTo, t
<1> QED
  BY Zenon, <1>6, <1>7

(* Filter keeps the members of S, in their order.                          *)
LEMMA FilterKeeps ==
    ASSUME NEW X, NEW seq \in Seq(X), NEW S
    PROVE  \E c : SiftedTo(seq, S, Filter(seq, S), c, Len(seq))
<1>1. Len(seq) \in Nat
  BY SMT
<1>2. PICK k : Sifts(seq, S, k, Len(seq)) /\ Filter(seq, S) = k[Len(seq)]
  BY Zenon, <1>1, FilterIs
<1> DEFINE c == [n \in 0..Len(seq) |-> Len(k[n])]
<1> DEFINE T == {n \in 0..Len(seq) : ~SiftedTo(seq, S, k[n], c, n)}
<1>3. \A n \in 0..Len(seq) : c[n] = Len(k[n])
  BY Zenon
<1> HIDE DEF c
<1>4. T = {}
  <2> SUFFICES ASSUME T # {} PROVE FALSE
    BY Zenon
  <2>1. PICK n \in T : \A m \in T : n <= m
    <3>1. T \subseteq Nat
      BY SMT
    <3> HIDE DEF T
    <3> QED
      BY Zenon, <3>1, LeastOf
  <2>2. CASE n = 0
    <3>1. /\ << >> \in Seq(Range(seq)) /\ Len(<< >>) = 0 /\ (\A i : i \notin 1..0)
          /\ 0 \in 0..Len(seq) /\ 0 <= 0
      BY SMT, <1>1
    <3>2. k[0] = << >> /\ c[0] = 0
      BY Zenon, <1>2, <1>3, <3>1 DEF Sifts
    <3>3. SiftedTo(seq, S, << >>, c, 0)
      BY Zenon, <3>1, <3>2 DEF SiftedTo
    <3> QED
      BY Zenon, <2>2, <3>2, <3>3
  <2>3. CASE n # 0
    <3>1. n \in 1..Len(seq) /\ n - 1 \in 0..Len(seq) /\ ~(n <= n - 1)
      BY SMT, <1>1, <2>3
    <3>2. SiftedTo(seq, S, k[n - 1], c, n - 1)
      BY Zenon, <2>1, <3>1
    <3>3. k[n] = Sift(k[n - 1], seq[n], S) /\ c[n] = Len(k[n])
      BY Zenon, <1>2, <1>3, <3>1 DEF Sifts
    <3>4. SiftedTo(seq, S, Sift(k[n - 1], seq[n], S), c, n)
      BY Zenon, <3>1, <3>2, <3>3, SiftedStep
    <3> QED
      BY Zenon, <3>3, <3>4
  <2> QED
    BY Zenon, <2>2, <2>3
<1>5. Len(seq) \in 0..Len(seq)
  BY SMT, <1>1
<1> QED
  BY Zenon, <1>2, <1>4, <1>5

(* The same for OverrideResponses: one round, and the first d rounds.      *)
Put(acc, n) ==
    IF Overridden(reqs[Mini[n]].kind) THEN Insert(acc, n - 1, FromConsensus(Mini[n])) ELSE acc
Puts(res, k, d) == k[0] = res /\ \A n \in 1..d : k[n] = Put(k[n - 1], n)

LEMMA PutsLonger ==
    ASSUME NEW res, NEW d \in Nat, NEW k, Puts(res, k, d)
    PROVE  \E g : Puts(res, g, d + 1)
<1> DEFINE g == [n \in 0..(d + 1) |-> IF n <= d THEN k[n] ELSE Put(k[d], n)]
<1>1. 0 \in 0..(d + 1) /\ 0 <= d /\ d \in 0..(d + 1) /\ d <= d
      /\ d + 1 \in 0..(d + 1) /\ ~(d + 1 <= d)
  BY SMT
<1>2. g[0] = k[0] /\ g[d + 1] = Put(k[d], d + 1) /\ g[d] = k[d]
  BY Zenon, <1>1
<1>3. ASSUME NEW n \in 1..d PROVE g[n] = k[n] /\ g[n - 1] = k[n - 1]
  <2>1. n \in 0..(d + 1) /\ n <= d /\ n - 1 \in 0..(d + 1) /\ n - 1 <= d
    BY SMT
  <2> QED
    BY Zenon, <2>1
<1> HIDE DEF g
<1>4. ASSUME NEW n \in 1..(d + 1) PROVE n \in 1..d \/ (n = d + 1 /\ n - 1 = d)
  BY SMT
<1>5. ASSUME NEW n \in 1..(d + 1) PROVE g[n] = Put(g[n - 1], n)
  <2>1. CASE n \in 1..d
    BY Zenon, <2>1, <1>3 DEF Puts
  <2>2. CASE n = d + 1 /\ n - 1 = d
    BY Zenon, <2>2, <1>2
  <2> QED
    BY Zenon, <2>1, <2>2, <1>4
<1> QED
  BY Zenon, <1>2, <1>5 DEF Puts

LEMMA PutsExist == ASSUME NEW res, NEW d \in Nat PROVE \E k : Puts(res, k, d)
<1> DEFINE T == {n \in Nat : ~\E k : Puts(res, k, n)}
<1> SUFFICES ASSUME T # {} PROVE FALSE
  BY Zenon
<1>1. PICK n \in T : \A m \in T : n <= m
  <2> HIDE DEF T
  <2>1. T \subseteq Nat
    BY Zenon DEF T
  <2> QED
    BY Zenon, <2>1, LeastOf
<1>2. CASE n = 0
  <2> DEFINE e == [i \in {0} |-> res]
  <2>1. e[0] = res
    BY Zenon
  <2>2. \A i : i \notin 1..0
    BY SMT
  <2>3. Puts(res, e, 0)
    BY Zenon, <2>1, <2>2 DEF Puts
  <2> QED
    BY Zenon, <1>2, <2>3
<1>3. CASE n # 0
  <2>1. n - 1 \in Nat /\ ~(n <= n - 1) /\ (n - 1) + 1 = n
    BY SMT, <1>3
  <2>2. PICK k : Puts(res, k, n - 1)
    BY Zenon, <1>1, <2>1
  <2>3. \E g : Puts(res, g, (n - 1) + 1)
    BY Zenon, <2>1, <2>2, PutsLonger
  <2> QED
    BY Zenon, <2>1, <2>3
<1> QED
  BY Zenon, <1>2, <1>3

LEMMA OverrideIs ==
    ASSUME NEW res, Len(Mini) \in Nat
    PROVE  \E k : Puts(res, k, Len(Mini)) /\ OverrideResponses(res) = k[Len(Mini)]
<1> DEFINE F(k) == k = [n \in 0..Len(Mini) |->
                         IF n = 0 THEN res
                         ELSE IF Overridden(reqs[Mini[n]].kind)
                              THEN Insert(k[n - 1], n - 1, FromConsensus(Mini[n]))
                              ELSE k[n - 1]]
<1> DEFINE c == CHOOSE k : F(k)
<1>1. OverrideResponses(res) = c[Len(Mini)]
  BY Zenon DEF OverrideResponses
<1>2. PICK k : Puts(res, k, Len(Mini))
  BY Zenon, PutsExist
<1> DEFINE f == [n \in 0..Len(Mini) |-> k[n]]
<1>3. ASSUME NEW n \in 0..Len(Mini), n # 0
      PROVE  n \in 1..Len(Mini) /\ n - 1 \in 0..Len(Mini)
  BY SMT, <1>3
<1>4. ASSUME NEW n \in 0..Len(Mini)
      PROVE  f[n] = IF n = 0 THEN res
                    ELSE IF Overridden(reqs[Mini[n]].kind)
                         THEN Insert(f[n - 1], n - 1, FromConsensus(Mini[n]))
                         ELSE f[n - 1]
  BY Zenon, <1>2, <1>3 DEF Puts, Put
<1>5. F(f)
  BY Zenon, <1>4
<1>6. F(c)
  <2> HIDE DEF F, f
  <2> QED
    BY Zenon, <1>5
<1>7. ASSUME NEW n \in 1..Len(Mini) PROVE n \in 0..Len(Mini) /\ n # 0
  BY SMT
<1>8. 0 \in 0..Len(Mini)
  BY SMT
<1>9. c = [n \in 0..Len(Mini) |->
             IF n = 0 THEN res
             ELSE IF Overridden(reqs[Mini[n]].kind)
                  THEN Insert(c[n - 1], n - 1, FromConsensus(Mini[n])) ELSE c[n - 1]]
  <2> HIDE DEF c
  <2> QED
    BY Zenon, <1>6
<1> HIDE DEF c
<1>10. c[0] = res
  BY Zenon, <1>8, <1>9
<1>11. ASSUME NEW n \in 1..Len(Mini) PROVE c[n] = Put(c[n - 1], n)
  BY Zenon, <1>7, <1>9 DEF Put
<1> QED
  BY Zenon, <1>1, <1>10, <1>11 DEF Puts

LEMMA Concat ==
    ASSUME NEW X, NEW s \in Seq(X), NEW t \in Seq(X)
    PROVE  /\ s \o t \in Seq(X) /\ Len(s \o t) = Len(s) + Len(t)
           /\ \A j \in 1..Len(s) : (s \o t)[j] = s[j]
           /\ \A j \in (Len(s) + 1)..(Len(s) + Len(t)) : (s \o t)[j] = t[j - Len(s)]
<1>1. s \o t \in Seq(X) /\ Len(s \o t) = Len(s) + Len(t)
  BY SMT
<1>2. \A j \in 1..Len(s) : (s \o t)[j] = s[j]
  BY SMT
<1>3. \A j \in (Len(s) + 1)..(Len(s) + Len(t)) : (s \o t)[j] = t[j - Len(s)]
  BY SMT
<1> QED
  BY Zenon, <1>1, <1>2, <1>3

Inserted(X, s, at, x, w) ==
    /\ w \in Seq(X) /\ Len(w) = Len(s) + 1
    /\ \A j \in 1..at : w[j] = s[j]
    /\ w[at + 1] = x
    /\ \A j \in (at + 2)..(Len(s) + 1) : w[j] = s[j - 1]

LEMMA InsertAt ==
    ASSUME NEW X, NEW s \in Seq(X), NEW x \in X, NEW at \in 0..Len(s)
    PROVE  Inserted(X, s, at, x, Insert(s, at, x))
<1> DEFINE a == SubSeq(s, 1, at)
           b == SubSeq(s, at + 1, Len(s))
<1>1. /\ a \in Seq(X) /\ Len(a) = at /\ \A j \in 1..at : a[j] = s[j]
  BY SMT
<1>2. /\ b \in Seq(X) /\ Len(b) = Len(s) - at /\ \A j \in 1..(Len(s) - at) : b[j] = s[j + at]
  BY SMT
<1> HIDE DEF a, b
<1> DEFINE e == a \o <<x>>
<1>3. /\ e \in Seq(X) /\ Len(e) = at + 1 /\ \A j \in 1..at : e[j] = s[j]
      /\ e[at + 1] = x
  BY SMT, <1>1
<1>4. Insert(s, at, x) = e \o b
  BY Zenon DEF Insert, a, b
<1> HIDE DEF e
<1> DEFINE w == e \o b
<1>5. /\ w \in Seq(X) /\ Len(w) = Len(e) + Len(b)
      /\ \A j \in 1..Len(e) : w[j] = e[j]
      /\ \A j \in (Len(e) + 1)..(Len(e) + Len(b)) : w[j] = b[j - Len(e)]
  BY Zenon, <1>2, <1>3, Concat
<1> HIDE DEF w
<1>6. /\ Len(w) = Len(s) + 1
      /\ \A j \in 1..at : w[j] = s[j]
      /\ w[at + 1] = x
      /\ \A j \in (at + 2)..(Len(s) + 1) : w[j] = s[j - 1]
  <2>1. Len(s) \in Nat /\ Len(e) + Len(b) = Len(s) + 1 /\ at \in Nat
    BY SMT, <1>2, <1>3
  <2>2. \A j \in 1..at : w[j] = s[j]
    <3>1. \A j \in 1..at : j \in 1..Len(e)
      BY SMT, <1>3, <2>1
    <3> QED
      BY Zenon, <3>1, <1>3, <1>5
  <2>3. w[at + 1] = x
    <3>1. at + 1 \in 1..Len(e)
      BY SMT, <1>3, <2>1
    <3> QED
      BY Zenon, <3>1, <1>3, <1>5
  <2>4. ASSUME NEW j \in (at + 2)..(Len(s) + 1) PROVE w[j] = s[j - 1]
    <3>1. /\ j \in (Len(e) + 1)..(Len(e) + Len(b)) /\ j - Len(e) \in 1..(Len(s) - at)
          /\ (j - Len(e)) + at = j - 1
      BY SMT, <1>3, <2>1
    <3>2. w[j] = b[j - Len(e)] /\ b[j - Len(e)] = s[(j - Len(e)) + at]
      BY Zenon, <3>1, <1>2, <1>5
    <3> QED
      BY Zenon, <3>1, <3>2
  <2> QED
    BY Zenon, <1>5, <2>1, <2>2, <2>3, <2>4
<1> QED
  BY Zenon, <1>4, <1>5, <1>6 DEF w, Inserted

(* After n rounds the first n places are right, and what is left of the    *)
(* answers of the backend comes after them.                                *)
Placed(res, c, j) ==
    IF Overridden(reqs[Mini[j]].kind) THEN FromConsensus(Mini[j]) ELSE res[c[j]]
PutTo(X, res, c, acc, n) ==
    /\ acc \in Seq(X) /\ Len(acc) = Len(res) + n - c[n]
    /\ \A j \in 1..n : acc[j] = Placed(res, c, j)
    /\ \A j \in (n + 1)..(Len(res) + n - c[n]) : acc[j] = res[j - n + c[n]]

LEMMA PutStep ==
    ASSUME NEW X, NEW res \in Seq(X), NEW c, NEW n \in Nat \ {0}, NEW acc,
           c[n - 1] \in Nat, c[n] \in Nat, c[n] <= Len(res), FromConsensus(Mini[n]) \in X,
           c[n] = IF Overridden(reqs[Mini[n]].kind) THEN c[n - 1] ELSE c[n - 1] + 1,
           PutTo(X, res, c, acc, n - 1)
    PROVE  PutTo(X, res, c, Put(acc, n), n)
<1> DEFINE L == Len(res)
           a == c[n - 1]
           b == c[n]
           at == n - 1
<1>1. /\ L \in Nat /\ a \in Nat /\ b \in Nat /\ at \in Nat /\ n = at + 1 /\ b <= L
      /\ acc \in Seq(X) /\ Len(acc) = L + at - a
      /\ (at + 1)..(L + at - a) = n..(L + at - a)
  BY SMT DEF PutTo
<1>2. \A j \in 1..at : acc[j] = Placed(res, c, j)
  BY Zenon DEF PutTo
<1>3. \A j \in n..(L + at - a) : acc[j] = res[j - at + a]
  BY Zenon, <1>1 DEF PutTo
<1>4. CASE Overridden(reqs[Mini[n]].kind)
  <2> DEFINE x == FromConsensus(Mini[n])
             t == Insert(acc, at, x)
  <2>1. Put(acc, n) = t /\ b = a /\ Placed(res, c, n) = x
    BY Zenon, <1>4 DEF Put, Placed
  <2>2. at \in 0..Len(acc)
    BY SMT, <1>1, <2>1
  <2>3. /\ t \in Seq(X) /\ Len(t) = Len(acc) + 1
        /\ \A j \in 1..at : t[j] = acc[j]
        /\ t[at + 1] = x
        /\ \A j \in (at + 2)..(Len(acc) + 1) : t[j] = acc[j - 1]
    <3>1. x \in X
      BY Zenon
    <3>2. acc \in Seq(X)
      BY Zenon, <1>1
    <3> HIDE DEF x, at
    <3>3. Inserted(X, acc, at, x, Insert(acc, at, x))
      BY Zenon, <2>2, <3>1, <3>2, InsertAt
    <3> QED
      BY Zenon, <3>3 DEF Inserted
  <2>4. \A j \in 1..n : j \in 1..at \/ j = n
    BY SMT, <1>1
  <2>5. \A j \in 1..n : t[j] = Placed(res, c, j)
    <3> HIDE DEF t, x, at
    <3> QED
      BY Zenon, <1>1, <1>2, <2>1, <2>3, <2>4
  <2>6. ASSUME NEW j \in (n + 1)..(L + n - b) PROVE t[j] = res[j - n + b]
    <3> HIDE DEF t, x, at, L, a, b
    <3>1. /\ j \in (at + 2)..(Len(acc) + 1) /\ j - 1 \in n..(L + at - a)
          /\ (j - 1) - at + a = j - n + b
      BY SMT, <1>1, <2>1
    <3>2. t[j] = acc[j - 1]
      BY Zenon, <2>3, <3>1
    <3>3. acc[j - 1] = res[(j - 1) - at + a]
      BY Zenon, <1>3, <3>1
    <3> QED
      BY Zenon, <3>1, <3>2, <3>3
  <2>7. Len(t) = L + n - b
    <3> HIDE DEF t, at, L, a, b
    <3> QED
      BY SMT, <1>1, <2>1, <2>3
  <2> HIDE DEF t
  <2>8. PutTo(X, res, c, t, n)
    BY Zenon, <2>3, <2>5, <2>6, <2>7 DEF PutTo
  <2> QED
    BY Zenon, <2>1, <2>8
<1>5. CASE ~Overridden(reqs[Mini[n]].kind)
  <2>1. Put(acc, n) = acc /\ b = a + 1 /\ Placed(res, c, n) = res[b]
    BY Zenon, <1>5 DEF Put, Placed
  <2>2. \A j \in 1..n : j \in 1..at \/ j = n
    BY SMT, <1>1
  <2>3. acc[n] = res[b]
    <3> HIDE DEF at, L, a, b
    <3>1. n \in n..(L + at - a) /\ n - at + a = b
      BY SMT, <1>1, <2>1
    <3> QED
      BY Zenon, <1>3, <3>1
  <2>4. \A j \in 1..n : acc[j] = Placed(res, c, j)
    BY Zenon, <1>2, <2>1, <2>2, <2>3
  <2>5. ASSUME NEW j \in (n + 1)..(L + n - b) PROVE acc[j] = res[j - n + b]
    <3> HIDE DEF at, L, a, b
    <3>1. j \in n..(L + at - a) /\ j - at + a = j - n + b
      BY SMT, <1>1, <2>1
    <3> QED
      BY Zenon, <1>3, <3>1
  <2>6. Len(acc) = L + n - b
    <3> HIDE DEF at, L, a, b
    <3> QED
      BY SMT, <1>1, <2>1
  <2>7. PutTo(X, res, c, acc, n)
    BY Zenon, <1>1, <2>4, <2>5, <2>6 DEF PutTo
  <2> QED
    BY Zenon, <2>1, <2>7
<1> QED
  BY Zenon, <1>4, <1>5

(* The calls of a mini batch that a backend is asked.                      *)
Asked == {i \in 1..Len(reqs) : ~Overridden(reqs[i].kind)}

(* OverrideResponses puts the answers from the consensus state and those   *)
(* of the backend, which are in the order of Rewritten, in their places.   *)
LEMMA OverrideInPlace ==
    ASSUME Mini \in Seq(1..Len(reqs)), NEW c, SiftedTo(Mini, Asked, Rewritten, c, Len(Mini)),
           NEW X, NEW res \in Seq(X), Len(res) = Len(Rewritten),
           \A j \in 1..Len(Mini) : FromConsensus(Mini[j]) \in X
    PROVE  /\ Len(OverrideResponses(res)) = Len(Mini)
           /\ \A j \in 1..Len(Mini) : OverrideResponses(res)[j] = Placed(res, c, j)
<1> DEFINE N == Len(Mini)
<1>1. N \in Nat /\ (\A j \in 1..N : Mini[j] \in 1..Len(reqs)) /\ Len(res) \in Nat
  BY SMT
<1>2. PICK k : Puts(res, k, N) /\ OverrideResponses(res) = k[N]
  BY Zenon, <1>1, OverrideIs
<1>3. c[0] = 0 /\ c[N] = Len(res)
  BY Zenon DEF SiftedTo
<1>4. ASSUME NEW n \in 1..N
      PROVE  /\ c[n - 1] \in Nat /\ c[n] \in Nat /\ c[n] <= Len(res)
             /\ c[n] = IF Overridden(reqs[Mini[n]].kind) THEN c[n - 1] ELSE c[n - 1] + 1
  <2>1. Mini[n] \in Asked <=> ~Overridden(reqs[Mini[n]].kind)
    BY Zenon, <1>1 DEF Asked
  <2> QED
    BY Zenon, <2>1 DEF SiftedTo
<1> DEFINE T == {n \in 0..N : ~PutTo(X, res, c, k[n], n)}
<1>5. T = {}
  <2> SUFFICES ASSUME T # {} PROVE FALSE
    BY Zenon
  <2>1. PICK n \in T : \A m \in T : n <= m
    <3>1. T \subseteq Nat
      BY SMT, <1>1
    <3> HIDE DEF T
    <3> QED
      BY Zenon, <3>1, LeastOf
  <2>2. CASE n = 0
    <3>1. Len(res) + 0 - c[0] = Len(res) /\ (\A j : j \notin 1..0)
      BY SMT, <1>1, <1>3
    <3>2. ASSUME NEW j \in (0 + 1)..(Len(res) + 0 - c[0]) PROVE j - 0 + c[0] = j
      BY SMT, <1>1, <1>3
    <3>3. PutTo(X, res, c, res, 0)
      BY Zenon, <3>1, <3>2 DEF PutTo
    <3>4. k[0] = res
      BY Zenon, <1>2 DEF Puts
    <3> QED
      BY Zenon, <2>2, <3>3, <3>4
  <2>3. CASE n # 0
    <3>1. n \in 1..N /\ n \in Nat \ {0} /\ n - 1 \in 0..N /\ ~(n <= n - 1)
      BY SMT, <1>1, <2>3
    <3>2. PutTo(X, res, c, k[n - 1], n - 1)
      BY Zenon, <2>1, <3>1
    <3>3. k[n] = Put(k[n - 1], n)
      BY Zenon, <1>2, <3>1 DEF Puts
    <3>4. /\ c[n - 1] \in Nat /\ c[n] \in Nat /\ c[n] <= Len(res)
          /\ c[n] = IF Overridden(reqs[Mini[n]].kind) THEN c[n - 1] ELSE c[n - 1] + 1
      BY Zenon, <1>4, <3>1
    <3>5. FromConsensus(Mini[n]) \in X
      BY Zenon, <3>1
    <3>6. PutTo(X, res, c, Put(k[n - 1], n), n)
      BY Zenon, <3>1, <3>2, <3>4, <3>5, PutStep
    <3> QED
      BY Zenon, <3>3, <3>6
  <2> QED
    BY Zenon, <2>2, <2>3
<1>6. N \in 0..N
  BY SMT, <1>1
<1>7. PutTo(X, res, c, k[N], N)
  BY Zenon, <1>5, <1>6
<1>8. Len(res) + N - c[N] = N
  BY SMT, <1>1, <1>3
<1> QED
  BY Zenon, <1>2, <1>7, <1>8 DEF PutTo

-----------------------------------------------------------------------------
(***************************************************************************)
(* The inductive invariant.                                                *)
(***************************************************************************)

(* The first loop: the calls before next are answered or kept.             *)
LoopInv ==
    /\ reqs \in Batches
    /\ next \in 1..(Len(reqs) + 1) /\ kept \subseteq 1..(next - 1)
    /\ pc \in {"group", "mini"} => next = Len(reqs) + 1
    /\ responses = [i \in 1..Len(reqs) |-> responses[i]]
    /\ \A i \in kept : Local(i) = Missing

(* No upstream batch holds an ID twice, none shares a call with another,   *)
(* and this stays so for what is left of the current one.                  *)
Apart(calls, b) == \A i, j \in b : i # j => calls[i].id # calls[j].id
SeqApart(calls, s) == \A k, l \in 1..Len(s) : k # l => calls[s[k]].id # calls[s[l]].id
TodoInv ==
    /\ \A b \in todo : b \subseteq kept /\ Apart(reqs, b)
    /\ \A a, b \in todo : a # b => a \cap b = {}
    /\ misses \in Seq(kept) /\ SeqApart(reqs, misses)

(* Each slot is empty or right, and a kept call without an answer is still *)
(* to be forwarded.                                                        *)
Own(call, i, r) ==
    /\ r.answers = i
    /\ r.id = (IF call.kind = "malformed" THEN "null" ELSE call.id)
Open(i) ==
    \/ pc \in {"accept", "parse"}
    \/ pc \in {"group", "mini"} /\ \E b \in todo : i \in b
    \/ pc = "mini" /\ \E k \in 1..Len(misses) : misses[k] = i
SlotsInv ==
    /\ \A i \in 1..Len(reqs) : responses[i] # Missing => Own(reqs[i], i, responses[i])
    /\ \A i \in 1..(next - 1) : i \notin kept => responses[i] # Missing
    /\ ~(pc = "done" /\ error) => \A i \in kept : responses[i] # Missing \/ Open(i)
    /\ pc = "done" /\ ~error => next = Len(reqs) + 1

(* The cache holds final answers only, and a call it has answered is not   *)
(* forwarded any more.                                                     *)
FinalEntry(e) == e.content = "final" /\ e.headers = e.key[2]
Waiting(i) == (\E b \in todo : i \in b) \/ (\E k \in 1..Len(misses) : misses[k] = i)
CacheInv ==
    /\ \A e \in cache : FinalEntry(e)
    /\ pc \in {"accept", "parse"} => hits = {}
    /\ hits \subseteq kept /\ \A i \in hits : ~Waiting(i)
    /\ \A i \in hits : responses[i].content = "final" /\ responses[i].from = headers

BatchInv == LoopInv /\ TodoInv /\ SlotsInv /\ CacheInv /\ UpstreamIDsDiffer

LEMMA CallsAreSeq ==
    ASSUME reqs \in Batches
    PROVE  Len(reqs) \in Nat
<1>1. reqs \in Seq(Range(reqs))
  BY Zenon, BatchAssumption
<1> QED
  BY SMT, <1>1

(* What PutRPC stores of an answer to a call is final.                     *)
LEMMA PutFinal ==
    ASSUME NEW kind, NEW h, NEW c, c \in Contents(kind), NEW e \in PutRPC(Forwarded(kind), h, c)
    PROVE  FinalEntry(e)
<1>1. /\ Forwarded(kind) \in {"byHash", "rawHash"} /\ c # "null"
      /\ Forwarded(kind) = "rawHash" => c = "final"
      /\ e = [key |-> <<Forwarded(kind), h>>, content |-> c, headers |-> h]
  BY SMT DEF PutRPC, Handled, FilterGet, HasResult, FilterPut, Key
<1>2. Forwarded(kind) = "byHash" => kind = "byHash"
  BY SMT DEF Forwarded
<1>3. kind = "byHash" => c \in {"null", "final"}
  BY Zenon DEF Contents
<1>4. c = "final"
  BY Zenon, <1>1, <1>2, <1>3
<1>5. e.key = <<Forwarded(kind), h>> /\ e.content = c /\ e.headers = h
  BY SMT, <1>1
<1>6. e.key[2] = h
  BY SMT, <1>5
<1> QED
  BY Zenon, <1>4, <1>5, <1>6 DEF FinalEntry

LEMMA LocalSame == ASSUME reqs' = reqs, NEW i PROVE Local(i)' = Local(i)
  BY Zenon DEF Local, Failure, Response, Missing

LEMMA LoopSame ==
    ASSUME LoopInv, reqs' = reqs, next' = next, kept' = kept, responses' = responses,
           pc' \in {"group", "mini"} => next = Len(reqs) + 1
    PROVE  LoopInv'
<1>1. /\ reqs' \in Batches
      /\ next' \in 1..(Len(reqs') + 1) /\ kept' \subseteq 1..(next' - 1)
      /\ pc' \in {"group", "mini"} => next' = Len(reqs') + 1
  BY Zenon DEF LoopInv
<1>2. responses' = [i \in 1..Len(reqs') |-> responses'[i]]
  <2>1. responses = [i \in 1..Len(reqs) |-> responses[i]]
    BY Zenon DEF LoopInv
  <2> QED
    BY SMT, <2>1
<1>3. \A i \in kept' : Local(i)' = Missing
  BY Zenon, LocalSame DEF LoopInv
<1> QED
  BY Zenon, <1>1, <1>2, <1>3 DEF LoopInv

LEMMA TodoSame ==
    ASSUME TodoInv, reqs' = reqs, kept \subseteq kept', todo' = todo, misses' = misses
    PROVE  TodoInv'
<1>3. misses' \in Seq(kept')
  BY SMT DEF TodoInv
<1>4. \A b \in todo' : b \subseteq kept' /\ Apart(reqs', b)
  BY Zenon DEF TodoInv
<1> QED
  BY Zenon, <1>3, <1>4 DEF TodoInv

(* Steps that leave the calls, their answers and the cache alone.          *)
Quiet == UNCHANGED <<reqs, headers, next, kept, responses, todo, misses, hits, cache, upstream>>

LEMMA QuietInv ==
    ASSUME BatchInv, Quiet, pc' \in {"accept", "parse"} => pc \in {"accept", "parse"},
           pc' \in {"group", "mini"} => next = Len(reqs) + 1,
           ~(pc' = "done" /\ error') => \A i \in kept : responses[i] # Missing \/ Open(i)',
           pc' = "done" /\ ~error' => next = Len(reqs) + 1
    PROVE  BatchInv'
<1>1. LoopInv'
  BY Zenon, LoopSame DEF BatchInv, Quiet
<1>2. TodoInv'
  BY Zenon, TodoSame DEF BatchInv, Quiet
<1>4. SlotsInv'
  BY Zenon DEF BatchInv, Quiet, SlotsInv
<1>5. CacheInv'
  BY Zenon DEF BatchInv, Quiet, CacheInv, Waiting
<1>6. UpstreamIDsDiffer'
  BY Zenon DEF BatchInv, Quiet, UpstreamIDsDiffer
<1> QED
  BY Zenon, <1>1, <1>2, <1>4, <1>5, <1>6 DEF BatchInv

LEMMA QuietSteps ==
    ASSUME BatchInv,
           \/ \E ok \in BOOLEAN : Accept(ok)
           \/ ShortCircuit \/ CantBeBatched \/ Grouped \/ Finish \/ Deadline
           \/ UNCHANGED vars
    PROVE  BatchInv'
<1> USE DEF admitVars, cacheVars
<1>1. ASSUME NEW ok \in BOOLEAN, Accept(ok) PROVE BatchInv'
  <2>1. Quiet
    BY Zenon, <1>1 DEF Accept, Quiet
  <2>2. pc' = "parse" \/ (pc' = "done" /\ error')
    BY Zenon, <1>1 DEF Accept
  <2>3. pc' = "parse" => \A i : Open(i)'
    BY Zenon DEF Open
  <2>4. pc' \notin {"group", "mini"} /\ ~(pc' = "done" /\ ~error') /\ pc \in {"accept", "parse"}
    BY SMT, <1>1, <2>2 DEF Accept
  <2> QED
    BY Zenon, <2>1, <2>2, <2>3, <2>4, QuietInv
<1>2. ASSUME ShortCircuit \/ CantBeBatched PROVE BatchInv'
  <2>1. Quiet /\ pc' = "done" /\ error'
    BY Zenon, <1>2 DEF ShortCircuit, CantBeBatched, Quiet
  <2>2. pc' \notin {"group", "mini"} /\ pc' \notin {"accept", "parse"}
    BY SMT, <2>1
  <2> QED
    BY Zenon, <2>1, <2>2, QuietInv
<1>3. ASSUME Grouped PROVE BatchInv'
  <2>1. Quiet /\ pc = "mini" /\ pc' = "group" /\ misses = << >>
    BY Zenon, <1>3 DEF Grouped, Quiet
  <2>2. pc \notin {"accept", "parse", "done"} /\ pc' \notin {"accept", "parse", "done"}
        /\ \A k : k \notin 1..Len(misses)
    BY SMT, <2>1
  <2>3. \A i \in kept : responses[i] # Missing \/ \E b \in todo : i \in b
    BY Zenon, <2>2 DEF BatchInv, SlotsInv, Open
  <2>4. \A i \in kept : responses[i] # Missing \/ Open(i)'
    BY Zenon, <2>1, <2>3 DEF Quiet, Open
  <2>5. next = Len(reqs) + 1
    BY Zenon, <2>1 DEF BatchInv, LoopInv
  <2> QED
    BY Zenon, <2>1, <2>2, <2>4, <2>5, QuietInv
<1>4. ASSUME Finish PROVE BatchInv'
  <2>1. Quiet /\ pc = "group" /\ pc' = "done" /\ todo = {} /\ error' = error
    BY Zenon, <1>4 DEF Finish, Quiet
  <2>2. pc \notin {"accept", "parse", "done", "mini"} /\ pc' \notin {"group", "mini"}
        /\ pc' \notin {"accept", "parse"}
    BY SMT, <2>1
  <2>3. \A i \in kept : responses[i] # Missing
    BY Zenon, <2>1, <2>2 DEF BatchInv, SlotsInv, Open
  <2>4. next = Len(reqs) + 1
    BY Zenon, <2>1 DEF BatchInv, LoopInv
  <2> QED
    BY Zenon, <2>1, <2>2, <2>3, <2>4, QuietInv
<1>5. ASSUME Deadline \/ UNCHANGED vars PROVE BatchInv'
  <2>1. Quiet /\ pc' = pc /\ error' = error
    BY Zenon, <1>5 DEF Deadline, vars, Quiet
  <2>2. \A i : Open(i)' <=> Open(i)
    BY Zenon, <2>1 DEF Quiet, Open
  <2> QED
    BY Zenon, <2>1, <2>2, QuietInv DEF BatchInv, LoopInv, SlotsInv
<1> QED
  BY Zenon, <1>1, <1>2, <1>3, <1>4, <1>5

LEMMA MeanwhileInv == ASSUME BatchInv, Meanwhile PROVE BatchInv'
<1>1. UNCHANGED <<reqs, isBatch, headers, admitVars, responses, todo, misses, hits, pc,
                  expired, error, upstream>>
  BY Zenon DEF Meanwhile
<1>2. ASSUME NEW e \in cache' PROVE FinalEntry(e)
  <2>1. CASE NewHead
    BY Zenon, <2>1 DEF NewHead, BatchInv, CacheInv
  <2>2. ASSUME NEW kind, NEW h, NEW c \in Contents(kind), OtherPut(kind, h, c)
        PROVE  FinalEntry(e)
    <3>1. e \in cache \/ e \in PutRPC(Forwarded(kind), h, c)
      BY Zenon, <2>2 DEF OtherPut
    <3> QED
      BY Zenon, <3>1, PutFinal DEF BatchInv, CacheInv
  <2> QED
    BY Zenon, <2>1, <2>2 DEF Meanwhile
<1> USE DEF admitVars
<1>3. LoopInv'
  <2>1. pc' \in {"group", "mini"} => next = Len(reqs) + 1
    BY Zenon, <1>1 DEF BatchInv, LoopInv
  <2> QED
    BY Zenon, <1>1, <2>1, LoopSame DEF BatchInv
<1>4. TodoInv'
  BY Zenon, <1>1, TodoSame DEF BatchInv

<1>6. \A i : Open(i)' <=> Open(i)
  BY Zenon, <1>1 DEF Open
<1>7. SlotsInv'
  BY Zenon, <1>1, <1>6 DEF BatchInv, SlotsInv
<1>8. CacheInv'
  BY Zenon, <1>1, <1>2 DEF BatchInv, CacheInv, Waiting
<1>9. UpstreamIDsDiffer'
  BY Zenon, <1>1 DEF BatchInv, UpstreamIDsDiffer
<1> QED
  BY Zenon, <1>3, <1>4, <1>7, <1>8, <1>9 DEF BatchInv

LEMMA ResponseFields ==
    ASSUME NEW i, NEW id, NEW c, NEW f
    PROVE  /\ Response(i, id, c, f).answers = i /\ Response(i, id, c, f).id = id
           /\ Response(i, id, c, f).content = c /\ Response(i, id, c, f).from = f
  BY SMT DEF Response

LEMMA ResponseThere ==
    ASSUME NEW i, i # 0, NEW id, NEW c, NEW f
    PROVE  Response(i, id, c, f) # Missing
<1>1. Response(i, id, c, f).answers = i /\ Missing.answers = 0
  BY SMT DEF Missing, Response
<1> QED
  BY Zenon, <1>1

(* A call that is answered at once gets an answer of its own, and one that *)
(* is not is not malformed.                                                *)
LEMMA LocalOwn ==
    ASSUME NEW i, i # 0
    PROVE  /\ Local(i) # Missing => Own(reqs[i], i, Local(i))
           /\ Local(i) = Missing => reqs[i].kind # "malformed"
<1>1. CASE reqs[i].kind = "malformed"
  <2>1. Local(i) = Failure(i, "null")
    BY Zenon, <1>1 DEF Local
  <2> QED
    BY SMT, <1>1, <2>1 DEF Failure, Response, Missing, Own
<1>2. CASE reqs[i].kind # "malformed"
  <2>1. \/ Local(i) = Missing
        \/ Local(i) = Response(i, reqs[i].id, "plain", "proxyd")
        \/ Local(i) = Failure(i, reqs[i].id)
    BY Zenon, <1>2 DEF Local
  <2> QED
    BY SMT, <1>2, <2>1 DEF Failure, Response, Missing, Own
<1> QED
  BY Zenon, <1>1, <1>2

(* The slot of the call at next is filled.                                 *)
LEMMA FilledNext ==
    ASSUME BatchInv, pc = "parse", next <= Len(reqs), NEW v, v # Missing, Own(reqs[next], next, v),
           responses' = [responses EXCEPT ![next] = v], next' = next + 1,
           UNCHANGED <<reqs, headers, kept, todo, misses, hits, pc, error, cache, upstream>>
    PROVE  BatchInv'
<1> DEFINE N == Len(reqs)
<1>1. /\ N \in Nat /\ next \in 1..N /\ next + 1 \in 1..(N + 1) /\ pc \notin {"group", "mini", "done"}
      /\ (\A i : i \in 1..((next + 1) - 1) <=> i \in 1..(next - 1) \/ i = next)
      /\ next \notin 1..(next - 1)
  <2>1. N \in Nat
    BY Zenon, CallsAreSeq DEF BatchInv, LoopInv
  <2> QED
    BY SMT, <2>1 DEF BatchInv, LoopInv
<1>2. /\ reqs' = reqs /\ headers' = headers /\ kept' = kept /\ todo' = todo /\ misses' = misses
      /\ hits' = hits /\ pc' = pc /\ error' = error /\ cache' = cache /\ upstream' = upstream
  BY Zenon
<1>3. kept \subseteq 1..(next - 1) /\ next \notin kept /\ next \notin hits
  BY Zenon, <1>1 DEF BatchInv, LoopInv, CacheInv
<1>4. /\ responses'[next] = v /\ \A i \in 1..N : i # next => responses'[i] = responses[i]
      /\ responses' = [i \in 1..N |-> responses'[i]]
  <2>1. responses = [i \in 1..N |-> responses[i]]
    BY Zenon DEF BatchInv, LoopInv
  <2>2. DOMAIN responses = 1..N
    BY SMT, <2>1
  <2>3. responses'[next] = v /\ \A i \in 1..N : i # next => responses'[i] = responses[i]
    BY Zenon, <1>1, <2>2
  <2>4. responses' = [i \in 1..N |-> responses'[i]]
    BY Zenon, <2>2
  <2> QED
    BY Zenon, <2>3, <2>4
<1>5. LoopInv'
  <2>1. \A i \in kept' : Local(i)' = Missing
    BY Zenon, <1>2, LocalSame DEF BatchInv, LoopInv
  <2>2. kept' \subseteq 1..(next' - 1)
    BY Zenon, <1>1, <1>2, <1>3
  <2>3. responses' = [i \in 1..Len(reqs') |-> responses'[i]]
    BY Zenon, <1>2, <1>4
  <2>4. pc' \notin {"group", "mini"}
    BY Zenon, <1>1, <1>2
  <2>5. reqs' \in Batches /\ next' \in 1..(Len(reqs') + 1)
    BY Zenon, <1>1, <1>2 DEF BatchInv, LoopInv
  <2> QED
    BY Zenon, <2>1, <2>2, <2>3, <2>4, <2>5 DEF LoopInv
<1>6. TodoInv'
  BY Zenon, <1>2, TodoSame DEF BatchInv

<1>8. SlotsInv'
  <2>1. \A i \in 1..Len(reqs') : responses'[i] # Missing => Own(reqs'[i], i, responses'[i])
    BY Zenon, <1>2, <1>4 DEF BatchInv, SlotsInv
  <2>2. \A i \in 1..(next - 1) : i \in 1..N /\ i # next
    BY SMT, <1>1
  <2>3. \A i \in 1..(next' - 1) : i \notin kept' => responses'[i] # Missing
    BY Zenon, <1>1, <1>2, <1>4, <2>2 DEF BatchInv, SlotsInv
  <2>4. \A i \in kept' : Open(i)'
    BY Zenon, <1>2 DEF Open
  <2>5. pc' # "done"
    BY Zenon, <1>1, <1>2
  <2> QED
    BY Zenon, <2>1, <2>3, <2>4, <2>5 DEF SlotsInv
<1>9. CacheInv'
  <2>1. \A i \in hits : i \in 1..N /\ i # next
    <3>1. \A i \in 1..(next - 1) : i \in 1..N
      BY SMT, <1>1
    <3> QED
      BY Zenon, <1>3, <3>1 DEF BatchInv, CacheInv
  <2>2. \A i \in hits : responses'[i] = responses[i]
    BY Zenon, <1>4, <2>1
  <2>3. \A i : Waiting(i)' <=> Waiting(i)
    BY Zenon, <1>2 DEF Waiting
  <2> QED
    BY Zenon, <1>2, <2>2, <2>3 DEF BatchInv, CacheInv
<1>10. UpstreamIDsDiffer'
  BY Zenon, <1>2 DEF BatchInv, UpstreamIDsDiffer
<1> QED
  BY Zenon, <1>5, <1>6, <1>8, <1>9, <1>10 DEF BatchInv

LEMMA ParseLocalInv == ASSUME BatchInv, ParseLocal PROVE BatchInv'
<1>1. next # 0
  BY SMT DEF BatchInv, LoopInv
<1>2. Local(next) # Missing /\ Own(reqs[next], next, Local(next))
  BY Zenon, <1>1, LocalOwn DEF ParseLocal
<1> QED
  BY Zenon, <1>2, FilledNext DEF ParseLocal, cacheVars

(* The call at next is kept.                                               *)
LEMMA KeptNext ==
    ASSUME BatchInv, pc = "parse", next <= Len(reqs), Local(next) = Missing,
           kept' = kept \cup {next}, next' = next + 1,
           UNCHANGED <<reqs, headers, responses, todo, misses, hits, pc, error, cache, upstream>>
    PROVE  BatchInv'
<1> DEFINE N == Len(reqs)
<1>1. /\ N \in Nat /\ next \in 1..N /\ next + 1 \in 1..(N + 1) /\ pc \notin {"group", "mini", "done"}
      /\ (\A i : i \in 1..((next + 1) - 1) <=> i \in 1..(next - 1) \/ i = next)
  <2>1. N \in Nat
    BY Zenon, CallsAreSeq DEF BatchInv, LoopInv
  <2> QED
    BY SMT, <2>1 DEF BatchInv, LoopInv
<1>2. /\ reqs' = reqs /\ headers' = headers /\ responses' = responses /\ todo' = todo
      /\ misses' = misses /\ hits' = hits /\ pc' = pc /\ error' = error /\ cache' = cache
      /\ upstream' = upstream
  BY Zenon
<1>3. LoopInv'
  <2>1. \A i \in kept' : Local(i)' = Missing
    BY Zenon, <1>2, LocalSame DEF BatchInv, LoopInv
  <2>2. kept' \subseteq 1..(next' - 1)
    BY Zenon, <1>1 DEF BatchInv, LoopInv
  <2>3. responses' = [i \in 1..Len(reqs') |-> responses'[i]]
    <3>1. responses = [i \in 1..Len(reqs) |-> responses[i]]
      BY Zenon DEF BatchInv, LoopInv
    <3> QED
      BY SMT, <1>2, <3>1
  <2>4. pc' \notin {"group", "mini"}
    BY Zenon, <1>1, <1>2
  <2>5. reqs' \in Batches /\ next' \in 1..(Len(reqs') + 1)
    BY Zenon, <1>1, <1>2 DEF BatchInv, LoopInv
  <2> QED
    BY Zenon, <2>1, <2>2, <2>3, <2>4, <2>5 DEF LoopInv
<1>4. TodoInv'
  <2>1. kept \subseteq kept'
    BY Zenon
  <2> QED
    BY Zenon, <1>2, <2>1, TodoSame DEF BatchInv
<1>5. SlotsInv'
  <2>1. \A i \in 1..Len(reqs') : responses'[i] # Missing => Own(reqs'[i], i, responses'[i])
    BY Zenon, <1>2 DEF BatchInv, SlotsInv
  <2>2. \A i \in 1..(next' - 1) : i \notin kept' => responses'[i] # Missing
    BY Zenon, <1>1, <1>2 DEF BatchInv, SlotsInv
  <2>3. \A i \in kept' : Open(i)'
    BY Zenon, <1>2 DEF Open
  <2>4. pc' # "done"
    BY Zenon, <1>1, <1>2
  <2> QED
    BY Zenon, <2>1, <2>2, <2>3, <2>4 DEF SlotsInv
<1>6. CacheInv'
  <2>1. \A i : Waiting(i)' <=> Waiting(i)
    BY Zenon, <1>2 DEF Waiting
  <2> QED
    BY Zenon, <1>2, <2>1 DEF BatchInv, CacheInv
<1>7. UpstreamIDsDiffer'
  BY Zenon, <1>2 DEF BatchInv, UpstreamIDsDiffer
<1> QED
  BY Zenon, <1>3, <1>4, <1>5, <1>6, <1>7 DEF BatchInv

LEMMA AdmitInv == ASSUME BatchInv, NEW n, Admit(n) PROVE BatchInv'
<1>1. next # 0
  BY SMT DEF BatchInv, LoopInv
<1>2. /\ pc = "parse" /\ next <= Len(reqs) /\ Local(next) = Missing /\ next' = next + 1
      /\ UNCHANGED <<reqs, headers, todo, misses, hits, pc, error, cache, upstream>>
  BY Zenon DEF Admit, cacheVars
<1>3. reqs[next].kind # "malformed"
  BY Zenon, <1>1, <1>2, LocalOwn
<1>4. CASE kept' = kept \cup {next} /\ responses' = responses
  BY Zenon, <1>2, <1>4, KeptNext
<1>5. CASE /\ responses' = [responses EXCEPT ![next] = Failure(next, reqs[next].id)]
           /\ kept' = kept
  <2> DEFINE v == Failure(next, reqs[next].id)
  <2>1. v # Missing
    BY Zenon, <1>1, ResponseThere DEF Failure
  <2>2. Own(reqs[next], next, v)
    BY SMT, <1>3 DEF Failure, Response, Own
  <2> HIDE DEF v
  <2>3. responses' = [responses EXCEPT ![next] = v]
    BY Zenon, <1>5 DEF v
  <2> QED
    BY Zenon, <1>2, <1>5, <2>1, <2>2, <2>3, FilledNext
<1> QED
  BY Zenon, <1>4, <1>5 DEF Admit

(* Two calls with one ID have different numbers.                           *)
LEMMA GroupIDsDiffer ==
    ASSUME reqs \in Batches, kept \subseteq 1..Len(reqs), NEW i \in kept, NEW j \in kept, i < j,
           reqs[i].id = reqs[j].id
    PROVE  GroupID(i) # GroupID(j)
<1> DEFINE A == {m \in kept : m <= i /\ reqs[m].id = reqs[i].id}
           B == {m \in kept : m <= j /\ reqs[m].id = reqs[j].id}
<1>1. Len(reqs) \in Nat
  BY Zenon, CallsAreSeq
<1>2. i \in Nat /\ j \in Nat /\ ~(j <= i) /\ j <= j /\ \A m \in kept : m <= i => m <= j
  BY SMT, <1>1
<1>3. A \subseteq B /\ j \in B /\ j \notin A
  BY Zenon, <1>2
<1>4. IsFiniteSet(1..Len(reqs))
  BY SMT, <1>1, FS_Interval
<1>5. B \subseteq 1..Len(reqs)
  BY Zenon
<1>6. IsFiniteSet(B)
  <2> HIDE DEF B
  <2> QED
    BY Zenon, <1>4, <1>5, FS_Subset
<1>7. A # B
  BY Zenon, <1>3
<1>8. Cardinality(A) # Cardinality(B)
  <2> HIDE DEF A, B
  <2> QED
    BY Zenon, <1>3, <1>6, <1>7, FS_Subset
<1> QED
  BY Zenon, <1>8 DEF GroupID

(* The classes Batch makes of the kept calls.                              *)
Class(i) ==
    {j \in kept : GroupID(j) = GroupID(i) /\ GroupOf(reqs[j].kind) = GroupOf(reqs[i].kind)}

LEMMA ClassApart ==
    ASSUME LoopInv, NEW i \in kept
    PROVE  Class(i) \subseteq kept /\ Apart(reqs, Class(i)) /\ i \in Class(i)
<1>1. kept \subseteq 1..Len(reqs) /\ Len(reqs) \in Nat
  <2>1. Len(reqs) \in Nat
    BY Zenon, CallsAreSeq DEF LoopInv
  <2>2. \A m \in 1..(next - 1) : m \in 1..Len(reqs)
    BY SMT, <2>1 DEF LoopInv
  <2> QED
    BY Zenon, <2>1, <2>2 DEF LoopInv
<1>2. \A a, b \in kept : a # b => a < b \/ b < a
  BY SMT, <1>1
<1>3. ASSUME NEW a \in Class(i), NEW b \in Class(i), a # b PROVE reqs[a].id # reqs[b].id
  <2>1. a \in kept /\ b \in kept /\ GroupID(a) = GroupID(b)
    BY Zenon DEF Class
  <2>2. reqs \in Batches
    BY Zenon DEF LoopInv
  <2> QED
    BY Zenon, <1>1, <1>2, <1>3, <2>1, <2>2, GroupIDsDiffer
<1> QED
  BY Zenon, <1>3 DEF Class, Apart

LEMMA ClassesDisjoint ==
    ASSUME NEW i \in kept, NEW j \in kept, NEW m, m \in Class(i), m \in Class(j)
    PROVE  Class(i) = Class(j)
  BY Zenon DEF Class

LEMMA BatchStepInv == ASSUME BatchInv, Batch PROVE BatchInv'
<1>1. /\ pc = "parse" /\ next > Len(reqs) /\ pc' = "group"
      /\ todo' = {Class(i) : i \in kept}
      /\ reqs' = reqs /\ headers' = headers /\ next' = next /\ kept' = kept
      /\ responses' = responses /\ misses' = misses /\ hits' = hits /\ error' = error
      /\ cache' = cache /\ upstream' = upstream
  BY Zenon DEF Batch, Class, admitVars, cacheVars
<1>2. next = Len(reqs) + 1
  <2>1. Len(reqs) \in Nat
    BY Zenon, CallsAreSeq DEF BatchInv, LoopInv
  <2> QED
    BY SMT, <1>1, <2>1 DEF BatchInv, LoopInv
<1>3. pc' # "done" /\ pc' # "mini"
  BY SMT, <1>1
<1>4. LoopInv'
  BY Zenon, <1>1, <1>2, LoopSame DEF BatchInv
<1>5. hits = {} /\ pc' \notin {"accept", "parse"}
  BY SMT, <1>1 DEF BatchInv, CacheInv
<1>6. TodoInv'
  <2>2. \A b \in todo' : b \subseteq kept' /\ Apart(reqs', b)
    BY Zenon, <1>1, ClassApart DEF BatchInv
  <2>3. ASSUME NEW a \in todo', NEW b \in todo', NEW m \in a \cap b PROVE a = b
    <3>1. PICK i \in kept : a = Class(i)
      BY Zenon, <1>1
    <3>2. PICK j \in kept : b = Class(j)
      BY Zenon, <1>1
    <3> QED
      BY Zenon, <3>1, <3>2, ClassesDisjoint
  <2>4. SeqApart(reqs', misses') /\ misses' \in Seq(kept')
    BY Zenon, <1>1 DEF BatchInv, TodoInv
  <2> QED
    BY Zenon, <2>2, <2>3, <2>4 DEF TodoInv
<1>7. SlotsInv'
  <2>1. \A i \in kept' : Open(i)'
    BY Zenon, <1>1, ClassApart DEF Open, BatchInv
  <2> QED
    BY Zenon, <1>1, <1>3, <2>1 DEF BatchInv, SlotsInv
<1>8. CacheInv'
  BY Zenon, <1>1, <1>5 DEF BatchInv, CacheInv
<1>9. UpstreamIDsDiffer'
  BY Zenon, <1>1 DEF BatchInv, UpstreamIDsDiffer
<1> QED
  BY Zenon, <1>4, <1>6, <1>7, <1>8, <1>9 DEF BatchInv

LEMMA KeptFinite == ASSUME LoopInv PROVE kept \subseteq 1..Len(reqs) /\ IsFiniteSet(kept)
<1>1. Len(reqs) \in Nat
  BY Zenon, CallsAreSeq DEF LoopInv
<1>2. \A m \in 1..(next - 1) : m \in 1..Len(reqs)
  BY SMT, <1>1 DEF LoopInv
<1>3. kept \subseteq 1..Len(reqs)
  BY Zenon, <1>2 DEF LoopInv
<1>4. IsFiniteSet(1..Len(reqs))
  BY SMT, <1>1, FS_Interval
<1> QED
  BY Zenon, <1>3, <1>4, FS_Subset

LEMMA SeqMono == ASSUME NEW S, NEW T, S \subseteq T, NEW s \in Seq(S) PROVE s \in Seq(T)
  BY SMT

LEMMA InOrderIs ==
    ASSUME NEW S, IsFiniteSet(S), S \subseteq Nat, NEW s \in InOrder(S)
    PROVE  /\ s \in Seq(S)
           /\ \A i \in S : \E k \in 1..Len(s) : s[k] = i
           /\ \A k, l \in 1..Len(s) : k # l => s[k] # s[l]
<1> DEFINE n == Cardinality(S)
<1>1. n \in Nat
  BY Zenon, FS_CardinalityType
<1>2. s \in [1..n -> S] /\ Range(s) = S /\ \A k, l \in 1..n : k < l => s[k] < s[l]
  BY Zenon DEF InOrder
<1> HIDE DEF n
<1>3. s \in Seq(S) /\ Len(s) = n /\ DOMAIN s = 1..n
  BY SMT, <1>1, <1>2
<1>4. \A i \in S : \E k \in 1..n : s[k] = i
  BY Zenon, <1>2, <1>3 DEF Range
<1>5. \A k \in 1..n : s[k] \in Nat
  BY Zenon, <1>2
<1>6. \A k, l \in 1..n : k # l => s[k] # s[l]
  BY SMT, <1>1, <1>2, <1>5
<1> QED
  BY Zenon, <1>3, <1>4, <1>6

LEMMA GroupInv == ASSUME BatchInv, NEW batch, NEW answered, Group(batch, answered) PROVE BatchInv'
<1> DEFINE S == batch \ answered
           N == Len(reqs)
<1>1. /\ pc = "group" /\ batch \in todo /\ pc' = "mini" /\ answered \subseteq batch
      /\ hits' = hits \cup answered /\ todo' = todo \ {batch} /\ misses' \in InOrder(S)
      /\ reqs' = reqs /\ headers' = headers /\ next' = next /\ kept' = kept
      /\ error' = error /\ cache' = cache /\ upstream' = upstream
  BY Zenon DEF Group, admitVars, cacheVars
<1>2. PICK found \in [answered -> cache] :
         /\ \A i \in answered : found[i] \in Found(i)
         /\ responses' = [i \in 1..N |->
                IF i \in answered
                THEN Response(i, reqs[i].id, found[i].content, found[i].headers)
                ELSE responses[i]]
  BY Zenon DEF Group
<1>3. /\ batch \subseteq kept /\ Apart(reqs, batch) /\ kept \subseteq 1..N /\ IsFiniteSet(kept)
      /\ N \in Nat /\ next = N + 1
  <2>1. N \in Nat
    BY Zenon, CallsAreSeq DEF BatchInv, LoopInv
  <2> QED
    BY Zenon, <1>1, <2>1, KeptFinite DEF BatchInv, TodoInv, LoopInv
<1>4. /\ S \subseteq kept /\ S \subseteq Nat /\ IsFiniteSet(S) /\ S \subseteq batch
      /\ \A i \in S : i \notin answered
  <2>1. 1..N \subseteq Nat
    BY SMT
  <2>2. S \subseteq kept
    BY Zenon, <1>3
  <2>3. IsFiniteSet(S)
    <3> HIDE DEF S
    <3> QED
      BY Zenon, <1>3, <2>2, FS_Subset
  <2> QED
    BY Zenon, <1>3, <2>1, <2>2, <2>3
<1> HIDE DEF S
<1>5. /\ misses' \in Seq(S)
      /\ \A i \in S : \E k \in 1..Len(misses') : misses'[k] = i
      /\ \A k, l \in 1..Len(misses') : k # l => misses'[k] # misses'[l]
  BY Zenon, <1>1, <1>4, InOrderIs
<1>6. \A k \in 1..Len(misses') : misses'[k] \in S
  BY SMT, <1>5
<1>7. pc \notin {"accept", "parse", "done", "mini"} /\ pc' \notin {"accept", "parse", "done"}
  BY SMT, <1>1
<1>8. /\ \A i \in answered :
            responses'[i] = Response(i, reqs[i].id, found[i].content, found[i].headers)
      /\ \A i \in 1..N : i \notin answered => responses'[i] = responses[i]
      /\ \A i \in answered : i \in kept /\ i \in 1..N /\ i # 0 /\ reqs[i].kind # "malformed"
  <2>1. \A i \in 1..N : i # 0
    BY SMT
  <2>2. \A i \in answered : i \in kept /\ i \in 1..N /\ i # 0
    BY Zenon, <1>1, <1>3, <2>1
  <2>3. \A i \in answered : reqs[i].kind # "malformed"
    BY Zenon, <2>2, LocalOwn DEF BatchInv, LoopInv
  <2> QED
    BY Zenon, <1>2, <2>2, <2>3
<1>9. LoopInv'
  <2>1. \A i \in kept' : Local(i)' = Missing
    BY Zenon, <1>1, LocalSame DEF BatchInv, LoopInv
  <2>2. responses' = [i \in 1..Len(reqs') |-> responses'[i]]
    BY Zenon, <1>1, <1>2
  <2> QED
    BY Zenon, <1>1, <1>3, <2>1, <2>2 DEF BatchInv, LoopInv
<1>10. TodoInv'
  <2>2. \A b \in todo' : b \subseteq kept' /\ Apart(reqs', b)
    BY Zenon, <1>1 DEF BatchInv, TodoInv
  <2>3. \A a, b \in todo' : a # b => a \cap b = {}
    BY Zenon, <1>1 DEF BatchInv, TodoInv
  <2>4. misses' \in Seq(kept')
    BY Zenon, <1>1, <1>4, <1>5, SeqMono
  <2>5. SeqApart(reqs', misses')
    BY Zenon, <1>1, <1>3, <1>4, <1>5, <1>6 DEF SeqApart, Apart
  <2> QED
    BY Zenon, <2>2, <2>3, <2>4, <2>5 DEF TodoInv
<1>11. SlotsInv'
  <2>1. ASSUME NEW i \in 1..N, responses'[i] # Missing PROVE Own(reqs[i], i, responses'[i])
    <3>1. CASE i \in answered
      <4> DEFINE r == Response(i, reqs[i].id, found[i].content, found[i].headers)
      <4>1. r.answers = i /\ r.id = reqs[i].id
        BY SMT DEF Response
      <4> HIDE DEF r
      <4>2. responses'[i] = r
        BY Zenon, <1>8, <3>1 DEF r
      <4> QED
        BY Zenon, <1>8, <3>1, <4>1, <4>2 DEF Own
    <3>2. CASE i \notin answered
      BY Zenon, <1>8, <2>1, <3>2 DEF BatchInv, SlotsInv
    <3> QED
      BY Zenon, <3>1, <3>2
  <2>2. ASSUME NEW i \in 1..(next - 1), i \notin kept PROVE responses'[i] # Missing
    <3>1. i \in 1..N
      BY SMT, <1>3
    <3> QED
      BY Zenon, <1>8, <2>2, <3>1 DEF BatchInv, SlotsInv
  <2>3. ASSUME NEW i \in kept PROVE responses'[i] # Missing \/ Open(i)'
    <3>1. CASE i \in answered
      <4> DEFINE r == Response(i, reqs[i].id, found[i].content, found[i].headers)
      <4>1. r # Missing
        BY SMT, <1>8, <3>1 DEF Response, Missing
      <4> HIDE DEF r
      <4>2. responses'[i] = r
        BY Zenon, <1>8, <3>1 DEF r
      <4> QED
        BY Zenon, <4>1, <4>2
    <3>2. CASE i \notin answered
      <4>1. responses'[i] = responses[i]
        BY Zenon, <1>3, <1>8, <3>2
      <4>2. responses[i] # Missing \/ \E b \in todo : i \in b
        BY Zenon, <1>7 DEF BatchInv, SlotsInv, Open
      <4>3. i \in batch => i \in S
        BY Zenon, <3>2 DEF S
      <4>4. i \in S => Open(i)'
        BY Zenon, <1>1, <1>5 DEF Open
      <4>5. ASSUME NEW b \in todo, i \in b, b # batch PROVE Open(i)'
        BY Zenon, <1>1, <4>5 DEF Open
      <4> QED
        BY Zenon, <4>1, <4>2, <4>3, <4>4, <4>5
    <3> QED
      BY Zenon, <3>1, <3>2
  <2> QED
    BY Zenon, <1>1, <1>7, <2>1, <2>2, <2>3 DEF SlotsInv
<1>12. CacheInv'
  <2>1. ASSUME NEW i \in hits' PROVE ~Waiting(i)'
    <3>1. ASSUME NEW b \in todo', i \in b PROVE FALSE
      <4>1. b \in todo /\ b # batch
        BY Zenon, <1>1
      <4>2. i \notin hits
        BY Zenon, <3>1, <4>1 DEF BatchInv, CacheInv, Waiting
      <4>3. i \notin answered
        BY Zenon, <1>1, <3>1, <4>1 DEF BatchInv, TodoInv
      <4> QED
        BY Zenon, <1>1, <4>2, <4>3
    <3>2. ASSUME NEW k \in 1..Len(misses'), misses'[k] = i PROVE FALSE
      <4>1. i \in batch /\ i \notin answered
        BY Zenon, <1>4, <1>6, <3>2
      <4>2. i \notin hits
        BY Zenon, <1>1, <4>1 DEF BatchInv, CacheInv, Waiting
      <4> QED
        BY Zenon, <1>1, <4>1, <4>2
    <3> QED
      BY Zenon, <3>1, <3>2 DEF Waiting
  <2>2. ASSUME NEW i \in hits' PROVE responses'[i].content = "final" /\ responses'[i].from = headers
    <3>1. CASE i \in answered
      <4>1. found[i] \in cache /\ found[i].key = Key(reqs[i].kind, headers)
        BY Zenon, <1>2, <3>1 DEF Found, GetRPC, Get
      <4>2. found[i].content = "final" /\ found[i].headers = found[i].key[2]
        BY Zenon, <4>1 DEF BatchInv, CacheInv, FinalEntry
      <4>3. found[i].key[2] = headers
        BY SMT, <4>1 DEF Key
      <4> DEFINE r == Response(i, reqs[i].id, found[i].content, found[i].headers)
      <4>4. r.content = found[i].content /\ r.from = found[i].headers
        BY SMT DEF Response
      <4> HIDE DEF r
      <4>5. responses'[i] = r
        BY Zenon, <1>8, <3>1 DEF r
      <4> QED
        BY Zenon, <4>2, <4>3, <4>4, <4>5
    <3>2. CASE i \notin answered
      <4>1. i \in hits /\ i \in 1..N
        BY Zenon, <1>1, <1>3, <3>2 DEF BatchInv, CacheInv
      <4> QED
        BY Zenon, <1>8, <3>2, <4>1 DEF BatchInv, CacheInv
    <3> QED
      BY Zenon, <3>1, <3>2
  <2>3. hits' \subseteq kept'
    BY Zenon, <1>1, <1>8 DEF BatchInv, CacheInv
  <2> QED
    BY Zenon, <1>1, <1>7, <2>1, <2>2, <2>3 DEF BatchInv, CacheInv
<1>13. UpstreamIDsDiffer'
  BY Zenon, <1>1 DEF BatchInv, UpstreamIDsDiffer
<1> QED
  BY Zenon, <1>9, <1>10, <1>11, <1>12, <1>13 DEF BatchInv

(* How a mini batch and what comes after it are cut from the misses.       *)
LEMMA MiniParts ==
    ASSUME misses \in Seq(kept)
    PROVE  /\ Mini \in Seq(kept) /\ After \in Seq(kept) /\ Len(Mini) <= MaxUpstreamBatchSize
           /\ \A k \in 1..Len(Mini) : k \in 1..Len(misses) /\ Mini[k] = misses[k]
           /\ \A k \in 1..Len(After) : MiniSize + k \in 1..Len(misses) /\ After[k] = misses[MiniSize + k]
           /\ \A k \in 1..Len(misses) : \/ k \in 1..Len(Mini)
                                        \/ \E l \in 1..Len(After) : k = MiniSize + l
           /\ MiniSize \in Nat /\ Len(Mini) = MiniSize
<1> DEFINE n == MiniSize
           L == Len(misses)
<1>1. n \in Nat /\ L \in Nat /\ n <= L /\ n <= MaxUpstreamBatchSize
  BY SMT, BatchAssumption DEF MiniSize
<1> HIDE DEF n
<1>2. Mini = SubSeq(misses, 1, n) /\ After = SubSeq(misses, n + 1, L)
  BY Zenon DEF Mini, After, n
<1>3. Mini \in Seq(kept) /\ Len(Mini) = n /\ \A k \in 1..n : Mini[k] = misses[k]
  BY SMT, <1>1, <1>2
<1>4. After \in Seq(kept) /\ Len(After) = L - n
  BY SMT, <1>1, <1>2
<1>5. \A k \in 1..(L - n) : After[k] = misses[n + k]
  BY SMT, <1>1, <1>2
<1>6. \A k \in 1..n : k \in 1..L
  BY SMT, <1>1
<1>7. \A k \in 1..(L - n) : n + k \in 1..L
  BY SMT, <1>1
<1>8. ASSUME NEW k \in 1..L, k \notin 1..n PROVE \E l \in 1..(L - n) : k = n + l
  <2>1. k - n \in 1..(L - n) /\ k = n + (k - n)
    BY SMT, <1>1, <1>8
  <2> QED
    BY Zenon, <2>1
<1> QED
  BY Zenon, <1>1, <1>3, <1>4, <1>5, <1>6, <1>7, <1>8 DEF n

LEMMA RewrittenSifted ==
    ASSUME Mini \in Seq(kept)
    PROVE  \E c : SiftedTo(Mini, Asked, Rewritten, c, Len(Mini))
<1>1. Rewritten = Filter(Mini, Asked)
  BY Zenon DEF Rewritten, Asked
<1> QED
  BY Zenon, <1>1, FilterKeeps

(* The calls a backend is asked differ in their IDs, like the misses.      *)
LEMMA RewrittenApart ==
    ASSUME misses \in Seq(kept), SeqApart(reqs, misses)
    PROVE  SeqApart(reqs, Rewritten) /\ Len(Rewritten) <= MaxUpstreamBatchSize /\ Len(Rewritten) \in Nat
<1>1. /\ Mini \in Seq(kept) /\ Len(Mini) <= MaxUpstreamBatchSize /\ Len(Mini) \in Nat
      /\ \A k \in 1..Len(Mini) : k \in 1..Len(misses) /\ Mini[k] = misses[k]
  BY Zenon, MiniParts
<1>2. PICK c : SiftedTo(Mini, Asked, Rewritten, c, Len(Mini))
  BY Zenon, <1>1, RewrittenSifted
<1>3. Len(Rewritten) \in Nat /\ Len(Rewritten) <= MaxUpstreamBatchSize
  <2>1. Rewritten \in Seq(Range(Mini)) /\ Len(Rewritten) <= Len(Mini)
    BY Zenon, <1>2 DEF SiftedTo
  <2>2. Len(Rewritten) \in Nat
    BY SMT, <2>1
  <2> QED
    BY SMT, <1>1, <2>1, <2>2, BatchAssumption
<1>4. ASSUME NEW k \in 1..Len(Rewritten), NEW l \in 1..Len(Rewritten), k # l
      PROVE  reqs[Rewritten[k]].id # reqs[Rewritten[l]].id
  <2>1. PICK m \in 1..Len(Mini) : c[m] = k /\ Mini[m] \in Asked
    BY Zenon, <1>2 DEF SiftedTo
  <2>2. PICK j \in 1..Len(Mini) : c[j] = l /\ Mini[j] \in Asked
    BY Zenon, <1>2 DEF SiftedTo
  <2>3. Rewritten[k] = Mini[m] /\ Rewritten[l] = Mini[j] /\ m # j
    BY Zenon, <1>2, <1>4, <2>1, <2>2 DEF SiftedTo
  <2>4. /\ m \in 1..Len(misses) /\ Mini[m] = misses[m]
        /\ j \in 1..Len(misses) /\ Mini[j] = misses[j]
    BY Zenon, <1>1
  <2>5. reqs[misses[m]].id # reqs[misses[j]].id
    BY Zenon, <2>3, <2>4 DEF SeqApart
  <2> QED
    BY Zenon, <2>3, <2>4, <2>5
<1> QED
  BY Zenon, <1>3, <1>4 DEF SeqApart

(* An answer in its place, that may go to the cache.                       *)
Fits(i, r) ==
    /\ r # Missing /\ Own(reqs[i], i, r)
    /\ r.content # "error" =>
          \A e \in PutRPC(Forwarded(reqs[i].kind), headers, r.content) : FinalEntry(e)

LEMMA FillInv ==
    ASSUME BatchInv, pc = "mini", upstream' = Rewritten, NEW res, Fill(res),
           \A k \in 1..Len(Mini) : Fits(Mini[k], res[k]),
           UNCHANGED <<reqs, headers, next, kept, todo, hits, pc, error>>
    PROVE  BatchInv'
<1> DEFINE N == Len(reqs)
<1>1. /\ reqs' = reqs /\ headers' = headers /\ next' = next /\ kept' = kept /\ todo' = todo
      /\ hits' = hits /\ pc' = pc /\ error' = error /\ misses' = After
  BY Zenon DEF Fill
<1>2. misses \in Seq(kept) /\ SeqApart(reqs, misses)
  BY Zenon DEF BatchInv, TodoInv
<1>3. /\ Mini \in Seq(kept) /\ After \in Seq(kept)
      /\ \A k \in 1..Len(Mini) : k \in 1..Len(misses) /\ Mini[k] = misses[k]
      /\ \A k \in 1..Len(After) : MiniSize + k \in 1..Len(misses) /\ After[k] = misses[MiniSize + k]
      /\ \A k \in 1..Len(misses) : \/ k \in 1..Len(Mini)
                                   \/ \E l \in 1..Len(After) : k = MiniSize + l
      /\ MiniSize \in Nat
  BY Zenon, <1>2, MiniParts
<1>4. kept \subseteq 1..N /\ DOMAIN Mini = 1..Len(Mini) /\ \A k \in 1..Len(Mini) : Mini[k] \in kept
  <2>1. kept \subseteq 1..N
    BY Zenon, KeptFinite DEF BatchInv
  <2>2. DOMAIN Mini = 1..Len(Mini) /\ \A k \in 1..Len(Mini) : Mini[k] \in kept
    BY SMT, <1>3
  <2> QED
    BY Zenon, <2>1, <2>2
<1>5. \A i : i \in Range(Mini) <=> \E k \in 1..Len(Mini) : Mini[k] = i
  BY Zenon, <1>4 DEF Range
<1>6. responses' = [i \in 1..N |->
                      IF i \in Range(Mini)
                      THEN res[CHOOSE k \in 1..Len(Mini) : Mini[k] = i]
                      ELSE responses[i]]
  BY Zenon DEF Fill
<1>7. /\ \A i \in Range(Mini) : Fits(i, responses'[i])
      /\ \A i \in 1..N : i \notin Range(Mini) => responses'[i] = responses[i]
  <2>1. ASSUME NEW i \in Range(Mini) PROVE Fits(i, responses'[i])
    <3> DEFINE k == CHOOSE k \in 1..Len(Mini) : Mini[k] = i
    <3>1. k \in 1..Len(Mini) /\ Mini[k] = i
      BY Zenon, <1>5
    <3>2. i \in 1..N
      BY Zenon, <1>4, <3>1
    <3>3. responses'[i] = res[k]
      BY Zenon, <1>6, <3>2
    <3> HIDE DEF k
    <3> QED
      BY Zenon, <3>1, <3>3
  <2>2. ASSUME NEW i \in 1..N, i \notin Range(Mini) PROVE responses'[i] = responses[i]
    BY Zenon, <1>6, <2>2
  <2> QED
    BY Zenon, <2>1, <2>2
<1>8. LoopInv'
  <2>1. \A i \in kept' : Local(i)' = Missing
    BY Zenon, <1>1, LocalSame DEF BatchInv, LoopInv
  <2>2. responses' = [i \in 1..Len(reqs') |-> responses'[i]]
    <3> DEFINE E(i) == IF i \in Range(Mini)
                       THEN res[CHOOSE k \in 1..Len(Mini) : Mini[k] = i] ELSE responses[i]
    <3>1. responses' = [i \in 1..N |-> E(i)]
      BY Zenon, <1>6
    <3> HIDE DEF E
    <3> QED
      BY Zenon, <1>1, <3>1
  <2> QED
    BY Zenon, <1>1, <2>1, <2>2 DEF BatchInv, LoopInv
<1>9. TodoInv'
  <2>1. \A b \in todo : b \subseteq kept /\ Apart(reqs, b)
    BY Zenon DEF BatchInv, TodoInv
  <2>2. \A b \in todo' : b \subseteq kept' /\ Apart(reqs', b)
    BY Zenon, <1>1, <2>1
  <2>3. \A a, b \in todo' : a # b => a \cap b = {}
    BY Zenon, <1>1 DEF BatchInv, TodoInv
  <2>4. ASSUME NEW k \in 1..Len(After), NEW l \in 1..Len(After), k # l
        PROVE  reqs[After[k]].id # reqs[After[l]].id
    <3>1. Len(After) \in Nat
      BY SMT, <1>3
    <3>2. MiniSize + k # MiniSize + l
      BY SMT, <1>3, <3>1, <2>4
    <3>3. /\ MiniSize + k \in 1..Len(misses) /\ After[k] = misses[MiniSize + k]
          /\ MiniSize + l \in 1..Len(misses) /\ After[l] = misses[MiniSize + l]
      BY Zenon, <1>3
    <3>4. reqs[misses[MiniSize + k]].id # reqs[misses[MiniSize + l]].id
      BY Zenon, <1>2, <3>2, <3>3 DEF SeqApart
    <3> QED
      BY Zenon, <3>3, <3>4
  <2>5. SeqApart(reqs, After)
    BY Zenon, <2>4 DEF SeqApart
  <2>7. SeqApart(reqs', misses')
    BY Zenon, <1>1, <2>5
  <2>6. misses' \in Seq(kept')
    BY Zenon, <1>1, <1>3
  <2> QED
    BY Zenon, <2>2, <2>3, <2>6, <2>7 DEF TodoInv
<1>10. SlotsInv'
  <2>1. ASSUME NEW i \in 1..N, responses'[i] # Missing PROVE Own(reqs[i], i, responses'[i])
    BY Zenon, <1>7, <2>1 DEF Fits, BatchInv, SlotsInv
  <2>2. ASSUME NEW i \in 1..(next - 1), i \notin kept PROVE responses'[i] # Missing
    <3>1. N \in Nat
      BY Zenon, CallsAreSeq DEF BatchInv, LoopInv
    <3>2. i \in 1..N
      BY SMT, <3>1 DEF BatchInv, LoopInv
    <3> QED
      BY Zenon, <1>7, <2>2, <3>2 DEF Fits, BatchInv, SlotsInv
  <2>3. pc # "done" /\ pc \notin {"accept", "parse"}
    BY SMT
  <2>4. ASSUME NEW i \in kept PROVE responses'[i] # Missing \/ Open(i)'
    <3>1. CASE i \in Range(Mini)
      BY Zenon, <1>7, <3>1 DEF Fits
    <3>2. CASE i \notin Range(Mini)
      <4>1. responses'[i] = responses[i]
        BY Zenon, <1>4, <1>7, <3>2
      <4>2. \/ responses[i] # Missing \/ (\E b \in todo : i \in b)
            \/ \E k \in 1..Len(misses) : misses[k] = i
        BY Zenon, <2>3 DEF BatchInv, SlotsInv, Open
      <4>3. (\E b \in todo : i \in b) => Open(i)'
        BY Zenon, <1>1 DEF Open
      <4>4. ASSUME NEW k \in 1..Len(misses), misses[k] = i PROVE Open(i)'
        <5>1. k \notin 1..Len(Mini)
          BY Zenon, <1>3, <1>5, <3>2, <4>4
        <5>2. PICK l \in 1..Len(After) : k = MiniSize + l
          BY Zenon, <1>3, <5>1
        <5>3. After[l] = i
          BY Zenon, <1>3, <4>4, <5>2
        <5> QED
          BY Zenon, <1>1, <5>3 DEF Open
      <4> QED
        BY Zenon, <4>1, <4>2, <4>3, <4>4
    <3> QED
      BY Zenon, <3>1, <3>2
  <2> QED
    BY Zenon, <1>1, <2>1, <2>2, <2>3, <2>4 DEF SlotsInv
<1>11. CacheInv'
  <2>1. ASSUME NEW i \in hits PROVE ~Waiting(i)' /\ i \notin Range(Mini)
    <3>1. ~Waiting(i)
      BY Zenon DEF BatchInv, CacheInv
    <3>2. i \notin Range(Mini)
      BY Zenon, <1>3, <1>5, <3>1 DEF Waiting
    <3>3. \A k \in 1..Len(After) : After[k] # i
      BY Zenon, <1>3, <3>1 DEF Waiting
    <3> QED
      BY Zenon, <1>1, <3>1, <3>2, <3>3 DEF Waiting
  <2>2. \A i \in hits : responses'[i] = responses[i]
    BY Zenon, <1>4, <1>7, <2>1 DEF BatchInv, CacheInv
  <2>3. ASSUME NEW e \in cache' PROVE FinalEntry(e)
    <3>1. e \in cache \/ \E k \in 1..Len(Mini) :
             e \in IF res[k].content = "error" THEN {}
                   ELSE PutRPC(Forwarded(reqs[Mini[k]].kind), headers, res[k].content)
      BY Zenon DEF Fill
    <3>2. ASSUME NEW k \in 1..Len(Mini), res[k].content # "error",
                 e \in PutRPC(Forwarded(reqs[Mini[k]].kind), headers, res[k].content)
          PROVE  FinalEntry(e)
      BY Zenon, <3>2 DEF Fits
    <3> QED
      BY Zenon, <3>1, <3>2 DEF BatchInv, CacheInv
  <2> QED
    BY Zenon, <1>1, <2>1, <2>2, <2>3 DEF BatchInv, CacheInv
<1>12. UpstreamIDsDiffer'
  <2>1. SeqApart(reqs, Rewritten) /\ Len(Rewritten) <= MaxUpstreamBatchSize
    BY Zenon, <1>2, RewrittenApart
  <2>2. SeqApart(reqs', upstream') /\ Len(upstream') <= MaxUpstreamBatchSize
    BY Zenon, <1>1, <2>1
  <2> QED
    BY Zenon, <2>2 DEF SeqApart, UpstreamIDsDiffer
<1> QED
  BY Zenon, <1>8, <1>9, <1>10, <1>11, <1>12 DEF BatchInv

LEMMA UnservedInv == ASSUME BatchInv, Unserved PROVE BatchInv'
<1> DEFINE res == [k \in 1..Len(Mini) |-> Failure(Mini[k], reqs[Mini[k]].id)]
<1>1. /\ pc = "mini" /\ upstream' = Rewritten /\ Fill(res)
      /\ UNCHANGED <<reqs, headers, next, kept, todo, hits, pc, error>>
  BY Zenon DEF Unserved, admitVars
<1>2. ASSUME NEW k \in 1..Len(Mini) PROVE Fits(Mini[k], res[k])
  <2> DEFINE i == Mini[k]
  <2>1. i \in kept /\ i # 0
    <3>1. Mini \in Seq(kept)
      BY Zenon, MiniParts DEF BatchInv, TodoInv
    <3>2. i \in kept
      BY SMT, <3>1
    <3>3. \A m \in 1..Len(reqs) : m # 0
      BY SMT
    <3> QED
      BY Zenon, <3>2, <3>3, KeptFinite DEF BatchInv
  <2>2. reqs[i].kind # "malformed"
    BY Zenon, <2>1, LocalOwn DEF BatchInv, LoopInv
  <2>3. res[k] = Failure(i, reqs[i].id)
    BY Zenon
  <2> HIDE DEF i
  <2>4. Fits(i, Failure(i, reqs[i].id))
    BY SMT, <2>1, <2>2 DEF Fits, Failure, Response, Missing, Own
  <2> QED
    BY Zenon, <2>3, <2>4 DEF i
<1> HIDE DEF res
<1> QED
  BY Zenon, <1>1, <1>2, FillInv

(* What a backend says about call i.                                       *)
Answer(i, contents) == Response(i, reqs[i].id, contents[i], headers)
Sent(arrival, contents) ==
    [k \in 1..Len(arrival) |->
        Response(arrival[k], reqs[arrival[k]].id, contents[arrival[k]], headers)]

(* Sorting puts the answers in the order of the calls, in whatever order   *)
(* they arrived: their IDs tell them apart.                                *)
LEMMA SortedByID ==
    ASSUME NEW req, NEW X, req \in Seq(X), SeqApart(reqs, req), NEW contents,
           NEW arrival \in [1..Len(req) -> Range(req)], Range(arrival) = Range(req)
    PROVE  /\ Len(SortBatch(req, Sent(arrival, contents))) = Len(req)
           /\ \A k \in 1..Len(req) :
                 SortBatch(req, Sent(arrival, contents))[k] = Answer(req[k], contents)
<1> DEFINE res == Sent(arrival, contents)
           n == Len(req)
<1>1. n \in Nat /\ DOMAIN req = 1..n
  BY SMT
<1>2. Len(arrival) = n /\ DOMAIN arrival = 1..n
  BY SMT, <1>1
<1>3. res = [k \in 1..n |-> Answer(arrival[k], contents)]
  BY Zenon, <1>2 DEF Sent, Answer
<1>4. DOMAIN res = 1..n /\ \A k \in 1..n : res[k] = Answer(arrival[k], contents)
  BY Zenon, <1>3
<1>5. Len(res) = n
  <2> DEFINE g(k) == Answer(arrival[k], contents)
  <2> HIDE DEF g
  <2>1. res = [k \in 1..n |-> g(k)]
    BY Zenon, <1>3 DEF g
  <2> HIDE DEF res
  <2> QED
    BY SMT, <1>1, <2>1
<1> HIDE DEF res
<1> DEFINE s == SortBatch(req, res)
<1>6. s = [k \in 1..n |-> CHOOSE x \in Range(res) : x.id = reqs[req[k]].id]
  BY Zenon, <1>5 DEF SortBatch
<1>7. Len(s) = n
  <2> DEFINE g(k) == CHOOSE x \in Range(res) : x.id = reqs[req[k]].id
  <2> HIDE DEF g
  <2>1. s = [k \in 1..n |-> g(k)]
    BY Zenon, <1>6 DEF g
  <2> HIDE DEF s
  <2> QED
    BY SMT, <1>1, <2>1
<1>8. ASSUME NEW k \in 1..n PROVE s[k] = Answer(req[k], contents)
  <2> DEFINE id == reqs[req[k]].id
             a == Answer(req[k], contents)
  <2>1. a.id = id
    BY SMT DEF Answer, Response
  <2>2. a \in Range(res)
    <3>1. req[k] \in Range(arrival)
      BY Zenon, <1>1 DEF Range
    <3>2. PICK j \in 1..n : arrival[j] = req[k]
      BY Zenon, <1>2, <3>1 DEF Range
    <3>3. res[j] = a
      BY Zenon, <1>4, <3>2
    <3> QED
      BY Zenon, <1>4, <3>3 DEF Range
  <2>3. ASSUME NEW x \in Range(res), x.id = id PROVE x = a
    <3>1. PICK j \in 1..n : x = Answer(arrival[j], contents)
      BY Zenon, <1>4 DEF Range
    <3>2. x.id = reqs[arrival[j]].id
      BY SMT, <3>1 DEF Answer, Response
    <3>3. arrival[j] \in Range(req)
      BY Zenon
    <3>4. PICK l \in 1..n : req[l] = arrival[j]
      BY Zenon, <1>1, <3>3 DEF Range
    <3>5. reqs[req[l]].id = reqs[req[k]].id
      BY Zenon, <2>3, <3>2, <3>4
    <3>6. l = k
      BY Zenon, <3>5 DEF SeqApart
    <3> QED
      BY Zenon, <3>1, <3>4, <3>6
  <2>4. s[k] = CHOOSE x \in Range(res) : x.id = id
    BY Zenon, <1>6
  <2> HIDE DEF a, id, s
  <2> QED
    BY Zenon, <2>1, <2>2, <2>3, <2>4 DEF a
<1> QED
  BY Zenon, <1>7, <1>8 DEF s, res

LEMMA SentLen ==
    ASSUME NEW req, NEW X, req \in Seq(X), NEW contents,
           NEW arrival \in [1..Len(req) -> Range(req)]
    PROVE  Len(Sent(arrival, contents)) = Len(req)
<1> DEFINE g(k) == Response(arrival[k], reqs[arrival[k]].id, contents[arrival[k]], headers)
<1>1. Len(req) \in Nat
  BY SMT
<1>2. Len(arrival) = Len(req)
  BY SMT, <1>1
<1> HIDE DEF g
<1>3. Sent(arrival, contents) = [k \in 1..Len(req) |-> g(k)]
  BY Zenon, <1>2 DEF Sent, g
<1> QED
  BY SMT, <1>1, <1>3

LEMMA ServedInv ==
    ASSUME BatchInv, NEW arrival \in Arrivals, NEW contents, Served(arrival, contents)
    PROVE  BatchInv'
<1> DEFINE sorted == SortBatch(Rewritten, Sent(arrival, contents))
           res == OverrideResponses(sorted)
<1>1. /\ pc = "mini" /\ upstream' = Rewritten /\ Fill(res)
      /\ UNCHANGED <<reqs, headers, next, kept, todo, hits, pc, error>>
      /\ \A i \in Range(Rewritten) : contents[i] \in Contents(reqs[i].kind) \cup {"error"}
  BY Zenon DEF Served, Sent, admitVars
<1>2. misses \in Seq(kept) /\ SeqApart(reqs, misses)
  BY Zenon DEF BatchInv, TodoInv
<1>3. Mini \in Seq(kept)
  BY Zenon, <1>2, MiniParts
<1>4. PICK c : SiftedTo(Mini, Asked, Rewritten, c, Len(Mini))
  BY Zenon, <1>3, RewrittenSifted
<1>5. Rewritten \in Seq(Range(Mini)) /\ SeqApart(reqs, Rewritten)
  BY Zenon, <1>2, <1>4, RewrittenApart DEF SiftedTo
<1>6. arrival \in [1..Len(Rewritten) -> Range(Rewritten)] /\ Range(arrival) = Range(Rewritten)
  BY Zenon DEF Arrivals
<1>7. /\ Len(sorted) = Len(Rewritten)
      /\ \A k \in 1..Len(Rewritten) : sorted[k] = Answer(Rewritten[k], contents)
  BY Zenon, <1>5, <1>6, SortedByID
<1>8. /\ \A k \in 1..Len(Mini) : Mini[k] \in kept /\ Mini[k] # 0
      /\ Mini \in Seq(1..Len(reqs)) /\ DOMAIN Rewritten = 1..Len(Rewritten)
      /\ Len(Rewritten) \in Nat /\ Len(Mini) \in Nat
  <2>1. kept \subseteq 1..Len(reqs)
    BY Zenon, KeptFinite DEF BatchInv
  <2>2. Mini \in Seq(1..Len(reqs))
    BY Zenon, <1>3, <2>1, SeqMono
  <2>3. \A k \in 1..Len(Mini) : Mini[k] \in kept
    BY SMT, <1>3
  <2>4. \A m \in 1..Len(reqs) : m # 0
    BY SMT
  <2>5. DOMAIN Rewritten = 1..Len(Rewritten) /\ Len(Rewritten) \in Nat /\ Len(Mini) \in Nat
    BY SMT, <1>3, <1>5
  <2> QED
    BY Zenon, <2>1, <2>2, <2>3, <2>4, <2>5
<1> DEFINE X == {sorted[k] : k \in 1..Len(Rewritten)}
                \cup {FromConsensus(Mini[k]) : k \in 1..Len(Mini)}
<1>9. sorted \in Seq(X)
  <2> DEFINE g(k) == CHOOSE x \in Range(Sent(arrival, contents)) : x.id = reqs[Rewritten[k]].id
             m == Len(Sent(arrival, contents))
  <2>1. sorted = [k \in 1..m |-> g(k)]
    BY Zenon DEF SortBatch
  <2>2. m = Len(Rewritten)
    BY Zenon, <1>5, <1>6, SentLen
  <2>3. \A k \in 1..Len(Rewritten) : sorted[k] \in X
    BY Zenon
  <2> HIDE DEF g, m, sorted, X
  <2> QED
    BY SMT, <1>8, <2>1, <2>2, <2>3
<1>10. \A k \in 1..Len(Mini) : FromConsensus(Mini[k]) \in X
  BY Zenon
<1> HIDE DEF X, sorted
<1>11. \A k \in 1..Len(Mini) : res[k] = Placed(sorted, c, k)
  BY Zenon, <1>4, <1>7, <1>8, <1>9, <1>10, OverrideInPlace
<1> HIDE DEF res
<1>12. ASSUME NEW k \in 1..Len(Mini) PROVE Fits(Mini[k], res[k])
  <2> DEFINE i == Mini[k]
  <2>1. i \in kept /\ i # 0 /\ i \in 1..Len(reqs)
    BY Zenon, <1>8, KeptFinite DEF BatchInv
  <2>2. reqs[i].kind # "malformed"
    BY Zenon, <2>1, LocalOwn DEF BatchInv, LoopInv
  <2>3. CASE Overridden(reqs[i].kind)
    <3>1. res[k] = FromConsensus(i)
      BY Zenon, <1>11, <2>3 DEF Placed
    <3>2. \A h, x : PutRPC(Forwarded(reqs[i].kind), h, x) = {}
      BY SMT, <2>3 DEF Overridden, Forwarded, PutRPC, Handled
    <3> HIDE DEF i
    <3>3. FromConsensus(i) # Missing /\ Own(reqs[i], i, FromConsensus(i))
      BY SMT, <2>1, <2>2 DEF FromConsensus, Response, Missing, Own
    <3>4. Fits(i, FromConsensus(i))
      BY Zenon, <3>2, <3>3 DEF Fits
    <3> QED
      BY Zenon, <3>1, <3>4 DEF i
  <2>4. CASE ~Overridden(reqs[i].kind)
    <3>1. i \in Asked
      BY Zenon, <2>1, <2>4 DEF Asked
    <3>2. /\ c[k - 1] \in Nat /\ c[k] \in Nat /\ c[k] <= Len(Rewritten)
          /\ c[k] = c[k - 1] + 1 /\ Rewritten[c[k]] = i
      BY Zenon, <1>4, <3>1 DEF SiftedTo
    <3>3. c[k] \in 1..Len(Rewritten)
      BY SMT, <1>8, <3>2
    <3>4. res[k] = sorted[c[k]]
      BY Zenon, <1>11, <2>4 DEF Placed
    <3>5. res[k] = Answer(i, contents) /\ i \in Range(Rewritten)
      BY Zenon, <1>7, <1>8, <3>2, <3>3, <3>4 DEF Range
    <3>6. contents[i] \in Contents(reqs[i].kind) \cup {"error"}
      BY Zenon, <1>1, <3>5
    <3> HIDE DEF i
    <3> DEFINE r == Answer(i, contents)
    <3>7. r # Missing /\ Own(reqs[i], i, r) /\ r.content = contents[i]
      BY SMT, <2>1, <2>2 DEF Answer, Response, Missing, Own
    <3> HIDE DEF r
    <3>8. ASSUME r.content # "error",
                 NEW e \in PutRPC(Forwarded(reqs[i].kind), headers, r.content)
          PROVE  FinalEntry(e)
      <4>1. r.content \in Contents(reqs[i].kind)
        BY Zenon, <3>6, <3>7, <3>8
      <4> QED
        BY Zenon, <3>8, <4>1, PutFinal
    <3>9. Fits(i, r)
      BY Zenon, <3>7, <3>8 DEF Fits
    <3> QED
      BY Zenon, <3>5, <3>9 DEF i, r
  <2> QED
    BY Zenon, <2>3, <2>4
<1> QED
  BY Zenon, <1>1, <1>12, FillInv

LEMMA BatchInitial == Init => BatchInv
<1> SUFFICES ASSUME Init PROVE BatchInv
  OBVIOUS
<1>1. /\ reqs \in Batches /\ next = 1 /\ kept = {} /\ todo = {} /\ misses = << >> /\ hits = {}
      /\ pc = "accept" /\ error = FALSE /\ upstream = << >> /\ cache = {}
      /\ responses = [i \in 1..Len(reqs) |-> Missing]
  BY Zenon DEF Init
<1>2. Len(reqs) \in Nat
  BY Zenon, <1>1, CallsAreSeq
<1>3. /\ 1 \in 1..(Len(reqs) + 1) /\ (\A i : i \notin 1..(1 - 1)) /\ "accept" \notin {"group", "mini", "done"}
      /\ << >> \in Seq({}) /\ Len(<< >>) = 0 /\ (\A i : i \notin 1..0)
      /\ 0 <= MaxUpstreamBatchSize /\ "accept" \in {"accept", "parse"}
  BY SMT, <1>2, BatchAssumption
<1>4. LoopInv
  <2>1. responses = [i \in 1..Len(reqs) |-> responses[i]]
    BY SMT, <1>1
  <2> QED
    BY Zenon, <1>1, <1>3, <2>1 DEF LoopInv
<1>5. TodoInv
  BY Zenon, <1>1, <1>3 DEF TodoInv, SeqApart
<1>6. SlotsInv
  BY Zenon, <1>1, <1>3 DEF SlotsInv
<1>7. CacheInv
  BY Zenon, <1>1, <1>3 DEF CacheInv
<1>8. UpstreamIDsDiffer
  BY Zenon, <1>1, <1>3 DEF UpstreamIDsDiffer
<1> QED
  BY Zenon, <1>4, <1>5, <1>6, <1>7, <1>8 DEF BatchInv

LEMMA BatchNext == BatchInv /\ [Next]_vars => BatchInv'
<1> SUFFICES ASSUME BatchInv, [Next]_vars PROVE BatchInv'
  OBVIOUS
<1>1. CASE \/ \E ok \in BOOLEAN : Accept(ok)
           \/ ShortCircuit \/ CantBeBatched \/ Grouped \/ Finish \/ Deadline
           \/ UNCHANGED vars
  BY Zenon, <1>1, QuietSteps
<1>2. CASE ParseLocal
  BY Zenon, <1>2, ParseLocalInv
<1>3. ASSUME NEW n \in 0..MaxChecks, Admit(n) PROVE BatchInv'
  BY Zenon, <1>3, AdmitInv
<1>4. CASE Batch
  BY Zenon, <1>4, BatchStepInv
<1>5. ASSUME NEW batch \in todo, NEW answered \in SUBSET batch, Group(batch, answered)
      PROVE  BatchInv'
  BY Zenon, <1>5, GroupInv
<1>6. ASSUME NEW arrival \in Arrivals, NEW contents \in [Range(Rewritten) -> Answers],
             Served(arrival, contents)
      PROVE  BatchInv'
  BY Zenon, <1>6, ServedInv
<1>7. CASE Unserved
  BY Zenon, <1>7, UnservedInv
<1>8. CASE Meanwhile
  BY Zenon, <1>8, MeanwhileInv
<1> QED
  BY Zenon, <1>1, <1>2, <1>3, <1>4, <1>5, <1>6, <1>7, <1>8 DEF Next

LEMMA BatchInvariant == Spec => []BatchInv
  BY BatchInitial, BatchNext, PTL DEF Spec

LEMMA SlotsFollow == BatchInv => EachSlotItsOwnAnswer
<1> SUFFICES ASSUME BatchInv PROVE EachSlotItsOwnAnswer
  OBVIOUS
<1>1. Len(reqs) \in Nat
  BY Zenon, CallsAreSeq DEF BatchInv, LoopInv
<1>2. Len(responses) = Len(reqs)
  <2>1. responses = [i \in 1..Len(reqs) |-> responses[i]]
    BY Zenon DEF BatchInv, LoopInv
  <2> QED
    BY SMT, <1>1, <2>1
<1>3. \A i \in 1..Len(responses) : responses[i] # Missing =>
        /\ responses[i].answers = i
        /\ responses[i].id = (IF reqs[i].kind = "malformed" THEN "null" ELSE reqs[i].id)
  BY Zenon, <1>2 DEF BatchInv, SlotsInv, Own
<1>4. ASSUME pc = "done", ~error, NEW i \in 1..Len(responses) PROVE responses[i] # Missing
  <2>1. pc \notin {"accept", "parse", "group", "mini"} /\ pc # "mini"
    BY SMT, <1>4
  <2>2. ~Open(i)
    BY Zenon, <2>1 DEF Open
  <2>3. next = Len(reqs) + 1
    BY Zenon, <1>4 DEF BatchInv, SlotsInv
  <2>4. i \in 1..(next - 1)
    BY SMT, <1>1, <1>2, <2>3
  <2> QED
    BY Zenon, <1>4, <2>2, <2>4 DEF BatchInv, SlotsInv
<1> QED
  BY Zenon, <1>3, <1>4 DEF EachSlotItsOwnAnswer

(* Whatever a client sends, in whatever order the backends answer, and     *)
(* however handleBatchRPC groups and cuts the calls, sortBatchRPCResponse  *)
(* and OverrideResponses order the answers and the cache supplies some of  *)
(* them, each slot of the response holds the answer to its own call, and a *)
(* request that succeeds is answered in full.                              *)
THEOREM SlotsHoldTheirAnswers == Spec => []EachSlotItsOwnAnswer
  BY BatchInvariant, SlotsFollow, PTL

(* Since handleBatchRPC counts the calls with one ID, sortBatchRPCResponse *)
(* never sees an ID twice; and no batch exceeds the upstream limit.        *)
THEOREM UpstreamBatchesAreSound == Spec => []UpstreamIDsDiffer
<1>1. BatchInv => UpstreamIDsDiffer
  BY Zenon DEF BatchInv
<1> QED
  BY <1>1, BatchInvariant, PTL

(* rpcCache answers a call only with what is final, and was stored for the *)
(* headers of the request.                                                 *)
THEOREM CacheAnswersAreFinal == Spec => []CachedAnswersAreFinal
<1>1. BatchInv => CachedAnswersAreFinal
  BY Zenon DEF BatchInv, CacheInv, CachedAnswersAreFinal
<1> QED
  BY <1>1, BatchInvariant, PTL

-----------------------------------------------------------------------------
(***************************************************************************)
(* The limits.                                                             *)
(***************************************************************************)
LEMMA FilterRange ==
    ASSUME NEW X, NEW seq \in Seq(X), NEW S
    PROVE  /\ Range(Filter(seq, S)) = {x \in Range(seq) : x \in S}
           /\ (\A i, j \in 1..Len(seq) : seq[i] \in S /\ seq[i] = seq[j] => i = j)
                 => IsInjective(Filter(seq, S))
<1> DEFINE r == Filter(seq, S)
<1>1. PICK c : SiftedTo(seq, S, r, c, Len(seq))
  BY Zenon, FilterKeeps
<1>2. r \in Seq(Range(seq))
  BY Zenon, <1>1 DEF SiftedTo
<1> HIDE DEF r
<1>3. DOMAIN r = 1..Len(r) /\ Len(r) \in Nat /\ DOMAIN seq = 1..Len(seq)
  BY SMT, <1>2
<1>4. ASSUME NEW j \in 1..Len(r)
      PROVE  \E m \in 1..Len(seq) : c[m] = j /\ seq[m] \in S /\ r[j] = seq[m]
  <2>1. PICK m \in 1..Len(seq) : c[m] = j /\ seq[m] \in S
    BY Zenon, <1>1 DEF SiftedTo
  <2>2. r[c[m]] = seq[m]
    BY Zenon, <1>1, <2>1 DEF SiftedTo
  <2> QED
    BY Zenon, <2>1, <2>2
<1>5. ASSUME NEW m \in 1..Len(seq), seq[m] \in S PROVE \E j \in 1..Len(r) : r[j] = seq[m]
  <2>1. /\ c[m - 1] \in Nat /\ c[m] \in Nat /\ c[m] <= Len(r)
        /\ c[m] = c[m - 1] + 1 /\ r[c[m]] = seq[m]
    BY Zenon, <1>1, <1>5 DEF SiftedTo
  <2>2. c[m] \in 1..Len(r)
    BY SMT, <1>3, <2>1
  <2> QED
    BY Zenon, <2>1, <2>2
<1>6. Range(r) = {x \in Range(seq) : x \in S}
  <2>1. ASSUME NEW x \in Range(r) PROVE x \in Range(seq) /\ x \in S
    <3>1. PICK j \in 1..Len(r) : r[j] = x
      BY Zenon, <1>3 DEF Range
    <3>2. PICK m \in 1..Len(seq) : seq[m] \in S /\ r[j] = seq[m]
      BY Zenon, <1>4
    <3>3. x = seq[m]
      BY Zenon, <3>1, <3>2
    <3> QED
      BY Zenon, <1>3, <3>2, <3>3 DEF Range
  <2>2. ASSUME NEW x \in Range(seq), x \in S PROVE x \in Range(r)
    <3>1. PICK m \in 1..Len(seq) : seq[m] = x
      BY Zenon, <1>3 DEF Range
    <3>2. seq[m] \in S
      BY Zenon, <2>2, <3>1
    <3>3. PICK j \in 1..Len(r) : r[j] = seq[m]
      BY Zenon, <1>5, <3>2
    <3> QED
      BY Zenon, <1>3, <3>1, <3>3 DEF Range
  <2> QED
    BY Zenon, <2>1, <2>2
<1>7. ASSUME \A i, j \in 1..Len(seq) : seq[i] \in S /\ seq[i] = seq[j] => i = j
      PROVE  IsInjective(r)
  <2>1. ASSUME NEW a \in 1..Len(r), NEW b \in 1..Len(r), r[a] = r[b] PROVE a = b
    <3>1. PICK m \in 1..Len(seq) : c[m] = a /\ seq[m] \in S /\ r[a] = seq[m]
      BY Zenon, <1>4
    <3>2. PICK l \in 1..Len(seq) : c[l] = b /\ seq[l] \in S /\ r[b] = seq[l]
      BY Zenon, <1>4
    <3>3. m = l
      BY Zenon, <1>7, <2>1, <3>1, <3>2
    <3> QED
      BY Zenon, <3>1, <3>2, <3>3
  <2> QED
    BY Zenon, <1>3, <2>1 DEF IsInjective
<1> QED
  BY Zenon, <1>6, <1>7 DEF r

Sender == {"sender", "interopSender"}

(* The limits per client, which come first.                                *)
ClientChecks(kind) ==
    Limited("") \o (IF Method(kind) \in OverrideLims THEN Limited(Method(kind)) ELSE << >>)

LEMMA ClientChecksAre ==
    ASSUME NEW kind \in Kinds
    PROVE  /\ ClientChecks(kind) \in Seq(Limiters \ Sender) /\ Len(ClientChecks(kind)) <= 2
           /\ \A l : l \in Owed(kind) \ Sender <=>
                      \E k \in 1..Len(ClientChecks(kind)) : ClientChecks(kind)[k] = l
           /\ \A k, l \in 1..Len(ClientChecks(kind)) :
                 ClientChecks(kind)[k] = ClientChecks(kind)[l] => k = l
<1> DEFINE m == Method(kind)
           bound(x) == ~client.exempt \/ x \in GlobalMethods
           f == Limited("")
           o == IF m \in OverrideLims THEN Limited(m) ELSE << >>
<1>1. m # ""
  BY Zenon DEF Method, Kinds, TxKinds, Handled
<1>2. f = IF bound("") THEN <<"main">> ELSE << >>
  BY Zenon DEF Limited
<1>3. o = IF m \in OverrideLims /\ bound(m)
          THEN IF ~client.highPrio THEN <<"override">>
               ELSE IF m \in HighPrioLims THEN <<"highPrio">> ELSE << >>
          ELSE << >>
  BY Zenon, <1>1 DEF Limited
<1>4. \A l : l \in Owed(kind) \ Sender <=>
         \/ l = "main" /\ bound("")
         \/ l = "override" /\ m \in OverrideLims /\ bound(m) /\ ~client.highPrio
         \/ l = "highPrio" /\ m \in OverrideLims /\ m \in HighPrioLims /\ bound(m) /\ client.highPrio
  BY Zenon DEF Owed, Sender, Limiters
<1> DEFINE P == bound("")
           Q == m \in OverrideLims /\ bound(m)
           H == client.highPrio
           R == m \in HighPrioLims
           e == f \o o
<1>5. ClientChecks(kind) = e
  BY Zenon DEF ClientChecks
<1>6. \/ P /\ f = <<"main">>
      \/ ~P /\ f = << >>
  BY Zenon, <1>2
<1>7. \/ Q /\ ~H /\ o = <<"override">>
      \/ Q /\ H /\ R /\ o = <<"highPrio">>
      \/ ~(Q /\ ~H) /\ ~(Q /\ H /\ R) /\ o = << >>
  BY Zenon, <1>3
<1>8. \A l : l \in Owed(kind) \ Sender <=>
         \/ l = "main" /\ P
         \/ l = "override" /\ Q /\ ~H
         \/ l = "highPrio" /\ Q /\ H /\ R
  BY Zenon, <1>4
<1> HIDE DEF P, Q, H, R, f, o
<1>9. /\ e \in Seq(Limiters \ Sender) /\ Len(e) <= 2
      /\ \A l : l \in Owed(kind) \ Sender <=> \E k \in 1..Len(e) : e[k] = l
      /\ \A k, l \in 1..Len(e) : e[k] = e[l] => k = l
  <2>1. CASE f = << >>
    <3>1. e = o
      BY SMT, <2>1, <1>7
    <3>2. f # <<"main">>
      BY SMT, <2>1
    <3> HIDE DEF e
    <3>3. CASE e = << >>
      BY SMT, <3>1, <3>2, <3>3, <1>6, <1>7, <1>8 DEF Limiters, Sender
    <3>4. CASE e = <<"override">>
      BY SMT, <3>1, <3>2, <3>4, <1>6, <1>7, <1>8 DEF Limiters, Sender
    <3>5. CASE e = <<"highPrio">>
      BY SMT, <3>1, <3>2, <3>5, <1>6, <1>7, <1>8 DEF Limiters, Sender
    <3> QED
      BY Zenon, <3>1, <3>3, <3>4, <3>5, <1>7
  <2>2. CASE f = <<"main">> /\ o = << >>
    BY SMT, <2>2, <1>6, <1>7, <1>8 DEF Limiters, Sender
  <2>3. CASE f = <<"main">> /\ o = <<"override">>
    BY SMT, <2>3, <1>6, <1>7, <1>8 DEF Limiters, Sender
  <2>4. CASE f = <<"main">> /\ o = <<"highPrio">>
    BY SMT, <2>4, <1>6, <1>7, <1>8 DEF Limiters, Sender
  <2> QED
    BY Zenon, <2>1, <2>2, <2>3, <2>4, <1>6, <1>7
<1> HIDE DEF e
<1> QED
  BY Zenon, <1>5, <1>9

(* The checks of a transaction, which come after them.                     *)
TxChecks(kind) == IF kind \in TxKinds THEN SendChecks(kind) ELSE << >>

CheckNames == {"decode", "chain", "sender", "interopSender", "size", "accessList"}

(* What the rest of the argument needs of them.                            *)
TxFits(kind, b) ==
    /\ b \in Seq(CheckNames) /\ Len(b) <= 7
    /\ kind \notin TxKinds => b = << >>
    /\ \A l \in Sender : l \in Owed(kind) <=> \E k \in 1..Len(b) : b[k] = l
    /\ \A k \in 1..Len(b) : b[k] \notin Limiters \ Sender
    /\ \A k, l \in 1..Len(b) : b[k] \in Sender /\ b[k] = b[l] => k = l
    /\ \A k \in 1..Len(b) : b[k] \in Sender =>
          /\ \E j \in 1..(k - 1) : b[j] = "decode"
          /\ \E j \in 1..(k - 1) : b[j] = "chain"

LEMMA SenderOwed ==
    ASSUME NEW kind
    PROVE  /\ "sender" \in Owed(kind) <=> kind \in TxKinds /\ SenderLim
           /\ "interopSender" \in Owed(kind) <=> kind = "interop" /\ InteropSenderLim
  BY Zenon DEF Owed, Limiters

LEMMA TxChecksFit == ASSUME NEW kind \in Kinds PROVE TxFits(kind, TxChecks(kind))
<1> DEFINE b == TxChecks(kind)
<1> SUFFICES TxFits(kind, b)
  OBVIOUS
<1>1. /\ "sender" \in Owed(kind) <=> kind \in TxKinds /\ SenderLim
      /\ "interopSender" \in Owed(kind) <=> kind = "interop" /\ InteropSenderLim
  BY Zenon, SenderOwed
<1>2. CASE kind \notin TxKinds
  <2>1. b = << >> /\ kind # "interop"
    BY Zenon, <1>2 DEF TxChecks, TxKinds
  <2> HIDE DEF b
  <2> QED
    BY SMT, <1>1, <1>2, <2>1 DEF TxFits, Sender, Limiters
<1>3. CASE kind \in TxKinds /\ kind # "interop"
  <2>1. CASE SenderLim
    <3>1. b = <<"decode">> \o <<"chain", "sender">> \o << >>
      BY Zenon, <1>3, <2>1 DEF TxChecks, SendChecks, GenericRateLimitSender
    <3> HIDE DEF b
    <3>2. /\ b \in Seq(CheckNames) /\ Len(b) = 3
          /\ b[1] = "decode" /\ b[2] = "chain" /\ b[3] = "sender"
      BY SMT, <3>1 DEF CheckNames
    <3> QED
      BY SMT, <1>1, <1>3, <2>1, <3>2 DEF TxFits, Sender, Limiters
  <2>2. CASE ~SenderLim
    <3>1. b = <<"decode">> \o << >> \o << >>
      BY Zenon, <1>3, <2>2 DEF TxChecks, SendChecks
    <3> HIDE DEF b
    <3>2. /\ b \in Seq(CheckNames) /\ Len(b) = 1
          /\ b[1] = "decode"
      BY SMT, <3>1 DEF CheckNames
    <3> QED
      BY SMT, <1>1, <1>3, <2>2, <3>2 DEF TxFits, Sender, Limiters
  <2> QED
    BY Zenon, <2>1, <2>2
<1>4. CASE kind = "interop"
  <2>0. kind \in TxKinds
    BY Zenon, <1>4 DEF TxKinds
  <2>1. CASE SenderLim /\ InteropSenderLim
    <3>1. b = <<"decode">> \o <<"chain", "sender">>
                \o (<<"chain", "interopSender">> \o <<"size", "accessList">>)
      BY Zenon, <1>4, <2>0, <2>1
      DEF TxChecks, SendChecks, GenericRateLimitSender, ValidateInteropSendRpcRequest
    <3> HIDE DEF b
    <3>2. /\ b \in Seq(CheckNames) /\ Len(b) = 7
          /\ b[1] = "decode" /\ b[2] = "chain" /\ b[3] = "sender"
          /\ b[4] = "chain" /\ b[5] = "interopSender" /\ b[6] = "size"
          /\ b[7] = "accessList"
      BY SMT, <3>1 DEF CheckNames
    <3> QED
      BY SMT, <1>1, <1>4, <2>0, <2>1, <3>2 DEF TxFits, Sender, Limiters
  <2>2. CASE SenderLim /\ ~InteropSenderLim
    <3>1. b = <<"decode">> \o <<"chain", "sender">> \o (<< >> \o <<"size", "accessList">>)
      BY Zenon, <1>4, <2>0, <2>2
      DEF TxChecks, SendChecks, GenericRateLimitSender, ValidateInteropSendRpcRequest
    <3> HIDE DEF b
    <3>2. /\ b \in Seq(CheckNames) /\ Len(b) = 5
          /\ b[1] = "decode" /\ b[2] = "chain" /\ b[3] = "sender"
          /\ b[4] = "size" /\ b[5] = "accessList"
      BY SMT, <3>1 DEF CheckNames
    <3> QED
      BY SMT, <1>1, <1>4, <2>0, <2>2, <3>2 DEF TxFits, Sender, Limiters
  <2>3. CASE ~SenderLim /\ InteropSenderLim
    <3>1. b = <<"decode">> \o << >> \o (<<"chain", "interopSender">> \o <<"size", "accessList">>)
      BY Zenon, <1>4, <2>0, <2>3
      DEF TxChecks, SendChecks, GenericRateLimitSender, ValidateInteropSendRpcRequest
    <3> HIDE DEF b
    <3>2. /\ b \in Seq(CheckNames) /\ Len(b) = 5
          /\ b[1] = "decode" /\ b[2] = "chain" /\ b[3] = "interopSender"
          /\ b[4] = "size" /\ b[5] = "accessList"
      BY SMT, <3>1 DEF CheckNames
    <3> QED
      BY SMT, <1>1, <1>4, <2>0, <2>3, <3>2 DEF TxFits, Sender, Limiters
  <2>4. CASE ~SenderLim /\ ~InteropSenderLim
    <3>1. b = <<"decode">> \o << >> \o (<< >> \o <<"size", "accessList">>)
      BY Zenon, <1>4, <2>0, <2>4
      DEF TxChecks, SendChecks, ValidateInteropSendRpcRequest
    <3> HIDE DEF b
    <3>2. /\ b \in Seq(CheckNames) /\ Len(b) = 3
          /\ b[1] = "decode" /\ b[2] = "size" /\ b[3] = "accessList"
      BY SMT, <3>1 DEF CheckNames
    <3> QED
      BY SMT, <1>1, <1>4, <2>0, <2>4, <3>2 DEF TxFits, Sender, Limiters
  <2> QED
    BY Zenon, <2>1, <2>2, <2>3, <2>4
<1> QED
  BY Zenon, <1>2, <1>3, <1>4

(* What LimitsApply says of a call that took from the limiters t.          *)
PaidRight(kind, t, all) ==
    /\ all => Range(t) = Owed(kind)
    /\ Range(t) \subseteq Owed(kind) /\ IsInjective(t)
    /\ Range(t) \cap Sender # {} =>
          kind \in {"tx", "interop"} /\ Owed(kind) \ Sender \subseteq Range(t)

LEMMA TakenPays ==
    ASSUME NEW kind \in Kinds, NEW n \in 0..Len(Checks(kind)), Passes(kind, n)
    PROVE  PaidRight(kind, Taken(kind, n), n = Len(Checks(kind)))
<1> DEFINE A == ClientChecks(kind)
           B == TxChecks(kind)
           C == Checks(kind)
           X == Limiters \cup CheckNames
           m == IF n < Len(C) THEN n + 1 ELSE n
           S == SubSeq(C, 1, m)
           t == Filter(S, Limiters)
<1>1. C = A \o B
  BY Zenon DEF Checks, ClientChecks, TxChecks
<1>2. /\ A \in Seq(Limiters \ Sender)
      /\ \A l : l \in Owed(kind) \ Sender <=> \E k \in 1..Len(A) : A[k] = l
      /\ \A k, l \in 1..Len(A) : A[k] = A[l] => k = l
  BY Zenon, ClientChecksAre
<1>3. TxFits(kind, B)
  BY Zenon, TxChecksFit
<1>4. Taken(kind, n) = t
  BY Zenon DEF Taken
<1>5. \A k \in 1..n : CanPass(kind, C[k])
  BY Zenon DEF Passes
<1>6. Owed(kind) \subseteq Limiters
  BY Zenon DEF Owed
<1> HIDE DEF A, B
<1>7. B \in Seq(CheckNames)
  BY Zenon, <1>3 DEF TxFits
<1>8. Limiters \ Sender \subseteq X /\ CheckNames \subseteq X
  OBVIOUS
<1> HIDE DEF X, C
<1>9. n \in Nat /\ n <= Len(C)
  <2>1. Len(C) \in Nat
    BY SMT, <1>1, <1>2, <1>7
  <2> QED
    BY SMT, <2>1 DEF C
<1>10. A \in Seq(X) /\ B \in Seq(X)
  BY SMT, <1>2, <1>7, <1>8
<1>11. /\ C \in Seq(X) /\ Len(A) \in Nat /\ Len(B) \in Nat /\ Len(C) = Len(A) + Len(B)
       /\ \A k \in 1..Len(A) : C[k] = A[k]
       /\ \A k \in 1..Len(B) : C[Len(A) + k] = B[k]
       /\ \A k \in 1..Len(C) : k > Len(A) => k - Len(A) \in 1..Len(B) /\ C[k] = B[k - Len(A)]
  BY SMT, <1>1, <1>10
<1>12. m \in Nat /\ m <= Len(C) /\ m <= n + 1 /\ n <= m /\ (n = Len(C) => m = Len(C))
  BY SMT, <1>9, <1>11
<1> HIDE DEF m
<1>13. S \in Seq(X) /\ Len(S) = m /\ \A k \in 1..m : S[k] = C[k]
  BY SMT, <1>11, <1>12
<1> HIDE DEF S
<1>14. \A k \in 1..Len(A) : A[k] \in Limiters /\ A[k] \notin Sender
  BY SMT, <1>2
(* A limiter that is asked is asked once and is owed.                      *)
<1>15. ASSUME NEW k \in 1..Len(C), C[k] \in Limiters
       PROVE  /\ C[k] \in Owed(kind)
              /\ C[k] \in Sender => k > Len(A)
              /\ C[k] \notin Sender => k \in 1..Len(A)
  <2>1. CASE k \in 1..Len(A)
    <3>1. C[k] = A[k]
      BY Zenon, <1>11, <2>1
    <3> QED
      BY Zenon, <3>1, <1>2, <1>14, <2>1
  <2>2. CASE k > Len(A)
    <3>1. k - Len(A) \in 1..Len(B) /\ C[k] = B[k - Len(A)]
      BY Zenon, <1>11, <2>2
    <3>2. C[k] \in Sender
      BY Zenon, <1>3, <1>15, <3>1 DEF TxFits
    <3> QED
      BY Zenon, <1>3, <2>2, <3>1, <3>2 DEF TxFits
  <2>3. k \in 1..Len(A) \/ k > Len(A)
    BY SMT, <1>11
  <2> QED
    BY Zenon, <2>1, <2>2, <2>3
<1>16. ASSUME NEW k \in 1..Len(C), NEW l \in 1..Len(C), C[k] \in Limiters, C[k] = C[l]
       PROVE  k = l
  <2>1. C[l] \in Limiters
    BY Zenon, <1>16
  <2>2. CASE C[k] \in Sender
    <3>1. k > Len(A) /\ l > Len(A)
      BY Zenon, <1>15, <1>16, <2>1, <2>2
    <3>2. /\ k - Len(A) \in 1..Len(B) /\ C[k] = B[k - Len(A)]
          /\ l - Len(A) \in 1..Len(B) /\ C[l] = B[l - Len(A)]
      BY Zenon, <3>1, <1>11
    <3>3. \A i, j \in 1..Len(B) : B[i] \in Sender /\ B[i] = B[j] => i = j
      BY Zenon, <1>3 DEF TxFits
    <3> HIDE DEF B
    <3>4. k - Len(A) = l - Len(A)
      BY Zenon, <3>2, <3>3, <2>2, <1>16
    <3> QED
      BY SMT, <3>4, <1>11
  <2>3. CASE C[k] \notin Sender
    <3>1. k \in 1..Len(A) /\ l \in 1..Len(A)
      BY Zenon, <1>15, <1>16, <2>1, <2>3
    <3>2. A[k] = A[l]
      BY Zenon, <3>1, <1>11, <1>16
    <3> QED
      BY Zenon, <3>1, <3>2, <1>2
  <2> QED
    BY Zenon, <2>2, <2>3
<1>17. \A k \in 1..m : k \in 1..Len(C)
  BY SMT, <1>11, <1>12
<1>18. /\ Range(t) = {x \in Range(S) : x \in Limiters}
       /\ (\A i, j \in 1..Len(S) : S[i] \in Limiters /\ S[i] = S[j] => i = j) => IsInjective(t)
  BY Zenon, <1>13, FilterRange
<1> HIDE DEF t
<1>19. \A x : x \in Range(t) <=> x \in Limiters /\ \E k \in 1..m : C[k] = x
  <2>1. DOMAIN S = 1..m
    BY SMT, <1>13
  <2> QED
    BY Zenon, <1>13, <1>18, <2>1 DEF Range
<1>20. IsInjective(t)
  BY Zenon, <1>13, <1>16, <1>17, <1>18
<1>21. Range(t) \subseteq Owed(kind)
  BY Zenon, <1>15, <1>17, <1>19
<1>22. ASSUME n = Len(C) PROVE Range(t) = Owed(kind)
  <2>1. m = Len(C)
    BY Zenon, <1>12, <1>22
  <2>2. ASSUME NEW l \in Owed(kind) PROVE \E k \in 1..Len(C) : C[k] = l
    <3>1. CASE l \in Sender
      <4>1. PICK k \in 1..Len(B) : B[k] = l
        BY Zenon, <1>3, <3>1 DEF TxFits
      <4>2. Len(A) + k \in 1..Len(C) /\ C[Len(A) + k] = l
        BY SMT, <4>1, <1>11
      <4> QED
        BY Zenon, <4>2
    <3>2. CASE l \notin Sender
      <4>1. PICK k \in 1..Len(A) : A[k] = l
        BY Zenon, <1>2, <3>2
      <4>2. k \in 1..Len(C) /\ C[k] = l
        BY SMT, <4>1, <1>11
      <4> QED
        BY Zenon, <4>2
    <3> QED
      BY Zenon, <3>1, <3>2
  <2> QED
    BY Zenon, <2>1, <2>2, <1>6, <1>19, <1>21
<1>23. ASSUME Range(t) \cap Sender # {}
       PROVE  kind \in {"tx", "interop"} /\ Owed(kind) \ Sender \subseteq Range(t)
  <2>1. PICK k \in 1..m : C[k] \in Limiters /\ C[k] \in Sender
    BY Zenon, <1>19, <1>23
  <2>2. k > Len(A) /\ k \in 1..Len(C)
    BY Zenon, <1>15, <1>17, <2>1
  <2>3. k - Len(A) \in 1..Len(B) /\ B[k - Len(A)] \in Sender
    BY Zenon, <1>11, <2>1, <2>2
  <2>4. PICK i \in 1..(k - Len(A) - 1) : B[i] = "decode"
    BY Zenon, <1>3, <2>3 DEF TxFits
  <2>5. PICK j \in 1..(k - Len(A) - 1) : B[j] = "chain"
    BY Zenon, <1>3, <2>3 DEF TxFits
  <2>6. /\ i \in 1..Len(B) /\ Len(A) + i \in 1..n
        /\ j \in 1..Len(B) /\ Len(A) + j \in 1..n
    BY SMT, <1>9, <1>11, <1>12, <2>2, <2>3
  <2>7. kind # "badtx" /\ kind # "foreign"
    <3>1. C[Len(A) + i] = "decode" /\ C[Len(A) + j] = "chain"
      BY Zenon, <1>11, <2>4, <2>5, <2>6
    <3>2. CanPass(kind, C[Len(A) + i]) /\ CanPass(kind, C[Len(A) + j])
      BY Zenon, <1>5, <2>6
    <3> QED
      BY Zenon, <3>1, <3>2 DEF CanPass
  <2>8. kind \in TxKinds
    <3>1. B # << >>
      BY SMT, <2>3
    <3> QED
      BY Zenon, <1>3, <3>1 DEF TxFits
  <2>9. kind \in {"tx", "interop"}
    BY Zenon, <2>7, <2>8 DEF TxKinds
  <2>10. ASSUME NEW l \in Owed(kind) \ Sender PROVE l \in Range(t)
    <3>1. PICK a \in 1..Len(A) : A[a] = l
      BY Zenon, <1>2
    <3>2. a \in 1..m /\ C[a] = l
      BY SMT, <3>1, <1>11, <1>12, <2>1, <2>2
    <3> QED
      BY Zenon, <3>1, <3>2, <1>14, <1>19
  <2> QED
    BY Zenon, <2>9, <2>10
<1> QED
  BY Zenon, <1>4, <1>20, <1>21, <1>22, <1>23 DEF PaidRight, C

(* The bound MaxChecks of the next-state relation cuts nothing off.        *)
LEMMA ChecksBounded == ASSUME NEW kind \in Kinds PROVE Len(Checks(kind)) \in 0..MaxChecks
<1> DEFINE A == ClientChecks(kind)
           B == TxChecks(kind)
<1>1. Checks(kind) = A \o B
  BY Zenon DEF Checks, ClientChecks, TxChecks
<1>2. A \in Seq(Limiters \ Sender) /\ Len(A) <= 2
  BY Zenon, ClientChecksAre
<1>3. B \in Seq(CheckNames) /\ Len(B) <= 7
  BY Zenon, TxChecksFit DEF TxFits
<1> HIDE DEF A, B
<1>4. Len(A) \in Nat /\ Len(B) \in Nat /\ Len(A \o B) = Len(A) + Len(B)
  BY SMT, <1>2, <1>3
<1>5. Len(A \o B) \in 0..9
  BY SMT, <1>2, <1>3, <1>4
<1> QED
  BY Zenon, <1>1, <1>5 DEF MaxChecks

ChargedInv ==
    /\ charged = [i \in 1..Len(reqs) |-> charged[i]]
    /\ \A i \in 1..Len(reqs) : PaidRight(reqs[i].kind, charged[i], i \in kept)
LimitsInv == LoopInv /\ ChargedInv

LEMMA KindsKnown ==
    ASSUME reqs \in Batches, NEW i \in 1..Len(reqs)
    PROVE  reqs[i].kind \in Kinds
<1>1. reqs \in Seq(Range(reqs)) /\ \A call \in Range(reqs) : call.kind \in Kinds
  BY Zenon, BatchAssumption
<1>2. DOMAIN reqs = 1..Len(reqs)
  BY SMT, <1>1
<1>3. reqs[i] \in Range(reqs)
  BY Zenon, <1>2 DEF Range
<1> QED
  BY Zenon, <1>1, <1>3

LEMMA LimitsInitial == Init => ChargedInv
<1> SUFFICES ASSUME Init PROVE ChargedInv
  OBVIOUS
<1>1. charged = [i \in 1..Len(reqs) |-> << >>] /\ kept = {}
  BY Zenon DEF Init
<1>2. charged = [i \in 1..Len(reqs) |-> charged[i]]
  BY SMT, <1>1
<1>3. DOMAIN << >> = {}
  BY SMT
<1>4. Range(<< >>) = {}
  BY Zenon, <1>3 DEF Range
<1>5. IsInjective(<< >>)
  BY Zenon, <1>3 DEF IsInjective
<1>6. ASSUME NEW i \in 1..Len(reqs) PROVE PaidRight(reqs[i].kind, charged[i], i \in kept)
  <2>1. charged[i] = << >> /\ i \notin kept
    BY Zenon, <1>1
  <2> QED
    BY Zenon, <2>1, <1>4, <1>5 DEF PaidRight
<1> QED
  BY Zenon, <1>2, <1>6 DEF ChargedInv

(* What is owed is a matter of the configuration, the client and the call. *)
LEMMA OwedSame == ASSUME client' = client, NEW kind PROVE Owed(kind)' = Owed(kind)
  BY Zenon DEF Owed

LEMMA ChargedSame ==
    ASSUME ChargedInv, reqs' = reqs, client' = client, charged' = charged, kept' = kept
    PROVE  ChargedInv'
<1>1. \A kind : Owed(kind)' = Owed(kind)
  BY Zenon, OwedSame
<1>2. ASSUME NEW i \in 1..Len(reqs) PROVE PaidRight(reqs[i].kind, charged[i], i \in kept)'
  BY Zenon, <1>1 DEF ChargedInv, PaidRight
<1> QED
  BY Zenon, <1>2 DEF ChargedInv

LEMMA AdmitCharged ==
    ASSUME LimitsInv, NEW n, Admit(n)
    PROVE  ChargedInv'
<1> DEFINE kind == reqs[next].kind
<1>1. /\ next <= Len(reqs) /\ n \in 0..Len(Checks(kind)) /\ Passes(kind, n)
      /\ charged' = [charged EXCEPT ![next] = Taken(kind, n)]
      /\ kept' = IF n = Len(Checks(kind)) THEN kept \cup {next} ELSE kept
      /\ reqs' = reqs /\ client' = client
  BY Zenon DEF Admit
<1>2. /\ reqs \in Batches /\ next \in 1..(Len(reqs) + 1) /\ kept \subseteq 1..(next - 1)
      /\ charged = [i \in 1..Len(reqs) |-> charged[i]]
      /\ \A i \in 1..Len(reqs) : PaidRight(reqs[i].kind, charged[i], i \in kept)
  BY Zenon DEF LimitsInv, LoopInv, ChargedInv
<1>3. Len(reqs) \in Nat
  BY Zenon, <1>2, CallsAreSeq
<1>4. next \in 1..Len(reqs) /\ next \notin 1..(next - 1)
  BY SMT, <1>1, <1>2, <1>3
<1>5. kind \in Kinds
  BY Zenon, <1>2, <1>4, KindsKnown
<1>6. PaidRight(kind, Taken(kind, n), n = Len(Checks(kind)))
  BY Zenon, <1>1, <1>5, TakenPays
<1>7. \A k : Owed(k)' = Owed(k)
  BY Zenon, <1>1, OwedSame
<1>8. /\ charged' = [i \in 1..Len(reqs') |-> charged'[i]]
      /\ charged'[next] = Taken(kind, n)
      /\ \A i \in 1..Len(reqs) : i # next => charged'[i] = charged[i]
  <2>1. DOMAIN charged = 1..Len(reqs)
    BY Zenon, <1>2
  <2> QED
    BY Zenon, <1>1, <1>4, <2>1
<1>9. ASSUME NEW i \in 1..Len(reqs) PROVE PaidRight(reqs[i].kind, charged[i], i \in kept)'
  <2>1. CASE i = next
    <3>1. reqs'[i].kind = kind /\ charged'[i] = Taken(kind, n)
      BY Zenon, <1>1, <1>8, <2>1
    <3>2. i \in kept' => n = Len(Checks(kind))
      BY Zenon, <1>1, <1>2, <1>4, <2>1
    <3> QED
      BY Zenon, <3>1, <3>2, <1>6, <1>7 DEF PaidRight
  <2>2. CASE i # next
    <3>1. reqs'[i].kind = reqs[i].kind /\ charged'[i] = charged[i] /\ (i \in kept' => i \in kept)
      BY Zenon, <1>1, <1>8, <2>2
    <3>2. PaidRight(reqs[i].kind, charged[i], i \in kept)
      BY Zenon, <1>2
    <3> QED
      BY Zenon, <3>1, <3>2, <1>7 DEF PaidRight
  <2> QED
    BY Zenon, <2>1, <2>2
<1> QED
  BY Zenon, <1>1, <1>8, <1>9 DEF ChargedInv

LEMMA LimitsNext == LoopInv /\ ChargedInv /\ [Next]_vars => ChargedInv'
<1> SUFFICES ASSUME LoopInv, ChargedInv, [Next]_vars PROVE ChargedInv'
  OBVIOUS
<1>1. ASSUME NEW n \in 0..MaxChecks, Admit(n) PROVE ChargedInv'
  BY Zenon, <1>1, AdmitCharged DEF LimitsInv
<1>2. CASE \/ \E ok \in BOOLEAN : Accept(ok)
           \/ ParseLocal \/ Batch
           \/ \E batch \in todo : \E answered \in SUBSET batch : Group(batch, answered)
           \/ ShortCircuit
           \/ \E arrival \in Arrivals,
                 contents \in [Range(Rewritten) -> Answers] : Served(arrival, contents)
           \/ CantBeBatched \/ Unserved \/ Grouped \/ Finish \/ Deadline \/ Meanwhile
           \/ UNCHANGED vars
  <2>1. reqs' = reqs /\ client' = client /\ charged' = charged /\ kept' = kept
    BY Zenon, <1>2
    DEF Accept, ParseLocal, Batch, Group, ShortCircuit, Served, CantBeBatched, Unserved,
        Grouped, Finish, Deadline, Meanwhile, admitVars, vars
  <2> QED
    BY Zenon, <2>1, ChargedSame
<1> QED
  BY Zenon, <1>1, <1>2 DEF Next

(* The checks of handleBatchRPC, for every configuration of the limits and *)
(* every client: a listed call is forwarded only after it took, once each, *)
(* from all the limiters that hold for it; if it is refused it took only   *)
(* from such; and the limit of a sender is taken after those of the client *)
(* and only for a transaction that can be decoded and is for this chain.   *)
THEOREM LimitsAlwaysApply == Spec => []LimitsApply
<1>1. BatchInv => LoopInv
  BY Zenon DEF BatchInv
<1>2. ChargedInv => LimitsApply
  BY Zenon DEF ChargedInv, LimitsApply, PaidRight, Sender
<1> QED
  BY <1>1, <1>2, BatchInvariant, LimitsInitial, LimitsNext, PTL DEF Spec
=============================================================================
