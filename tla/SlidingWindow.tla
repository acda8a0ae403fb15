---------------------------- MODULE SlidingWindow ----------------------------
(***************************************************************************)
(* Moving averages (pkg/avg-sliding-window): data points are added to      *)
(* buckets of time, and buckets that have left the window are evicted.     *)
(* Add takes the lock twice, once to evict and once to insert, with the    *)
(* time read before either; Avg and Sum load their counters after the lock *)
(* is released.                                                            *)
(*                                                                         *)
(* The clock counts half buckets, so that rounding to the nearest bucket   *)
(* goes both ways.                                                         *)
(***************************************************************************)
EXTENDS Naturals, Sequences, FiniteSets

CONSTANTS
    Windows,        \* their names
    WindowLength,   \* in buckets
    MaxTime         \* bound on the clock

ASSUME WindowAssumption == WindowLength \in Nat \ {0} /\ MaxTime \in Nat

Round(t) == (t + 1) \div 2
Keys     == 0..Round(MaxTime)
Nothing  == [qty |-> 0, sum |-> 0]

VARIABLES
    now,
    win,        \* [Windows -> buckets in the order of insertion, qty and sum]
    added       \* history: what was admitted to each bucket, ever

windowVars == <<now, win, added>>

WindowInit ==
    /\ now = 0
    /\ win = [w \in Windows |-> [buckets |-> << >>, qty |-> 0, sum |-> 0]]
    /\ added = [w \in Windows |-> [k \in Keys |-> Nothing]]

Tick == now < MaxTime /\ now' = now + 1 /\ UNCHANGED <<win, added>>

(* key > Round(now) - WindowLength, without leaving the naturals.          *)
AfterWindowStart(k) == k + WindowLength > Round(now)

InWindow(k) == AfterWindowStart(k) /\ k <= Round(now)

(* The sum of f over S, as the size of a disjoint union.                   *)
SumOf(f, S) == Cardinality(UNION {{x} \X (1..f[x]) : x \in S})

Qtys(b) == [i \in 1..Len(b) |-> b[i].qty]
Sums(b) == [i \in 1..Len(b) |-> b[i].sum]

(* The loop of advance() stops at the first bucket inside the window.      *)
Evicted(b) ==
    CHOOSE n \in 0..Len(b) :
        /\ \A i \in 1..n : ~AfterWindowStart(b[i].key)
        /\ n < Len(b) => AfterWindowStart(b[n + 1].key)

(* Mutant: the counters are not reduced by the last bucket evicted.        *)
LeavesBehind(x, n) ==
    IF n = Len(x.buckets) /\ n > 0 THEN Nothing
    ELSE [qty |-> x.qty - SumOf(Qtys(x.buckets), 1..(n - 1)),
          sum |-> x.sum - SumOf(Sums(x.buckets), 1..(n - 1))]

(* The counters once the first n buckets are gone: zero with the last one. *)
Leaves(x, n) ==
    IF n = Len(x.buckets) /\ n > 0 THEN Nothing
    ELSE [qty |-> x.qty - SumOf(Qtys(x.buckets), 1..n),
          sum |-> x.sum - SumOf(Sums(x.buckets), 1..n)]

Advanced(x) ==
    LET n == Evicted(x.buckets) IN
    [buckets |-> SubSeq(x.buckets, n + 1, Len(x.buckets)),
     qty |-> Leaves(x, n).qty, sum |-> Leaves(x, n).sum]

Advance(w) == win' = [win EXCEPT ![w] = Advanced(@)] /\ UNCHANGED <<now, added>>

More(b, v) == [b EXCEPT !.qty = @ + 1, !.sum = @ + v]

(* A bucket that exists keeps its place, a new one comes last.             *)
Put(b, k, v) ==
    IF \E i \in 1..Len(b) : b[i].key = k
    THEN [i \in 1..Len(b) |-> IF b[i].key = k THEN More(b[i], v) ELSE b[i]]
    ELSE Append(b, [key |-> k, qty |-> 1, sum |-> v])

Inserted(x, k, v) ==
    [buckets |-> Put(x.buckets, k, v), qty |-> x.qty + 1, sum |-> x.sum + v]

(* The second locked part of AddWithTime(t, v).                            *)
Insert(w, t, v) ==
    /\ IF InWindow(Round(t))
       THEN /\ win' = [win EXCEPT ![w] = Inserted(@, Round(t), v)]
            /\ added' = [added EXCEPT ![w][Round(t)] = More(@, v)]
       ELSE UNCHANGED <<win, added>>
    /\ UNCHANGED now

-----------------------------------------------------------------------------
(* The running totals are those of the buckets held, whatever was evicted  *)
(* or inserted late: no step lets qty or sum drift, or wrap below zero.    *)
TotalsMatch(x) ==
    /\ x.qty = SumOf(Qtys(x.buckets), 1..Len(x.buckets))
    /\ x.sum = SumOf(Sums(x.buckets), 1..Len(x.buckets))

InOrder(b) == \A i, j \in 1..Len(b) : i < j => b[i].key < b[j].key

(* Data points are "evicted when they are too old based on windowLength":  *)
(* the totals are those of the buckets, and whenever advance() runs it     *)
(* leaves those of the points of the window, of no other, and none of them *)
(* is lost.  For the second it relies on buckets in order of time, which a *)
(* writer that is overtaken between its two locked parts can undo.         *)
WindowIsExact ==
    \A w \in Windows :
        /\ TotalsMatch(win[w])
        /\ InOrder(win[w].buckets) =>
              LET inside == {k \in Keys : InWindow(k)} IN
              /\ Advanced(win[w]).qty = SumOf([k \in Keys |-> added[w][k].qty], inside)
              /\ Advanced(win[w]).sum = SumOf([k \in Keys |-> added[w][k].sum], inside)
=============================================================================
